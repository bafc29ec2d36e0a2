-------------------------- MODULE MCOwnerOnlyFile --------------------------
(***************************************************************************)
(* Small instances of OwnerOnlyFile for TLC.                               *)
(***************************************************************************)
EXTENDS OwnerOnlyFile, Sequences

MCPathOf    == [w \in Writers |-> IF w = "other" THEN "q" ELSE "p"]
MCContentOf == [w \in Writers |-> "content of " \o w]
=============================================================================
