----------------------------- MODULE MCCommands -----------------------------
(***************************************************************************)
(* Small instances of Commands for TLC.                                    *)
(***************************************************************************)
EXTENDS Commands

Key(alg, secret) == [alg |-> alg, secret |-> secret]

caEs  == Key("ES256", "ca")
caEd  == Key("EdDSA", "ca")
keyW  == Key("EdDSA", "w")

MCKeys         == {caEs, caEd, keyW}
MCCaKeys       == {caEs, caEd}
MCCaKey        == {caEs}
MCWorkloadKeys == {keyW}
MCOtherUris    == {<<"a", "b">>, <<"no identifier">>, <<>>}
NoneOf         == {}
=============================================================================
