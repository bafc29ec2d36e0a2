--------------------------- MODULE OwnerOnlyFile ---------------------------
(***************************************************************************)
(* write_owner_only: commands writing key and certificate files, several   *)
(* at a time, each through a temporary file of its own that is written,    *)
(* synced and renamed over the destination.  Any system call may fail, the *)
(* clean-up included; a command may be killed and the machine may lose     *)
(* power between any two.                                                  *)
(*                                                                         *)
(* A file is [content, whole, synced].  A power loss tears a file that was *)
(* not synced; and the directory is never synced, so that a path may show  *)
(* again what it showed before, until the system flushes it by itself.     *)
(* Names of temporary files are random and taken as distinct.              *)
(***************************************************************************)
EXTENDS FiniteSets

CONSTANTS Writers, Paths, PathOf, ContentOf

ASSUME OwnerOnlyFileAssumption ==
  /\ PathOf \in [Writers -> Paths]
  /\ DOMAIN ContentOf = Writers

VARIABLES
  disk,        \* disk[p]: the file at path p, if any
  earlier,     \* earlier[p]: the files p may show after a power loss
  temp,        \* temp[w]: the temporary file of w, if it exists
  pc,          \* pc[w]: the next call of w, or how it ended
  unremoved    \* the commands whose clean-up failed

vars == <<disk, earlier, temp, pc, unremoved>>

File(content, whole, synced) == [content |-> content, whole |-> whole, synced |-> synced]

Running == {"create", "write", "sync", "rename", "cleanup"}

Goes(w, from, to) == pc[w] = from /\ pc' = [pc EXCEPT ![w] = to]

Create(w) ==
  /\ Goes(w, "create", "write")
  /\ temp' = [temp EXCEPT ![w] = {File(ContentOf[w], FALSE, FALSE)}]
  /\ UNCHANGED <<disk, earlier, unremoved>>

CreateFails(w) == Goes(w, "create", "failed") /\ UNCHANGED <<disk, earlier, temp, unremoved>>

WriteAll(w) ==
  /\ Goes(w, "write", "sync")
  /\ temp' = [temp EXCEPT ![w] = {File(ContentOf[w], TRUE, FALSE)}]
  /\ UNCHANGED <<disk, earlier, unremoved>>

WriteFails(w) == Goes(w, "write", "cleanup") /\ UNCHANGED <<disk, earlier, temp, unremoved>>

(* Mutant: the file is not synced before it is renamed. *)
SyncNothing(w) == Goes(w, "sync", "rename") /\ UNCHANGED <<disk, earlier, temp, unremoved>>

SyncAll(w) ==
  /\ Goes(w, "sync", "rename")
  /\ temp' = [temp EXCEPT ![w] = {File(ContentOf[w], TRUE, TRUE)}]
  /\ UNCHANGED <<disk, earlier, unremoved>>

SyncFails(w) == Goes(w, "sync", "cleanup") /\ UNCHANGED <<disk, earlier, temp, unremoved>>

Rename(w) ==
  /\ Goes(w, "rename", "done")
  /\ disk' = [disk EXCEPT ![PathOf[w]] = temp[w]]
  /\ earlier' = [earlier EXCEPT ![PathOf[w]] = @ \cup {temp[w]}]
  /\ temp' = [temp EXCEPT ![w] = {}]
  /\ UNCHANGED unremoved

(* Mutant: a failed rename leaves the temporary file where it is. *)
RenameGivesUp(w) == Goes(w, "rename", "failed") /\ UNCHANGED <<disk, earlier, temp, unremoved>>

RenameFails(w) == Goes(w, "rename", "cleanup") /\ UNCHANGED <<disk, earlier, temp, unremoved>>

(* Mutant: the error is forgotten once the temporary file is removed. *)
CleanupForgives(w) ==
  /\ Goes(w, "cleanup", "done")
  /\ temp' = [temp EXCEPT ![w] = {}]
  /\ UNCHANGED <<disk, earlier, unremoved>>

Cleanup(w) ==
  /\ Goes(w, "cleanup", "failed")
  /\ temp' = [temp EXCEPT ![w] = {}]
  /\ UNCHANGED <<disk, earlier, unremoved>>

(* A failure to remove is ignored: the first error is what is reported. *)
CleanupFails(w) ==
  /\ Goes(w, "cleanup", "failed")
  /\ unremoved' = unremoved \cup {w}
  /\ UNCHANGED <<disk, earlier, temp>>

Kill(w) ==
  /\ pc[w] \in Running
  /\ pc' = [pc EXCEPT ![w] = "killed"]
  /\ UNCHANGED <<disk, earlier, temp, unremoved>>

(* The system writes the directory of p out. *)
FlushDirectory(p) ==
  /\ earlier' = [earlier EXCEPT ![p] = {disk[p]}]
  /\ UNCHANGED <<disk, temp, pc, unremoved>>

(* What a file may be after a power loss. *)
Torn(file) ==
  {file} \cup {{File(f.content, FALSE, TRUE)} : f \in {f \in file : ~f.synced}}

PowerLoss ==
  /\ disk' \in [Paths -> UNION {UNION {Torn(file) : file \in earlier[p]} : p \in Paths}]
  /\ \A p \in Paths : disk'[p] \in UNION {Torn(file) : file \in earlier[p]}
  /\ earlier' = [p \in Paths |-> {disk'[p]}]
  /\ \E kept \in SUBSET Writers :
       temp' = [w \in Writers |-> IF w \in kept THEN temp[w] ELSE {}]
  /\ pc' = [w \in Writers |-> IF pc[w] \in Running THEN "killed" ELSE pc[w]]
  /\ UNCHANGED unremoved

Init ==
  /\ disk \in [Paths -> {{}, {File("old", TRUE, TRUE)}}]
  /\ earlier = [p \in Paths |-> {disk[p]}]
  /\ temp = [w \in Writers |-> {}]
  /\ pc = [w \in Writers |-> "create"]
  /\ unremoved = {}

Step(w) ==
  \/ Create(w)   \/ CreateFails(w)
  \/ WriteAll(w) \/ WriteFails(w)
  \/ SyncAll(w)  \/ SyncFails(w)
  \/ Rename(w)   \/ RenameFails(w)
  \/ Cleanup(w)  \/ CleanupFails(w)

Next ==
  \/ \E w \in Writers : Step(w) \/ Kill(w)
  \/ \E p \in Paths : FlushDirectory(p)
  \/ PowerLoss

Spec == Init /\ [][Next]_vars

-----------------------------------------------------------------------------
(***************************************************************************)
(* Properties.                                                             *)
(***************************************************************************)
(* Whatever fails, is killed or loses power, a path shows and may show     *)
(* only what it showed at first or all that some command wrote there: no   *)
(* reader ever finds a torn file (write_owner_only).                       *)
WholeFiles ==
  \A p \in Paths : \A file \in earlier[p] \cup {disk[p]} : \A f \in file :
    f.whole /\ (f.content = "old" \/ \E w \in Writers : PathOf[w] = p /\ f.content = ContentOf[w])

(* A command that ended by itself left no temporary file behind, unless    *)
(* the removal itself failed.                                              *)
NothingLeftBehind ==
  \A w \in Writers : pc[w] \in {"done", "failed"} /\ w \notin unremoved => temp[w] = {}

ContentsOf(file) == {IF f.whole THEN f.content ELSE "torn" : f \in file}

Files == INSTANCE DurableFiles WITH
  shown       <- [p \in Paths |-> ContentsOf(disk[p])],
  recoverable <- [p \in Paths |-> {ContentsOf(file) : file \in earlier[p]}],
  outcome     <- [w \in Writers |->
                    CASE pc[w] = "done"   -> "written"
                      [] pc[w] = "failed" -> "refused"
                      [] pc[w] = "killed" -> "lost"
                      [] OTHER            -> "pending"]

(* The calls together are one atomic write, and the way a command ends     *)
(* tells the truth: an error means that the destination is untouched by    *)
(* it, success that the destination was replaced, at one moment.           *)
ImplementsDurableFiles == Files!Spec
=============================================================================
