------------------------ MODULE OwnerOnlyFile_proofs ------------------------
(***************************************************************************)
(* That write_owner_only is one atomic write, for any number of commands,  *)
(* paths and contents, and whatever fails in between.                      *)
(***************************************************************************)
EXTENDS OwnerOnlyFile, TLAPS

(* The files that path p may hold: whole ones, synced. *)
Good(p) ==
  {{}} \cup {{File(c, TRUE, TRUE)} :
               c \in {"old"} \cup {ContentOf[w] : w \in {w \in Writers : PathOf[w] = p}}}

Ended == {"done", "failed", "killed"}

(* How far a command is and what its temporary file is, together. *)
TempInv(w) ==
  /\ pc[w] \in Running \cup Ended
  /\ pc[w] = "rename" => temp[w] = {File(ContentOf[w], TRUE, TRUE)}
  /\ pc[w] \in {"create", "done"} => temp[w] = {}
  /\ pc[w] = "failed" /\ w \notin unremoved => temp[w] = {}

PathInv(p) == disk[p] \in earlier[p] /\ earlier[p] \subseteq Good(p)

Inv ==
  /\ disk = [p \in Paths |-> disk[p]] /\ earlier = [p \in Paths |-> earlier[p]]
  /\ temp = [w \in Writers |-> temp[w]] /\ pc = [w \in Writers |-> pc[w]]
  /\ \A w \in Writers : TempInv(w)
  /\ \A p \in Paths : PathInv(p)

LEMMA InitInv == Init => Inv
<1> SUFFICES ASSUME Init PROVE Inv
  OBVIOUS
<1>1. ASSUME NEW p \in Paths PROVE PathInv(p)
  BY DEF Init, PathInv, Good
<1>2. ASSUME NEW w \in Writers PROVE TempInv(w)
  BY DEF Init, TempInv, Running
<1>3. QED
  BY <1>1, <1>2 DEF Init, Inv

(* A torn file was not synced, and the files of a path are. *)
LEMMA GoodIsWhole ==
  ASSUME NEW p, NEW file \in Good(p)
  PROVE  /\ Torn(file) = {file}
         /\ \A f \in file : /\ f.whole /\ f.synced
                            /\ f.content = "old" \/ \E w \in Writers :
                                 PathOf[w] = p /\ f.content = ContentOf[w]
<1>1. \A f \in file : /\ f.whole /\ f.synced
                      /\ f.content = "old" \/ \E w \in Writers :
                           PathOf[w] = p /\ f.content = ContentOf[w]
  BY DEF Good, File
<1>2. {f \in file : ~f.synced} = {}
  BY <1>1
<1>3. QED
  BY <1>1, <1>2 DEF Torn

(* The calls that leave every path alone. *)
LEMMA TempStepInv ==
  ASSUME Inv, NEW w \in Writers, UNCHANGED <<disk, earlier>>,
         \/ Create(w) \/ CreateFails(w) \/ WriteAll(w) \/ WriteFails(w)
         \/ SyncAll(w) \/ SyncFails(w) \/ RenameFails(w)
         \/ Cleanup(w) \/ CleanupFails(w) \/ Kill(w)
  PROVE  Inv'
<1>1. /\ temp' = [v \in Writers |-> temp'[v]] /\ pc' = [v \in Writers |-> pc'[v]]
      /\ \A v \in Writers \ {w} : /\ temp'[v] = temp[v] /\ pc'[v] = pc[v]
                                  /\ v \in unremoved' <=> v \in unremoved
  BY DEF Inv, Create, CreateFails, WriteAll, WriteFails, SyncAll, SyncFails,
         RenameFails, Cleanup, CleanupFails, Kill, Goes
<1>2. TempInv(w)'
  BY DEF Inv, TempInv, Create, CreateFails, WriteAll, WriteFails, SyncAll, SyncFails,
         RenameFails, Cleanup, CleanupFails, Kill, Goes, Running, Ended
<1>3. ASSUME NEW v \in Writers PROVE TempInv(v)'
  BY <1>1, <1>2 DEF Inv, TempInv
<1>4. ASSUME NEW p \in Paths PROVE PathInv(p)'
  BY DEF Inv, PathInv
<1>5. QED
  BY <1>1, <1>3, <1>4 DEF Inv

LEMMA RenameInv ==
  ASSUME Inv, NEW w \in Writers, Rename(w)
  PROVE  Inv'
<1>1. /\ temp' = [v \in Writers |-> temp'[v]] /\ pc' = [v \in Writers |-> pc'[v]]
      /\ disk' = [p \in Paths |-> disk'[p]] /\ earlier' = [p \in Paths |-> earlier'[p]]
  BY DEF Inv, Rename, Goes
<1>2. ASSUME NEW v \in Writers PROVE TempInv(v)'
  BY DEF Inv, TempInv, Rename, Goes, Running, Ended
<1>3. temp[w] \in Good(PathOf[w])
  BY DEF Inv, TempInv, Rename, Goes, Good
<1>4. ASSUME NEW p \in Paths PROVE PathInv(p)'
  <2>1. CASE p = PathOf[w]
    <3>1. disk'[p] = temp[w] /\ earlier'[p] = earlier[p] \cup {temp[w]}
      BY <2>1 DEF Inv, Rename
    <3>2. Good(p)' = Good(p)
      BY DEF Good
    <3>3. QED
      BY <1>3, <2>1, <3>1, <3>2 DEF Inv, PathInv
  <2>2. CASE p # PathOf[w]
    BY <2>2 DEF Inv, PathInv, Rename, Good
  <2>3. QED
    BY <2>1, <2>2
<1>5. QED
  BY <1>1, <1>2, <1>4 DEF Inv

LEMMA FlushInv ==
  ASSUME Inv, NEW p \in Paths, FlushDirectory(p)
  PROVE  Inv'
<1>1. earlier' = [q \in Paths |-> earlier'[q]]
  BY DEF Inv, FlushDirectory
<1>2. ASSUME NEW q \in Paths PROVE PathInv(q)'
  BY DEF Inv, PathInv, FlushDirectory
<1>3. ASSUME NEW w \in Writers PROVE TempInv(w)'
  BY DEF Inv, TempInv, FlushDirectory
<1>4. QED
  BY <1>1, <1>2, <1>3 DEF Inv, FlushDirectory

(* After a power loss a path shows a file it may have shown: none is torn. *)
LEMMA PowerLossShows ==
  ASSUME Inv, PowerLoss, NEW p \in Paths
  PROVE  disk'[p] \in earlier[p] /\ earlier'[p] = {disk'[p]}
<1>1. PICK file \in earlier[p] : disk'[p] \in Torn(file)
  BY DEF PowerLoss
<1>2. Torn(file) = {file}
  BY <1>1, GoodIsWhole DEF Inv, PathInv
<1>3. QED
  BY <1>1, <1>2 DEF PowerLoss

LEMMA PowerLossInv ==
  ASSUME Inv, PowerLoss
  PROVE  Inv'
<1>1. /\ disk' = [p \in Paths |-> disk'[p]] /\ earlier' = [p \in Paths |-> earlier'[p]]
      /\ temp' = [w \in Writers |-> temp'[w]] /\ pc' = [w \in Writers |-> pc'[w]]
  <2>1. disk' = [p \in Paths |-> disk'[p]]
    BY DEF PowerLoss
  <2>2. temp' = [w \in Writers |-> temp'[w]]
    <3>1. PICK kept \in SUBSET Writers :
            temp' = [w \in Writers |-> IF w \in kept THEN temp[w] ELSE {}]
      BY DEF PowerLoss
    <3>2. QED
      BY <3>1
  <2>3. QED
    BY <2>1, <2>2 DEF PowerLoss
<1>2. ASSUME NEW p \in Paths PROVE PathInv(p)'
  BY PowerLossShows DEF Inv, PathInv
<1>3. ASSUME NEW w \in Writers PROVE TempInv(w)'
  <2>1. temp'[w] \in {temp[w], {}}
    BY DEF PowerLoss
  <2>2. QED
    BY <2>1 DEF Inv, TempInv, PowerLoss, Running, Ended
<1>4. QED
  BY <1>1, <1>2, <1>3 DEF Inv

LEMMA NextInv == Inv /\ [Next]_vars => Inv'
<1> SUFFICES ASSUME Inv, [Next]_vars PROVE Inv'
  OBVIOUS
<1>1. ASSUME NEW w \in Writers, Step(w) \/ Kill(w) PROVE Inv'
  <2>1. CASE Rename(w)
    BY <2>1, RenameInv
  <2>2. CASE ~Rename(w)
    <3>1. UNCHANGED <<disk, earlier>>
      BY <1>1, <2>2 DEF Step, Create, CreateFails, WriteAll, WriteFails, SyncAll,
         SyncFails, RenameFails, Cleanup, CleanupFails, Kill
    <3>2. QED
      BY <1>1, <2>2, <3>1, TempStepInv DEF Step
  <2>3. QED
    BY <2>1, <2>2
<1>2. CASE UNCHANGED vars
  BY <1>2 DEF vars, Inv, TempInv, PathInv
<1>3. QED
  BY <1>1, <1>2, FlushInv, PowerLossInv DEF Next

THEOREM Invariance == Spec => []Inv
BY InitInv, NextInv, PTL DEF Spec

(* For any commands and paths, whatever fails, is killed or loses power:   *)
(* no reader ever finds a torn file (write_owner_only).                    *)
THEOREM FilesAreWhole == Spec => []WholeFiles
<1>1. Inv => WholeFiles
  BY GoodIsWhole DEF Inv, PathInv, WholeFiles
<1>2. QED
  BY <1>1, Invariance, PTL

(* For any commands and paths, one that ended by itself left no temporary  *)
(* file behind, unless removing it failed (write_owner_only).              *)
THEOREM LeavesNothingBehind == Spec => []NothingLeftBehind
<1>1. Inv => NothingLeftBehind
  BY DEF Inv, TempInv, NothingLeftBehind
<1>2. QED
  BY <1>1, Invariance, PTL

(***************************************************************************)
(* Refinement: every call is a step of DurableFiles, or none of its.       *)
(***************************************************************************)
Shown       == [p \in Paths |-> ContentsOf(disk[p])]
Recoverable == [p \in Paths |-> {ContentsOf(file) : file \in earlier[p]}]
OutcomeOf(w) ==
  CASE pc[w] = "done"   -> "written"
    [] pc[w] = "failed" -> "refused"
    [] pc[w] = "killed" -> "lost"
    [] OTHER            -> "pending"
Outcome     == [w \in Writers |-> OutcomeOf(w)]

LEMMA InitRefines == Init => Files!Init
<1> SUFFICES ASSUME Init PROVE Files!Init
  OBVIOUS
<1>1. ASSUME NEW p \in Paths PROVE ContentsOf(disk[p]) \in {{}, {"old"}}
  BY DEF Init, ContentsOf, File
<1>2. Shown \in [Paths -> {{}, {"old"}}]
  BY <1>1 DEF Shown
<1>3. Recoverable = [p \in Paths |-> {Shown[p]}]
  BY DEF Init, Shown, Recoverable
<1>4. Outcome = [w \in Writers |-> "pending"]
  BY DEF Init, Outcome, OutcomeOf
<1>5. QED
  BY <1>2, <1>3, <1>4 DEF Files!Init, Shown, Recoverable, Outcome, OutcomeOf

(* What a call of w does to how w ends, seen from DurableFiles. *)
LEMMA OutcomeStep ==
  ASSUME Inv, NEW w \in Writers, NEW how, pc[w] \in Running,
         pc' = [pc EXCEPT ![w] = how]
  PROVE  /\ Outcome[w] = "pending"
         /\ Outcome' = [Outcome EXCEPT ![w] = OutcomeOf(w)']
<1>1. ASSUME NEW v \in Writers \ {w} PROVE OutcomeOf(v)' = OutcomeOf(v)
  BY DEF Inv, OutcomeOf
<1>2. QED
  BY <1>1 DEF Outcome, OutcomeOf, Running

LEMMA CallRefines ==
  ASSUME Inv, NEW w \in Writers, Step(w) \/ Kill(w), ~Rename(w)
  PROVE  /\ Shown' = Shown /\ Recoverable' = Recoverable
         /\ \/ Outcome' = Outcome
            \/ /\ Outcome[w] = "pending"
               /\ \E how \in {"refused", "lost"} : Outcome' = [Outcome EXCEPT ![w] = how]
<1>1. UNCHANGED <<disk, earlier>>
  BY DEF Step, Create, CreateFails, WriteAll, WriteFails, SyncAll, SyncFails,
         RenameFails, Cleanup, CleanupFails, Kill
<1>2. Shown' = Shown /\ Recoverable' = Recoverable
  BY <1>1 DEF Shown, Recoverable
<1>3. PICK how \in {"write", "sync", "rename", "cleanup", "failed", "killed"} :
        pc[w] \in Running /\ pc' = [pc EXCEPT ![w] = how]
  BY DEF Step, Create, CreateFails, WriteAll, WriteFails, SyncAll, SyncFails,
         RenameFails, Cleanup, CleanupFails, Kill, Goes, Running
<1>4. /\ Outcome[w] = "pending"
      /\ Outcome' = [Outcome EXCEPT ![w] = OutcomeOf(w)']
  BY <1>3, OutcomeStep
<1>5. pc'[w] = how
  BY <1>3 DEF Inv
<1>6. CASE how \in {"write", "sync", "rename", "cleanup"}
  <2>1. OutcomeOf(w)' = "pending"
    BY <1>5, <1>6 DEF OutcomeOf
  <2>2. QED
    BY <1>2, <1>4, <2>1 DEF Outcome
<1>7. CASE how \in {"failed", "killed"}
  <2>1. OutcomeOf(w)' \in {"refused", "lost"}
    BY <1>5, <1>7 DEF OutcomeOf
  <2>2. QED
    BY <1>2, <1>4, <2>1
<1>8. QED
  BY <1>3, <1>6, <1>7

LEMMA RenameRefines ==
  ASSUME Inv, NEW w \in Writers, Rename(w)
  PROVE  /\ Outcome[w] = "pending" /\ Outcome' = [Outcome EXCEPT ![w] = "written"]
         /\ Shown' = [Shown EXCEPT ![PathOf[w]] = {ContentOf[w]}]
         /\ Recoverable' = [Recoverable EXCEPT ![PathOf[w]] = @ \cup {{ContentOf[w]}}]
<1>1. /\ Outcome[w] = "pending"
      /\ Outcome' = [Outcome EXCEPT ![w] = OutcomeOf(w)']
  <2>1. pc[w] \in Running /\ pc' = [pc EXCEPT ![w] = "done"]
    BY DEF Rename, Goes, Running
  <2>2. QED
    BY <2>1, OutcomeStep
<1>2. OutcomeOf(w)' = "written"
  BY DEF Inv, Rename, Goes, OutcomeOf
<1>3. temp[w] = {File(ContentOf[w], TRUE, TRUE)}
  BY DEF Inv, TempInv, Rename, Goes
<1>4. ContentsOf(temp[w]) = {ContentOf[w]}
  BY <1>3 DEF ContentsOf, File
<1>5. Shown' = [Shown EXCEPT ![PathOf[w]] = {ContentOf[w]}]
  <2>1. ASSUME NEW p \in Paths
        PROVE  ContentsOf(disk'[p]) = IF p = PathOf[w] THEN {ContentOf[w]} ELSE ContentsOf(disk[p])
    BY <1>4 DEF Inv, Rename
  <2>2. QED
    BY <2>1 DEF Shown
<1>6. Recoverable' = [Recoverable EXCEPT ![PathOf[w]] = @ \cup {{ContentOf[w]}}]
  <2>1. ASSUME NEW p \in Paths
        PROVE  {ContentsOf(file) : file \in earlier'[p]} =
                 IF p = PathOf[w] THEN {ContentsOf(file) : file \in earlier[p]} \cup {{ContentOf[w]}}
                          ELSE {ContentsOf(file) : file \in earlier[p]}
    <3>1. earlier'[p] = IF p = PathOf[w] THEN earlier[p] \cup {temp[w]} ELSE earlier[p]
      BY DEF Inv, Rename
    <3>2. QED
      BY <1>4, <3>1
  <2>2. QED
    BY <2>1 DEF Recoverable
<1>7. QED
  BY <1>1, <1>2, <1>5, <1>6

LEMMA FlushRefines ==
  ASSUME Inv, NEW p \in Paths, FlushDirectory(p)
  PROVE  /\ Shown' = Shown /\ Outcome' = Outcome
         /\ Recoverable' = [Recoverable EXCEPT ![p] = {Shown[p]}]
<1>1. ASSUME NEW q \in Paths
      PROVE  {ContentsOf(file) : file \in earlier'[q]} =
               IF q = p THEN {ContentsOf(disk[p])} ELSE {ContentsOf(file) : file \in earlier[q]}
  <2>1. earlier'[q] = IF q = p THEN {disk[p]} ELSE earlier[q]
    BY DEF Inv, FlushDirectory
  <2>2. QED
    BY <2>1
<1>2. QED
  BY <1>1 DEF FlushDirectory, Shown, Outcome, OutcomeOf, Recoverable

LEMMA PowerLossRefines ==
  ASSUME Inv, PowerLoss
  PROVE  /\ \A p \in Paths : Shown'[p] \in Recoverable[p]
         /\ Recoverable' = [p \in Paths |-> {Shown'[p]}]
         /\ Outcome' = [w \in Writers |->
                          IF Outcome[w] = "pending" THEN "lost" ELSE Outcome[w]]
<1>1. ASSUME NEW p \in Paths
      PROVE  /\ Shown'[p] \in Recoverable[p]
             /\ {ContentsOf(file) : file \in earlier'[p]} = {Shown'[p]}
  BY PowerLossShows DEF Shown, Recoverable
<1>2. ASSUME NEW w \in Writers
      PROVE  OutcomeOf(w)' = IF OutcomeOf(w) = "pending" THEN "lost" ELSE OutcomeOf(w)
  <2>1. pc'[w] = IF pc[w] \in Running THEN "killed" ELSE pc[w]
    BY DEF PowerLoss
  <2>2. pc[w] \in Running \cup Ended
    BY DEF Inv, TempInv
  <2>3. QED
    BY <2>1, <2>2 DEF OutcomeOf, Running, Ended
<1>3. QED
  BY <1>1, <1>2 DEF Recoverable, Outcome

LEMMA StepRefines == Inv /\ [Next]_vars => [Files!Next]_(Files!vars)
<1> SUFFICES ASSUME Inv, [Next]_vars PROVE [Files!Next]_(Files!vars)
  OBVIOUS
<1> USE DEF Files!Next, Files!vars
<1>1. ASSUME NEW w \in Writers, Rename(w) PROVE [Files!Next]_(Files!vars)
  <2>1. Files!Write(w)
    BY <1>1, RenameRefines
       DEF Files!Write, Files!Ends, Shown, Recoverable, Outcome, OutcomeOf
  <2>2. QED
    BY <2>1
<1>2. ASSUME NEW w \in Writers, Step(w) \/ Kill(w), ~Rename(w)
      PROVE  [Files!Next]_(Files!vars)
  <2>1. CASE Outcome' = Outcome
    BY <1>2, <2>1, CallRefines DEF Shown, Recoverable, Outcome, OutcomeOf
  <2>2. CASE Outcome' # Outcome
    <3>1. Files!Refuse(w) \/ Files!Lose(w)
      BY <1>2, <2>2, CallRefines
         DEF Files!Refuse, Files!Lose, Files!Ends, Shown, Recoverable, Outcome, OutcomeOf
    <3>2. QED
      BY <3>1
  <2>3. QED
    BY <2>1, <2>2
<1>3. ASSUME NEW p \in Paths, FlushDirectory(p) PROVE [Files!Next]_(Files!vars)
  <2>1. Files!Flush(p)
    BY <1>3, FlushRefines DEF Files!Flush, Shown, Recoverable, Outcome, OutcomeOf
  <2>2. QED
    BY <2>1
<1>4. CASE PowerLoss
  <2>1. Files!PowerLoss
    BY <1>4, PowerLossRefines DEF Files!PowerLoss, Shown, Recoverable, Outcome, OutcomeOf
  <2>2. QED
    BY <2>1
<1>5. CASE UNCHANGED vars
  BY <1>5 DEF vars, ContentsOf
<1>6. QED
  BY <1>1, <1>2, <1>3, <1>4, <1>5 DEF Next

(* For any commands and paths, the calls of write_owner_only together are  *)
(* one atomic, durable-or-recoverable write, whose end tells the truth.    *)
THEOREM WritesAreAtomic == Spec => ImplementsDurableFiles
<1>1. Spec => Files!Spec
  BY InitRefines, StepRefines, Invariance, PTL DEF Spec, Files!Spec
<1>2. QED
  BY <1>1 DEF ImplementsDurableFiles
=============================================================================
