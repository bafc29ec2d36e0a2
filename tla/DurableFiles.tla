---------------------------- MODULE DurableFiles ----------------------------
(***************************************************************************)
(* What writing a key or certificate file promises, with no temporary file *)
(* in sight: every path always shows a whole content, a command's write    *)
(* takes effect at once or not at all, and how the command ends tells      *)
(* which.  A power loss may take back what was not flushed yet, again to   *)
(* a whole content.                                                        *)
(***************************************************************************)
CONSTANTS
  Writers,         \* the writes, each at most once
  Paths, PathOf,   \* PathOf[w]: where w writes
  ContentOf        \* ContentOf[w]: what it writes

VARIABLES
  shown,        \* shown[p]: the content a reader of p finds, if any
  recoverable,  \* recoverable[p]: what p may show after a power loss
  outcome       \* outcome[w]: "pending", "written", "refused" or "lost"

vars == <<shown, recoverable, outcome>>

Init ==
  /\ shown \in [Paths -> {{}, {"old"}}]
  /\ recoverable = [p \in Paths |-> {shown[p]}]
  /\ outcome = [w \in Writers |-> "pending"]

Ends(w, how) ==
  /\ outcome[w] = "pending"
  /\ outcome' = [outcome EXCEPT ![w] = how]

Write(w) ==
  /\ Ends(w, "written")
  /\ shown' = [shown EXCEPT ![PathOf[w]] = {ContentOf[w]}]
  /\ recoverable' = [recoverable EXCEPT ![PathOf[w]] = @ \cup {{ContentOf[w]}}]

Refuse(w) == Ends(w, "refused") /\ UNCHANGED <<shown, recoverable>>

Lose(w) == Ends(w, "lost") /\ UNCHANGED <<shown, recoverable>>

Flush(p) ==
  /\ recoverable' = [recoverable EXCEPT ![p] = {shown[p]}]
  /\ UNCHANGED <<shown, outcome>>

PowerLoss ==
  /\ \A p \in Paths : shown'[p] \in recoverable[p]
  /\ recoverable' = [p \in Paths |-> {shown'[p]}]
  /\ shown' = [p \in Paths |-> shown'[p]]
  /\ outcome' = [w \in Writers |-> IF outcome[w] = "pending" THEN "lost" ELSE outcome[w]]

Next ==
  \/ \E w \in Writers : Write(w) \/ Refuse(w) \/ Lose(w)
  \/ \E p \in Paths : Flush(p)
  \/ PowerLoss

Spec == Init /\ [][Next]_vars
=============================================================================
