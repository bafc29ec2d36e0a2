------------------------- MODULE AuthenticExchange -------------------------
(***************************************************************************)
(* What the WIMSE signature profile promises two workloads, with no        *)
(* signature in sight: a request is delivered only if it was asked, an     *)
(* answer is given only to a delivered request, and a client completes a   *)
(* request only with an answer that was given to that very request.        *)
(* Nothing is promised about loss or about repeated delivery.              *)
(***************************************************************************)
VARIABLES
  asked,      \* the requests workloads made
  delivered,  \* the requests recipients acted on
  answered,   \* the answers given, as <<request, response>>
  completed   \* the answers clients acted on

vars == <<asked, delivered, answered, completed>>

Init == asked = {} /\ delivered = {} /\ answered = {} /\ completed = {}

Ask == /\ \E r \in asked' : asked' = asked \cup {r}
       /\ UNCHANGED <<delivered, answered, completed>>

Deliver == /\ \E r \in asked : delivered' = delivered \cup {r}
           /\ UNCHANGED <<asked, answered, completed>>

Answer == /\ \E x \in answered' : /\ x[1] \in delivered
                                  /\ answered' = answered \cup {x}
          /\ UNCHANGED <<asked, delivered, completed>>

Complete == /\ \E x \in answered : /\ x[1] \in asked
                                   /\ completed' = completed \cup {x}
            /\ UNCHANGED <<asked, delivered, answered>>

Next == Ask \/ Deliver \/ Answer \/ Complete

Spec == Init /\ [][Next]_vars
=============================================================================
