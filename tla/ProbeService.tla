---------------------------- MODULE ProbeService ----------------------------
(***************************************************************************)
(* What a probe process promises the library about its requests, without  *)
(* threads, locks and memory: a request is answered at most once, a       *)
(* request that was given up is not answered any more, and nothing is     *)
(* answered before it was asked.                                           *)
(***************************************************************************)
CONSTANT Requests

VARIABLE status     \* status[r]: "new", "asked", "answered" or "cancelled"

Init == status = [r \in Requests |-> "new"]

\* The library asks.
Ask(r) == status[r] = "new" /\ status' = [status EXCEPT ![r] = "asked"]

\* The process answers, with a result or with an error.
Answer(r) == status[r] = "asked" /\ status' = [status EXCEPT ![r] = "answered"]

\* The process is told to stop and gives the request up.
GiveUp(r) == status[r] = "asked" /\ status' = [status EXCEPT ![r] = "cancelled"]

Next == \E r \in Requests : Ask(r) \/ Answer(r) \/ GiveUp(r)

Spec == Init /\ [][Next]_status
=============================================================================
