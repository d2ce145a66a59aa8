------------------------------ MODULE Requests ------------------------------
(***************************************************************************)
(* What the queues of kithara-command promise to whoever asks something of *)
(* an owner on another thread: a request that was taken is answered once,  *)
(* with one outcome, and the outcome never changes.  How the request       *)
(* travels, who runs it and in which order is left to the specifications   *)
(* that implement this one.                                                *)
(***************************************************************************)

CONSTANTS
  Ids,      \* names of requests
  Outcomes  \* what an answer may say

VARIABLE status  \* "idle", "waiting", or the outcome of the request

Init == status = [r \in Ids |-> "idle"]

Ask(r) ==
  /\ status[r] = "idle"
  /\ status' = [status EXCEPT ![r] = "waiting"]

Answer(r, o) ==
  /\ status[r] = "waiting"
  /\ status' = [status EXCEPT ![r] = o]

Next ==
  \/ \E r \in Ids : Ask(r)
  \/ \E r \in Ids, o \in Outcomes : Answer(r, o)

Spec == Init /\ [][Next]_status

(* Every request taken is answered. *)
FairSpec ==
  Spec /\ \A r \in Ids : WF_status(\E o \in Outcomes : Answer(r, o))
=============================================================================
