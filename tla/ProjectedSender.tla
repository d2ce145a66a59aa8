--------------------------- MODULE ProjectedSender ---------------------------
(***************************************************************************)
(* A sender that plans each batch on the basis its own book projects       *)
(* (Sender::basis), as the player's outbox does: the book knows the shifts *)
(* whose receipts it has read, and its own batches in flight.  The         *)
(* executor is a willing one: it applies or commits every batch it judges  *)
(* current, completes commits in any order, and keeps its inbox.           *)
(***************************************************************************)
EXTENDS CommandChannel, SequencesExt

CONSTANTS
  Moments,  \* the moments the owner sends at
  Groups    \* the sets of targets one batch may shift

ASSUME PlanAssumption == Moments \subseteq Whens /\ Groups \subseteq SUBSET Targets

(* The book's guess at the ledger as of the moment w: the applied shifts,  *)
(* then its batches in flight up to w in execution order, each judged by   *)
(* the guess so far.                                                       *)
Judge(guess, p) ==
  IF \A t \in Listed(p) : guess[t] = p.basis[t]
    THEN [t \in Targets |-> IF t \in Listed(p) THEN p.seq ELSE guess[t]]
    ELSE guess

(* Variant of Projection: only confirmed shifts count.                     *)
ConfirmedOnly(w) == applied
Projection(w) ==
  FoldLeft(Judge, applied, SetToSortSeq({p \in pending : p.when <= w}, Before))

(* A send whose basis lists the targets of one group, each with the shift  *)
(* the book projects for it.                                               *)
SendProjected ==
  /\ sPc = "idle"
  /\ ~gateClosed
  /\ next <= MaxSeq
  /\ \E w \in Moments, G \in Groups :
       hand' = [seq |-> next, when |-> w,
                basis |-> [t \in Targets |->
                             IF t \in G THEN Projection(w)[t] ELSE Unlisted]]
  /\ sPc' = "push"
  /\ UNCHANGED <<next, credits, applied, pending, gateClosed, commands, receipts,
                 ringEnds, docketVars, xPc, held, start, answered>>

WillingExecutor ==
  StartDrain \/ Drain \/ TakeDue \/ Apply \/ Commit \/ RejectOutdated \/ Complete
    \/ RefuseTimed \/ NextBlock

PlannedNext == SendProjected \/ SendPush \/ ReadReceipt \/ WillingExecutor
PlannedSpec == Init /\ [][PlannedNext]_vars

-----------------------------------------------------------------------------
(* Properties.                                                             *)

(* A lone sender that plans on the projection and always for the next      *)
(* block is never told that another batch got there first.                 *)
PlannedBatchesApply ==
  \A r \in answered \cup {receipts[i] : i \in DOMAIN receipts} : r.outcome = "Applied"

(* Reading that a batch applied never makes the owner plan on an older     *)
(* shift, in whatever order commits are completed (Book::settle keeps the  *)
(* maximum; "delayed applied receipt does not roll back sender basis").    *)
(* This is for batches that shift at most one target: a batch that lists   *)
(* several leaves the projection of all of them as it is answered.         *)
BasisNeverRollsBack ==
  [][receipts # <<>> /\ receipts' = Tail(receipts) /\ Head(receipts).outcome = "Applied"
       => \A t \in Targets : Projection(WhenNext)[t] <= Projection(WhenNext)'[t]]_vars
=============================================================================
