--------------------------- MODULE CommandChannel ---------------------------
(***************************************************************************)
(* The one-level command channel of kithara-command: a Sender owned by one *)
(* thread and an Inbox owned by a real-time executor, joined by two        *)
(* single-producer single-consumer rings (batches out, receipts back) and  *)
(* by a gate the inbox closes as it is dropped.                            *)
(*                                                                         *)
(* The two threads interleave at the points where they share state: a ring *)
(* push or pop, the gate, and the release of the inbox's end of the        *)
(* receipt ring.  Everything between two such points is one step.          *)
(*                                                                         *)
(* Data kept: the number of a batch, its moment, and its basis (for every  *)
(* target it shifts, the batch it expects to have shifted the target       *)
(* last).  Commands, applied data and refusal reasons are payload.         *)
(***************************************************************************)
EXTENDS Integers, Sequences, FiniteSets

CONSTANTS
  Targets,      \* the targets whose time batches shift
  Capacity,     \* batches in flight at once
  BlockFrames,  \* frames of one block of the executor
  MaxSeq,       \* bound: batches sent in a behaviour
  MaxFrame      \* bound: last frame of the executor's clock

ASSUME ChannelAssumption ==
  /\ IsFiniteSet(Targets)
  /\ Capacity \in Nat \ {0}
  /\ BlockFrames \in Nat \ {0}
  /\ MaxSeq \in Nat
  /\ MaxFrame \in Nat

VARIABLES
  next,       \* Sender: number of the next batch
  credits,    \* Book: batches that may still be sent
  applied,    \* Book: last applied batch per target, from the receipts read
  pending,    \* Book: batches in flight that shift a target
  sPc,        \* where the sender's thread is: "idle", "push" or "probe"
  hand,       \* the batch a sender past the gate is about to push
  gateClosed, \* Gate: CLOSED is set
  commands,   \* ring of batches
  receipts,   \* ring of receipts
  pendingHeld,\* the inbox still holds its end of the ring of batches
  answersHeld,\* the inbox still holds its end of the receipt ring
  schedule,   \* Docket: batches waiting for Next or for a frame
  arrived,    \* Docket: deferred batches not yet taken
  parked,     \* Docket: parked batches
  committed,  \* Docket: batches committed and not completed
  ledger,     \* Docket: last batch that shifted each target
  xPc,        \* where the executor's thread is
  held,       \* the batch of the Due or Deferred the executor holds
  start,      \* first frame of the executor's current block
  answered    \* history: the receipts the sender's owner has read

senderVars == <<next, credits, applied, pending, sPc, hand>>
ringEnds == <<pendingHeld, answersHeld>>
docketVars == <<schedule, arrived, parked, committed, ledger>>
vars == <<senderVars, gateClosed, commands, receipts, ringEnds,
          docketVars, xPc, held, start, answered>>

-----------------------------------------------------------------------------
(* Batches.  Option<Seq> orders None below every Some, as 0 is below every *)
(* number; When orders Next < At(frame) < Deferred, as the integers below. *)

None         == 0
Unlisted     == -1             \* the basis of the batch names no such target
WhenNext     == -1
WhenDeferred == MaxFrame + 1
Frames       == 0 .. MaxFrame
Whens        == {WhenNext} \cup Frames \cup {WhenDeferred}
Seqs         == 1 .. MaxSeq

Batch == [seq : Seqs, when : Whens, basis : [Targets -> Unlisted .. MaxSeq]]
NoBatch == [seq |-> 0, when |-> WhenNext, basis |-> [t \in Targets |-> Unlisted]]

Rejections == {"Late", "Stale", "Refused", "Unanswered"}
Receipt == [seq : Seqs, basis : [Targets -> Unlisted .. MaxSeq],
            outcome : Rejections \cup {"Applied"}]

Listed(b) == {t \in Targets : b.basis[t] # Unlisted}
Answer(b, outcome) == [seq |-> b.seq, basis |-> b.basis, outcome |-> outcome]

(* Execution order: earlier moments first, then send order. *)
Before(a, b) == a.when < b.when \/ (a.when = b.when /\ a.seq < b.seq)
Earliest(S) == {b \in S : \A c \in S : ~Before(c, b)}
Oldest(S) == {b \in S : \A c \in S : b.seq <= c.seq}

(* The ledger judges a basis. *)
(* Variant of IsCurrent: one target that stands as expected is enough.     *)
IsPartlyCurrent(b) == Listed(b) = {} \/ \E t \in Listed(b) : ledger[t] = b.basis[t]
IsCurrent(b) == \A t \in Listed(b) : ledger[t] = b.basis[t]
Outdates(b) == \E t \in Listed(b) : b.basis[t] < ledger[t]
Record(b) == [t \in Targets |-> IF t \in Listed(b) THEN b.seq ELSE ledger[t]]

-----------------------------------------------------------------------------
(* The sender's thread.                                                    *)

(* A basis can only name numbers the sender was given, all of them earlier *)
(* than its own: Seq has no public constructor.                            *)
Bases == [Targets -> {Unlisted} \cup (None .. next - 1)]

SendEnter ==
  /\ sPc = "idle"
  /\ ~gateClosed
  /\ next <= MaxSeq
  /\ \E w \in Whens, basis \in Bases :
       hand' = [seq |-> next, when |-> w, basis |-> basis]
  /\ sPc' = "push"
  /\ UNCHANGED <<next, credits, applied, pending, gateClosed, commands, receipts,
                 ringEnds, docketVars, xPc, held, start, answered>>

Spend(b) ==
  /\ credits' = credits - 1
  /\ pending' = IF Listed(b) = {} THEN pending ELSE pending \cup {b}

(* Variant of SendPush: the ring's room is looked at, the credits are not.  *)
SendPushUnchecked ==
  /\ sPc = "push"
  /\ \/ /\ Len(commands) = Capacity
        /\ UNCHANGED <<next, credits, pending, commands>>
     \/ /\ Len(commands) < Capacity
        /\ commands' = Append(commands, hand)
        /\ Spend(hand)
        /\ next' = next + 1
  /\ sPc' = "idle"
  /\ hand' = NoBatch
  /\ UNCHANGED <<applied, gateClosed, receipts, ringEnds, docketVars, xPc,
                 held, start, answered>>

SendPush ==
  /\ sPc = "push"
  /\ \/ /\ credits = 0 \/ Len(commands) = Capacity      \* SendError::Full
        /\ UNCHANGED <<next, credits, pending, commands>>
     \/ /\ credits > 0 /\ Len(commands) < Capacity
        /\ commands' = Append(commands, hand)
        /\ Spend(hand)
        /\ next' = next + 1
  /\ sPc' = "idle"
  /\ hand' = NoBatch
  /\ UNCHANGED <<applied, gateClosed, receipts, ringEnds, docketVars, xPc,
                 held, start, answered>>

Later(a, b) == IF a < b THEN b ELSE a

(* Variant of Settle: a delayed Applied receipt rolls the book back.       *)
SettleRollsBack(r) ==
  /\ credits' = credits + 1
  /\ pending' = {b \in pending : b.seq # r.seq}
  /\ applied' = [t \in Targets |->
                   IF r.outcome = "Applied" /\ t \in Listed(r)
                     THEN r.seq ELSE applied[t]]
  /\ answered' = answered \cup {r}

Settle(r) ==
  /\ credits' = credits + 1
  /\ pending' = {b \in pending : b.seq # r.seq}
  /\ applied' = [t \in Targets |->
                   IF r.outcome = "Applied" /\ t \in Listed(r)
                     THEN Later(applied[t], r.seq) ELSE applied[t]]
  /\ answered' = answered \cup {r}

ReadReceipt ==
  /\ sPc = "idle"
  /\ receipts # <<>>
  /\ Settle(Head(receipts))
  /\ receipts' = Tail(receipts)
  /\ UNCHANGED <<next, sPc, hand, gateClosed, commands, ringEnds, docketVars,
                 xPc, held, start>>

(* An empty receipt ring is followed by a look at the inbox's end of it. *)
ReadNothing ==
  /\ sPc = "idle"
  /\ receipts = <<>>
  /\ sPc' = "probe"
  /\ UNCHANGED <<next, credits, applied, pending, hand, gateClosed, commands, receipts,
                 ringEnds, docketVars, xPc, held, start, answered>>

(* Variant of RecoverOrphan: a batch pushed behind the closed gate stays.  *)
RecoverNothing ==
  /\ sPc = "probe"
  /\ sPc' = "idle"
  /\ UNCHANGED <<next, credits, applied, pending, hand, gateClosed, commands, receipts,
                 ringEnds, docketVars, xPc, held, start, answered>>

RecoverOrphan ==
  /\ sPc = "probe"
  /\ sPc' = "idle"
  /\ \/ /\ answersHeld \/ commands = <<>>
        /\ UNCHANGED <<credits, applied, pending, commands, answered>>
     \/ /\ ~answersHeld /\ commands # <<>>
        /\ Settle(Answer(Head(commands), "Unanswered"))
        /\ commands' = Tail(commands)
  /\ UNCHANGED <<next, hand, gateClosed, receipts, ringEnds, docketVars, xPc,
                 held, start>>

Sender == SendEnter \/ SendPush \/ ReadReceipt \/ ReadNothing \/ RecoverOrphan

-----------------------------------------------------------------------------
(* The executor's thread.                                                  *)

(* A push into a full receipt ring would lose the answer, batch and all.   *)
Reply(b, outcome) ==
  receipts' = IF Len(receipts) < Capacity
                THEN Append(receipts, Answer(b, outcome)) ELSE receipts

(* Drain: pops the ring until it is empty, on its own or as the first part *)
(* of refuse_timed and of the inbox's drop.                                *)
StartDrain ==
  /\ xPc = "walk"
  /\ xPc' \in {"drain", "drainTimed"}
  /\ UNCHANGED <<senderVars, gateClosed, commands, receipts, ringEnds, docketVars,
                 held, start, answered>>

Insert(b) ==
  IF b.when = WhenDeferred
    THEN arrived' = arrived \cup {b} /\ UNCHANGED schedule
    ELSE schedule' = schedule \cup {b} /\ UNCHANGED arrived

Drain ==
  /\ xPc \in {"drain", "drainTimed", "closing"}
  /\ \/ /\ commands # <<>>
        /\ Insert(Head(commands))
        /\ commands' = Tail(commands)
        /\ UNCHANGED xPc
     \/ /\ commands = <<>>
        /\ xPc' = CASE xPc = "drain"      -> "walk"
                    [] xPc = "drainTimed" -> "refuseTimed"
                    [] xPc = "closing"    -> "unanswered"
        /\ UNCHANGED <<commands, schedule, arrived>>
  /\ UNCHANGED <<senderVars, gateClosed, receipts, ringEnds, parked, committed,
                 ledger, held, start, answered>>

(* take_due: the earliest batch, if its moment is in or before the block.  *)
IsDue(b) == b.when < start + BlockFrames
IsLate(b) == b.when \in Frames /\ b.when < start

TakeDue ==
  /\ xPc = "walk"
  /\ \E b \in Earliest(schedule) :
       /\ IsDue(b)
       /\ schedule' = schedule \ {b}
       /\ \/ /\ ~IsLate(b) /\ IsCurrent(b)
             /\ held' = b
             /\ xPc' = "due"
             /\ UNCHANGED receipts
          \/ /\ IsLate(b) \/ ~IsCurrent(b)
             /\ Reply(b, IF IsLate(b) THEN "Late" ELSE "Stale")
             /\ UNCHANGED <<held, xPc>>
  /\ UNCHANGED <<senderVars, gateClosed, commands, ringEnds, arrived, parked,
                 committed, ledger, start, answered>>

(* The executor answers the Due it holds. *)
Apply ==
  /\ xPc = "due"
  /\ ledger' = Record(held)
  /\ Reply(held, "Applied")
  /\ held' = NoBatch
  /\ xPc' = "outdate"
  /\ UNCHANGED <<senderVars, gateClosed, commands, ringEnds, schedule, arrived,
                 parked, committed, start, answered>>

(* A committed batch keeps its credit; its moment is of no more use.       *)
Commit ==
  /\ xPc = "due"
  /\ ledger' = Record(held)
  /\ committed' = committed \cup {held}
  /\ held' = NoBatch
  /\ xPc' = "outdate"
  /\ UNCHANGED <<senderVars, gateClosed, commands, receipts, ringEnds, schedule,
                 arrived, parked, start, answered>>

Defer ==
  /\ xPc = "due"
  /\ parked' = parked \cup {[held EXCEPT !.when = WhenDeferred]}
  /\ held' = NoBatch
  /\ xPc' = "walk"
  /\ UNCHANGED <<senderVars, gateClosed, commands, receipts, ringEnds, schedule,
                 arrived, committed, ledger, start, answered>>

(* Refuses, or drops unanswered, the Due or Deferred it holds. *)
Refuse ==
  /\ xPc \in {"due", "deferred"}
  /\ \E outcome \in {"Refused", "Unanswered"} : Reply(held, outcome)
  /\ held' = NoBatch
  /\ xPc' = "walk"
  /\ UNCHANGED <<senderVars, gateClosed, commands, ringEnds, docketVars, start,
                 answered>>

(* reject_outdated: returns as Stale every batch the new ledger outdates.  *)
OutdatedIn(S) == {b \in S : Outdates(b)}

RejectOutdated ==
  /\ xPc = "outdate"
  /\ \/ /\ \E b \in Earliest(OutdatedIn(schedule)) :
             /\ schedule' = schedule \ {b}
             /\ Reply(b, "Stale")
        /\ UNCHANGED <<arrived, parked, xPc>>
     \/ /\ OutdatedIn(schedule) = {}
        /\ \E b \in Oldest(OutdatedIn(arrived)) :
             /\ arrived' = arrived \ {b}
             /\ Reply(b, "Stale")
        /\ UNCHANGED <<schedule, parked, xPc>>
     \/ /\ OutdatedIn(schedule) = {} /\ OutdatedIn(arrived) = {}
        /\ \E b \in OutdatedIn(parked) :
             /\ parked' = parked \ {b}
             /\ Reply(b, "Stale")
        /\ UNCHANGED <<schedule, arrived, xPc>>
     \/ /\ OutdatedIn(schedule \cup arrived \cup parked) = {}
        /\ xPc' = "walk"
        /\ UNCHANGED <<schedule, arrived, parked, receipts>>
  /\ UNCHANGED <<senderVars, gateClosed, commands, ringEnds, committed, ledger,
                 held, start, answered>>

(* Deferred batches: taken in arrival order, parked, resumed in the block  *)
(* in which an event names their moment.                                   *)
TakeDeferred ==
  /\ xPc = "walk"
  /\ \E b \in Oldest(arrived) :
       /\ held' = b
       /\ arrived' = arrived \ {b}
  /\ xPc' = "deferred"
  /\ UNCHANGED <<senderVars, gateClosed, commands, receipts, ringEnds, schedule,
                 parked, committed, ledger, start, answered>>

(* Variant of Park: a batch answered Stale is parked all the same.         *)
ParkAnswered ==
  /\ xPc = "deferred"
  /\ IF Outdates(held) THEN Reply(held, "Stale") ELSE UNCHANGED receipts
  /\ parked' = parked \cup {held}
  /\ held' = NoBatch
  /\ xPc' = "walk"
  /\ UNCHANGED <<senderVars, gateClosed, commands, ringEnds, schedule, arrived,
                 committed, ledger, start, answered>>

Park ==
  /\ xPc = "deferred"
  /\ \/ /\ Outdates(held)
        /\ Reply(held, "Stale")
        /\ UNCHANGED parked
     \/ /\ ~Outdates(held)
        /\ parked' = parked \cup {held}
        /\ UNCHANGED receipts
  /\ held' = NoBatch
  /\ xPc' = "walk"
  /\ UNCHANGED <<senderVars, gateClosed, commands, ringEnds, schedule, arrived,
                 committed, ledger, start, answered>>

Resume ==
  /\ xPc = "walk"
  /\ \E b \in parked :
       /\ parked' = parked \ {b}
       /\ \/ /\ IsCurrent(b)
             /\ held' = b
             /\ xPc' = "due"
             /\ UNCHANGED receipts
          \/ /\ ~IsCurrent(b)
             /\ Reply(b, "Stale")
             /\ UNCHANGED <<held, xPc>>
  /\ UNCHANGED <<senderVars, gateClosed, commands, ringEnds, schedule, arrived,
                 committed, ledger, start, answered>>

(* Variant of Complete: completion records the batch once more.            *)
CompleteRecords ==
  /\ xPc \in {"walk", "due"}
  /\ \E b \in committed :
       /\ committed' = committed \ {b}
       /\ Reply(b, "Applied")
       /\ ledger' = Record(b)
  /\ UNCHANGED <<senderVars, gateClosed, commands, ringEnds, schedule, arrived,
                 parked, xPc, held, start, answered>>

(* A committed batch is answered without judging its basis again.          *)
Complete ==
  /\ xPc \in {"walk", "due"}
  /\ \E b \in committed :
       /\ committed' = committed \ {b}
       /\ Reply(b, "Applied")
  /\ UNCHANGED <<senderVars, gateClosed, commands, ringEnds, schedule, arrived,
                 parked, ledger, xPc, held, start, answered>>

(* refuse_timed, after its drain: every At batch, earliest first.          *)
RefuseTimed ==
  /\ xPc = "refuseTimed"
  /\ LET timed == {b \in schedule : b.when \in Frames} IN
       \/ /\ \E b \in Earliest(timed) :
               /\ schedule' = schedule \ {b}
               /\ Reply(b, "Refused")
          /\ UNCHANGED xPc
       \/ /\ timed = {}
          /\ xPc' = "walk"
          /\ UNCHANGED <<schedule, receipts>>
  /\ UNCHANGED <<senderVars, gateClosed, commands, ringEnds, arrived, parked,
                 committed, ledger, held, start, answered>>

(* run_block leaves a block once nothing in it is due.                     *)
NextBlock ==
  /\ xPc = "walk"
  /\ start + BlockFrames <= MaxFrame
  /\ \A b \in schedule : ~IsDue(b)
  /\ start' = start + BlockFrames
  /\ UNCHANGED <<senderVars, gateClosed, commands, receipts, ringEnds, docketVars,
                 xPc, held, answered>>

(* Drop of the inbox: close the gate, drain, answer the leftovers, and let *)
(* go of the rings.                                                        *)
CloseGate ==
  /\ xPc = "walk"
  /\ gateClosed' = TRUE
  /\ xPc' = "closing"
  /\ UNCHANGED <<senderVars, commands, receipts, ringEnds, docketVars, held, start,
                 answered>>

Leftover(b) ==
  \/ b \in committed
  \/ committed = {} /\ b \in arrived /\ \A c \in arrived : c.seq <= b.seq
  \/ committed = {} /\ arrived = {} /\ b \in parked
  \/ committed = {} /\ arrived = {} /\ parked = {} /\ b \in Earliest(schedule)

Unanswered ==
  /\ xPc = "unanswered"
  /\ \E b \in committed \cup arrived \cup parked \cup schedule :
       /\ Leftover(b)
       /\ committed' = committed \ {b}
       /\ arrived' = arrived \ {b}
       /\ parked' = parked \ {b}
       /\ schedule' = schedule \ {b}
       /\ Reply(b, "Unanswered")
  /\ UNCHANGED <<senderVars, gateClosed, commands, ringEnds, ledger, xPc, held,
                 start, answered>>

(* The fields of the inbox go in declaration order: first its end of the   *)
(* ring of batches, then its end of the receipt ring.                      *)
(* Variant of ReleasePending: the receipt ring goes first.                 *)
ReleaseAnswersFirst ==
  /\ xPc = "unanswered"
  /\ committed \cup arrived \cup parked \cup schedule = {}
  /\ answersHeld' = FALSE
  /\ xPc' = "released"
  /\ UNCHANGED <<senderVars, gateClosed, commands, receipts, pendingHeld, docketVars,
                 held, start, answered>>

ReleasePending ==
  /\ xPc = "unanswered"
  /\ committed \cup arrived \cup parked \cup schedule = {}
  /\ pendingHeld' = FALSE
  /\ xPc' = "released"
  /\ UNCHANGED <<senderVars, gateClosed, commands, receipts, answersHeld, docketVars,
                 held, start, answered>>

ReleaseAnswers ==
  /\ xPc = "released"
  /\ answersHeld' = FALSE
  /\ xPc' = "gone"
  /\ UNCHANGED <<senderVars, gateClosed, commands, receipts, pendingHeld, docketVars,
                 held, start, answered>>

Executor ==
  \/ StartDrain \/ Drain \/ TakeDue \/ Apply \/ Commit \/ Defer \/ Refuse
  \/ RejectOutdated \/ TakeDeferred \/ Park \/ Resume \/ Complete \/ RefuseTimed
  \/ NextBlock \/ CloseGate \/ Unanswered \/ ReleasePending
  \/ ReleaseAnswers

-----------------------------------------------------------------------------
Init ==
  /\ next = 1
  /\ credits = Capacity
  /\ applied = [t \in Targets |-> None]
  /\ pending = {}
  /\ sPc = "idle"
  /\ hand = NoBatch
  /\ gateClosed = FALSE
  /\ commands = <<>>
  /\ receipts = <<>>
  /\ pendingHeld = TRUE
  /\ answersHeld = TRUE
  /\ schedule = {}
  /\ arrived = {}
  /\ parked = {}
  /\ committed = {}
  /\ ledger = [t \in Targets |-> None]
  /\ xPc = "walk"
  /\ held = NoBatch
  /\ start = 0
  /\ answered = {}

Next == Sender \/ Executor
Spec == Init /\ [][Next]_vars

(* What the code's callers do keep doing: a drop of the inbox, once begun, *)
(* runs to its end on the executor's thread, and the owner of the sender   *)
(* finishes a send it entered and keeps reading receipts.  Nothing says    *)
(* the executor renders another block, or that it ever drops the inbox.    *)
Dropping == gateClosed /\ (Drain \/ Unanswered \/ ReleasePending \/ ReleaseAnswers)
Reading == ReadReceipt \/ ReadNothing \/ RecoverOrphan
Fairness == WF_vars(Dropping) /\ WF_vars(SendPush) /\ WF_vars(Reading)

-----------------------------------------------------------------------------
(* Properties.                                                             *)

SenderPcs == {"idle", "push", "probe"}
ExecutorPcs == {"walk", "drain", "drainTimed", "refuseTimed", "due", "deferred",
                "outdate", "closing", "unanswered", "released", "gone"}

SenderTypeOK ==
  /\ next \in 1 .. MaxSeq + 1
  /\ credits \in Nat
  /\ applied \in [Targets -> None .. MaxSeq]
  /\ pending \in SUBSET Batch
  /\ sPc \in SenderPcs
  /\ hand \in Batch \cup {NoBatch}
RingTypeOK ==
  /\ commands \in Seq(Batch)
  /\ receipts \in Seq(Receipt)
  /\ answered \in SUBSET Receipt
EndTypeOK ==
  /\ gateClosed \in BOOLEAN
  /\ pendingHeld \in BOOLEAN
  /\ answersHeld \in BOOLEAN
DocketTypeOK ==
  /\ schedule \in SUBSET Batch
  /\ arrived \in SUBSET Batch
  /\ parked \in SUBSET Batch
  /\ committed \in SUBSET Batch
ExecutorTypeOK ==
  /\ ledger \in [Targets -> None .. MaxSeq]
  /\ xPc \in ExecutorPcs
  /\ held \in Batch \cup {NoBatch}
  /\ start \in Frames

(* Every variable stays within its type; in particular the sender never    *)
(* spends a credit it does not have (Book::spend subtracts unchecked).     *)
TypeOK == SenderTypeOK /\ RingTypeOK /\ EndTypeOK /\ DocketTypeOK /\ ExecutorTypeOK

(* Where the numbered batch s is: the rings, the docket, the hands of the  *)
(* executor, or back with the sender's owner.                              *)
InSet(S, s) == {x \in S : x.seq = s}
InRing(q, s) == {i \in DOMAIN q : q[i].seq = s}
Places(s) ==
  Cardinality(InRing(commands, s)) + Cardinality(InRing(receipts, s))
    + Cardinality(InSet(schedule, s)) + Cardinality(InSet(arrived, s))
    + Cardinality(InSet(parked, s)) + Cardinality(InSet(committed, s))
    + Cardinality(InSet({held}, s)) + Cardinality(InSet(answered, s))

(* The channel's promise: a batch given a number is at every moment in     *)
(* exactly one place, so it comes back exactly once, whatever the executor *)
(* does with it and however the inbox's drop interleaves with a send       *)
(* (Sink::reply, Due and Deferred drops, unanswered, orphan recovery).     *)
ExactlyOnce == \A s \in 1 .. next - 1 : Places(s) = 1

(* Credits and batches in flight always make up the capacity, so no ring   *)
(* and no docket vector overflows ("credits bound receipts", sink.rs).     *)
InDocket == Cardinality(schedule) + Cardinality(arrived) + Cardinality(parked)
              + Cardinality(committed) + Cardinality({held} \ {NoBatch})
CreditsBalance == credits + Len(commands) + InDocket + Len(receipts) = Capacity

(* A judged ledger entry never goes back to an older batch: neither a      *)
(* commit completed late nor a batch resumed late undoes a newer shift.    *)
LedgerForward == [][\A t \in Targets : ledger[t] <= ledger'[t]]_vars

(* What shifted a target: the batches applied or committed.                *)
Applied(S) == {r \in S : r.outcome = "Applied"}
Shifted == Applied(answered) \cup Applied({receipts[i] : i \in DOMAIN receipts})
             \cup {Answer(b, "Applied") : b \in committed}
ShiftsOf(t) == {r \in Shifted : t \in Listed(r)}

(* While the inbox lives, the batches that shifted a target form one chain *)
(* through their bases: each names the shift just before it, so the owner  *)
(* planned every applied batch on the state it really met.                 *)
AppliedChain ==
  ~gateClosed =>
    \A t \in Targets : \A r \in ShiftsOf(t) :
      /\ r.basis[t] \in {None} \cup {p.seq : p \in ShiftsOf(t)}
      /\ \A q \in ShiftsOf(t) : r.seq < q.seq => r.seq <= q.basis[t]

(* Once every outdated batch has been answered, none is left parked: a     *)
(* parked batch that could never apply would hold its credit until an      *)
(* event that may not come (Deferred::park, Docket::take_outdated).        *)
ParkedFresh == xPc # "outdate" => OutdatedIn(parked) = {}

(* The owner takes over the ring of batches only after the inbox let go of *)
(* it: HeapCons::new on a ring whose reading end is held panics.           *)
SoleConsumer == sPc = "probe" /\ ~answersHeld => ~pendingHeld

(* Once the gate is closed every numbered batch comes back, the one a      *)
(* sender preempted inside send pushes after the drain included.           *)
AnsweredAfterClose ==
  gateClosed ~> (sPc # "push" /\ {r.seq : r \in answered} = 1 .. next - 1)
=============================================================================
