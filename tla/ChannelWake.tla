---------------------------- MODULE ChannelWake ----------------------------
(***************************************************************************)
(* The two waker handshakes of the command channel of kithara-command.     *)
(*                                                                         *)
(* An executor that is a task sleeps in Inbox::poll_drain and is woken by  *)
(* the sender's doorbell; an owner that holds its sender sleeps between    *)
(* reads of its receipts and is woken by each receipt and by the inbox's   *)
(* doorbell.  A wake reaches only a waker registered before it and spends  *)
(* the registration.  Here batches are counted, not told apart: what       *)
(* becomes of each is CommandChannel's business.  A batch that an executor *)
(* parks or commits waits for an event of the executor's own, which no     *)
(* waker of the channel announces, so there are none here.                 *)
(***************************************************************************)
EXTENDS Naturals

CONSTANTS
  Capacity,  \* batches in flight at once
  MaxSends   \* bound: batches sent in a behaviour

ASSUME WakeAssumption == Capacity \in Nat \ {0} /\ MaxSends \in Nat

VARIABLES
  oPc,         \* where the owner's thread is
  holding,     \* Sender::holder is Some
  dry,         \* the owner read its receipts to the end since it last woke
  oWoken,      \* the owner's waker was called since it last ran
  answered,    \* the waker registered for receipts: "none", "holder", "noop"
  xPc,         \* where the executor's thread is
  closedSeen,  \* what the executor's last look at the sender's end said
  xWoken,      \* the executor's waker was called since it last ran
  wake,        \* the executor's waker is registered for sends
  commands,    \* batches in the ring
  docket,      \* batches the inbox drained and has not answered
  receipts,    \* receipts in the ring
  sends,       \* batches sent so far
  gateClosed,
  commandsHeld, pendingHeld,  \* the ends of the ring of batches
  answersHeld                 \* the inbox's end of the receipt ring

ownerVars == <<oPc, holding, dry>>
vars == <<ownerVars, oWoken, answered, xPc, closedSeen, xWoken, wake, commands,
          docket, receipts, sends, gateClosed, commandsHeld, pendingHeld, answersHeld>>

InFlight == commands + docket + receipts

(* AtomicWaker::wake: calls the registered waker, if any, and forgets it.  *)
WakeExecutor ==
  /\ xWoken' = (xWoken \/ wake)
  /\ wake' = FALSE
WakeOwner ==
  /\ oWoken' = (oWoken \/ answered = "holder")
  /\ answered' = "none"

-----------------------------------------------------------------------------
(* The owner's thread.                                                     *)

(* A waker taken from now on hears nothing of the receipts already there,  *)
(* so the owner reads before it may sleep.                                 *)
Hold ==
  /\ oPc = "run" /\ ~holding
  /\ holding' = TRUE
  /\ dry' = FALSE
  /\ answered' = "holder"
  /\ UNCHANGED <<oPc, oWoken, xPc, closedSeen, xWoken, wake, commands, docket, receipts,
                 sends, gateClosed, commandsHeld, pendingHeld, answersHeld>>

Release ==
  /\ oPc = "run" /\ holding
  /\ holding' = FALSE
  /\ answered' = "noop"
  /\ UNCHANGED <<oPc, dry, oWoken, xPc, closedSeen, xWoken, wake, commands, docket,
                 receipts, sends, gateClosed, commandsHeld, pendingHeld, answersHeld>>

SendEnter ==
  /\ oPc = "run"
  /\ ~gateClosed
  /\ sends < MaxSends
  /\ oPc' = "push"
  /\ UNCHANGED <<holding, dry, oWoken, answered, xPc, closedSeen, xWoken, wake, commands,
                 docket, receipts, sends, gateClosed, commandsHeld, pendingHeld,
                 answersHeld>>

SendPush ==
  /\ oPc = "push"
  /\ \/ /\ InFlight = Capacity             \* no credit: SendError::Full
        /\ oPc' = "run"
        /\ UNCHANGED <<commands, sends>>
     \/ /\ InFlight < Capacity
        /\ commands' = commands + 1
        /\ sends' = sends + 1
        /\ oPc' = "ring"
  /\ UNCHANGED <<holding, dry, oWoken, answered, xPc, closedSeen, xWoken, wake, docket,
                 receipts, gateClosed, commandsHeld, pendingHeld, answersHeld>>

SendRing ==
  /\ oPc = "ring"
  /\ WakeExecutor
  /\ oPc' = "run"
  /\ UNCHANGED <<holding, dry, oWoken, answered, xPc, closedSeen, commands, docket,
                 receipts, sends, gateClosed, commandsHeld, pendingHeld, answersHeld>>

(* Sender::receipts: a holder registers again, then reads to the end.      *)
(* Variant of ReceiptsStart: a spent registration is not renewed.          *)
ReceiptsUnregistered ==
  /\ oPc = "run"
  /\ oPc' = "read"
  /\ UNCHANGED <<answered, holding, dry, oWoken, xPc, closedSeen, xWoken, wake, commands,
                 docket, receipts, sends, gateClosed, commandsHeld, pendingHeld,
                 answersHeld>>
ReceiptsStart ==
  /\ oPc = "run"
  /\ answered' = IF holding THEN "holder" ELSE answered
  /\ oPc' = "read"
  /\ UNCHANGED <<holding, dry, oWoken, xPc, closedSeen, xWoken, wake, commands, docket,
                 receipts, sends, gateClosed, commandsHeld, pendingHeld, answersHeld>>

ReceiptsPop ==
  /\ oPc = "read"
  /\ \/ receipts > 0 /\ receipts' = receipts - 1 /\ UNCHANGED oPc
     \/ receipts = 0 /\ oPc' = "probe" /\ UNCHANGED receipts
  /\ UNCHANGED <<holding, dry, oWoken, answered, xPc, closedSeen, xWoken, wake, commands,
                 docket, sends, gateClosed, commandsHeld, pendingHeld, answersHeld>>

ReceiptsProbe ==
  /\ oPc = "probe"
  /\ \/ /\ answersHeld \/ commands = 0
        /\ oPc' = "run"
        /\ dry' = TRUE
        /\ UNCHANGED commands
     \/ /\ ~answersHeld /\ commands > 0
        /\ commands' = commands - 1
        /\ oPc' = "read"
        /\ UNCHANGED dry
  /\ UNCHANGED <<holding, oWoken, answered, xPc, closedSeen, xWoken, wake, docket, receipts,
                 sends, gateClosed, commandsHeld, pendingHeld, answersHeld>>

(* The owner's own wait: it sleeps only while it holds its sender and      *)
(* after a read that found nothing more; it may have sent since.           *)
OwnerSleep ==
  /\ oPc = "run" /\ holding /\ dry
  /\ oPc' = "asleep"
  /\ UNCHANGED <<holding, dry, oWoken, answered, xPc, closedSeen, xWoken, wake, commands,
                 docket, receipts, sends, gateClosed, commandsHeld, pendingHeld,
                 answersHeld>>

OwnerWakes ==
  /\ oPc = "asleep" /\ oWoken
  /\ oPc' = "run"
  /\ oWoken' = FALSE
  /\ dry' = FALSE
  /\ UNCHANGED <<holding, answered, xPc, closedSeen, xWoken, wake, commands, docket,
                 receipts, sends, gateClosed, commandsHeld, pendingHeld, answersHeld>>

(* Drop of the sender: `commands` is declared before `doorbell`.           *)
DropOrder ==
  \/ /\ oPc \in {"run", "asleep"}
     /\ commandsHeld' = FALSE
     /\ oPc' = "dropped"
     /\ UNCHANGED <<xWoken, wake>>
  \/ /\ oPc = "dropped"
     /\ WakeExecutor
     /\ oPc' = "gone"
     /\ UNCHANGED commandsHeld
DropSender ==
  /\ DropOrder
  /\ UNCHANGED <<holding, dry, oWoken, answered, xPc, closedSeen, commands, docket,
                 receipts, sends, gateClosed, pendingHeld, answersHeld>>

Owner == Hold \/ Release \/ SendEnter \/ SendPush \/ SendRing \/ ReceiptsStart
           \/ ReceiptsPop \/ ReceiptsProbe \/ OwnerSleep \/ OwnerWakes \/ DropSender

-----------------------------------------------------------------------------
(* The executor's thread.                                                  *)

(* Inbox::poll_drain: register, look at the sender's end, drain, decide.   *)
(* Variant of PollRegister: a spent registration is not renewed.           *)
PollUnregistered ==
  /\ xPc = "run"
  /\ xPc' = "look"
  /\ UNCHANGED <<ownerVars, oWoken, answered, closedSeen, xWoken, wake, commands, docket,
                 receipts, sends, gateClosed, commandsHeld, pendingHeld, answersHeld>>
PollRegister ==
  /\ xPc = "run"
  /\ wake' = TRUE
  /\ xPc' = "look"
  /\ UNCHANGED <<ownerVars, oWoken, answered, closedSeen, xWoken, commands, docket,
                 receipts, sends, gateClosed, commandsHeld, pendingHeld, answersHeld>>

PollClosed ==
  /\ xPc = "look"
  /\ closedSeen' = ~commandsHeld
  /\ xPc' = "drain"
  /\ UNCHANGED <<ownerVars, oWoken, answered, xWoken, wake, commands, docket, receipts,
                 sends, gateClosed, commandsHeld, pendingHeld, answersHeld>>

(* Variant of PollDrain: the look at the sender's end follows the drain.   *)
PollDrainThenLook ==
  /\ \/ /\ xPc = "drain" /\ commands > 0
        /\ commands' = commands - 1
        /\ docket' = docket + 1
        /\ UNCHANGED <<closedSeen, xPc>>
     \/ /\ xPc = "drain" /\ commands = 0
        /\ xPc' = "decide"
        /\ UNCHANGED <<closedSeen, commands, docket>>
     \/ /\ xPc = "decide"
        /\ closedSeen' = ~commandsHeld
        /\ xPc' = IF closedSeen' \/ docket > 0 THEN "run" ELSE "asleep"
        /\ UNCHANGED <<commands, docket>>
  /\ UNCHANGED <<ownerVars, oWoken, answered, xWoken, wake, receipts, sends, gateClosed,
                 commandsHeld, pendingHeld, answersHeld>>
PollDrain ==
  /\ xPc = "drain"
  /\ \/ /\ commands > 0
        /\ commands' = commands - 1
        /\ docket' = docket + 1
        /\ UNCHANGED xPc
     \/ /\ commands = 0
        /\ xPc' = IF closedSeen \/ docket > 0 THEN "run" ELSE "asleep"
        /\ UNCHANGED <<commands, docket>>
  /\ UNCHANGED <<ownerVars, oWoken, answered, closedSeen, xWoken, wake, receipts, sends,
                 gateClosed, commandsHeld, pendingHeld, answersHeld>>

ExecutorWakes ==
  /\ xPc = "asleep" /\ xWoken
  /\ xPc' = "run"
  /\ xWoken' = FALSE
  /\ UNCHANGED <<ownerVars, oWoken, answered, closedSeen, wake, commands, docket,
                 receipts, sends, gateClosed, commandsHeld, pendingHeld, answersHeld>>

(* Sink::reply, from a walk of the docket or from the drop's leftovers:    *)
(* the receipt is pushed, then the owner is woken.                         *)
Reply ==
  /\ xPc \in {"run", "unanswered"}
  /\ docket > 0
  /\ docket' = docket - 1
  /\ receipts' = receipts + 1
  /\ xPc' = IF xPc = "run" THEN "replied" ELSE "returned"
  /\ UNCHANGED <<ownerVars, oWoken, answered, closedSeen, xWoken, wake, commands, sends,
                 gateClosed, commandsHeld, pendingHeld, answersHeld>>

ReplyWake ==
  /\ xPc \in {"replied", "returned"}
  /\ WakeOwner
  /\ xPc' = IF xPc = "replied" THEN "run" ELSE "unanswered"
  /\ UNCHANGED <<ownerVars, closedSeen, xWoken, wake, commands, docket, receipts, sends,
                 gateClosed, commandsHeld, pendingHeld, answersHeld>>

(* Drop of the inbox, by its task or by whoever drops the sleeping task:   *)
(* close the gate, drain, answer the leftovers, let go of `pending`, then  *)
(* of `answers`, then ring `answered`, in the order of the fields.         *)
CloseGate ==
  /\ xPc \in {"run", "asleep"}
  /\ gateClosed' = TRUE
  /\ xPc' = "closing"
  /\ UNCHANGED <<ownerVars, oWoken, answered, closedSeen, xWoken, wake, commands, docket,
                 receipts, sends, commandsHeld, pendingHeld, answersHeld>>

ClosingDrain ==
  /\ xPc = "closing"
  /\ \/ /\ commands > 0
        /\ commands' = commands - 1
        /\ docket' = docket + 1
        /\ UNCHANGED xPc
     \/ /\ commands = 0
        /\ xPc' = "unanswered"
        /\ UNCHANGED <<commands, docket>>
  /\ UNCHANGED <<ownerVars, oWoken, answered, closedSeen, xWoken, wake, receipts, sends,
                 gateClosed, commandsHeld, pendingHeld, answersHeld>>

ReleasePending ==
  /\ xPc = "unanswered" /\ docket = 0
  /\ pendingHeld' = FALSE
  /\ xPc' = "released"
  /\ UNCHANGED <<ownerVars, oWoken, answered, closedSeen, xWoken, wake, commands, docket,
                 receipts, sends, gateClosed, commandsHeld, answersHeld>>

(* Variant of ReleaseThenRing: it rings before `answers` is released.   *)
RingThenRelease ==
  \/ /\ xPc = "released"
     /\ WakeOwner
     /\ xPc' = "lastRing"
     /\ UNCHANGED answersHeld
  \/ /\ xPc = "lastRing"
     /\ answersHeld' = FALSE
     /\ xPc' = "gone"
     /\ UNCHANGED <<oWoken, answered>>
ReleaseThenRing ==
  \/ /\ xPc = "released"
     /\ answersHeld' = FALSE
     /\ xPc' = "lastRing"
     /\ UNCHANGED <<oWoken, answered>>
  \/ /\ xPc = "lastRing"
     /\ WakeOwner
     /\ xPc' = "gone"
     /\ UNCHANGED answersHeld
LastRing ==
  /\ ReleaseThenRing
  /\ UNCHANGED <<ownerVars, closedSeen, xWoken, wake, commands, docket, receipts, sends,
                 gateClosed, commandsHeld, pendingHeld>>

Executor == PollRegister \/ PollClosed \/ PollDrain \/ ExecutorWakes \/ Reply
              \/ ReplyWake \/ CloseGate \/ ClosingDrain \/ ReleasePending \/ LastRing

-----------------------------------------------------------------------------
Init ==
  /\ oPc = "run" /\ holding = FALSE /\ dry = FALSE
  /\ oWoken = FALSE /\ answered = "none"
  /\ xPc = "run" /\ closedSeen = FALSE
  /\ xWoken = FALSE /\ wake = FALSE
  /\ commands = 0 /\ docket = 0 /\ receipts = 0 /\ sends = 0
  /\ gateClosed = FALSE
  /\ commandsHeld = TRUE /\ pendingHeld = TRUE /\ answersHeld = TRUE

Next == Owner \/ Executor
Spec == Init /\ [][Next]_vars

(* Every task that is scheduled runs, so it takes its next step; an owner  *)
(* that runs again and again reads its receipts, and an executor that is   *)
(* ready again and again answers what it drained.  Neither sends nor       *)
(* drops are owed.                                                         *)
FairSpec ==
  /\ Spec
  /\ WF_vars(SendPush \/ SendRing \/ ReceiptsPop \/ ReceiptsProbe \/ OwnerWakes)
  /\ WF_vars(oPc = "dropped" /\ DropSender)
  /\ SF_vars(ReceiptsStart)
  /\ WF_vars(PollRegister \/ PollClosed \/ PollDrain \/ ExecutorWakes)
  /\ WF_vars(ReplyWake \/ ClosingDrain \/ ReleasePending \/ LastRing)
  /\ SF_vars(Reply)

-----------------------------------------------------------------------------
(* Properties.                                                             *)

PlacesOK ==
  /\ oPc \in {"run", "push", "ring", "read", "probe", "asleep", "dropped", "gone"}
  /\ xPc \in {"run", "look", "drain", "asleep", "replied", "closing", "unanswered",
               "returned", "released", "lastRing", "gone"}
  /\ answered \in {"none", "holder", "noop"}
FlagsOK ==
  /\ holding \in BOOLEAN /\ dry \in BOOLEAN
  /\ oWoken \in BOOLEAN /\ xWoken \in BOOLEAN /\ wake \in BOOLEAN
  /\ closedSeen \in BOOLEAN /\ gateClosed \in BOOLEAN
  /\ commandsHeld \in BOOLEAN /\ pendingHeld \in BOOLEAN /\ answersHeld \in BOOLEAN
CountsOK ==
  /\ commands \in Nat /\ docket \in Nat /\ receipts \in Nat
  /\ InFlight <= Capacity
  /\ sends \in 0 .. MaxSends

(* Every variable stays within its type, and no more batches are in flight *)
(* than there are credits.                                                 *)
TypeOK == PlacesOK /\ FlagsOK /\ CountsOK

(* An executor that sleeps with no wake delivered has nothing to find: no  *)
(* batch lies in the ring and the sender is there, unless the sender is    *)
(* between the push, or the release of its end, and the ring of its        *)
(* doorbell (poll_drain registers before it looks).                        *)
ExecutorNotStranded ==
  xPc = "asleep" /\ ~xWoken =>
    /\ commands = 0 \/ oPc = "ring"
    /\ commandsHeld \/ oPc = "dropped"

(* An owner that sleeps with no wake delivered has nothing to find: no     *)
(* receipt, and no batch orphaned behind a closed gate, unless the inbox   *)
(* is still to ring (receipts() registers before it reads; the gate closes *)
(* before the inbox's last ring, which follows the release of its ends).   *)
OwnerNotStranded ==
  oPc = "asleep" /\ ~oWoken /\ xPc \notin {"replied", "returned", "lastRing"} =>
    receipts = 0 /\ (answersHeld \/ commands = 0)

(* The doorbells of both directions hold together: neither side sleeps     *)
(* over something the other left for it.                                   *)
NobodyStranded == ExecutorNotStranded /\ OwnerNotStranded

(* A poll that reports the sender gone has drained all it ever sent:       *)
(* is_closed is read before the drain.                                     *)
ClosedMeansDrained == closedSeen /\ xPc = "run" => commands = 0 /\ ~commandsHeld

(* Every batch sent returns to an owner that stays: both handshakes        *)
(* together, over any number of sleeps and the inbox's drop.               *)
EveryBatchReturns == InFlight > 0 ~> (InFlight = 0 \/ oPc = "gone")

=============================================================================
