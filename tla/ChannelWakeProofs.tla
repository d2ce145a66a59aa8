------------------------- MODULE ChannelWakeProofs -------------------------
(***************************************************************************)
(* Proofs about the waker handshakes of ChannelWake, for every capacity    *)
(* and every number of sends: neither side sleeps past work that nobody is *)
(* about to ring for.                                                      *)
(*                                                                         *)
(* None of the three safety properties is inductive: whether a sleeper is  *)
(* safe depends on the registration it made before it looked, and on the   *)
(* steps of the other thread since.  WakeInv says what holds at each point *)
(* of that window; each of its parts is preserved by every step.           *)
(***************************************************************************)
EXTENDS ChannelWake, TLAPS

(* What the sleepers rely on, at every point of their threads: the parts   *)
(* of an inductive invariant.                                              *)

(* Where the ends of the rings and the gate stand.                         *)
EndsFollowThreads ==
  /\ xPc \in {"closing", "unanswered", "returned", "released", "lastRing", "gone"}
       <=> gateClosed
  /\ ~answersHeld => xPc \in {"lastRing", "gone"}
  /\ ~commandsHeld => oPc \in {"dropped", "gone"}
  /\ closedSeen => ~commandsHeld
  /\ oPc = "asleep" => holding /\ dry
  /\ oPc = "push" => sends < MaxSends

(* The executor's registration stands from before its look to its sleep,   *)
(* or it was woken since.                                                  *)
ExecutorRegistered ==
  /\ xPc \in {"look", "drain", "asleep"} => wake \/ xWoken
  /\ xPc \in {"drain", "asleep"} /\ ~closedSeen /\ ~xWoken =>
       commandsHeld \/ oPc = "dropped"
  /\ xPc = "asleep" => ~closedSeen
  /\ xPc = "asleep" /\ ~xWoken => commands = 0 \/ oPc = "ring"
  /\ closedSeen /\ xPc \in {"run", "replied"} => commands = 0

(* The owner's registration stands from before its read on, or it was      *)
(* woken since; what it found nothing more of, it is still free of.        *)
OwnerRegistered ==
  /\ holding /\ (dry \/ oPc \in {"read", "probe"}) => answered = "holder" \/ oWoken
  /\ oPc = "probe" /\ holding /\ ~oWoken /\ xPc \notin {"replied", "returned", "lastRing"}
       => receipts = 0
  /\ oPc = "push" /\ holding /\ dry /\ xPc = "gone" => oWoken
  /\ holding /\ dry /\ ~oWoken /\ xPc \notin {"replied", "returned", "lastRing"} =>
       receipts = 0 /\ (answersHeld \/ commands = 0)

WakeInv == TypeOK /\ EndsFollowThreads /\ ExecutorRegistered /\ OwnerRegistered

-----------------------------------------------------------------------------

(* Each thread stays at a known point of its code.                        *)
LEMMA PlacesStep ==
  ASSUME WakeInv, [Next]_vars PROVE PlacesOK'
<1>1. CASE Hold
  BY <1>1 DEF Hold, WakeInv, TypeOK, PlacesOK
<1>2. CASE Release
  BY <1>2 DEF Release, WakeInv, TypeOK, PlacesOK
<1>3. CASE SendEnter
  BY <1>3 DEF SendEnter, WakeInv, TypeOK, PlacesOK
<1>4. CASE SendPush
  BY <1>4 DEF SendPush, WakeInv, TypeOK, PlacesOK
<1>5. CASE SendRing
  BY <1>5 DEF SendRing, WakeExecutor, WakeInv, TypeOK, PlacesOK
<1>6. CASE ReceiptsStart
  BY <1>6 DEF ReceiptsStart, WakeInv, TypeOK, PlacesOK
<1>7. CASE ReceiptsPop
  BY <1>7 DEF ReceiptsPop, WakeInv, TypeOK, PlacesOK
<1>8. CASE ReceiptsProbe
  BY <1>8 DEF ReceiptsProbe, WakeInv, TypeOK, PlacesOK
<1>9. CASE OwnerSleep
  BY <1>9 DEF OwnerSleep, WakeInv, TypeOK, PlacesOK
<1>10. CASE OwnerWakes
  BY <1>10 DEF OwnerWakes, WakeInv, TypeOK, PlacesOK
<1>11. CASE DropSender
  BY <1>11 DEF DropSender, DropOrder, WakeExecutor, WakeInv, TypeOK, PlacesOK
<1>12. CASE PollRegister
  BY <1>12 DEF PollRegister, WakeInv, TypeOK, PlacesOK, ownerVars
<1>13. CASE PollClosed
  BY <1>13 DEF PollClosed, WakeInv, TypeOK, PlacesOK, ownerVars
<1>14. CASE PollDrain
  BY <1>14 DEF PollDrain, WakeInv, TypeOK, PlacesOK, ownerVars
<1>15. CASE ExecutorWakes
  BY <1>15 DEF ExecutorWakes, WakeInv, TypeOK, PlacesOK, ownerVars
<1>16. CASE Reply
  BY <1>16 DEF Reply, WakeInv, TypeOK, PlacesOK, ownerVars
<1>17. CASE ReplyWake
  BY <1>17 DEF ReplyWake, WakeOwner, WakeInv, TypeOK, PlacesOK, ownerVars
<1>18. CASE CloseGate
  BY <1>18 DEF CloseGate, WakeInv, TypeOK, PlacesOK, ownerVars
<1>19. CASE ClosingDrain
  BY <1>19 DEF ClosingDrain, WakeInv, TypeOK, PlacesOK, ownerVars
<1>20. CASE ReleasePending
  BY <1>20 DEF ReleasePending, WakeInv, TypeOK, PlacesOK, ownerVars
<1>21. CASE LastRing
  BY <1>21 DEF LastRing, ReleaseThenRing, WakeOwner, WakeInv, TypeOK, PlacesOK, ownerVars
<1>22. CASE UNCHANGED vars
  BY <1>22 DEF vars, ownerVars, WakeInv, TypeOK, PlacesOK
<1> QED
  BY <1>1, <1>2, <1>3, <1>4, <1>5, <1>6, <1>7, <1>8, <1>9, <1>10, <1>11, <1>12,
     <1>13,
     <1>14, <1>15, <1>16, <1>17, <1>18, <1>19, <1>20, <1>21, <1>22
     DEF Next, Owner, Executor

(* The flags stay Boolean.                                                 *)
LEMMA FlagsStep ==
  ASSUME WakeInv, [Next]_vars PROVE FlagsOK'
<1>1. CASE Hold
  BY <1>1 DEF Hold, WakeInv, TypeOK, FlagsOK
<1>2. CASE Release
  BY <1>2 DEF Release, WakeInv, TypeOK, FlagsOK
<1>3. CASE SendEnter
  BY <1>3 DEF SendEnter, WakeInv, TypeOK, FlagsOK
<1>4. CASE SendPush
  BY <1>4 DEF SendPush, WakeInv, TypeOK, FlagsOK
<1>5. CASE SendRing
  BY <1>5 DEF SendRing, WakeExecutor, WakeInv, TypeOK, FlagsOK
<1>6. CASE ReceiptsStart
  BY <1>6 DEF ReceiptsStart, WakeInv, TypeOK, FlagsOK
<1>7. CASE ReceiptsPop
  BY <1>7 DEF ReceiptsPop, WakeInv, TypeOK, FlagsOK
<1>8. CASE ReceiptsProbe
  BY <1>8 DEF ReceiptsProbe, WakeInv, TypeOK, FlagsOK
<1>9. CASE OwnerSleep
  BY <1>9 DEF OwnerSleep, WakeInv, TypeOK, FlagsOK
<1>10. CASE OwnerWakes
  BY <1>10 DEF OwnerWakes, WakeInv, TypeOK, FlagsOK
<1>11. CASE DropSender
  BY <1>11 DEF DropSender, DropOrder, WakeExecutor, WakeInv, TypeOK, FlagsOK
<1>12. CASE PollRegister
  BY <1>12 DEF PollRegister, WakeInv, TypeOK, FlagsOK, ownerVars
<1>13. CASE PollClosed
  BY <1>13 DEF PollClosed, WakeInv, TypeOK, FlagsOK, ownerVars
<1>14. CASE PollDrain
  BY <1>14 DEF PollDrain, WakeInv, TypeOK, FlagsOK, ownerVars
<1>15. CASE ExecutorWakes
  BY <1>15 DEF ExecutorWakes, WakeInv, TypeOK, FlagsOK, ownerVars
<1>16. CASE Reply
  BY <1>16 DEF Reply, WakeInv, TypeOK, FlagsOK, ownerVars
<1>17. CASE ReplyWake
  BY <1>17 DEF ReplyWake, WakeOwner, WakeInv, TypeOK, FlagsOK, ownerVars
<1>18. CASE CloseGate
  BY <1>18 DEF CloseGate, WakeInv, TypeOK, FlagsOK, ownerVars
<1>19. CASE ClosingDrain
  BY <1>19 DEF ClosingDrain, WakeInv, TypeOK, FlagsOK, ownerVars
<1>20. CASE ReleasePending
  BY <1>20 DEF ReleasePending, WakeInv, TypeOK, FlagsOK, ownerVars
<1>21. CASE LastRing
  BY <1>21 DEF LastRing, ReleaseThenRing, WakeOwner, WakeInv, TypeOK, FlagsOK, ownerVars
<1>22. CASE UNCHANGED vars
  BY <1>22 DEF vars, ownerVars, WakeInv, TypeOK, FlagsOK
<1> QED
  BY <1>1, <1>2, <1>3, <1>4, <1>5, <1>6, <1>7, <1>8, <1>9, <1>10, <1>11, <1>12,
     <1>13,
     <1>14, <1>15, <1>16, <1>17, <1>18, <1>19, <1>20, <1>21, <1>22
     DEF Next, Owner, Executor

(* A push is paid for by a credit, so the batches in flight stay within     *)
(* the capacity; the other steps move one batch or none.                    *)
LEMMA CountsStep ==
  ASSUME WakeInv, [Next]_vars PROVE CountsOK'
<1> USE WakeAssumption
<1>1. CASE Hold
  BY <1>1 DEF Hold, WakeInv, TypeOK, CountsOK, InFlight
<1>2. CASE Release
  BY <1>2 DEF Release, WakeInv, TypeOK, CountsOK, InFlight
<1>3. CASE SendEnter
  BY <1>3 DEF SendEnter, WakeInv, TypeOK, CountsOK, InFlight
<1>4. CASE SendPush
  BY <1>4 DEF SendPush, WakeInv, TypeOK, CountsOK, InFlight, EndsFollowThreads
<1>5. CASE SendRing
  BY <1>5 DEF SendRing, WakeExecutor, WakeInv, TypeOK, CountsOK, InFlight
<1>6. CASE ReceiptsStart
  BY <1>6 DEF ReceiptsStart, WakeInv, TypeOK, CountsOK, InFlight
<1>7. CASE ReceiptsPop
  BY <1>7 DEF ReceiptsPop, WakeInv, TypeOK, CountsOK, InFlight
<1>8. CASE ReceiptsProbe
  BY <1>8 DEF ReceiptsProbe, WakeInv, TypeOK, CountsOK, InFlight
<1>9. CASE OwnerSleep
  BY <1>9 DEF OwnerSleep, WakeInv, TypeOK, CountsOK, InFlight
<1>10. CASE OwnerWakes
  BY <1>10 DEF OwnerWakes, WakeInv, TypeOK, CountsOK, InFlight
<1>11. CASE DropSender
  BY <1>11 DEF DropSender, DropOrder, WakeExecutor, WakeInv, TypeOK, CountsOK, InFlight
<1>12. CASE PollRegister
  BY <1>12 DEF PollRegister, WakeInv, TypeOK, CountsOK, InFlight, ownerVars
<1>13. CASE PollClosed
  BY <1>13 DEF PollClosed, WakeInv, TypeOK, CountsOK, InFlight, ownerVars
<1>14. CASE PollDrain
  BY <1>14 DEF PollDrain, WakeInv, TypeOK, CountsOK, InFlight, ownerVars
<1>15. CASE ExecutorWakes
  BY <1>15 DEF ExecutorWakes, WakeInv, TypeOK, CountsOK, InFlight, ownerVars
<1>16. CASE Reply
  BY <1>16 DEF Reply, WakeInv, TypeOK, CountsOK, InFlight, ownerVars
<1>17. CASE ReplyWake
  BY <1>17 DEF ReplyWake, WakeOwner, WakeInv, TypeOK, CountsOK, InFlight, ownerVars
<1>18. CASE CloseGate
  BY <1>18 DEF CloseGate, WakeInv, TypeOK, CountsOK, InFlight, ownerVars
<1>19. CASE ClosingDrain
  BY <1>19 DEF ClosingDrain, WakeInv, TypeOK, CountsOK, InFlight, ownerVars
<1>20. CASE ReleasePending
  BY <1>20 DEF ReleasePending, WakeInv, TypeOK, CountsOK, InFlight, ownerVars
<1>21. CASE LastRing
  BY <1>21 DEF LastRing, ReleaseThenRing, WakeOwner, WakeInv, TypeOK, CountsOK,
     InFlight, ownerVars
<1>22. CASE UNCHANGED vars
  BY <1>22 DEF vars, ownerVars, WakeInv, TypeOK, CountsOK, InFlight
<1> QED
  BY <1>1, <1>2, <1>3, <1>4, <1>5, <1>6, <1>7, <1>8, <1>9, <1>10, <1>11, <1>12,
     <1>13,
     <1>14, <1>15, <1>16, <1>17, <1>18, <1>19, <1>20, <1>21, <1>22
     DEF Next, Owner, Executor

(* The gate closes before the inbox lets go of its ends, the sender's end  *)
(* goes with the sender, and an owner falls asleep only after a dry read.  *)
LEMMA EndsStep ==
  ASSUME WakeInv, [Next]_vars PROVE EndsFollowThreads'
<1>1. CASE Hold
  BY <1>1 DEF Hold, WakeInv, TypeOK, PlacesOK, FlagsOK, CountsOK, EndsFollowThreads
<1>2. CASE Release
  BY <1>2 DEF Release, WakeInv, TypeOK, PlacesOK, FlagsOK, CountsOK, EndsFollowThreads
<1>3. CASE SendEnter
  BY <1>3 DEF SendEnter, WakeInv, TypeOK, PlacesOK, FlagsOK, CountsOK, EndsFollowThreads
<1>4. CASE SendPush
  BY <1>4 DEF SendPush, WakeInv, TypeOK, PlacesOK, FlagsOK, CountsOK, EndsFollowThreads
<1>5. CASE SendRing
  BY <1>5 DEF SendRing, WakeExecutor, WakeInv, TypeOK, PlacesOK, FlagsOK, CountsOK,
     EndsFollowThreads
<1>6. CASE ReceiptsStart
  BY <1>6 DEF ReceiptsStart, WakeInv, TypeOK, PlacesOK, FlagsOK, CountsOK,
     EndsFollowThreads
<1>7. CASE ReceiptsPop
  BY <1>7 DEF ReceiptsPop, WakeInv, TypeOK, PlacesOK, FlagsOK, CountsOK, EndsFollowThreads
<1>8. CASE ReceiptsProbe
  BY <1>8 DEF ReceiptsProbe, WakeInv, TypeOK, PlacesOK, FlagsOK, CountsOK,
     EndsFollowThreads
<1>9. CASE OwnerSleep
  BY <1>9 DEF OwnerSleep, WakeInv, TypeOK, PlacesOK, FlagsOK, CountsOK, EndsFollowThreads
<1>10. CASE OwnerWakes
  BY <1>10 DEF OwnerWakes, WakeInv, TypeOK, PlacesOK, FlagsOK, CountsOK, EndsFollowThreads
<1>11. CASE DropSender
  BY <1>11 DEF DropSender, DropOrder, WakeExecutor, WakeInv, TypeOK, PlacesOK,
     FlagsOK, CountsOK, EndsFollowThreads
<1>12. CASE PollRegister
  BY <1>12 DEF PollRegister, WakeInv, TypeOK, PlacesOK, FlagsOK, CountsOK,
     EndsFollowThreads, ownerVars
<1>13. CASE PollClosed
  BY <1>13 DEF PollClosed, WakeInv, TypeOK, PlacesOK, FlagsOK, CountsOK,
     EndsFollowThreads, ownerVars
<1>14. CASE PollDrain
  BY <1>14 DEF PollDrain, WakeInv, TypeOK, PlacesOK, FlagsOK, CountsOK,
     EndsFollowThreads, ownerVars
<1>15. CASE ExecutorWakes
  BY <1>15 DEF ExecutorWakes, WakeInv, TypeOK, PlacesOK, FlagsOK, CountsOK,
     EndsFollowThreads, ownerVars
<1>16. CASE Reply
  BY <1>16 DEF Reply, WakeInv, TypeOK, PlacesOK, FlagsOK, CountsOK,
     EndsFollowThreads, ownerVars
<1>17. CASE ReplyWake
  BY <1>17 DEF ReplyWake, WakeOwner, WakeInv, TypeOK, PlacesOK, FlagsOK, CountsOK,
     EndsFollowThreads, ownerVars
<1>18. CASE CloseGate
  BY <1>18 DEF CloseGate, WakeInv, TypeOK, PlacesOK, FlagsOK, CountsOK,
     EndsFollowThreads, ownerVars
<1>19. CASE ClosingDrain
  BY <1>19 DEF ClosingDrain, WakeInv, TypeOK, PlacesOK, FlagsOK, CountsOK,
     EndsFollowThreads, ownerVars
<1>20. CASE ReleasePending
  BY <1>20 DEF ReleasePending, WakeInv, TypeOK, PlacesOK, FlagsOK, CountsOK,
     EndsFollowThreads, ownerVars
<1>21. CASE LastRing
  BY <1>21 DEF LastRing, ReleaseThenRing, WakeOwner, WakeInv, TypeOK, PlacesOK,
     FlagsOK, CountsOK, EndsFollowThreads, ownerVars
<1>22. CASE UNCHANGED vars
  BY <1>22 DEF vars, ownerVars, WakeInv, TypeOK, PlacesOK, FlagsOK, CountsOK,
     EndsFollowThreads
<1> QED
  BY <1>1, <1>2, <1>3, <1>4, <1>5, <1>6, <1>7, <1>8, <1>9, <1>10, <1>11, <1>12,
     <1>13,
     <1>14, <1>15, <1>16, <1>17, <1>18, <1>19, <1>20, <1>21, <1>22
     DEF Next, Owner, Executor

(* The window between the executor's registration and its sleep: a ring in *)
(* it is remembered in xWoken, and so is the sender's departure.           *)
LEMMA ExecutorStep ==
  ASSUME WakeInv, [Next]_vars PROVE ExecutorRegistered'
<1>1. CASE Hold
  BY <1>1 DEF Hold, WakeInv, TypeOK, PlacesOK, FlagsOK, CountsOK, EndsFollowThreads,
     ExecutorRegistered
<1>2. CASE Release
  BY <1>2 DEF Release, WakeInv, TypeOK, PlacesOK, FlagsOK, CountsOK,
     EndsFollowThreads, ExecutorRegistered
<1>3. CASE SendEnter
  BY <1>3 DEF SendEnter, WakeInv, TypeOK, PlacesOK, FlagsOK, CountsOK,
     EndsFollowThreads, ExecutorRegistered
<1>4. CASE SendPush
  BY <1>4 DEF SendPush, WakeInv, TypeOK, PlacesOK, FlagsOK, CountsOK,
     EndsFollowThreads, ExecutorRegistered
<1>5. CASE SendRing
  BY <1>5 DEF SendRing, WakeExecutor, WakeInv, TypeOK, PlacesOK, FlagsOK, CountsOK,
     EndsFollowThreads, ExecutorRegistered
<1>6. CASE ReceiptsStart
  BY <1>6 DEF ReceiptsStart, WakeInv, TypeOK, PlacesOK, FlagsOK, CountsOK,
     EndsFollowThreads, ExecutorRegistered
<1>7. CASE ReceiptsPop
  BY <1>7 DEF ReceiptsPop, WakeInv, TypeOK, PlacesOK, FlagsOK, CountsOK,
     EndsFollowThreads, ExecutorRegistered
<1>8. CASE ReceiptsProbe
  BY <1>8 DEF ReceiptsProbe, WakeInv, TypeOK, PlacesOK, FlagsOK, CountsOK,
     EndsFollowThreads, ExecutorRegistered
<1>9. CASE OwnerSleep
  BY <1>9 DEF OwnerSleep, WakeInv, TypeOK, PlacesOK, FlagsOK, CountsOK,
     EndsFollowThreads, ExecutorRegistered
<1>10. CASE OwnerWakes
  BY <1>10 DEF OwnerWakes, WakeInv, TypeOK, PlacesOK, FlagsOK, CountsOK,
     EndsFollowThreads, ExecutorRegistered
<1>11. CASE DropSender
  BY <1>11 DEF DropSender, DropOrder, WakeExecutor, WakeInv, TypeOK, PlacesOK,
     FlagsOK, CountsOK, EndsFollowThreads, ExecutorRegistered
<1>12. CASE PollRegister
  BY <1>12 DEF PollRegister, WakeInv, TypeOK, PlacesOK, FlagsOK, CountsOK,
     EndsFollowThreads, ExecutorRegistered, ownerVars
<1>13. CASE PollClosed
  BY <1>13 DEF PollClosed, WakeInv, TypeOK, PlacesOK, FlagsOK, CountsOK,
     EndsFollowThreads, ExecutorRegistered, ownerVars
<1>14. CASE PollDrain
  BY <1>14 DEF PollDrain, WakeInv, TypeOK, PlacesOK, FlagsOK, CountsOK,
     EndsFollowThreads, ExecutorRegistered, ownerVars
<1>15. CASE ExecutorWakes
  BY <1>15 DEF ExecutorWakes, WakeInv, TypeOK, PlacesOK, FlagsOK, CountsOK,
     EndsFollowThreads, ExecutorRegistered, ownerVars
<1>16. CASE Reply
  BY <1>16 DEF Reply, WakeInv, TypeOK, PlacesOK, FlagsOK, CountsOK,
     EndsFollowThreads, ExecutorRegistered, ownerVars
<1>17. CASE ReplyWake
  BY <1>17 DEF ReplyWake, WakeOwner, WakeInv, TypeOK, PlacesOK, FlagsOK, CountsOK,
     EndsFollowThreads, ExecutorRegistered, ownerVars
<1>18. CASE CloseGate
  BY <1>18 DEF CloseGate, WakeInv, TypeOK, PlacesOK, FlagsOK, CountsOK,
     EndsFollowThreads, ExecutorRegistered, ownerVars
<1>19. CASE ClosingDrain
  BY <1>19 DEF ClosingDrain, WakeInv, TypeOK, PlacesOK, FlagsOK, CountsOK,
     EndsFollowThreads, ExecutorRegistered, ownerVars
<1>20. CASE ReleasePending
  BY <1>20 DEF ReleasePending, WakeInv, TypeOK, PlacesOK, FlagsOK, CountsOK,
     EndsFollowThreads, ExecutorRegistered, ownerVars
<1>21. CASE LastRing
  BY <1>21 DEF LastRing, ReleaseThenRing, WakeOwner, WakeInv, TypeOK, PlacesOK,
     FlagsOK, CountsOK, EndsFollowThreads, ExecutorRegistered, ownerVars
<1>22. CASE UNCHANGED vars
  BY <1>22 DEF vars, ownerVars, WakeInv, TypeOK, PlacesOK, FlagsOK, CountsOK,
     EndsFollowThreads, ExecutorRegistered
<1> QED
  BY <1>1, <1>2, <1>3, <1>4, <1>5, <1>6, <1>7, <1>8, <1>9, <1>10, <1>11, <1>12,
     <1>13,
     <1>14, <1>15, <1>16, <1>17, <1>18, <1>19, <1>20, <1>21, <1>22
     DEF Next, Owner, Executor

(* The window between the owner's registration and its sleep, and the send *)
(* that is behind the gate when the inbox goes.                            *)
LEMMA OwnerStep ==
  ASSUME WakeInv, [Next]_vars PROVE OwnerRegistered'
<1>1. CASE Hold
  BY <1>1 DEF Hold, WakeInv, TypeOK, PlacesOK, FlagsOK, CountsOK, EndsFollowThreads,
     OwnerRegistered
<1>2. CASE Release
  BY <1>2 DEF Release, WakeInv, TypeOK, PlacesOK, FlagsOK, CountsOK,
     EndsFollowThreads, OwnerRegistered
<1>3. CASE SendEnter
  BY <1>3 DEF SendEnter, WakeInv, TypeOK, PlacesOK, FlagsOK, CountsOK,
     EndsFollowThreads, OwnerRegistered
<1>4. CASE SendPush
  BY <1>4 DEF SendPush, WakeInv, TypeOK, PlacesOK, FlagsOK, CountsOK,
     EndsFollowThreads, OwnerRegistered
<1>5. CASE SendRing
  BY <1>5 DEF SendRing, WakeExecutor, WakeInv, TypeOK, PlacesOK, FlagsOK, CountsOK,
     EndsFollowThreads, OwnerRegistered
<1>6. CASE ReceiptsStart
  BY <1>6 DEF ReceiptsStart, WakeInv, TypeOK, PlacesOK, FlagsOK, CountsOK,
     EndsFollowThreads, OwnerRegistered
<1>7. CASE ReceiptsPop
  BY <1>7 DEF ReceiptsPop, WakeInv, TypeOK, PlacesOK, FlagsOK, CountsOK,
     EndsFollowThreads, OwnerRegistered
<1>8. CASE ReceiptsProbe
  BY <1>8 DEF ReceiptsProbe, WakeInv, TypeOK, PlacesOK, FlagsOK, CountsOK,
     EndsFollowThreads, OwnerRegistered
<1>9. CASE OwnerSleep
  BY <1>9 DEF OwnerSleep, WakeInv, TypeOK, PlacesOK, FlagsOK, CountsOK,
     EndsFollowThreads, OwnerRegistered
<1>10. CASE OwnerWakes
  BY <1>10 DEF OwnerWakes, WakeInv, TypeOK, PlacesOK, FlagsOK, CountsOK,
     EndsFollowThreads, OwnerRegistered
<1>11. CASE DropSender
  BY <1>11 DEF DropSender, DropOrder, WakeExecutor, WakeInv, TypeOK, PlacesOK,
     FlagsOK, CountsOK, EndsFollowThreads, OwnerRegistered
<1>12. CASE PollRegister
  BY <1>12 DEF PollRegister, WakeInv, TypeOK, PlacesOK, FlagsOK, CountsOK,
     EndsFollowThreads, OwnerRegistered, ownerVars
<1>13. CASE PollClosed
  BY <1>13 DEF PollClosed, WakeInv, TypeOK, PlacesOK, FlagsOK, CountsOK,
     EndsFollowThreads, OwnerRegistered, ownerVars
<1>14. CASE PollDrain
  BY <1>14 DEF PollDrain, WakeInv, TypeOK, PlacesOK, FlagsOK, CountsOK,
     EndsFollowThreads, OwnerRegistered, ownerVars
<1>15. CASE ExecutorWakes
  BY <1>15 DEF ExecutorWakes, WakeInv, TypeOK, PlacesOK, FlagsOK, CountsOK,
     EndsFollowThreads, OwnerRegistered, ownerVars
<1>16. CASE Reply
  BY <1>16 DEF Reply, WakeInv, TypeOK, PlacesOK, FlagsOK, CountsOK,
     EndsFollowThreads, OwnerRegistered, ownerVars
<1>17. CASE ReplyWake
  BY <1>17 DEF ReplyWake, WakeOwner, WakeInv, TypeOK, PlacesOK, FlagsOK, CountsOK,
     EndsFollowThreads, OwnerRegistered, ownerVars
<1>18. CASE CloseGate
  BY <1>18 DEF CloseGate, WakeInv, TypeOK, PlacesOK, FlagsOK, CountsOK,
     EndsFollowThreads, OwnerRegistered, ownerVars
<1>19. CASE ClosingDrain
  BY <1>19 DEF ClosingDrain, WakeInv, TypeOK, PlacesOK, FlagsOK, CountsOK,
     EndsFollowThreads, OwnerRegistered, ownerVars
<1>20. CASE ReleasePending
  BY <1>20 DEF ReleasePending, WakeInv, TypeOK, PlacesOK, FlagsOK, CountsOK,
     EndsFollowThreads, OwnerRegistered, ownerVars
<1>21. CASE LastRing
  BY <1>21 DEF LastRing, ReleaseThenRing, WakeOwner, WakeInv, TypeOK, PlacesOK,
     FlagsOK, CountsOK, EndsFollowThreads, OwnerRegistered, ownerVars
<1>22. CASE UNCHANGED vars
  BY <1>22 DEF vars, ownerVars, WakeInv, TypeOK, PlacesOK, FlagsOK, CountsOK,
     EndsFollowThreads, OwnerRegistered
<1> QED
  BY <1>1, <1>2, <1>3, <1>4, <1>5, <1>6, <1>7, <1>8, <1>9, <1>10, <1>11, <1>12,
     <1>13,
     <1>14, <1>15, <1>16, <1>17, <1>18, <1>19, <1>20, <1>21, <1>22
     DEF Next, Owner, Executor

(* The invariant holds initially and at every step.                        *)
LEMMA WakeInvariant == Spec => []WakeInv
<1>1. Init => WakeInv
  <2>1. Init => PlacesOK /\ FlagsOK
    BY DEF Init, PlacesOK, FlagsOK
  <2>2. Init => CountsOK
    BY WakeAssumption DEF Init, CountsOK, InFlight
  <2>3. Init => EndsFollowThreads /\ ExecutorRegistered /\ OwnerRegistered
    BY DEF Init, EndsFollowThreads, ExecutorRegistered, OwnerRegistered
  <2> QED
    BY <2>1, <2>2, <2>3 DEF WakeInv, TypeOK
<1>2. WakeInv /\ [Next]_vars => WakeInv'
  BY PlacesStep, FlagsStep, CountsStep, EndsStep, ExecutorStep, OwnerStep
     DEF WakeInv, TypeOK
<1> QED
  BY <1>1, <1>2, PTL DEF Spec

-----------------------------------------------------------------------------
(* No thread leaves its code, and no more batches are in flight than there *)
(* are credits (Book::spend, Sender::push).                                *)
THEOREM WakeTypeCorrect == Spec => []TypeOK
<1>1. WakeInv => TypeOK
  BY DEF WakeInv
<1> QED
  BY <1>1, WakeInvariant, PTL

(* An executor asleep in poll_drain that nobody has woken has no batch to  *)
(* drain and no departure to notice, unless the doorbell is about to ring. *)
THEOREM ExecutorIsNeverStranded == Spec => []ExecutorNotStranded
<1>1. WakeInv => ExecutorNotStranded
  BY DEF WakeInv, ExecutorRegistered, ExecutorNotStranded
<1> QED
  BY <1>1, WakeInvariant, PTL

(* An owner asleep that nobody has woken has no receipt to read and no     *)
(* orphaned batch to recover, unless the inbox is about to ring.           *)
THEOREM OwnerIsNeverStranded == Spec => []OwnerNotStranded
<1>1. WakeInv => OwnerNotStranded
  BY DEF WakeInv, EndsFollowThreads, OwnerRegistered, OwnerNotStranded
<1> QED
  BY <1>1, WakeInvariant, PTL

(* Neither side of the channel sleeps over what the other left for it, for *)
(* any capacity: the register-then-look order of poll_drain and receipts.  *)
THEOREM NobodyIsStranded == Spec => []NobodyStranded
<1>1. ExecutorNotStranded /\ OwnerNotStranded => NobodyStranded
  BY DEF NobodyStranded
<1> QED
  BY <1>1, ExecutorIsNeverStranded, OwnerIsNeverStranded, PTL

(* A poll that reported the sender gone has left nothing in the ring, and  *)
(* nothing more will come (is_closed before the drain).                    *)
THEOREM ClosedIsDrained == Spec => []ClosedMeansDrained
<1>1. WakeInv => ClosedMeansDrained
  BY DEF WakeInv, EndsFollowThreads, ExecutorRegistered, ClosedMeansDrained
<1> QED
  BY <1>1, WakeInvariant, PTL
=============================================================================
