----------------------- MODULE CommandChannelProofs -----------------------
(***************************************************************************)
(* Proofs about CommandChannel, for every set of targets, every capacity   *)
(* and every bound.  Three invariants, each resting on the one before.     *)
(*                                                                         *)
(* ChannelInv: the types, the ledger that only goes forward, the parked    *)
(* batches that stay fresh, and the ring of batches that has one consumer. *)
(* None of these is inductive alone.  That an applied batch moves the      *)
(* ledger forward needs two facts carried from elsewhere: every batch in   *)
(* flight has a basis older than its own number (the sender could name no  *)
(* other), and the batch the executor holds was judged by the ledger as it *)
(* still is.  That a parked batch is fresh needs the second one too, for   *)
(* Defer parks without judging.                                            *)
(*                                                                         *)
(* FlightInv: every number given is in one place, and the credits balance. *)
(* The two need each other: a batch added to a set adds to its size only   *)
(* if its number is nowhere else, and an answer is not lost only if the    *)
(* credits bound the receipts.  Every action is shown to be a motion of    *)
(* one batch from one place to another, or none.                           *)
(*                                                                         *)
(* ChainInv: the ledger holds the newest shift of each target, so a batch  *)
(* judged current joins the end of the target's chain.                     *)
(***************************************************************************)
EXTENDS CommandChannel, FiniteSetTheorems, TLAPS

(* A thread that is about to use a batch holds one.                        *)
HandsFull ==
  /\ sPc = "push" => hand \in Batch /\ next <= MaxSeq
  /\ xPc \in {"due", "deferred"} => held \in Batch

(* Every batch on its way to the ledger has a basis older than itself.     *)
Backward(b) == \A t \in Targets : b.basis[t] < b.seq
BasesBackward ==
  /\ sPc = "push" => Backward(hand)
  /\ \A i \in DOMAIN commands : Backward(commands[i])
  /\ \A b \in schedule \cup arrived \cup parked : Backward(b)
  /\ xPc \in {"due", "deferred"} => Backward(held)

(* What take_due and take_parked judged stays judged until it is answered. *)
DueIsCurrent == xPc = "due" => IsCurrent(held)

(* The inbox lets go of its ends at the end of its drop, in order.         *)
EndsInOrder ==
  /\ pendingHeld <=> xPc \notin {"released", "gone"}
  /\ answersHeld <=> xPc # "gone"

ChannelInv ==
  TypeOK /\ HandsFull /\ BasesBackward /\ DueIsCurrent /\ ParkedFresh /\ EndsInOrder

-----------------------------------------------------------------------------
(* What the operators of the channel return.                               *)

(* The receipt of a batch is a receipt.                                    *)
LEMMA AnswerType ==
  ASSUME NEW b \in Batch, NEW outcome \in Rejections \cup {"Applied"}
  PROVE  Answer(b, outcome) \in Receipt
BY DEF Batch, Receipt, Answer

(* Sink::reply keeps the receipt ring well-formed, lossy or not.           *)
LEMMA ReplyType ==
  ASSUME receipts \in Seq(Receipt), NEW b \in Batch,
         NEW outcome \in Rejections \cup {"Applied"}, Reply(b, outcome)
  PROVE  receipts' \in Seq(Receipt)
BY AnswerType DEF Reply

(* Book::settle keeps the book well-formed, whatever the receipt.          *)
LEMMA SettleType ==
  ASSUME applied \in [Targets -> None .. MaxSeq], pending \in SUBSET Batch, credits \in Nat,
         answered \in SUBSET Receipt, NEW r \in Receipt, Settle(r)
  PROVE  /\ applied' \in [Targets -> None .. MaxSeq]
         /\ pending' \in SUBSET Batch
         /\ credits' \in Nat
         /\ answered' \in SUBSET Receipt
<1>1. r.seq \in 1 .. MaxSeq
  BY DEF Receipt, Seqs
<1>2. applied' \in [Targets -> None .. MaxSeq]
  BY <1>1, ChannelAssumption DEF Settle, Later, None
<1> QED
  BY <1>2 DEF Settle

(* A batch being sent is a batch, and its basis is older than it: the sender*)
(* can only name numbers it was given.                                     *)
LEMMA DrawnType ==
  ASSUME next \in 1 .. MaxSeq, NEW w \in Whens, NEW basis \in Bases,
         NEW b, b = [seq |-> next, when |-> w, basis |-> basis]
  PROVE  b \in Batch /\ Backward(b)
BY ChannelAssumption DEF Batch, Seqs, Bases, Backward, Unlisted, None

(* Due::defer changes the moment of a batch and nothing else.              *)
LEMMA ParkedType ==
  ASSUME NEW b \in Batch
  PROVE  /\ [b EXCEPT !.when = WhenDeferred] \in Batch
         /\ [b EXCEPT !.when = WhenDeferred].seq = b.seq
         /\ [b EXCEPT !.when = WhenDeferred].basis = b.basis
BY DEF Batch, Whens

(* Ledger::record keeps the ledger well-formed.                            *)
LEMMA RecordType ==
  ASSUME ledger \in [Targets -> None .. MaxSeq], NEW b \in Batch
  PROVE  Record(b) \in [Targets -> None .. MaxSeq]
BY ChannelAssumption DEF Record, Batch, Seqs, None

(* The ledger holds numbers.                                               *)
LEMMA LedgerNumbers ==
  ASSUME ChannelInv PROVE \A t \in Targets : ledger[t] \in Int
BY ChannelAssumption DEF ChannelInv, TypeOK, ExecutorTypeOK, None

(* Sender::push adds at most the batch in hand.                            *)
LEMMA PushKeeps ==
  ASSUME ChannelInv, SendPush
  PROVE  commands' \in Seq(Batch) /\ \A i \in DOMAIN commands' : Backward(commands'[i])
<1>1. commands \in Seq(Batch) /\ hand \in Batch /\ Backward(hand)
  BY DEF SendPush, ChannelInv, TypeOK, RingTypeOK, HandsFull, BasesBackward
<1>2. \A i \in DOMAIN commands : Backward(commands[i])
  BY DEF ChannelInv, BasesBackward
<1>3. CASE commands' = commands
  BY <1>1, <1>2, <1>3
<1>4. CASE commands' = Append(commands, hand)
  <2>1. commands' \in Seq(Batch) /\ DOMAIN commands' = 1 .. Len(commands) + 1
    BY <1>1, <1>4
  <2>2. \A i \in DOMAIN commands' :
          \/ i \in DOMAIN commands /\ commands'[i] = commands[i]
          \/ commands'[i] = hand
    BY <1>1, <1>4
  <2> QED
    BY <1>1, <1>2, <2>1, <2>2
<1> QED
  BY <1>3, <1>4 DEF SendPush

(* The batches taken next, and the outdated ones, are batches of the set.  *)
LEMMA ChosenIn ==
  ASSUME NEW S
  PROVE  Earliest(S) \subseteq S /\ Oldest(S) \subseteq S /\ OutdatedIn(S) \subseteq S
BY DEF Earliest, Oldest, OutdatedIn

(* A batch that was current when taken is not outdated when it is deferred.*)
LEMMA DeferredIsFresh ==
  ASSUME ChannelInv, Defer
  PROVE  ParkedFresh'
<1>1. held \in Batch /\ IsCurrent(held)
  BY DEF Defer, ChannelInv, HandsFull, DueIsCurrent
<1>2. \A t \in Listed(held) : ~(held.basis[t] < ledger[t])
  BY <1>1, LedgerNumbers DEF IsCurrent, Listed
<1>3. PICK b : b = [held EXCEPT !.when = WhenDeferred]
  OBVIOUS
<1>4. b.basis = held.basis
  BY <1>1, <1>3, ParkedType
<1>5. ~Outdates(b)
  BY <1>2, <1>4 DEF Outdates, Listed
<1>6. OutdatedIn(parked) = {}
  BY DEF Defer, ChannelInv, ParkedFresh
<1>7. parked' = parked \cup {b} /\ ledger' = ledger
  BY <1>3 DEF Defer
<1> QED
  BY <1>5, <1>6, <1>7 DEF ParkedFresh, OutdatedIn, Outdates, Listed

(* The receipt read is a receipt.                                          *)
LEMMA ReceiptHead ==
  ASSUME receipts \in Seq(Receipt), receipts # <<>>
  PROVE Head(receipts) \in Receipt /\ Tail(receipts) \in Seq(Receipt)
OBVIOUS

(* The batch popped is a batch, older bases included.                      *)
LEMMA CommandHead ==
  ASSUME commands \in Seq(Batch), commands # <<>>
  PROVE  /\ Head(commands) \in Batch /\ Tail(commands) \in Seq(Batch)
         /\ BasesBackward => Backward(Head(commands))
         /\ BasesBackward =>
              \A i \in DOMAIN Tail(commands) : Backward(Tail(commands)[i])
<1>1. Head(commands) \in Batch /\ Tail(commands) \in Seq(Batch)
  OBVIOUS
<1>2. Head(commands) = commands[1] /\ 1 \in DOMAIN commands
  OBVIOUS
<1>3. \A i \in DOMAIN Tail(commands) :
        i + 1 \in DOMAIN commands /\ Tail(commands)[i] = commands[i + 1]
  OBVIOUS
<1> QED
  BY <1>1, <1>2, <1>3 DEF BasesBackward

-----------------------------------------------------------------------------
(* Every step preserves each part of the invariant.                        *)

(* The type of the sender's side is preserved.                             *)
LEMMA SenderTypeStep ==
  ASSUME ChannelInv, [Next]_vars PROVE SenderTypeOK'
<1> USE DEF ChannelInv, TypeOK, SenderTypeOK, HandsFull, RingTypeOK, SenderPcs
<1>1. CASE SendEnter
  BY <1>1, DrawnType DEF SendEnter, docketVars, ringEnds
<1>2. CASE SendPush
  BY <1>2, ChannelAssumption DEF SendPush, Spend, docketVars, ringEnds
<1>3. CASE ReadReceipt
  BY <1>3, ReceiptHead, SettleType DEF ReadReceipt, docketVars, ringEnds
<1>4. CASE ReadNothing
  BY <1>4 DEF ReadNothing, docketVars, ringEnds
<1>5. CASE RecoverOrphan
  BY <1>5, CommandHead, AnswerType, SettleType DEF RecoverOrphan, Rejections,
     docketVars, ringEnds
<1>6. CASE StartDrain
  BY <1>6 DEF StartDrain, senderVars, docketVars, ringEnds
<1>7. CASE Drain
  BY <1>7 DEF Drain, senderVars, docketVars, ringEnds
<1>8. CASE TakeDue
  BY <1>8 DEF TakeDue, senderVars, docketVars, ringEnds
<1>9. CASE Apply
  BY <1>9 DEF Apply, senderVars, docketVars, ringEnds
<1>10. CASE Commit
  BY <1>10 DEF Commit, senderVars, docketVars, ringEnds
<1>11. CASE Defer
  BY <1>11 DEF Defer, senderVars, docketVars, ringEnds
<1>12. CASE Refuse
  BY <1>12 DEF Refuse, senderVars, docketVars, ringEnds
<1>13. CASE RejectOutdated
  BY <1>13 DEF RejectOutdated, senderVars, docketVars, ringEnds
<1>14. CASE TakeDeferred
  BY <1>14 DEF TakeDeferred, senderVars, docketVars, ringEnds
<1>15. CASE Park
  BY <1>15 DEF Park, senderVars, docketVars, ringEnds
<1>16. CASE Resume
  BY <1>16 DEF Resume, senderVars, docketVars, ringEnds
<1>17. CASE Complete
  BY <1>17 DEF Complete, senderVars, docketVars, ringEnds
<1>18. CASE RefuseTimed
  BY <1>18 DEF RefuseTimed, senderVars, docketVars, ringEnds
<1>19. CASE NextBlock
  BY <1>19 DEF NextBlock, senderVars, docketVars, ringEnds
<1>20. CASE CloseGate
  BY <1>20 DEF CloseGate, senderVars, docketVars, ringEnds
<1>21. CASE Unanswered
  BY <1>21 DEF Unanswered, senderVars, docketVars, ringEnds
<1>22. CASE ReleasePending
  BY <1>22 DEF ReleasePending, senderVars, docketVars, ringEnds
<1>23. CASE ReleaseAnswers
  BY <1>23 DEF ReleaseAnswers, senderVars, docketVars, ringEnds
<1>24. CASE UNCHANGED vars
  BY <1>24 DEF vars, senderVars, docketVars, ringEnds
<1> QED
  BY <1>1, <1>2, <1>3, <1>4, <1>5, <1>6, <1>7, <1>8, <1>9, <1>10, <1>11, <1>12, <1>13,
     <1>14, <1>15, <1>16, <1>17, <1>18, <1>19, <1>20, <1>21, <1>22, <1>23, <1>24
     DEF Next, Sender, Executor

(* The type of the rings is preserved.                                     *)
LEMMA RingTypeStep ==
  ASSUME ChannelInv, [Next]_vars PROVE RingTypeOK'
<1> USE DEF ChannelInv, TypeOK, SenderTypeOK, HandsFull, RingTypeOK, DocketTypeOK
<1>1. CASE SendEnter
  BY <1>1 DEF SendEnter, docketVars, ringEnds
<1>2. CASE SendPush
  BY <1>2, PushKeeps DEF SendPush, docketVars, ringEnds
<1>3. CASE ReadReceipt
  BY <1>3, ReceiptHead, SettleType DEF ReadReceipt, docketVars, ringEnds
<1>4. CASE ReadNothing
  BY <1>4 DEF ReadNothing, docketVars, ringEnds
<1>5. CASE RecoverOrphan
  BY <1>5, CommandHead, AnswerType, SettleType DEF RecoverOrphan, Rejections,
     docketVars, ringEnds
<1>6. CASE StartDrain
  BY <1>6 DEF StartDrain, senderVars, docketVars, ringEnds
<1>7. CASE Drain
  BY <1>7, CommandHead DEF Drain, senderVars, docketVars, ringEnds
<1>8. CASE TakeDue
  BY <1>8, ReplyType, ChosenIn DEF TakeDue, Rejections, senderVars, docketVars, ringEnds
<1>9. CASE Apply
  BY <1>9, ReplyType, ChosenIn DEF Apply, Rejections, senderVars, docketVars, ringEnds
<1>10. CASE Commit
  BY <1>10 DEF Commit, senderVars, docketVars, ringEnds
<1>11. CASE Defer
  BY <1>11 DEF Defer, senderVars, docketVars, ringEnds
<1>12. CASE Refuse
  BY <1>12, ReplyType, ChosenIn DEF Refuse, Rejections, senderVars, docketVars, ringEnds
<1>13. CASE RejectOutdated
  BY <1>13, ReplyType, ChosenIn DEF RejectOutdated, Rejections, senderVars,
     docketVars, ringEnds
<1>14. CASE TakeDeferred
  BY <1>14 DEF TakeDeferred, senderVars, docketVars, ringEnds
<1>15. CASE Park
  BY <1>15, ReplyType, ChosenIn DEF Park, Rejections, senderVars, docketVars, ringEnds
<1>16. CASE Resume
  BY <1>16, ReplyType, ChosenIn DEF Resume, Rejections, senderVars, docketVars, ringEnds
<1>17. CASE Complete
  BY <1>17, ReplyType, ChosenIn DEF Complete, Rejections, senderVars, docketVars, ringEnds
<1>18. CASE RefuseTimed
  BY <1>18, ReplyType, ChosenIn DEF RefuseTimed, Rejections, senderVars, docketVars,
     ringEnds
<1>19. CASE NextBlock
  BY <1>19 DEF NextBlock, senderVars, docketVars, ringEnds
<1>20. CASE CloseGate
  BY <1>20 DEF CloseGate, senderVars, docketVars, ringEnds
<1>21. CASE Unanswered
  BY <1>21, ReplyType, ChosenIn DEF Unanswered, Rejections, senderVars, docketVars,
     ringEnds
<1>22. CASE ReleasePending
  BY <1>22 DEF ReleasePending, senderVars, docketVars, ringEnds
<1>23. CASE ReleaseAnswers
  BY <1>23 DEF ReleaseAnswers, senderVars, docketVars, ringEnds
<1>24. CASE UNCHANGED vars
  BY <1>24 DEF vars, senderVars, docketVars, ringEnds
<1> QED
  BY <1>1, <1>2, <1>3, <1>4, <1>5, <1>6, <1>7, <1>8, <1>9, <1>10, <1>11, <1>12, <1>13,
     <1>14, <1>15, <1>16, <1>17, <1>18, <1>19, <1>20, <1>21, <1>22, <1>23, <1>24
     DEF Next, Sender, Executor

(* The type of the gate and the ring ends is preserved.                    *)
LEMMA EndTypeStep ==
  ASSUME ChannelInv, [Next]_vars PROVE EndTypeOK'
<1> USE DEF ChannelInv, TypeOK, EndTypeOK
<1>1. CASE SendEnter
  BY <1>1 DEF SendEnter, docketVars, ringEnds
<1>2. CASE SendPush
  BY <1>2 DEF SendPush, docketVars, ringEnds
<1>3. CASE ReadReceipt
  BY <1>3 DEF ReadReceipt, docketVars, ringEnds
<1>4. CASE ReadNothing
  BY <1>4 DEF ReadNothing, docketVars, ringEnds
<1>5. CASE RecoverOrphan
  BY <1>5 DEF RecoverOrphan, docketVars, ringEnds
<1>6. CASE StartDrain
  BY <1>6 DEF StartDrain, senderVars, docketVars, ringEnds
<1>7. CASE Drain
  BY <1>7 DEF Drain, senderVars, docketVars, ringEnds
<1>8. CASE TakeDue
  BY <1>8 DEF TakeDue, senderVars, docketVars, ringEnds
<1>9. CASE Apply
  BY <1>9 DEF Apply, senderVars, docketVars, ringEnds
<1>10. CASE Commit
  BY <1>10 DEF Commit, senderVars, docketVars, ringEnds
<1>11. CASE Defer
  BY <1>11 DEF Defer, senderVars, docketVars, ringEnds
<1>12. CASE Refuse
  BY <1>12 DEF Refuse, senderVars, docketVars, ringEnds
<1>13. CASE RejectOutdated
  BY <1>13 DEF RejectOutdated, senderVars, docketVars, ringEnds
<1>14. CASE TakeDeferred
  BY <1>14 DEF TakeDeferred, senderVars, docketVars, ringEnds
<1>15. CASE Park
  BY <1>15 DEF Park, senderVars, docketVars, ringEnds
<1>16. CASE Resume
  BY <1>16 DEF Resume, senderVars, docketVars, ringEnds
<1>17. CASE Complete
  BY <1>17 DEF Complete, senderVars, docketVars, ringEnds
<1>18. CASE RefuseTimed
  BY <1>18 DEF RefuseTimed, senderVars, docketVars, ringEnds
<1>19. CASE NextBlock
  BY <1>19 DEF NextBlock, senderVars, docketVars, ringEnds
<1>20. CASE CloseGate
  BY <1>20 DEF CloseGate, senderVars, docketVars, ringEnds
<1>21. CASE Unanswered
  BY <1>21 DEF Unanswered, senderVars, docketVars, ringEnds
<1>22. CASE ReleasePending
  BY <1>22 DEF ReleasePending, senderVars, docketVars, ringEnds
<1>23. CASE ReleaseAnswers
  BY <1>23 DEF ReleaseAnswers, senderVars, docketVars, ringEnds
<1>24. CASE UNCHANGED vars
  BY <1>24 DEF vars, senderVars, docketVars, ringEnds
<1> QED
  BY <1>1, <1>2, <1>3, <1>4, <1>5, <1>6, <1>7, <1>8, <1>9, <1>10, <1>11, <1>12, <1>13,
     <1>14, <1>15, <1>16, <1>17, <1>18, <1>19, <1>20, <1>21, <1>22, <1>23, <1>24
     DEF Next, Sender, Executor

(* The type of the docket is preserved.                                    *)
LEMMA DocketTypeStep ==
  ASSUME ChannelInv, [Next]_vars PROVE DocketTypeOK'
<1> USE DEF ChannelInv, TypeOK, DocketTypeOK, HandsFull, RingTypeOK
<1>1. CASE SendEnter
  BY <1>1 DEF SendEnter, docketVars, ringEnds
<1>2. CASE SendPush
  BY <1>2 DEF SendPush, docketVars, ringEnds
<1>3. CASE ReadReceipt
  BY <1>3 DEF ReadReceipt, docketVars, ringEnds
<1>4. CASE ReadNothing
  BY <1>4 DEF ReadNothing, docketVars, ringEnds
<1>5. CASE RecoverOrphan
  BY <1>5 DEF RecoverOrphan, docketVars, ringEnds
<1>6. CASE StartDrain
  BY <1>6 DEF StartDrain, senderVars, docketVars, ringEnds
<1>7. CASE Drain
  BY <1>7, CommandHead DEF Drain, Insert, senderVars, docketVars, ringEnds
<1>8. CASE TakeDue
  BY <1>8 DEF TakeDue, senderVars, docketVars, ringEnds
<1>9. CASE Apply
  BY <1>9 DEF Apply, senderVars, docketVars, ringEnds
<1>10. CASE Commit
  BY <1>10 DEF Commit, senderVars, docketVars, ringEnds
<1>11. CASE Defer
  BY <1>11, ParkedType DEF Defer, senderVars, docketVars, ringEnds
<1>12. CASE Refuse
  BY <1>12 DEF Refuse, senderVars, docketVars, ringEnds
<1>13. CASE RejectOutdated
  BY <1>13 DEF RejectOutdated, senderVars, docketVars, ringEnds
<1>14. CASE TakeDeferred
  BY <1>14 DEF TakeDeferred, senderVars, docketVars, ringEnds
<1>15. CASE Park
  BY <1>15 DEF Park, senderVars, docketVars, ringEnds
<1>16. CASE Resume
  BY <1>16 DEF Resume, senderVars, docketVars, ringEnds
<1>17. CASE Complete
  BY <1>17 DEF Complete, senderVars, docketVars, ringEnds
<1>18. CASE RefuseTimed
  BY <1>18 DEF RefuseTimed, senderVars, docketVars, ringEnds
<1>19. CASE NextBlock
  BY <1>19 DEF NextBlock, senderVars, docketVars, ringEnds
<1>20. CASE CloseGate
  BY <1>20 DEF CloseGate, senderVars, docketVars, ringEnds
<1>21. CASE Unanswered
  BY <1>21 DEF Unanswered, senderVars, docketVars, ringEnds
<1>22. CASE ReleasePending
  BY <1>22 DEF ReleasePending, senderVars, docketVars, ringEnds
<1>23. CASE ReleaseAnswers
  BY <1>23 DEF ReleaseAnswers, senderVars, docketVars, ringEnds
<1>24. CASE UNCHANGED vars
  BY <1>24 DEF vars, senderVars, docketVars, ringEnds
<1> QED
  BY <1>1, <1>2, <1>3, <1>4, <1>5, <1>6, <1>7, <1>8, <1>9, <1>10, <1>11, <1>12, <1>13,
     <1>14, <1>15, <1>16, <1>17, <1>18, <1>19, <1>20, <1>21, <1>22, <1>23, <1>24
     DEF Next, Sender, Executor

(* The type of the executor's side is preserved.                           *)
LEMMA ExecutorTypeStep ==
  ASSUME ChannelInv, [Next]_vars PROVE ExecutorTypeOK'
<1> USE DEF ChannelInv, TypeOK, ExecutorTypeOK, ExecutorPcs, DocketTypeOK, HandsFull
<1>1. CASE SendEnter
  BY <1>1 DEF SendEnter, docketVars, ringEnds
<1>2. CASE SendPush
  BY <1>2 DEF SendPush, docketVars, ringEnds
<1>3. CASE ReadReceipt
  BY <1>3 DEF ReadReceipt, docketVars, ringEnds
<1>4. CASE ReadNothing
  BY <1>4 DEF ReadNothing, docketVars, ringEnds
<1>5. CASE RecoverOrphan
  BY <1>5 DEF RecoverOrphan, docketVars, ringEnds
<1>6. CASE StartDrain
  BY <1>6 DEF StartDrain, senderVars, docketVars, ringEnds
<1>7. CASE Drain
  BY <1>7 DEF Drain, senderVars, docketVars, ringEnds
<1>8. CASE TakeDue
  BY <1>8, ChosenIn DEF TakeDue, senderVars, docketVars, ringEnds
<1>9. CASE Apply
  BY <1>9, RecordType DEF Apply, senderVars, docketVars, ringEnds
<1>10. CASE Commit
  BY <1>10, RecordType DEF Commit, senderVars, docketVars, ringEnds
<1>11. CASE Defer
  BY <1>11 DEF Defer, senderVars, docketVars, ringEnds
<1>12. CASE Refuse
  BY <1>12 DEF Refuse, senderVars, docketVars, ringEnds
<1>13. CASE RejectOutdated
  BY <1>13 DEF RejectOutdated, senderVars, docketVars, ringEnds
<1>14. CASE TakeDeferred
  BY <1>14, ChosenIn DEF TakeDeferred, senderVars, docketVars, ringEnds
<1>15. CASE Park
  BY <1>15 DEF Park, senderVars, docketVars, ringEnds
<1>16. CASE Resume
  BY <1>16 DEF Resume, senderVars, docketVars, ringEnds
<1>17. CASE Complete
  BY <1>17 DEF Complete, senderVars, docketVars, ringEnds
<1>18. CASE RefuseTimed
  BY <1>18 DEF RefuseTimed, senderVars, docketVars, ringEnds
<1>19. CASE NextBlock
  BY <1>19, ChannelAssumption DEF NextBlock, Frames, senderVars, docketVars, ringEnds
<1>20. CASE CloseGate
  BY <1>20 DEF CloseGate, senderVars, docketVars, ringEnds
<1>21. CASE Unanswered
  BY <1>21 DEF Unanswered, senderVars, docketVars, ringEnds
<1>22. CASE ReleasePending
  BY <1>22 DEF ReleasePending, senderVars, docketVars, ringEnds
<1>23. CASE ReleaseAnswers
  BY <1>23 DEF ReleaseAnswers, senderVars, docketVars, ringEnds
<1>24. CASE UNCHANGED vars
  BY <1>24 DEF vars, senderVars, docketVars, ringEnds
<1> QED
  BY <1>1, <1>2, <1>3, <1>4, <1>5, <1>6, <1>7, <1>8, <1>9, <1>10, <1>11, <1>12, <1>13,
     <1>14, <1>15, <1>16, <1>17, <1>18, <1>19, <1>20, <1>21, <1>22, <1>23, <1>24
     DEF Next, Sender, Executor

(* A thread takes a batch before it uses it.                               *)
LEMMA HandsStep ==
  ASSUME ChannelInv, [Next]_vars PROVE HandsFull'
<1> USE DEF ChannelInv, TypeOK, HandsFull, SenderTypeOK, DocketTypeOK, ExecutorTypeOK
<1>1. CASE SendEnter
  BY <1>1, DrawnType, ChannelAssumption DEF SendEnter, docketVars, ringEnds
<1>2. CASE SendPush
  BY <1>2 DEF SendPush, docketVars, ringEnds
<1>3. CASE ReadReceipt
  BY <1>3 DEF ReadReceipt, docketVars, ringEnds
<1>4. CASE ReadNothing
  BY <1>4 DEF ReadNothing, docketVars, ringEnds
<1>5. CASE RecoverOrphan
  BY <1>5 DEF RecoverOrphan, docketVars, ringEnds
<1>6. CASE StartDrain
  BY <1>6 DEF StartDrain, senderVars, docketVars, ringEnds
<1>7. CASE Drain
  BY <1>7 DEF Drain, senderVars, docketVars, ringEnds
<1>8. CASE TakeDue
  BY <1>8, ChosenIn DEF TakeDue, senderVars, docketVars, ringEnds
<1>9. CASE Apply
  BY <1>9 DEF Apply, senderVars, docketVars, ringEnds
<1>10. CASE Commit
  BY <1>10 DEF Commit, senderVars, docketVars, ringEnds
<1>11. CASE Defer
  BY <1>11 DEF Defer, senderVars, docketVars, ringEnds
<1>12. CASE Refuse
  BY <1>12 DEF Refuse, senderVars, docketVars, ringEnds
<1>13. CASE RejectOutdated
  BY <1>13 DEF RejectOutdated, senderVars, docketVars, ringEnds
<1>14. CASE TakeDeferred
  BY <1>14, ChosenIn DEF TakeDeferred, senderVars, docketVars, ringEnds
<1>15. CASE Park
  BY <1>15 DEF Park, senderVars, docketVars, ringEnds
<1>16. CASE Resume
  BY <1>16 DEF Resume, senderVars, docketVars, ringEnds
<1>17. CASE Complete
  BY <1>17 DEF Complete, senderVars, docketVars, ringEnds
<1>18. CASE RefuseTimed
  BY <1>18 DEF RefuseTimed, senderVars, docketVars, ringEnds
<1>19. CASE NextBlock
  BY <1>19 DEF NextBlock, senderVars, docketVars, ringEnds
<1>20. CASE CloseGate
  BY <1>20 DEF CloseGate, senderVars, docketVars, ringEnds
<1>21. CASE Unanswered
  BY <1>21 DEF Unanswered, senderVars, docketVars, ringEnds
<1>22. CASE ReleasePending
  BY <1>22 DEF ReleasePending, senderVars, docketVars, ringEnds
<1>23. CASE ReleaseAnswers
  BY <1>23 DEF ReleaseAnswers, senderVars, docketVars, ringEnds
<1>24. CASE UNCHANGED vars
  BY <1>24 DEF vars, senderVars, docketVars, ringEnds
<1> QED
  BY <1>1, <1>2, <1>3, <1>4, <1>5, <1>6, <1>7, <1>8, <1>9, <1>10, <1>11, <1>12, <1>13,
     <1>14, <1>15, <1>16, <1>17, <1>18, <1>19, <1>20, <1>21, <1>22, <1>23, <1>24
     DEF Next, Sender, Executor

(* Batches move from place to place, and their bases stay.                 *)
LEMMA BackwardStep ==
  ASSUME ChannelInv, [Next]_vars PROVE BasesBackward'
<1> USE DEF ChannelInv, TypeOK, BasesBackward, HandsFull, SenderTypeOK, DocketTypeOK, RingTypeOK
<1>1. CASE SendEnter
  BY <1>1, DrawnType, ChannelAssumption DEF SendEnter, docketVars, ringEnds
<1>2. CASE SendPush
  BY <1>2, PushKeeps DEF SendPush, docketVars, ringEnds
<1>3. CASE ReadReceipt
  BY <1>3 DEF ReadReceipt, docketVars, ringEnds
<1>4. CASE ReadNothing
  BY <1>4 DEF ReadNothing, docketVars, ringEnds
<1>5. CASE RecoverOrphan
  BY <1>5, CommandHead DEF RecoverOrphan, docketVars, ringEnds
<1>6. CASE StartDrain
  BY <1>6 DEF StartDrain, senderVars, docketVars, ringEnds
<1>7. CASE Drain
  BY <1>7, CommandHead DEF Drain, Insert, senderVars, docketVars, ringEnds
<1>8. CASE TakeDue
  BY <1>8, ChosenIn DEF TakeDue, senderVars, docketVars, ringEnds
<1>9. CASE Apply
  BY <1>9 DEF Apply, senderVars, docketVars, ringEnds
<1>10. CASE Commit
  BY <1>10 DEF Commit, senderVars, docketVars, ringEnds
<1>11. CASE Defer
  BY <1>11, ParkedType DEF Defer, Backward, senderVars, docketVars, ringEnds
<1>12. CASE Refuse
  BY <1>12 DEF Refuse, senderVars, docketVars, ringEnds
<1>13. CASE RejectOutdated
  BY <1>13 DEF RejectOutdated, senderVars, docketVars, ringEnds
<1>14. CASE TakeDeferred
  BY <1>14, ChosenIn DEF TakeDeferred, senderVars, docketVars, ringEnds
<1>15. CASE Park
  BY <1>15 DEF Park, senderVars, docketVars, ringEnds
<1>16. CASE Resume
  BY <1>16 DEF Resume, senderVars, docketVars, ringEnds
<1>17. CASE Complete
  BY <1>17 DEF Complete, senderVars, docketVars, ringEnds
<1>18. CASE RefuseTimed
  BY <1>18 DEF RefuseTimed, senderVars, docketVars, ringEnds
<1>19. CASE NextBlock
  BY <1>19 DEF NextBlock, senderVars, docketVars, ringEnds
<1>20. CASE CloseGate
  BY <1>20 DEF CloseGate, senderVars, docketVars, ringEnds
<1>21. CASE Unanswered
  BY <1>21 DEF Unanswered, senderVars, docketVars, ringEnds
<1>22. CASE ReleasePending
  BY <1>22 DEF ReleasePending, senderVars, docketVars, ringEnds
<1>23. CASE ReleaseAnswers
  BY <1>23 DEF ReleaseAnswers, senderVars, docketVars, ringEnds
<1>24. CASE UNCHANGED vars
  BY <1>24 DEF vars, senderVars, docketVars, ringEnds
<1> QED
  BY <1>1, <1>2, <1>3, <1>4, <1>5, <1>6, <1>7, <1>8, <1>9, <1>10, <1>11, <1>12, <1>13,
     <1>14, <1>15, <1>16, <1>17, <1>18, <1>19, <1>20, <1>21, <1>22, <1>23, <1>24
     DEF Next, Sender, Executor

(* Only the batch held itself moves the ledger while it is held.           *)
LEMMA CurrentStep ==
  ASSUME ChannelInv, [Next]_vars PROVE DueIsCurrent'
<1> USE DEF ChannelInv, DueIsCurrent, IsCurrent, Listed
<1>1. CASE SendEnter
  BY <1>1 DEF SendEnter, docketVars, ringEnds
<1>2. CASE SendPush
  BY <1>2 DEF SendPush, docketVars, ringEnds
<1>3. CASE ReadReceipt
  BY <1>3 DEF ReadReceipt, docketVars, ringEnds
<1>4. CASE ReadNothing
  BY <1>4 DEF ReadNothing, docketVars, ringEnds
<1>5. CASE RecoverOrphan
  BY <1>5 DEF RecoverOrphan, docketVars, ringEnds
<1>6. CASE StartDrain
  BY <1>6 DEF StartDrain, senderVars, docketVars, ringEnds
<1>7. CASE Drain
  BY <1>7 DEF Drain, senderVars, docketVars, ringEnds
<1>8. CASE TakeDue
  BY <1>8 DEF TakeDue, senderVars, docketVars, ringEnds
<1>9. CASE Apply
  BY <1>9 DEF Apply, senderVars, docketVars, ringEnds
<1>10. CASE Commit
  BY <1>10 DEF Commit, senderVars, docketVars, ringEnds
<1>11. CASE Defer
  BY <1>11 DEF Defer, senderVars, docketVars, ringEnds
<1>12. CASE Refuse
  BY <1>12 DEF Refuse, senderVars, docketVars, ringEnds
<1>13. CASE RejectOutdated
  BY <1>13 DEF RejectOutdated, senderVars, docketVars, ringEnds
<1>14. CASE TakeDeferred
  BY <1>14 DEF TakeDeferred, senderVars, docketVars, ringEnds
<1>15. CASE Park
  BY <1>15 DEF Park, senderVars, docketVars, ringEnds
<1>16. CASE Resume
  BY <1>16 DEF Resume, senderVars, docketVars, ringEnds
<1>17. CASE Complete
  BY <1>17 DEF Complete, senderVars, docketVars, ringEnds
<1>18. CASE RefuseTimed
  BY <1>18 DEF RefuseTimed, senderVars, docketVars, ringEnds
<1>19. CASE NextBlock
  BY <1>19 DEF NextBlock, senderVars, docketVars, ringEnds
<1>20. CASE CloseGate
  BY <1>20 DEF CloseGate, senderVars, docketVars, ringEnds
<1>21. CASE Unanswered
  BY <1>21 DEF Unanswered, senderVars, docketVars, ringEnds
<1>22. CASE ReleasePending
  BY <1>22 DEF ReleasePending, senderVars, docketVars, ringEnds
<1>23. CASE ReleaseAnswers
  BY <1>23 DEF ReleaseAnswers, senderVars, docketVars, ringEnds
<1>24. CASE UNCHANGED vars
  BY <1>24 DEF vars, senderVars, docketVars, ringEnds
<1> QED
  BY <1>1, <1>2, <1>3, <1>4, <1>5, <1>6, <1>7, <1>8, <1>9, <1>10, <1>11, <1>12, <1>13,
     <1>14, <1>15, <1>16, <1>17, <1>18, <1>19, <1>20, <1>21, <1>22, <1>23, <1>24
     DEF Next, Sender, Executor

(* A batch is parked fresh, and a shift that outdates it is followed by    *)
(* reject_outdated.                                                        *)
LEMMA ParkedStep ==
  ASSUME ChannelInv, [Next]_vars PROVE ParkedFresh'
<1> USE DEF ChannelInv, ParkedFresh, OutdatedIn, Outdates, Listed
<1>1. CASE SendEnter
  BY <1>1 DEF SendEnter, docketVars, ringEnds
<1>2. CASE SendPush
  BY <1>2 DEF SendPush, docketVars, ringEnds
<1>3. CASE ReadReceipt
  BY <1>3 DEF ReadReceipt, docketVars, ringEnds
<1>4. CASE ReadNothing
  BY <1>4 DEF ReadNothing, docketVars, ringEnds
<1>5. CASE RecoverOrphan
  BY <1>5 DEF RecoverOrphan, docketVars, ringEnds
<1>6. CASE StartDrain
  BY <1>6 DEF StartDrain, senderVars, docketVars, ringEnds
<1>7. CASE Drain
  BY <1>7 DEF Drain, senderVars, docketVars, ringEnds
<1>8. CASE TakeDue
  BY <1>8 DEF TakeDue, senderVars, docketVars, ringEnds
<1>9. CASE Apply
  BY <1>9 DEF Apply, senderVars, docketVars, ringEnds
<1>10. CASE Commit
  BY <1>10 DEF Commit, senderVars, docketVars, ringEnds
<1>11. CASE Defer
  BY <1>11, DeferredIsFresh DEF Defer, senderVars, docketVars, ringEnds
<1>12. CASE Refuse
  BY <1>12 DEF Refuse, senderVars, docketVars, ringEnds
<1>13. CASE RejectOutdated
  BY <1>13 DEF RejectOutdated, senderVars, docketVars, ringEnds
<1>14. CASE TakeDeferred
  BY <1>14 DEF TakeDeferred, senderVars, docketVars, ringEnds
<1>15. CASE Park
  BY <1>15 DEF Park, senderVars, docketVars, ringEnds
<1>16. CASE Resume
  BY <1>16 DEF Resume, senderVars, docketVars, ringEnds
<1>17. CASE Complete
  BY <1>17 DEF Complete, senderVars, docketVars, ringEnds
<1>18. CASE RefuseTimed
  BY <1>18 DEF RefuseTimed, senderVars, docketVars, ringEnds
<1>19. CASE NextBlock
  BY <1>19 DEF NextBlock, senderVars, docketVars, ringEnds
<1>20. CASE CloseGate
  BY <1>20 DEF CloseGate, senderVars, docketVars, ringEnds
<1>21. CASE Unanswered
  BY <1>21 DEF Unanswered, senderVars, docketVars, ringEnds
<1>22. CASE ReleasePending
  BY <1>22 DEF ReleasePending, senderVars, docketVars, ringEnds
<1>23. CASE ReleaseAnswers
  BY <1>23 DEF ReleaseAnswers, senderVars, docketVars, ringEnds
<1>24. CASE UNCHANGED vars
  BY <1>24 DEF vars, senderVars, docketVars, ringEnds
<1> QED
  BY <1>1, <1>2, <1>3, <1>4, <1>5, <1>6, <1>7, <1>8, <1>9, <1>10, <1>11, <1>12, <1>13,
     <1>14, <1>15, <1>16, <1>17, <1>18, <1>19, <1>20, <1>21, <1>22, <1>23, <1>24
     DEF Next, Sender, Executor

(* The drop of the inbox follows the order of its fields.                  *)
LEMMA EndsStep ==
  ASSUME ChannelInv, [Next]_vars PROVE EndsInOrder'
<1> USE DEF ChannelInv, EndsInOrder, TypeOK, EndTypeOK
<1>1. CASE SendEnter
  BY <1>1 DEF SendEnter, docketVars, ringEnds
<1>2. CASE SendPush
  BY <1>2 DEF SendPush, docketVars, ringEnds
<1>3. CASE ReadReceipt
  BY <1>3 DEF ReadReceipt, docketVars, ringEnds
<1>4. CASE ReadNothing
  BY <1>4 DEF ReadNothing, docketVars, ringEnds
<1>5. CASE RecoverOrphan
  BY <1>5 DEF RecoverOrphan, docketVars, ringEnds
<1>6. CASE StartDrain
  BY <1>6 DEF StartDrain, senderVars, docketVars, ringEnds
<1>7. CASE Drain
  BY <1>7 DEF Drain, senderVars, docketVars, ringEnds
<1>8. CASE TakeDue
  BY <1>8 DEF TakeDue, senderVars, docketVars, ringEnds
<1>9. CASE Apply
  BY <1>9 DEF Apply, senderVars, docketVars, ringEnds
<1>10. CASE Commit
  BY <1>10 DEF Commit, senderVars, docketVars, ringEnds
<1>11. CASE Defer
  BY <1>11 DEF Defer, senderVars, docketVars, ringEnds
<1>12. CASE Refuse
  BY <1>12 DEF Refuse, senderVars, docketVars, ringEnds
<1>13. CASE RejectOutdated
  BY <1>13 DEF RejectOutdated, senderVars, docketVars, ringEnds
<1>14. CASE TakeDeferred
  BY <1>14 DEF TakeDeferred, senderVars, docketVars, ringEnds
<1>15. CASE Park
  BY <1>15 DEF Park, senderVars, docketVars, ringEnds
<1>16. CASE Resume
  BY <1>16 DEF Resume, senderVars, docketVars, ringEnds
<1>17. CASE Complete
  BY <1>17 DEF Complete, senderVars, docketVars, ringEnds
<1>18. CASE RefuseTimed
  BY <1>18 DEF RefuseTimed, senderVars, docketVars, ringEnds
<1>19. CASE NextBlock
  BY <1>19 DEF NextBlock, senderVars, docketVars, ringEnds
<1>20. CASE CloseGate
  BY <1>20 DEF CloseGate, senderVars, docketVars, ringEnds
<1>21. CASE Unanswered
  BY <1>21 DEF Unanswered, senderVars, docketVars, ringEnds
<1>22. CASE ReleasePending
  BY <1>22 DEF ReleasePending, senderVars, docketVars, ringEnds
<1>23. CASE ReleaseAnswers
  BY <1>23 DEF ReleaseAnswers, senderVars, docketVars, ringEnds
<1>24. CASE UNCHANGED vars
  BY <1>24 DEF vars, senderVars, docketVars, ringEnds
<1> QED
  BY <1>1, <1>2, <1>3, <1>4, <1>5, <1>6, <1>7, <1>8, <1>9, <1>10, <1>11, <1>12, <1>13,
     <1>14, <1>15, <1>16, <1>17, <1>18, <1>19, <1>20, <1>21, <1>22, <1>23, <1>24
     DEF Next, Sender, Executor

(* The invariant holds initially.                                          *)
LEMMA ChannelInit == Init => ChannelInv
<1> SUFFICES ASSUME Init PROVE ChannelInv
  OBVIOUS
<1>1. SenderTypeOK
  BY ChannelAssumption DEF Init, SenderTypeOK, SenderPcs, None
<1>2. RingTypeOK /\ DocketTypeOK
  BY DEF Init, RingTypeOK, DocketTypeOK
<1>3. EndTypeOK
  BY DEF Init, EndTypeOK
<1>4. ExecutorTypeOK
  BY ChannelAssumption DEF Init, ExecutorTypeOK, ExecutorPcs, Frames, None
<1>5. HandsFull /\ BasesBackward /\ DueIsCurrent /\ EndsInOrder
  BY DEF Init, HandsFull, BasesBackward, DueIsCurrent, EndsInOrder
<1>6. ParkedFresh
  BY DEF Init, ParkedFresh, OutdatedIn
<1> QED
  BY <1>1, <1>2, <1>3, <1>4, <1>5, <1>6 DEF ChannelInv, TypeOK

(* Every step preserves it.                                                *)
LEMMA ChannelStep == ChannelInv /\ [Next]_vars => ChannelInv'
BY SenderTypeStep, RingTypeStep, EndTypeStep, DocketTypeStep, ExecutorTypeStep, HandsStep,
   BackwardStep, CurrentStep, ParkedStep, EndsStep DEF ChannelInv, TypeOK

(* So it holds throughout.                                                 *)
LEMMA ChannelInvariant == Spec => []ChannelInv
BY ChannelInit, ChannelStep, PTL DEF Spec

-----------------------------------------------------------------------------
(* No variable leaves its type: above all, the sender never spends a       *)
(* credit it does not have (Book::admits before Book::spend).              *)
THEOREM ChannelTypeCorrect == Spec => []TypeOK
<1>1. ChannelInv => TypeOK
  BY DEF ChannelInv
<1> QED
  BY <1>1, ChannelInvariant, PTL

(* Outside reject_outdated no parked batch is outdated, so none waits on a *)
(* credit it can only lose (Deferred::park, Due::defer, take_outdated).    *)
THEOREM ParkedStayFresh == Spec => []ParkedFresh
<1>1. ChannelInv => ParkedFresh
  BY DEF ChannelInv
<1> QED
  BY <1>1, ChannelInvariant, PTL

(* The owner takes the ring of batches over only once the inbox is off it  *)
(* (the fields of Inbox, Sender::receipts).                                *)
THEOREM RingHasOneConsumer == Spec => []SoleConsumer
<1>1. ChannelInv => SoleConsumer
  BY DEF ChannelInv, EndsInOrder, SoleConsumer
<1> QED
  BY <1>1, ChannelInvariant, PTL

(* No step of either thread takes a ledger entry back to an older batch:   *)
(* an applied or committed batch is newer than the basis it was judged by, *)
(* and nothing else writes the ledger (Due::apply, Due::commit, complete). *)
THEOREM LedgerGoesForward == Spec => LedgerForward
<1>1. ChannelInv /\ [Next]_vars => [\A t \in Targets : ledger[t] <= ledger'[t]]_vars
  <2> SUFFICES ASSUME ChannelInv, Next, NEW t \in Targets
               PROVE  ledger[t] <= ledger'[t]
    OBVIOUS
  <2>1. ledger[t] \in Int
    BY LedgerNumbers
  <2>2. CASE Apply \/ Commit
    <3>1. held \in Batch /\ Backward(held) /\ IsCurrent(held)
      BY <2>2 DEF Apply, Commit, ChannelInv, HandsFull, BasesBackward, DueIsCurrent
    <3>2. ledger' = Record(held)
      BY <2>2 DEF Apply, Commit
    <3>3. CASE t \in Listed(held)
      <4>1. ledger[t] = held.basis[t] /\ held.basis[t] < held.seq /\ held.seq \in Int
        BY <3>1, <3>3 DEF IsCurrent, Backward, Batch, Seqs
      <4> QED
        BY <2>1, <3>2, <3>3, <4>1 DEF Record
    <3>4. CASE t \notin Listed(held)
      BY <2>1, <3>2, <3>4 DEF Record
    <3> QED
      BY <3>3, <3>4
  <2>3. CASE ledger' = ledger
    BY <2>1, <2>3
  <2>4. Sender => ledger' = ledger
    BY DEF Sender, SendEnter, SendPush, ReadReceipt, ReadNothing, RecoverOrphan, docketVars
  <2>5. Executor => Apply \/ Commit \/ ledger' = ledger
    BY DEF Executor, StartDrain, Drain, TakeDue, Defer, Refuse, RejectOutdated, TakeDeferred,
       Park, Resume, Complete, RefuseTimed, NextBlock, CloseGate, Unanswered, ReleasePending,
       ReleaseAnswers, docketVars
  <2> QED
    BY <2>2, <2>3, <2>4, <2>5 DEF Next
<1> QED
  BY <1>1, ChannelInvariant, PTL DEF Spec, LedgerForward

-----------------------------------------------------------------------------
(* Counting batches.                                                       *)

(* How often a batch or receipt x counts for the number s.                 *)
Counts(x, s) == IF x.seq = s THEN 1 ELSE 0

(* A batch put into a set it was not in counts once more there.            *)
LEMMA SetGain ==
  ASSUME NEW S, IsFiniteSet(S), NEW x, x \notin S, NEW s
  PROVE  /\ IsFiniteSet(S \cup {x}) /\ Cardinality(S \cup {x}) = Cardinality(S) + 1
         /\ Cardinality(InSet(S \cup {x}, s)) = Cardinality(InSet(S, s)) + Counts(x, s)
<1>1. InSet(S, s) \in SUBSET S /\ x \notin InSet(S, s)
  BY DEF InSet
<1>2. IsFiniteSet(InSet(S, s)) /\ Cardinality(InSet(S, s)) \in Nat
  BY <1>1, FS_Subset, FS_CardinalityType
<1>3. IsFiniteSet(S \cup {x}) /\ Cardinality(S \cup {x}) = Cardinality(S) + 1
  BY FS_AddElement
<1>4. CASE x.seq = s
  <2>1. InSet(S \cup {x}, s) = InSet(S, s) \cup {x}
    BY <1>4 DEF InSet
  <2>2. Cardinality(InSet(S, s) \cup {x}) = Cardinality(InSet(S, s)) + 1
    BY <1>1, <1>2, FS_AddElement
  <2> QED
    BY <1>3, <1>4, <2>1, <2>2 DEF Counts
<1>5. CASE x.seq # s
  <2>1. InSet(S \cup {x}, s) = InSet(S, s)
    BY <1>5 DEF InSet
  <2> QED
    BY <1>2, <1>3, <1>5, <2>1 DEF Counts
<1> QED
  BY <1>4, <1>5

(* A batch taken out of a set no longer counts there.                      *)
LEMMA SetLoss ==
  ASSUME NEW S, IsFiniteSet(S), NEW x \in S, NEW s
  PROVE  /\ IsFiniteSet(S \ {x}) /\ Cardinality(S \ {x}) = Cardinality(S) - 1
         /\ Cardinality(S) > 0
         /\ Cardinality(InSet(S \ {x}, s)) = Cardinality(InSet(S, s)) - Counts(x, s)
<1>1. PICK T : T = S \ {x}
  OBVIOUS
<1>2. IsFiniteSet(T) /\ Cardinality(T) = Cardinality(S) - 1 /\ Cardinality(T) \in Nat
      /\ Cardinality(S) \in Nat
  BY <1>1, FS_RemoveElement, FS_CardinalityType
<1>3. T \cup {x} = S /\ x \notin T
  BY <1>1
<1>4. Cardinality(InSet(S, s)) = Cardinality(InSet(T, s)) + Counts(x, s)
  BY <1>2, <1>3, SetGain
<1>5. Counts(x, s) \in Nat
  BY DEF Counts
<1>6. InSet(T, s) \in SUBSET T
  BY DEF InSet
<1>7. Cardinality(InSet(T, s)) \in Nat
  BY <1>2, <1>6, FS_Subset, FS_CardinalityType
<1> QED
  BY <1>1, <1>2, <1>4, <1>5, <1>7

(* The places of a ring that hold a number are finitely many.              *)
LEMMA RingFinite ==
  ASSUME NEW T, NEW q \in Seq(T), NEW s
  PROVE  IsFiniteSet(InRing(q, s)) /\ Cardinality(InRing(q, s)) \in Nat
<1>1. IsFiniteSet(1 .. Len(q))
  BY FS_Interval
<1>2. InRing(q, s) \in SUBSET (1 .. Len(q))
  BY DEF InRing
<1> QED
  BY <1>1, <1>2, FS_Subset, FS_CardinalityType

(* A push counts once more, at the end of the ring.                        *)
LEMMA RingGain ==
  ASSUME NEW T, NEW q \in Seq(T), NEW x \in T, NEW s
  PROVE  /\ Len(Append(q, x)) = Len(q) + 1
         /\ Cardinality(InRing(Append(q, x), s)) = Cardinality(InRing(q, s)) + Counts(x, s)
<1>1. PICK p : p = Append(q, x)
  OBVIOUS
<1>2. p \in Seq(T) /\ Len(p) = Len(q) + 1 /\ DOMAIN p = 1 .. Len(q) + 1
  BY <1>1
<1>3. \A i \in 1 .. Len(q) : p[i] = q[i]
  BY <1>1
<1>4. p[Len(q) + 1] = x /\ DOMAIN q = 1 .. Len(q) /\ Len(q) \in Nat
  BY <1>1
<1>5. IsFiniteSet(InRing(q, s)) /\ Cardinality(InRing(q, s)) \in Nat
  BY RingFinite
<1>6. Len(q) + 1 \notin InRing(q, s)
  BY <1>4 DEF InRing
<1>7. CASE x.seq = s
  <2>1. InRing(p, s) = InRing(q, s) \cup {Len(q) + 1}
    BY <1>2, <1>3, <1>4, <1>7 DEF InRing
  <2>2. Cardinality(InRing(q, s) \cup {Len(q) + 1}) = Cardinality(InRing(q, s)) + 1
    BY <1>5, <1>6, FS_AddElement
  <2> QED
    BY <1>1, <1>2, <1>7, <2>1, <2>2 DEF Counts
<1>8. CASE x.seq # s
  <2>1. InRing(p, s) = InRing(q, s)
    BY <1>2, <1>3, <1>4, <1>8 DEF InRing
  <2> QED
    BY <1>1, <1>2, <1>5, <1>8, <2>1 DEF Counts
<1> QED
  BY <1>7, <1>8

(* A pop counts once less, at the front of the ring.                       *)
LEMMA RingLoss ==
  ASSUME NEW T, NEW q \in Seq(T), q # <<>>, NEW s
  PROVE  /\ Len(Tail(q)) = Len(q) - 1 /\ Len(q) > 0
         /\ Cardinality(InRing(Tail(q), s)) = Cardinality(InRing(q, s)) - Counts(Head(q), s)
<1>1. PICK p : p = Tail(q)
  OBVIOUS
<1>2. /\ p \in Seq(T) /\ Len(p) = Len(q) - 1 /\ Len(q) \in Nat /\ Len(q) > 0
      /\ DOMAIN p = 1 .. Len(q) - 1 /\ DOMAIN q = 1 .. Len(q)
  BY <1>1
<1>3. \A i \in 1 .. Len(q) - 1 : p[i] = q[i + 1]
  BY <1>1
<1>4. q[1] = Head(q)
  BY <1>2
<1> DEFINE D == InRing(p, s)
           R == InRing(q, s) \ {1}
           f == [i \in D |-> i + 1]
<1>5. IsFiniteSet(InRing(q, s)) /\ Cardinality(InRing(q, s)) \in Nat /\ IsFiniteSet(D)
  BY <1>2, RingFinite
<1>6. \A i \in D : i \in 1 .. Len(q) - 1 /\ i + 1 \in R
  BY <1>2, <1>3 DEF InRing
<1>7. \A j \in R : j - 1 \in D /\ j = (j - 1) + 1
  BY <1>2, <1>3 DEF InRing
<1>8. f \in Bijection(D, R)
  <2> HIDE DEF D, R
  <2>1. f \in [D -> R] /\ \A i \in D : f[i] = i + 1
    BY <1>6
  <2>2. \A i, j \in D : f[i] = f[j] => i = j
    BY <1>6, <2>1
  <2>3. \A j \in R : \E i \in D : f[i] = j
    BY <1>7, <2>1
  <2> HIDE DEF f
  <2> QED
    BY <2>1, <2>2, <2>3 DEF Bijection, Injection, Surjection, IsInjective
<1>9. Cardinality(R) = Cardinality(D)
  BY <1>5, <1>8, FS_Bijection DEF ExistsBijection
<1>10. Cardinality(R) = IF 1 \in InRing(q, s) THEN Cardinality(InRing(q, s)) - 1
                                              ELSE Cardinality(InRing(q, s))
  BY <1>5, FS_RemoveElement
<1>11. 1 \in InRing(q, s) <=> Head(q).seq = s
  BY <1>2, <1>4 DEF InRing
<1>12. Cardinality(InRing(p, s)) = Cardinality(InRing(q, s)) - Counts(Head(q), s)
  BY <1>5, <1>9, <1>10, <1>11 DEF Counts
<1> QED
  BY <1>1, <1>2, <1>12

(* What no number counts in is empty of that number.                       *)
LEMMA NothingCounts ==
  ASSUME NEW S, IsFiniteSet(S), NEW s
  PROVE  /\ Cardinality(InSet(S, s)) \in Nat
         /\ Cardinality(InSet(S, s)) = 0 => \A x \in S : x.seq # s
         /\ \A x \in S : x.seq = s => Cardinality(InSet(S, s)) > 0
<1>1. InSet(S, s) \in SUBSET S
  BY DEF InSet
<1>2. IsFiniteSet(InSet(S, s)) /\ Cardinality(InSet(S, s)) \in Nat
  BY <1>1, FS_Subset, FS_CardinalityType
<1>3. Cardinality(InSet(S, s)) = 0 <=> InSet(S, s) = {}
  BY <1>2, FS_EmptySet
<1> QED
  BY <1>2, <1>3 DEF InSet

-----------------------------------------------------------------------------
(* What the docket holds is finite; hands hold a batch only while they     *)
(* work on it, and the sender's bears the next number.                     *)
Finite ==
  /\ IsFiniteSet(schedule) /\ IsFiniteSet(arrived) /\ IsFiniteSet(parked)
  /\ IsFiniteSet(committed) /\ IsFiniteSet(answered)
HandsIdle == xPc \notin {"due", "deferred"} => held = NoBatch
HandIsNext == sPc = "push" => hand.seq = next
NotYet == \A s \in Nat : s >= next => Places(s) = 0

FlightInv ==
  /\ ChannelInv /\ Finite /\ HandsIdle /\ HandIsNext
  /\ ExactlyOnce /\ NotYet /\ CreditsBalance

PlacesKept == next' = next /\ \A s \in Nat \ {0} : Places(s)' = Places(s)
FlightKept == Finite' /\ PlacesKept /\ CreditsBalance'

(* What is counted is a natural number.                                    *)
LEMMA CountTypes ==
  ASSUME FlightInv, NEW s
  PROVE  /\ Cardinality(InRing(commands, s)) \in Nat /\ Cardinality(InRing(receipts, s)) \in Nat
         /\ Cardinality(InSet(schedule, s)) \in Nat /\ Cardinality(InSet(arrived, s)) \in Nat
         /\ Cardinality(InSet(parked, s)) \in Nat /\ Cardinality(InSet(committed, s)) \in Nat
         /\ Cardinality(InSet({held}, s)) \in Nat /\ Cardinality(InSet(answered, s)) \in Nat
<1>1. commands \in Seq(Batch) /\ receipts \in Seq(Receipt)
  BY DEF FlightInv, ChannelInv, TypeOK, RingTypeOK
<1>2. IsFiniteSet({held})
  BY FS_Singleton
<1> QED
  BY <1>1, <1>2, RingFinite, NothingCounts DEF FlightInv, Finite

(* What the credits are counted against is a natural number.               *)
LEMMA LoadTypes ==
  ASSUME FlightInv
  PROVE  /\ Len(commands) \in Nat /\ Len(receipts) \in Nat /\ credits \in Nat
         /\ Cardinality(schedule) \in Nat /\ Cardinality(arrived) \in Nat
         /\ Cardinality(parked) \in Nat /\ Cardinality(committed) \in Nat
         /\ Cardinality({held} \ {NoBatch}) \in Nat
<1>1. IsFiniteSet({held} \ {NoBatch})
  BY FS_Singleton, FS_RemoveElement
<1> QED
  BY <1>1, FS_CardinalityType DEF FlightInv, Finite, ChannelInv, TypeOK, RingTypeOK, SenderTypeOK

(* Credits, rings and docket make up the capacity.                         *)
LEMMA Balance ==
  ASSUME FlightInv
  PROVE  /\ credits \in Nat /\ Len(commands) \in Nat /\ Len(receipts) \in Nat /\ InDocket \in Nat
         /\ credits + Len(commands) + InDocket + Len(receipts) = Capacity
<1>1. InDocket \in Nat
  BY LoadTypes DEF InDocket
<1> QED
  BY <1>1, LoadTypes DEF FlightInv, CreditsBalance

(* A hand that holds a batch is one of the places of the docket.           *)
LEMMA HoldingLoad ==
  ASSUME NEW h \in Batch
  PROVE  Cardinality({h} \ {NoBatch}) = 1
<1>1. h # NoBatch
  BY DEF Batch, NoBatch, Seqs
<1>2. {h} \ {NoBatch} = {h}
  BY <1>1
<1> QED
  BY <1>2, FS_Singleton

(* What a hand holds counts for its number.                                *)
LEMMA Holding ==
  ASSUME NEW h \in Batch, NEW s
  PROVE  /\ Cardinality(InSet({h}, s)) = Counts(h, s)
         /\ Cardinality({h} \ {NoBatch}) = 1
<1>1. InSet({h}, s) = IF h.seq = s THEN {h} ELSE {}
  BY DEF InSet
<1> QED
  BY <1>1, HoldingLoad, FS_Singleton, FS_EmptySet DEF Counts

(* An empty hand counts for no number.                                     *)
LEMMA HoldingNone ==
  ASSUME NEW s \in Nat \ {0}
  PROVE  /\ Cardinality(InSet({NoBatch}, s)) = 0
         /\ Cardinality({NoBatch} \ {NoBatch}) = 0
<1>1. {NoBatch} \ {NoBatch} = {} /\ InSet({NoBatch}, s) = {}
  BY DEF InSet, NoBatch
<1> QED
  BY <1>1, FS_EmptySet

(* No number counts twice.                                                 *)
LEMMA AtMostOnce ==
  ASSUME FlightInv, NEW s \in Nat \ {0}
  PROVE  Places(s) <= 1
<1>1. next \in Nat
  BY ChannelAssumption DEF FlightInv, ChannelInv, TypeOK, SenderTypeOK
<1>2. CASE s < next
  BY <1>1, <1>2 DEF FlightInv, ExactlyOnce
<1>3. CASE s >= next
  BY <1>3 DEF FlightInv, NotYet
<1> QED
  BY <1>1, <1>2, <1>3

(* The receipt of a batch in flight finds room, and counts for the batch   *)
(* ("credits bound receipts", Sink::reply).                                *)
LEMMA ReplyCounts ==
  ASSUME FlightInv, NEW b \in Batch, NEW outcome \in Rejections \cup {"Applied"},
         Reply(b, outcome), NEW s,
         \/ Cardinality(schedule) > 0 \/ Cardinality(arrived) > 0 \/ Cardinality(parked) > 0
         \/ Cardinality(committed) > 0 \/ Cardinality({held} \ {NoBatch}) > 0
  PROVE  /\ Len(receipts') = Len(receipts) + 1
         /\ Cardinality(InRing(receipts', s)) = Cardinality(InRing(receipts, s)) + Counts(b, s)
         /\ receipts' = Append(receipts, Answer(b, outcome))
<1>1. Len(receipts) < Capacity
  <2>1. InDocket > 0
    BY LoadTypes DEF InDocket
  <2> QED
    BY <2>1, Balance, ChannelAssumption
<1>2. receipts' = Append(receipts, Answer(b, outcome))
  BY <1>1 DEF Reply
<1>3. receipts \in Seq(Receipt) /\ Answer(b, outcome) \in Receipt
  BY AnswerType DEF FlightInv, ChannelInv, TypeOK, RingTypeOK
<1>4. Counts(Answer(b, outcome), s) = Counts(b, s)
  BY DEF Counts, Answer
<1> QED
  BY <1>2, <1>3, <1>4, RingGain

(* The batch at the front of a ring counts there.                          *)
LEMMA HeadCounts ==
  ASSUME NEW T, NEW q \in Seq(T), q # <<>>
  PROVE  Cardinality(InRing(q, Head(q).seq)) > 0
<1>1. Tail(q) \in Seq(T)
  OBVIOUS
<1>2. Cardinality(InRing(Tail(q), Head(q).seq)) = Cardinality(InRing(q, Head(q).seq)) - 1
  BY RingLoss DEF Counts
<1>3. /\ Cardinality(InRing(Tail(q), Head(q).seq)) \in Nat
      /\ Cardinality(InRing(q, Head(q).seq)) \in Nat
  BY <1>1, RingFinite
<1> QED
  BY <1>2, <1>3

(* A number that counts in one place counts in no other.                   *)
LEMMA OnlyPlace ==
  ASSUME FlightInv, NEW n \in Nat \ {0}
  PROVE  /\ Cardinality(InRing(commands, n)) > 0 =>
              /\ Cardinality(InSet(schedule, n)) = 0 /\ Cardinality(InSet(arrived, n)) = 0
              /\ Cardinality(InSet(answered, n)) = 0
         /\ Cardinality(InRing(receipts, n)) > 0 => Cardinality(InSet(answered, n)) = 0
         /\ Cardinality(InSet({held}, n)) > 0 =>
              Cardinality(InSet(parked, n)) = 0 /\ Cardinality(InSet(committed, n)) = 0
         /\ Cardinality(InSet(committed, n)) > 0 =>
              /\ Cardinality(InSet(schedule, n)) = 0 /\ Cardinality(InSet(arrived, n)) = 0
              /\ Cardinality(InSet(parked, n)) = 0
         /\ Cardinality(InSet(arrived, n)) > 0 =>
              Cardinality(InSet(schedule, n)) = 0 /\ Cardinality(InSet(parked, n)) = 0
         /\ Cardinality(InSet(parked, n)) > 0 => Cardinality(InSet(schedule, n)) = 0
<1>1. Places(n) <= 1
  BY AtMostOnce
<1> QED
  BY <1>1, CountTypes DEF Places

-----------------------------------------------------------------------------
(* The motions of a batch.  Each one takes it from the place it was in and *)
(* puts it into another, so every number keeps its one place.              *)

(* take_due, take_outdated, refuse_timed and unanswered answer a scheduled batch.*)
LEMMA ScheduleAnswered ==
  ASSUME FlightInv, NEW b \in schedule, NEW outcome \in Rejections \cup {"Applied"},
         schedule' = schedule \ {b}, Reply(b, outcome),
         UNCHANGED <<credits, next, commands, arrived, parked, committed, held, answered>>
  PROVE  FlightKept
<1>1. b \in Batch
  BY DEF FlightInv, ChannelInv, TypeOK, DocketTypeOK
<1>2. /\ IsFiniteSet(schedule') /\ Cardinality(schedule') = Cardinality(schedule) - 1
      /\ Cardinality(schedule) > 0
      /\ \A s : Cardinality(InSet(schedule', s)) = Cardinality(InSet(schedule, s)) - Counts(b, s)
  BY SetLoss DEF FlightInv, Finite
<1>3. /\ Len(receipts') = Len(receipts) + 1
      /\ \A s : Cardinality(InRing(receipts', s)) = Cardinality(InRing(receipts, s)) + Counts(b, s)
  BY <1>1, <1>2, ReplyCounts
<1>4. Finite'
  BY <1>2 DEF Finite, FlightInv
<1>5. ASSUME NEW s \in Nat \ {0} PROVE Places(s)' = Places(s)
  <2>1. /\ Cardinality(InSet(schedule', s)) = Cardinality(InSet(schedule, s)) - Counts(b, s)
        /\ Cardinality(InRing(receipts', s)) = Cardinality(InRing(receipts, s)) + Counts(b, s)
    BY <1>2, <1>3
  <2>2. Counts(b, s) \in Int
    BY DEF Counts
  <2> QED
    BY <2>1, <2>2, CountTypes DEF Places
<1>6. InDocket' = InDocket - 1
  BY <1>2, LoadTypes DEF InDocket
<1>7. CreditsBalance'
  BY <1>3, <1>6, Balance DEF CreditsBalance
<1> QED
  BY <1>4, <1>5, <1>7 DEF FlightKept, PlacesKept

(* take_outdated and unanswered answer a batch that arrived deferred.      *)
LEMMA ArrivedAnswered ==
  ASSUME FlightInv, NEW b \in arrived, NEW outcome \in Rejections \cup {"Applied"},
         arrived' = arrived \ {b}, Reply(b, outcome),
         UNCHANGED <<credits, next, commands, schedule, parked, committed, held, answered>>
  PROVE  FlightKept
<1>1. b \in Batch
  BY DEF FlightInv, ChannelInv, TypeOK, DocketTypeOK
<1>2. /\ IsFiniteSet(arrived') /\ Cardinality(arrived') = Cardinality(arrived) - 1
      /\ Cardinality(arrived) > 0
      /\ \A s : Cardinality(InSet(arrived', s)) = Cardinality(InSet(arrived, s)) - Counts(b, s)
  BY SetLoss DEF FlightInv, Finite
<1>3. /\ Len(receipts') = Len(receipts) + 1
      /\ \A s : Cardinality(InRing(receipts', s)) = Cardinality(InRing(receipts, s)) + Counts(b, s)
  BY <1>1, <1>2, ReplyCounts
<1>4. Finite'
  BY <1>2 DEF Finite, FlightInv
<1>5. ASSUME NEW s \in Nat \ {0} PROVE Places(s)' = Places(s)
  <2>1. /\ Cardinality(InSet(arrived', s)) = Cardinality(InSet(arrived, s)) - Counts(b, s)
        /\ Cardinality(InRing(receipts', s)) = Cardinality(InRing(receipts, s)) + Counts(b, s)
    BY <1>2, <1>3
  <2>2. Counts(b, s) \in Int
    BY DEF Counts
  <2> QED
    BY <2>1, <2>2, CountTypes DEF Places
<1>6. InDocket' = InDocket - 1
  BY <1>2, LoadTypes DEF InDocket
<1>7. CreditsBalance'
  BY <1>3, <1>6, Balance DEF CreditsBalance
<1> QED
  BY <1>4, <1>5, <1>7 DEF FlightKept, PlacesKept

(* take_parked, take_outdated and unanswered answer a parked batch.        *)
LEMMA ParkedAnswered ==
  ASSUME FlightInv, NEW b \in parked, NEW outcome \in Rejections \cup {"Applied"},
         parked' = parked \ {b}, Reply(b, outcome),
         UNCHANGED <<credits, next, commands, schedule, arrived, committed, held, answered>>
  PROVE  FlightKept
<1>1. b \in Batch
  BY DEF FlightInv, ChannelInv, TypeOK, DocketTypeOK
<1>2. /\ IsFiniteSet(parked') /\ Cardinality(parked') = Cardinality(parked) - 1
      /\ Cardinality(parked) > 0
      /\ \A s : Cardinality(InSet(parked', s)) = Cardinality(InSet(parked, s)) - Counts(b, s)
  BY SetLoss DEF FlightInv, Finite
<1>3. /\ Len(receipts') = Len(receipts) + 1
      /\ \A s : Cardinality(InRing(receipts', s)) = Cardinality(InRing(receipts, s)) + Counts(b, s)
  BY <1>1, <1>2, ReplyCounts
<1>4. Finite'
  BY <1>2 DEF Finite, FlightInv
<1>5. ASSUME NEW s \in Nat \ {0} PROVE Places(s)' = Places(s)
  <2>1. /\ Cardinality(InSet(parked', s)) = Cardinality(InSet(parked, s)) - Counts(b, s)
        /\ Cardinality(InRing(receipts', s)) = Cardinality(InRing(receipts, s)) + Counts(b, s)
    BY <1>2, <1>3
  <2>2. Counts(b, s) \in Int
    BY DEF Counts
  <2> QED
    BY <2>1, <2>2, CountTypes DEF Places
<1>6. InDocket' = InDocket - 1
  BY <1>2, LoadTypes DEF InDocket
<1>7. CreditsBalance'
  BY <1>3, <1>6, Balance DEF CreditsBalance
<1> QED
  BY <1>4, <1>5, <1>7 DEF FlightKept, PlacesKept

(* complete and unanswered answer a committed batch.                       *)
LEMMA CommittedAnswered ==
  ASSUME FlightInv, NEW b \in committed, NEW outcome \in Rejections \cup {"Applied"},
         committed' = committed \ {b}, Reply(b, outcome),
         UNCHANGED <<credits, next, commands, schedule, arrived, parked, held, answered>>
  PROVE  FlightKept
<1>1. b \in Batch
  BY DEF FlightInv, ChannelInv, TypeOK, DocketTypeOK
<1>2. /\ IsFiniteSet(committed') /\ Cardinality(committed') = Cardinality(committed) - 1
      /\ Cardinality(committed) > 0
      /\ \A s : Cardinality(InSet(committed', s)) = Cardinality(InSet(committed, s)) - Counts(b, s)
  BY SetLoss DEF FlightInv, Finite
<1>3. /\ Len(receipts') = Len(receipts) + 1
      /\ \A s : Cardinality(InRing(receipts', s)) = Cardinality(InRing(receipts, s)) + Counts(b, s)
  BY <1>1, <1>2, ReplyCounts
<1>4. Finite'
  BY <1>2 DEF Finite, FlightInv
<1>5. ASSUME NEW s \in Nat \ {0} PROVE Places(s)' = Places(s)
  <2>1. /\ Cardinality(InSet(committed', s)) = Cardinality(InSet(committed, s)) - Counts(b, s)
        /\ Cardinality(InRing(receipts', s)) = Cardinality(InRing(receipts, s)) + Counts(b, s)
    BY <1>2, <1>3
  <2>2. Counts(b, s) \in Int
    BY DEF Counts
  <2> QED
    BY <2>1, <2>2, CountTypes DEF Places
<1>6. InDocket' = InDocket - 1
  BY <1>2, LoadTypes DEF InDocket
<1>7. CreditsBalance'
  BY <1>3, <1>6, Balance DEF CreditsBalance
<1> QED
  BY <1>4, <1>5, <1>7 DEF FlightKept, PlacesKept

(* take_due hands a scheduled batch to the executor.                       *)
LEMMA ScheduleTaken ==
  ASSUME FlightInv, NEW b \in schedule, schedule' = schedule \ {b}, held = NoBatch, held' = b,
         UNCHANGED <<credits, next, commands, receipts, arrived, parked, committed, answered>>
  PROVE  FlightKept
<1>1. b \in Batch
  BY DEF FlightInv, ChannelInv, TypeOK, DocketTypeOK
<1>2. /\ IsFiniteSet(schedule') /\ Cardinality(schedule') = Cardinality(schedule) - 1
      /\ \A s : Cardinality(InSet(schedule', s)) = Cardinality(InSet(schedule, s)) - Counts(b, s)
  BY SetLoss DEF FlightInv, Finite
<1>3. /\ Cardinality({held'} \ {NoBatch}) = 1
      /\ \A s : Cardinality(InSet({held'}, s)) = Counts(b, s)
  BY <1>1, Holding
<1>4. /\ Cardinality({held} \ {NoBatch}) = 0
      /\ \A s \in Nat \ {0} : Cardinality(InSet({held}, s)) = 0
  BY HoldingNone
<1>5. Finite'
  BY <1>2 DEF Finite, FlightInv
<1>6. ASSUME NEW s \in Nat \ {0} PROVE Places(s)' = Places(s)
  <2>1. /\ Cardinality(InSet(schedule', s)) = Cardinality(InSet(schedule, s)) - Counts(b, s)
        /\ Cardinality(InSet({held'}, s)) = Counts(b, s)
        /\ Cardinality(InSet({held}, s)) = 0
    BY <1>2, <1>3, <1>4
  <2>2. Counts(b, s) \in Int
    BY DEF Counts
  <2> QED
    BY <2>1, <2>2, CountTypes DEF Places
<1>7. InDocket' = InDocket
  BY <1>2, <1>3, <1>4, LoadTypes DEF InDocket
<1>8. CreditsBalance'
  BY <1>2, <1>7, Balance DEF CreditsBalance
<1> QED
  BY <1>5, <1>6, <1>8 DEF FlightKept, PlacesKept

(* take_deferred hands a batch that arrived deferred to the executor.      *)
LEMMA ArrivedTaken ==
  ASSUME FlightInv, NEW b \in arrived, arrived' = arrived \ {b}, held = NoBatch, held' = b,
         UNCHANGED <<credits, next, commands, receipts, schedule, parked, committed, answered>>
  PROVE  FlightKept
<1>1. b \in Batch
  BY DEF FlightInv, ChannelInv, TypeOK, DocketTypeOK
<1>2. /\ IsFiniteSet(arrived') /\ Cardinality(arrived') = Cardinality(arrived) - 1
      /\ \A s : Cardinality(InSet(arrived', s)) = Cardinality(InSet(arrived, s)) - Counts(b, s)
  BY SetLoss DEF FlightInv, Finite
<1>3. /\ Cardinality({held'} \ {NoBatch}) = 1
      /\ \A s : Cardinality(InSet({held'}, s)) = Counts(b, s)
  BY <1>1, Holding
<1>4. /\ Cardinality({held} \ {NoBatch}) = 0
      /\ \A s \in Nat \ {0} : Cardinality(InSet({held}, s)) = 0
  BY HoldingNone
<1>5. Finite'
  BY <1>2 DEF Finite, FlightInv
<1>6. ASSUME NEW s \in Nat \ {0} PROVE Places(s)' = Places(s)
  <2>1. /\ Cardinality(InSet(arrived', s)) = Cardinality(InSet(arrived, s)) - Counts(b, s)
        /\ Cardinality(InSet({held'}, s)) = Counts(b, s)
        /\ Cardinality(InSet({held}, s)) = 0
    BY <1>2, <1>3, <1>4
  <2>2. Counts(b, s) \in Int
    BY DEF Counts
  <2> QED
    BY <2>1, <2>2, CountTypes DEF Places
<1>7. InDocket' = InDocket
  BY <1>2, <1>3, <1>4, LoadTypes DEF InDocket
<1>8. CreditsBalance'
  BY <1>2, <1>7, Balance DEF CreditsBalance
<1> QED
  BY <1>5, <1>6, <1>8 DEF FlightKept, PlacesKept

(* take_parked hands a parked batch to the executor.                       *)
LEMMA ParkedTaken ==
  ASSUME FlightInv, NEW b \in parked, parked' = parked \ {b}, held = NoBatch, held' = b,
         UNCHANGED <<credits, next, commands, receipts, schedule, arrived, committed, answered>>
  PROVE  FlightKept
<1>1. b \in Batch
  BY DEF FlightInv, ChannelInv, TypeOK, DocketTypeOK
<1>2. /\ IsFiniteSet(parked') /\ Cardinality(parked') = Cardinality(parked) - 1
      /\ \A s : Cardinality(InSet(parked', s)) = Cardinality(InSet(parked, s)) - Counts(b, s)
  BY SetLoss DEF FlightInv, Finite
<1>3. /\ Cardinality({held'} \ {NoBatch}) = 1
      /\ \A s : Cardinality(InSet({held'}, s)) = Counts(b, s)
  BY <1>1, Holding
<1>4. /\ Cardinality({held} \ {NoBatch}) = 0
      /\ \A s \in Nat \ {0} : Cardinality(InSet({held}, s)) = 0
  BY HoldingNone
<1>5. Finite'
  BY <1>2 DEF Finite, FlightInv
<1>6. ASSUME NEW s \in Nat \ {0} PROVE Places(s)' = Places(s)
  <2>1. /\ Cardinality(InSet(parked', s)) = Cardinality(InSet(parked, s)) - Counts(b, s)
        /\ Cardinality(InSet({held'}, s)) = Counts(b, s)
        /\ Cardinality(InSet({held}, s)) = 0
    BY <1>2, <1>3, <1>4
  <2>2. Counts(b, s) \in Int
    BY DEF Counts
  <2> QED
    BY <2>1, <2>2, CountTypes DEF Places
<1>7. InDocket' = InDocket
  BY <1>2, <1>3, <1>4, LoadTypes DEF InDocket
<1>8. CreditsBalance'
  BY <1>2, <1>7, Balance DEF CreditsBalance
<1> QED
  BY <1>5, <1>6, <1>8 DEF FlightKept, PlacesKept

(* Due and Deferred answer the batch they hold, also as they are dropped.  *)
LEMMA HeldAnswered ==
  ASSUME FlightInv, held \in Batch, NEW outcome \in Rejections \cup {"Applied"},
         held' = NoBatch, Reply(held, outcome),
         UNCHANGED <<credits, next, commands, schedule, arrived, parked, committed, answered>>
  PROVE  FlightKept
<1>1. /\ Cardinality({held} \ {NoBatch}) = 1
      /\ \A s : Cardinality(InSet({held}, s)) = Counts(held, s)
  BY Holding
<1>2. /\ Cardinality({held'} \ {NoBatch}) = 0
      /\ \A s \in Nat \ {0} : Cardinality(InSet({held'}, s)) = 0
  BY HoldingNone
<1>3. /\ Len(receipts') = Len(receipts) + 1
      /\ \A s : Cardinality(InRing(receipts', s)) = Cardinality(InRing(receipts, s)) + Counts(held, s)
  <2>1. Cardinality({held} \ {NoBatch}) > 0
    BY <1>1
  <2> QED
    BY <2>1, ReplyCounts
<1>4. Finite'
  BY <1>3 DEF Finite, FlightInv
<1>5. ASSUME NEW s \in Nat \ {0} PROVE Places(s)' = Places(s)
  <2>1. /\ Cardinality(InSet({held}, s)) = Counts(held, s)
        /\ Cardinality(InSet({held'}, s)) = 0
        /\ Cardinality(InRing(receipts', s)) = Cardinality(InRing(receipts, s)) + Counts(held, s)
    BY <1>1, <1>2, <1>3
  <2>2. Counts(held, s) \in Int
    BY DEF Counts
  <2> QED
    BY <2>1, <2>2, CountTypes DEF Places
<1>6. InDocket' = InDocket - 1
  BY <1>1, <1>2, LoadTypes DEF InDocket
<1>7. CreditsBalance'
  BY <1>3, <1>6, Balance DEF CreditsBalance
<1> QED
  BY <1>4, <1>5, <1>7 DEF FlightKept, PlacesKept

(* Due::defer and Deferred::park park a batch with the number they hold.   *)
LEMMA HeldParked ==
  ASSUME FlightInv, held \in Batch, held' = NoBatch, NEW b \in Batch, b.seq = held.seq,
         parked' = parked \cup {b},
         UNCHANGED <<credits, next, commands, receipts, schedule, arrived, committed, answered>>
  PROVE  FlightKept
<1>1. /\ Cardinality({held} \ {NoBatch}) = 1
      /\ \A s : Cardinality(InSet({held}, s)) = Counts(b, s)
  BY Holding DEF Counts
<1>2. /\ Cardinality({held'} \ {NoBatch}) = 0
      /\ \A s \in Nat \ {0} : Cardinality(InSet({held'}, s)) = 0
  BY HoldingNone
<1>3. b \notin parked
  <2>1. b.seq \in Nat \ {0}
    BY DEF Batch, Seqs
  <2>2. Cardinality(InSet({held}, b.seq)) = 1
    BY <1>1, <2>1 DEF Counts
  <2>3. Cardinality(InSet(parked, b.seq)) = 0
    BY <2>1, <2>2, OnlyPlace
  <2> QED
    BY <2>3, NothingCounts DEF FlightInv, Finite
<1>4. /\ IsFiniteSet(parked') /\ Cardinality(parked') = Cardinality(parked) + 1
      /\ \A s : Cardinality(InSet(parked', s)) = Cardinality(InSet(parked, s)) + Counts(b, s)
  BY <1>3, SetGain DEF FlightInv, Finite
<1>5. Finite'
  BY <1>4 DEF Finite, FlightInv
<1>6. ASSUME NEW s \in Nat \ {0} PROVE Places(s)' = Places(s)
  <2>1. /\ Cardinality(InSet({held}, s)) = Counts(b, s)
        /\ Cardinality(InSet({held'}, s)) = 0
        /\ Cardinality(InSet(parked', s)) = Cardinality(InSet(parked, s)) + Counts(b, s)
    BY <1>1, <1>2, <1>4
  <2>2. Counts(b, s) \in Int
    BY DEF Counts
  <2> QED
    BY <2>1, <2>2, CountTypes DEF Places
<1>7. InDocket' = InDocket
  BY <1>1, <1>2, <1>4, LoadTypes DEF InDocket
<1>8. CreditsBalance'
  BY <1>4, <1>7, Balance DEF CreditsBalance
<1> QED
  BY <1>5, <1>6, <1>8 DEF FlightKept, PlacesKept

(* Due::commit keeps the batch it holds until it is completed.             *)
LEMMA HeldCommitted ==
  ASSUME FlightInv, held \in Batch, held' = NoBatch, NEW b \in Batch, b.seq = held.seq,
         committed' = committed \cup {b},
         UNCHANGED <<credits, next, commands, receipts, schedule, arrived, parked, answered>>
  PROVE  FlightKept
<1>1. /\ Cardinality({held} \ {NoBatch}) = 1
      /\ \A s : Cardinality(InSet({held}, s)) = Counts(b, s)
  BY Holding DEF Counts
<1>2. /\ Cardinality({held'} \ {NoBatch}) = 0
      /\ \A s \in Nat \ {0} : Cardinality(InSet({held'}, s)) = 0
  BY HoldingNone
<1>3. b \notin committed
  <2>1. b.seq \in Nat \ {0}
    BY DEF Batch, Seqs
  <2>2. Cardinality(InSet({held}, b.seq)) = 1
    BY <1>1, <2>1 DEF Counts
  <2>3. Cardinality(InSet(committed, b.seq)) = 0
    BY <2>1, <2>2, OnlyPlace
  <2> QED
    BY <2>3, NothingCounts DEF FlightInv, Finite
<1>4. /\ IsFiniteSet(committed') /\ Cardinality(committed') = Cardinality(committed) + 1
      /\ \A s : Cardinality(InSet(committed', s)) = Cardinality(InSet(committed, s)) + Counts(b, s)
  BY <1>3, SetGain DEF FlightInv, Finite
<1>5. Finite'
  BY <1>4 DEF Finite, FlightInv
<1>6. ASSUME NEW s \in Nat \ {0} PROVE Places(s)' = Places(s)
  <2>1. /\ Cardinality(InSet({held}, s)) = Counts(b, s)
        /\ Cardinality(InSet({held'}, s)) = 0
        /\ Cardinality(InSet(committed', s)) = Cardinality(InSet(committed, s)) + Counts(b, s)
    BY <1>1, <1>2, <1>4
  <2>2. Counts(b, s) \in Int
    BY DEF Counts
  <2> QED
    BY <2>1, <2>2, CountTypes DEF Places
<1>7. InDocket' = InDocket
  BY <1>1, <1>2, <1>4, LoadTypes DEF InDocket
<1>8. CreditsBalance'
  BY <1>4, <1>7, Balance DEF CreditsBalance
<1> QED
  BY <1>5, <1>6, <1>8 DEF FlightKept, PlacesKept

(* Docket::insert schedules a batch for Next or for a frame.               *)
LEMMA DrainedToSchedule ==
  ASSUME FlightInv, commands # <<>>, commands' = Tail(commands), NEW b, b = Head(commands),
         schedule' = schedule \cup {b},
         UNCHANGED <<credits, next, receipts, arrived, parked, committed, held, answered>>
  PROVE  FlightKept
<1>1. /\ b \in Batch /\ commands \in Seq(Batch)
  BY CommandHead DEF FlightInv, ChannelInv, TypeOK, RingTypeOK
<1>2. /\ Len(commands') = Len(commands) - 1
      /\ \A s : Cardinality(InRing(commands', s)) = Cardinality(InRing(commands, s)) - Counts(b, s)
  BY <1>1, RingLoss
<1>3. b \notin schedule
  <2>1. b.seq \in Nat \ {0}
    BY <1>1 DEF Batch, Seqs
  <2>2. Cardinality(InRing(commands, b.seq)) > 0
    BY <1>1, <2>1, HeadCounts DEF Counts
  <2>3. Cardinality(InSet(schedule, b.seq)) = 0
    BY <2>1, <2>2, OnlyPlace
  <2> QED
    BY <2>3, NothingCounts DEF FlightInv, Finite
<1>4. /\ IsFiniteSet(schedule') /\ Cardinality(schedule') = Cardinality(schedule) + 1
      /\ \A s : Cardinality(InSet(schedule', s)) = Cardinality(InSet(schedule, s)) + Counts(b, s)
  BY <1>3, SetGain DEF FlightInv, Finite
<1>5. Finite'
  BY <1>4 DEF Finite, FlightInv
<1>6. ASSUME NEW s \in Nat \ {0} PROVE Places(s)' = Places(s)
  <2>1. /\ Cardinality(InRing(commands', s)) = Cardinality(InRing(commands, s)) - Counts(b, s)
        /\ Cardinality(InSet(schedule', s)) = Cardinality(InSet(schedule, s)) + Counts(b, s)
    BY <1>2, <1>4
  <2>2. Counts(b, s) \in Int
    BY DEF Counts
  <2> QED
    BY <2>1, <2>2, CountTypes DEF Places
<1>7. InDocket' = InDocket + 1
  BY <1>4, LoadTypes DEF InDocket
<1>8. CreditsBalance'
  BY <1>2, <1>7, Balance DEF CreditsBalance
<1> QED
  BY <1>5, <1>6, <1>8 DEF FlightKept, PlacesKept

(* Docket::insert lists a deferred batch.                                  *)
LEMMA DrainedToArrived ==
  ASSUME FlightInv, commands # <<>>, commands' = Tail(commands), NEW b, b = Head(commands),
         arrived' = arrived \cup {b},
         UNCHANGED <<credits, next, receipts, schedule, parked, committed, held, answered>>
  PROVE  FlightKept
<1>1. /\ b \in Batch /\ commands \in Seq(Batch)
  BY CommandHead DEF FlightInv, ChannelInv, TypeOK, RingTypeOK
<1>2. /\ Len(commands') = Len(commands) - 1
      /\ \A s : Cardinality(InRing(commands', s)) = Cardinality(InRing(commands, s)) - Counts(b, s)
  BY <1>1, RingLoss
<1>3. b \notin arrived
  <2>1. b.seq \in Nat \ {0}
    BY <1>1 DEF Batch, Seqs
  <2>2. Cardinality(InRing(commands, b.seq)) > 0
    BY <1>1, <2>1, HeadCounts DEF Counts
  <2>3. Cardinality(InSet(arrived, b.seq)) = 0
    BY <2>1, <2>2, OnlyPlace
  <2> QED
    BY <2>3, NothingCounts DEF FlightInv, Finite
<1>4. /\ IsFiniteSet(arrived') /\ Cardinality(arrived') = Cardinality(arrived) + 1
      /\ \A s : Cardinality(InSet(arrived', s)) = Cardinality(InSet(arrived, s)) + Counts(b, s)
  BY <1>3, SetGain DEF FlightInv, Finite
<1>5. Finite'
  BY <1>4 DEF Finite, FlightInv
<1>6. ASSUME NEW s \in Nat \ {0} PROVE Places(s)' = Places(s)
  <2>1. /\ Cardinality(InRing(commands', s)) = Cardinality(InRing(commands, s)) - Counts(b, s)
        /\ Cardinality(InSet(arrived', s)) = Cardinality(InSet(arrived, s)) + Counts(b, s)
    BY <1>2, <1>4
  <2>2. Counts(b, s) \in Int
    BY DEF Counts
  <2> QED
    BY <2>1, <2>2, CountTypes DEF Places
<1>7. InDocket' = InDocket + 1
  BY <1>4, LoadTypes DEF InDocket
<1>8. CreditsBalance'
  BY <1>2, <1>7, Balance DEF CreditsBalance
<1> QED
  BY <1>5, <1>6, <1>8 DEF FlightKept, PlacesKept

(* What leaves a ring for the owner keeps its one place.                   *)
LEMMA SettledCounts ==
  ASSUME FlightInv, NEW n \in Int, NEW s \in Nat \ {0},
         Cardinality(InRing(commands', s)) + Cardinality(InRing(receipts', s))
           = Cardinality(InRing(commands, s)) + Cardinality(InRing(receipts, s)) - n,
         Cardinality(InSet(answered', s)) = Cardinality(InSet(answered, s)) + n,
         UNCHANGED <<schedule, arrived, parked, committed, held>>
  PROVE  Places(s)' = Places(s)
BY CountTypes DEF Places

(* Sender::receipts settles the receipt it reads.                          *)
LEMMA ReceiptRead ==
  ASSUME FlightInv, receipts # <<>>, receipts' = Tail(receipts), NEW r, r = Head(receipts),
         credits' = credits + 1, answered' = answered \cup {r},
         UNCHANGED <<next, commands, schedule, arrived, parked, committed, held>>
  PROVE  FlightKept
<1>1. receipts \in Seq(Receipt) /\ Head(receipts) \in Receipt /\ r.seq = Head(receipts).seq
  BY ReceiptHead DEF FlightInv, ChannelInv, TypeOK, RingTypeOK, Answer
<1>2. /\ Len(receipts') = Len(receipts) - 1
      /\ \A s : Cardinality(InRing(receipts', s)) = Cardinality(InRing(receipts, s)) - Counts(r, s)
  BY <1>1, RingLoss DEF Counts
<1>3. r \notin answered
  <2>1. r.seq \in Nat \ {0}
    BY <1>1 DEF Receipt, Seqs
  <2>2. Cardinality(InRing(receipts, r.seq)) > 0
    BY <1>1, <2>1, HeadCounts
  <2>3. Cardinality(InSet(answered, r.seq)) = 0
    BY <2>1, <2>2, OnlyPlace
  <2> QED
    BY <2>3, NothingCounts DEF FlightInv, Finite
<1>4. /\ IsFiniteSet(answered')
      /\ \A s : Cardinality(InSet(answered', s)) = Cardinality(InSet(answered, s)) + Counts(r, s)
  BY <1>3, SetGain DEF FlightInv, Finite
<1>5. Finite'
  BY <1>4 DEF Finite, FlightInv
<1>6. ASSUME NEW s \in Nat \ {0} PROVE Places(s)' = Places(s)
  <2>1. Cardinality(InRing(commands', s)) + Cardinality(InRing(receipts', s))
          = Cardinality(InRing(commands, s)) + Cardinality(InRing(receipts, s)) - Counts(r, s)
    BY <1>2, CountTypes DEF Counts
  <2>2. Counts(r, s) \in Int
    BY DEF Counts
  <2> QED
    BY <1>4, <2>1, <2>2, SettledCounts
<1>7. InDocket' = InDocket
  BY DEF InDocket
<1>8. CreditsBalance'
  BY <1>2, <1>7, Balance DEF CreditsBalance
<1> QED
  BY <1>5, <1>6, <1>8 DEF FlightKept, PlacesKept

(* Sender::receipts settles a batch left behind the closed gate.           *)
LEMMA OrphanRead ==
  ASSUME FlightInv, commands # <<>>, commands' = Tail(commands),
         NEW r, r = Answer(Head(commands), "Unanswered"),
         credits' = credits + 1, answered' = answered \cup {r},
         UNCHANGED <<next, receipts, schedule, arrived, parked, committed, held>>
  PROVE  FlightKept
<1>1. commands \in Seq(Batch) /\ Head(commands) \in Batch /\ r.seq = Head(commands).seq
  BY CommandHead DEF FlightInv, ChannelInv, TypeOK, RingTypeOK, Answer
<1>2. /\ Len(commands') = Len(commands) - 1
      /\ \A s : Cardinality(InRing(commands', s)) = Cardinality(InRing(commands, s)) - Counts(r, s)
  BY <1>1, RingLoss DEF Counts
<1>3. r \notin answered
  <2>1. r.seq \in Nat \ {0}
    BY <1>1 DEF Batch, Seqs
  <2>2. Cardinality(InRing(commands, r.seq)) > 0
    BY <1>1, <2>1, HeadCounts
  <2>3. Cardinality(InSet(answered, r.seq)) = 0
    BY <2>1, <2>2, OnlyPlace
  <2> QED
    BY <2>3, NothingCounts DEF FlightInv, Finite
<1>4. /\ IsFiniteSet(answered')
      /\ \A s : Cardinality(InSet(answered', s)) = Cardinality(InSet(answered, s)) + Counts(r, s)
  BY <1>3, SetGain DEF FlightInv, Finite
<1>5. Finite'
  BY <1>4 DEF Finite, FlightInv
<1>6. ASSUME NEW s \in Nat \ {0} PROVE Places(s)' = Places(s)
  <2>1. Cardinality(InRing(commands', s)) + Cardinality(InRing(receipts', s))
          = Cardinality(InRing(commands, s)) + Cardinality(InRing(receipts, s)) - Counts(r, s)
    BY <1>2, CountTypes DEF Counts
  <2>2. Counts(r, s) \in Int
    BY DEF Counts
  <2> QED
    BY <1>4, <2>1, <2>2, SettledCounts
<1>7. InDocket' = InDocket
  BY DEF InDocket
<1>8. CreditsBalance'
  BY <1>2, <1>7, Balance DEF CreditsBalance
<1> QED
  BY <1>5, <1>6, <1>8 DEF FlightKept, PlacesKept

(* A step that moves no batch keeps every place.                           *)
LEMMA NothingMoved ==
  ASSUME FlightInv,
         UNCHANGED <<credits, next, commands, receipts, schedule, arrived, parked, committed,
                     held, answered>>
  PROVE  FlightKept
<1>1. Finite'
  BY DEF Finite, FlightInv
<1>2. PlacesKept
  BY DEF PlacesKept, Places
<1>3. CreditsBalance'
  BY DEF FlightInv, CreditsBalance, InDocket
<1> QED
  BY <1>1, <1>2, <1>3 DEF FlightKept

-----------------------------------------------------------------------------
(* Every step but a successful push is a motion, or moves nothing.         *)

(* Inbox::drain moves the batch at the front of the ring into the docket.  *)
LEMMA DrainFlight ==
  ASSUME FlightInv, Drain PROVE FlightKept
<1>1. UNCHANGED <<credits, next, receipts, parked, committed, held, answered>>
  BY DEF Drain, senderVars
<1>2. CASE commands # <<>> /\ Insert(Head(commands)) /\ commands' = Tail(commands)
  BY <1>1, <1>2, DrainedToSchedule, DrainedToArrived DEF Insert
<1>3. CASE UNCHANGED <<commands, schedule, arrived>>
  BY <1>1, <1>3, NothingMoved
<1> QED
  BY <1>2, <1>3 DEF Drain

(* take_due hands the batch over, or answers it.                           *)
LEMMA TakeDueFlight ==
  ASSUME FlightInv, TakeDue PROVE FlightKept
<1>1. PICK b \in Earliest(schedule) :
        /\ schedule' = schedule \ {b}
        /\ \/ held' = b /\ UNCHANGED receipts
           \/ Reply(b, IF IsLate(b) THEN "Late" ELSE "Stale") /\ UNCHANGED held
  BY DEF TakeDue
<1>2. /\ UNCHANGED <<credits, next, commands, arrived, parked, committed, answered>>
      /\ held = NoBatch /\ b \in schedule
  BY ChosenIn DEF TakeDue, senderVars, FlightInv, HandsIdle
<1>3. CASE held' = b /\ UNCHANGED receipts
  BY <1>1, <1>2, <1>3, ScheduleTaken
<1>4. CASE Reply(b, IF IsLate(b) THEN "Late" ELSE "Stale") /\ UNCHANGED held
  <2>1. PICK outcome \in Rejections \cup {"Applied"} : Reply(b, outcome)
    BY <1>4 DEF Rejections
  <2> QED
    BY <1>1, <1>2, <1>4, <2>1, ScheduleAnswered
<1> QED
  BY <1>1, <1>3, <1>4

(* Due::apply, Due::commit, Due::defer, a refusal and a drop each dispose  *)
(* of the batch held, and so does Deferred::park.                          *)
LEMMA HeldFlight ==
  ASSUME FlightInv, Apply \/ Commit \/ Defer \/ Refuse \/ Park PROVE FlightKept
<1>1. held \in Batch
  BY DEF Apply, Commit, Defer, Refuse, Park, FlightInv, ChannelInv, HandsFull
<1>2. CASE Apply
  BY <1>1, <1>2, HeldAnswered DEF Apply, senderVars
<1>3. CASE Commit
  BY <1>1, <1>3, HeldCommitted DEF Commit, senderVars
<1>4. CASE Defer
  <2>1. PICK b \in Batch : b = [held EXCEPT !.when = WhenDeferred] /\ b.seq = held.seq
    BY <1>1, ParkedType
  <2> QED
    BY <1>1, <1>4, <2>1, HeldParked DEF Defer, senderVars
<1>5. CASE Refuse
  <2>1. PICK outcome \in Rejections \cup {"Applied"} : Reply(held, outcome)
    BY <1>5 DEF Refuse, Rejections
  <2> QED
    BY <1>1, <1>5, <2>1, HeldAnswered DEF Refuse, senderVars, docketVars
<1>6. CASE Park
  <2>1. UNCHANGED <<credits, next, commands, schedule, arrived, committed, answered>>
        /\ held' = NoBatch
    BY <1>6 DEF Park, senderVars
  <2>2. CASE Reply(held, "Stale") /\ UNCHANGED parked
    BY <1>1, <2>1, <2>2, HeldAnswered DEF Rejections
  <2>3. CASE parked' = parked \cup {held} /\ UNCHANGED receipts
    BY <1>1, <2>1, <2>3, HeldParked
  <2> QED
    BY <1>6, <2>2, <2>3 DEF Park
<1> QED
  BY <1>2, <1>3, <1>4, <1>5, <1>6

(* reject_outdated answers a batch of the docket, or finds none.           *)
LEMMA RejectFlight ==
  ASSUME FlightInv, RejectOutdated PROVE FlightKept
<1>1. UNCHANGED <<credits, next, commands, committed, held, answered>>
  BY DEF RejectOutdated, senderVars
<1>2. "Stale" \in Rejections \cup {"Applied"}
  BY DEF Rejections
<1>3. CASE /\ \E b \in Earliest(OutdatedIn(schedule)) :
                schedule' = schedule \ {b} /\ Reply(b, "Stale")
           /\ UNCHANGED <<arrived, parked>>
  BY <1>1, <1>2, <1>3, ChosenIn, ScheduleAnswered
<1>4. CASE /\ \E b \in Oldest(OutdatedIn(arrived)) :
                arrived' = arrived \ {b} /\ Reply(b, "Stale")
           /\ UNCHANGED <<schedule, parked>>
  BY <1>1, <1>2, <1>4, ChosenIn, ArrivedAnswered
<1>5. CASE /\ \E b \in OutdatedIn(parked) :
                parked' = parked \ {b} /\ Reply(b, "Stale")
           /\ UNCHANGED <<schedule, arrived>>
  BY <1>1, <1>2, <1>5, ChosenIn, ParkedAnswered
<1>6. CASE UNCHANGED <<schedule, arrived, parked, receipts>>
  BY <1>1, <1>6, NothingMoved
<1> QED
  BY <1>3, <1>4, <1>5, <1>6 DEF RejectOutdated

(* take_deferred hands over the oldest batch that arrived deferred.        *)
LEMMA TakeDeferredFlight ==
  ASSUME FlightInv, TakeDeferred PROVE FlightKept
<1>1. PICK b \in Oldest(arrived) : held' = b /\ arrived' = arrived \ {b}
  BY DEF TakeDeferred
<1>2. /\ UNCHANGED <<credits, next, commands, receipts, schedule, parked, committed, answered>>
      /\ held = NoBatch /\ b \in arrived
  BY ChosenIn DEF TakeDeferred, senderVars, FlightInv, HandsIdle
<1> QED
  BY <1>1, <1>2, ArrivedTaken

(* Resuming hands a parked batch over, or answers it.                      *)
LEMMA ResumeFlight ==
  ASSUME FlightInv, Resume PROVE FlightKept
<1>1. PICK b \in parked :
        /\ parked' = parked \ {b}
        /\ \/ held' = b /\ UNCHANGED receipts
           \/ Reply(b, "Stale") /\ UNCHANGED held
  BY DEF Resume
<1>2. /\ UNCHANGED <<credits, next, commands, schedule, arrived, committed, answered>>
      /\ held = NoBatch
  BY DEF Resume, senderVars, FlightInv, HandsIdle
<1>3. CASE held' = b /\ UNCHANGED receipts
  BY <1>1, <1>2, <1>3, ParkedTaken
<1>4. CASE Reply(b, "Stale") /\ UNCHANGED held
  BY <1>1, <1>2, <1>4, ParkedAnswered DEF Rejections
<1> QED
  BY <1>1, <1>3, <1>4

(* complete answers a committed batch.                                     *)
LEMMA CompleteFlight ==
  ASSUME FlightInv, Complete PROVE FlightKept
<1>1. PICK b \in committed : committed' = committed \ {b} /\ Reply(b, "Applied")
  BY DEF Complete
<1>2. UNCHANGED <<credits, next, commands, schedule, arrived, parked, held, answered>>
  BY DEF Complete, senderVars
<1> QED
  BY <1>1, <1>2, CommittedAnswered

(* refuse_timed answers a batch with a frame, or finds none.               *)
LEMMA RefuseTimedFlight ==
  ASSUME FlightInv, RefuseTimed PROVE FlightKept
<1>1. UNCHANGED <<credits, next, commands, arrived, parked, committed, held, answered>>
  BY DEF RefuseTimed, senderVars
<1>2. CASE \E b \in Earliest({b \in schedule : b.when \in Frames}) :
             schedule' = schedule \ {b} /\ Reply(b, "Refused")
  <2>1. PICK b \in schedule : schedule' = schedule \ {b} /\ Reply(b, "Refused")
    BY <1>2, ChosenIn
  <2> QED
    BY <1>1, <2>1, ScheduleAnswered DEF Rejections
<1>3. CASE UNCHANGED <<schedule, receipts>>
  BY <1>1, <1>3, NothingMoved
<1> QED
  BY <1>2, <1>3 DEF RefuseTimed

(* The drop of the inbox answers each leftover once: no batch is in two    *)
(* parts of the docket.                                                    *)
LEMMA UnansweredFlight ==
  ASSUME FlightInv, Unanswered PROVE FlightKept
<1>1. PICK b \in committed \cup arrived \cup parked \cup schedule :
        /\ committed' = committed \ {b} /\ arrived' = arrived \ {b}
        /\ parked' = parked \ {b} /\ schedule' = schedule \ {b}
        /\ Reply(b, "Unanswered")
  BY DEF Unanswered
<1>2. UNCHANGED <<credits, next, commands, held, answered>>
  BY DEF Unanswered, senderVars
<1>3. PICK n \in Nat \ {0} : n = b.seq
  BY DEF FlightInv, ChannelInv, TypeOK, DocketTypeOK, Batch, Seqs
<1>4. /\ b \in committed => Cardinality(InSet(committed, n)) > 0
      /\ b \in arrived => Cardinality(InSet(arrived, n)) > 0
      /\ b \in parked => Cardinality(InSet(parked, n)) > 0
  BY <1>3, NothingCounts DEF FlightInv, Finite
<1>5. /\ Cardinality(InSet(arrived, n)) = 0 => b \notin arrived
      /\ Cardinality(InSet(parked, n)) = 0 => b \notin parked
      /\ Cardinality(InSet(schedule, n)) = 0 => b \notin schedule
  BY <1>3, NothingCounts DEF FlightInv, Finite
<1>6. "Unanswered" \in Rejections \cup {"Applied"}
  BY DEF Rejections
<1>7. CASE b \in committed
  <2>1. b \notin arrived /\ b \notin parked /\ b \notin schedule
    BY <1>4, <1>5, <1>7, OnlyPlace
  <2>2. UNCHANGED <<arrived, parked, schedule>>
    BY <1>1, <2>1
  <2> QED
    BY <1>1, <1>2, <1>6, <1>7, <2>2, CommittedAnswered
<1>8. CASE b \notin committed /\ b \in arrived
  <2>1. b \notin parked /\ b \notin schedule
    BY <1>4, <1>5, <1>8, OnlyPlace
  <2>2. UNCHANGED <<committed, parked, schedule>>
    BY <1>1, <1>8, <2>1
  <2> QED
    BY <1>1, <1>2, <1>6, <1>8, <2>2, ArrivedAnswered
<1>9. CASE b \notin committed /\ b \notin arrived /\ b \in parked
  <2>1. b \notin schedule
    BY <1>4, <1>5, <1>9, OnlyPlace
  <2>2. UNCHANGED <<committed, arrived, schedule>>
    BY <1>1, <1>9, <2>1
  <2> QED
    BY <1>1, <1>2, <1>6, <1>9, <2>2, ParkedAnswered
<1>10. CASE b \notin committed /\ b \notin arrived /\ b \notin parked
  <2>1. UNCHANGED <<committed, arrived, parked>> /\ b \in schedule
    BY <1>1, <1>10
  <2> QED
    BY <1>1, <1>2, <1>6, <2>1, ScheduleAnswered
<1> QED
  BY <1>7, <1>8, <1>9, <1>10

(* Reading a receipt, or a batch left behind the gate, settles it.         *)
LEMMA ReadFlight ==
  ASSUME FlightInv, ReadReceipt \/ RecoverOrphan PROVE FlightKept
<1>1. CASE ReadReceipt
  <2>1. PICK r : r = Head(receipts)
    OBVIOUS
  <2>2. credits' = credits + 1 /\ answered' = answered \cup {r}
    BY <1>1, <2>1 DEF ReadReceipt, Settle
  <2> QED
    BY <1>1, <2>1, <2>2, ReceiptRead DEF ReadReceipt, docketVars
<1>2. CASE RecoverOrphan
  <2>1. UNCHANGED <<next, receipts, schedule, arrived, parked, committed, held>>
    BY <1>2 DEF RecoverOrphan, docketVars
  <2>2. CASE UNCHANGED <<credits, commands, answered>>
    BY <2>1, <2>2, NothingMoved
  <2>3. CASE /\ commands # <<>> /\ commands' = Tail(commands)
             /\ Settle(Answer(Head(commands), "Unanswered"))
    <3>1. PICK r : r = Answer(Head(commands), "Unanswered")
      OBVIOUS
    <3>2. credits' = credits + 1 /\ answered' = answered \cup {r}
      BY <2>3, <3>1 DEF Settle
    <3> QED
      BY <2>1, <2>3, <3>1, <3>2, OrphanRead
  <2> QED
    BY <1>2, <2>2, <2>3 DEF RecoverOrphan
<1> QED
  BY <1>1, <1>2

(* The other steps of both threads move no batch.                          *)
LEMMA IdleFlight ==
  ASSUME FlightInv,
         \/ SendEnter \/ ReadNothing \/ StartDrain \/ NextBlock \/ CloseGate
         \/ ReleasePending \/ ReleaseAnswers \/ UNCHANGED vars
  PROVE  FlightKept
<1>1. UNCHANGED <<credits, next, commands, receipts, schedule, arrived, parked, committed,
                  held, answered>>
  BY DEF SendEnter, ReadNothing, StartDrain, NextBlock, CloseGate, ReleasePending,
     ReleaseAnswers, vars, senderVars, docketVars
<1> QED
  BY <1>1, NothingMoved

(* Where every number keeps its place, the promise keeps too.              *)
LEMMA KeptInvariant ==
  ASSUME FlightInv, FlightKept
  PROVE  Finite' /\ ExactlyOnce' /\ NotYet' /\ CreditsBalance'
<1>1. next \in Nat \ {0} /\ next' = next
  BY ChannelAssumption DEF FlightInv, ChannelInv, TypeOK, SenderTypeOK, FlightKept, PlacesKept
<1>2. \A s \in Nat \ {0} : Places(s)' = Places(s)
  BY DEF FlightKept, PlacesKept
<1>3. ExactlyOnce'
  BY <1>1, <1>2 DEF FlightInv, ExactlyOnce
<1>4. NotYet'
  BY <1>1, <1>2 DEF FlightInv, NotYet
<1> QED
  BY <1>3, <1>4 DEF FlightKept

(* A successful push gives the next number its one place and spends its    *)
(* credit (Sender::send, Book::spend).                                     *)
LEMMA PushFlight ==
  ASSUME FlightInv, SendPush
  PROVE  Finite' /\ ExactlyOnce' /\ NotYet' /\ CreditsBalance'
<1>1. UNCHANGED <<receipts, schedule, arrived, parked, committed, held, answered>>
  BY DEF SendPush, docketVars
<1>2. Finite' /\ InDocket' = InDocket
  BY <1>1 DEF FlightInv, Finite, InDocket
<1>3. next \in Nat \ {0}
  BY ChannelAssumption DEF FlightInv, ChannelInv, TypeOK, SenderTypeOK
<1>4. CASE UNCHANGED <<next, credits, commands>>
  <2>1. FlightKept
    BY <1>1, <1>4, NothingMoved
  <2> QED
    BY <2>1, <1>3, KeptInvariant
<1>5. CASE /\ commands' = Append(commands, hand) /\ Spend(hand) /\ next' = next + 1
  <2>1. commands \in Seq(Batch) /\ hand \in Batch /\ hand.seq = next
    BY DEF SendPush, FlightInv, ChannelInv, TypeOK, RingTypeOK, HandsFull, HandIsNext
  <2>2. Len(commands') = Len(commands) + 1 /\ credits' = credits - 1
    BY <1>5, <2>1 DEF Spend
  <2>3. CreditsBalance'
    BY <1>1, <1>2, <2>2, Balance DEF CreditsBalance
  <2>4. ASSUME NEW s \in Nat PROVE Places(s)' = Places(s) + IF s = next THEN 1 ELSE 0
    <3>1. Cardinality(InRing(commands', s)) = Cardinality(InRing(commands, s)) + Counts(hand, s)
      BY <1>5, <2>1, RingGain
    <3>2. Counts(hand, s) = IF s = next THEN 1 ELSE 0
      BY <2>1 DEF Counts
    <3> HIDE <1>5
    <3> QED
      BY <1>1, <3>1, <3>2, CountTypes DEF Places
  <2>5. ExactlyOnce'
    <3> SUFFICES ASSUME NEW s \in 1 .. next PROVE Places(s)' = 1
      BY <1>3, <1>5 DEF ExactlyOnce
    <3>1. CASE s = next
      BY <1>3, <2>4, <3>1 DEF FlightInv, NotYet
    <3>2. CASE s < next
      BY <1>3, <2>4, <3>2 DEF FlightInv, ExactlyOnce
    <3> QED
      BY <1>3, <3>1, <3>2
  <2>6. NotYet'
    <3> SUFFICES ASSUME NEW s \in Nat, s >= next + 1 PROVE Places(s)' = 0
      BY <1>5 DEF NotYet
    <3> QED
      BY <1>3, <2>4 DEF FlightInv, NotYet
  <2> QED
    BY <1>2, <2>3, <2>5, <2>6
<1> QED
  BY <1>4, <1>5 DEF SendPush

(* The executor's hand is empty outside its work.                          *)
LEMMA IdleStep ==
  ASSUME FlightInv, [Next]_vars PROVE HandsIdle'
<1> USE DEF FlightInv, HandsIdle
<1>1. CASE SendEnter
  BY <1>1 DEF SendEnter
<1>2. CASE SendPush
  BY <1>2 DEF SendPush
<1>3. CASE ReadReceipt
  BY <1>3 DEF ReadReceipt
<1>4. CASE ReadNothing
  BY <1>4 DEF ReadNothing
<1>5. CASE RecoverOrphan
  BY <1>5 DEF RecoverOrphan
<1>6. CASE StartDrain
  BY <1>6 DEF StartDrain
<1>7. CASE Drain
  BY <1>7 DEF Drain
<1>8. CASE TakeDue
  BY <1>8 DEF TakeDue
<1>9. CASE Apply
  BY <1>9 DEF Apply
<1>10. CASE Commit
  BY <1>10 DEF Commit
<1>11. CASE Defer
  BY <1>11 DEF Defer
<1>12. CASE Refuse
  BY <1>12 DEF Refuse
<1>13. CASE RejectOutdated
  BY <1>13 DEF RejectOutdated
<1>14. CASE TakeDeferred
  BY <1>14 DEF TakeDeferred
<1>15. CASE Park
  BY <1>15 DEF Park
<1>16. CASE Resume
  BY <1>16 DEF Resume
<1>17. CASE Complete
  BY <1>17 DEF Complete
<1>18. CASE RefuseTimed
  BY <1>18 DEF RefuseTimed
<1>19. CASE NextBlock
  BY <1>19 DEF NextBlock
<1>20. CASE CloseGate
  BY <1>20 DEF CloseGate
<1>21. CASE Unanswered
  BY <1>21 DEF Unanswered
<1>22. CASE ReleasePending
  BY <1>22 DEF ReleasePending
<1>23. CASE ReleaseAnswers
  BY <1>23 DEF ReleaseAnswers
<1>24. CASE UNCHANGED vars
  BY <1>24 DEF vars, senderVars
<1> QED
  BY <1>1, <1>2, <1>3, <1>4, <1>5, <1>6, <1>7, <1>8, <1>9, <1>10, <1>11, <1>12,
     <1>13, <1>14, <1>15, <1>16, <1>17, <1>18, <1>19, <1>20, <1>21, <1>22, <1>23,
     <1>24 DEF Next, Sender, Executor

(* The batch in the sender's hand bears the number the sender gives next.  *)
LEMMA HandStep ==
  ASSUME FlightInv, [Next]_vars PROVE HandIsNext'
<1> USE DEF FlightInv, HandIsNext
<1>1. CASE SendEnter
  BY <1>1 DEF SendEnter
<1>2. CASE SendPush
  BY <1>2 DEF SendPush
<1>3. CASE ReadReceipt
  BY <1>3 DEF ReadReceipt
<1>4. CASE ReadNothing
  BY <1>4 DEF ReadNothing
<1>5. CASE RecoverOrphan
  BY <1>5 DEF RecoverOrphan
<1>6. CASE StartDrain
  BY <1>6 DEF StartDrain, senderVars
<1>7. CASE Drain
  BY <1>7 DEF Drain, senderVars
<1>8. CASE TakeDue
  BY <1>8 DEF TakeDue, senderVars
<1>9. CASE Apply
  BY <1>9 DEF Apply, senderVars
<1>10. CASE Commit
  BY <1>10 DEF Commit, senderVars
<1>11. CASE Defer
  BY <1>11 DEF Defer, senderVars
<1>12. CASE Refuse
  BY <1>12 DEF Refuse, senderVars
<1>13. CASE RejectOutdated
  BY <1>13 DEF RejectOutdated, senderVars
<1>14. CASE TakeDeferred
  BY <1>14 DEF TakeDeferred, senderVars
<1>15. CASE Park
  BY <1>15 DEF Park, senderVars
<1>16. CASE Resume
  BY <1>16 DEF Resume, senderVars
<1>17. CASE Complete
  BY <1>17 DEF Complete, senderVars
<1>18. CASE RefuseTimed
  BY <1>18 DEF RefuseTimed, senderVars
<1>19. CASE NextBlock
  BY <1>19 DEF NextBlock, senderVars
<1>20. CASE CloseGate
  BY <1>20 DEF CloseGate, senderVars
<1>21. CASE Unanswered
  BY <1>21 DEF Unanswered, senderVars
<1>22. CASE ReleasePending
  BY <1>22 DEF ReleasePending, senderVars
<1>23. CASE ReleaseAnswers
  BY <1>23 DEF ReleaseAnswers, senderVars
<1>24. CASE UNCHANGED vars
  BY <1>24 DEF vars, senderVars
<1> QED
  BY <1>1, <1>2, <1>3, <1>4, <1>5, <1>6, <1>7, <1>8, <1>9, <1>10, <1>11, <1>12,
     <1>13, <1>14, <1>15, <1>16, <1>17, <1>18, <1>19, <1>20, <1>21, <1>22, <1>23,
     <1>24 DEF Next, Sender, Executor

(* Every number keeps its one place, and the credits their balance.        *)
LEMMA FlightStep ==
  ASSUME FlightInv, [Next]_vars PROVE FlightInv'
<1>1. ChannelInv'
  BY ChannelStep DEF FlightInv
<1>2. HandsIdle' /\ HandIsNext'
  BY IdleStep, HandStep
<1>3. CASE SendPush
  BY <1>1, <1>2, <1>3, PushFlight DEF FlightInv
<1>4. CASE FlightKept
  BY <1>1, <1>2, <1>4, KeptInvariant DEF FlightInv
<1>5. SendPush \/ FlightKept
  BY DrainFlight, TakeDueFlight, HeldFlight, RejectFlight, TakeDeferredFlight, ResumeFlight,
     CompleteFlight, RefuseTimedFlight, UnansweredFlight, ReadFlight, IdleFlight
     DEF Next, Sender, Executor
<1> QED
  BY <1>3, <1>4, <1>5

(* In the beginning no number is given and every credit is there.          *)
LEMMA FlightInit == Init => FlightInv
<1> SUFFICES ASSUME Init PROVE FlightInv
  OBVIOUS
<1>1. ChannelInv
  BY ChannelInit
<1>2. Finite /\ HandsIdle /\ HandIsNext
  BY FS_EmptySet DEF Init, Finite, HandsIdle, HandIsNext
<1>3. ExactlyOnce
  BY DEF Init, ExactlyOnce
<1>4. NotYet
  <2> SUFFICES ASSUME NEW s \in Nat \ {0} PROVE Places(s) = 0
    BY DEF Init, NotYet
  <2>1. InRing(commands, s) = {} /\ InRing(receipts, s) = {}
    BY DEF Init, InRing
  <2>2. /\ InSet(schedule, s) = {} /\ InSet(arrived, s) = {} /\ InSet(parked, s) = {}
        /\ InSet(committed, s) = {} /\ InSet(answered, s) = {}
    BY DEF Init, InSet
  <2>3. Cardinality(InSet({held}, s)) = 0
    BY HoldingNone DEF Init
  <2> QED
    BY <2>1, <2>2, <2>3, FS_EmptySet DEF Places
<1>5. CreditsBalance
  <2>1. {held} \ {NoBatch} = {}
    BY DEF Init
  <2>2. schedule = {} /\ arrived = {} /\ parked = {} /\ committed = {}
    BY DEF Init
  <2>3. InDocket = 0
    BY <2>1, <2>2, FS_EmptySet DEF InDocket
  <2> QED
    BY <2>3, ChannelAssumption DEF Init, CreditsBalance
<1> QED
  BY <1>1, <1>2, <1>3, <1>4, <1>5 DEF FlightInv

(* The placement of the batches is an invariant of the channel.            *)
LEMMA FlightInvariant == Spec => []FlightInv
BY FlightInit, FlightStep, PTL DEF Spec

-----------------------------------------------------------------------------
(* Every number the sender gave is at every moment in exactly one place:   *)
(* no answer is lost and none is given twice (Sink::reply, the drops of    *)
(* Due, Deferred and Inbox, the recovery of an orphan).                    *)
THEOREM BatchesInOnePlace == Spec => []ExactlyOnce
<1>1. FlightInv => ExactlyOnce
  BY DEF FlightInv
<1> QED
  BY <1>1, FlightInvariant, PTL

(* Credits and batches in flight make up the capacity, so a receipt always *)
(* finds room ("credits bound receipts", Sink::reply).                     *)
THEOREM CreditsStayBalanced == Spec => []CreditsBalance
<1>1. FlightInv => CreditsBalance
  BY DEF FlightInv
<1> QED
  BY <1>1, FlightInvariant, PTL

-----------------------------------------------------------------------------
(* The chain of shifts.  The ledger holds the newest shift of each target, *)
(* so a batch judged current names it, and becomes the newest in turn.     *)

(* The drop of the inbox, whose leftovers may be committed batches, begins *)
(* with the gate.                                                          *)
DropIsClosed == xPc \in {"closing", "unanswered"} => gateClosed
LedgerHeads ==
  ~gateClosed =>
    \A t \in Targets :
      /\ ledger[t] \in {None} \cup {r.seq : r \in ShiftsOf(t)}
      /\ \A r \in ShiftsOf(t) : r.seq <= ledger[t]

ChainInv == FlightInv /\ DropIsClosed /\ LedgerHeads /\ AppliedChain

InReceipts == {receipts[i] : i \in DOMAIN receipts}

(* A push onto the receipt ring adds what it pushes.                       *)
LEMMA RangeGain ==
  ASSUME NEW T, NEW q \in Seq(T), NEW x \in T, NEW p, p = Append(q, x)
  PROVE  {p[i] : i \in DOMAIN p} = {q[i] : i \in DOMAIN q} \cup {x}
<1>1. /\ DOMAIN p = 1 .. Len(q) + 1 /\ DOMAIN q = 1 .. Len(q) /\ Len(q) \in Nat
      /\ p[Len(q) + 1] = x
  OBVIOUS
<1>2. \A i \in 1 .. Len(q) : p[i] = q[i]
  OBVIOUS
<1>3. \A i \in DOMAIN p : i \in DOMAIN q \/ i = Len(q) + 1
  BY <1>1
<1>4. \A i \in DOMAIN q : i \in DOMAIN p
  BY <1>1
<1>5. Len(q) + 1 \in DOMAIN p
  BY <1>1
<1> QED
  BY <1>1, <1>2, <1>3, <1>4, <1>5

(* A pop takes off what it returns, and nothing else.                      *)
LEMMA RangeLoss ==
  ASSUME NEW T, NEW q \in Seq(T), q # <<>>
  PROVE  {q[i] : i \in DOMAIN q} = {Tail(q)[i] : i \in DOMAIN Tail(q)} \cup {Head(q)}
<1> DEFINE p == Tail(q)
<1>1. /\ DOMAIN p = 1 .. Len(q) - 1 /\ DOMAIN q = 1 .. Len(q) /\ Len(q) \in Nat
      /\ Len(q) > 0 /\ Head(q) = q[1]
  OBVIOUS
<1>2. \A i \in DOMAIN p : p[i] = q[i + 1]
  BY <1>1
<1>3. \A i \in DOMAIN p : i + 1 \in DOMAIN q
  BY <1>1
<1>4. \A i \in DOMAIN q : i = 1 \/ (i - 1 \in DOMAIN p /\ p[i - 1] = q[i])
  BY <1>1, <1>2
<1>5. 1 \in DOMAIN q
  BY <1>1
<1> HIDE DEF p
<1>6. {q[i] : i \in DOMAIN q} = {p[i] : i \in DOMAIN p} \cup {Head(q)}
  BY <1>1, <1>2, <1>3, <1>4, <1>5
<1> QED
  BY <1>6 DEF p

(* An answer other than Applied shifts nothing.                            *)
LEMMA RejectionShifts ==
  ASSUME FlightInv, NEW b \in Batch, NEW outcome \in Rejections, Reply(b, outcome)
  PROVE  Applied(InReceipts)' = Applied(InReceipts)
<1>1. receipts \in Seq(Receipt) /\ Answer(b, outcome) \in Receipt
  BY AnswerType DEF FlightInv, ChannelInv, TypeOK, RingTypeOK
<1>2. Answer(b, outcome).outcome # "Applied"
  BY DEF Answer, Rejections
<1>3. CASE receipts' = receipts
  BY <1>3 DEF InReceipts, Applied
<1>4. CASE receipts' = Append(receipts, Answer(b, outcome))
  <2>1. InReceipts' = InReceipts \cup {Answer(b, outcome)}
    BY <1>1, <1>4, RangeGain DEF InReceipts
  <2> QED
    BY <1>2, <2>1 DEF Applied
<1> QED
  BY <1>3, <1>4 DEF Reply

(* The Applied answer of a batch in flight is never lost.                  *)
LEMMA AppliedShifts ==
  ASSUME FlightInv, NEW b \in Batch, Reply(b, "Applied"),
         Cardinality(committed) > 0 \/ Cardinality({held} \ {NoBatch}) > 0
  PROVE  Applied(InReceipts)' = Applied(InReceipts) \cup {Answer(b, "Applied")}
<1>1. receipts \in Seq(Receipt) /\ Answer(b, "Applied") \in Receipt
  BY AnswerType DEF FlightInv, ChannelInv, TypeOK, RingTypeOK
<1>2. receipts' = Append(receipts, Answer(b, "Applied"))
  BY ReplyCounts
<1>3. InReceipts' = InReceipts \cup {Answer(b, "Applied")}
  BY <1>1, <1>2, RangeGain DEF InReceipts
<1>4. Answer(b, "Applied").outcome = "Applied"
  BY DEF Answer
<1> QED
  BY <1>3, <1>4 DEF Applied

(* What these steps push is a rejection of a batch.                        *)
LEMMA RejectionsOnly ==
  ASSUME FlightInv,
         TakeDue \/ RejectOutdated \/ Refuse \/ Park \/ Resume \/ RefuseTimed
  PROVE  \/ receipts' = receipts
         \/ \E b \in Batch, outcome \in Rejections : Reply(b, outcome)
<1>1. /\ schedule \in SUBSET Batch /\ arrived \in SUBSET Batch /\ parked \in SUBSET Batch
      /\ xPc \in {"due", "deferred"} => held \in Batch
  BY DEF FlightInv, ChannelInv, TypeOK, DocketTypeOK, HandsFull
<1>2. CASE TakeDue
  BY <1>1, <1>2, ChosenIn DEF TakeDue, Rejections
<1>3. CASE RejectOutdated
  BY <1>1, <1>3, ChosenIn DEF RejectOutdated, Rejections
<1>4. CASE Refuse \/ Park
  BY <1>1, <1>4 DEF Refuse, Park, Rejections
<1>5. CASE Resume
  BY <1>1, <1>5 DEF Resume, Rejections
<1>6. CASE RefuseTimed
  BY <1>1, <1>6, ChosenIn DEF RefuseTimed, Rejections
<1> QED
  BY <1>2, <1>3, <1>4, <1>5, <1>6

(* Applying or committing the batch held adds one shift to the history.    *)
LEMMA HeldShifts ==
  ASSUME FlightInv, Apply \/ Commit
  PROVE  Shifted' = Shifted \cup {Answer(held, "Applied")}
<1>1. held \in Batch
  BY DEF Apply, Commit, FlightInv, ChannelInv, HandsFull
<1>2. CASE Apply
  <2>1. Cardinality({held} \ {NoBatch}) > 0
    BY <1>1, HoldingLoad
  <2>2. Applied(InReceipts)' = Applied(InReceipts) \cup {Answer(held, "Applied")}
    BY <1>1, <1>2, <2>1, AppliedShifts DEF Apply
  <2>3. UNCHANGED <<answered, committed>>
    BY <1>2 DEF Apply
  <2> QED
    BY <2>2, <2>3 DEF Shifted, InReceipts
<1>3. CASE Commit
  <2>1. UNCHANGED <<answered, receipts>> /\ committed' = committed \cup {held}
    BY <1>3 DEF Commit
  <2> QED
    BY <2>1 DEF Shifted
<1> QED
  BY <1>2, <1>3

(* Every other step of a living channel leaves the history of shifts and   *)
(* the ledger alone.                                                       *)
LEMMA ShiftsKept ==
  ASSUME FlightInv, DropIsClosed, [Next]_vars, ~gateClosed', ~Apply, ~Commit
  PROVE  Shifted' = Shifted /\ ledger' = ledger
<1> DEFINE Ended == Applied(answered)
           Kept == {Answer(b, "Applied") : b \in committed}
<1>1. Shifted = Ended \cup Applied(InReceipts) \cup Kept
  BY DEF Shifted, InReceipts
<1>2. Shifted' = Ended' \cup Applied(InReceipts)' \cup Kept'
  BY DEF Shifted, InReceipts
<1>3. CASE SendEnter \/ SendPush \/ ReadNothing
  <2>1. UNCHANGED <<answered, receipts, committed, ledger>>
    BY <1>3 DEF SendEnter, SendPush, ReadNothing, docketVars
  <2> QED
    BY <2>1 DEF Shifted
<1>4. CASE StartDrain \/ Drain \/ NextBlock \/ CloseGate \/ ReleasePending
           \/ ReleaseAnswers \/ TakeDeferred \/ Defer \/ UNCHANGED vars
  <2>1. UNCHANGED <<answered, receipts, committed, ledger>>
    BY <1>4 DEF StartDrain, Drain, NextBlock, CloseGate, ReleasePending, ReleaseAnswers,
       TakeDeferred, Defer, vars, docketVars
  <2> QED
    BY <2>1 DEF Shifted
<1>5. CASE ReadReceipt
  <2>1. receipts \in Seq(Receipt) /\ receipts # <<>>
    BY <1>5 DEF ReadReceipt, FlightInv, ChannelInv, TypeOK, RingTypeOK
  <2>2. InReceipts = InReceipts' \cup {Head(receipts)}
    <3>1. {receipts[i] : i \in DOMAIN receipts}
            = {Tail(receipts)[i] : i \in DOMAIN Tail(receipts)} \cup {Head(receipts)}
      BY <2>1, RangeLoss
    <3>2. receipts' = Tail(receipts)
      BY <1>5 DEF ReadReceipt
    <3> QED
      BY <3>1, <3>2 DEF InReceipts
  <2>3. answered' = answered \cup {Head(receipts)} /\ UNCHANGED <<committed, ledger>>
    BY <1>5 DEF ReadReceipt, Settle, docketVars
  <2> QED
    BY <1>1, <1>2, <2>2, <2>3 DEF Applied
<1>6. CASE RecoverOrphan
  <2>1. UNCHANGED <<receipts, committed, ledger>>
    BY <1>6 DEF RecoverOrphan, docketVars
  <2>2. \/ answered' = answered
        \/ answered' = answered \cup {Answer(Head(commands), "Unanswered")}
    BY <1>6 DEF RecoverOrphan, Settle
  <2>3. Ended' = Ended
    BY <2>2 DEF Applied, Answer
  <2> QED
    BY <1>1, <1>2, <2>1, <2>3 DEF InReceipts
<1>7. CASE TakeDue \/ RejectOutdated \/ Refuse \/ Park \/ Resume \/ RefuseTimed
  <2>1. UNCHANGED <<answered, committed, ledger>>
    BY <1>7 DEF TakeDue, RejectOutdated, Refuse, Park, Resume, RefuseTimed, docketVars
  <2>2. \/ receipts' = receipts
        \/ \E b \in Batch, outcome \in Rejections : Reply(b, outcome)
    BY <1>7, RejectionsOnly
  <2>3. Applied(InReceipts)' = Applied(InReceipts)
    BY <2>2, RejectionShifts DEF InReceipts, Applied
  <2> QED
    BY <1>1, <1>2, <2>1, <2>3
<1>8. CASE Complete
  <2>1. PICK b \in committed : committed' = committed \ {b} /\ Reply(b, "Applied")
    BY <1>8 DEF Complete
  <2>2. b \in Batch /\ Cardinality(committed) > 0
    BY SetLoss DEF FlightInv, Finite, ChannelInv, TypeOK, DocketTypeOK
  <2>3. Applied(InReceipts)' = Applied(InReceipts) \cup {Answer(b, "Applied")}
    BY <2>1, <2>2, AppliedShifts
  <2>4. Kept = Kept' \cup {Answer(b, "Applied")}
    BY <2>1
  <2>5. UNCHANGED <<answered, ledger>>
    BY <1>8 DEF Complete
  <2> QED
    BY <1>1, <1>2, <2>3, <2>4, <2>5
<1>9. ~Unanswered
  BY DEF Unanswered, DropIsClosed
<1> QED
  BY <1>3, <1>4, <1>5, <1>6, <1>7, <1>8, <1>9 DEF Next, Sender, Executor

(* The gate is closed before the drop of the inbox drains, and stays so.   *)
LEMMA DropStep ==
  ASSUME FlightInv, DropIsClosed, [Next]_vars
  PROVE  DropIsClosed' /\ (gateClosed => gateClosed')
<1> USE DEF DropIsClosed
<1>1. CASE SendEnter
  BY <1>1 DEF SendEnter
<1>2. CASE SendPush
  BY <1>2 DEF SendPush
<1>3. CASE ReadReceipt
  BY <1>3 DEF ReadReceipt
<1>4. CASE ReadNothing
  BY <1>4 DEF ReadNothing
<1>5. CASE RecoverOrphan
  BY <1>5 DEF RecoverOrphan
<1>6. CASE StartDrain
  BY <1>6 DEF StartDrain
<1>7. CASE Drain
  BY <1>7 DEF Drain
<1>8. CASE TakeDue
  BY <1>8 DEF TakeDue
<1>9. CASE Apply
  BY <1>9 DEF Apply
<1>10. CASE Commit
  BY <1>10 DEF Commit
<1>11. CASE Defer
  BY <1>11 DEF Defer
<1>12. CASE Refuse
  BY <1>12 DEF Refuse
<1>13. CASE RejectOutdated
  BY <1>13 DEF RejectOutdated
<1>14. CASE TakeDeferred
  BY <1>14 DEF TakeDeferred
<1>15. CASE Park
  BY <1>15 DEF Park
<1>16. CASE Resume
  BY <1>16 DEF Resume
<1>17. CASE Complete
  BY <1>17 DEF Complete
<1>18. CASE RefuseTimed
  BY <1>18 DEF RefuseTimed
<1>19. CASE NextBlock
  BY <1>19 DEF NextBlock
<1>20. CASE CloseGate
  BY <1>20 DEF CloseGate
<1>21. CASE Unanswered
  BY <1>21 DEF Unanswered
<1>22. CASE ReleasePending
  BY <1>22 DEF ReleasePending
<1>23. CASE ReleaseAnswers
  BY <1>23 DEF ReleaseAnswers
<1>24. CASE UNCHANGED vars
  BY <1>24 DEF vars
<1> QED
  BY <1>1, <1>2, <1>3, <1>4, <1>5, <1>6, <1>7, <1>8, <1>9, <1>10, <1>11, <1>12,
     <1>13, <1>14, <1>15, <1>16, <1>17, <1>18, <1>19, <1>20, <1>21, <1>22, <1>23,
     <1>24 DEF Next, Sender, Executor

(* What shifted a target bears a number.                                   *)
LEMMA ShiftNumbers ==
  ASSUME FlightInv, NEW r \in Shifted PROVE r.seq \in Int
<1>1. /\ answered \in SUBSET Receipt /\ receipts \in Seq(Receipt)
      /\ committed \in SUBSET Batch
  BY DEF FlightInv, ChannelInv, TypeOK, RingTypeOK, DocketTypeOK
<1>2. \A i \in DOMAIN receipts : receipts[i] \in Receipt
  BY <1>1
<1>3. r \in Receipt \/ \E b \in committed : r = Answer(b, "Applied")
  BY <1>1, <1>2 DEF Shifted, Applied
<1>4. r \in Receipt
  BY <1>1, <1>3, AnswerType
<1> QED
  BY <1>4 DEF Receipt, Seqs

(* A batch judged current that shifts a target joins the end of its chain. *)
LEMMA ShiftJoins ==
  ASSUME ChainInv, Apply \/ Commit, ~gateClosed, NEW t \in Targets
  PROVE  /\ ledger'[t] \in {None} \cup {r.seq : r \in ShiftsOf(t)'}
         /\ \A r \in ShiftsOf(t)' :
              /\ r.seq <= ledger'[t]
              /\ r.basis[t] \in {None} \cup {q.seq : q \in ShiftsOf(t)'}
              /\ \A q \in ShiftsOf(t)' : r.seq < q.seq => r.seq <= q.basis[t]
<1>1. PICK a : a = Answer(held, "Applied")
  OBVIOUS
<1>2. /\ held \in Batch /\ IsCurrent(held) /\ Backward(held)
      /\ ledger' = Record(held) /\ ledger[t] \in Int
  BY LedgerNumbers DEF Apply, Commit, ChainInv, FlightInv, ChannelInv, HandsFull, DueIsCurrent,
     BasesBackward
<1>3. /\ a.seq = held.seq /\ a.basis = held.basis /\ a.seq \in Int
      /\ Listed(a) = Listed(held)
  BY <1>1, <1>2 DEF Answer, Batch, Seqs, Listed
<1>4. Shifted' = Shifted \cup {a}
  BY <1>1, HeldShifts DEF ChainInv
<1>5. /\ ledger[t] \in {None} \cup {r.seq : r \in ShiftsOf(t)}
      /\ \A r \in ShiftsOf(t) :
           /\ r.seq <= ledger[t]
           /\ r.basis[t] \in {None} \cup {q.seq : q \in ShiftsOf(t)}
           /\ \A q \in ShiftsOf(t) : r.seq < q.seq => r.seq <= q.basis[t]
  BY DEF ChainInv, LedgerHeads, AppliedChain
<1>6. \A r \in Shifted : r.seq \in Int
  BY ShiftNumbers DEF ChainInv
<1>7. CASE t \notin Listed(held)
  <2>1. ShiftsOf(t)' = ShiftsOf(t)
    BY <1>3, <1>4, <1>7 DEF ShiftsOf, Listed
  <2>2. ledger'[t] = ledger[t]
    BY <1>2, <1>7 DEF Record
  <2> QED
    BY <1>5, <2>1, <2>2
<1>8. CASE t \in Listed(held)
  <2>1. ShiftsOf(t)' = ShiftsOf(t) \cup {a}
    BY <1>3, <1>4, <1>8 DEF ShiftsOf, Listed
  <2>2. ledger'[t] = a.seq
    BY <1>2, <1>3, <1>8 DEF Record
  <2>3. a.basis[t] = ledger[t] /\ ledger[t] < a.seq
    BY <1>2, <1>3, <1>8 DEF IsCurrent, Backward
  <2>4. \A r \in ShiftsOf(t) : r.seq \in Int
    BY <1>6 DEF ShiftsOf
  <2>5. \A r \in ShiftsOf(t) : r.seq <= ledger[t] /\ r.seq < a.seq
    BY <1>2, <1>3, <1>5, <2>3, <2>4
  <2>6. PICK S : S = ShiftsOf(t)
    OBVIOUS
  <2>7. ledger'[t] \in {None} \cup {r.seq : r \in S \cup {a}}
    BY <2>2
  <2>8. \A r \in S \cup {a} : r.seq <= ledger'[t]
    BY <1>3, <2>2, <2>4, <2>5, <2>6
  <2>9. \A r \in S \cup {a} : r.basis[t] \in {None} \cup {q.seq : q \in S \cup {a}}
    BY <1>5, <2>3, <2>6
  <2>10. \A r, q \in S \cup {a} : r.seq < q.seq => r.seq <= q.basis[t]
    <3> SUFFICES ASSUME NEW r \in S \cup {a}, NEW q \in S \cup {a}, r.seq < q.seq
                 PROVE  r.seq <= q.basis[t]
      OBVIOUS
    <3>1. CASE r \in S /\ q \in S
      BY <1>5, <2>6, <3>1
    <3>2. CASE r \in S /\ q = a
      BY <2>3, <2>5, <2>6, <3>2
    <3>3. r # a
      BY <1>3, <2>4, <2>5, <2>6
    <3> QED
      BY <3>1, <3>2, <3>3
  <2>11. ShiftsOf(t)' = S \cup {a}
    BY <2>1, <2>6
  <2> QED
    BY <2>7, <2>8, <2>9, <2>10, <2>11
<1> QED
  BY <1>7, <1>8

(* The chain grows at its end or stays as it is.                           *)
LEMMA ChainStep ==
  ASSUME ChainInv, [Next]_vars PROVE ChainInv'
<1>1. FlightInv' /\ DropIsClosed' /\ (gateClosed => gateClosed')
  BY FlightStep, DropStep DEF ChainInv
<1>2. CASE gateClosed'
  BY <1>1, <1>2 DEF ChainInv, LedgerHeads, AppliedChain
<1>3. CASE ~gateClosed' /\ (Apply \/ Commit)
  <2>1. ~gateClosed
    BY <1>1, <1>3
  <2>2. LedgerHeads'
    BY <1>3, <2>1, ShiftJoins DEF LedgerHeads
  <2>3. AppliedChain'
    BY <1>3, <2>1, ShiftJoins DEF AppliedChain
  <2> QED
    BY <1>1, <2>2, <2>3 DEF ChainInv
<1>4. CASE ~gateClosed' /\ ~Apply /\ ~Commit
  <2>1. Shifted' = Shifted /\ ledger' = ledger /\ ~gateClosed
    BY <1>1, <1>4, ShiftsKept DEF ChainInv
  <2>2. \A t : ShiftsOf(t)' = ShiftsOf(t)
    BY <2>1 DEF ShiftsOf
  <2>3. LedgerHeads' /\ AppliedChain'
    BY <2>1, <2>2 DEF ChainInv, LedgerHeads, AppliedChain
  <2> QED
    BY <1>1, <2>3 DEF ChainInv
<1> QED
  BY <1>2, <1>3, <1>4

(* While the inbox lives, the batches that shifted a target form one chain *)
(* through their bases, for any number of targets, batches and credits: the*)
(* owner planned every applied batch on the shift it met (Ledger::judges,  *)
(* Due::apply, Due::commit, Docket::complete).                             *)
THEOREM ShiftsFormAChain == Spec => []AppliedChain
<1>1. Init => ChainInv
  <2> SUFFICES ASSUME Init PROVE ChainInv
    OBVIOUS
  <2>1. FlightInv
    BY FlightInit
  <2>2. DropIsClosed
    BY DEF Init, DropIsClosed
  <2>3. Shifted = {}
    BY DEF Init, Shifted, Applied
  <2>4. LedgerHeads /\ AppliedChain
    BY <2>3 DEF Init, LedgerHeads, AppliedChain, ShiftsOf
  <2> QED
    BY <2>1, <2>2, <2>4 DEF ChainInv
<1>2. ChainInv => AppliedChain
  BY DEF ChainInv
<1> QED
  BY <1>1, <1>2, ChainStep, PTL DEF Spec
=============================================================================
