------------------------ MODULE StorageResourceProofs ------------------------
(***************************************************************************)
(* Proofs about StorageResource, for any waiters, length and number of     *)
(* generations: no wake-up is lost, a read is never torn, and what other   *)
(* threads can see has happened.                                           *)
(*                                                                         *)
(* Each promise is kept across the unlocked steps of a call, so the        *)
(* inductive invariant says what holds while the owner is between two of   *)
(* them, and what a waiter that has looked but not yet parked relies on.   *)
(***************************************************************************)
EXTENDS StorageResource, SequenceTheorems, TLAPS

(* Which handle is behind each step of the owner, and an open writer's     *)
(* state is not committed.                                                 *)
PhaseInv ==
  /\ wPc \in {"wrote", "record", "flag", "publish", "stamp"} => phase = "active"
  /\ wPc \in {"lower", "reopen"} => phase = "committed" /\ gen < MaxGen
  /\ phase = "active" => ~state.committed
  /\ ~state.committed => state.finalLen = NoLen

(* The working buffer has the driver's length, except from a commit, which *)
(* frees it, to the reactivation that reloads it.                          *)
DriverInv ==
  /\ phase = "active" /\ wPc \notin {"record", "flag", "publish"} => workLen = Len(work)
  /\ wPc \in {"lower", "reopen"} => workLen = Len(work)
  /\ wPc \in {"record", "flag", "publish"} => workLen = Len(snapshot) /\ work = <<>>
  /\ phase = "committed" /\ wPc \in {"idle", "notify"} =>
       workLen = Len(snapshot) /\ work = <<>>
  /\ snapshot # <<>> => snapshot \in published

(* The record is made before the flag is raised. *)
RecordInv ==
  /\ wPc \in {"flag", "publish"} /\ op.hi # NoLen => recorded = <<gen, op.hi>>
  /\ RecordedBeforeCommitted

(* While the first writer is at work every announced byte is written. *)
AnnounceInv ==
  gen = 1 /\ ~state.committed =>
    /\ available \subseteq 0 .. workLen - 1 \/ wPc \in {"record", "flag", "publish"}
    /\ snapshot = <<>> \/ wPc \in {"record", "flag", "publish"}
    /\ wPc = "wrote" => op.hi <= workLen

(* A read in progress has a span and has returned nothing yet. *)
ReadInv == (rPc # "idle" => want # NoOp /\ got = <<>>) /\ UntornRead

(* The gate's lock: whoever holds it has looked and is about to park. *)
GateInv ==
  /\ \A w \in Waiters : pc[w] = "parking" <=> holder = w
  /\ \A w \in Waiters :
       pc[w] = "parking" => Verdict(range[w], w) = "Wait" \/ calling # {}

IInv ==
  /\ TypeOK /\ PhaseInv /\ DriverInv /\ RecordInv /\ AnnounceInv /\ ReadInv
  /\ GateInv /\ NoLostWake

-----------------------------------------------------------------------------
(* Facts about the operators.                                              *)

(* A wait has no verdict exactly while nothing it asks about has happened. *)
LEMMA WaitVerdict ==
  ASSUME NEW s, NEW w
  PROVE  Verdict(s, w) = "Wait" <=>
           /\ Owner \notin cancelled /\ w \notin cancelled
           /\ ~state.failed /\ ~state.committed
           /\ ~(Span(s) \subseteq available)
  <1>1. CASE {Owner, w} \cap cancelled # {}
    BY <1>1 DEF Verdict
  <1>2. CASE {Owner, w} \cap cancelled = {} /\ state.failed
    BY <1>2 DEF Verdict
  <1>3. CASE {Owner, w} \cap cancelled = {} /\ ~state.failed
    <2>1. Verdict(s, w) =
            IF Span(s) \subseteq available THEN "Ready"
            ELSE IF ~state.committed THEN "Wait"
            ELSE IF s.lo >= (IF state.finalLen = NoLen THEN 0 ELSE state.finalLen)
                 THEN "Eof" ELSE "Ready"
      BY <1>3 DEF Verdict
    <2> QED
      BY <1>3, <2>1
  <1> QED
    BY <1>1, <1>2, <1>3

(* A write leaves a buffer of bytes as long as the write reaches. *)
LEMMA WrittenType ==
  ASSUME NEW s \in Spans, work \in Seq(0 .. MaxGen), gen \in 1 .. MaxGen,
         Len(work) <= MaxLen
  PROVE  /\ Written(s) \in Seq(0 .. MaxGen)
         /\ Len(Written(s)) = IF Len(work) < s.hi THEN s.hi ELSE Len(work)
         /\ Len(Written(s)) <= MaxLen
  <1> USE StorageAssumption
  <1> DEFINE n == IF Len(work) < s.hi THEN s.hi ELSE Len(work)
             F == [i \in 1 .. n |-> IF i - 1 \in Span(s) THEN gen
                                    ELSE IF i <= Len(work) THEN work[i] ELSE 0]
  <1>1. s.hi \in 1 .. MaxLen /\ Len(work) \in Nat
    BY DEF Spans
  <1>2. n \in Nat /\ n <= MaxLen
    BY <1>1
  <1>3. \A i \in 1 .. n : F[i] \in 0 .. MaxGen
    BY <1>2
  <1> HIDE DEF n
  <1>4. F \in Seq(0 .. MaxGen) /\ Len(F) = n
    <2>1. F \in [1 .. n -> 0 .. MaxGen]
      BY <1>3
    <2> HIDE DEF F
    <2> QED
      BY <1>2, <2>1
  <1>5. Written(s) = F
    BY DEF Written, n
  <1> QED
    BY <1>2, <1>4, <1>5 DEF n

(* What a commit publishes is a prefix of the working buffer. *)
LEMMA PrefixType ==
  ASSUME NEW S, NEW q \in Seq(S), NEW n \in 0 .. Len(q)
  PROVE  SubSeq(q, 1, n) \in Seq(S) /\ Len(SubSeq(q, 1, n)) = n
  <1>1. \A i \in 1 .. n : q[i] \in S
    OBVIOUS
  <1> QED
    BY <1>1, SubSeqProperties

-----------------------------------------------------------------------------
(* Type correctness.                                                       *)

LEMMA InitIInv == Init => IInv
  <1> SUFFICES ASSUME Init PROVE IInv
    OBVIOUS
  <1> USE StorageAssumption DEF Init
  <1>1. TypeOK
    <2>1. /\ op \in [lo : 0 .. MaxLen, hi : NoLen .. MaxLen]
          /\ workLen \in 0 .. MaxLen /\ gen \in 1 .. MaxGen
          /\ recorded \in (0 .. MaxGen) \X (NoLen .. MaxLen)
      BY DEF NoOp, NoLen
    <2>2. state \in [committed : BOOLEAN, finalLen : NoLen .. MaxLen, failed : BOOLEAN]
      BY DEF NoLen
    <2>3. /\ snapshot \in Seq(0 .. MaxGen) /\ Len(snapshot) <= MaxLen
          /\ work \in Seq(0 .. MaxGen) /\ Len(work) <= MaxLen
          /\ got \in Seq(0 .. MaxGen)
      OBVIOUS
    <2>4. flag \in BOOLEAN /\ stamp \in BOOLEAN
      OBVIOUS
    <2>5. /\ pc \in [Waiters -> {"idle", "check", "parking", "parked"}]
          /\ range \in [Waiters -> Spans \cup {NoOp}]
      OBVIOUS
    <2> QED
      BY <2>1, <2>2, <2>3, <2>4, <2>5 DEF TypeOK
  <1>2. PhaseInv /\ DriverInv /\ RecordInv
    BY DEF PhaseInv, DriverInv, RecordInv, RecordedBeforeCommitted
  <1>3. AnnounceInv /\ ReadInv
    BY DEF AnnounceInv, ReadInv, UntornRead
  <1>4. GateInv /\ NoLostWake
    BY DEF GateInv, NoLostWake, Nobody
  <1> QED
    BY <1>1, <1>2, <1>3, <1>4 DEF IInv

LEMMA WriterType ==
  ASSUME TypeOK, PhaseInv, DriverInv, Writer
  PROVE  TypeOK'
  <1> USE StorageAssumption DEF driverVars, waitVars, readVars
  <1>1. CASE WriteAt
    <2>1. PICK s \in Spans : /\ op' = s /\ work' = Written(s)
                             /\ workLen' = IF workLen < s.hi THEN s.hi ELSE workLen
      BY <1>1 DEF WriteAt
    <2>2. op' \in [lo : 0 .. MaxLen, hi : NoLen .. MaxLen] /\ s.hi \in 0 .. MaxLen
      BY <2>1 DEF Spans, Bytes, NoLen
    <2>3. workLen \in 0 .. MaxLen
      BY DEF TypeOK
    <2>4. workLen' \in 0 .. MaxLen
      BY <2>1, <2>2, <2>3
    <2>5. work' \in Seq(0 .. MaxGen) /\ Len(work)' <= MaxLen
      BY <2>1, WrittenType DEF TypeOK
    <2> QED
      BY <1>1, <2>2, <2>4, <2>5 DEF WriteAt, TypeOK
  <1>2. CASE PublishWrite
    <2>1. Span(op) \subseteq Bytes
      BY DEF Span, Bytes, TypeOK, NoLen
    <2> QED
      BY <1>2, <2>1 DEF PublishWrite, TypeOK
  <1>3. CASE Notify
    <2>1. op' \in [lo : 0 .. MaxLen, hi : NoLen .. MaxLen]
      BY <1>3 DEF Notify, NoOp, NoLen
    <2>2. pc' \in [Waiters -> {"idle", "check", "parking", "parked"}]
      BY <1>3 DEF Notify, NotifyAll, TypeOK
    <2> QED
      BY <1>3, <2>1, <2>2 DEF Notify, TypeOK
  <1>4. CASE Commit
    <2>1. PICK len \in {NoLen} \cup 0 .. workLen :
            LET end == IF len = NoLen THEN workLen ELSE Smaller(len, workLen) IN
              /\ op' = [lo |-> 0, hi |-> len]
              /\ snapshot' = SubSeq(work, 1, end)
              /\ published' = published \cup {snapshot'}
              /\ workLen' = end
      BY <1>4 DEF Commit
    <2> DEFINE end == IF len = NoLen THEN workLen ELSE Smaller(len, workLen)
    <2>2. end \in 0 .. workLen /\ workLen = Len(work)
      BY <1>4 DEF Commit, DriverInv, TypeOK, Smaller, NoLen
    <2>3. op' \in [lo : 0 .. MaxLen, hi : NoLen .. MaxLen] /\ workLen' \in 0 .. MaxLen
      BY <2>1, <2>2 DEF TypeOK, NoLen
    <2>4. snapshot' \in Seq(0 .. MaxGen) /\ Len(snapshot)' <= MaxLen
      <3>1. work \in Seq(0 .. MaxGen) /\ end \in 0 .. Len(work) /\ end <= MaxLen
        BY <2>2 DEF TypeOK
      <3> HIDE DEF end
      <3>2. snapshot' = SubSeq(work, 1, end)
        BY <2>1 DEF end
      <3>3. SubSeq(work, 1, end) \in Seq(0 .. MaxGen) /\ Len(SubSeq(work, 1, end)) = end
        BY <3>1, PrefixType
      <3> QED
        BY <3>1, <3>2, <3>3
    <2>5. work' \in Seq(0 .. MaxGen) /\ Len(work)' <= MaxLen
      BY <1>4 DEF Commit
    <2>6. published' \subseteq Seq(0 .. MaxGen)
      BY <2>1, <2>4 DEF TypeOK
    <2> QED
      BY <1>4, <2>3, <2>4, <2>5, <2>6 DEF Commit, TypeOK
  <1>5. CASE RecordCommit
    <2>1. recorded' \in (0 .. MaxGen) \X (NoLen .. MaxLen)
      BY <1>5 DEF RecordCommit, TypeOK
    <2> QED
      BY <1>5, <2>1 DEF RecordCommit, TypeOK
  <1>6. CASE RaiseFlag \/ LowerFlag
    BY <1>6 DEF RaiseFlag, LowerFlag, TypeOK
  <1>7. CASE PublishCommit
    <2>1. Span(op) \subseteq Bytes
      BY DEF Span, Bytes, TypeOK, NoLen
    <2>2. state' \in [committed : BOOLEAN, finalLen : NoLen .. MaxLen, failed : BOOLEAN]
      BY <1>7 DEF PublishCommit, TypeOK
    <2> QED
      BY <1>7, <2>1, <2>2 DEF PublishCommit, TypeOK
  <1>8. CASE Reactivate
    <2>1. /\ work' \in Seq(0 .. MaxGen) /\ Len(work)' <= MaxLen
          /\ workLen' \in 0 .. MaxLen
      BY <1>8 DEF Reactivate, TypeOK
    <2> QED
      BY <1>8, <2>1 DEF Reactivate, TypeOK
  <1>9. CASE Reopen
    <2>1. state' \in [committed : BOOLEAN, finalLen : NoLen .. MaxLen, failed : BOOLEAN]
      BY <1>9 DEF Reopen, NoLen
    <2> QED
      BY <1>9, <2>1 DEF Reopen, TypeOK, PhaseInv
  <1>10. CASE Fail
    <2>1. state' \in [committed : BOOLEAN, finalLen : NoLen .. MaxLen, failed : BOOLEAN]
      BY <1>10 DEF Fail, TypeOK
    <2> QED
      BY <1>10, <2>1 DEF Fail, TypeOK
  <1>11. CASE Abandon \/ DropHandle
    BY <1>11 DEF Abandon, DropHandle, TypeOK
  <1> QED
    BY <1>1, <1>2, <1>3, <1>4, <1>5, <1>6, <1>7, <1>8, <1>9, <1>10, <1>11 DEF Writer

(* Waiters, cancellations and readers leave the owner's state alone. *)
ownerVars == <<phase, gen, wPc, op, driverVars, recorded, flag, available, state, stamp,
               published>>

LEMMA OthersFrame ==
  ASSUME Waiting \/ Cancelling \/ Reader
  PROVE  UNCHANGED ownerVars
  <1> USE DEF ownerVars, driverVars
  <1>1. CASE Waiting
    BY <1>1 DEF Waiting, WaitRange, Check, Park
  <1>2. CASE Cancelling
    BY <1>2 DEF Cancelling, Cancel, WakeWaiters
  <1>3. CASE Reader
    BY <1>3 DEF Reader, ReadAt, ReadInto, CommittedLen, ReadCommitted
  <1> QED
    BY <1>1, <1>2, <1>3

LEMMA WaitingType ==
  ASSUME TypeOK, NEW w \in Waiters, WaitRange(w) \/ Check(w) \/ Park(w)
  PROVE  TypeOK'
  <1> USE StorageAssumption DEF driverVars, readVars
  <1>1. CASE WaitRange(w)
    <2>1. range' \in [Waiters -> Spans \cup {NoOp}]
      BY <1>1 DEF WaitRange, TypeOK
    <2>2. pc' \in [Waiters -> {"idle", "check", "parking", "parked"}]
      BY <1>1 DEF WaitRange, TypeOK
    <2>3. cancelled' \subseteq Tokens /\ calling' \subseteq cancelled'
      BY <1>1 DEF WaitRange, TypeOK
    <2> QED
      BY <1>1, <2>1, <2>2, <2>3 DEF WaitRange, TypeOK
  <1>2. CASE Check(w)
    <2>1. range' \in [Waiters -> Spans \cup {NoOp}]
      BY <1>2 DEF Check, TypeOK
    <2>2. pc' \in [Waiters -> {"idle", "check", "parking", "parked"}]
      BY <1>2 DEF Check, TypeOK
    <2>3. holder' \in Waiters \cup {Nobody}
      BY <1>2 DEF Check, TypeOK
    <2> QED
      BY <1>2, <2>1, <2>2, <2>3 DEF Check, TypeOK
  <1>3. CASE Park(w)
    <2>1. pc' \in [Waiters -> {"idle", "check", "parking", "parked"}]
      BY <1>3 DEF Park, TypeOK
    <2> QED
      BY <1>3, <2>1 DEF Park, TypeOK
  <1> QED
    BY <1>1, <1>2, <1>3

LEMMA CancelType ==
  ASSUME TypeOK, NEW k \in Tokens, Cancel(k) \/ WakeWaiters(k)
  PROVE  TypeOK'
  <1> USE StorageAssumption DEF driverVars, readVars, waitVars
  <1>1. CASE Cancel(k)
    BY <1>1 DEF Cancel, TypeOK
  <1>2. CASE WakeWaiters(k)
    <2>1. pc' \in [Waiters -> {"idle", "check", "parking", "parked"}]
      BY <1>2 DEF WakeWaiters, NotifyAll, TypeOK
    <2> QED
      BY <1>2, <2>1 DEF WakeWaiters, TypeOK
  <1> QED
    BY <1>1, <1>2

(* A span cut at the end of a snapshot it starts in is a span. *)
LEMMA CutSpan ==
  ASSUME NEW s \in Spans \cup {NoOp}, NEW n \in 1 .. MaxLen, s.lo < n, s # NoOp
  PROVE  [s EXCEPT !.hi = Smaller(@, n)] \in Spans
  BY StorageAssumption DEF Spans, Bytes, Smaller

(* What a read takes out of a snapshot: nothing past its end. *)
LEMMA TakenType ==
  ASSUME NEW q \in Seq(0 .. MaxGen), NEW s \in Spans \cup {NoOp}
  PROVE  LET n == Smaller(s.hi, Len(q))
             g == SubSeq(q, s.lo + 1, n)
         IN  /\ g \in Seq(0 .. MaxGen)
             /\ g # <<>> => s.lo + Len(g) = n /\ n <= Len(q)
  <1> USE StorageAssumption
  <1> DEFINE n == Smaller(s.hi, Len(q))
             g == SubSeq(q, s.lo + 1, n)
  <1>1. s.lo \in Nat /\ s.hi \in Nat
    BY DEF Spans, Bytes, NoOp
  <1>2. n \in Nat /\ n <= Len(q)
    BY <1>1 DEF Smaller
  <1> HIDE DEF n
  <1>3. \A i \in s.lo + 1 .. n : q[i] \in 0 .. MaxGen
    BY <1>1, <1>2
  <1>4. /\ g \in Seq(0 .. MaxGen)
        /\ Len(g) = IF s.lo + 1 <= n THEN n - (s.lo + 1) + 1 ELSE 0
    BY <1>1, <1>2, <1>3, SubSeqProperties
  <1> HIDE DEF g
  <1>5. g # <<>> => Len(g) # 0
    BY <1>4
  <1>6. g # <<>> => s.lo + Len(g) = n
    BY <1>1, <1>2, <1>4, <1>5
  <1> QED
    BY <1>2, <1>4, <1>6 DEF n, g

LEMMA ReaderType ==
  ASSUME TypeOK, Reader, rPc # "idle" => want # NoOp
  PROVE  TypeOK' /\ (rPc' # "idle" => want' # NoOp)
  <1> USE StorageAssumption DEF driverVars, waitVars
  <1>1. CASE ReadAt
    <2>1. want' \in Spans /\ NoOp \notin Spans
      BY <1>1 DEF ReadAt, Spans, NoOp
    <2> QED
      BY <1>1, <2>1 DEF ReadAt, TypeOK
  <1>2. CASE ReadInto
    <2>1. LenInner \in 1 .. MaxLen
      BY <1>2 DEF ReadInto, LenInner, TypeOK, NoLen
    <2>2. want' \in Spans /\ want' # NoOp
      BY <1>2, <2>1 DEF ReadInto, Spans, Bytes, NoOp
    <2> QED
      BY <1>2, <2>2 DEF ReadInto, TypeOK
  <1>3. CASE CommittedLen
    <2>1. NoOp \notin Spans
      BY DEF Spans, NoOp
    <2>2. want' \in Spans \cup {NoOp} /\ (rPc' # "idle" => want' # NoOp)
      <3>1. CASE snapshot # <<>> /\ Owner \notin cancelled /\ want.lo < Len(snapshot)
        <4>1. Len(snapshot) \in 1 .. MaxLen
          BY <3>1 DEF TypeOK
        <4>2. want # NoOp /\ want \in Spans \cup {NoOp}
          BY <1>3 DEF CommittedLen, TypeOK
        <4>3. [want EXCEPT !.hi = Smaller(@, Len(snapshot))] \in Spans
          BY <3>1, <4>1, <4>2, CutSpan
        <4>4. want' = [want EXCEPT !.hi = Smaller(@, Len(snapshot))]
          BY <1>3, <3>1 DEF CommittedLen, TypeOK, Spans, Bytes, NoOp
        <4> QED
          BY <2>1, <4>3, <4>4
      <3>2. CASE snapshot = <<>> \/ Owner \in cancelled \/ ~(want.lo < Len(snapshot))
        BY <1>3, <3>2 DEF CommittedLen, TypeOK, Spans, Bytes, NoOp
      <3> QED
        BY <3>1, <3>2
    <2>3. rPc' \in {"idle", "len", "read"}
      BY <1>3 DEF CommittedLen
    <2> QED
      BY <1>3, <2>2, <2>3 DEF CommittedLen, TypeOK
  <1>4. CASE ReadCommitted
    <2>1. got' \in Seq(0 .. MaxGen)
      BY <1>4, TakenType DEF ReadCommitted, Loaded, TypeOK
    <2> QED
      BY <1>4, <2>1 DEF ReadCommitted, TypeOK
  <1> QED
    BY <1>1, <1>2, <1>3, <1>4 DEF Reader

-----------------------------------------------------------------------------
(* The owner's steps.                                                      *)

LEMMA PhaseStep ==
  ASSUME TypeOK, PhaseInv, Writer
  PROVE  PhaseInv'
  <1> USE DEF driverVars, waitVars, readVars
  <1>1. CASE WriteAt \/ PublishWrite \/ Notify \/ Commit
    BY <1>1 DEF WriteAt, PublishWrite, Notify, Commit, PhaseInv
  <1>2. CASE RecordCommit \/ RaiseFlag \/ LowerFlag \/ Reactivate
    BY <1>2 DEF RecordCommit, RaiseFlag, LowerFlag, Reactivate, PhaseInv
  <1>3. CASE PublishCommit
    BY <1>3 DEF PublishCommit, PhaseInv, TypeOK
  <1>4. CASE Reopen
    BY <1>4 DEF Reopen, PhaseInv
  <1>5. CASE Fail
    BY <1>5 DEF Fail, PhaseInv, TypeOK
  <1>6. CASE Abandon \/ DropHandle
    BY <1>6 DEF Abandon, DropHandle, PhaseInv
  <1> QED
    BY <1>1, <1>2, <1>3, <1>4, <1>5, <1>6 DEF Writer

LEMMA DriverStep ==
  ASSUME TypeOK, PhaseInv, DriverInv, Writer
  PROVE  DriverInv'
  <1> USE DEF driverVars, waitVars, readVars
  <1>1. CASE WriteAt
    <2>1. PICK s \in Spans : /\ work' = Written(s)
                             /\ workLen' = IF workLen < s.hi THEN s.hi ELSE workLen
      BY <1>1 DEF WriteAt
    <2>2. workLen' = Len(work')
      BY <1>1, <2>1, WrittenType DEF WriteAt, DriverInv, TypeOK
    <2> QED
      BY <1>1, <2>2 DEF WriteAt, DriverInv
  <1>2. CASE Commit
    <2>1. PICK len \in {NoLen} \cup 0 .. workLen :
            LET end == IF len = NoLen THEN workLen ELSE Smaller(len, workLen) IN
              /\ snapshot' = SubSeq(work, 1, end)
              /\ published' = published \cup {snapshot'}
              /\ workLen' = end
      BY <1>2 DEF Commit
    <2> DEFINE end == IF len = NoLen THEN workLen ELSE Smaller(len, workLen)
    <2>2. work \in Seq(0 .. MaxGen) /\ end \in 0 .. Len(work)
      BY <1>2 DEF Commit, DriverInv, TypeOK, Smaller, NoLen
    <2>3. snapshot' = SubSeq(work, 1, end) /\ workLen' = end
      BY <2>1
    <2> HIDE DEF end
    <2>4. workLen' = Len(snapshot')
      BY <2>2, <2>3, PrefixType
    <2>5. snapshot' \in published'
      BY <2>1
    <2> QED
      BY <1>2, <2>4, <2>5 DEF Commit, DriverInv
  <1>3. CASE PublishWrite \/ Notify \/ RecordCommit \/ RaiseFlag
    BY <1>3 DEF PublishWrite, Notify, RecordCommit, RaiseFlag, DriverInv, PhaseInv
  <1>4. CASE PublishCommit \/ LowerFlag \/ Reopen
    BY <1>4 DEF PublishCommit, LowerFlag, Reopen, DriverInv, PhaseInv
  <1>5. CASE Reactivate
    BY <1>5 DEF Reactivate, DriverInv, PhaseInv
  <1>6. CASE Fail \/ Abandon \/ DropHandle
    BY <1>6 DEF Fail, Abandon, DropHandle, DriverInv, PhaseInv
  <1> QED
    BY <1>1, <1>2, <1>3, <1>4, <1>5, <1>6 DEF Writer

LEMMA RecordStep ==
  ASSUME TypeOK, PhaseInv, RecordInv, Writer
  PROVE  RecordInv'
  <1> USE DEF driverVars, waitVars, readVars, RecordInv, RecordedBeforeCommitted
  <1>1. CASE WriteAt \/ PublishWrite \/ Notify \/ Commit
    BY <1>1 DEF WriteAt, PublishWrite, Notify, Commit, PhaseInv
  <1>2. CASE RecordCommit \/ RaiseFlag \/ LowerFlag \/ Reactivate
    BY <1>2 DEF RecordCommit, RaiseFlag, LowerFlag, Reactivate
  <1>3. CASE PublishCommit
    <2>1. state'.finalLen = op.hi
      BY <1>3 DEF PublishCommit, TypeOK
    <2> QED
      BY <1>3, <2>1 DEF PublishCommit
  <1>4. CASE Reopen
    BY <1>4 DEF Reopen
  <1>5. CASE Fail
    <2>1. state'.committed = state.committed
      BY <1>5 DEF Fail, TypeOK
    <2> QED
      BY <1>5, <2>1 DEF Fail, PhaseInv
  <1>6. CASE Abandon \/ DropHandle
    BY <1>6 DEF Abandon, DropHandle
  <1> QED
    BY <1>1, <1>2, <1>3, <1>4, <1>5, <1>6 DEF Writer

LEMMA AnnounceStep ==
  ASSUME TypeOK, PhaseInv, AnnounceInv, Writer
  PROVE  AnnounceInv'
  <1> USE DEF driverVars, waitVars, readVars, AnnounceInv
  <1>1. CASE WriteAt
    <2>1. PICK s \in Spans : op' = s /\ workLen' = IF workLen < s.hi THEN s.hi ELSE workLen
      BY <1>1 DEF WriteAt
    <2>2. op'.hi <= workLen' /\ workLen <= workLen' /\ workLen \in Nat /\ workLen' \in Nat
      BY <2>1 DEF Spans, TypeOK
    <2>3. \A n, m \in Nat : n <= m => 0 .. n - 1 \subseteq 0 .. m - 1
      OBVIOUS
    <2>4. 0 .. workLen - 1 \subseteq 0 .. workLen' - 1
      BY <2>2, <2>3
    <2> QED
      BY <1>1, <2>2, <2>4 DEF WriteAt
  <1>2. CASE PublishWrite
    <2>1. op.lo \in Nat /\ op.hi \in Int /\ workLen \in Nat
      BY DEF TypeOK, NoLen
    <2>2. gen = 1 /\ ~state.committed => Span(op) \subseteq 0 .. workLen - 1
      BY <1>2, <2>1 DEF PublishWrite, Span
    <2> QED
      BY <1>2, <2>2 DEF PublishWrite
  <1>3. CASE Notify \/ Commit \/ RecordCommit \/ RaiseFlag
    BY <1>3 DEF Notify, Commit, RecordCommit, RaiseFlag
  <1>4. CASE PublishCommit
    <2>1. state'.committed
      BY <1>4 DEF PublishCommit, TypeOK
    <2> QED
      BY <2>1
  <1>5. CASE Reactivate \/ LowerFlag
    BY <1>5 DEF Reactivate, LowerFlag
  <1>6. CASE Reopen
    BY <1>6 DEF Reopen, TypeOK
  <1>7. CASE Fail
    <2>1. state'.committed = state.committed
      BY <1>7 DEF Fail, TypeOK
    <2> QED
      BY <1>7, <2>1 DEF Fail
  <1>8. CASE Abandon \/ DropHandle
    BY <1>8 DEF Abandon, DropHandle
  <1> QED
    BY <1>1, <1>2, <1>3, <1>4, <1>5, <1>6, <1>7, <1>8 DEF Writer

-----------------------------------------------------------------------------
(* Reading.                                                                *)

LEMMA ReadStep ==
  ASSUME TypeOK, DriverInv, ReadInv, Reader
  PROVE  ReadInv'
  <1> USE DEF driverVars, waitVars, ReadInv, UntornRead
  <1>1. (rPc' # "idle" => want' # NoOp)
    BY ReaderType
  <1>2. CASE ReadAt \/ ReadInto
    BY <1>1, <1>2 DEF ReadAt, ReadInto
  <1>3. CASE CommittedLen
    BY <1>1, <1>3 DEF CommittedLen
  <1>4. CASE ReadCommitted
    <2> DEFINE n == Smaller(want.hi, Len(snapshot))
               g == SubSeq(snapshot, want.lo + 1, n)
    <2>1. got' = g /\ want' = want /\ published' = published /\ rPc' = "idle"
      BY <1>4 DEF ReadCommitted, Loaded
    <2>2. g # <<>> => want.lo + Len(g) = n /\ n <= Len(snapshot)
      BY TakenType DEF TypeOK
    <2>3. g # <<>> => snapshot # <<>>
      <3>1. SUFFICES ASSUME snapshot = <<>> PROVE g = <<>>
        OBVIOUS
      <3>2. want.lo \in Nat /\ want.hi \in Nat
        BY DEF TypeOK, Spans, Bytes, NoOp
      <3>3. n = 0
        BY <3>1, <3>2 DEF Smaller
      <3> QED
        BY <3>2, <3>3, SubSeqEmpty
    <2>4. g # <<>> => g = SubSeq(snapshot, want.lo + 1, want.lo + Len(g))
      BY <2>2
    <2> HIDE DEF g, n
    <2> QED
      BY <2>1, <2>2, <2>3, <2>4 DEF DriverInv
  <1> QED
    BY <1>2, <1>3, <1>4 DEF Reader

LEMMA ReadKept ==
  ASSUME ReadInv, Writer \/ Waiting \/ Cancelling
  PROVE  ReadInv'
  <1>1. UNCHANGED readVars /\ published \subseteq published'
    <2>1. CASE Writer
      BY <2>1 DEF Writer, WriteAt, PublishWrite, Notify, Commit, RecordCommit, RaiseFlag,
        PublishCommit, Reactivate, LowerFlag, Reopen, Fail, Abandon, DropHandle
    <2>2. CASE Waiting \/ Cancelling
      BY <2>2 DEF Waiting, WaitRange, Check, Park, Cancelling, Cancel, WakeWaiters
    <2> QED
      BY <2>1, <2>2
  <1> QED
    BY <1>1 DEF ReadInv, UntornRead, readVars

-----------------------------------------------------------------------------
(* The gate.  Only a notification moves a parked waiter, and only a        *)
(* notification ends the announcement of a change.                         *)

(* What decides a wait is unchanged, or changed under the free lock and    *)
(* the change is announced. *)
Announced ==
  \/ UNCHANGED <<available, state>> /\ (wPc = "notify" => wPc' = "notify")
  \/ Unlocked /\ wPc' = "notify"

(* A step of the owner that is not its notification. *)
LEMMA OwnerQuiet ==
  ASSUME Writer, ~Notify
  PROVE  Announced /\ UNCHANGED <<waitVars, cancelled, calling>>
  BY DEF Writer, WriteAt, PublishWrite, Commit, RecordCommit, RaiseFlag, PublishCommit,
    Reactivate, LowerFlag, Reopen, Fail, Abandon, DropHandle, Announced

LEMMA GateQuiet ==
  ASSUME TypeOK, GateInv, NoLostWake, Announced, UNCHANGED <<waitVars, cancelled, calling>>
  PROVE  GateInv' /\ NoLostWake'
  <1> USE StorageAssumption DEF waitVars
  <1>1. CASE UNCHANGED <<available, state>> /\ (wPc = "notify" => wPc' = "notify")
    <2>1. \A w \in Waiters : Verdict(range[w], w)' = Verdict(range[w], w)
      BY <1>1 DEF Verdict, Span
    <2> QED
      BY <1>1, <2>1 DEF GateInv, NoLostWake
  <1>2. CASE Unlocked /\ wPc' = "notify"
    <2>1. \A w \in Waiters : pc[w] # "parking"
      BY <1>2 DEF GateInv, Unlocked, Nobody
    <2> QED
      BY <1>2, <2>1 DEF GateInv, NoLostWake
  <1> QED
    BY <1>1, <1>2 DEF Announced

(* A notification leaves nobody parked. *)
LEMMA GateNotify ==
  ASSUME TypeOK, GateInv, NotifyAll, UNCHANGED <<range, holder, available, state, cancelled>>,
         calling' = calling \/ Unlocked
  PROVE  GateInv' /\ NoLostWake'
  <1> USE StorageAssumption
  <1>1. \A w \in Waiters : pc'[w] # "parked" /\ (pc'[w] = "parking" <=> pc[w] = "parking")
    BY DEF NotifyAll, TypeOK
  <1>2. \A w \in Waiters : Verdict(range[w], w)' = Verdict(range[w], w)
    BY DEF Verdict, Span
  <1>3. \A w \in Waiters : Unlocked => pc[w] # "parking"
    BY DEF GateInv, Unlocked, Nobody
  <1> QED
    BY <1>1, <1>2, <1>3 DEF GateInv, NoLostWake

(* A cancel is announced by its callbacks. *)
LEMMA GateCancel ==
  ASSUME TypeOK, GateInv, NoLostWake, NEW k \in Tokens, Cancel(k)
  PROVE  GateInv' /\ NoLostWake'
  <1>1. calling' # {}
    BY DEF Cancel
  <1>2. UNCHANGED <<pc, holder>>
    BY DEF Cancel, waitVars
  <1> QED
    BY <1>1, <1>2 DEF GateInv, NoLostWake

LEMMA GateWaiting ==
  ASSUME TypeOK, GateInv, NoLostWake, NEW w \in Waiters,
         WaitRange(w) \/ Check(w) \/ Park(w)
  PROVE  GateInv' /\ NoLostWake'
  <1> USE StorageAssumption
  <1>0. UNCHANGED <<available, state, wPc, calling>> /\ cancelled' \subseteq cancelled
    BY DEF WaitRange, Check, Park
  <1>1. \A v \in Waiters : range'[v] = range[v] /\ Verdict(range[v], v) = "Wait" =>
          (Verdict(range[v], v) = "Wait")'
    <2> SUFFICES ASSUME NEW v \in Waiters, range'[v] = range[v],
                        Verdict(range[v], v) = "Wait"
                 PROVE  (Verdict(range[v], v) = "Wait")'
      OBVIOUS
    <2>1. /\ Owner \notin cancelled /\ v \notin cancelled
          /\ ~state.failed /\ ~state.committed /\ ~(Span(range[v]) \subseteq available)
      BY WaitVerdict
    <2>2. /\ Owner \notin cancelled' /\ v \notin cancelled'
          /\ ~state'.failed /\ ~state'.committed /\ ~(Span(range'[v]) \subseteq available')
      BY <1>0, <2>1
    <2>3. {Owner, v} \cap cancelled' = {}
      BY <2>2
    <2> QED
      BY <2>2, <2>3 DEF Verdict, Span
  <1>2. CASE WaitRange(w)
    <2>1. /\ pc'[w] = "check" /\ pc[w] = "idle" /\ UNCHANGED holder
          /\ \A v \in Waiters \ {w} : pc'[v] = pc[v] /\ range'[v] = range[v]
      BY <1>2 DEF WaitRange, TypeOK
    <2> QED
      BY <1>0, <1>1, <2>1 DEF GateInv, NoLostWake
  <1>3. CASE Check(w)
    <2>1. /\ pc[w] = "check" /\ Unlocked
          /\ \A v \in Waiters \ {w} : pc'[v] = pc[v] /\ range'[v] = range[v]
      BY <1>3 DEF Check, TypeOK
    <2>2. \A v \in Waiters : pc[v] # "parking"
      BY <2>1 DEF GateInv, Unlocked, Nobody
    <2>3. \/ pc'[w] = "idle" /\ UNCHANGED holder
          \/ /\ pc'[w] = "parking" /\ holder' = w
             /\ range'[w] = range[w] /\ Verdict(range[w], w) = "Wait"
      BY <1>3 DEF Check, TypeOK
    <2>4. holder = Nobody
      BY <2>1 DEF Unlocked
    <2>5. GateInv'
      BY <1>0, <1>1, <2>1, <2>2, <2>3, <2>4 DEF GateInv, Nobody
    <2>6. NoLostWake'
      BY <1>0, <1>1, <2>1, <2>3 DEF NoLostWake
    <2> QED
      BY <2>5, <2>6
  <1>4. CASE Park(w)
    <2>1. /\ pc[w] = "parking" /\ pc'[w] = "parked" /\ holder' = Nobody
          /\ \A v \in Waiters : range'[v] = range[v]
          /\ \A v \in Waiters \ {w} : pc'[v] = pc[v]
      BY <1>4 DEF Park, TypeOK
    <2>2. holder = w
      BY <2>1 DEF GateInv
    <2>3. GateInv'
      BY <2>1, <2>2 DEF GateInv, Nobody
    <2>4. NoLostWake'
      BY <1>0, <1>1, <2>1 DEF GateInv, NoLostWake
    <2> QED
      BY <2>3, <2>4
  <1> QED
    BY <1>2, <1>3, <1>4

-----------------------------------------------------------------------------
LEMMA StepIInv == IInv /\ [Next]_vars => IInv'
  <1> SUFFICES ASSUME IInv, [Next]_vars PROVE IInv'
    OBVIOUS
  <1> USE DEF IInv
  <1>1. CASE Writer
    <2>1. TypeOK'
      BY <1>1, WriterType
    <2>2. PhaseInv' /\ DriverInv' /\ RecordInv' /\ AnnounceInv'
      BY <1>1, PhaseStep, DriverStep, RecordStep, AnnounceStep
    <2>3. ReadInv'
      BY <1>1, ReadKept
    <2>4. GateInv' /\ NoLostWake'
      <3>1. CASE Notify
        BY <3>1, GateNotify DEF Notify
      <3>2. CASE ~Notify
        BY <1>1, <3>2, OwnerQuiet, GateQuiet
      <3> QED
        BY <3>1, <3>2
    <2> QED
      BY <2>1, <2>2, <2>3, <2>4
  <1>2. ASSUME Waiting \/ Cancelling \/ Reader
        PROVE  PhaseInv' /\ DriverInv' /\ RecordInv' /\ AnnounceInv'
    <2>1. UNCHANGED ownerVars
      BY <1>2, OthersFrame
    <2>2. PhaseInv' /\ DriverInv'
      BY <2>1 DEF ownerVars, driverVars, PhaseInv, DriverInv
    <2>3. RecordInv' /\ AnnounceInv'
      BY <2>1 DEF ownerVars, driverVars, RecordInv, RecordedBeforeCommitted, AnnounceInv
    <2> QED
      BY <2>2, <2>3
  <1>3. CASE Waiting
    <2>1. TypeOK' /\ GateInv' /\ NoLostWake'
      BY <1>3, WaitingType, GateWaiting DEF Waiting
    <2>2. ReadInv'
      BY <1>3, ReadKept
    <2> QED
      BY <1>2, <1>3, <2>1, <2>2
  <1>4. CASE Cancelling
    <2>1. PICK k \in Tokens : Cancel(k) \/ WakeWaiters(k)
      BY <1>4 DEF Cancelling
    <2>2. TypeOK'
      BY <2>1, CancelType
    <2>3. GateInv' /\ NoLostWake'
      <3>1. CASE Cancel(k)
        BY <3>1, GateCancel
      <3>2. CASE WakeWaiters(k)
        BY <3>2, GateNotify DEF WakeWaiters
      <3> QED
        BY <2>1, <3>1, <3>2
    <2>4. ReadInv'
      BY <1>4, ReadKept
    <2> QED
      BY <1>2, <1>4, <2>2, <2>3, <2>4
  <1>5. CASE Reader
    <2>1. TypeOK' /\ ReadInv'
      BY <1>5, ReaderType, ReadStep DEF ReadInv
    <2>2. UNCHANGED <<waitVars, cancelled, calling>> /\ UNCHANGED ownerVars
      BY <1>5, OthersFrame DEF Reader, ReadAt, ReadInto, CommittedLen, ReadCommitted
    <2>3. GateInv' /\ NoLostWake'
      BY <2>2, GateQuiet DEF Announced, ownerVars
    <2> QED
      BY <1>2, <1>5, <2>1, <2>3
  <1>6. CASE UNCHANGED vars
    <2> USE <1>6 DEF vars, driverVars, waitVars, readVars
    <2>1. TypeOK'
      BY DEF TypeOK
    <2>2. PhaseInv' /\ DriverInv' /\ RecordInv' /\ AnnounceInv'
      BY DEF PhaseInv, DriverInv, RecordInv, RecordedBeforeCommitted, AnnounceInv
    <2>3. ReadInv'
      BY DEF ReadInv, UntornRead
    <2>4. GateInv' /\ NoLostWake'
      BY GateQuiet DEF Announced
    <2> QED
      BY <2>1, <2>2, <2>3, <2>4
  <1> QED
    BY <1>1, <1>3, <1>4, <1>5, <1>6 DEF Next

(* Bytes told Ready are readable, since what is announced is written. *)
LEMMA ReadyIsReadable ==
  ASSUME TypeOK, PhaseInv, AnnounceInv
  PROVE  AnnouncedIsReadable
  <1> USE StorageAssumption
  <1> SUFFICES ASSUME gen = 1, wPc \in {"idle", "wrote", "notify"}, ~state.committed,
                      NEW s \in Spans, Verdict(s, Owner) = "Ready"
               PROVE  Readable(s.hi - 1)
    BY DEF AnnouncedIsReadable
  <1>1. Span(s) \subseteq available
    BY DEF Verdict
  <1>2. s.hi - 1 \in Span(s)
    BY DEF Span, Spans, Bytes
  <1>3. available \subseteq 0 .. workLen - 1 /\ snapshot = <<>> /\ state.finalLen = NoLen
    BY DEF AnnounceInv, PhaseInv
  <1>4. s.hi - 1 < workLen
    <2>1. workLen \in Int
      BY DEF TypeOK
    <2>2. s.hi - 1 \in 0 .. workLen - 1
      BY <1>1, <1>2, <1>3
    <2> QED
      BY <2>1, <2>2 DEF Spans
  <1> QED
    BY <1>3, <1>4 DEF Readable

(* The inductive invariant holds throughout. *)
THEOREM StorageInvariant == Spec => []IInv
  BY InitIInv, StepIInv, PTL DEF Spec

(* Every variable keeps its type; in particular a commit never publishes   *)
(* past the working buffer and a read never asks past a snapshot's bound.  *)
THEOREM StorageTypes == Spec => []TypeOK
  <1>1. IInv => TypeOK
    BY DEF IInv
  <1> QED
    BY <1>1, StorageInvariant, PTL

(* No lost wake-up in wait_range: a waiter that could return is never left *)
(* parked without somebody who is still to notify it.                      *)
THEOREM StorageNoLostWake == Spec => []NoLostWake
  <1>1. IInv => NoLostWake
    BY DEF IInv
  <1> QED
    BY <1>1, StorageInvariant, PTL

(* A lock-free read is never torn by a reactivation, rewrite and commit    *)
(* that overtake it: its bytes lie in one published snapshot.              *)
THEOREM StorageUntornRead == Spec => []UntornRead
  <1>1. IInv => UntornRead
    BY DEF IInv, ReadInv
  <1> QED
    BY <1>1, StorageInvariant, PTL

(* What write_at_inner announces is in the driver, and what commit_inner   *)
(* makes visible is on the observer's record.                              *)
THEOREM StoragePublishedIsDone == Spec => []PublishedIsDone
  <1>1. IInv => PublishedIsDone
    BY ReadyIsReadable DEF IInv, RecordInv, PublishedIsDone
  <1> QED
    BY <1>1, StorageInvariant, PTL
=============================================================================
