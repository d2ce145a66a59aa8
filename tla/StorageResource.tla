--------------------------- MODULE StorageResource ---------------------------
(***************************************************************************)
(* A storage resource of kithara-storage over its in-memory driver: one    *)
(* writer handle, readers that block in wait_range on the resource's       *)
(* condition variable, readers that read without a lock, and two kinds of  *)
(* cancellation (of the resource and of one wait).                         *)
(*                                                                         *)
(* The threads interleave wherever the code holds no common lock: a writer *)
(* changes the driver, the observer's record, the lock-free flag and the   *)
(* gated state in separate steps, and notifies after it has unlocked.      *)
(*                                                                         *)
(* Data kept: offsets, lengths, and for every byte the generation of the   *)
(* writer that wrote it.                                                   *)
(***************************************************************************)
EXTENDS Integers, Sequences, FiniteSets

CONSTANTS
  Waiters,  \* threads that block in wait_range
  MaxLen,   \* bound: bytes of the resource
  MaxGen    \* bound: writer generations

ASSUME StorageAssumption ==
  /\ IsFiniteSet(Waiters) /\ "nobody" \notin Waiters
  /\ MaxLen \in Nat \ {0}
  /\ MaxGen \in Nat \ {0}

VARIABLES
  phase,      \* the owning handle: "active", "committed" or "gone"
  gen,        \* generation of the writer
  wPc,        \* where the owner's thread is
  op,         \* operand of the owner's call: a range [lo, hi) or a length
  snapshot,   \* MemDriver: published bytes, <<>> when none is published
  work,       \* MemState: working buffer
  workLen,    \* MemState: logical length
  recorded,   \* the observer's last on_commit: <<generation, length>>
  flag,       \* Inner::committed, the lock-free flag
  available,  \* Inner::available
  state,      \* CommonState: committed, finalLen, failed
  stamp,      \* Inner::stamp_on_drop
  cancelled,  \* tokens cancelled: the resource's or a waiter's
  calling,    \* tokens whose cancel callbacks are still to run
  pc,         \* where each waiter is: "idle", "check", "parking" or "parked"
  range,      \* the range each waiter waits for
  holder,     \* the waiter inside the gate's lock, or Nobody
  rPc,        \* where the lock-free reader is: "idle", "len" or "read"
  want,       \* the span it reads
  got,        \* the bytes its last read of a snapshot returned
  published   \* history: every snapshot the driver published

driverVars == <<snapshot, work, workLen>>
waitVars == <<pc, range, holder>>
readVars == <<rPc, want, got>>
vars == <<phase, gen, wPc, op, driverVars, recorded, flag, available, state, stamp,
          cancelled, calling, waitVars, readVars, published>>

NoLen == -1
Nobody == "nobody"
Owner == "resource"
Tokens == Waiters \cup {Owner}
Bytes == 0 .. MaxLen - 1
Spans == {s \in [lo : Bytes, hi : 1 .. MaxLen] : s.lo < s.hi}
NoOp == [lo |-> 0, hi |-> 0]
Span(s) == s.lo .. s.hi - 1
Smaller(a, b) == IF a < b THEN a ELSE b

Unlocked == holder = Nobody
NotifyAll == pc' = [w \in Waiters |-> IF pc[w] = "parked" THEN "check" ELSE pc[w]]
Healthy == Owner \notin cancelled /\ ~state.failed

-----------------------------------------------------------------------------
(* The writer.  An erroneous call changes nothing and is left out: a       *)
(* commit that fails consumes the writer, which is DropHandle.             *)

Written(s) ==
  [i \in 1 .. (IF Len(work) < s.hi THEN s.hi ELSE Len(work)) |->
     IF i - 1 \in Span(s) THEN gen ELSE IF i <= Len(work) THEN work[i] ELSE 0]

(* Variant of WriteAt: availability is published ahead of the bytes.       *)
WriteAnnounced ==
  /\ phase = "active" /\ wPc = "idle" /\ Healthy
  /\ \E s \in Spans : op' = s /\ available' = available \cup Span(s)
  /\ wPc' = "notify"
  /\ UNCHANGED <<phase, gen, driverVars, recorded, flag, state, stamp, cancelled,
                 calling, waitVars, readVars, published>>

WriteAt ==
  /\ phase = "active" /\ wPc = "idle" /\ Healthy
  /\ \E s \in Spans :
       /\ op' = s
       /\ work' = Written(s)
       /\ workLen' = IF workLen < s.hi THEN s.hi ELSE workLen
  /\ wPc' = "wrote"
  /\ UNCHANGED <<phase, gen, snapshot, recorded, flag, available, state, stamp, cancelled,
                 calling, waitVars, readVars, published>>

PublishWrite ==
  /\ wPc = "wrote" /\ Unlocked
  /\ available' = available \cup Span(op)
  /\ wPc' = "notify"
  /\ UNCHANGED <<phase, gen, op, driverVars, recorded, flag, state, stamp, cancelled,
                 calling, waitVars, readVars, published>>

(* Every change of the gated state is followed by a notification.          *)
(* (The observer's on_write, which only feeds an index, comes after it.)   *)
Notify ==
  /\ wPc = "notify"
  /\ NotifyAll
  /\ wPc' = "idle"
  /\ op' = NoOp
  /\ UNCHANGED <<phase, gen, driverVars, recorded, flag, available, state, stamp, cancelled,
                 calling, range, holder, readVars, published>>

(* commit_inner: the driver publishes its snapshot and frees its buffer,   *)
(* the observer records, readiness is published.  Its callers commit what  *)
(* they wrote, less than that (a segment decrypted in place loses its      *)
(* padding), or no length at all.                                          *)
Commit ==
  /\ phase = "active" /\ wPc = "idle" /\ Healthy
  /\ \E len \in {NoLen} \cup 0 .. workLen :
       LET end == IF len = NoLen THEN workLen ELSE Smaller(len, workLen) IN
         /\ op' = [lo |-> 0, hi |-> len]
         /\ snapshot' = SubSeq(work, 1, end)
         /\ published' = published \cup {snapshot'}
         /\ workLen' = end
  /\ work' = <<>>
  /\ wPc' = "record"
  /\ UNCHANGED <<phase, gen, recorded, flag, available, state, stamp, cancelled, calling,
                 waitVars, readVars>>

(* Variant of RecordCommit: the record waits for the publication.          *)
RecordLater ==
  /\ wPc = "record"
  /\ wPc' = "flag"
  /\ UNCHANGED <<phase, gen, op, driverVars, recorded, flag, available, state, stamp,
                 cancelled, calling, waitVars, readVars, published>>
RecordCommit ==
  /\ wPc = "record"
  /\ recorded' = IF op.hi = NoLen THEN recorded ELSE <<gen, op.hi>>
  /\ wPc' = "flag"
  /\ UNCHANGED <<phase, gen, op, driverVars, flag, available, state, stamp, cancelled,
                 calling, waitVars, readVars, published>>

RaiseFlag ==
  /\ wPc = "flag"
  /\ flag' = TRUE
  /\ wPc' = "publish"
  /\ UNCHANGED <<phase, gen, op, driverVars, recorded, available, state, stamp, cancelled,
                 calling, waitVars, readVars, published>>

PublishCommit ==
  /\ wPc = "publish" /\ Unlocked
  /\ state' = [state EXCEPT !.committed = TRUE, !.finalLen = op.hi]
  /\ available' = available \cup Span(op)
  /\ phase' = "committed"
  /\ wPc' = "notify"
  /\ UNCHANGED <<gen, op, driverVars, recorded, flag, stamp, cancelled, calling, waitVars,
                 readVars, published>>

(* A committed handle reopens the resource for a new generation.           *)
Reactivate ==
  /\ phase = "committed" /\ wPc = "idle"
  /\ Owner \notin cancelled
  /\ gen < MaxGen
  /\ IF snapshot = <<>> THEN UNCHANGED <<work, workLen>>
       ELSE work' = snapshot /\ workLen' = Len(snapshot)
  /\ wPc' = "lower"
  /\ UNCHANGED <<phase, gen, op, snapshot, recorded, flag, available, state, stamp,
                 cancelled, calling, waitVars, readVars, published>>

LowerFlag ==
  /\ wPc = "lower"
  /\ flag' = FALSE
  /\ stamp' = TRUE
  /\ wPc' = "reopen"
  /\ UNCHANGED <<phase, gen, op, driverVars, recorded, available, state, cancelled, calling,
                 waitVars, readVars, published>>

Reopen ==
  /\ wPc = "reopen" /\ Unlocked
  /\ state' = [committed |-> FALSE, finalLen |-> NoLen, failed |-> FALSE]
  /\ phase' = "active"
  /\ gen' = gen + 1
  /\ wPc' = "notify"
  /\ UNCHANGED <<op, driverVars, recorded, flag, available, stamp, cancelled, calling,
                 waitVars, readVars, published>>

(* fail, on its own or from the drop of an uncommitted writer.             *)
Fail ==
  /\ phase = "active"
  /\ wPc = "stamp" \/ wPc = "idle"
  /\ Unlocked
  /\ state' = [state EXCEPT !.failed = TRUE]
  /\ phase' = "gone"
  /\ wPc' = "notify"
  /\ UNCHANGED <<gen, op, driverVars, recorded, flag, available, stamp, cancelled, calling,
                 waitVars, readVars, published>>

Abandon ==
  /\ phase = "active" /\ wPc = "idle"
  /\ stamp' = FALSE
  /\ UNCHANGED <<phase, gen, wPc, op, driverVars, recorded, flag, available, state,
                 cancelled, calling, waitVars, readVars, published>>

(* Variant of ShouldFailOnDrop: a drop leaves the core as it is.           *)
NeverFailOnDrop == FALSE
ShouldFailOnDrop ==
  Owner \notin cancelled /\ stamp /\ ~state.committed /\ ~state.failed

DropHandle ==
  /\ phase # "gone" /\ wPc = "idle" /\ Unlocked
  /\ \/ /\ phase = "active" /\ ShouldFailOnDrop
        /\ wPc' = "stamp"
        /\ UNCHANGED phase
     \/ /\ phase = "committed" \/ ~ShouldFailOnDrop
        /\ phase' = "gone"
        /\ UNCHANGED wPc
  /\ UNCHANGED <<gen, op, driverVars, recorded, flag, available, state, stamp, cancelled,
                 calling, waitVars, readVars, published>>

Writer == WriteAt \/ PublishWrite \/ Notify \/ Commit \/ RecordCommit \/ RaiseFlag
            \/ PublishCommit \/ Reactivate \/ LowerFlag \/ Reopen \/ Fail \/ Abandon
            \/ DropHandle

-----------------------------------------------------------------------------
(* Waiting for a range.                                                    *)

Verdict(s, w) ==
  CASE {Owner, w} \cap cancelled # {} -> "Cancelled"
    [] {Owner, w} \cap cancelled = {} /\ state.failed -> "Failed"
    [] OTHER ->
         IF Span(s) \subseteq available THEN "Ready"
         ELSE IF ~state.committed THEN "Wait"
         ELSE IF s.lo >= (IF state.finalLen = NoLen THEN 0 ELSE state.finalLen)
              THEN "Eof" ELSE "Ready"

(* A wait registers its cancel callbacks before its first look.            *)
WaitRange(w) ==
  /\ pc[w] = "idle" /\ w \notin calling
  /\ \E s \in Spans : range' = [range EXCEPT ![w] = s]
  /\ cancelled' = cancelled \ {w}          \* a fresh token
  /\ pc' = [pc EXCEPT ![w] = "check"]
  /\ UNCHANGED <<phase, gen, wPc, op, driverVars, recorded, flag, available, state, stamp,
                 calling, holder, readVars, published>>

(* The lock is held from the look to the park.                             *)
Check(w) ==
  /\ pc[w] = "check" /\ Unlocked
  /\ \/ /\ Verdict(range[w], w) # "Wait"
        /\ pc' = [pc EXCEPT ![w] = "idle"]
        /\ range' = [range EXCEPT ![w] = NoOp]
        /\ UNCHANGED holder
     \/ /\ Verdict(range[w], w) = "Wait"
        /\ pc' = [pc EXCEPT ![w] = "parking"]
        /\ holder' = w
        /\ UNCHANGED range
  /\ UNCHANGED <<phase, gen, wPc, op, driverVars, recorded, flag, available, state, stamp,
                 cancelled, calling, readVars, published>>

Park(w) ==
  /\ pc[w] = "parking"
  /\ pc' = [pc EXCEPT ![w] = "parked"]
  /\ holder' = Nobody
  /\ UNCHANGED <<phase, gen, wPc, op, driverVars, recorded, flag, available, state, stamp,
                 cancelled, calling, range, readVars, published>>

(* CancelToken::cancel sets the token, then runs the callbacks, and each   *)
(* takes the gate's lock before it notifies.                               *)
Cancel(k) ==
  /\ k \notin cancelled
  /\ k \in {Owner} \cup {w \in Waiters : pc[w] # "idle"}
  /\ cancelled' = cancelled \cup {k}
  /\ calling' = calling \cup {k}
  /\ UNCHANGED <<phase, gen, wPc, op, driverVars, recorded, flag, available, state, stamp,
                 waitVars, readVars, published>>

(* Variant of WakeWaiters: the notification does not take the lock.        *)
WakeUnlocked(k) ==
  /\ k \in calling
  /\ NotifyAll
  /\ calling' = calling \ {k}
  /\ UNCHANGED <<phase, gen, wPc, op, driverVars, recorded, flag, available, state, stamp,
                 cancelled, range, holder, readVars, published>>
WakeWaiters(k) ==
  /\ k \in calling /\ Unlocked
  /\ NotifyAll
  /\ calling' = calling \ {k}
  /\ UNCHANGED <<phase, gen, wPc, op, driverVars, recorded, flag, available, state, stamp,
                 cancelled, range, holder, readVars, published>>

-----------------------------------------------------------------------------
(* Reading without a lock.  Where no snapshot is published the read takes  *)
(* the locked path over the working buffer; its bytes are not kept.        *)

LenInner == IF flag /\ snapshot # <<>> THEN Len(snapshot) ELSE state.finalLen

ReadAt ==
  /\ rPc = "idle"
  /\ want' \in Spans
  /\ got' = <<>>
  /\ rPc' = "len"
  /\ UNCHANGED <<phase, gen, wPc, op, driverVars, recorded, flag, available, state, stamp,
                 cancelled, calling, waitVars, published>>

ReadInto ==
  /\ rPc = "idle"
  /\ LenInner > 0
  /\ want' = [lo |-> 0, hi |-> LenInner]
  /\ got' = <<>>
  /\ rPc' = "len"
  /\ UNCHANGED <<phase, gen, wPc, op, driverVars, recorded, flag, available, state, stamp,
                 cancelled, calling, waitVars, published>>

CommittedLen ==
  /\ rPc = "len"
  /\ \/ /\ snapshot # <<>> /\ Owner \notin cancelled /\ want.lo < Len(snapshot)
        /\ want' = [want EXCEPT !.hi = Smaller(@, Len(snapshot))]
        /\ rPc' = "read"
     \/ /\ snapshot = <<>> \/ Owner \in cancelled \/ want.lo >= Len(snapshot)
        /\ want' = NoOp
        /\ rPc' = "idle"
  /\ UNCHANGED <<phase, gen, wPc, op, driverVars, recorded, flag, available, state, stamp,
                 cancelled, calling, waitVars, got, published>>

(* Variant of Loaded: the bytes come from the buffer being rewritten.      *)
LoadedWorking == IF work = <<>> THEN snapshot ELSE work
Loaded == snapshot

ReadCommitted ==
  /\ rPc = "read"
  /\ got' = SubSeq(Loaded, want.lo + 1, Smaller(want.hi, Len(Loaded)))
  /\ rPc' = "idle"
  /\ UNCHANGED <<phase, gen, wPc, op, driverVars, recorded, flag, available, state, stamp,
                 cancelled, calling, waitVars, want, published>>

Reader == ReadAt \/ ReadInto \/ CommittedLen \/ ReadCommitted

-----------------------------------------------------------------------------
Init ==
  /\ phase = "active" /\ gen = 1 /\ wPc = "idle" /\ op = NoOp
  /\ snapshot = <<>> /\ work = <<>> /\ workLen = 0
  /\ recorded = <<0, NoLen>>
  /\ flag = FALSE /\ available = {}
  /\ state = [committed |-> FALSE, finalLen |-> NoLen, failed |-> FALSE]
  /\ stamp = TRUE
  /\ cancelled = {} /\ calling = {}
  /\ pc = [w \in Waiters |-> "idle"]
  /\ range = [w \in Waiters |-> NoOp]
  /\ holder = Nobody
  /\ rPc = "idle" /\ want = NoOp /\ got = <<>>
  /\ published = {}

Waiting == \E w \in Waiters : WaitRange(w) \/ Check(w) \/ Park(w)
Cancelling == \E k \in Tokens : Cancel(k) \/ WakeWaiters(k)
Next == Writer \/ Waiting \/ Cancelling \/ Reader
Spec == Init /\ [][Next]_vars

(* Every thread inside a call goes on; no new call is owed.                *)
Finishing == PublishWrite \/ Notify \/ RecordCommit \/ RaiseFlag \/ PublishCommit
               \/ LowerFlag \/ Reopen \/ (wPc = "stamp" /\ Fail)
FairSpec ==
  /\ Spec
  /\ WF_vars(Finishing)
  /\ \A w \in Waiters : SF_vars(Check(w)) /\ WF_vars(Park(w))
  /\ \A k \in Tokens : SF_vars(WakeWaiters(k))

-----------------------------------------------------------------------------
(* Properties.                                                             *)

(* Every variable stays within its type.                                   *)
TypeOK ==
  /\ phase \in {"active", "committed", "gone"}
  /\ gen \in 1 .. MaxGen
  /\ wPc \in {"idle", "wrote", "notify", "record", "flag", "publish", "lower", "reopen",
               "stamp"}
  /\ op \in [lo : 0 .. MaxLen, hi : NoLen .. MaxLen]
  /\ snapshot \in Seq(0 .. MaxGen) /\ Len(snapshot) <= MaxLen
  /\ work \in Seq(0 .. MaxGen) /\ Len(work) <= MaxLen
  /\ workLen \in 0 .. MaxLen
  /\ recorded \in (0 .. MaxGen) \X (NoLen .. MaxLen)
  /\ flag \in BOOLEAN /\ stamp \in BOOLEAN
  /\ available \subseteq Bytes
  /\ state \in [committed : BOOLEAN, finalLen : NoLen .. MaxLen, failed : BOOLEAN]
  /\ cancelled \subseteq Tokens /\ calling \subseteq cancelled
  /\ pc \in [Waiters -> {"idle", "check", "parking", "parked"}]
  /\ range \in [Waiters -> Spans \cup {NoOp}]
  /\ holder \in Waiters \cup {Nobody}
  /\ rPc \in {"idle", "len", "read"}
  /\ want \in Spans \cup {NoOp}
  /\ got \in Seq(0 .. MaxGen)
  /\ published \subseteq Seq(0 .. MaxGen)

(* No lost wake-up: a waiter is parked only while its wait has no verdict, *)
(* or while some thread is still to notify (wake_waiters takes the lock    *)
(* because a token is set outside it).                                     *)
NoLostWake ==
  \A w \in Waiters :
    pc[w] = "parked" => Verdict(range[w], w) = "Wait" \/ wPc = "notify" \/ calling # {}

(* Whoever sees Committed with a length finds the observer's record of     *)
(* this generation made: a cache may evict on that status.                 *)
RecordedBeforeCommitted ==
  state.committed /\ state.finalLen # NoLen /\ wPc \in {"idle", "notify"} =>
    recorded = <<gen, state.finalLen>>

(* What a read of a published resource returns lies in one published       *)
(* snapshot: a concurrent reactivate, rewrite and commit never tears it.   *)
UntornRead ==
  got # <<>> =>
    \E p \in published :
      /\ want.lo + Len(got) <= Len(p)
      /\ got = SubSeq(p, want.lo + 1, want.lo + Len(got))

(* Bytes a read at this offset would return now.                           *)
Readable(at) ==
  IF snapshot # <<>> THEN at < Len(snapshot)
  ELSE at < (IF state.finalLen = NoLen THEN workLen ELSE Smaller(state.finalLen, workLen))

(* WaitOutcome::Ready, "The requested range is available for reading",     *)
(* while the first writer is at work: a write is announced after its bytes *)
(* are in the driver (write_at_inner), so whoever is told Ready reads      *)
(* bytes.  (A commit shorter than what was written leaves its tail         *)
(* announced: publish_commit only adds to available.)                      *)
AnnouncedIsReadable ==
  gen = 1 /\ wPc \in {"idle", "wrote", "notify"} /\ ~state.committed =>
    \A s \in Spans : Verdict(s, Owner) = "Ready" => Readable(s.hi - 1)

(* What other threads can see has happened: bytes that are announced are   *)
(* in the driver, and a commit that is visible is on record.               *)
PublishedIsDone == AnnouncedIsReadable /\ RecordedBeforeCommitted

(* The anti-hang stamp: once its writer is gone, committed, failed or      *)
(* dropped but not abandoned, nobody stays parked in wait_range.           *)
WaitersReleased ==
  \A w \in Waiters : (pc[w] = "parked" /\ phase = "gone" /\ stamp) ~> pc[w] = "idle"
=============================================================================
