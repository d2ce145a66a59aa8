------------------------------- MODULE Mailbox -------------------------------
(***************************************************************************)
(* The mailbox of kithara-command: any number of postboxes queue commands  *)
(* for one owner, whichever executor holds the owner drains and runs them, *)
(* and each poster reads the answer from its own ticket.                   *)
(*                                                                         *)
(* The queue, its holder and the numbering sit behind one mutex, so every  *)
(* critical section is one step.  A poster clones the holder's waker under *)
(* the lock and calls it after the unlock: the owner may have changed      *)
(* hands, or be gone, by then.  A post is known by its number.             *)
(***************************************************************************)
EXTENDS Naturals, Sequences

CONSTANTS
  Posters,    \* threads that post
  Executors,  \* executors the owner may be handed to
  MaxPosts    \* bound: posts taken in a behaviour

ASSUME MailboxAssumption ==
  MaxPosts \in Nat /\ {"none", "nobody", "gone"} \cap Executors = {}

VARIABLES
  holder,    \* State::holder: "nobody", an executor, or "gone"
  posts,     \* State::posts, by number
  next,      \* State::next
  waking,    \* the waker a poster cloned and has not called yet
  woken,     \* executors whose waker was called since they last looked
  phase,     \* the owner's executor: "free", "drain", "run", "asleep", "gone"
  drained,   \* posts the executor took and has not answered
  discarded, \* posts taken by the mailbox's drop and not dropped yet
  answer,    \* what the answer channel of each post holds
  ticket,    \* "none", "held", "given up", or the answer read from it
  ran        \* history: numbers of the posts drained, in order

vars == <<holder, posts, next, waking, woken, phase, drained, discarded,
          answer, ticket, ran>>

Nums == 1 .. MaxPosts
Outcomes == {"applied", "refused", "unanswered"}

-----------------------------------------------------------------------------
(* Postbox and Ticket.                                                     *)

(* The waker of the holder found under the lock. *)
HolderWaker == IF holder \in Executors THEN holder ELSE "none"

(* PostError: nothing is queued and no ticket made, so nothing changes.     *)
(* Variant of Post: a post is queued in front of the waiting ones.          *)
PostInFront(p) ==
  /\ waking[p] = "none"
  /\ holder # "gone"
  /\ next <= MaxPosts
  /\ posts' = <<next>> \o posts
  /\ next' = next + 1
  /\ answer' = [answer EXCEPT ![next] = "waiting"]
  /\ ticket' = [ticket EXCEPT ![next] = "held"]
  /\ waking' = [waking EXCEPT ![p] = HolderWaker]
  /\ UNCHANGED <<holder, woken, phase, drained, discarded, ran>>
Post(p) ==
  /\ waking[p] = "none"
  /\ holder # "gone"
  /\ next <= MaxPosts
  /\ posts' = Append(posts, next)
  /\ next' = next + 1
  /\ answer' = [answer EXCEPT ![next] = "waiting"]
  /\ ticket' = [ticket EXCEPT ![next] = "held"]
  /\ waking' = [waking EXCEPT ![p] = HolderWaker]
  /\ UNCHANGED <<holder, woken, phase, drained, discarded, ran>>

(* The wake after the unlock, of the waker cloned under the lock. *)
CallWaker(p) ==
  /\ waking[p] # "none"
  /\ woken' = woken \cup {waking[p]}
  /\ waking' = [waking EXCEPT ![p] = "none"]
  /\ UNCHANGED <<holder, posts, next, phase, drained, discarded, answer, ticket, ran>>

(* Ticket::wait_until with an answer there.  A deadline that expires first *)
(* hands the ticket back intact and changes nothing.                       *)
Read(n) ==
  /\ ticket[n] = "held"
  /\ answer[n] # "waiting"
  /\ ticket' = [ticket EXCEPT ![n] = answer[n]]
  /\ UNCHANGED <<holder, posts, next, waking, woken, phase, drained, discarded, answer, ran>>

(* Dropping the ticket gives up the answer; the post stays queued. *)
GiveUp(n) ==
  /\ ticket[n] = "held"
  /\ ticket' = [ticket EXCEPT ![n] = "given up"]
  /\ UNCHANGED <<holder, posts, next, waking, woken, phase, drained, discarded, answer, ran>>

-----------------------------------------------------------------------------
(* The owner, on the thread of the executor that holds it.                 *)

(* Variant of Hold: the executor expects a wake for what waits already.    *)
HoldAndWait(e) ==
  /\ phase = "free"
  /\ holder' = e
  /\ phase' = "run"
  /\ UNCHANGED <<posts, next, waking, woken, drained, discarded, answer, ticket, ran>>
(* Posts that waited for a holder wake nobody, so it drains as it takes    *)
(* the owner.                                                              *)
Hold(e) ==
  /\ phase = "free"
  /\ holder' = e
  /\ phase' = "drain"
  /\ UNCHANGED <<posts, next, waking, woken, drained, discarded, answer, ticket, ran>>

(* Variant of Drain: the posts are copied out of the queue.                *)
DrainCopies ==
  /\ phase = "drain"
  /\ drained' = drained \o posts
  /\ ran' = ran \o posts
  /\ phase' = "run"
  /\ UNCHANGED <<posts, holder, next, waking, woken, discarded, answer, ticket>>
Drain ==
  /\ phase = "drain"
  /\ drained' = drained \o posts
  /\ ran' = ran \o posts
  /\ posts' = <<>>
  /\ phase' = "run"
  /\ UNCHANGED <<holder, next, waking, woken, discarded, answer, ticket>>

(* The executor runs its oldest post and answers it, or drops it. *)
GiveAnswer(o) ==
  /\ drained # <<>>
  /\ answer' = [answer EXCEPT ![Head(drained)] = o]
  /\ drained' = Tail(drained)
  /\ UNCHANGED <<holder, posts, next, waking, woken, phase, discarded, ticket, ran>>

(* The executor parks between posts and runs again when its waker rings. *)
Sleep ==
  /\ phase = "run" /\ drained = <<>>
  /\ phase' = "asleep"
  /\ UNCHANGED <<holder, posts, next, waking, woken, drained, discarded, answer, ticket, ran>>

Wake ==
  /\ phase = "asleep"
  /\ holder \in woken
  /\ woken' = woken \ {holder}
  /\ phase' = "drain"
  /\ UNCHANGED <<holder, posts, next, waking, drained, discarded, answer, ticket, ran>>

(* Mailbox::release: the executor that held the owner hands it on. *)
Release ==
  /\ phase = "run"
  /\ holder' = "nobody"
  /\ phase' = "free"
  /\ UNCHANGED <<posts, next, waking, woken, drained, discarded, answer, ticket, ran>>

(* Drop for Mailbox: the queue is taken under the lock ... *)
(* Variant of DropMailbox: the posts are left in the shared state.         *)
DropLeavesPosts ==
  /\ phase \in {"free", "drain", "run"}
  /\ holder' = "gone"
  /\ phase' = "gone"
  /\ UNCHANGED <<posts, discarded, next, waking, woken, drained, answer, ticket, ran>>
DropMailbox ==
  /\ phase \in {"free", "drain", "run"}
  /\ holder' = "gone"
  /\ phase' = "gone"
  /\ discarded' = posts
  /\ posts' = <<>>
  /\ UNCHANGED <<next, waking, woken, drained, answer, ticket, ran>>

(* ... and its posts are dropped one by one after the unlock. *)
Discard ==
  /\ discarded # <<>>
  /\ answer' = [answer EXCEPT ![Head(discarded)] = "unanswered"]
  /\ discarded' = Tail(discarded)
  /\ UNCHANGED <<holder, posts, next, waking, woken, phase, drained, ticket, ran>>

-----------------------------------------------------------------------------
Init ==
  /\ holder = "nobody"
  /\ posts = <<>>
  /\ next = 1
  /\ waking = [p \in Posters |-> "none"]
  /\ woken = {}
  /\ phase = "free"
  /\ drained = <<>>
  /\ discarded = <<>>
  /\ answer = [n \in Nums |-> "none"]
  /\ ticket = [n \in Nums |-> "none"]
  /\ ran = <<>>

Owner ==
  \/ \E e \in Executors : Hold(e)
  \/ Drain
  \/ \E o \in Outcomes : GiveAnswer(o)
  \/ Sleep
  \/ Wake
  \/ Release
  \/ DropMailbox
  \/ Discard

Next ==
  \/ \E p \in Posters : Post(p) \/ CallWaker(p)
  \/ \E n \in Nums : Read(n) \/ GiveUp(n)
  \/ Owner

Spec == Init /\ [][Next]_vars

(* Threads past the unlock go on, an executor runs what it took, and a     *)
(* released owner is held again or dropped; nobody need post or read.      *)
FairSpec ==
  /\ Spec
  /\ \A p \in Posters : WF_vars(CallWaker(p))
  /\ WF_vars(Drain \/ Sleep \/ Wake \/ Discard)
  /\ WF_vars(\E o \in Outcomes : GiveAnswer(o))
  /\ WF_vars(DropMailbox \/ \E e \in Executors : Hold(e))

-----------------------------------------------------------------------------
TypeOK ==
  /\ holder \in Executors \cup {"nobody", "gone"}
  /\ posts \in Seq(Nums) /\ drained \in Seq(Nums) /\ discarded \in Seq(Nums)
  /\ next \in 1 .. MaxPosts + 1
  /\ waking \in [Posters -> Executors \cup {"none"}]
  /\ woken \subseteq Executors
  /\ phase \in {"free", "drain", "run", "asleep", "gone"}
  /\ answer \in [Nums -> Outcomes \cup {"none", "waiting"}]
  /\ ticket \in [Nums -> Outcomes \cup {"none", "held", "given up"}]
  /\ ran \in Seq(Nums)

(* Posts are numbered in the order the owner runs them: whichever          *)
(* postboxes they came through and however often the owner changed hands,  *)
(* the numbers drained so far are the first ones, in order.                *)
RunsInPostOrder == \A i \in DOMAIN ran : ran[i] = i

(* A post made around a hold, a release or a wake of the owner strands     *)
(* nobody: an executor asleep over a queue that is not empty has been      *)
(* called, or some poster past the unlock is about to call it.             *)
NoLostWake ==
  phase = "asleep" /\ posts # <<>> =>
    holder \in woken \/ \E p \in Posters : waking[p] = holder

(* A post that races the drop of its mailbox is refused or ends up where   *)
(* the drop finds it: once the mailbox is gone its queue stays empty.      *)
NothingLeftBehind == holder = "gone" => posts = <<>>

(* The mailbox implements the promise of Requests: a post is a request,    *)
(* asked when it is numbered.                                              *)
Status == [n \in Nums |-> IF answer[n] = "none" THEN "idle" ELSE answer[n]]
Promise == INSTANCE Requests WITH Ids <- Nums, Outcomes <- Outcomes, status <- Status

(* A post is answered at most once and its answer never changes, even when *)
(* the owner changes hands or goes away with posts queued and drained.     *)
AnswersEachOnce == Promise!Spec

(* Every post taken is answered in the end: run, refused, or unanswered    *)
(* because the owner dropped it.                                           *)
AnswersEach == Promise!FairSpec
=============================================================================
