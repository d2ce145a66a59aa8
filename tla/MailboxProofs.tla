--------------------------- MODULE MailboxProofs ---------------------------
(***************************************************************************)
(* Proofs about Mailbox for every number of posters, executors and posts:  *)
(* its type, the order posts run in, that no holder sleeps over its posts, *)
(* that a drop leaves nothing behind, and that the mailbox implements      *)
(* Requests.                                                               *)
(*                                                                         *)
(* The strengthening says where the numbers are: those drained are the     *)
(* first ones, those queued follow them without a gap, and what the        *)
(* executor or the drop still has to answer waits for its answer and is in *)
(* hand once.                                                              *)
(***************************************************************************)
EXTENDS Mailbox, TLAPS

(* The executor's phase and the holder under the lock say the same.        *)
HolderAgrees ==
  /\ phase = "free" <=> holder = "nobody"
  /\ phase = "gone" <=> holder = "gone"

(* Numbers drained, then numbers queued, up to the last one given.         *)
NumbersInPlace ==
  /\ Len(ran) + Len(posts) <= next - 1
  /\ phase # "gone" => Len(ran) + Len(posts) = next - 1
  /\ \A i \in 1 .. Len(ran) : ran[i] = i
  /\ \A i \in 1 .. Len(posts) : posts[i] = Len(ran) + i

Growing(s) == \A i, j \in 1 .. Len(s) : i < j => s[i] < s[j]

(* What the executor holds, and what the drop holds, still waits.          *)
InHand ==
  /\ Growing(drained) /\ Growing(discarded)
  /\ \A i \in 1 .. Len(drained) : drained[i] <= Len(ran) /\ answer[drained[i]] = "waiting"
  /\ phase # "gone" => discarded = <<>>
  /\ \A i \in 1 .. Len(discarded) :
       /\ Len(ran) < discarded[i] /\ discarded[i] < next
       /\ answer[discarded[i]] = "waiting"

(* Numbers not given have no answer; those queued wait for theirs.         *)
AnswersInPlace ==
  /\ \A n \in Nums : answer[n] = "none" <=> next <= n
  /\ \A n \in Nums : phase # "gone" /\ Len(ran) < n /\ n < next => answer[n] = "waiting"

(* Since its last drain an executor was called for every post it has not   *)
(* seen, asleep or not yet.                                                *)
Called ==
  phase \in {"run", "asleep"} /\ posts # <<>> =>
    holder \in woken \/ \E p \in Posters : waking[p] = holder

MailboxInv ==
  /\ TypeOK /\ HolderAgrees /\ NumbersInPlace /\ InHand /\ AnswersInPlace
  /\ Called /\ NothingLeftBehind /\ RunsInPostOrder

-----------------------------------------------------------------------------
(* Sequences: what an append, a tail and a concatenation hold.             *)

(* A post queued keeps the ones before it in place.                        *)
LEMMA AppendFacts ==
  ASSUME NEW S, NEW s \in Seq(S), NEW x \in S
  PROVE  /\ Append(s, x) \in Seq(S)
         /\ Len(Append(s, x)) = Len(s) + 1
         /\ \A i \in 1 .. Len(s) : Append(s, x)[i] = s[i]
         /\ Append(s, x)[Len(s) + 1] = x
OBVIOUS

(* A post taken from the front leaves the others in order.                 *)
LEMMA TailFacts ==
  ASSUME NEW S, NEW s \in Seq(S), s # <<>>
  PROVE  /\ Head(s) = s[1] /\ s[1] \in S
         /\ Tail(s) \in Seq(S)
         /\ Len(s) \in Nat \ {0}
         /\ Len(Tail(s)) = Len(s) - 1
         /\ \A i \in 1 .. Len(s) - 1 : Tail(s)[i] = s[i + 1]
OBVIOUS

(* Posts taken all at once follow the ones taken before.                   *)
LEMMA ConcatFacts ==
  ASSUME NEW S, NEW s \in Seq(S), NEW t \in Seq(S)
  PROVE  /\ s \o t \in Seq(S)
         /\ Len(s \o t) = Len(s) + Len(t)
         /\ \A i \in 1 .. Len(s) : (s \o t)[i] = s[i]
         /\ \A i \in 1 .. Len(t) : (s \o t)[Len(s) + i] = t[i]
         /\ \A i \in Len(s) + 1 .. Len(s) + Len(t) : (s \o t)[i] = t[i - Len(s)]
OBVIOUS

(* What a queue of posts holds.                                            *)
LEMMA Elements ==
  ASSUME NEW S, NEW s \in Seq(S)
  PROVE  Len(s) \in Nat /\ DOMAIN s = 1 .. Len(s) /\ \A i \in 1 .. Len(s) : s[i] \in S
OBVIOUS

(* The empty queue.                                                        *)
LEMMA EmptyFacts ==
  ASSUME NEW S
  PROVE  <<>> \in Seq(S) /\ Len(<<>>) = 0 /\ \A s \in Seq(S) : Len(s) = 0 <=> s = <<>>
OBVIOUS

(* A growing sequence stays one without its head, and names its head once. *)
LEMMA GrowingTail ==
  ASSUME NEW s \in Seq(Nums), s # <<>>, Growing(s)
  PROVE  /\ Growing(Tail(s))
         /\ \A i \in 1 .. Len(Tail(s)) : \E j \in 2 .. Len(s) : Tail(s)[i] = s[j]
         /\ \A i \in 1 .. Len(Tail(s)) : Tail(s)[i] # Head(s)
<1>1. /\ Head(s) = s[1]
      /\ Len(s) \in Nat \ {0}
      /\ Len(Tail(s)) = Len(s) - 1
      /\ \A i \in 1 .. Len(s) - 1 : Tail(s)[i] = s[i + 1]
  BY TailFacts
<1>0. \A i \in 1 .. Len(s) : s[i] \in Nat
  BY MailboxAssumption DEF Nums
<1>2. \A i \in 1 .. Len(Tail(s)) : i + 1 \in 2 .. Len(s) /\ Tail(s)[i] = s[i + 1]
  BY <1>1
<1>3. \A i \in 1 .. Len(Tail(s)) : \E j \in 2 .. Len(s) : Tail(s)[i] = s[j]
  BY <1>2
<1>4. Growing(Tail(s))
  BY <1>0, <1>1, <1>2 DEF Growing
<1>5. \A i \in 1 .. Len(Tail(s)) : Tail(s)[i] # Head(s)
  BY <1>0, <1>1, <1>2 DEF Growing
<1> QED
  BY <1>3, <1>4, <1>5

-----------------------------------------------------------------------------
(* The invariant holds at the start and every step keeps it.               *)

LEMMA InitInv ==
  Init => MailboxInv
<1> SUFFICES ASSUME Init PROVE MailboxInv
  OBVIOUS
<1>1. TypeOK
  BY MailboxAssumption DEF Init, TypeOK, Outcomes
<1>2. HolderAgrees /\ Called /\ NothingLeftBehind /\ RunsInPostOrder
  BY DEF Init, HolderAgrees, Called, NothingLeftBehind, RunsInPostOrder
<1>3. NumbersInPlace /\ InHand /\ AnswersInPlace
  BY MailboxAssumption DEF Init, NumbersInPlace, InHand, Growing, AnswersInPlace, Nums
<1> QED
  BY <1>1, <1>2, <1>3 DEF MailboxInv

(* Postbox::post numbers the post after the last one queued, and whoever   *)
(* sleeps over the queue is called by the poster.                          *)
LEMMA PostStep ==
  ASSUME MailboxInv, NEW p \in Posters, Post(p)
  PROVE  MailboxInv'
<1> USE MailboxAssumption
<1>1. /\ TypeOK /\ HolderAgrees /\ NumbersInPlace /\ InHand /\ AnswersInPlace
      /\ Called /\ NothingLeftBehind /\ RunsInPostOrder
  BY DEF MailboxInv
<1>2. next \in Nums /\ phase # "gone" /\ posts \in Seq(Nums) /\ ran \in Seq(Nums)
  <2>0. next \in 1 .. MaxPosts + 1 /\ next <= MaxPosts
    BY <1>1 DEF Post, TypeOK
  <2>1. next \in Nums
    BY <2>0 DEF Nums
  <2>2. phase # "gone"
    BY <1>1 DEF Post, HolderAgrees
  <2> QED
    BY <1>1, <2>1, <2>2 DEF TypeOK
<1>3. /\ posts' \in Seq(Nums)
      /\ Len(posts') = Len(posts) + 1
      /\ \A i \in 1 .. Len(posts) : posts'[i] = posts[i]
      /\ posts'[Len(posts) + 1] = next
  BY <1>2, AppendFacts DEF Post
<1>4. HolderWaker \in Executors \cup {"none"}
  BY DEF HolderWaker
<1>5. TypeOK'
  <2>1. next' \in 1 .. MaxPosts + 1
    <3>1. next' = next + 1
      BY DEF Post
    <3> QED
      BY <1>2, <3>1 DEF Nums
  <2>2. answer' \in [Nums -> Outcomes \cup {"none", "waiting"}]
    BY <1>1 DEF TypeOK, Post
  <2>3. ticket' \in [Nums -> Outcomes \cup {"none", "held", "given up"}]
    BY <1>1 DEF TypeOK, Post
  <2>4. waking' \in [Posters -> Executors \cup {"none"}]
    BY <1>1, <1>4 DEF TypeOK, Post
  <2> QED
    BY <1>1, <1>3, <2>1, <2>2, <2>3, <2>4 DEF TypeOK, Post
<1>6. HolderAgrees' /\ RunsInPostOrder' /\ NothingLeftBehind'
  BY <1>1 DEF HolderAgrees, RunsInPostOrder, NothingLeftBehind, Post
<1>7. NumbersInPlace'
  <2>1. Len(posts) \in Nat /\ Len(ran) \in Nat /\ Len(ran) + Len(posts) = next - 1
        /\ ran' = ran /\ next' = next + 1 /\ next \in Nat /\ phase' = phase
    BY <1>1, <1>2 DEF NumbersInPlace, Post, Nums
  <2>2. \A i \in 1 .. Len(posts') : posts'[i] = Len(ran) + i
    <3> SUFFICES ASSUME NEW i \in 1 .. Len(posts') PROVE posts'[i] = Len(ran) + i
      OBVIOUS
    <3>1. CASE i \in 1 .. Len(posts)
      BY <1>1, <1>3, <3>1 DEF NumbersInPlace
    <3>2. CASE i = Len(posts) + 1
      BY <1>3, <2>1, <3>2
    <3> QED
      BY <1>3, <2>1, <3>1, <3>2
  <2> QED
    BY <1>1, <1>3, <2>1, <2>2 DEF NumbersInPlace
<1>8. \A n \in Nums : answer'[n] = IF n = next THEN "waiting" ELSE answer[n]
  BY <1>1, <1>2 DEF TypeOK, Post
<1>9. InHand'
  <2>1. /\ \A i \in 1 .. Len(drained) : drained[i] \in Nums
        /\ \A i \in 1 .. Len(discarded) : discarded[i] \in Nums
    BY <1>1, Elements DEF TypeOK
  <2>2. /\ drained' = drained /\ discarded' = discarded /\ ran' = ran /\ next' = next + 1
        /\ next \in Nat
    BY <1>2 DEF Post, Nums
  <2>3. Growing(drained') /\ Growing(discarded') /\ (phase' # "gone" => discarded' = <<>>)
    BY <1>1, <2>2 DEF InHand, Post
  <2>4. \A i \in 1 .. Len(drained) : answer'[drained[i]] = "waiting"
    BY <1>1, <1>8, <2>1 DEF InHand
  <2>5. \A i \in 1 .. Len(discarded) : answer'[discarded[i]] = "waiting" /\ discarded[i] < next + 1
    BY <1>1, <1>8, <2>1, <2>2 DEF InHand, Nums
  <2> QED
    BY <1>1, <2>2, <2>3, <2>4, <2>5 DEF InHand
<1>10. AnswersInPlace'
  BY <1>1, <1>2, <1>8 DEF AnswersInPlace, Post, NumbersInPlace, Nums
<1>11. Called'
  BY <1>1 DEF Called, Post, HolderWaker, TypeOK, HolderAgrees
<1> QED
  BY <1>5, <1>6, <1>7, <1>9, <1>10, <1>11 DEF MailboxInv

(* The waker called after the unlock ends the poster's debt.               *)
LEMMA CallWakerStep ==
  ASSUME MailboxInv, NEW p \in Posters, CallWaker(p)
  PROVE  MailboxInv'
<1>1. TypeOK' /\ HolderAgrees' /\ RunsInPostOrder' /\ NothingLeftBehind'
  BY MailboxAssumption DEF MailboxInv, TypeOK, CallWaker, HolderAgrees, RunsInPostOrder,
     NothingLeftBehind
<1>2. NumbersInPlace' /\ InHand' /\ AnswersInPlace'
  BY DEF MailboxInv, CallWaker, NumbersInPlace, InHand, Growing, AnswersInPlace
<1>3. Called'
  BY DEF MailboxInv, CallWaker, Called, TypeOK
<1> QED
  BY <1>1, <1>2, <1>3 DEF MailboxInv

(* A poster that reads or gives up its ticket leaves the queue alone.      *)
LEMMA TicketStep ==
  ASSUME MailboxInv, NEW n \in Nums, Read(n) \/ GiveUp(n)
  PROVE  MailboxInv'
<1>1. /\ UNCHANGED <<holder, posts, next, waking, woken, phase, drained, discarded, answer, ran>>
      /\ \E v : v \in Outcomes \cup {"none", "given up"} /\ ticket' = [ticket EXCEPT ![n] = v]
  BY DEF MailboxInv, TypeOK, Read, GiveUp, AnswersInPlace
<1>2. TypeOK'
  BY <1>1 DEF MailboxInv, TypeOK
<1> QED
  BY <1>1, <1>2 DEF MailboxInv, HolderAgrees, NumbersInPlace, InHand, Growing,
     AnswersInPlace, Called, NothingLeftBehind, RunsInPostOrder

(* Mailbox::drain takes the numbers that follow the ones taken before.     *)
LEMMA DrainStep ==
  ASSUME MailboxInv, Drain
  PROVE  MailboxInv'
<1>1. /\ TypeOK /\ HolderAgrees /\ NumbersInPlace /\ InHand /\ AnswersInPlace
      /\ Called /\ NothingLeftBehind /\ RunsInPostOrder
  BY DEF MailboxInv
<1>2. posts \in Seq(Nums) /\ ran \in Seq(Nums) /\ drained \in Seq(Nums)
  BY <1>1 DEF TypeOK
<1>3. /\ ran' \in Seq(Nums)
      /\ Len(ran') = Len(ran) + Len(posts)
      /\ \A i \in 1 .. Len(ran) : ran'[i] = ran[i]
      /\ \A i \in Len(ran) + 1 .. Len(ran) + Len(posts) : ran'[i] = posts[i - Len(ran)]
  BY <1>2, ConcatFacts DEF Drain
<1>4. /\ drained' \in Seq(Nums)
      /\ Len(drained') = Len(drained) + Len(posts)
      /\ \A i \in 1 .. Len(drained) : drained'[i] = drained[i]
      /\ \A i \in Len(drained) + 1 .. Len(drained) + Len(posts) :
           drained'[i] = posts[i - Len(drained)]
  BY <1>2, ConcatFacts DEF Drain
<1>5. /\ Len(posts) \in Nat /\ Len(ran) \in Nat /\ Len(drained) \in Nat
      /\ \A i \in 1 .. Len(drained) : drained[i] \in Nat
  BY <1>2, Elements, MailboxAssumption DEF Nums
<1>6. posts' = <<>> /\ Len(posts') = 0 /\ phase = "drain" /\ phase' = "run"
      /\ UNCHANGED <<holder, next, waking, woken, discarded, answer, ticket>>
  BY DEF Drain
<1>7. TypeOK'
  <2>1. posts' \in Seq(Nums) /\ discarded' \in Seq(Nums)
    BY <1>1, <1>6, EmptyFacts DEF TypeOK
  <2> QED
    BY <1>1, <1>3, <1>4, <1>6, <2>1 DEF TypeOK
<1>8. HolderAgrees' /\ Called' /\ NothingLeftBehind'
  BY <1>1, <1>6 DEF HolderAgrees, Called, NothingLeftBehind
<1>9. \A i \in 1 .. Len(posts) : posts[i] = Len(ran) + i
  BY <1>1 DEF NumbersInPlace
<1>10. \A i \in 1 .. Len(ran') : ran'[i] = i
  <2> SUFFICES ASSUME NEW i \in 1 .. Len(ran') PROVE ran'[i] = i
    OBVIOUS
  <2>1. CASE i \in 1 .. Len(ran)
    BY <1>1, <1>3, <2>1 DEF NumbersInPlace
  <2>2. CASE i \in Len(ran) + 1 .. Len(ran) + Len(posts)
    <3>1. i - Len(ran) \in 1 .. Len(posts)
      BY <1>5, <2>2
    <3> QED
      BY <1>3, <1>5, <1>9, <2>2, <3>1
  <2> QED
    BY <1>3, <1>5, <2>1, <2>2
<1>11. NumbersInPlace'
  BY <1>1, <1>3, <1>5, <1>6, <1>10 DEF NumbersInPlace
<1>12. RunsInPostOrder'
  BY <1>3, <1>10, Elements DEF RunsInPostOrder
<1>13. \A i \in 1 .. Len(drained) + Len(posts) :
         \/ i \in 1 .. Len(drained) /\ drained'[i] = drained[i]
         \/ /\ i \in Len(drained) + 1 .. Len(drained) + Len(posts)
            /\ drained'[i] = Len(ran) + (i - Len(drained))
  <2> SUFFICES ASSUME NEW i \in 1 .. Len(drained) + Len(posts), i \notin 1 .. Len(drained)
               PROVE  /\ i \in Len(drained) + 1 .. Len(drained) + Len(posts)
                      /\ drained'[i] = Len(ran) + (i - Len(drained))
    BY <1>4
  <2>1. i \in Len(drained) + 1 .. Len(drained) + Len(posts) /\ i - Len(drained) \in 1 .. Len(posts)
    BY <1>5
  <2> QED
    BY <1>4, <1>9, <2>1
<1>14. \A i \in 1 .. Len(drained) : drained[i] <= Len(ran) /\ answer[drained[i]] = "waiting"
  BY <1>1 DEF InHand
<1>15. Growing(drained')
  <2> SUFFICES ASSUME NEW i \in 1 .. Len(drained'), NEW j \in 1 .. Len(drained'), i < j
               PROVE  drained'[i] < drained'[j]
    BY DEF Growing
  <2>1. CASE j \in 1 .. Len(drained)
    BY <1>1, <1>4, <1>5, <2>1 DEF InHand, Growing
  <2>2. CASE j \notin 1 .. Len(drained)
    BY <1>4, <1>5, <1>13, <1>14, <2>2
  <2> QED
    BY <2>1, <2>2
<1>16. \A i \in 1 .. Len(drained') : drained'[i] <= Len(ran') /\ answer[drained'[i]] = "waiting"
  <2> SUFFICES ASSUME NEW i \in 1 .. Len(drained')
               PROVE  drained'[i] <= Len(ran') /\ answer[drained'[i]] = "waiting"
    OBVIOUS
  <2>1. drained'[i] \in Nums
    BY <1>4, Elements
  <2>2. CASE i \in 1 .. Len(drained)
    BY <1>3, <1>4, <1>5, <1>14, <2>2
  <2>3. CASE i \notin 1 .. Len(drained)
    <3>1. Len(ran) < drained'[i] /\ drained'[i] <= Len(ran) + Len(posts)
      BY <1>4, <1>5, <1>13, <2>3
    <3>2. Len(ran) + Len(posts) = next - 1 /\ next \in Nat
      <4>1. next \in 1 .. MaxPosts + 1
        BY <1>1 DEF TypeOK
      <4> QED
        BY <1>1, <1>6, <4>1, MailboxAssumption DEF NumbersInPlace
    <3>3. drained'[i] < next
      BY <1>5, <2>1, <3>1, <3>2 DEF Nums
    <3> QED
      BY <1>1, <1>3, <1>6, <2>1, <3>1, <3>3 DEF AnswersInPlace
  <2> QED
    BY <2>2, <2>3
<1>17. discarded = <<>>
  BY <1>1, <1>6 DEF InHand
<1>18. InHand'
  BY <1>1, <1>6, <1>15, <1>16, <1>17 DEF InHand
<1>19. AnswersInPlace'
  <2>1. \A n \in Nums : n \in Nat
    BY MailboxAssumption DEF Nums
  <2> QED
    BY <1>1, <1>3, <1>5, <1>6, <2>1 DEF AnswersInPlace
<1> QED
  BY <1>7, <1>8, <1>11, <1>12, <1>18, <1>19 DEF MailboxInv

(* A queue whose oldest post is answered, for the executor and the drop.   *)
LEMMA AnswerKeepsOthers ==
  ASSUME MailboxInv, NEW s \in Seq(Nums), s # <<>>, Growing(s), NEW o,
         \A i \in 1 .. Len(s) : answer[s[i]] = "waiting",
         answer' = [answer EXCEPT ![Head(s)] = o]
  PROVE  /\ Head(s) \in Nums
         /\ answer[Head(s)] = "waiting"
         /\ Growing(Tail(s)) /\ Tail(s) \in Seq(Nums)
         /\ \A i \in 1 .. Len(Tail(s)) : answer'[Tail(s)[i]] = "waiting"
         /\ \A n \in Nums : n # Head(s) => answer'[n] = answer[n]
         /\ answer'[Head(s)] = o
<1>1. Head(s) = s[1] /\ s[1] \in Nums /\ Tail(s) \in Seq(Nums) /\ 1 \in 1 .. Len(s)
  BY TailFacts
<1>2. /\ Growing(Tail(s))
      /\ \A i \in 1 .. Len(Tail(s)) : \E j \in 2 .. Len(s) : Tail(s)[i] = s[j]
      /\ \A i \in 1 .. Len(Tail(s)) : Tail(s)[i] # Head(s)
  BY GrowingTail
<1>3. /\ \A n \in Nums : n # Head(s) => answer'[n] = answer[n]
      /\ answer'[Head(s)] = o
  BY <1>1 DEF MailboxInv, TypeOK
<1>4. \A i \in 1 .. Len(Tail(s)) : answer'[Tail(s)[i]] = "waiting"
  <2> SUFFICES ASSUME NEW i \in 1 .. Len(Tail(s)) PROVE answer'[Tail(s)[i]] = "waiting"
    OBVIOUS
  <2>1. PICK j \in 2 .. Len(s) : Tail(s)[i] = s[j]
    BY <1>2
  <2>2. j \in 1 .. Len(s) /\ s[j] \in Nums /\ s[j] # Head(s)
    BY <1>2, <2>1, Elements
  <2> QED
    BY <1>3, <2>1, <2>2
<1> QED
  BY <1>1, <1>2, <1>3, <1>4

(* Answering a post the executor took leaves the others waiting.           *)
LEMMA GiveAnswerStep ==
  ASSUME MailboxInv, NEW o \in Outcomes, GiveAnswer(o)
  PROVE  MailboxInv'
<1>1. /\ TypeOK /\ HolderAgrees /\ NumbersInPlace /\ InHand /\ AnswersInPlace
      /\ Called /\ NothingLeftBehind /\ RunsInPostOrder
  BY DEF MailboxInv
<1>2. /\ drained \in Seq(Nums) /\ drained # <<>> /\ discarded \in Seq(Nums) /\ Growing(drained)
      /\ answer' = [answer EXCEPT ![Head(drained)] = o]
      /\ drained' = Tail(drained)
      /\ UNCHANGED <<holder, posts, next, waking, woken, phase, discarded, ticket, ran>>
  BY <1>1 DEF TypeOK, InHand, GiveAnswer
<1>3. /\ Head(drained) \in Nums /\ answer[Head(drained)] = "waiting"
      /\ Growing(drained') /\ drained' \in Seq(Nums)
      /\ \A i \in 1 .. Len(drained') : answer'[drained'[i]] = "waiting"
      /\ \A n \in Nums : n # Head(drained) => answer'[n] = answer[n]
      /\ answer'[Head(drained)] = o
  <2>1. \A i \in 1 .. Len(drained) : answer[drained[i]] = "waiting"
    BY <1>1 DEF InHand
  <2>2. /\ Head(drained) \in Nums /\ answer[Head(drained)] = "waiting"
        /\ Growing(Tail(drained)) /\ Tail(drained) \in Seq(Nums)
        /\ \A i \in 1 .. Len(Tail(drained)) : answer'[Tail(drained)[i]] = "waiting"
        /\ \A n \in Nums : n # Head(drained) => answer'[n] = answer[n]
        /\ answer'[Head(drained)] = o
    BY <1>2, <2>1, AnswerKeepsOthers
  <2> QED
    BY <1>2, <2>2
<1>4. /\ Head(drained) = drained[1] /\ Len(drained) \in Nat \ {0}
      /\ Len(drained') = Len(drained) - 1
      /\ \A i \in 1 .. Len(drained) - 1 : drained'[i] = drained[i + 1]
  BY <1>2, TailFacts
<1>5. Head(drained) <= Len(ran) /\ Len(ran) \in Nat
  <2>1. 1 \in 1 .. Len(drained)
    BY <1>4
  <2> QED
    BY <1>1, <1>4, <2>1, Elements DEF InHand, TypeOK
<1>6. TypeOK'
  <2>1. answer' \in [Nums -> Outcomes \cup {"none", "waiting"}]
    BY <1>1, <1>2 DEF TypeOK
  <2> QED
    BY <1>1, <1>2, <1>3, <2>1 DEF TypeOK
<1>7. HolderAgrees' /\ Called' /\ NothingLeftBehind' /\ RunsInPostOrder' /\ NumbersInPlace'
  BY <1>1, <1>2 DEF HolderAgrees, Called, NothingLeftBehind, RunsInPostOrder, NumbersInPlace
<1>8. InHand'
  <2>1. \A i \in 1 .. Len(drained') : drained'[i] <= Len(ran)
    <3> SUFFICES ASSUME NEW i \in 1 .. Len(drained') PROVE drained'[i] <= Len(ran)
      OBVIOUS
    <3>1. i \in 1 .. Len(drained) - 1 /\ i + 1 \in 1 .. Len(drained)
      BY <1>4
    <3> QED
      BY <1>1, <1>4, <3>1 DEF InHand
  <2>2. \A i \in 1 .. Len(discarded) : answer'[discarded[i]] = "waiting"
    <3> SUFFICES ASSUME NEW i \in 1 .. Len(discarded) PROVE answer'[discarded[i]] = "waiting"
      OBVIOUS
    <3>1. discarded[i] \in Nums /\ Len(ran) < discarded[i] /\ answer[discarded[i]] = "waiting"
      BY <1>1, <1>2, Elements DEF InHand
    <3>2. discarded[i] # Head(drained)
      BY <1>3, <1>5, <3>1, MailboxAssumption DEF Nums
    <3> QED
      BY <1>3, <3>1, <3>2
  <2> QED
    BY <1>1, <1>2, <1>3, <2>1, <2>2 DEF InHand
<1>9. AnswersInPlace'
  <2>1. \A n \in Nums : n \in Nat
    BY MailboxAssumption DEF Nums
  <2>2. o # "none"
    BY DEF Outcomes
  <2> QED
    BY <1>1, <1>2, <1>3, <1>5, <2>1, <2>2 DEF AnswersInPlace
<1> QED
  BY <1>6, <1>7, <1>8, <1>9 DEF MailboxInv

(* The drop of the mailbox answers the posts it took one by one.           *)
LEMMA DiscardStep ==
  ASSUME MailboxInv, Discard
  PROVE  MailboxInv'
<1>1. /\ TypeOK /\ HolderAgrees /\ NumbersInPlace /\ InHand /\ AnswersInPlace
      /\ Called /\ NothingLeftBehind /\ RunsInPostOrder
  BY DEF MailboxInv
<1>2. /\ discarded \in Seq(Nums) /\ discarded # <<>> /\ drained \in Seq(Nums) /\ Growing(discarded)
      /\ answer' = [answer EXCEPT ![Head(discarded)] = "unanswered"]
      /\ discarded' = Tail(discarded)
      /\ UNCHANGED <<holder, posts, next, waking, woken, phase, drained, ticket, ran>>
  BY <1>1 DEF TypeOK, InHand, Discard
<1>3. /\ Head(discarded) \in Nums /\ answer[Head(discarded)] = "waiting"
      /\ Growing(discarded') /\ discarded' \in Seq(Nums)
      /\ \A i \in 1 .. Len(discarded') : answer'[discarded'[i]] = "waiting"
      /\ \A n \in Nums : n # Head(discarded) => answer'[n] = answer[n]
      /\ answer'[Head(discarded)] = "unanswered"
  <2>1. \A i \in 1 .. Len(discarded) : answer[discarded[i]] = "waiting"
    BY <1>1 DEF InHand
  <2>2. /\ Head(discarded) \in Nums /\ answer[Head(discarded)] = "waiting"
        /\ Growing(Tail(discarded)) /\ Tail(discarded) \in Seq(Nums)
        /\ \A i \in 1 .. Len(Tail(discarded)) : answer'[Tail(discarded)[i]] = "waiting"
        /\ \A n \in Nums : n # Head(discarded) => answer'[n] = answer[n]
        /\ answer'[Head(discarded)] = "unanswered"
    BY <1>2, <2>1, AnswerKeepsOthers
  <2> QED
    BY <1>2, <2>2
<1>4. /\ Head(discarded) = discarded[1] /\ Len(discarded) \in Nat \ {0}
      /\ Len(discarded') = Len(discarded) - 1
      /\ \A i \in 1 .. Len(discarded) - 1 : discarded'[i] = discarded[i + 1]
  BY <1>2, TailFacts
<1>5. Len(ran) < Head(discarded) /\ Head(discarded) < next
  <2>1. 1 \in 1 .. Len(discarded)
    BY <1>4
  <2> QED
    BY <1>1, <1>4, <2>1 DEF InHand
<1>6. TypeOK'
  <2>1. answer' \in [Nums -> Outcomes \cup {"none", "waiting"}]
    BY <1>1, <1>2 DEF TypeOK, Outcomes
  <2> QED
    BY <1>1, <1>2, <1>3, <2>1 DEF TypeOK
<1>7. HolderAgrees' /\ Called' /\ NothingLeftBehind' /\ RunsInPostOrder' /\ NumbersInPlace'
  BY <1>1, <1>2 DEF HolderAgrees, Called, NothingLeftBehind, RunsInPostOrder, NumbersInPlace
<1>8. phase = "gone"
  BY <1>1, <1>2 DEF InHand
<1>9. InHand'
  <2>1. \A i \in 1 .. Len(discarded') : Len(ran) < discarded'[i] /\ discarded'[i] < next
    <3> SUFFICES ASSUME NEW i \in 1 .. Len(discarded')
                 PROVE  Len(ran) < discarded'[i] /\ discarded'[i] < next
      OBVIOUS
    <3>1. i \in 1 .. Len(discarded) - 1 /\ i + 1 \in 1 .. Len(discarded)
      BY <1>4
    <3> QED
      BY <1>1, <1>4, <3>1 DEF InHand
  <2>2. \A i \in 1 .. Len(drained) : answer'[drained[i]] = "waiting"
    <3> SUFFICES ASSUME NEW i \in 1 .. Len(drained) PROVE answer'[drained[i]] = "waiting"
      OBVIOUS
    <3>1. drained[i] \in Nums /\ drained[i] <= Len(ran) /\ answer[drained[i]] = "waiting"
      BY <1>1, <1>2, Elements DEF InHand
    <3>2. drained[i] # Head(discarded)
      <4>1. Len(ran) \in Nat
        BY <1>1, Elements DEF TypeOK
      <4> QED
        BY <1>3, <1>5, <3>1, <4>1, MailboxAssumption DEF Nums
    <3> QED
      BY <1>3, <3>1, <3>2
  <2> QED
    BY <1>1, <1>2, <1>3, <1>8, <2>1, <2>2 DEF InHand
<1>10. AnswersInPlace'
  BY <1>1, <1>2, <1>3, <1>5, <1>8, MailboxAssumption DEF AnswersInPlace, Nums
<1> QED
  BY <1>6, <1>7, <1>9, <1>10 DEF MailboxInv

(* The drop moves the queue out of the shared state under the lock.        *)
LEMMA DropStep ==
  ASSUME MailboxInv, DropMailbox
  PROVE  MailboxInv'
<1>1. /\ TypeOK /\ HolderAgrees /\ NumbersInPlace /\ InHand /\ AnswersInPlace
      /\ Called /\ NothingLeftBehind /\ RunsInPostOrder
  BY DEF MailboxInv
<1>2. /\ phase # "gone" /\ phase' = "gone" /\ holder' = "gone"
      /\ discarded' = posts /\ posts' = <<>> /\ Len(posts') = 0
      /\ UNCHANGED <<next, waking, woken, drained, answer, ticket, ran>>
  BY DEF DropMailbox
<1>3. posts \in Seq(Nums) /\ Len(posts) \in Nat /\ Len(ran) \in Nat
      /\ Len(ran) + Len(posts) = next - 1 /\ next \in Nat
  <2>1. next \in 1 .. MaxPosts + 1 /\ posts \in Seq(Nums) /\ ran \in Seq(Nums)
    BY <1>1 DEF TypeOK
  <2> QED
    BY <1>1, <1>2, <2>1, Elements, MailboxAssumption DEF NumbersInPlace
<1>4. TypeOK'
  BY <1>1, <1>2, <1>3, EmptyFacts DEF TypeOK
<1>5. HolderAgrees' /\ Called' /\ NothingLeftBehind' /\ RunsInPostOrder'
  BY <1>1, <1>2 DEF HolderAgrees, Called, NothingLeftBehind, RunsInPostOrder
<1>6. NumbersInPlace'
  BY <1>1, <1>2, <1>3 DEF NumbersInPlace
<1>7. \A i \in 1 .. Len(posts) :
        /\ posts[i] \in Nums /\ posts[i] = Len(ran) + i
        /\ Len(ran) < posts[i] /\ posts[i] < next
  BY <1>1, <1>3, Elements DEF NumbersInPlace
<1>8. \A i \in 1 .. Len(posts) : answer[posts[i]] = "waiting"
  BY <1>1, <1>2, <1>7 DEF AnswersInPlace
<1>9. Growing(posts)
  BY <1>3, <1>7 DEF Growing
<1>10. InHand'
  BY <1>1, <1>2, <1>7, <1>8, <1>9 DEF InHand
<1>11. AnswersInPlace'
  BY <1>1, <1>2 DEF AnswersInPlace
<1> QED
  BY <1>4, <1>5, <1>6, <1>10, <1>11 DEF MailboxInv

(* Steps of the executor that move only its phase, the holder and the      *)
(* wakes it saw.  It sleeps over a queue it has emptied, or posts came in  *)
(* since, each with the executor's waker in its poster's hand.             *)
LEMMA PhaseStep ==
  ASSUME MailboxInv, (\E e \in Executors : Hold(e)) \/ Sleep \/ Wake \/ Release
  PROVE  MailboxInv'
<1>1. /\ TypeOK /\ HolderAgrees /\ NumbersInPlace /\ InHand /\ AnswersInPlace
      /\ Called /\ NothingLeftBehind /\ RunsInPostOrder
  BY DEF MailboxInv
<1>2. /\ phase # "gone" /\ phase' # "gone" /\ holder' # "gone"
      /\ UNCHANGED <<posts, next, waking, drained, discarded, answer, ticket, ran>>
  BY <1>1, MailboxAssumption DEF Hold, Sleep, Wake, Release, HolderAgrees
<1>3. /\ holder' \in Executors \cup {"nobody", "gone"} /\ woken' \subseteq Executors
      /\ phase' \in {"free", "drain", "run", "asleep", "gone"}
  BY <1>1 DEF Hold, Sleep, Wake, Release, TypeOK
<1>4. TypeOK'
  BY <1>1, <1>2, <1>3 DEF TypeOK
<1>5. HolderAgrees'
  BY <1>1, MailboxAssumption DEF HolderAgrees, Hold, Sleep, Wake, Release
<1>6. Called'
  BY <1>1 DEF Called, Hold, Sleep, Wake, Release
<1> QED
  BY <1>1, <1>2, <1>4, <1>5, <1>6
     DEF MailboxInv, NumbersInPlace, InHand, AnswersInPlace, NothingLeftBehind, RunsInPostOrder

(* Every step keeps the invariant.                                         *)
LEMMA NextInv ==
  MailboxInv /\ [Next]_vars => MailboxInv'
<1> SUFFICES ASSUME MailboxInv, [Next]_vars PROVE MailboxInv'
  OBVIOUS
<1>1. CASE UNCHANGED vars
  BY <1>1 DEF vars, MailboxInv, TypeOK, HolderAgrees, NumbersInPlace, InHand, Growing,
     AnswersInPlace, Called, NothingLeftBehind, RunsInPostOrder
<1>2. ASSUME NEW p \in Posters, Post(p) \/ CallWaker(p) PROVE MailboxInv'
  BY <1>2, PostStep, CallWakerStep
<1>3. ASSUME NEW n \in Nums, Read(n) \/ GiveUp(n) PROVE MailboxInv'
  BY <1>3, TicketStep
<1>4. CASE Drain
  BY <1>4, DrainStep
<1>5. ASSUME NEW o \in Outcomes, GiveAnswer(o) PROVE MailboxInv'
  BY <1>5, GiveAnswerStep
<1>6. CASE DropMailbox
  BY <1>6, DropStep
<1>7. CASE Discard
  BY <1>7, DiscardStep
<1>8. CASE (\E e \in Executors : Hold(e)) \/ Sleep \/ Wake \/ Release
  BY <1>8, PhaseStep
<1> QED
  BY <1>1, <1>2, <1>3, <1>4, <1>5, <1>6, <1>7, <1>8 DEF Next, Owner

LEMMA SpecInv == Spec => []MailboxInv
BY InitInv, NextInv, PTL DEF Spec

(* The mailbox keeps its types for every number of posters and executors.  *)
THEOREM TypeCorrect == Spec => []TypeOK
BY SpecInv, PTL DEF MailboxInv

(* Posts run in the order Postbox::post numbered them, whatever hands the  *)
(* owner passes through.                                                   *)
THEOREM PostOrder == Spec => []RunsInPostOrder
BY SpecInv, PTL DEF MailboxInv

(* No executor sleeps over posts that nobody will call it for, although    *)
(* Postbox::post calls the waker only after it let go of the lock.         *)
THEOREM WakeNotLost == Spec => []NoLostWake
<1>1. MailboxInv => NoLostWake
  BY DEF MailboxInv, Called, NoLostWake
<1> QED
  BY <1>1, SpecInv, PTL

(* A post and the drop of the mailbox never leave a post in between.       *)
THEOREM DropLeavesNothing == Spec => []NothingLeftBehind
BY SpecInv, PTL DEF MailboxInv

-----------------------------------------------------------------------------
(* The mailbox implements Requests.  The initial states agree, and a step  *)
(* asks one request, answers one that waited, or leaves them all alone.    *)

LEMMA StatusOf ==
  \A n \in Nums : Status[n] = IF answer[n] = "none" THEN "idle" ELSE answer[n]
BY DEF Status

LEMMA StepRefines ==
  MailboxInv /\ [Next]_vars => [Promise!Next]_Status
<1> SUFFICES ASSUME MailboxInv, [Next]_vars PROVE [Promise!Next]_Status
  OBVIOUS
<1>1. answer \in [Nums -> Outcomes \cup {"none", "waiting"}]
  BY DEF MailboxInv, TypeOK
<1>2. CASE answer' = answer
  BY <1>2 DEF Status
<1>3. ASSUME NEW p \in Posters, Post(p) PROVE Promise!Next
  <2>1. next \in Nums /\ answer[next] = "none"
    <3>1. next \in 1 .. MaxPosts + 1 /\ next <= MaxPosts
      BY <1>3 DEF MailboxInv, TypeOK, Post
    <3>2. next \in Nums
      BY <3>1, MailboxAssumption DEF Nums
    <3> QED
      BY <3>2, <3>1 DEF MailboxInv, AnswersInPlace
  <2>2. answer' = [answer EXCEPT ![next] = "waiting"]
    BY <1>3 DEF Post
  <2>3. Status[next] = "idle" /\ Status' = [Status EXCEPT ![next] = "waiting"]
    BY <1>1, <2>1, <2>2 DEF Status
  <2> QED
    BY <2>1, <2>3 DEF Promise!Next, Promise!Ask
<1>4. ASSUME NEW m \in Nums, answer[m] = "waiting", NEW o \in Outcomes,
             answer' = [answer EXCEPT ![m] = o]
      PROVE  Promise!Next
  <2>1. Status[m] = "waiting" /\ Status' = [Status EXCEPT ![m] = o]
    BY <1>1, <1>4 DEF Status, Outcomes
  <2> QED
    BY <1>4, <2>1 DEF Promise!Next, Promise!Answer
<1>5. ASSUME NEW o \in Outcomes, GiveAnswer(o) PROVE Promise!Next
  <2>0. drained \in Seq(Nums) /\ drained # <<>>
    BY <1>5 DEF MailboxInv, TypeOK, GiveAnswer
  <2>1. 1 \in 1 .. Len(drained) /\ Head(drained) = drained[1] /\ drained[1] \in Nums
    BY <2>0, TailFacts
  <2>2. answer[Head(drained)] = "waiting" /\ answer' = [answer EXCEPT ![Head(drained)] = o]
    BY <1>5, <2>1 DEF MailboxInv, InHand, GiveAnswer
  <2> QED
    BY <1>4, <2>1, <2>2
<1>6. CASE Discard
  <2>0. discarded \in Seq(Nums) /\ discarded # <<>>
    BY <1>6 DEF MailboxInv, TypeOK, Discard
  <2>1. 1 \in 1 .. Len(discarded) /\ Head(discarded) = discarded[1] /\ discarded[1] \in Nums
    BY <2>0, TailFacts
  <2>2. /\ answer[Head(discarded)] = "waiting" /\ "unanswered" \in Outcomes
        /\ answer' = [answer EXCEPT ![Head(discarded)] = "unanswered"]
    BY <1>6, <2>1 DEF MailboxInv, InHand, Discard, Outcomes
  <2> QED
    BY <1>4, <2>1, <2>2
<1>7. CASE \/ UNCHANGED vars
           \/ \E p \in Posters : CallWaker(p)
           \/ \E n \in Nums : Read(n) \/ GiveUp(n)
           \/ \E e \in Executors : Hold(e)
           \/ Drain \/ Sleep \/ Wake \/ Release \/ DropMailbox
  <2>1. answer' = answer
    BY <1>7 DEF vars, CallWaker, Read, GiveUp, Hold, Drain, Sleep, Wake, Release, DropMailbox
  <2> QED
    BY <1>2, <2>1
<1> QED
  BY <1>3, <1>5, <1>6, <1>7 DEF Next, Owner

(* A post is answered at most once, and its answer stands: the mailbox is  *)
(* an implementation of Requests.                                          *)
THEOREM Refinement == Spec => AnswersEachOnce
<1>1. Init => Promise!Init
  BY DEF Init, Promise!Init, Status
<1> QED
  BY <1>1, StepRefines, SpecInv, PTL DEF Spec, AnswersEachOnce, Promise!Spec
=============================================================================
