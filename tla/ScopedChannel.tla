---------------------------- MODULE ScopedChannel ----------------------------
(***************************************************************************)
(* The scoped command channel of kithara-command: a root level and a fixed *)
(* number of scope slots share one ring of commands.  The owner stages a   *)
(* pass and publishes it with one store; a scope is opened, closed with a  *)
(* reserved credit, retired by the executor and, once its Closed is read,  *)
(* opened again under the next generation.                                 *)
(*                                                                         *)
(* The levels judge and schedule batches as CommandChannel says.  Here a   *)
(* batch is its number, its level and its generation, an answer is Applied *)
(* or Rejected, and each level has one target, which every batch shifts.   *)
(***************************************************************************)
EXTENDS Integers, Sequences, FiniteSets

CONSTANTS
  NScopes,        \* scope slots
  RootCapacity,   \* credits of the root
  ScopeCapacity,  \* credits of a scope, besides the one reserved for Close
  MaxSeq,         \* bound: batches sent in a behaviour
  MaxGen          \* bound: generations of a slot

ASSUME ScopedAssumption ==
  /\ NScopes \in Nat \ {0} /\ RootCapacity \in Nat \ {0} /\ ScopeCapacity \in Nat \ {0}
  /\ MaxSeq \in Nat /\ MaxGen \in Nat

VARIABLES
  next,          \* ScopedSender: number of the next batch
  rootCredits,   \* Book of the root: batches that may still be sent
  slots,         \* Slot of each scope: state, generation, credits, applied
  staged,        \* items of the pass not published yet
  sPc,           \* the owner's thread: "idle" or inside a call
  gateClosed,    \* Gate: CLOSED is set
  commands,      \* ring of items
  rootReceipts,  \* ring of the root's receipts
  scopeReplies,  \* ring of receipts and Closed of all scopes
  rootDocket,    \* batches of the root the inbox holds
  dockets,       \* batches of each scope the inbox holds
  ledger,        \* Docket: last batch that shifted the target of each scope
  life,          \* Lifecycle of each scope: generation, closing
  xPc,           \* where the executor's thread is
  retiring,      \* the scope being retired
  rootHeld, scopeHeld,  \* the inbox holds its end of each ring of answers
  since          \* history: next as each slot was last opened

ownerVars == <<next, rootCredits, slots, staged, sPc, since>>
inboxVars == <<rootDocket, dockets, ledger, life, xPc, retiring, rootHeld, scopeHeld>>
rings == <<commands, rootReceipts, scopeReplies>>
vars == <<ownerVars, gateClosed, rings, inboxVars>>

Scopes == 1 .. NScopes
Root == 0
None == 0
Seqs == 1 .. MaxSeq
Gens == 0 .. MaxGen

Item == [kind : {"batch"}, scope : {Root} \cup Scopes, gen : Gens, seq : Seqs]
          \cup [kind : {"close"}, scope : Scopes, gen : Gens, seq : {None}]
Reply == [kind : {"Applied", "Rejected"}, scope : {Root} \cup Scopes, gen : Gens, seq : Seqs]
           \cup [kind : {"Closed"}, scope : Scopes, gen : Gens, seq : {None}]
Receipt(b, outcome) == [kind |-> outcome, scope |-> b.scope, gen |-> b.gen, seq |-> b.seq]
ClosedReply(s, g) == [kind |-> "Closed", scope |-> s, gen |-> g, seq |-> None]

(* Variant of ScopeRoom: the credit of Close is left out.                  *)
ScopeRoomUnreserved == NScopes * ScopeCapacity
ScopeRoom == NScopes * (ScopeCapacity + 1)
CommandRoom == RootCapacity + ScopeRoom

(* HeapProd::try_push: an item that finds no room is dropped. *)
Push(q, x, room) == IF Len(q) < room THEN Append(q, x) ELSE q
Vacant == CommandRoom - Len(commands)

-----------------------------------------------------------------------------
(* The owner's thread.                                                     *)

(* Variant of Open: the book keeps what the former incarnation applied.    *)
OpenKeepsBook(s) ==
  /\ sPc = "idle"
  /\ slots[s].state = "Free"
  /\ \A t \in 1 .. s - 1 : slots[t].state # "Free"
  /\ slots' = [slots EXCEPT ![s].state = "Open"]
  /\ since' = [since EXCEPT ![s] = next]
  /\ UNCHANGED <<next, rootCredits, staged, sPc, gateClosed, rings, inboxVars>>
(* ScopedSender::open takes the first free slot; credits are not reset. *)
Open(s) ==
  /\ sPc = "idle"
  /\ slots[s].state = "Free"
  /\ \A t \in 1 .. s - 1 : slots[t].state # "Free"
  /\ slots' = [slots EXCEPT ![s].state = "Open", ![s].applied = None]
  /\ since' = [since EXCEPT ![s] = next]
  /\ UNCHANGED <<next, rootCredits, staged, sPc, gateClosed, rings, inboxVars>>

(* push of sender.rs: Full leaves everything as it was. *)
Stage(s, g) ==
  /\ Len(staged) < Vacant
  /\ next <= MaxSeq
  /\ staged' = Append(staged, [kind |-> "batch", scope |-> s, gen |-> g, seq |-> next])
  /\ next' = next + 1

SendRoot ==
  /\ sPc = "idle"
  /\ ~gateClosed
  /\ rootCredits > 0
  /\ Stage(Root, 0)
  /\ rootCredits' = rootCredits - 1
  /\ UNCHANGED <<slots, sPc, since, gateClosed, rings, inboxVars>>

(* Variant of SendScope: a closing scope still takes batches.              *)
SendWhileClosing(s, g) ==
  /\ sPc = "idle"
  /\ slots[s].gen = g /\ slots[s].state # "Free"
  /\ ~gateClosed
  /\ slots[s].credits > 0
  /\ Stage(s, g)
  /\ slots' = [slots EXCEPT ![s].credits = @ - 1]
  /\ UNCHANGED <<rootCredits, sPc, since, gateClosed, rings, inboxVars>>
(* scope(id) then send: an identity of another generation finds no scope. *)
SendScope(s, g) ==
  /\ sPc = "idle"
  /\ slots[s].gen = g /\ slots[s].state = "Open"
  /\ ~gateClosed
  /\ slots[s].credits > 0
  /\ Stage(s, g)
  /\ slots' = [slots EXCEPT ![s].credits = @ - 1]
  /\ UNCHANGED <<rootCredits, sPc, since, gateClosed, rings, inboxVars>>

(* Close needs no credit and no room of its own: both are reserved. *)
Close(s, g) ==
  /\ sPc = "idle"
  /\ slots[s].gen = g /\ slots[s].state = "Open"
  /\ g < MaxGen
  /\ staged' = Append(staged, [kind |-> "close", scope |-> s, gen |-> g, seq |-> None])
  /\ slots' = [slots EXCEPT ![s].state = "Closing"]
  /\ UNCHANGED <<next, rootCredits, sPc, since, gateClosed, rings, inboxVars>>

(* publish past the gate, or the pass discarded. *)
PublishEnter ==
  /\ sPc = "idle"
  /\ staged # <<>>
  /\ sPc' = IF gateClosed THEN "idle" ELSE "publish"
  /\ staged' = IF gateClosed THEN <<>> ELSE staged
  /\ UNCHANGED <<next, rootCredits, slots, since, gateClosed, rings, inboxVars>>

(* One store of the ring's index; what does not fit is dropped. *)
PublishPush ==
  /\ sPc = "publish"
  /\ commands' = commands \o SubSeq(staged, 1, IF Vacant < Len(staged) THEN Vacant ELSE Len(staged))
  /\ staged' = <<>>
  /\ sPc' = "idle"
  /\ UNCHANGED <<next, rootCredits, slots, since, gateClosed, rootReceipts, scopeReplies,
                 inboxVars>>

(* Variant of ReceiptEnter: no orphan is looked for.                       *)
ReceiptEnterPlain ==
  /\ sPc = "idle"
  /\ sPc' = "pop"
  /\ UNCHANGED <<next, rootCredits, slots, staged, since, gateClosed, rings, inboxVars>>
(* receipt looks for orphans first, when the inbox let go of both rings. *)
ReceiptEnter ==
  /\ sPc = "idle"
  /\ sPc' = IF rootHeld \/ scopeHeld THEN "pop" ELSE "recover"
  /\ UNCHANGED <<next, rootCredits, slots, staged, since, gateClosed, rings, inboxVars>>

Orphan(i) ==
  IF i.scope = Root
  THEN /\ rootReceipts' = Push(rootReceipts, Receipt(i, "Rejected"), RootCapacity)
       /\ UNCHANGED scopeReplies
  ELSE /\ scopeReplies' = Push(scopeReplies,
                               IF i.kind = "close" THEN ClosedReply(i.scope, i.gen)
                               ELSE Receipt(i, "Rejected"), ScopeRoom)
       /\ UNCHANGED rootReceipts

RecoverOrphans ==
  /\ sPc = "recover"
  /\ \/ /\ commands = <<>>
        /\ sPc' = "pop"
        /\ UNCHANGED rings
     \/ /\ commands # <<>>
        /\ Orphan(Head(commands))
        /\ commands' = Tail(commands)
        /\ UNCHANGED sPc
  /\ UNCHANGED <<next, rootCredits, slots, staged, since, gateClosed, inboxVars>>

Later(a, b) == IF a < b THEN b ELSE a

(* Settle of the slot a reply is for, if it is of the slot's generation. *)
SettleScope(r) ==
  LET slot == slots[r.scope] IN
  slots' = [slots EXCEPT ![r.scope] =
    IF slot.gen # r.gen THEN slot
    ELSE IF r.kind = "Closed" THEN [slot EXCEPT !.gen = @ + 1, !.state = "Free"]
    ELSE [slot EXCEPT !.credits = @ + 1,
                      !.applied = IF r.kind = "Applied" THEN Later(@, r.seq) ELSE @]]

(* root_receipt, and when it finds none the first reply of a scope: the    *)
(* executor may answer the root in between.                                *)
RootReceipt ==
  /\ sPc = "pop"
  /\ \/ /\ rootReceipts # <<>>
        /\ rootReceipts' = Tail(rootReceipts)
        /\ rootCredits' = rootCredits + 1
        /\ sPc' = "idle"
     \/ /\ rootReceipts = <<>>
        /\ sPc' = "popScope"
        /\ UNCHANGED <<rootCredits, rootReceipts>>
  /\ UNCHANGED <<next, slots, staged, since, gateClosed, commands, scopeReplies, inboxVars>>

ReceiptPop ==
  /\ sPc = "popScope"
  /\ sPc' = "idle"
  /\ \/ /\ scopeReplies # <<>>
        /\ SettleScope(Head(scopeReplies))
        /\ scopeReplies' = Tail(scopeReplies)
     \/ /\ scopeReplies = <<>>
        /\ UNCHANGED <<slots, scopeReplies>>
  /\ UNCHANGED <<next, rootCredits, staged, since, gateClosed, commands, rootReceipts, inboxVars>>

Owner ==
  \/ \E s \in Scopes : Open(s)
  \/ SendRoot
  \/ \E s \in Scopes, g \in Gens : SendScope(s, g) \/ Close(s, g)
  \/ PublishEnter \/ PublishPush
  \/ ReceiptEnter \/ RecoverOrphans \/ RootReceipt \/ ReceiptPop

-----------------------------------------------------------------------------
(* The executor's thread.                                                  *)

(* drain runs until it finds the ring empty. *)
StartDrain ==
  /\ xPc = "walk"
  /\ xPc' = "drain"
  /\ UNCHANGED <<ownerVars, gateClosed, rings, rootDocket, dockets, ledger, life,
                 retiring, rootHeld, scopeHeld>>

(* Where one item goes. *)
Route(i) ==
  \/ /\ i.scope = Root
     /\ rootDocket' = rootDocket \cup {i}
     /\ UNCHANGED <<dockets, life, scopeReplies>>
  \/ /\ i.scope # Root /\ life[i.scope].gen = i.gen
     /\ dockets' = IF i.kind = "batch" THEN [dockets EXCEPT ![i.scope] = @ \cup {i}] ELSE dockets
     /\ life' = IF i.kind = "close" THEN [life EXCEPT ![i.scope].closing = TRUE] ELSE life
     /\ UNCHANGED <<rootDocket, scopeReplies>>
  \/ /\ i.scope # Root /\ life[i.scope].gen # i.gen
     /\ scopeReplies' = IF i.kind = "batch"
                        THEN Push(scopeReplies, Receipt(i, "Rejected"), ScopeRoom)
                        ELSE scopeReplies
     /\ UNCHANGED <<rootDocket, dockets, life>>

Drain ==
  /\ xPc \in {"drain", "dropDrain"}
  /\ \/ /\ commands = <<>>
        /\ xPc' = IF xPc = "drain" THEN "walk" ELSE "leftovers"
        /\ UNCHANGED <<commands, scopeReplies, rootDocket, dockets, life>>
     \/ /\ commands # <<>>
        /\ Route(Head(commands))
        /\ commands' = Tail(commands)
        /\ UNCHANGED xPc
  /\ UNCHANGED <<ownerVars, gateClosed, rootReceipts, ledger, retiring, rootHeld, scopeHeld>>

AnswerRoot(b) ==
  /\ rootDocket' = rootDocket \ {b}
  /\ rootReceipts' = Push(rootReceipts, Receipt(b, "Rejected"), RootCapacity)

AnswerScope(b, outcome) ==
  /\ dockets' = [dockets EXCEPT ![b.scope] = @ \ {b}]
  /\ scopeReplies' = Push(scopeReplies, Receipt(b, outcome), ScopeRoom)

(* The executor answers a batch of either level; one applied shifts the    *)
(* target.  Which outcome and when is CommandChannel's business, and the   *)
(* root's outcomes are not told apart.                                     *)
WalkRoot ==
  /\ xPc = "walk"
  /\ \E b \in rootDocket : AnswerRoot(b)
  /\ UNCHANGED <<ownerVars, gateClosed, commands, scopeReplies, dockets, ledger, life, xPc,
                 retiring, rootHeld, scopeHeld>>

WalkScope(s, outcome) ==
  /\ xPc = "walk"
  /\ \E b \in dockets[s] :
       /\ AnswerScope(b, outcome)
       /\ ledger' = [ledger EXCEPT ![s] = IF outcome = "Applied" THEN Later(@, b.seq) ELSE @]
  /\ UNCHANGED <<ownerVars, gateClosed, commands, rootReceipts, rootDocket, life, xPc,
                 retiring, rootHeld, scopeHeld>>

(* LevelInbox::retire, which retire_closing calls on every closing scope   *)
(* after a drain: the leftovers first ...                                  *)
RetireStart(s) ==
  /\ xPc = "walk"
  /\ life[s].closing
  /\ xPc' = "retire"
  /\ retiring' = s
  /\ UNCHANGED <<ownerVars, gateClosed, rings, rootDocket, dockets, ledger, life,
                 rootHeld, scopeHeld>>

RetireLeftover ==
  /\ xPc = "retire"
  /\ \E b \in dockets[retiring] : AnswerScope(b, "Rejected")
  /\ UNCHANGED <<ownerVars, gateClosed, commands, rootReceipts, rootDocket, ledger, life, xPc,
                 retiring, rootHeld, scopeHeld>>

(* ... then a clean ledger, the next generation, and Closed. *)
(* Variant of RetireEnd: Closed goes out before the leftovers do.          *)
RetireEndEarly ==
  /\ xPc = "retire"
  /\ ledger' = [ledger EXCEPT ![retiring] = None]
  /\ life' = [life EXCEPT ![retiring] = [gen |-> @.gen + 1, closing |-> FALSE]]
  /\ scopeReplies' = Push(scopeReplies, ClosedReply(retiring, life[retiring].gen), ScopeRoom)
  /\ xPc' = "walk"
  /\ retiring' = 0
  /\ UNCHANGED <<ownerVars, gateClosed, commands, rootReceipts, rootDocket, dockets,
                 rootHeld, scopeHeld>>
(* Variant of RetireEnd: the executor forgets to say Closed.               *)
RetireSilently ==
  /\ xPc = "retire" /\ dockets[retiring] = {}
  /\ ledger' = [ledger EXCEPT ![retiring] = None]
  /\ life' = [life EXCEPT ![retiring] = [gen |-> @.gen + 1, closing |-> FALSE]]
  /\ xPc' = "walk"
  /\ retiring' = 0
  /\ UNCHANGED <<scopeReplies, ownerVars, gateClosed, commands, rootReceipts, rootDocket,
                 dockets, rootHeld, scopeHeld>>
RetireEnd ==
  /\ xPc = "retire" /\ dockets[retiring] = {}
  /\ ledger' = [ledger EXCEPT ![retiring] = None]
  /\ life' = [life EXCEPT ![retiring] = [gen |-> @.gen + 1, closing |-> FALSE]]
  /\ scopeReplies' = Push(scopeReplies, ClosedReply(retiring, life[retiring].gen), ScopeRoom)
  /\ xPc' = "walk"
  /\ retiring' = 0
  /\ UNCHANGED <<ownerVars, gateClosed, commands, rootReceipts, rootDocket, dockets,
                 rootHeld, scopeHeld>>

(* Drop for ScopedInbox: the gate, a last drain, every leftover, then its  *)
(* ends of the rings in the order of its fields.                           *)
CloseGate ==
  /\ xPc = "walk"
  /\ gateClosed' = TRUE
  /\ xPc' = "dropDrain"
  /\ UNCHANGED <<ownerVars, rings, rootDocket, dockets, ledger, life, retiring,
                 rootHeld, scopeHeld>>

(* Variant of Unanswered: the leftovers are dropped without an answer.     *)
UnansweredDiscards ==
  /\ xPc = "leftovers"
  /\ rootDocket' = {} /\ dockets' = [s \in Scopes |-> {}]
  /\ xPc' = "releaseRoot"
  /\ UNCHANGED <<ownerVars, gateClosed, rings, ledger, life, retiring, rootHeld, scopeHeld>>
Unanswered ==
  /\ xPc = "leftovers"
  /\ \/ /\ \E b \in rootDocket : AnswerRoot(b)
        /\ UNCHANGED <<dockets, scopeReplies, xPc>>
     \/ /\ rootDocket = {}
        /\ \E s \in Scopes : \E b \in dockets[s] : AnswerScope(b, "Rejected")
        /\ UNCHANGED <<rootDocket, rootReceipts, xPc>>
     \/ /\ rootDocket = {} /\ \A s \in Scopes : dockets[s] = {}
        /\ xPc' = "releaseRoot"
        /\ UNCHANGED <<rootDocket, rootReceipts, dockets, scopeReplies>>
  /\ UNCHANGED <<ownerVars, gateClosed, commands, ledger, life, retiring, rootHeld, scopeHeld>>

Release ==
  /\ \/ /\ xPc = "releaseRoot"
        /\ xPc' = "releaseScope"
        /\ rootHeld' = FALSE
        /\ UNCHANGED scopeHeld
     \/ /\ xPc = "releaseScope"
        /\ xPc' = "gone"
        /\ scopeHeld' = FALSE
        /\ UNCHANGED rootHeld
  /\ UNCHANGED <<ownerVars, gateClosed, rings, rootDocket, dockets, ledger, life, retiring>>

Executor ==
  \/ StartDrain \/ Drain \/ WalkRoot
  \/ \E s \in Scopes, outcome \in {"Applied", "Rejected"} : WalkScope(s, outcome)
  \/ \E s \in Scopes : RetireStart(s)
  \/ RetireLeftover \/ RetireEnd
  \/ CloseGate \/ Unanswered \/ Release

-----------------------------------------------------------------------------
Init ==
  /\ next = 1
  /\ rootCredits = RootCapacity
  /\ slots = [s \in Scopes |-> [state |-> "Free", gen |-> 0, credits |-> ScopeCapacity,
                                applied |-> None]]
  /\ staged = <<>> /\ commands = <<>> /\ rootReceipts = <<>> /\ scopeReplies = <<>>
  /\ sPc = "idle"
  /\ gateClosed = FALSE
  /\ rootDocket = {}
  /\ dockets = [s \in Scopes |-> {}]
  /\ ledger = [s \in Scopes |-> None]
  /\ life = [s \in Scopes |-> [gen |-> 0, closing |-> FALSE]]
  /\ xPc = "walk"
  /\ retiring = 0
  /\ rootHeld = TRUE /\ scopeHeld = TRUE
  /\ since = [s \in Scopes |-> 1]

Next == Owner \/ Executor
Spec == Init /\ [][Next]_vars

(* The owner publishes what it staged and keeps reading; the executor      *)
(* keeps draining, retires what closes, and finishes a drop it began.      *)
Retiring == RetireLeftover \/ RetireEnd \/ \E s \in Scopes : RetireStart(s)
Dropping == (gateClosed /\ Drain) \/ Unanswered \/ Release
Fairness ==
  /\ SF_vars(PublishEnter) /\ WF_vars(PublishPush)
  /\ SF_vars(ReceiptEnter) /\ WF_vars(RecoverOrphans \/ RootReceipt \/ ReceiptPop)
  /\ SF_vars(StartDrain) /\ WF_vars(Drain)
  /\ SF_vars(Retiring)
  /\ WF_vars(Dropping)

-----------------------------------------------------------------------------
TypeOK ==
  /\ next \in 1 .. MaxSeq + 1
  /\ rootCredits \in 0 .. RootCapacity
  /\ slots \in [Scopes -> [state : {"Free", "Open", "Closing"}, gen : Gens,
                           credits : 0 .. ScopeCapacity, applied : 0 .. MaxSeq]]
  /\ staged \in Seq(Item) /\ commands \in Seq(Item)
  /\ rootReceipts \in Seq(Reply) /\ scopeReplies \in Seq(Reply)
  /\ sPc \in {"idle", "publish", "recover", "pop", "popScope"}
  /\ gateClosed \in BOOLEAN /\ rootHeld \in BOOLEAN /\ scopeHeld \in BOOLEAN
  /\ rootDocket \subseteq Item
  /\ dockets \in [Scopes -> SUBSET Item]
  /\ ledger \in [Scopes -> 0 .. MaxSeq]
  /\ life \in [Scopes -> [gen : Gens, closing : BOOLEAN]]
  /\ xPc \in {"walk", "drain", "retire", "dropDrain", "leftovers", "releaseRoot",
              "releaseScope", "gone"}
  /\ retiring \in 0 .. NScopes
  /\ since \in [Scopes -> 1 .. MaxSeq + 1]

(* Where the batches, or receipts, of level s are in a ring; and the last  *)
(* of a level there.                                                       *)
BatchesOf(q, s) == {i \in DOMAIN q : q[i].scope = s /\ q[i].kind \notin {"close", "Closed"}}
Batches(q, s) == Cardinality(BatchesOf(q, s))
LastOfLevel(q, i) == \A j \in DOMAIN q : i < j => q[j].scope # q[i].scope

(* While the inbox lives, a credit of a level is in exactly one place: in  *)
(* the sender's book, staged, in the ring, in the docket, or in a receipt  *)
(* not read yet.  No push to any of the shared rings was ever refused, and *)
(* neither a Close nor another level's batches cost a level a credit.      *)
CreditsBalance ==
  ~gateClosed =>
    /\ rootCredits + Batches(staged, Root) + Batches(commands, Root)
         + Cardinality(rootDocket) + Len(rootReceipts) = RootCapacity
    /\ \A s \in Scopes :
         slots[s].credits + Batches(staged, s) + Batches(commands, s)
           + Cardinality(dockets[s]) + Batches(scopeReplies, s) = ScopeCapacity

(* Nothing on its way belongs to another incarnation of its slot than the  *)
(* side that will read it: an item in the ring is of the inbox's           *)
(* generation, a reply of the sender's, and Close and Closed come last.    *)
GenerationsAgree ==
  LET items == commands \o staged IN
  /\ scopeHeld => \A i \in DOMAIN items : items[i].scope # Root =>
       /\ items[i].gen = life[items[i].scope].gen
       /\ items[i].kind = "close" => LastOfLevel(items, i)
  /\ \A i \in DOMAIN scopeReplies :
       /\ scopeReplies[i].gen = slots[scopeReplies[i].scope].gen
       /\ scopeReplies[i].kind = "Closed" => LastOfLevel(scopeReplies, i)

(* A pass the ports admitted fits in the ring as it is published, the      *)
(* Close of every scope included.                                          *)
PassFits == Len(staged) <= Vacant

(* What the owner finds in the ring once the inbox is gone, a pass pushed  *)
(* behind the gate with all its Closes, has room among the answers that    *)
(* nobody has read yet ("credits bound orphaned receipts").                *)
OrphansFit ==
  sPc = "recover" /\ commands # <<>> =>
    IF Head(commands).scope = Root THEN Len(rootReceipts) < RootCapacity
                                   ELSE Len(scopeReplies) < ScopeRoom

(* Whatever the owner pushes finds room, although Close asks for none: a   *)
(* pass in the ring of commands, an orphan's answer in the rings of        *)
(* answers. A push without room would lose a batch and its credit.         *)
NothingOverflows == PassFits /\ OrphansFit

(* What the book and the ledger of an open scope remember was sent since   *)
(* it was opened: no basis is judged by a batch of a former incarnation.   *)
OwnHistory ==
  \A s \in Scopes : slots[s].state = "Open" /\ scopeHeld =>
    \A q \in {slots[s].applied, ledger[s]} : q = None \/ q >= since[s]
=============================================================================
