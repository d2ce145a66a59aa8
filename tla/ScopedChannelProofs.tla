------------------------- MODULE ScopedChannelProofs -------------------------
(***************************************************************************)
(* Proofs about ScopedChannel, for any number of scopes, any capacities    *)
(* and any bounds on batches and generations.                              *)
(*                                                                         *)
(* What the owner staged and what it published are one queue, pipe: a pass *)
(* that is published moves nothing in it.  A batch of a scope goes from    *)
(* there to the docket and to the ring of replies, and the token of a      *)
(* Close from there to the lifecycle's flag and to a Closed.  ScopedInv    *)
(* says, of each of these places, that what is there belongs to the        *)
(* incarnation the owner's slot is in, and that a Closed has nothing of    *)
(* its scope before or behind it that is still to be answered.             *)
(*                                                                         *)
(* The balance of a level bounds what it has in each ring, and the rings   *)
(* are shared: that the bounds add up is a counting argument over places   *)
(* (RingRoom), not an induction over scopes.                               *)
(***************************************************************************)
EXTENDS ScopedChannel, FiniteSetTheorems, TLAPS

(* What the owner sent and nobody drained.                                 *)
pipe == commands \o staged

(* No Closed of scope s is on its way to the owner.                        *)
NoneClosed(s) ==
  \A k \in DOMAIN scopeReplies : scopeReplies[k].scope = s => scopeReplies[k].kind # "Closed"

(* The program counters, the gate and the ends of the rings agree.         *)
PcInv ==
  /\ gateClosed <=> xPc \notin {"walk", "drain", "retire"}
  /\ rootHeld <=> xPc \notin {"releaseScope", "gone"}
  /\ scopeHeld <=> xPc # "gone"
  /\ sPc = "recover" => xPc = "gone"
  /\ xPc = "retire" => retiring \in Scopes /\ life[retiring].closing

(* Numbers in the pipe rise, and are older than the next one.              *)
PipeInv ==
  /\ \A i \in DOMAIN pipe : pipe[i].kind = "batch" => pipe[i].seq < next
  /\ \A i, j \in DOMAIN pipe :
       i < j => /\ pipe[i].kind = "batch" /\ pipe[j].kind = "batch" => pipe[i].seq < pipe[j].seq
                /\ pipe[i].kind = "close" => pipe[j].scope # pipe[i].scope

(* What is in the pipe for a scope is of its incarnation, which is not     *)
(* being retired.                                                          *)
PipeOwn ==
  \A i \in DOMAIN pipe : pipe[i].scope # Root =>
    LET s == pipe[i].scope IN
    /\ pipe[i].gen = slots[s].gen
    /\ slots[s].state # "Free"
    /\ pipe[i].kind = "batch" => since[s] <= pipe[i].seq
    /\ pipe[i].kind = "close" => slots[s].state = "Closing" /\ slots[s].gen < MaxGen
    /\ ~life[s].closing
    /\ NoneClosed(s)

(* A batch in a docket is older than the pipe ...                          *)
Drained(b) ==
  /\ b.kind = "batch"
  /\ b.seq < next
  /\ \A i \in DOMAIN pipe : pipe[i].kind = "batch" => b.seq < pipe[i].seq

(* ... and of the incarnation of its scope; a drop leaves none behind.     *)
DocketInv ==
  /\ IsFiniteSet(rootDocket)
  /\ \A b \in rootDocket : b.scope = Root /\ Drained(b)
  /\ \A s \in Scopes :
       /\ IsFiniteSet(dockets[s])
       /\ \A b \in dockets[s] :
            /\ b.scope = s /\ Drained(b)
            /\ b.gen = slots[s].gen
            /\ slots[s].state # "Free"
            /\ since[s] <= b.seq
            /\ NoneClosed(s)
  /\ xPc \in {"releaseRoot", "releaseScope", "gone"} =>
       rootDocket = {} /\ \A s \in Scopes : dockets[s] = {}

(* So is a reply, and Closed is the last of its scope.                     *)
ReplyInv ==
  \A k \in DOMAIN scopeReplies :
    LET s == scopeReplies[k].scope IN
    /\ s \in Scopes
    /\ scopeReplies[k].gen = slots[s].gen
    /\ slots[s].state # "Free"
    /\ scopeReplies[k].kind # "Closed" => since[s] <= scopeReplies[k].seq
    /\ scopeReplies[k].kind = "Closed" => /\ slots[s].state = "Closing"
                                          /\ slots[s].gen < MaxGen
                                          /\ LastOfLevel(scopeReplies, k)

(* The inbox is one incarnation ahead of the owner exactly while a Closed  *)
(* is on its way, and then its ledger is clean.                            *)
LifeInv ==
  \A s \in Scopes :
    /\ life[s].closing => /\ slots[s].state = "Closing"
                          /\ life[s].gen = slots[s].gen /\ slots[s].gen < MaxGen
                          /\ NoneClosed(s)
    /\ scopeHeld => life[s].gen = IF NoneClosed(s) THEN slots[s].gen ELSE slots[s].gen + 1
    /\ scopeHeld /\ ledger[s] # None =>
         slots[s].state # "Free" /\ since[s] <= ledger[s] /\ NoneClosed(s)
    /\ slots[s].state # "Free" /\ slots[s].applied # None => since[s] <= slots[s].applied
    /\ since[s] <= next

(* The credits of a level: none are made up, and none are lost before the  *)
(* gate closes.                                                            *)
RootFlight ==
  rootCredits + Batches(pipe, Root) + Cardinality(rootDocket) + Len(rootReceipts)
Flight(s) ==
  slots[s].credits + Batches(pipe, s) + Cardinality(dockets[s]) + Batches(scopeReplies, s)
BalanceInv ==
  /\ RootFlight <= RootCapacity /\ (~gateClosed => RootFlight = RootCapacity)
  /\ \A s \in Scopes :
       Flight(s) <= ScopeCapacity /\ (~gateClosed => Flight(s) = ScopeCapacity)

ScopedInv ==
  TypeOK /\ PcInv /\ PipeInv /\ PipeOwn /\ DocketInv /\ ReplyInv /\ LifeInv /\ BalanceInv

-----------------------------------------------------------------------------
(* Counting the batches of a level in a ring.                              *)

(* Whether x is a batch, or a receipt, of level s.                         *)
Counts(x, s) == IF x.scope = s /\ x.kind \notin {"close", "Closed"} THEN 1 ELSE 0

(* A set that misses one is smaller.                                       *)
LEMMA SmallerCount ==
  ASSUME NEW S, IsFiniteSet(S), NEW T, T \subseteq S, NEW x \in S, x \notin T
  PROVE  /\ IsFiniteSet(T) /\ Cardinality(T) \in Nat /\ Cardinality(S) \in Nat
         /\ Cardinality(T) < Cardinality(S)
<1>1. T \in SUBSET (S \ {x})
  OBVIOUS
<1>2. /\ IsFiniteSet(S \ {x}) /\ Cardinality(S \ {x}) = Cardinality(S) - 1
      /\ Cardinality(S) \in Nat
  BY FS_RemoveElement, FS_CardinalityType
<1>3. IsFiniteSet(T) /\ Cardinality(T) <= Cardinality(S \ {x}) /\ Cardinality(T) \in Nat
  BY <1>1, <1>2, FS_Subset, FS_CardinalityType
<1> QED
  BY <1>2, <1>3

(* A level has finitely many batches in a ring.                            *)
LEMMA BatchesFinite ==
  ASSUME NEW T, NEW q \in Seq(T), NEW s
  PROVE  IsFiniteSet(BatchesOf(q, s)) /\ Batches(q, s) \in Nat
<1>1. IsFiniteSet(1 .. Len(q))
  BY FS_Interval
<1>2. BatchesOf(q, s) \in SUBSET (1 .. Len(q))
  BY DEF BatchesOf
<1> QED
  BY <1>1, <1>2, FS_Subset, FS_CardinalityType DEF Batches

(* Moving places along by k keeps how many there are.                      *)
LEMMA ShiftCount ==
  ASSUME NEW D, D \subseteq Int, IsFiniteSet(D), NEW k \in Int,
         NEW R, \A i \in D : i + k \in R, \A j \in R : j \in Int /\ j - k \in D
  PROVE  IsFiniteSet(R) /\ Cardinality(R) = Cardinality(D)
<1> DEFINE f == [i \in D |-> i + k]
<1>1. f \in [D -> R] /\ \A i \in D : f[i] = i + k
  OBVIOUS
<1>2. \A i, j \in D : f[i] = f[j] => i = j
  BY <1>1
<1>3. \A j \in R : \E i \in D : f[i] = j
  <2> SUFFICES ASSUME NEW j \in R PROVE \E i \in D : f[i] = j
    OBVIOUS
  <2>1. j - k \in D /\ f[j - k] = j
    BY <1>1
  <2> QED
    BY <2>1
<1> HIDE DEF f
<1>4. f \in Bijection(D, R)
  BY <1>1, <1>2, <1>3 DEF Bijection, Injection, Surjection, IsInjective
<1> QED
  BY <1>4, FS_Bijection DEF ExistsBijection

(* A push counts once more.                                                *)
LEMMA AppendCount ==
  ASSUME NEW T, NEW q \in Seq(T), NEW x \in T, NEW s
  PROVE  Batches(Append(q, x), s) = Batches(q, s) + Counts(x, s)
<1>1. PICK p : p = Append(q, x)
  OBVIOUS
<1>2. p \in Seq(T) /\ Len(p) = Len(q) + 1 /\ DOMAIN p = 1 .. Len(q) + 1
  BY <1>1
<1>3. \A i \in 1 .. Len(q) : p[i] = q[i]
  BY <1>1
<1>4. p[Len(q) + 1] = x /\ DOMAIN q = 1 .. Len(q) /\ Len(q) \in Nat
  BY <1>1
<1>5. IsFiniteSet(BatchesOf(q, s)) /\ Batches(q, s) \in Nat
  BY BatchesFinite
<1>6. Len(q) + 1 \notin BatchesOf(q, s)
  BY <1>4 DEF BatchesOf
<1>7. CASE x.scope = s /\ x.kind \notin {"close", "Closed"}
  <2>1. BatchesOf(p, s) = BatchesOf(q, s) \cup {Len(q) + 1}
    BY <1>2, <1>3, <1>4, <1>7 DEF BatchesOf
  <2>2. Cardinality(BatchesOf(q, s) \cup {Len(q) + 1}) = Cardinality(BatchesOf(q, s)) + 1
    BY <1>5, <1>6, FS_AddElement
  <2> QED
    BY <1>1, <1>7, <2>1, <2>2 DEF Counts, Batches
<1>8. CASE ~(x.scope = s /\ x.kind \notin {"close", "Closed"})
  <2>1. BatchesOf(p, s) = BatchesOf(q, s)
    BY <1>2, <1>3, <1>4, <1>8 DEF BatchesOf
  <2> QED
    BY <1>1, <1>5, <1>8, <2>1 DEF Counts, Batches
<1> QED
  BY <1>7, <1>8

(* Two rings one behind the other count together.                          *)
LEMMA ConcatCount ==
  ASSUME NEW T, NEW p \in Seq(T), NEW q \in Seq(T), NEW s
  PROVE  Batches(p \o q, s) = Batches(p, s) + Batches(q, s)
<1>1. PICK r : r = p \o q
  OBVIOUS
<1>2. /\ DOMAIN r = 1 .. Len(p) + Len(q) /\ DOMAIN p = 1 .. Len(p) /\ DOMAIN q = 1 .. Len(q)
      /\ Len(p) \in Nat /\ Len(q) \in Nat
  BY <1>1
<1>3. \A i \in 1 .. Len(p) : r[i] = p[i]
  BY <1>1
<1>4. \A i \in 1 .. Len(q) : r[i + Len(p)] = q[i]
  BY <1>1
<1>5. PICK R : R = BatchesOf(r, s) \ BatchesOf(p, s)
  OBVIOUS
<1>6. /\ IsFiniteSet(BatchesOf(p, s)) /\ Batches(p, s) \in Nat
      /\ IsFiniteSet(BatchesOf(q, s)) /\ Batches(q, s) \in Nat
  BY BatchesFinite
<1>7. BatchesOf(q, s) \subseteq Int
  BY <1>2 DEF BatchesOf
<1>8. \A i \in BatchesOf(q, s) : i + Len(p) \in R
  BY <1>2, <1>4, <1>5 DEF BatchesOf
<1>9. \A j \in R : j \in Int /\ j - Len(p) \in BatchesOf(q, s)
  <2> SUFFICES ASSUME NEW j \in R PROVE j \in Int /\ j - Len(p) \in BatchesOf(q, s)
    OBVIOUS
  <2>1. /\ j \in 1 .. Len(p) + Len(q) /\ j \notin 1 .. Len(p)
        /\ r[j].scope = s /\ r[j].kind \notin {"close", "Closed"}
    BY <1>2, <1>3, <1>5 DEF BatchesOf
  <2>2. j - Len(p) \in 1 .. Len(q) /\ r[j] = q[j - Len(p)]
    BY <1>2, <1>4, <2>1
  <2> QED
    BY <1>2, <2>1, <2>2 DEF BatchesOf
<1>10. IsFiniteSet(R) /\ Cardinality(R) = Cardinality(BatchesOf(q, s))
  <2>1. Len(p) \in Int
    BY <1>2
  <2> QED
    BY <1>6, <1>7, <1>8, <1>9, <2>1, ShiftCount, Zenon
<1>11. BatchesOf(p, s) \cup R = BatchesOf(r, s) /\ BatchesOf(p, s) \cap R = {}
  BY <1>2, <1>3, <1>5 DEF BatchesOf
<1>12. Cardinality(BatchesOf(p, s) \cup R)
        = Cardinality(BatchesOf(p, s)) + Cardinality(R) - Cardinality(BatchesOf(p, s) \cap R)
  BY <1>6, <1>10, FS_Union
<1>13. Cardinality(BatchesOf(r, s)) = Cardinality(BatchesOf(p, s)) + Cardinality(R)
  <2>1. Cardinality(BatchesOf(p, s) \cap R) = 0
    BY <1>11, FS_EmptySet
  <2>2. Cardinality(BatchesOf(p, s)) \in Nat /\ Cardinality(R) \in Nat
    BY <1>6, <1>10 DEF Batches
  <2>3. PICK c : c = Cardinality(BatchesOf(p, s) \cap R)
    OBVIOUS
  <2>4. Cardinality(BatchesOf(r, s)) = Cardinality(BatchesOf(p, s)) + Cardinality(R) - c
    BY <1>11, <1>12, <2>3
  <2>5. c = 0
    BY <2>1, <2>3
  <2> QED
    BY <2>2, <2>4, <2>5
<1> QED
  BY <1>1, <1>10, <1>13 DEF Batches

(* A pop counts once less.                                                 *)
LEMMA TailCount ==
  ASSUME NEW T, NEW q \in Seq(T), q # <<>>, NEW s
  PROVE  Batches(q, s) = Counts(Head(q), s) + Batches(Tail(q), s)
<1>1. /\ Head(q) \in T /\ Tail(q) \in Seq(T) /\ <<>> \in Seq(T)
      /\ Append(<<>>, Head(q)) \in Seq(T)
  OBVIOUS
<1>2. q = Append(<<>>, Head(q)) \o Tail(q)
  OBVIOUS
<1>3. Batches(q, s) = Batches(Append(<<>>, Head(q)), s) + Batches(Tail(q), s)
  <2>1. PICK h, t : h = Append(<<>>, Head(q)) /\ t = Tail(q)
    OBVIOUS
  <2>2. h \in Seq(T) /\ t \in Seq(T) /\ q = h \o t
    BY <1>1, <1>2, <2>1
  <2>3. Batches(h \o t, s) = Batches(h, s) + Batches(t, s)
    BY <2>2, ConcatCount, Zenon
  <2> QED
    BY <2>1, <2>2, <2>3, Zenon
<1>4. BatchesOf(<<>>, s) = {}
  BY DEF BatchesOf
<1>5. Batches(<<>>, s) = 0
  BY <1>4, FS_EmptySet DEF Batches
<1>6. Batches(Append(<<>>, Head(q)), s) = 0 + Counts(Head(q), s)
  BY <1>1, <1>5, AppendCount
<1>7. Counts(Head(q), s) \in Nat
  BY DEF Counts
<1> QED
  BY <1>3, <1>6, <1>7

(* An empty ring has nothing of any level.                                 *)
LEMMA EmptyCount == ASSUME NEW s PROVE Batches(<<>>, s) = 0
<1>1. BatchesOf(<<>>, s) = {}
  BY DEF BatchesOf
<1> QED
  BY <1>1, FS_EmptySet DEF Batches

(* A ring shared by all scopes has a place for each credit and each Close  *)
(* of each of them: a scope's batches are told apart by how many of its    *)
(* batches stand before, and the Close or Closed comes last.               *)
LEMMA RingRoom ==
  ASSUME NEW T, NEW q \in Seq(T),
         NEW P, P \subseteq DOMAIN q, \A i \in P : q[i].scope \in Scopes,
         \A s \in Scopes : Batches(q, s) <= ScopeCapacity,
         \A i \in P : q[i].kind \in {"close", "Closed"} => LastOfLevel(q, i)
  PROVE  IsFiniteSet(P) /\ Cardinality(P) <= ScopeRoom
<1> USE ScopedAssumption
<1> DEFINE Before(i) == {j \in BatchesOf(q, q[i].scope) : j < i}
           rank(i) == IF q[i].kind \in {"close", "Closed"} THEN ScopeCapacity
                                                           ELSE Cardinality(Before(i))
           f == [i \in P |-> <<q[i].scope, rank(i)>>]
<1>1. DOMAIN q = 1 .. Len(q) /\ Len(q) \in Nat
  OBVIOUS
<1>2. \A i \in P : /\ IsFiniteSet(BatchesOf(q, q[i].scope))
                   /\ Cardinality(BatchesOf(q, q[i].scope)) \in Nat
                   /\ Cardinality(BatchesOf(q, q[i].scope)) <= ScopeCapacity
  BY BatchesFinite DEF Batches
<1>3. ASSUME NEW i \in P, q[i].kind \notin {"close", "Closed"}
      PROVE  /\ IsFiniteSet(Before(i)) /\ Cardinality(Before(i)) \in Nat
             /\ Cardinality(Before(i)) < ScopeCapacity
  <2>1. Before(i) \in SUBSET BatchesOf(q, q[i].scope)
    OBVIOUS
  <2>2. i \in BatchesOf(q, q[i].scope) /\ i \notin Before(i)
    BY <1>1, <1>3 DEF BatchesOf
  <2> HIDE DEF Before
  <2>3. /\ IsFiniteSet(Before(i)) /\ Cardinality(Before(i)) \in Nat
        /\ Cardinality(Before(i)) < Cardinality(BatchesOf(q, q[i].scope))
    BY <1>2, <2>1, <2>2, SmallerCount
  <2> QED
    BY <1>2, <2>3
<1>4. ASSUME NEW i \in P PROVE rank(i) \in 0 .. ScopeCapacity
  <2>1. CASE q[i].kind \in {"close", "Closed"}
    BY <2>1
  <2>2. CASE q[i].kind \notin {"close", "Closed"}
    <3>1. Cardinality(Before(i)) \in Nat /\ Cardinality(Before(i)) < ScopeCapacity
      BY <1>3, <2>2
    <3> HIDE DEF Before
    <3> QED
      BY <2>2, <3>1
  <2> QED
    BY <2>1, <2>2
<1>5. ASSUME NEW i \in P, NEW j \in P, i < j, q[i].scope = q[j].scope
      PROVE  rank(i) # rank(j)
  <2>1. q[i].kind \notin {"close", "Closed"}
    BY <1>5 DEF LastOfLevel
  <2>2. CASE q[j].kind \in {"close", "Closed"}
    <3>1. rank(i) < ScopeCapacity /\ rank(j) = ScopeCapacity
      BY <1>3, <2>1, <2>2
    <3> QED
      BY <1>4, <3>1
  <2>3. CASE q[j].kind \notin {"close", "Closed"}
    <3>1. Before(i) \in SUBSET Before(j)
      BY <1>1, <1>5 DEF BatchesOf
    <3>2. i \in Before(j) /\ i \notin Before(i)
      BY <1>1, <1>5, <2>1 DEF BatchesOf
    <3>3. IsFiniteSet(Before(j))
      BY <1>3, <2>3
    <3>4. rank(i) = Cardinality(Before(i)) /\ rank(j) = Cardinality(Before(j))
      BY <2>1, <2>3
    <3> HIDE DEF Before, rank
    <3>5. /\ Cardinality(Before(i)) \in Nat /\ Cardinality(Before(j)) \in Nat
          /\ Cardinality(Before(i)) < Cardinality(Before(j))
      BY <3>1, <3>2, <3>3, SmallerCount
    <3> QED
      BY <3>4, <3>5
  <2> QED
    BY <2>2, <2>3
<1> HIDE DEF rank
<1>6. f \in [P -> Scopes \X (0 .. ScopeCapacity)]
  BY <1>4
<1>7. \A i, j \in P : f[i] = f[j] => i = j
  <2> SUFFICES ASSUME NEW i \in P, NEW j \in P, f[i] = f[j] PROVE i = j
    OBVIOUS
  <2>1. q[i].scope = q[j].scope /\ rank(i) = rank(j)
    OBVIOUS
  <2>2. ~(i < j) /\ ~(j < i)
    BY <1>5, <2>1
  <2> QED
    BY <1>1, <2>2
<1> HIDE DEF f
<1>8. f \in Injection(P, Scopes \X (0 .. ScopeCapacity))
  BY <1>6, <1>7 DEF Injection, IsInjective
<1>9. IsFiniteSet(Scopes) /\ Cardinality(Scopes) = NScopes
  BY FS_Interval DEF Scopes
<1>10. IsFiniteSet(0 .. ScopeCapacity) /\ Cardinality(0 .. ScopeCapacity) = ScopeCapacity + 1
  BY FS_Interval
<1>11. /\ IsFiniteSet(Scopes \X (0 .. ScopeCapacity))
       /\ Cardinality(Scopes \X (0 .. ScopeCapacity)) = NScopes * (ScopeCapacity + 1)
  BY <1>9, <1>10, FS_Product
<1> QED
  BY <1>8, <1>11, FS_Injection DEF ScopeRoom

-----------------------------------------------------------------------------
(* What the operators of the channel return.                               *)

(* The fields of an item.                                                  *)
LEMMA ItemFields ==
  ASSUME NEW x \in Item
  PROVE  /\ x.kind \in {"batch", "close"} /\ x.scope \in {Root} \cup Scopes
         /\ x.gen \in Gens
         /\ x.kind = "batch" => x.seq \in Seqs
         /\ x.scope = Root => x.kind = "batch"
BY ScopedAssumption DEF Item, Scopes, Root

(* The fields of a reply.                                                  *)
LEMMA ReplyFields ==
  ASSUME NEW x \in Reply
  PROVE  /\ x.kind \in {"Applied", "Rejected", "Closed"} /\ x.scope \in {Root} \cup Scopes
         /\ x.gen \in Gens
         /\ x.kind # "Closed" => x.seq \in Seqs
BY DEF Reply

(* The receipt of a batch keeps its level, generation and number.          *)
LEMMA ReceiptOf ==
  ASSUME NEW b \in Item, b.kind = "batch", NEW outcome \in {"Applied", "Rejected"}
  PROVE  /\ Receipt(b, outcome) \in Reply
         /\ Receipt(b, outcome).kind = outcome /\ Receipt(b, outcome).kind # "Closed"
         /\ Receipt(b, outcome).scope = b.scope /\ Receipt(b, outcome).gen = b.gen
         /\ Receipt(b, outcome).seq = b.seq
         /\ \A s : Counts(Receipt(b, outcome), s) = IF b.scope = s THEN 1 ELSE 0
<1>1. b.scope \in {Root} \cup Scopes /\ b.gen \in Gens /\ b.seq \in Seqs
  BY ItemFields
<1> QED
  BY <1>1 DEF Receipt, Reply, Counts

(* So does Closed.                                                         *)
LEMMA ClosedOf ==
  ASSUME NEW s \in Scopes, NEW g \in Gens
  PROVE  /\ ClosedReply(s, g) \in Reply
         /\ ClosedReply(s, g).kind = "Closed" /\ ClosedReply(s, g).scope = s
         /\ ClosedReply(s, g).gen = g
         /\ \A t : Counts(ClosedReply(s, g), t) = 0
BY DEF ClosedReply, Reply, Counts

(* What the owner stages are items.                                        *)
LEMMA BatchItem ==
  ASSUME NEW s \in {Root} \cup Scopes, NEW g \in Gens, NEW n \in Seqs,
         NEW x, x = [kind |-> "batch", scope |-> s, gen |-> g, seq |-> n]
  PROVE  /\ x \in Item /\ x.kind = "batch" /\ x.scope = s /\ x.gen = g /\ x.seq = n
         /\ \A t : Counts(x, t) = IF t = s THEN 1 ELSE 0
BY DEF Item, Counts

(* A Close carries no number and counts for no level.                      *)
LEMMA CloseItem ==
  ASSUME NEW s \in Scopes, NEW g \in Gens,
         NEW x, x = [kind |-> "close", scope |-> s, gen |-> g, seq |-> None]
  PROVE  /\ x \in Item /\ x.kind = "close" /\ x.scope = s /\ x.gen = g
         /\ \A t : Counts(x, t) = 0
BY DEF Item, Counts

(* How a queue changes: at its end, or at its front.                       *)
LEMMA Grown ==
  ASSUME NEW T, NEW q \in Seq(T), NEW x \in T, NEW p, p = Append(q, x)
  PROVE  /\ p \in Seq(T) /\ Len(p) = Len(q) + 1 /\ Len(q) \in Nat
         /\ DOMAIN p = 1 .. Len(q) + 1 /\ DOMAIN q = 1 .. Len(q)
         /\ \A i \in DOMAIN q : i \in DOMAIN p /\ p[i] = q[i] /\ i < Len(q) + 1
         /\ p[Len(q) + 1] = x /\ Len(q) + 1 \in DOMAIN p
         /\ \A i \in DOMAIN p : i \in DOMAIN q \/ i = Len(q) + 1
OBVIOUS

(* A queue that gave up its first element.                                 *)
LEMMA Shrunk ==
  ASSUME NEW T, NEW q \in Seq(T), q # <<>>, NEW p, p = Tail(q)
  PROVE  /\ p \in Seq(T) /\ Len(p) = Len(q) - 1 /\ Len(q) \in Nat /\ Len(q) > 0
         /\ 1 \in DOMAIN q /\ q[1] = Head(q) /\ Head(q) \in T
         /\ \A i \in DOMAIN p : i \in Nat /\ i + 1 \in DOMAIN q /\ p[i] = q[i + 1] /\ 1 < i + 1
OBVIOUS

(* The pipe is a queue of items.                                           *)
LEMMA PipeItems ==
  ASSUME TypeOK
  PROVE  /\ pipe \in Seq(Item) /\ Len(pipe) = Len(commands) + Len(staged)
         /\ DOMAIN pipe = 1 .. Len(pipe) /\ Len(pipe) \in Nat
         /\ \A i \in DOMAIN pipe : pipe[i] \in Item
BY DEF TypeOK, pipe

(* Staging adds to the end of the pipe.                                    *)
LEMMA PipeGrows ==
  ASSUME TypeOK, NEW x \in Item, staged' = Append(staged, x), commands' = commands
  PROVE  pipe' = Append(pipe, x)
<1>1. commands \in Seq(Item) /\ staged \in Seq(Item)
  BY DEF TypeOK
<1>2. commands \o Append(staged, x) = Append(commands \o staged, x)
  BY <1>1
<1> QED
  BY <1>2 DEF pipe

(* A pop takes the front of the pipe.                                      *)
LEMMA PipePops ==
  ASSUME TypeOK, commands # <<>>, commands' = Tail(commands), staged' = staged
  PROVE  pipe # <<>> /\ Head(pipe) = Head(commands) /\ pipe' = Tail(pipe)
<1>1. commands \in Seq(Item) /\ staged \in Seq(Item)
  BY DEF TypeOK
<1>2. /\ commands \o staged # <<>> /\ Head(commands \o staged) = Head(commands)
      /\ Tail(commands) \o staged = Tail(commands \o staged)
  BY <1>1
<1> QED
  BY <1>2 DEF pipe

(* Discarding what was staged leaves the front of the pipe.                *)
LEMMA PipeCut ==
  ASSUME TypeOK, staged' = <<>>, commands' = commands
  PROVE  /\ \A i \in DOMAIN pipe' : i \in DOMAIN pipe /\ pipe'[i] = pipe[i]
         /\ \A s : Batches(pipe', s) <= Batches(pipe, s) /\ Batches(pipe', s) \in Nat
<1>1. commands \in Seq(Item) /\ staged \in Seq(Item)
  BY DEF TypeOK
<1>2. pipe' = commands
  BY <1>1 DEF pipe
<1>3. \A i \in DOMAIN commands : i \in DOMAIN pipe /\ commands[i] = pipe[i]
  BY <1>1 DEF pipe
<1>4. ASSUME NEW s PROVE Batches(commands, s) <= Batches(pipe, s) /\ Batches(commands, s) \in Nat
  <2>1. Batches(pipe, s) = Batches(commands, s) + Batches(staged, s)
    BY <1>1, ConcatCount DEF pipe
  <2>2. Batches(commands, s) \in Nat /\ Batches(staged, s) \in Nat
    BY <1>1, BatchesFinite
  <2> QED
    BY <2>1, <2>2
<1> QED
  BY <1>2, <1>3, <1>4

(* Publishing a pass that fits moves nothing in the pipe.                  *)
LEMMA PipePublished ==
  ASSUME TypeOK, PassFits, PublishPush
  PROVE  pipe' = pipe /\ commands' \in Seq(Item) /\ staged' = <<>>
<1>1. commands \in Seq(Item) /\ staged \in Seq(Item) /\ Len(staged) \in Nat
  BY DEF TypeOK
<1>2. commands' = commands \o SubSeq(staged, 1, Len(staged)) /\ staged' = <<>>
  <2>1. CommandRoom \in Int /\ Len(commands) \in Nat
    BY <1>1, ScopedAssumption DEF CommandRoom, ScopeRoom
  <2>2. Vacant \in Int /\ Len(staged) <= Vacant
    BY <2>1 DEF PassFits, Vacant
  <2>3. (IF Vacant < Len(staged) THEN Vacant ELSE Len(staged)) = Len(staged)
    BY <1>1, <2>2
  <2> QED
    BY <2>3 DEF PublishPush
<1>3. SubSeq(staged, 1, Len(staged)) = staged
  BY <1>1
<1>4. commands' = pipe
  BY <1>2, <1>3 DEF pipe
<1>5. pipe \in Seq(Item)
  BY PipeItems
<1> QED
  BY <1>2, <1>4, <1>5 DEF pipe

-----------------------------------------------------------------------------
(* What the balance says of the rings.                                     *)

(* Counts are numbers.                                                     *)
LEMMA Numbers ==
  ASSUME ScopedInv
  PROVE  /\ rootCredits \in Nat /\ Batches(pipe, Root) \in Nat
         /\ Cardinality(rootDocket) \in Nat /\ Len(rootReceipts) \in Nat
         /\ \A s \in Scopes :
              /\ slots[s].credits \in Nat /\ Batches(pipe, s) \in Nat
              /\ Cardinality(dockets[s]) \in Nat /\ Batches(scopeReplies, s) \in Nat
<1>1. \A s : Batches(pipe, s) \in Nat /\ Batches(scopeReplies, s) \in Nat
  BY PipeItems, BatchesFinite DEF ScopedInv, TypeOK
<1>2. /\ Cardinality(rootDocket) \in Nat
      /\ \A s \in Scopes : Cardinality(dockets[s]) \in Nat
  BY FS_CardinalityType DEF ScopedInv, DocketInv
<1>3. /\ rootCredits \in Nat /\ Len(rootReceipts) \in Nat
      /\ \A s \in Scopes : slots[s].credits \in Nat
  BY ScopedAssumption DEF ScopedInv, TypeOK
<1> QED
  BY <1>1, <1>2, <1>3

(* The parts of a balance are within the capacity.                         *)
LEMMA Bounded ==
  ASSUME ScopedInv, NEW s \in Scopes
  PROVE  /\ Batches(pipe, s) <= ScopeCapacity /\ Batches(scopeReplies, s) <= ScopeCapacity
         /\ Batches(pipe, s) > 0 \/ Cardinality(dockets[s]) > 0 =>
              Batches(scopeReplies, s) < ScopeCapacity
<1>1. /\ slots[s].credits \in Nat /\ Batches(pipe, s) \in Nat
      /\ Cardinality(dockets[s]) \in Nat /\ Batches(scopeReplies, s) \in Nat
  BY Numbers
<1>2. slots[s].credits + Batches(pipe, s) + Cardinality(dockets[s]) + Batches(scopeReplies, s)
        <= ScopeCapacity
  BY DEF ScopedInv, BalanceInv, Flight
<1> QED
  BY <1>1, <1>2, ScopedAssumption

(* A pass fits: the root has its credits in the pipe, the scopes theirs    *)
(* and one Close each.                                                     *)
LEMMA PipeFits == ASSUME ScopedInv PROVE PassFits
<1> DEFINE P == {i \in DOMAIN pipe : pipe[i].scope # Root}
           R == BatchesOf(pipe, Root)
<1>1. /\ pipe \in Seq(Item) /\ Len(pipe) = Len(commands) + Len(staged)
      /\ DOMAIN pipe = 1 .. Len(pipe) /\ Len(pipe) \in Nat
      /\ \A i \in DOMAIN pipe : pipe[i] \in Item
  BY PipeItems DEF ScopedInv
<1>2. \A s \in Scopes : Batches(pipe, s) <= ScopeCapacity
  BY Bounded
<1>3. \A i \in P : pipe[i].scope \in Scopes
  BY <1>1, ItemFields
<1>4. \A i \in P : pipe[i].kind \in {"close", "Closed"} => LastOfLevel(pipe, i)
  BY <1>1, ItemFields DEF ScopedInv, PipeInv, LastOfLevel
<1>5. IsFiniteSet(P) /\ Cardinality(P) <= ScopeRoom
  BY <1>1, <1>2, <1>3, <1>4, RingRoom
<1>6. IsFiniteSet(R) /\ Cardinality(R) <= RootCapacity
  BY <1>1, Numbers, BatchesFinite, ScopedAssumption
     DEF ScopedInv, BalanceInv, RootFlight, Batches
<1>7. P \cup R = 1 .. Len(pipe) /\ P \cap R = {}
  BY <1>1, ItemFields DEF BatchesOf
<1> HIDE DEF P, R
<1>8. Cardinality(P) \in Nat /\ Cardinality(R) \in Nat
  BY <1>5, <1>6, FS_CardinalityType
<1>9. Cardinality(P \cup R) = Cardinality(P) + Cardinality(R) - Cardinality(P \cap R)
  BY <1>5, <1>6, FS_Union
<1>10. Cardinality(P \cap R) = 0
  BY <1>7, FS_EmptySet
<1>11. Cardinality(P \cup R) = Len(pipe)
  <2>1. Cardinality(1 .. Len(pipe)) = Len(pipe)
    BY <1>1, FS_Interval
  <2> QED
    BY <1>7, <2>1
<1>12. Len(pipe) = Cardinality(P) + Cardinality(R)
  BY <1>8, <1>9, <1>10, <1>11
<1>13. ScopeRoom \in Nat /\ Len(commands) \in Nat /\ Len(staged) \in Nat
  BY ScopedAssumption DEF ScopeRoom, ScopedInv, TypeOK
<1> QED
  BY <1>1, <1>5, <1>6, <1>8, <1>12, <1>13, ScopedAssumption DEF PassFits, Vacant, CommandRoom

(* The reply of a scope always finds room: a receipt as long as the scope  *)
(* has a credit that is not in the ring yet, a Closed if it has none there.*)
LEMMA ReplyLands ==
  ASSUME ScopedInv, NEW x \in Reply, x.scope \in Scopes, NoneClosed(x.scope),
         x.kind # "Closed" => Batches(scopeReplies, x.scope) < ScopeCapacity
  PROVE  /\ Len(scopeReplies) < ScopeRoom
         /\ Push(scopeReplies, x, ScopeRoom) = Append(scopeReplies, x)
<1> DEFINE n == Len(scopeReplies) + 1
<1>1. PICK p : p = Append(scopeReplies, x)
  OBVIOUS
<1>2. scopeReplies \in Seq(Reply)
  BY DEF ScopedInv, TypeOK
<1>3. /\ p \in Seq(Reply) /\ Len(p) = n /\ Len(scopeReplies) \in Nat
      /\ DOMAIN p = 1 .. n
      /\ \A i \in DOMAIN scopeReplies : i \in DOMAIN p /\ p[i] = scopeReplies[i] /\ i < n
      /\ p[n] = x
      /\ \A i \in DOMAIN p : i \in DOMAIN scopeReplies \/ i = n
  BY <1>1, <1>2, Grown
<1>4. \A i \in DOMAIN p : p[i].scope \in Scopes
  BY <1>3 DEF ScopedInv, ReplyInv
<1>5. ASSUME NEW s \in Scopes PROVE Batches(p, s) <= ScopeCapacity
  <2>1. Batches(p, s) = Batches(scopeReplies, s) + Counts(x, s)
    BY <1>1, <1>2, AppendCount
  <2>2. Batches(scopeReplies, s) \in Nat /\ Batches(scopeReplies, s) <= ScopeCapacity
    BY Numbers, Bounded
  <2>3. Counts(x, s) = 0 \/ (Counts(x, s) = 1 /\ x.scope = s /\ x.kind # "Closed")
    BY DEF Counts
  <2> QED
    BY <2>1, <2>2, <2>3, ScopedAssumption
<1>6. ASSUME NEW i \in DOMAIN p, p[i].kind \in {"close", "Closed"} PROVE LastOfLevel(p, i)
  <2>1. CASE i = n
    BY <1>3, <2>1 DEF LastOfLevel
  <2>2. CASE i \in DOMAIN scopeReplies
    <3>1. p[i] = scopeReplies[i] /\ scopeReplies[i] \in Reply
      BY <1>2, <1>3, <2>2
    <3>2. p[i].kind = "Closed"
      BY <1>6, <3>1, ReplyFields
    <3>3. LastOfLevel(scopeReplies, i)
      BY <2>2, <3>1, <3>2 DEF ScopedInv, ReplyInv
    <3>4. p[i].scope # x.scope
      BY <2>2, <3>1, <3>2 DEF NoneClosed
    <3> QED
      BY <1>3, <3>1, <3>3, <3>4 DEF LastOfLevel
  <2> QED
    BY <1>3, <2>1, <2>2
<1>7. Cardinality(DOMAIN p) <= ScopeRoom
  BY <1>3, <1>4, <1>5, <1>6, RingRoom
<1>8. Cardinality(1 .. n) = n
  BY <1>3, FS_Interval
<1>9. n <= ScopeRoom
  BY <1>3, <1>7, <1>8
<1>10. ScopeRoom \in Nat
  BY ScopedAssumption DEF ScopeRoom
<1> QED
  BY <1>3, <1>9, <1>10 DEF Push

(* So does a receipt of the root.                                          *)
LEMMA RootLands ==
  ASSUME ScopedInv, NEW x, Batches(pipe, Root) > 0 \/ Cardinality(rootDocket) > 0
  PROVE  /\ Len(rootReceipts) < RootCapacity
         /\ Push(rootReceipts, x, RootCapacity) = Append(rootReceipts, x)
<1>1. Len(rootReceipts) < RootCapacity
  BY Numbers, ScopedAssumption DEF ScopedInv, BalanceInv, RootFlight
<1> QED
  BY <1>1 DEF Push

-----------------------------------------------------------------------------
(* Program counters and types.                                             *)

(* The program counters, the gate and the ring ends move together.         *)
LEMMA PcStep == ASSUME ScopedInv, [Next]_vars PROVE PcInv'
<1> USE DEF ScopedInv, PcInv
<1>1. CASE UNCHANGED vars
  BY <1>1 DEF vars, ownerVars, inboxVars
<1>2. CASE Owner
  <2>1. CASE \E s \in Scopes : Open(s)
    BY <2>1 DEF Open, inboxVars
  <2>2. CASE SendRoot
    BY <2>2 DEF SendRoot, inboxVars
  <2>3. CASE \E s \in Scopes, g \in Gens : SendScope(s, g) \/ Close(s, g)
    BY <2>3 DEF SendScope, Close, inboxVars
  <2>4. CASE PublishEnter \/ PublishPush
    BY <2>4 DEF PublishEnter, PublishPush, inboxVars
  <2>5. CASE ReceiptEnter \/ RecoverOrphans
    BY <2>5 DEF ReceiptEnter, RecoverOrphans, inboxVars
  <2>6. CASE RootReceipt \/ ReceiptPop
    BY <2>6 DEF RootReceipt, ReceiptPop, inboxVars
  <2> QED
    BY <1>2, <2>1, <2>2, <2>3, <2>4, <2>5, <2>6 DEF Owner
<1>3. CASE Executor
  <2>1. CASE StartDrain
    BY <2>1 DEF StartDrain, ownerVars
  <2>2. CASE Drain
    BY <2>2 DEF Drain, ownerVars
  <2>3. CASE WalkRoot
    BY <2>3 DEF WalkRoot, ownerVars
  <2>4. CASE \E s \in Scopes, outcome \in {"Applied", "Rejected"} : WalkScope(s, outcome)
    BY <2>4 DEF WalkScope, ownerVars
  <2>5. CASE \E s \in Scopes : RetireStart(s)
    BY <2>5 DEF RetireStart, ownerVars
  <2>6. CASE RetireLeftover \/ RetireEnd
    BY <2>6 DEF RetireLeftover, RetireEnd, ownerVars
  <2>7. CASE CloseGate \/ Unanswered
    BY <2>7 DEF CloseGate, Unanswered, ownerVars
  <2>8. CASE Release
    BY <2>8 DEF Release, ownerVars
  <2> QED
    BY <1>3, <2>1, <2>2, <2>3, <2>4, <2>5, <2>6, <2>7, <2>8 DEF Executor
<1> QED
  BY <1>1, <1>2, <1>3 DEF Next

(* A push keeps a ring well-formed, whether it lands or not.               *)
LEMMA PushType ==
  ASSUME NEW q \in Seq(Reply), NEW x \in Reply, NEW room
  PROVE  Push(q, x, room) \in Seq(Reply)
BY DEF Push

(* A slot of the owner.                                                    *)
Slot == [state : {"Free", "Open", "Closing"}, gen : Gens, credits : 0 .. ScopeCapacity,
         applied : 0 .. MaxSeq]

(* The types of what the owner's calls change.                             *)
LEMMA OwnerTypeStep == ASSUME ScopedInv, Owner PROVE TypeOK'
<1>0. TypeOK
  BY DEF ScopedInv
<1>s. slots \in [Scopes -> Slot]
  BY <1>0 DEF TypeOK, Slot
<1>r. rootReceipts \in Seq(Reply) /\ scopeReplies \in Seq(Reply)
  BY <1>0 DEF TypeOK
<1> USE ScopedAssumption
<1>1. ASSUME NEW s \in Scopes, Open(s) PROVE TypeOK'
  <2>0. [slots[s] EXCEPT !.state = "Open", !.applied = None] \in Slot
    <3>1. None \in 0 .. MaxSeq
      BY DEF None
    <3> QED
      BY <1>s, <3>1 DEF Slot
  <2>1. slots' \in [Scopes -> Slot]
    <3>1. slots' = [slots EXCEPT ![s] = [slots[s] EXCEPT !.state = "Open", !.applied = None]]
      BY <1>1, <1>s DEF Open
    <3> QED
      BY <1>s, <2>0, <3>1
  <2>2. since' \in [Scopes -> 1 .. MaxSeq + 1]
    BY <1>0, <1>1 DEF Open, TypeOK
  <2> QED
    BY <1>0, <1>1, <2>1, <2>2 DEF Open, TypeOK, Slot, rings, inboxVars
<1>2. ASSUME NEW s \in {Root} \cup Scopes, NEW g \in Gens, Stage(s, g)
      PROVE  staged' \in Seq(Item) /\ next' \in 1 .. MaxSeq + 1
  <2>1. next \in Seqs /\ staged \in Seq(Item)
    BY <1>0, <1>2 DEF Stage, TypeOK, Seqs
  <2>2. [kind |-> "batch", scope |-> s, gen |-> g, seq |-> next] \in Item
    BY <2>1, BatchItem
  <2> QED
    BY <1>2, <2>1, <2>2 DEF Stage, Seqs
<1>3. CASE SendRoot
  <2>1. staged' \in Seq(Item) /\ next' \in 1 .. MaxSeq + 1
    BY <1>2, <1>3 DEF SendRoot, Gens
  <2>2. rootCredits' \in 0 .. RootCapacity
    BY <1>0, <1>3 DEF SendRoot, TypeOK
  <2> QED
    BY <1>0, <1>3, <2>1, <2>2 DEF SendRoot, TypeOK, rings, inboxVars
<1>4. ASSUME NEW s \in Scopes, NEW g \in Gens, SendScope(s, g) PROVE TypeOK'
  <2>1. staged' \in Seq(Item) /\ next' \in 1 .. MaxSeq + 1
    BY <1>2, <1>4 DEF SendScope
  <2>2. slots' \in [Scopes -> Slot]
    BY <1>4, <1>s DEF SendScope, Slot
  <2> QED
    BY <1>0, <1>4, <2>1, <2>2 DEF SendScope, TypeOK, Slot, rings, inboxVars
<1>5. ASSUME NEW s \in Scopes, NEW g \in Gens, Close(s, g) PROVE TypeOK'
  <2>1. [kind |-> "close", scope |-> s, gen |-> g, seq |-> None] \in Item
    BY CloseItem
  <2>2. staged' \in Seq(Item)
    BY <1>0, <1>5, <2>1 DEF Close, TypeOK
  <2>3. slots' \in [Scopes -> Slot]
    BY <1>5, <1>s DEF Close, Slot
  <2> QED
    BY <1>0, <1>5, <2>2, <2>3 DEF Close, TypeOK, Slot, rings, inboxVars
<1>6. CASE PublishEnter
  BY <1>0, <1>6 DEF PublishEnter, TypeOK, rings, inboxVars
<1>7. CASE PublishPush
  <2>1. commands' \in Seq(Item) /\ staged' = <<>>
    BY <1>0, <1>7, PipeFits, PipePublished
  <2> QED
    BY <1>0, <1>7, <2>1 DEF PublishPush, TypeOK, inboxVars
<1>8. CASE ReceiptEnter
  BY <1>0, <1>8 DEF ReceiptEnter, TypeOK, rings, inboxVars
<1>9. CASE RecoverOrphans
  <2>1. CASE UNCHANGED rings /\ sPc' = "pop"
    BY <1>0, <1>9, <2>1 DEF RecoverOrphans, TypeOK, rings, inboxVars
  <2>2. CASE commands # <<>> /\ Orphan(Head(commands)) /\ commands' = Tail(commands)
             /\ UNCHANGED sPc
    <3>1. commands' \in Seq(Item) /\ Head(commands) \in Item
      BY <1>0, <2>2 DEF TypeOK
    <3>2. /\ Head(commands).kind = "batch" => Receipt(Head(commands), "Rejected") \in Reply
          /\ Head(commands).kind = "close" =>
               ClosedReply(Head(commands).scope, Head(commands).gen) \in Reply
      BY <3>1, ItemFields, ReceiptOf, ClosedOf
    <3>3. rootReceipts' \in Seq(Reply) /\ scopeReplies' \in Seq(Reply)
      BY <1>0, <2>2, <3>1, <3>2, ItemFields, PushType DEF Orphan, TypeOK
    <3> QED
      BY <1>0, <1>9, <2>2, <3>1, <3>3 DEF RecoverOrphans, TypeOK, inboxVars
  <2> QED
    BY <1>9, <2>1, <2>2 DEF RecoverOrphans
<1>10. CASE RootReceipt
  <2>1. rootReceipts' \in Seq(Reply)
    BY <1>10, <1>r DEF RootReceipt
  <2>2. rootReceipts # <<>> => rootCredits + 1 \in 0 .. RootCapacity
    <3> SUFFICES ASSUME rootReceipts # <<>> PROVE rootCredits + 1 \in 0 .. RootCapacity
      OBVIOUS
    <3>1. Len(rootReceipts) > 0
      BY <1>0 DEF TypeOK
    <3>2. rootCredits + Batches(pipe, Root) + Cardinality(rootDocket) + Len(rootReceipts)
            <= RootCapacity
      BY DEF ScopedInv, BalanceInv, RootFlight
    <3> QED
      BY <3>1, <3>2, Numbers
  <2>3. rootCredits' \in 0 .. RootCapacity
    BY <1>0, <1>10, <2>2 DEF RootReceipt, TypeOK
  <2> QED
    BY <1>0, <1>10, <2>1, <2>3 DEF RootReceipt, TypeOK, inboxVars
<1>11. CASE ReceiptPop
  <2>1. CASE scopeReplies = <<>> /\ UNCHANGED <<slots, scopeReplies>>
    BY <1>0, <1>11, <2>1 DEF ReceiptPop, TypeOK, inboxVars
  <2>2. CASE scopeReplies # <<>> /\ SettleScope(Head(scopeReplies))
             /\ scopeReplies' = Tail(scopeReplies)
    <3>1. PICK r : r = Head(scopeReplies)
      OBVIOUS
    <3>2. /\ scopeReplies' \in Seq(Reply) /\ r \in Reply /\ scopeReplies \in Seq(Reply)
          /\ 1 \in DOMAIN scopeReplies /\ r = scopeReplies[1]
      BY <1>0, <2>2, <3>1 DEF TypeOK
    <3>3. r.scope \in Scopes /\ (r.kind = "Closed" => slots[r.scope].gen < MaxGen)
      BY <3>2 DEF ScopedInv, ReplyInv
    <3>4. r.kind # "Closed" => slots[r.scope].credits + 1 \in 0 .. ScopeCapacity
      <4> SUFFICES ASSUME r.kind # "Closed"
                   PROVE  slots[r.scope].credits + 1 \in 0 .. ScopeCapacity
        OBVIOUS
      <4>1. Batches(scopeReplies, r.scope)
              = Counts(r, r.scope) + Batches(Tail(scopeReplies), r.scope)
        BY <2>2, <3>1, <3>2, TailCount
      <4>2. Counts(r, r.scope) = 1
        BY <3>2, ReplyFields DEF Counts
      <4>3. Batches(Tail(scopeReplies), r.scope) \in Nat
        BY <2>2, <3>2, BatchesFinite
      <4>4. slots[r.scope].credits + Batches(pipe, r.scope) + Cardinality(dockets[r.scope])
              + Batches(scopeReplies, r.scope) <= ScopeCapacity
        BY <3>3 DEF ScopedInv, BalanceInv, Flight
      <4>5. /\ slots[r.scope].credits \in Nat /\ Batches(pipe, r.scope) \in Nat
            /\ Cardinality(dockets[r.scope]) \in Nat
        BY <3>3, Numbers
      <4> QED
        BY <4>1, <4>2, <4>3, <4>4, <4>5
    <3>5. r.kind # "Closed" => r.seq \in 0 .. MaxSeq
      BY <3>2, ReplyFields DEF Seqs
    <3>6. PICK slot : slot = slots[r.scope]
      OBVIOUS
    <3>7. slot \in Slot /\ slots \in [Scopes -> Slot]
      BY <1>s, <3>3, <3>6
    <3>8. r.kind = "Closed" => [slot EXCEPT !.gen = @ + 1, !.state = "Free"] \in Slot
      <4>1. slot.gen \in 0 .. MaxGen
        BY <3>7 DEF Slot, Gens
      <4>2. r.kind = "Closed" => slot.gen + 1 \in Gens
        BY <3>3, <3>6, <4>1 DEF Gens
      <4> QED
        BY <3>7, <4>2 DEF Slot
    <3>9. r.kind # "Closed" =>
            [slot EXCEPT !.credits = @ + 1,
                         !.applied = IF r.kind = "Applied" THEN Later(@, r.seq) ELSE @] \in Slot
      BY <3>4, <3>5, <3>6, <3>7 DEF Later, Slot
    <3>10. slots' \in [Scopes -> Slot]
      BY <2>2, <3>1, <3>3, <3>6, <3>7, <3>8, <3>9 DEF SettleScope
    <3> QED
      BY <1>0, <1>11, <3>2, <3>10 DEF ReceiptPop, TypeOK, Slot, inboxVars
  <2> QED
    BY <1>11, <2>1, <2>2 DEF ReceiptPop
<1> QED
  BY <1>1, <1>3, <1>4, <1>5, <1>6, <1>7, <1>8, <1>9, <1>10, <1>11 DEF Owner

(* The types of what the executor's calls change.                          *)
LEMMA ExecutorTypeStep == ASSUME ScopedInv, Executor PROVE TypeOK'
<1>0. TypeOK
  BY DEF ScopedInv
<1>c. commands \in Seq(Item) /\ rootDocket \subseteq Item
  BY <1>0 DEF TypeOK
<1>d. dockets \in [Scopes -> SUBSET Item]
  BY <1>0 DEF TypeOK
<1>l. life \in [Scopes -> [gen : Gens, closing : BOOLEAN]]
  BY <1>0 DEF TypeOK
<1>g. ledger \in [Scopes -> 0 .. MaxSeq]
  BY <1>0 DEF TypeOK
<1> USE ScopedAssumption
<1>1. ASSUME NEW b \in rootDocket, AnswerRoot(b)
      PROVE  rootDocket' \subseteq Item /\ rootReceipts' \in Seq(Reply)
  <2>1. b \in Item /\ b.kind = "batch"
    BY <1>0 DEF TypeOK, ScopedInv, DocketInv, Drained
  <2>2. Receipt(b, "Rejected") \in Reply
    BY <2>1, ReceiptOf
  <2> QED
    BY <1>0, <1>1, <2>2, PushType DEF AnswerRoot, TypeOK
<1>2. ASSUME NEW s \in Scopes, NEW b \in dockets[s], NEW outcome \in {"Applied", "Rejected"},
             AnswerScope(b, outcome)
      PROVE  dockets' \in [Scopes -> SUBSET Item] /\ scopeReplies' \in Seq(Reply)
  <2>1. b \in Item /\ b.kind = "batch" /\ b.scope = s /\ b.seq \in 0 .. MaxSeq
    BY <1>0, ItemFields DEF TypeOK, ScopedInv, DocketInv, Drained, Seqs
  <2>2. Receipt(b, outcome) \in Reply
    BY <2>1, ReceiptOf
  <2> QED
    BY <1>0, <1>2, <2>1, <2>2, PushType DEF AnswerScope, TypeOK
<1>3. CASE StartDrain
  BY <1>0, <1>3 DEF StartDrain, TypeOK, rings, ownerVars
<1>4. CASE Drain
  <2>1. CASE commands = <<>>
    BY <1>0, <1>4, <2>1 DEF Drain, TypeOK, ownerVars
  <2>2. CASE commands # <<>>
    <3>1. PICK i : i = Head(commands)
      OBVIOUS
    <3>2. commands' \in Seq(Item) /\ i \in Item
      BY <1>4, <1>c, <2>2, <3>1 DEF Drain
    <3>3. Route(i)
      BY <1>4, <2>2, <3>1 DEF Drain
    <3>4. rootDocket' \subseteq Item /\ dockets' \in [Scopes -> SUBSET Item]
      BY <1>c, <1>d, <3>2, <3>3, ItemFields DEF Route
    <3>5. life' \in [Scopes -> [gen : Gens, closing : BOOLEAN]]
      <4>1. CASE i.scope \in Scopes /\ life' = [life EXCEPT ![i.scope].closing = TRUE]
        <5>1. [life[i.scope] EXCEPT !.closing = TRUE] \in [gen : Gens, closing : BOOLEAN]
          BY <1>l, <4>1
        <5> QED
          BY <1>l, <4>1, <5>1
      <4>2. CASE life' = life
        BY <1>l, <4>2
      <4> QED
        BY <3>2, <3>3, <4>1, <4>2, ItemFields DEF Route
    <3>6. scopeReplies' \in Seq(Reply)
      BY <1>0, <3>2, <3>3, ReceiptOf, PushType DEF Route, TypeOK
    <3> QED
      BY <1>0, <1>4, <2>2, <3>2, <3>4, <3>5, <3>6 DEF Drain, TypeOK, ownerVars
  <2> QED
    BY <2>1, <2>2
<1>5. CASE WalkRoot
  BY <1>0, <1>1, <1>5 DEF WalkRoot, TypeOK, ownerVars
<1>6. ASSUME NEW s \in Scopes, NEW outcome \in {"Applied", "Rejected"}, WalkScope(s, outcome)
      PROVE  TypeOK'
  <2>1. PICK b \in dockets[s] :
          /\ AnswerScope(b, outcome)
          /\ ledger' = [ledger EXCEPT ![s] = IF outcome = "Applied" THEN Later(@, b.seq) ELSE @]
    BY <1>6 DEF WalkScope
  <2>2. b.seq \in 0 .. MaxSeq
    BY <1>0, ItemFields DEF TypeOK, ScopedInv, DocketInv, Drained, Seqs
  <2>3. ledger' \in [Scopes -> 0 .. MaxSeq]
    BY <1>0, <2>1, <2>2 DEF TypeOK, Later
  <2>4. dockets' \in [Scopes -> SUBSET Item] /\ scopeReplies' \in Seq(Reply)
    BY <1>2, <2>1
  <2> QED
    BY <1>0, <1>6, <2>3, <2>4 DEF WalkScope, TypeOK, ownerVars
<1>7. ASSUME NEW s \in Scopes, RetireStart(s) PROVE TypeOK'
  <2>1. retiring' \in 0 .. NScopes
    BY <1>7 DEF RetireStart, Scopes
  <2> QED
    BY <1>0, <1>7, <2>1 DEF RetireStart, TypeOK, rings, ownerVars
<1>8. CASE RetireLeftover
  <2>1. retiring \in Scopes
    BY <1>8 DEF RetireLeftover, ScopedInv, PcInv
  <2>2. dockets' \in [Scopes -> SUBSET Item] /\ scopeReplies' \in Seq(Reply)
    BY <1>2, <1>8, <2>1 DEF RetireLeftover
  <2> QED
    BY <1>0, <1>8, <2>2 DEF RetireLeftover, TypeOK, ownerVars
<1>9. CASE RetireEnd
  <2>1. retiring \in Scopes /\ life[retiring].closing
    BY <1>9 DEF RetireEnd, ScopedInv, PcInv
  <2>2. life[retiring].gen \in Gens /\ life[retiring].gen + 1 \in Gens
    <3>1. life[retiring].gen \in 0 .. MaxGen
      BY <1>l, <2>1 DEF Gens
    <3>2. life[retiring].gen < MaxGen
      BY <2>1 DEF ScopedInv, LifeInv
    <3> QED
      BY <3>1, <3>2 DEF Gens
  <2>3. life' \in [Scopes -> [gen : Gens, closing : BOOLEAN]]
    BY <1>0, <1>9, <2>1, <2>2 DEF RetireEnd, TypeOK
  <2>4. ledger' \in [Scopes -> 0 .. MaxSeq]
    <3>1. None \in 0 .. MaxSeq
      BY DEF None
    <3> QED
      BY <1>9, <1>g, <3>1 DEF RetireEnd
  <2>5. scopeReplies' \in Seq(Reply)
    BY <1>0, <1>9, <2>1, <2>2, ClosedOf, PushType DEF RetireEnd, TypeOK
  <2> QED
    BY <1>0, <1>9, <2>3, <2>4, <2>5 DEF RetireEnd, TypeOK, ownerVars
<1>10. CASE CloseGate
  BY <1>0, <1>10 DEF CloseGate, TypeOK, rings, ownerVars
<1>11. CASE Unanswered
  <2>1. /\ rootDocket' \subseteq Item /\ rootReceipts' \in Seq(Reply)
        /\ dockets' \in [Scopes -> SUBSET Item] /\ scopeReplies' \in Seq(Reply)
    BY <1>0, <1>1, <1>2, <1>11 DEF Unanswered, TypeOK
  <2> QED
    BY <1>0, <1>11, <2>1 DEF Unanswered, TypeOK, ownerVars
<1>12. CASE Release
  BY <1>0, <1>12 DEF Release, TypeOK, rings, ownerVars
<1> QED
  BY <1>3, <1>4, <1>5, <1>6, <1>7, <1>8, <1>9, <1>10, <1>11, <1>12 DEF Executor

(* TypeOK is preserved.                                                    *)
LEMMA TypeStep == ASSUME ScopedInv, [Next]_vars PROVE TypeOK'
<1>1. CASE UNCHANGED vars
  BY <1>1 DEF ScopedInv, TypeOK, vars, ownerVars, rings, inboxVars
<1> QED
  BY <1>1, OwnerTypeStep, ExecutorTypeStep DEF Next

-----------------------------------------------------------------------------
(* What a step does to the places where the items and the replies are.     *)

(* The parts of ScopedInv that speak of the data.                          *)
DataInv == PipeInv /\ PipeOwn /\ DocketInv /\ ReplyInv /\ LifeInv /\ BalanceInv

(* A step that moves no item and no reply: it moves the program counters,  *)
(* publishes a pass, closes the gate or lets go of a ring.                 *)
LEMMA Quiet ==
  ASSUME ScopedInv, pipe' = pipe,
         UNCHANGED <<next, rootCredits, slots, since, rootReceipts, scopeReplies, rootDocket,
                     dockets, ledger, life>>,
         gateClosed => gateClosed', scopeHeld' => scopeHeld,
         xPc' \in {"releaseRoot", "releaseScope", "gone"} =>
           rootDocket = {} /\ \A s \in Scopes : dockets[s] = {}
  PROVE  DataInv'
<1>1. PipeInv' /\ \A b : Drained(b) => Drained(b)'
  BY DEF ScopedInv, PipeInv, Drained
<1>2. \A s : NoneClosed(s)' <=> NoneClosed(s)
  BY DEF NoneClosed
<1>3. PipeOwn'
  BY <1>2 DEF ScopedInv, PipeOwn
<1>4. DocketInv'
  BY <1>1, <1>2 DEF ScopedInv, DocketInv
<1>5. ReplyInv'
  BY DEF ScopedInv, ReplyInv, LastOfLevel
<1>6. LifeInv'
  BY <1>2 DEF ScopedInv, LifeInv
<1>7. BalanceInv'
  BY DEF ScopedInv, BalanceInv, RootFlight, Flight
<1> QED
  BY <1>1, <1>3, <1>4, <1>5, <1>6, <1>7 DEF DataInv

(* A reply that is pushed lands behind everything of its scope.            *)
LEMMA ReplyPushed ==
  ASSUME ScopedInv, NEW r \in Reply, r.scope \in Scopes, NoneClosed(r.scope),
         r.kind # "Closed" => Batches(scopeReplies, r.scope) < ScopeCapacity,
         scopeReplies' = Push(scopeReplies, r, ScopeRoom), UNCHANGED <<slots, since>>,
         r.gen = slots[r.scope].gen, slots[r.scope].state # "Free",
         r.kind # "Closed" => since[r.scope] <= r.seq,
         r.kind = "Closed" => slots[r.scope].state = "Closing" /\ slots[r.scope].gen < MaxGen
  PROVE  /\ ReplyInv'
         /\ \A s : Batches(scopeReplies', s) = Batches(scopeReplies, s) + Counts(r, s)
         /\ \A s : r.kind # "Closed" \/ s # r.scope => (NoneClosed(s)' <=> NoneClosed(s))
         /\ r.kind = "Closed" => ~NoneClosed(r.scope)'
<1> DEFINE n == Len(scopeReplies) + 1
<1>1. scopeReplies \in Seq(Reply)
  BY DEF ScopedInv, TypeOK
<1>2. scopeReplies' = Append(scopeReplies, r)
  BY ReplyLands
<1>3. /\ \A i \in DOMAIN scopeReplies :
           i \in DOMAIN scopeReplies' /\ scopeReplies'[i] = scopeReplies[i] /\ i < n
      /\ scopeReplies'[n] = r /\ n \in DOMAIN scopeReplies'
      /\ \A i \in DOMAIN scopeReplies' : i \in DOMAIN scopeReplies \/ i = n
      /\ Len(scopeReplies) \in Nat
  BY <1>1, <1>2, Grown
<1> HIDE DEF n
<1>4. \A s : Batches(scopeReplies', s) = Batches(scopeReplies, s) + Counts(r, s)
  BY <1>1, <1>2, AppendCount
<1>5. \A s : r.kind # "Closed" \/ s # r.scope => (NoneClosed(s)' <=> NoneClosed(s))
  BY <1>3 DEF NoneClosed
<1>6. r.kind = "Closed" => ~NoneClosed(r.scope)'
  BY <1>3 DEF NoneClosed
<1>7. ReplyInv'
  <2> SUFFICES ASSUME NEW k \in DOMAIN scopeReplies'
               PROVE  LET s == scopeReplies'[k].scope IN
                      /\ s \in Scopes
                      /\ scopeReplies'[k].gen = slots[s].gen
                      /\ slots[s].state # "Free"
                      /\ scopeReplies'[k].kind # "Closed" => since[s] <= scopeReplies'[k].seq
                      /\ scopeReplies'[k].kind = "Closed" => /\ slots[s].state = "Closing"
                                                             /\ slots[s].gen < MaxGen
                                                             /\ LastOfLevel(scopeReplies', k)
    BY DEF ReplyInv, LastOfLevel
  <2>1. CASE k \in DOMAIN scopeReplies
    <3>1. scopeReplies'[k] = scopeReplies[k]
      BY <1>3, <2>1
    <3>2. LET s == scopeReplies[k].scope IN
          /\ s \in Scopes /\ scopeReplies[k].gen = slots[s].gen /\ slots[s].state # "Free"
          /\ scopeReplies[k].kind # "Closed" => since[s] <= scopeReplies[k].seq
          /\ scopeReplies[k].kind = "Closed" => /\ slots[s].state = "Closing"
                                                /\ slots[s].gen < MaxGen
                                                /\ LastOfLevel(scopeReplies, k)
      BY <2>1 DEF ScopedInv, ReplyInv
    <3>3. scopeReplies[k].kind = "Closed" => scopeReplies[k].scope # r.scope
      BY <2>1 DEF NoneClosed
    <3>4. scopeReplies[k].kind = "Closed" => LastOfLevel(scopeReplies', k)
      BY <1>3, <3>1, <3>2, <3>3 DEF LastOfLevel
    <3> QED
      BY <3>1, <3>2, <3>4
  <2>2. CASE k = n
    <3>1. LastOfLevel(scopeReplies', k)
      BY <1>3, <2>2 DEF LastOfLevel, n
    <3> QED
      BY <1>3, <2>2, <3>1
  <2> QED
    BY <1>3, <2>1, <2>2
<1> QED
  BY <1>4, <1>5, <1>6, <1>7

(* What is known of the front of the pipe as it is popped.                 *)
LEMMA PipePopped ==
  ASSUME ScopedInv, NEW x, pipe # <<>>, x = Head(pipe), pipe' = Tail(pipe), UNCHANGED next
  PROVE  /\ x \in Item /\ 1 \in DOMAIN pipe /\ x = pipe[1]
         /\ PipeInv'
         /\ \A i \in DOMAIN pipe' : \E j \in DOMAIN pipe : pipe'[i] = pipe[j]
         /\ x.kind = "close" => \A i \in DOMAIN pipe' : pipe'[i].scope # x.scope
         /\ \A b : Drained(b) => Drained(b)'
         /\ x.kind = "batch" => Drained(x)' /\ ~Drained(x)
         /\ \A s : /\ Batches(pipe, s) = Counts(x, s) + Batches(pipe', s)
                   /\ Batches(pipe', s) \in Nat
<1>1. pipe \in Seq(Item)
  BY PipeItems DEF ScopedInv
<1>2. /\ pipe' \in Seq(Item) /\ 1 \in DOMAIN pipe /\ pipe[1] = x /\ x \in Item
      /\ \A i \in DOMAIN pipe' :
           i \in Nat /\ i + 1 \in DOMAIN pipe /\ pipe'[i] = pipe[i + 1] /\ 1 < i + 1
  BY <1>1, Shrunk
<1>3. PipeInv
  BY DEF ScopedInv
<1>4. PipeInv'
  <2>1. \A i \in DOMAIN pipe' : pipe'[i].kind = "batch" => pipe'[i].seq < next'
    BY <1>2, <1>3 DEF PipeInv
  <2>2. ASSUME NEW i \in DOMAIN pipe', NEW j \in DOMAIN pipe', i < j
        PROVE  /\ pipe'[i].kind = "batch" /\ pipe'[j].kind = "batch" =>
                    pipe'[i].seq < pipe'[j].seq
               /\ pipe'[i].kind = "close" => pipe'[j].scope # pipe'[i].scope
    <3>1. /\ i \in Nat /\ j \in Nat /\ i + 1 \in DOMAIN pipe /\ j + 1 \in DOMAIN pipe
          /\ pipe'[i] = pipe[i + 1] /\ pipe'[j] = pipe[j + 1]
      BY <1>2
    <3>2. i + 1 < j + 1
      BY <2>2, <3>1
    <3> QED
      BY <1>3, <3>1, <3>2 DEF PipeInv
  <2> QED
    BY <2>1, <2>2 DEF PipeInv
<1>5. x.kind = "close" => \A i \in DOMAIN pipe' : pipe'[i].scope # x.scope
  BY <1>2, <1>3 DEF PipeInv
<1>6. \A b : Drained(b) => Drained(b)'
  BY <1>2 DEF Drained
<1>7. x.kind = "batch" => Drained(x)'
  BY <1>2, <1>3 DEF PipeInv, Drained
<1>8. x.kind = "batch" => ~Drained(x)
  <2>1. x.kind = "batch" => x.seq \in Int
    BY <1>2, ItemFields DEF Seqs
  <2> QED
    BY <1>2, <2>1 DEF Drained
<1>9. \A s : Batches(pipe, s) = Counts(x, s) + Batches(pipe', s) /\ Batches(pipe', s) \in Nat
  BY <1>1, <1>2, TailCount, BatchesFinite
<1> QED
  BY <1>2, <1>4, <1>5, <1>6, <1>7, <1>8, <1>9

(* The pipe keeps to its incarnations if a step only takes items from it   *)
(* and leaves alone the scopes that have items there.                      *)
LEMMA PipeKept ==
  ASSUME ScopedInv, \A i \in DOMAIN pipe' : \E j \in DOMAIN pipe : pipe'[i] = pipe[j],
         \A s \in Scopes : (\E i \in DOMAIN pipe' : pipe'[i].scope = s) =>
           /\ slots'[s] = slots[s] \/ (/\ slots'[s].gen = slots[s].gen
                                       /\ slots'[s].state = slots[s].state)
           /\ since'[s] = since[s]
           /\ life'[s].closing = life[s].closing
           /\ NoneClosed(s) => NoneClosed(s)'
  PROVE  PipeOwn'
<1> SUFFICES ASSUME NEW i \in DOMAIN pipe', NEW s, s = pipe'[i].scope, s # Root
             PROVE  /\ pipe'[i].gen = slots'[s].gen
                    /\ slots'[s].state # "Free"
                    /\ pipe'[i].kind = "batch" => since'[s] <= pipe'[i].seq
                    /\ pipe'[i].kind = "close" =>
                         slots'[s].state = "Closing" /\ slots'[s].gen < MaxGen
                    /\ ~life'[s].closing
                    /\ NoneClosed(s)'
  BY DEF PipeOwn, NoneClosed
<1>1. PICK j \in DOMAIN pipe : pipe'[i] = pipe[j]
  OBVIOUS
<1>2. s \in Scopes
  BY <1>1, PipeItems, ItemFields DEF ScopedInv
<1>3. /\ pipe[j].gen = slots[s].gen
      /\ slots[s].state # "Free"
      /\ pipe[j].kind = "batch" => since[s] <= pipe[j].seq
      /\ pipe[j].kind = "close" => slots[s].state = "Closing" /\ slots[s].gen < MaxGen
      /\ ~life[s].closing
      /\ NoneClosed(s)
  BY <1>1 DEF ScopedInv, PipeOwn, NoneClosed
<1>4. /\ slots'[s].gen = slots[s].gen /\ slots'[s].state = slots[s].state
      /\ since'[s] = since[s] /\ life'[s].closing = life[s].closing
      /\ NoneClosed(s) => NoneClosed(s)'
  BY <1>2
<1> QED
  BY <1>1, <1>3, <1>4

(* So do the dockets.                                                      *)
LEMMA DocketsKept ==
  ASSUME ScopedInv, \A b \in Item : Drained(b) => Drained(b)',
         rootDocket' \subseteq rootDocket,
         \A s \in Scopes :
           /\ dockets'[s] \subseteq dockets[s]
           /\ dockets'[s] # {} =>
                /\ slots'[s].gen = slots[s].gen /\ slots'[s].state = slots[s].state
                /\ since'[s] = since[s]
                /\ NoneClosed(s) => NoneClosed(s)',
         xPc' \in {"releaseRoot", "releaseScope", "gone"} =>
           rootDocket' = {} /\ \A s \in Scopes : dockets'[s] = {}
  PROVE  DocketInv'
<1>1. rootDocket \subseteq Item /\ \A s \in Scopes : dockets[s] \subseteq Item
  BY DEF ScopedInv, TypeOK
<1>2. IsFiniteSet(rootDocket') /\ \A b \in rootDocket' : b.scope = Root /\ Drained(b)'
  BY <1>1, FS_Subset DEF ScopedInv, DocketInv
<1>3. ASSUME NEW s \in Scopes
      PROVE  /\ IsFiniteSet(dockets'[s])
             /\ \A b \in dockets'[s] :
                  /\ b.scope = s /\ Drained(b)'
                  /\ b.gen = slots'[s].gen
                  /\ slots'[s].state # "Free"
                  /\ since'[s] <= b.seq
                  /\ NoneClosed(s)'
  <2>1. IsFiniteSet(dockets'[s])
    BY FS_Subset DEF ScopedInv, DocketInv
  <2>2. ASSUME NEW b \in dockets'[s]
        PROVE  /\ b.scope = s /\ Drained(b)' /\ b.gen = slots'[s].gen
               /\ slots'[s].state # "Free" /\ since'[s] <= b.seq /\ NoneClosed(s)'
    <3>1. b \in dockets[s] /\ b \in Item
      BY <1>1
    <3>2. /\ b.scope = s /\ Drained(b) /\ b.gen = slots[s].gen
          /\ slots[s].state # "Free" /\ since[s] <= b.seq /\ NoneClosed(s)
      BY <3>1 DEF ScopedInv, DocketInv
    <3> QED
      BY <3>1, <3>2
  <2> QED
    BY <2>1, <2>2
<1> QED
  BY <1>2, <1>3 DEF DocketInv

-----------------------------------------------------------------------------
(* The owner's steps.                                                      *)

(* An item that is staged: a batch of a level that has a credit for it, or *)
(* the Close of an open scope.                                             *)
LEMMA ItemStaged ==
  ASSUME ScopedInv, NEW x \in Item, pipe' = Append(pipe, x),
         UNCHANGED <<since, rootReceipts, scopeReplies, rootDocket, dockets, ledger, life,
                     gateClosed, scopeHeld, xPc>>,
         x.kind = "batch" => x.seq = next /\ next' = next + 1,
         x.kind = "close" => next' = next /\ x.gen < MaxGen,
         rootCredits' = rootCredits - Counts(x, Root),
         \A s \in Scopes : /\ slots'[s].credits = slots[s].credits - Counts(x, s)
                           /\ slots'[s].gen = slots[s].gen
                           /\ slots'[s].applied = slots[s].applied
                           /\ s # x.scope => slots'[s].state = slots[s].state,
         x.scope \in Scopes =>
           /\ slots[x.scope].state = "Open" /\ slots[x.scope].gen = x.gen
           /\ slots'[x.scope].state = IF x.kind = "close" THEN "Closing" ELSE "Open"
  PROVE  DataInv'
<1> DEFINE n == Len(pipe) + 1
<1>1. pipe \in Seq(Item) /\ next \in Nat
  BY PipeItems DEF ScopedInv, TypeOK
<1>2. /\ \A i \in DOMAIN pipe : i \in DOMAIN pipe' /\ pipe'[i] = pipe[i] /\ i < n
      /\ pipe'[n] = x /\ n \in DOMAIN pipe'
      /\ \A i \in DOMAIN pipe' : i \in DOMAIN pipe \/ i = n
      /\ Len(pipe) \in Nat /\ DOMAIN pipe = 1 .. Len(pipe)
  BY <1>1, Grown
<1>3. \A i \in DOMAIN pipe' : ~(n < i) /\ i \in Nat
  BY <1>2
<1> HIDE DEF n
<1>4. /\ x.kind \in {"batch", "close"} /\ x.scope \in {Root} \cup Scopes
      /\ x.scope = Root => x.kind = "batch"
  BY ItemFields
<1>5. next <= next'
  BY <1>1, <1>4
<1>6. \A i \in DOMAIN pipe : pipe[i].kind = "close" =>
        pipe[i].scope \in Scopes /\ slots[pipe[i].scope].state = "Closing"
  BY PipeItems, ItemFields DEF ScopedInv, PipeOwn
<1>7. PipeInv'
  <2>1. ASSUME NEW i \in DOMAIN pipe', pipe'[i].kind = "batch" PROVE pipe'[i].seq < next'
    <3>1. CASE i \in DOMAIN pipe
      <4>1. pipe[i].seq < next /\ pipe[i].seq \in Nat
        BY <1>2, <2>1, <3>1, PipeItems, ItemFields DEF ScopedInv, PipeInv, Seqs
      <4> QED
        BY <1>1, <1>2, <1>4, <3>1, <4>1
    <3>2. CASE i = n
      BY <1>1, <1>2, <2>1, <3>2
    <3> QED
      BY <1>2, <3>1, <3>2
  <2>2. ASSUME NEW i \in DOMAIN pipe', NEW j \in DOMAIN pipe', i < j
        PROVE  /\ pipe'[i].kind = "batch" /\ pipe'[j].kind = "batch" =>
                    pipe'[i].seq < pipe'[j].seq
               /\ pipe'[i].kind = "close" => pipe'[j].scope # pipe'[i].scope
    <3>1. i \in DOMAIN pipe /\ pipe'[i] = pipe[i]
      BY <1>2, <1>3, <2>2
    <3>2. CASE j \in DOMAIN pipe
      BY <1>2, <2>2, <3>1, <3>2 DEF ScopedInv, PipeInv
    <3>3. CASE j = n
      <4>1. pipe[i].kind = "batch" => pipe[i].seq < next
        BY <3>1 DEF ScopedInv, PipeInv
      <4>2. pipe[i].kind = "close" => x.scope # pipe[i].scope
        BY <1>6, <3>1
      <4> QED
        BY <1>2, <3>1, <3>3, <4>1, <4>2
    <3> QED
      BY <1>2, <3>2, <3>3
  <2> QED
    BY <2>1, <2>2 DEF PipeInv
<1>8. \A s : NoneClosed(s)' <=> NoneClosed(s)
  BY DEF NoneClosed
<1>9. \A s \in Scopes : /\ slots[s].state # "Free" => slots'[s].state # "Free"
                        /\ slots[s].state = "Closing" => slots'[s].state = "Closing"
                        /\ slots'[s].gen = slots[s].gen
                        /\ slots'[s].state # "Free" => slots[s].state # "Free"
  BY <1>4
<1>10. PipeOwn'
  <2> SUFFICES ASSUME NEW i \in DOMAIN pipe', NEW s, s = pipe'[i].scope, s # Root
               PROVE  /\ pipe'[i].gen = slots'[s].gen
                      /\ slots'[s].state # "Free"
                      /\ pipe'[i].kind = "batch" => since'[s] <= pipe'[i].seq
                      /\ pipe'[i].kind = "close" =>
                           slots'[s].state = "Closing" /\ slots'[s].gen < MaxGen
                      /\ ~life'[s].closing
                      /\ NoneClosed(s)'
    BY DEF PipeOwn, NoneClosed
  <2>1. CASE i \in DOMAIN pipe
    <3>1. pipe'[i] = pipe[i] /\ pipe[i].scope \in Scopes
      BY <1>2, <2>1, PipeItems, ItemFields DEF ScopedInv
    <3>2. /\ pipe[i].gen = slots[s].gen
          /\ slots[s].state # "Free"
          /\ pipe[i].kind = "batch" => since[s] <= pipe[i].seq
          /\ pipe[i].kind = "close" => slots[s].state = "Closing" /\ slots[s].gen < MaxGen
          /\ ~life[s].closing
          /\ NoneClosed(s)
      BY <2>1, <3>1 DEF ScopedInv, PipeOwn, NoneClosed
    <3> QED
      BY <1>8, <1>9, <3>1, <3>2
  <2>2. CASE i = n
    <3>1. pipe'[i] = x /\ x.scope = s /\ s \in Scopes
      BY <1>2, <1>4, <2>2
    <3>2. NoneClosed(s)
      BY <3>1 DEF ScopedInv, ReplyInv, NoneClosed
    <3>3. ~life[s].closing /\ since[s] <= next
      BY <3>1 DEF ScopedInv, LifeInv
    <3> QED
      BY <1>8, <1>9, <3>1, <3>2, <3>3
  <2> QED
    BY <1>2, <2>1, <2>2
<1>11. ASSUME NEW b, b \in Item, Drained(b) PROVE Drained(b)'
  <2>1. b.seq \in Nat
    BY <1>11, ItemFields DEF Drained, Seqs
  <2>2. b.seq < next'
    BY <1>1, <1>4, <1>11, <2>1 DEF Drained
  <2>3. \A i \in DOMAIN pipe' : pipe'[i].kind = "batch" => b.seq < pipe'[i].seq
    BY <1>2, <1>11 DEF Drained
  <2> QED
    BY <1>11, <2>2, <2>3 DEF Drained
<1>12. rootDocket \subseteq Item /\ \A s \in Scopes : dockets[s] \subseteq Item
  BY DEF ScopedInv, TypeOK
<1>13. DocketInv'
  BY <1>8, <1>9, <1>11, <1>12 DEF ScopedInv, DocketInv
<1>14. ReplyInv'
  BY <1>9 DEF ScopedInv, ReplyInv, LastOfLevel
<1>15. LifeInv'
  <2>1. \A s \in Scopes : since[s] <= next'
    <3>1. \A s \in Scopes : since[s] <= next /\ since[s] \in Int
      BY DEF ScopedInv, LifeInv, TypeOK
    <3> QED
      BY <1>1, <1>4, <3>1
  <2>2. \A s \in Scopes : slots'[s].applied = slots[s].applied
    OBVIOUS
  <2> SUFFICES ASSUME NEW s \in Scopes
               PROVE  /\ life[s].closing => /\ slots'[s].state = "Closing"
                                            /\ life[s].gen = slots[s].gen /\ slots[s].gen < MaxGen
                                            /\ NoneClosed(s)
                      /\ scopeHeld =>
                           life[s].gen = IF NoneClosed(s) THEN slots[s].gen ELSE slots[s].gen + 1
                      /\ scopeHeld /\ ledger[s] # None =>
                           slots'[s].state # "Free" /\ since[s] <= ledger[s] /\ NoneClosed(s)
                      /\ slots'[s].state # "Free" /\ slots[s].applied # None =>
                           since[s] <= slots[s].applied
                      /\ since[s] <= next'
    BY <1>8, <1>9, <2>2 DEF LifeInv
  <2> QED
    BY <1>9, <2>1 DEF ScopedInv, LifeInv
<1>16. \A s : Batches(pipe', s) = Batches(pipe, s) + Counts(x, s) /\ Counts(x, s) \in Nat
  BY <1>1, AppendCount DEF Counts
<1>17. BalanceInv'
  <2>1. RootFlight' = RootFlight
    BY <1>16, Numbers DEF RootFlight
  <2>2. ASSUME NEW s \in Scopes PROVE Flight(s)' = Flight(s)
    <3>1. /\ slots'[s].credits = slots[s].credits - Counts(x, s)
          /\ Batches(pipe', s) = Batches(pipe, s) + Counts(x, s) /\ Counts(x, s) \in Nat
          /\ Cardinality(dockets'[s]) = Cardinality(dockets[s])
          /\ Batches(scopeReplies', s) = Batches(scopeReplies, s)
      BY <1>16
    <3>2. /\ slots[s].credits \in Nat /\ Batches(pipe, s) \in Nat
          /\ Cardinality(dockets[s]) \in Nat /\ Batches(scopeReplies, s) \in Nat
      BY Numbers
    <3> QED
      BY <3>1, <3>2 DEF Flight
  <2> QED
    BY <2>1, <2>2 DEF ScopedInv, BalanceInv
<1> QED
  BY <1>7, <1>10, <1>13, <1>14, <1>15, <1>17 DEF DataInv

(* The three calls that stage.                                             *)
LEMMA SendRootStep == ASSUME ScopedInv, SendRoot PROVE DataInv'
<1>1. PICK x : x = [kind |-> "batch", scope |-> Root, gen |-> 0, seq |-> next]
  OBVIOUS
<1>2. /\ staged' = Append(staged, x) /\ next' = next + 1 /\ commands' = commands
      /\ next <= MaxSeq /\ slots' = slots /\ rootCredits' = rootCredits - 1
  BY <1>1 DEF SendRoot, Stage, rings
<1>3. next \in Seqs /\ 0 \in Gens
  BY <1>2, ScopedAssumption DEF ScopedInv, TypeOK, Seqs, Gens
<1>4. /\ x \in Item /\ x.kind = "batch" /\ x.scope = Root /\ x.seq = next
      /\ \A t : Counts(x, t) = IF t = Root THEN 1 ELSE 0
  BY <1>1, <1>3, BatchItem
<1>5. pipe' = Append(pipe, x)
  BY <1>2, <1>4, PipeGrows DEF ScopedInv
<1>6. Root \notin Scopes /\ \A s \in Scopes : slots[s].credits - 0 = slots[s].credits
  BY Numbers DEF Root, Scopes
<1> QED
  BY <1>2, <1>4, <1>5, <1>6, ItemStaged DEF SendRoot, rings, inboxVars

(* A batch of a scope takes one of the scope's own credits.                *)
LEMMA SendScopeStep ==
  ASSUME ScopedInv, NEW s \in Scopes, NEW g \in Gens, SendScope(s, g)
  PROVE  DataInv'
<1>1. PICK x : x = [kind |-> "batch", scope |-> s, gen |-> g, seq |-> next]
  OBVIOUS
<1>2. /\ staged' = Append(staged, x) /\ next' = next + 1 /\ commands' = commands
      /\ next <= MaxSeq /\ slots' = [slots EXCEPT ![s].credits = @ - 1]
      /\ rootCredits' = rootCredits /\ slots[s].gen = g /\ slots[s].state = "Open"
  BY <1>1 DEF SendScope, Stage, rings
<1>3. next \in Seqs
  BY <1>2, ScopedAssumption DEF ScopedInv, TypeOK, Seqs
<1>4. /\ x \in Item /\ x.kind = "batch" /\ x.scope = s /\ x.seq = next /\ x.gen = g
      /\ \A t : Counts(x, t) = IF t = s THEN 1 ELSE 0
  BY <1>1, <1>3, BatchItem
<1>5. pipe' = Append(pipe, x)
  BY <1>2, <1>4, PipeGrows DEF ScopedInv
<1>6. slots \in [Scopes -> Slot]
  BY DEF ScopedInv, TypeOK, Slot
<1>7. /\ \A t \in Scopes : t # s => slots'[t] = slots[t]
      /\ slots'[s].credits = slots[s].credits - 1 /\ slots'[s].gen = slots[s].gen
      /\ slots'[s].applied = slots[s].applied /\ slots'[s].state = slots[s].state
  BY <1>2, <1>6 DEF Slot
<1>8. Root # s /\ \A t \in Scopes : slots[t].credits - 0 = slots[t].credits
  BY Numbers DEF Root, Scopes
<1>9. rootCredits' = rootCredits - Counts(x, Root)
  BY <1>2, <1>4, <1>8, Numbers
<1>10. \A t \in Scopes : /\ slots'[t].credits = slots[t].credits - Counts(x, t)
                         /\ slots'[t].gen = slots[t].gen
                         /\ slots'[t].applied = slots[t].applied
                         /\ slots'[t].state = slots[t].state
  BY <1>4, <1>7, <1>8
<1> QED
  BY <1>2, <1>4, <1>5, <1>9, <1>10, ItemStaged DEF SendScope, rings, inboxVars

(* A Close takes no credit and moves its slot to Closing.                  *)
LEMMA CloseStep ==
  ASSUME ScopedInv, NEW s \in Scopes, NEW g \in Gens, Close(s, g)
  PROVE  DataInv'
<1>1. PICK x : x = [kind |-> "close", scope |-> s, gen |-> g, seq |-> None]
  OBVIOUS
<1>2. /\ staged' = Append(staged, x) /\ next' = next /\ commands' = commands
      /\ slots' = [slots EXCEPT ![s].state = "Closing"]
      /\ rootCredits' = rootCredits /\ slots[s].gen = g /\ slots[s].state = "Open"
      /\ g < MaxGen
  BY <1>1 DEF Close, rings
<1>4. /\ x \in Item /\ x.kind = "close" /\ x.scope = s /\ x.gen = g
      /\ \A t : Counts(x, t) = 0
  BY <1>1, CloseItem
<1>5. pipe' = Append(pipe, x)
  BY <1>2, <1>4, PipeGrows DEF ScopedInv
<1>6. slots \in [Scopes -> Slot]
  BY DEF ScopedInv, TypeOK, Slot
<1>7. /\ \A t \in Scopes : t # s => slots'[t] = slots[t]
      /\ slots'[s].credits = slots[s].credits /\ slots'[s].gen = slots[s].gen
      /\ slots'[s].applied = slots[s].applied /\ slots'[s].state = "Closing"
  BY <1>2, <1>6 DEF Slot
<1>9. rootCredits' = rootCredits - Counts(x, Root)
  BY <1>2, <1>4, Numbers
<1>10. \A t \in Scopes : /\ slots'[t].credits = slots[t].credits - Counts(x, t)
                         /\ slots'[t].gen = slots[t].gen
                         /\ slots'[t].applied = slots[t].applied
                         /\ t # s => slots'[t].state = slots[t].state
  BY <1>4, <1>7, Numbers
<1> QED
  BY <1>2, <1>4, <1>5, <1>7, <1>9, <1>10, ItemStaged DEF Close, rings, inboxVars

(* A pass the closed gate refuses is discarded: its credits are lost.      *)
LEMMA DiscardStep == ASSUME ScopedInv, PublishEnter, gateClosed PROVE DataInv'
<1>1. /\ UNCHANGED <<next, rootCredits, slots, since, rootReceipts, scopeReplies, rootDocket,
                     dockets, ledger, life, gateClosed, scopeHeld, xPc>>
      /\ staged' = <<>> /\ commands' = commands
  BY DEF PublishEnter, rings, inboxVars
<1>2. /\ \A i \in DOMAIN pipe' : i \in DOMAIN pipe /\ pipe'[i] = pipe[i]
      /\ \A s : Batches(pipe', s) <= Batches(pipe, s) /\ Batches(pipe', s) \in Nat
  BY <1>1, PipeCut DEF ScopedInv
<1>3. \A s : NoneClosed(s)' <=> NoneClosed(s)
  BY <1>1 DEF NoneClosed
<1>4. PipeInv' /\ \A b : Drained(b) => Drained(b)'
  BY <1>1, <1>2 DEF ScopedInv, PipeInv, Drained
<1>5. PipeOwn'
  BY <1>1, <1>2, <1>3, PipeKept
<1>6. DocketInv'
  BY <1>1, <1>3, <1>4 DEF ScopedInv, DocketInv
<1>7. ReplyInv'
  BY <1>1 DEF ScopedInv, ReplyInv, LastOfLevel
<1>8. LifeInv'
  BY <1>1, <1>3 DEF ScopedInv, LifeInv
<1>9. BalanceInv'
  <2>1. RootFlight' <= RootCapacity
    <3>1. RootFlight' = rootCredits + Batches(pipe', Root) + Cardinality(rootDocket)
                          + Len(rootReceipts)
      BY <1>1 DEF RootFlight
    <3>2. rootCredits + Batches(pipe, Root) + Cardinality(rootDocket) + Len(rootReceipts)
            <= RootCapacity
      BY DEF ScopedInv, BalanceInv, RootFlight
    <3> QED
      BY <1>2, <3>1, <3>2, Numbers, ScopedAssumption
  <2>2. ASSUME NEW s \in Scopes PROVE Flight(s)' <= ScopeCapacity
    <3>1. Flight(s)' = slots[s].credits + Batches(pipe', s) + Cardinality(dockets[s])
                         + Batches(scopeReplies, s)
      BY <1>1 DEF Flight
    <3>2. slots[s].credits + Batches(pipe, s) + Cardinality(dockets[s])
            + Batches(scopeReplies, s) <= ScopeCapacity
      BY DEF ScopedInv, BalanceInv, Flight
    <3>3. /\ slots[s].credits \in Nat /\ Batches(pipe, s) \in Nat
          /\ Cardinality(dockets[s]) \in Nat /\ Batches(scopeReplies, s) \in Nat
      BY Numbers
    <3> QED
      BY <1>2, <3>1, <3>2, <3>3, ScopedAssumption
  <2> QED
    BY <1>1, <2>1, <2>2 DEF BalanceInv
<1> QED
  BY <1>4, <1>5, <1>6, <1>7, <1>8, <1>9 DEF DataInv

(* A slot that is opened has nothing of a former incarnation anywhere.     *)
LEMMA OpenStep == ASSUME ScopedInv, NEW o \in Scopes, Open(o) PROVE DataInv'
<1>1. /\ UNCHANGED <<next, rootCredits, rootReceipts, scopeReplies, rootDocket,
                     dockets, ledger, life, gateClosed, scopeHeld, xPc>>
      /\ slots[o].state = "Free" /\ pipe' = pipe
  BY DEF Open, rings, inboxVars, pipe
<1>2. slots \in [Scopes -> Slot] /\ since \in [Scopes -> 1 .. MaxSeq + 1]
  BY DEF ScopedInv, TypeOK, Slot
<1>3. /\ \A t \in Scopes : t # o => slots'[t] = slots[t] /\ since'[t] = since[t]
      /\ slots'[o].gen = slots[o].gen /\ slots'[o].credits = slots[o].credits
      /\ slots'[o].state = "Open" /\ slots'[o].applied = None /\ since'[o] = next
  BY <1>2 DEF Open, Slot
<1>4. \A s : NoneClosed(s)' <=> NoneClosed(s)
  BY <1>1 DEF NoneClosed
<1>5. PipeInv' /\ \A b : Drained(b) => Drained(b)'
  BY <1>1 DEF ScopedInv, PipeInv, Drained
<1>6. /\ \A i \in DOMAIN pipe : pipe[i].scope # o
      /\ dockets[o] = {}
      /\ \A k \in DOMAIN scopeReplies : scopeReplies[k].scope # o
  <2>1. o # Root
    BY DEF Scopes, Root
  <2> QED
    BY <1>1, <2>1 DEF ScopedInv, PipeOwn, DocketInv, ReplyInv
<1>7. PipeOwn'
  <2>1. \A s \in Scopes : (\E i \in DOMAIN pipe' : pipe'[i].scope = s) => s # o
    BY <1>1, <1>6
  <2> QED
    BY <1>1, <1>3, <1>4, <2>1, PipeKept
<1>8. DocketInv'
  <2>1. \A s \in Scopes : dockets'[s] \subseteq dockets[s] /\ (dockets'[s] # {} => s # o)
    BY <1>1, <1>6
  <2>2. xPc' \in {"releaseRoot", "releaseScope", "gone"} =>
          rootDocket' = {} /\ \A s \in Scopes : dockets'[s] = {}
    BY <1>1 DEF ScopedInv, DocketInv
  <2> QED
    BY <1>1, <1>3, <1>4, <1>5, <2>1, <2>2, DocketsKept
<1>9. ReplyInv'
  BY <1>1, <1>3, <1>6 DEF ScopedInv, ReplyInv, LastOfLevel
<1>10. LifeInv'
  <2> SUFFICES ASSUME NEW s \in Scopes
               PROVE  /\ life[s].closing => /\ slots'[s].state = "Closing"
                                            /\ life[s].gen = slots'[s].gen
                                            /\ slots'[s].gen < MaxGen /\ NoneClosed(s)
                      /\ scopeHeld =>
                           life[s].gen = IF NoneClosed(s) THEN slots'[s].gen ELSE slots'[s].gen + 1
                      /\ scopeHeld /\ ledger[s] # None =>
                           slots'[s].state # "Free" /\ since'[s] <= ledger[s] /\ NoneClosed(s)
                      /\ slots'[s].state # "Free" /\ slots'[s].applied # None =>
                           since'[s] <= slots'[s].applied
                      /\ since'[s] <= next
    BY <1>1, <1>4 DEF LifeInv
  <2>1. CASE s # o
    BY <1>3, <2>1 DEF ScopedInv, LifeInv
  <2>2. CASE s = o
    <3>1. ~life[o].closing /\ (scopeHeld => ledger[o] = None)
      BY <1>1 DEF ScopedInv, LifeInv
    <3>2. scopeHeld => life[o].gen = IF NoneClosed(o) THEN slots[o].gen ELSE slots[o].gen + 1
      BY DEF ScopedInv, LifeInv
    <3>3. next <= next
      BY DEF ScopedInv, TypeOK
    <3> QED
      BY <1>3, <2>2, <3>1, <3>2, <3>3
  <2> QED
    BY <2>1, <2>2
<1>11. BalanceInv'
  <2>1. RootFlight' = RootFlight
    BY <1>1 DEF RootFlight
  <2>2. \A s \in Scopes : slots'[s].credits = slots[s].credits
    BY <1>3
  <2>3. \A s \in Scopes : Flight(s)' = Flight(s)
    BY <1>1, <2>2 DEF Flight
  <2> QED
    BY <1>1, <2>1, <2>3 DEF ScopedInv, BalanceInv
<1> QED
  BY <1>5, <1>7, <1>8, <1>9, <1>10, <1>11 DEF DataInv

(* A receipt of the root that is read gives its credit back.               *)
LEMMA RootReceiptStep ==
  ASSUME ScopedInv, RootReceipt, rootReceipts # <<>>
  PROVE  DataInv'
<1>1. /\ UNCHANGED <<next, slots, since, scopeReplies, rootDocket, dockets, ledger, life,
                     gateClosed, scopeHeld, xPc>>
      /\ rootReceipts' = Tail(rootReceipts) /\ rootCredits' = rootCredits + 1 /\ pipe' = pipe
  BY DEF RootReceipt, inboxVars, pipe
<1>2. \A s : NoneClosed(s)' <=> NoneClosed(s)
  BY <1>1 DEF NoneClosed
<1>3. PipeInv' /\ \A b : Drained(b) => Drained(b)'
  BY <1>1 DEF ScopedInv, PipeInv, Drained
<1>4. PipeOwn'
  BY <1>1, <1>2, PipeKept
<1>5. DocketInv'
  BY <1>1, <1>2, <1>3 DEF ScopedInv, DocketInv
<1>6. ReplyInv'
  BY <1>1 DEF ScopedInv, ReplyInv, LastOfLevel
<1>7. LifeInv'
  BY <1>1, <1>2 DEF ScopedInv, LifeInv
<1>8. RootFlight' = RootFlight
  <2>1. Len(rootReceipts') = Len(rootReceipts) - 1
    BY <1>1, Shrunk DEF ScopedInv, TypeOK
  <2> QED
    BY <1>1, <2>1, Numbers DEF RootFlight
<1>9. \A s \in Scopes : Flight(s)' = Flight(s)
  BY <1>1 DEF Flight
<1>10. BalanceInv'
  BY <1>1, <1>8, <1>9 DEF ScopedInv, BalanceInv
<1> QED
  BY <1>3, <1>4, <1>5, <1>6, <1>7, <1>10 DEF DataInv

(* A reply of a scope that is read is of the slot's generation: a receipt  *)
(* gives its credit back, and Closed, which is the last of the scope, takes *)
(* the slot to the incarnation the inbox is in already.                    *)
LEMMA ReceiptPopStep ==
  ASSUME ScopedInv, ReceiptPop, scopeReplies # <<>>
  PROVE  DataInv'
<1>1. /\ UNCHANGED <<next, rootCredits, since, rootReceipts, rootDocket, dockets, ledger, life,
                     gateClosed, scopeHeld, xPc>>
      /\ scopeReplies' = Tail(scopeReplies) /\ SettleScope(Head(scopeReplies)) /\ pipe' = pipe
  BY DEF ReceiptPop, inboxVars, pipe
<1>2. PICK r : r = Head(scopeReplies)
  OBVIOUS
<1>3. PICK o : o = r.scope
  OBVIOUS
<1>4. scopeReplies \in Seq(Reply) /\ slots \in [Scopes -> Slot]
  BY DEF ScopedInv, TypeOK, Slot
<1>5. /\ scopeReplies' \in Seq(Reply) /\ 1 \in DOMAIN scopeReplies /\ scopeReplies[1] = r
      /\ r \in Reply
      /\ \A i \in DOMAIN scopeReplies' :
           /\ i \in Nat /\ i + 1 \in DOMAIN scopeReplies
           /\ scopeReplies'[i] = scopeReplies[i + 1] /\ 1 < i + 1
  BY <1>1, <1>2, <1>4, Shrunk
<1>6. /\ o \in Scopes /\ r.gen = slots[o].gen /\ slots[o].state # "Free"
      /\ r.kind # "Closed" => since[o] <= r.seq
      /\ r.kind = "Closed" => /\ slots[o].state = "Closing" /\ slots[o].gen < MaxGen
                              /\ LastOfLevel(scopeReplies, 1)
  BY <1>3, <1>5 DEF ScopedInv, ReplyInv
<1>7. /\ \A t \in Scopes : t # o => slots'[t] = slots[t]
      /\ slots'[o] = IF r.kind = "Closed" THEN [slots[o] EXCEPT !.gen = @ + 1, !.state = "Free"]
                     ELSE [slots[o] EXCEPT !.credits = @ + 1,
                             !.applied = IF r.kind = "Applied" THEN Later(@, r.seq) ELSE @]
  BY <1>1, <1>2, <1>3, <1>4, <1>6 DEF SettleScope
<1>8. slots[o] \in Slot
  BY <1>4, <1>6
<1>9. PipeInv' /\ \A b : Drained(b) => Drained(b)'
  BY <1>1 DEF ScopedInv, PipeInv, Drained
<1>10. \A s : NoneClosed(s) => NoneClosed(s)'
  BY <1>5 DEF NoneClosed
<1>11. \A s : s # o => (NoneClosed(s)' => NoneClosed(s))
  <2> SUFFICES ASSUME NEW s, s # o, NoneClosed(s)', NEW k \in DOMAIN scopeReplies,
                      scopeReplies[k].scope = s
               PROVE  scopeReplies[k].kind # "Closed"
    BY DEF NoneClosed
  <2>1. k # 1
    BY <1>3, <1>5
  <2>2. k - 1 \in DOMAIN scopeReplies' /\ scopeReplies'[k - 1] = scopeReplies[k]
    BY <1>1, <1>4, <2>1
  <2> QED
    BY <2>2 DEF NoneClosed
<1>12. \A s \in Scopes :
         /\ Batches(scopeReplies, s) = Counts(r, s) + Batches(scopeReplies', s)
         /\ Batches(scopeReplies', s) \in Nat
  BY <1>1, <1>2, <1>4, <1>5, TailCount, BatchesFinite
<1>13. xPc' \in {"releaseRoot", "releaseScope", "gone"} =>
          rootDocket' = {} /\ \A s \in Scopes : dockets'[s] = {}
  BY <1>1 DEF ScopedInv, DocketInv
<1>14. ASSUME NEW i \in DOMAIN scopeReplies', scopeReplies'[i].kind = "Closed"
       PROVE  LastOfLevel(scopeReplies', i)
  <2>1. LastOfLevel(scopeReplies, i + 1)
    BY <1>5, <1>14 DEF ScopedInv, ReplyInv
  <2> SUFFICES ASSUME NEW j \in DOMAIN scopeReplies', i < j
               PROVE  scopeReplies'[j].scope # scopeReplies'[i].scope
    BY DEF LastOfLevel
  <2>2. i + 1 < j + 1
    BY <1>5
  <2> QED
    BY <1>5, <2>1, <2>2 DEF LastOfLevel
<1>15. ASSUME NEW k \in DOMAIN scopeReplies'
       PROVE  LET s == scopeReplies'[k].scope IN
              /\ s \in Scopes
              /\ scopeReplies'[k].gen = slots[s].gen
              /\ slots[s].state # "Free"
              /\ scopeReplies'[k].kind # "Closed" => since[s] <= scopeReplies'[k].seq
              /\ scopeReplies'[k].kind = "Closed" => slots[s].state = "Closing"
                                                     /\ slots[s].gen < MaxGen
  BY <1>5 DEF ScopedInv, ReplyInv
<1>16. CASE r.kind = "Closed"
  <2>1. /\ slots'[o].gen = slots[o].gen + 1 /\ slots'[o].state = "Free"
        /\ slots'[o].credits = slots[o].credits /\ slots'[o].applied = slots[o].applied
    BY <1>7, <1>8, <1>16 DEF Slot
  <2>2. ~NoneClosed(o)
    BY <1>3, <1>5, <1>16 DEF NoneClosed
  <2>3. o # Root
    BY <1>6 DEF Scopes, Root
  <2>4. \A i \in DOMAIN pipe : pipe[i].scope # o
    BY <2>2, <2>3 DEF ScopedInv, PipeOwn
  <2>5. dockets[o] = {}
    BY <1>6, <2>2 DEF ScopedInv, DocketInv
  <2>6. \A k \in DOMAIN scopeReplies' : scopeReplies'[k].scope # o
    BY <1>3, <1>5, <1>6, <1>16 DEF LastOfLevel
  <2>7. NoneClosed(o)'
    BY <2>6 DEF NoneClosed
  <2>8. PipeOwn'
    <3>1. \A s \in Scopes : (\E i \in DOMAIN pipe' : pipe'[i].scope = s) => s # o
      BY <1>1, <2>4
    <3> QED
      BY <1>1, <1>7, <1>10, <3>1, PipeKept
  <2>9. DocketInv'
    <3>1. \A s \in Scopes : dockets'[s] \subseteq dockets[s] /\ (dockets'[s] # {} => s # o)
      BY <1>1, <2>5
    <3> QED
      BY <1>1, <1>7, <1>9, <1>10, <1>13, <3>1, DocketsKept
  <2>10. ReplyInv'
    <3>1. \A k \in DOMAIN scopeReplies' :
            slots'[scopeReplies'[k].scope] = slots[scopeReplies'[k].scope]
      BY <1>7, <1>15, <2>6
    <3> QED
      BY <1>1, <1>14, <1>15, <3>1 DEF ReplyInv, LastOfLevel
  <2>11. LifeInv'
    <3> SUFFICES ASSUME NEW s \in Scopes
                 PROVE  /\ life[s].closing => /\ slots'[s].state = "Closing"
                                              /\ life[s].gen = slots'[s].gen
                                              /\ slots'[s].gen < MaxGen /\ NoneClosed(s)'
                        /\ scopeHeld => life[s].gen = IF NoneClosed(s)' THEN slots'[s].gen
                                                                      ELSE slots'[s].gen + 1
                        /\ scopeHeld /\ ledger[s] # None =>
                             slots'[s].state # "Free" /\ since[s] <= ledger[s] /\ NoneClosed(s)'
                        /\ slots'[s].state # "Free" /\ slots'[s].applied # None =>
                             since[s] <= slots'[s].applied
                        /\ since[s] <= next
      BY <1>1 DEF LifeInv
    <3>1. CASE s # o
      BY <1>7, <1>10, <1>11, <3>1 DEF ScopedInv, LifeInv
    <3>2. CASE s = o
      <4>1. ~life[o].closing /\ (scopeHeld => ledger[o] = None) /\ since[o] <= next
        BY <1>6, <2>2 DEF ScopedInv, LifeInv
      <4>2. scopeHeld => life[o].gen = slots[o].gen + 1
        BY <1>6, <2>2 DEF ScopedInv, LifeInv
      <4> QED
        BY <2>1, <2>7, <3>2, <4>1, <4>2
    <3> QED
      BY <3>1, <3>2
  <2>12. \A s \in Scopes : /\ slots'[s].credits = slots[s].credits
                           /\ Batches(scopeReplies', s) = Batches(scopeReplies, s)
    <3>1. \A s : Counts(r, s) = 0
      BY <1>16 DEF Counts
    <3>2. \A s \in Scopes : Batches(scopeReplies', s) = Batches(scopeReplies, s)
      BY <1>12, <3>1
    <3>3. \A s \in Scopes : slots'[s].credits = slots[s].credits
      BY <1>7, <2>1
    <3> QED
      BY <3>2, <3>3
  <2>13. BalanceInv'
    <3>1. RootFlight' = RootFlight
      BY <1>1 DEF RootFlight
    <3>2. \A s \in Scopes : Flight(s)' = Flight(s)
      BY <1>1, <2>12 DEF Flight
    <3> QED
      BY <1>1, <3>1, <3>2 DEF ScopedInv, BalanceInv
  <2> QED
    BY <1>9, <2>8, <2>9, <2>10, <2>11, <2>13 DEF DataInv
<1>17. CASE r.kind # "Closed"
  <2>1. /\ slots'[o].gen = slots[o].gen /\ slots'[o].state = slots[o].state
        /\ slots'[o].credits = slots[o].credits + 1
        /\ slots'[o].applied = slots[o].applied \/ slots'[o].applied = r.seq
    BY <1>7, <1>8, <1>17 DEF Slot, Later
  <2>2. \A s \in Scopes : slots'[s].gen = slots[s].gen /\ slots'[s].state = slots[s].state
    BY <1>7, <2>1
  <2>3. \A s : NoneClosed(s)' => NoneClosed(s)
    <3> SUFFICES ASSUME NEW s, NoneClosed(s)', NEW k \in DOMAIN scopeReplies,
                        scopeReplies[k].scope = s
                 PROVE  scopeReplies[k].kind # "Closed"
      BY DEF NoneClosed
    <3>1. CASE k = 1
      BY <1>5, <1>17, <3>1
    <3>2. CASE k # 1
      <4>1. k - 1 \in DOMAIN scopeReplies' /\ scopeReplies'[k - 1] = scopeReplies[k]
        BY <1>1, <1>4, <3>2
      <4> QED
        BY <4>1 DEF NoneClosed
    <3> QED
      BY <3>1, <3>2
  <2>4. PipeOwn'
    BY <1>1, <1>10, <2>2, PipeKept
  <2>5. DocketInv'
    BY <1>1, <1>9, <1>10, <1>13, <2>2, DocketsKept
  <2>6. ReplyInv'
    BY <1>1, <1>14, <1>15, <2>2 DEF ReplyInv, LastOfLevel
  <2>7. LifeInv'
    <3>1. ASSUME NEW s \in Scopes, slots'[s].state # "Free", slots'[s].applied # None
          PROVE  since[s] <= slots'[s].applied
      <4>1. slots'[s].applied = slots[s].applied \/ (s = o /\ slots'[s].applied = r.seq)
        BY <1>7, <2>1
      <4> QED
        BY <1>6, <1>17, <2>2, <3>1, <4>1 DEF ScopedInv, LifeInv
    <3>2. \A s \in Scopes :
            /\ life[s].closing => /\ slots'[s].state = "Closing"
                                  /\ life[s].gen = slots'[s].gen /\ slots'[s].gen < MaxGen
                                  /\ NoneClosed(s)'
            /\ scopeHeld => life[s].gen = IF NoneClosed(s)' THEN slots'[s].gen
                                                            ELSE slots'[s].gen + 1
            /\ scopeHeld /\ ledger[s] # None =>
                 slots'[s].state # "Free" /\ since[s] <= ledger[s] /\ NoneClosed(s)'
            /\ since[s] <= next
      BY <1>10, <2>2, <2>3 DEF ScopedInv, LifeInv
    <3> QED
      BY <1>1, <3>1, <3>2 DEF LifeInv
  <2>8. BalanceInv'
    <3>1. RootFlight' = RootFlight
      BY <1>1 DEF RootFlight
    <3>2. ASSUME NEW s \in Scopes PROVE Flight(s)' = Flight(s)
      <4>1. slots'[s].credits = slots[s].credits + Counts(r, s)
        <5>1. Counts(r, s) = IF s = o THEN 1 ELSE 0
          BY <1>3, <1>5, <1>17, ReplyFields DEF Counts
        <5>2. slots[s].credits \in Nat
          BY Numbers
        <5>3. CASE s = o
          BY <2>1, <5>1, <5>3
        <5>4. CASE s # o
          <6>1. slots'[s] = slots[s]
            BY <1>7, <5>4
          <6> QED
            BY <5>1, <5>2, <5>4, <6>1
        <5> QED
          BY <5>3, <5>4
      <4>2. /\ Batches(scopeReplies, s) = Counts(r, s) + Batches(scopeReplies', s)
            /\ Batches(scopeReplies', s) \in Nat /\ Counts(r, s) \in Nat
        BY <1>12 DEF Counts
      <4>3. /\ slots[s].credits \in Nat /\ Batches(pipe, s) \in Nat
            /\ Cardinality(dockets[s]) \in Nat
        BY Numbers
      <4>4. Flight(s)' = slots'[s].credits + Batches(pipe, s) + Cardinality(dockets[s])
                           + Batches(scopeReplies', s)
        BY <1>1 DEF Flight
      <4> QED
        BY <4>1, <4>2, <4>3, <4>4 DEF Flight
    <3> QED
      BY <1>1, <3>1, <3>2 DEF ScopedInv, BalanceInv
  <2> QED
    BY <1>9, <2>4, <2>5, <2>6, <2>7, <2>8 DEF DataInv
<1> QED
  BY <1>16, <1>17

(* What the inbox left in the ring is answered by the owner itself, with   *)
(* the replies the inbox would have sent; no docket holds anything.        *)
LEMMA OrphanStep ==
  ASSUME ScopedInv, RecoverOrphans, commands # <<>>
  PROVE  DataInv'
<1>1. /\ UNCHANGED <<next, rootCredits, slots, since, rootDocket, dockets, ledger, life,
                     gateClosed, scopeHeld, xPc>>
      /\ commands' = Tail(commands) /\ staged' = staged /\ Orphan(Head(commands))
  BY DEF RecoverOrphans, inboxVars
<1>2. xPc = "gone" /\ ~scopeHeld /\ gateClosed
  BY DEF RecoverOrphans, ScopedInv, PcInv
<1>3. rootDocket = {} /\ \A s \in Scopes : dockets[s] = {}
  BY <1>2 DEF ScopedInv, DocketInv
<1>4. PICK x : x = Head(commands)
  OBVIOUS
<1>5. pipe # <<>> /\ x = Head(pipe) /\ pipe' = Tail(pipe)
  BY <1>1, <1>4, PipePops DEF ScopedInv
<1>6. /\ x \in Item /\ 1 \in DOMAIN pipe /\ x = pipe[1]
      /\ PipeInv'
      /\ \A i \in DOMAIN pipe' : \E j \in DOMAIN pipe : pipe'[i] = pipe[j]
      /\ x.kind = "close" => \A i \in DOMAIN pipe' : pipe'[i].scope # x.scope
      /\ \A b : Drained(b) => Drained(b)'
      /\ \A s : /\ Batches(pipe, s) = Counts(x, s) + Batches(pipe', s)
                /\ Batches(pipe', s) \in Nat
  BY <1>1, <1>5, PipePopped
<1>7. /\ x.kind \in {"batch", "close"} /\ x.scope \in {Root} \cup Scopes /\ x.gen \in Gens
      /\ x.scope = Root => x.kind = "batch"
  BY <1>6, ItemFields
<1>8. DocketInv'
  <2>1. /\ IsFiniteSet(rootDocket') /\ rootDocket' = {}
        /\ \A s \in Scopes : dockets'[s] = {} /\ IsFiniteSet(dockets'[s])
    BY <1>1, <1>3, FS_EmptySet
  <2> QED
    BY <2>1 DEF DocketInv
<1>9. CASE x.scope = Root
  <2>1. x.kind = "batch" /\ Counts(x, Root) = 1
    BY <1>7, <1>9 DEF Counts
  <2>2. Batches(pipe, Root) > 0
    BY <1>6, <2>1
  <2>3. rootReceipts' = Append(rootReceipts, Receipt(x, "Rejected")) /\ UNCHANGED scopeReplies
    BY <1>1, <1>4, <1>9, <2>2, RootLands DEF Orphan
  <2>4. \A s : NoneClosed(s)' <=> NoneClosed(s)
    BY <2>3 DEF NoneClosed
  <2>5. PipeOwn'
    BY <1>1, <1>6, <2>4, PipeKept
  <2>6. ReplyInv'
    BY <1>1, <2>3 DEF ScopedInv, ReplyInv, LastOfLevel
  <2>7. LifeInv'
    BY <1>1, <2>4 DEF ScopedInv, LifeInv
  <2>8. RootFlight' = RootFlight
    <3>1. Len(rootReceipts') = Len(rootReceipts) + 1
      <4>1. rootReceipts \in Seq(Reply) /\ Receipt(x, "Rejected") \in Reply
        BY <1>6, <2>1, ReceiptOf DEF ScopedInv, TypeOK
      <4> QED
        BY <2>3, <4>1
    <3>2. Batches(pipe, Root) = 1 + Batches(pipe', Root) /\ Batches(pipe', Root) \in Nat
      BY <1>6, <2>1
    <3> QED
      BY <1>1, <3>1, <3>2, Numbers DEF RootFlight
  <2>9. \A s \in Scopes : Flight(s)' = Flight(s)
    <3>1. \A s \in Scopes : Batches(pipe', s) = Batches(pipe, s)
      <4>1. \A s \in Scopes : Counts(x, s) = 0
        BY <1>9 DEF Counts, Scopes, Root
      <4> QED
        BY <1>6, <4>1
    <3> QED
      BY <1>1, <2>3, <3>1 DEF Flight
  <2>10. BalanceInv'
    BY <1>1, <2>8, <2>9 DEF ScopedInv, BalanceInv
  <2> QED
    BY <1>6, <1>8, <2>5, <2>6, <2>7, <2>10 DEF DataInv
<1>10. CASE x.scope # Root
  <2>1. PICK o : o = x.scope
    OBVIOUS
  <2>2. /\ o \in Scopes /\ x.gen = slots[o].gen /\ slots[o].state # "Free"
        /\ x.kind = "batch" => since[o] <= x.seq
        /\ x.kind = "close" => slots[o].state = "Closing" /\ slots[o].gen < MaxGen
        /\ ~life[o].closing /\ NoneClosed(o)
    BY <1>6, <1>7, <1>10, <2>1 DEF ScopedInv, PipeOwn, NoneClosed
  <2>3. PICK r : r = IF x.kind = "close" THEN ClosedReply(x.scope, x.gen)
                                         ELSE Receipt(x, "Rejected")
    OBVIOUS
  <2>4. /\ r \in Reply /\ r.scope = o /\ r.gen = x.gen
        /\ x.kind = "batch" => r.kind # "Closed" /\ r.seq = x.seq
        /\ x.kind = "close" => r.kind = "Closed"
        /\ \A s : Counts(r, s) = Counts(x, s)
    <3>1. CASE x.kind = "batch"
      <4>1. \A s : Counts(x, s) = IF x.scope = s THEN 1 ELSE 0
        BY <3>1 DEF Counts
      <4>2. r = Receipt(x, "Rejected")
        BY <2>3, <3>1
      <4> QED
        BY <1>6, <2>1, <3>1, <4>1, <4>2, ReceiptOf
    <3>2. CASE x.kind = "close"
      <4>1. \A s : Counts(x, s) = 0
        BY <3>2 DEF Counts
      <4> QED
        BY <1>7, <2>1, <2>2, <2>3, <3>2, <4>1, ClosedOf
    <3> QED
      BY <1>7, <3>1, <3>2
  <2>5. scopeReplies' = Push(scopeReplies, r, ScopeRoom) /\ UNCHANGED rootReceipts
    BY <1>1, <1>4, <1>10, <2>3 DEF Orphan
  <2>6. r.kind # "Closed" => Batches(scopeReplies, o) < ScopeCapacity
    <3> SUFFICES ASSUME r.kind # "Closed" PROVE Batches(scopeReplies, o) < ScopeCapacity
      OBVIOUS
    <3>1. x.kind = "batch"
      BY <1>7, <2>4
    <3>2. Counts(x, o) = 1
      BY <2>1, <3>1 DEF Counts
    <3>3. Batches(pipe, o) > 0
      BY <1>6, <3>2
    <3> QED
      BY <2>2, <3>3, Bounded
  <2>7. /\ ReplyInv'
        /\ \A s : Batches(scopeReplies', s) = Batches(scopeReplies, s) + Counts(r, s)
        /\ \A s : r.kind # "Closed" \/ s # o => (NoneClosed(s)' <=> NoneClosed(s))
    BY <1>1, <1>7, <2>2, <2>4, <2>5, <2>6, ReplyPushed
  <2>8. PipeOwn'
    <3>1. \A s \in Scopes : (\E i \in DOMAIN pipe' : pipe'[i].scope = s) =>
            (NoneClosed(s) => NoneClosed(s)')
      BY <1>6, <1>7, <2>1, <2>4, <2>7
    <3> QED
      BY <1>1, <1>6, <3>1, PipeKept
  <2>9. LifeInv'
    <3>1. \A s \in Scopes : life[s].closing => NoneClosed(s)'
      BY <2>2, <2>7 DEF ScopedInv, LifeInv
    <3> QED
      BY <1>1, <1>2, <3>1 DEF ScopedInv, LifeInv
  <2>10. RootFlight' = RootFlight
    <3>1. Counts(x, Root) = 0
      BY <1>10 DEF Counts
    <3>2. Batches(pipe', Root) = Batches(pipe, Root)
      BY <1>6, <3>1
    <3> QED
      BY <1>1, <2>5, <3>2 DEF RootFlight
  <2>11. ASSUME NEW s \in Scopes PROVE Flight(s)' = Flight(s)
    <3>1. /\ Batches(scopeReplies', s) = Batches(scopeReplies, s) + Counts(x, s)
          /\ Batches(pipe, s) = Counts(x, s) + Batches(pipe', s) /\ Batches(pipe', s) \in Nat
          /\ Counts(x, s) \in Nat
      BY <1>6, <2>4, <2>7 DEF Counts
    <3>2. Flight(s)' = slots[s].credits + Batches(pipe', s) + Cardinality(dockets[s])
                         + Batches(scopeReplies', s)
      BY <1>1 DEF Flight
    <3>3. /\ slots[s].credits \in Nat /\ Cardinality(dockets[s]) \in Nat
          /\ Batches(scopeReplies, s) \in Nat
      BY Numbers
    <3> QED
      BY <3>1, <3>2, <3>3 DEF Flight
  <2>12. BalanceInv'
    BY <1>1, <2>10, <2>11 DEF ScopedInv, BalanceInv
  <2> QED
    BY <1>6, <1>8, <2>7, <2>8, <2>9, <2>12 DEF DataInv
<1> QED
  BY <1>9, <1>10

-----------------------------------------------------------------------------
(* The executor's steps.                                                   *)

(* An item that is drained goes to the docket of its level, or flags the   *)
(* scope; it is never of another generation.                               *)
LEMMA DrainStep ==
  ASSUME ScopedInv, Drain, commands # <<>>
  PROVE  DataInv'
<1>1. /\ UNCHANGED <<next, rootCredits, slots, since, rootReceipts, ledger,
                     gateClosed, scopeHeld, xPc>>
      /\ commands' = Tail(commands) /\ staged' = staged /\ Route(Head(commands))
      /\ xPc \in {"drain", "dropDrain"}
  BY DEF Drain, ownerVars
<1>2. scopeHeld /\ xPc' \notin {"releaseRoot", "releaseScope", "gone"}
  BY <1>1 DEF ScopedInv, PcInv
<1>3. PICK x : x = Head(commands)
  OBVIOUS
<1>4. pipe # <<>> /\ x = Head(pipe) /\ pipe' = Tail(pipe)
  BY <1>1, <1>3, PipePops DEF ScopedInv
<1>5. /\ x \in Item /\ 1 \in DOMAIN pipe /\ x = pipe[1]
      /\ PipeInv'
      /\ \A i \in DOMAIN pipe' : \E j \in DOMAIN pipe : pipe'[i] = pipe[j]
      /\ x.kind = "close" => \A i \in DOMAIN pipe' : pipe'[i].scope # x.scope
      /\ \A b : Drained(b) => Drained(b)'
      /\ x.kind = "batch" => Drained(x)' /\ ~Drained(x)
      /\ \A s : /\ Batches(pipe, s) = Counts(x, s) + Batches(pipe', s)
                /\ Batches(pipe', s) \in Nat
  BY <1>1, <1>4, PipePopped
<1>6. /\ x.kind \in {"batch", "close"} /\ x.scope \in {Root} \cup Scopes
      /\ x.scope = Root => x.kind = "batch"
  BY <1>5, ItemFields
<1>7. x.scope # Root =>
        /\ x.gen = slots[x.scope].gen /\ slots[x.scope].state # "Free"
        /\ x.kind = "batch" => since[x.scope] <= x.seq
        /\ x.kind = "close" => slots[x.scope].state = "Closing" /\ slots[x.scope].gen < MaxGen
        /\ NoneClosed(x.scope)
  BY <1>5 DEF ScopedInv, PipeOwn, NoneClosed
<1>8. x.scope # Root => life[x.scope].gen = x.gen
  BY <1>2, <1>6, <1>7 DEF ScopedInv, LifeInv
<1>9. Route(x) /\ UNCHANGED scopeReplies
  BY <1>1, <1>3, <1>8 DEF Route
<1>10. \A s : NoneClosed(s)' <=> NoneClosed(s)
  BY <1>9 DEF NoneClosed
<1>11. ReplyInv'
  BY <1>1, <1>9 DEF ScopedInv, ReplyInv, LastOfLevel
<1>12. /\ IsFiniteSet(rootDocket) /\ \A b \in rootDocket : b.scope = Root /\ Drained(b)
       /\ \A s \in Scopes :
            /\ IsFiniteSet(dockets[s])
            /\ \A b \in dockets[s] :
                 /\ b.scope = s /\ Drained(b)
                 /\ b.gen = slots[s].gen
                 /\ slots[s].state # "Free"
                 /\ since[s] <= b.seq
                 /\ NoneClosed(s)
  BY DEF ScopedInv, DocketInv
<1>13. CASE x.scope = Root
  <2>1. rootDocket' = rootDocket \cup {x} /\ UNCHANGED <<dockets, life>>
    BY <1>9, <1>13 DEF Route
  <2>2. x.kind = "batch" /\ x \notin rootDocket
    BY <1>5, <1>6, <1>12, <1>13
  <2>3. /\ IsFiniteSet(rootDocket')
        /\ Cardinality(rootDocket') = Cardinality(rootDocket) + 1
    BY <1>12, <2>1, <2>2, FS_AddElement
  <2>4. DocketInv'
    BY <1>1, <1>2, <1>5, <1>10, <1>12, <1>13, <2>1, <2>2, <2>3 DEF DocketInv
  <2>5. PipeOwn'
    BY <1>1, <1>5, <1>10, <2>1, PipeKept
  <2>6. LifeInv'
    BY <1>1, <1>10, <2>1 DEF ScopedInv, LifeInv
  <2>7. RootFlight' = RootFlight
    <3>1. Batches(pipe, Root) = 1 + Batches(pipe', Root) /\ Batches(pipe', Root) \in Nat
      <4>1. Counts(x, Root) = 1
        BY <1>13, <2>2 DEF Counts
      <4> QED
        BY <1>5, <4>1
    <3> QED
      BY <1>1, <2>3, <3>1, Numbers DEF RootFlight
  <2>8. \A s \in Scopes : Flight(s)' = Flight(s)
    <3>1. \A s \in Scopes : Batches(pipe', s) = Batches(pipe, s)
      <4>1. \A s \in Scopes : Counts(x, s) = 0
        BY <1>13 DEF Counts, Scopes, Root
      <4> QED
        BY <1>5, <4>1
    <3> QED
      BY <1>1, <1>9, <2>1, <3>1 DEF Flight
  <2>9. BalanceInv'
    BY <1>1, <2>7, <2>8 DEF ScopedInv, BalanceInv
  <2> QED
    BY <1>5, <1>11, <2>4, <2>5, <2>6, <2>9 DEF DataInv
<1>14. CASE x.scope # Root
  <2>1. PICK o : o = x.scope
    OBVIOUS
  <2>2. /\ o \in Scopes /\ x.gen = slots[o].gen /\ slots[o].state # "Free"
        /\ x.kind = "batch" => since[o] <= x.seq
        /\ x.kind = "close" => slots[o].state = "Closing" /\ slots[o].gen < MaxGen
        /\ NoneClosed(o) /\ life[o].gen = x.gen
    BY <1>6, <1>7, <1>8, <1>14, <2>1
  <2>3. /\ UNCHANGED rootDocket
        /\ dockets' = IF x.kind = "batch" THEN [dockets EXCEPT ![o] = @ \cup {x}] ELSE dockets
        /\ life' = IF x.kind = "close" THEN [life EXCEPT ![o].closing = TRUE] ELSE life
    BY <1>8, <1>9, <1>14, <2>1 DEF Route
  <2>4. RootFlight' = RootFlight
    <3>1. Counts(x, Root) = 0
      BY <1>14 DEF Counts
    <3>2. Batches(pipe', Root) = Batches(pipe, Root)
      BY <1>5, <3>1
    <3> QED
      BY <1>1, <2>3, <3>2 DEF RootFlight
  <2>5. CASE x.kind = "batch"
    <3>1. dockets \in [Scopes -> SUBSET Item]
      BY DEF ScopedInv, TypeOK
    <3>2. /\ dockets'[o] = dockets[o] \cup {x} /\ life' = life
          /\ \A s \in Scopes : s # o => dockets'[s] = dockets[s]
      BY <2>2, <2>3, <2>5, <3>1
    <3>3. x \notin dockets[o]
      BY <1>5, <1>12, <2>2, <2>5
    <3>4. /\ IsFiniteSet(dockets'[o])
          /\ Cardinality(dockets'[o]) = Cardinality(dockets[o]) + 1
      BY <1>12, <2>2, <3>2, <3>3, FS_AddElement
    <3>5. DocketInv'
      <4>1. IsFiniteSet(rootDocket') /\ \A b \in rootDocket' : b.scope = Root /\ Drained(b)'
        BY <1>5, <1>12, <2>3
      <4>2. ASSUME NEW s \in Scopes
            PROVE  /\ IsFiniteSet(dockets'[s])
                   /\ \A b \in dockets'[s] :
                        /\ b.scope = s /\ Drained(b)'
                        /\ b.gen = slots'[s].gen
                        /\ slots'[s].state # "Free"
                        /\ since'[s] <= b.seq
                        /\ NoneClosed(s)'
        <5>1. CASE s = o
          <6>1. ASSUME NEW b \in dockets[o]
                PROVE  /\ b.scope = o /\ Drained(b)' /\ b.gen = slots[o].gen
                       /\ slots[o].state # "Free" /\ since[o] <= b.seq /\ NoneClosed(o)
            BY <1>5, <1>12, <2>2
          <6>2. /\ x.scope = o /\ Drained(x)' /\ x.gen = slots[o].gen
                /\ slots[o].state # "Free" /\ since[o] <= x.seq /\ NoneClosed(o)
            BY <1>5, <2>1, <2>2, <2>5
          <6> QED
            BY <1>1, <1>10, <3>2, <3>4, <5>1, <6>1, <6>2
        <5>2. CASE s # o
          BY <1>1, <1>5, <1>10, <1>12, <3>2, <5>2
        <5> QED
          BY <5>1, <5>2
      <4> QED
        BY <1>2, <4>1, <4>2 DEF DocketInv
    <3>6. PipeOwn'
      BY <1>1, <1>5, <1>10, <3>2, PipeKept
    <3>7. LifeInv'
      BY <1>1, <1>10, <3>2 DEF ScopedInv, LifeInv
    <3>8. ASSUME NEW s \in Scopes PROVE Flight(s)' = Flight(s)
      <4>1. Flight(s)' = slots[s].credits + Batches(pipe', s) + Cardinality(dockets'[s])
                           + Batches(scopeReplies, s)
        BY <1>1, <1>9 DEF Flight
      <4>2. /\ slots[s].credits \in Nat /\ Cardinality(dockets[s]) \in Nat
            /\ Batches(scopeReplies, s) \in Nat
        BY Numbers
      <4>3. Counts(x, s) = IF s = o THEN 1 ELSE 0
        BY <2>1, <2>5 DEF Counts
      <4>4. Cardinality(dockets'[s]) = Cardinality(dockets[s]) + Counts(x, s)
        <5>1. CASE s = o
          BY <3>4, <4>3, <5>1
        <5>2. CASE s # o
          BY <3>2, <4>2, <4>3, <5>2
        <5> QED
          BY <5>1, <5>2
      <4>5. /\ Batches(pipe, s) = Counts(x, s) + Batches(pipe', s)
            /\ Batches(pipe', s) \in Nat /\ Counts(x, s) \in Nat
        BY <1>5, <4>3
      <4> QED
        BY <4>1, <4>2, <4>4, <4>5 DEF Flight
    <3>9. BalanceInv'
      BY <1>1, <2>4, <3>8 DEF ScopedInv, BalanceInv
    <3> QED
      BY <1>5, <1>11, <3>5, <3>6, <3>7, <3>9 DEF DataInv
  <2>6. CASE x.kind = "close"
    <3>1. life \in [Scopes -> [gen : Gens, closing : BOOLEAN]]
      BY DEF ScopedInv, TypeOK
    <3>2. /\ dockets' = dockets /\ life'[o].closing /\ life'[o].gen = life[o].gen
          /\ \A s \in Scopes : s # o => life'[s] = life[s]
      BY <2>2, <2>3, <2>6, <3>1
    <3>3. DocketInv'
      BY <1>1, <1>2, <1>5, <1>10, <1>12, <2>3, <3>2 DEF DocketInv
    <3>4. PipeOwn'
      <4>1. \A s \in Scopes : (\E i \in DOMAIN pipe' : pipe'[i].scope = s) =>
              life'[s].closing = life[s].closing
        BY <1>5, <2>1, <2>6, <3>2
      <4> QED
        BY <1>1, <1>5, <1>10, <4>1, PipeKept
    <3>5. LifeInv'
      <4> SUFFICES ASSUME NEW s \in Scopes
                   PROVE  /\ life'[s].closing => /\ slots[s].state = "Closing"
                                                 /\ life'[s].gen = slots[s].gen
                                                 /\ slots[s].gen < MaxGen /\ NoneClosed(s)
                          /\ scopeHeld => life'[s].gen = IF NoneClosed(s) THEN slots[s].gen
                                                                        ELSE slots[s].gen + 1
                          /\ scopeHeld /\ ledger[s] # None =>
                               slots[s].state # "Free" /\ since[s] <= ledger[s] /\ NoneClosed(s)
                          /\ slots[s].state # "Free" /\ slots[s].applied # None =>
                               since[s] <= slots[s].applied
                          /\ since[s] <= next
        BY <1>1, <1>10 DEF LifeInv
      <4>1. CASE s = o
        BY <2>2, <2>6, <3>2, <4>1 DEF ScopedInv, LifeInv
      <4>2. CASE s # o
        BY <3>2, <4>2 DEF ScopedInv, LifeInv
      <4> QED
        BY <4>1, <4>2
    <3>6. \A s \in Scopes : Flight(s)' = Flight(s)
      <4>1. \A s : Counts(x, s) = 0
        BY <2>6 DEF Counts
      <4>2. \A s : Batches(pipe', s) = Batches(pipe, s)
        BY <1>5, <4>1
      <4> QED
        BY <1>1, <1>9, <3>2, <4>2 DEF Flight
    <3>7. BalanceInv'
      BY <1>1, <2>4, <3>6 DEF ScopedInv, BalanceInv
    <3> QED
      BY <1>5, <1>11, <3>3, <3>4, <3>5, <3>7 DEF DataInv
  <2> QED
    BY <1>6, <2>5, <2>6
<1> QED
  BY <1>13, <1>14

(* A batch of the root that is answered leaves its docket for the ring.    *)
LEMMA AnswerRootStep ==
  ASSUME ScopedInv, NEW a \in rootDocket, AnswerRoot(a), pipe' = pipe,
         UNCHANGED <<next, rootCredits, slots, since, scopeReplies, dockets, ledger, life,
                     gateClosed, scopeHeld, xPc>>
  PROVE  DataInv'
<1>1. /\ IsFiniteSet(rootDocket) /\ a.kind = "batch" /\ a \in Item
      /\ rootReceipts \in Seq(Reply)
  BY DEF ScopedInv, DocketInv, TypeOK, Drained
<1>2. /\ rootDocket' = rootDocket \ {a} /\ IsFiniteSet(rootDocket')
      /\ Cardinality(rootDocket') = Cardinality(rootDocket) - 1
  BY <1>1, FS_RemoveElement DEF AnswerRoot
<1>3. Cardinality(rootDocket) > 0
  <2>1. Cardinality(rootDocket') \in Nat
    BY <1>2, FS_CardinalityType
  <2> QED
    BY <1>2, <2>1, Numbers
<1>4. rootReceipts' = Append(rootReceipts, Receipt(a, "Rejected"))
  BY <1>3, RootLands DEF AnswerRoot
<1>5. Len(rootReceipts') = Len(rootReceipts) + 1
  BY <1>1, <1>4, ReceiptOf
<1>6. \A s : NoneClosed(s)' <=> NoneClosed(s)
  BY DEF NoneClosed
<1>7. PipeInv' /\ \A b : Drained(b) => Drained(b)'
  BY DEF ScopedInv, PipeInv, Drained
<1>8. PipeOwn'
  BY <1>6, PipeKept
<1>9. DocketInv'
  BY <1>2, <1>6, <1>7 DEF ScopedInv, DocketInv
<1>10. ReplyInv'
  BY DEF ScopedInv, ReplyInv, LastOfLevel
<1>11. LifeInv'
  BY <1>6 DEF ScopedInv, LifeInv
<1>12. RootFlight' = RootFlight
  BY <1>2, <1>5, Numbers DEF RootFlight
<1>13. \A s \in Scopes : Flight(s)' = Flight(s)
  BY DEF Flight
<1>14. BalanceInv'
  BY <1>12, <1>13 DEF ScopedInv, BalanceInv
<1> QED
  BY <1>7, <1>8, <1>9, <1>10, <1>11, <1>14 DEF DataInv

(* So does one of a scope, and the ledger remembers it if it was applied.  *)
LEMMA AnswerScopeStep ==
  ASSUME ScopedInv, NEW o \in Scopes, NEW a \in dockets[o],
         NEW outcome \in {"Applied", "Rejected"}, AnswerScope(a, outcome), pipe' = pipe,
         \/ ledger' = ledger
         \/ ledger' = [ledger EXCEPT ![o] = IF outcome = "Applied" THEN Later(@, a.seq) ELSE @],
         UNCHANGED <<next, rootCredits, slots, since, rootReceipts, rootDocket, life,
                     gateClosed, scopeHeld, xPc>>
  PROVE  DataInv'
<1>1. /\ IsFiniteSet(dockets[o]) /\ a.kind = "batch" /\ a.scope = o
      /\ a.gen = slots[o].gen /\ slots[o].state # "Free" /\ since[o] <= a.seq
      /\ NoneClosed(o)
  BY DEF ScopedInv, DocketInv, Drained
<1>2. dockets \in [Scopes -> SUBSET Item] /\ a \in Item
  BY DEF ScopedInv, TypeOK
<1>3. /\ dockets'[o] = dockets[o] \ {a}
      /\ \A s \in Scopes : s # o => dockets'[s] = dockets[s]
  BY <1>1, <1>2 DEF AnswerScope
<1>4. /\ IsFiniteSet(dockets'[o])
      /\ Cardinality(dockets'[o]) = Cardinality(dockets[o]) - 1
      /\ Cardinality(dockets'[o]) \in Nat
  BY <1>1, <1>3, FS_RemoveElement, FS_CardinalityType
<1>5. Cardinality(dockets[o]) > 0
  BY <1>4, Numbers
<1>6. PICK r : r = Receipt(a, outcome)
  OBVIOUS
<1>7. /\ r \in Reply /\ r.kind # "Closed" /\ r.scope = o /\ r.gen = a.gen /\ r.seq = a.seq
      /\ \A s : Counts(r, s) = IF o = s THEN 1 ELSE 0
  BY <1>1, <1>2, <1>6, ReceiptOf
<1>8. scopeReplies' = Push(scopeReplies, r, ScopeRoom)
  BY <1>6 DEF AnswerScope
<1>9. Batches(scopeReplies, o) < ScopeCapacity
  BY <1>5, Bounded
<1>10. /\ ReplyInv'
       /\ \A s : Batches(scopeReplies', s) = Batches(scopeReplies, s) + Counts(r, s)
       /\ \A s : NoneClosed(s)' <=> NoneClosed(s)
  BY <1>1, <1>7, <1>8, <1>9, ReplyPushed
<1>11. PipeInv' /\ \A b : Drained(b) => Drained(b)'
  BY DEF ScopedInv, PipeInv, Drained
<1>12. PipeOwn'
  BY <1>10, PipeKept
<1>13. DocketInv'
  <2>1. \A s \in Scopes : dockets'[s] \subseteq dockets[s]
    BY <1>3
  <2>2. xPc' \in {"releaseRoot", "releaseScope", "gone"} =>
          rootDocket' = {} /\ \A s \in Scopes : dockets'[s] = {}
    BY <2>1 DEF ScopedInv, DocketInv
  <2> QED
    BY <1>10, <1>11, <2>1, <2>2, DocketsKept
<1>14. LifeInv'
  <2>1. ASSUME NEW s \in Scopes
        PROVE  ledger'[s] = ledger[s] \/ (s = o /\ ledger'[s] = a.seq)
    <3>1. ledger \in [Scopes -> 0 .. MaxSeq]
      BY DEF ScopedInv, TypeOK
    <3> QED
      BY <3>1 DEF Later
  <2>2. ASSUME NEW s \in Scopes, scopeHeld, ledger'[s] # None
        PROVE  slots[s].state # "Free" /\ since[s] <= ledger'[s] /\ NoneClosed(s)
    BY <1>1, <2>1, <2>2 DEF ScopedInv, LifeInv
  <2> QED
    BY <1>10, <2>2 DEF ScopedInv, LifeInv
<1>15. RootFlight' = RootFlight
  BY DEF RootFlight
<1>16. ASSUME NEW s \in Scopes PROVE Flight(s)' = Flight(s)
  <2>1. Flight(s)' = slots[s].credits + Batches(pipe, s) + Cardinality(dockets'[s])
                       + Batches(scopeReplies', s)
    BY DEF Flight
  <2>2. /\ slots[s].credits \in Nat /\ Batches(pipe, s) \in Nat
        /\ Cardinality(dockets[s]) \in Nat /\ Batches(scopeReplies, s) \in Nat
    BY Numbers
  <2>3. CASE s = o
    <3>1. Batches(scopeReplies', s) = Batches(scopeReplies, s) + 1
      BY <1>7, <1>10, <2>3
    <3> QED
      BY <1>4, <2>1, <2>2, <2>3, <3>1 DEF Flight
  <2>4. CASE s # o
    <3>1. Batches(scopeReplies', s) = Batches(scopeReplies, s) + 0
      BY <1>7, <1>10, <2>4
    <3> QED
      BY <1>3, <2>1, <2>2, <2>4, <3>1 DEF Flight
  <2> QED
    BY <2>3, <2>4
<1>17. BalanceInv'
  BY <1>15, <1>16 DEF ScopedInv, BalanceInv
<1> QED
  BY <1>10, <1>11, <1>12, <1>13, <1>14, <1>17 DEF DataInv

(* A scope that is retired has no batch anywhere but in the ring of        *)
(* replies: its Close was the last of the pipe, and its docket is empty.   *)
LEMMA RetireEndStep == ASSUME ScopedInv, RetireEnd PROVE DataInv'
<1>1. /\ UNCHANGED <<next, rootCredits, slots, since, rootReceipts, rootDocket, dockets,
                     gateClosed, scopeHeld>>
      /\ pipe' = pipe /\ xPc = "retire" /\ xPc' = "walk" /\ dockets[retiring] = {}
      /\ ledger' = [ledger EXCEPT ![retiring] = None]
      /\ life' = [life EXCEPT ![retiring] = [gen |-> @.gen + 1, closing |-> FALSE]]
      /\ scopeReplies' = Push(scopeReplies, ClosedReply(retiring, life[retiring].gen), ScopeRoom)
  BY DEF RetireEnd, ownerVars, pipe
<1>2. PICK o : o = retiring
  OBVIOUS
<1>3. o \in Scopes /\ life[o].closing /\ scopeHeld
  BY <1>1, <1>2 DEF ScopedInv, PcInv
<1>4. /\ slots[o].state = "Closing" /\ life[o].gen = slots[o].gen /\ slots[o].gen < MaxGen
      /\ NoneClosed(o)
  BY <1>3 DEF ScopedInv, LifeInv
<1>5. life \in [Scopes -> [gen : Gens, closing : BOOLEAN]] /\ ledger \in [Scopes -> 0 .. MaxSeq]
  BY DEF ScopedInv, TypeOK
<1>6. /\ life'[o].gen = life[o].gen + 1 /\ ~life'[o].closing /\ ledger'[o] = None
      /\ \A s \in Scopes : s # o => life'[s] = life[s] /\ ledger'[s] = ledger[s]
  BY <1>1, <1>2, <1>3, <1>5
<1>7. PICK r : r = ClosedReply(o, life[o].gen)
  OBVIOUS
<1>8. /\ r \in Reply /\ r.kind = "Closed" /\ r.scope = o /\ r.gen = life[o].gen
      /\ \A s : Counts(r, s) = 0
  <2>1. life[o].gen \in Gens
    BY <1>3, <1>5
  <2> QED
    BY <1>3, <1>7, <2>1, ClosedOf
<1>9. scopeReplies' = Push(scopeReplies, r, ScopeRoom)
  BY <1>1, <1>2, <1>7
<1>10. /\ ReplyInv'
       /\ \A s : Batches(scopeReplies', s) = Batches(scopeReplies, s) + Counts(r, s)
       /\ \A s : s # o => (NoneClosed(s)' <=> NoneClosed(s))
       /\ ~NoneClosed(o)'
  BY <1>1, <1>3, <1>4, <1>8, <1>9, ReplyPushed
<1>11. PipeInv' /\ \A b : Drained(b) => Drained(b)'
  BY <1>1 DEF ScopedInv, PipeInv, Drained
<1>12. o # Root /\ \A i \in DOMAIN pipe : pipe[i].scope # o
  <2>1. o # Root
    BY <1>3 DEF Scopes, Root
  <2> QED
    BY <1>3, <2>1 DEF ScopedInv, PipeOwn
<1>13. PipeOwn'
  <2>1. \A s \in Scopes : (\E i \in DOMAIN pipe' : pipe'[i].scope = s) => s # o
    BY <1>1, <1>12
  <2> QED
    BY <1>1, <1>6, <1>10, <2>1, PipeKept
<1>14. DocketInv'
  <2>1. \A s \in Scopes : dockets'[s] \subseteq dockets[s] /\ (dockets'[s] # {} => s # o)
    BY <1>1, <1>2
  <2> QED
    BY <1>1, <1>10, <1>11, <2>1, DocketsKept
<1>15. LifeInv'
  <2> SUFFICES ASSUME NEW s \in Scopes
               PROVE  /\ life'[s].closing => /\ slots[s].state = "Closing"
                                             /\ life'[s].gen = slots[s].gen
                                             /\ slots[s].gen < MaxGen /\ NoneClosed(s)'
                      /\ scopeHeld => life'[s].gen = IF NoneClosed(s)' THEN slots[s].gen
                                                                     ELSE slots[s].gen + 1
                      /\ scopeHeld /\ ledger'[s] # None =>
                           slots[s].state # "Free" /\ since[s] <= ledger'[s] /\ NoneClosed(s)'
                      /\ slots[s].state # "Free" /\ slots[s].applied # None =>
                           since[s] <= slots[s].applied
                      /\ since[s] <= next
    BY <1>1 DEF LifeInv
  <2>1. CASE s = o
    BY <1>4, <1>6, <1>10, <2>1 DEF ScopedInv, LifeInv
  <2>2. CASE s # o
    BY <1>6, <1>10, <2>2 DEF ScopedInv, LifeInv
  <2> QED
    BY <2>1, <2>2
<1>16. RootFlight' = RootFlight
  BY <1>1 DEF RootFlight
<1>17. \A s \in Scopes : Flight(s)' = Flight(s)
  <2>1. \A s \in Scopes : Batches(scopeReplies', s) = Batches(scopeReplies, s)
    BY <1>8, <1>10, Numbers
  <2> QED
    BY <1>1, <2>1 DEF Flight
<1>18. BalanceInv'
  BY <1>1, <1>16, <1>17 DEF ScopedInv, BalanceInv
<1> QED
  BY <1>10, <1>11, <1>13, <1>14, <1>15, <1>18 DEF DataInv

-----------------------------------------------------------------------------
(* The invariant.                                                          *)

(* Every credit starts in its book, and nothing is on its way.             *)
LEMMA ScopedInit == ASSUME Init PROVE ScopedInv
<1> USE ScopedAssumption
<1>1. /\ pipe = <<>> /\ scopeReplies = <<>> /\ rootReceipts = <<>> /\ rootDocket = {}
      /\ \A s \in Scopes : dockets[s] = {}
  BY DEF Init, pipe
<1>2. TypeOK
  <2>1. slots \in [Scopes -> Slot]
    <3>1. [state |-> "Free", gen |-> 0, credits |-> ScopeCapacity, applied |-> None] \in Slot
      BY DEF Slot, Gens, None
    <3> QED
      BY <3>1 DEF Init
  <2>2. ledger \in [Scopes -> 0 .. MaxSeq] /\ since \in [Scopes -> 1 .. MaxSeq + 1]
    <3>1. None \in 0 .. MaxSeq /\ 1 \in 1 .. MaxSeq + 1
      BY DEF None
    <3> QED
      BY <3>1 DEF Init
  <2>3. life \in [Scopes -> [gen : Gens, closing : BOOLEAN]]
    BY DEF Init, Gens
  <2>4. /\ next \in 1 .. MaxSeq + 1 /\ rootCredits \in 0 .. RootCapacity
        /\ retiring \in 0 .. NScopes
    BY DEF Init
  <2>5. /\ staged \in Seq(Item) /\ commands \in Seq(Item)
        /\ rootReceipts \in Seq(Reply) /\ scopeReplies \in Seq(Reply)
    BY DEF Init
  <2>6. rootDocket \subseteq Item /\ dockets \in [Scopes -> SUBSET Item]
    BY DEF Init
  <2>7. /\ sPc \in {"idle", "publish", "recover", "pop", "popScope"}
        /\ gateClosed \in BOOLEAN /\ rootHeld \in BOOLEAN /\ scopeHeld \in BOOLEAN
        /\ xPc \in {"walk", "drain", "retire", "dropDrain", "leftovers", "releaseRoot",
                    "releaseScope", "gone"}
    BY DEF Init
  <2> QED
    BY <2>1, <2>2, <2>3, <2>4, <2>5, <2>6, <2>7 DEF TypeOK, Slot
<1>3. PcInv
  BY DEF Init, PcInv
<1>4. DOMAIN pipe = {} /\ DOMAIN scopeReplies = {}
  BY <1>1
<1>5. PipeInv /\ PipeOwn /\ ReplyInv
  BY <1>4 DEF PipeInv, PipeOwn, ReplyInv
<1>6. DocketInv
  BY <1>1, FS_EmptySet DEF DocketInv, Init
<1>7. LifeInv
  BY <1>4 DEF Init, LifeInv, NoneClosed
<1>8. BalanceInv
  <2>1. Batches(pipe, Root) = 0 /\ Cardinality(rootDocket) = 0 /\ Len(rootReceipts) = 0
    BY <1>1, EmptyCount, FS_EmptySet
  <2>2. \A s \in Scopes : /\ Batches(pipe, s) = 0 /\ Cardinality(dockets[s]) = 0
                          /\ Batches(scopeReplies, s) = 0
                          /\ slots[s].credits = ScopeCapacity
    BY <1>1, EmptyCount, FS_EmptySet DEF Init
  <2>3. RootFlight = RootCapacity
    BY <2>1 DEF Init, RootFlight
  <2>4. \A s \in Scopes : Flight(s) = ScopeCapacity
    BY <2>2 DEF Flight
  <2> QED
    BY <2>3, <2>4 DEF BalanceInv
<1> QED
  BY <1>2, <1>3, <1>5, <1>6, <1>7, <1>8 DEF ScopedInv

(* Every call of the owner.                                                *)
LEMMA OwnerStep == ASSUME ScopedInv, Owner PROVE DataInv'
<1>1. xPc \in {"releaseRoot", "releaseScope", "gone"} =>
        rootDocket = {} /\ \A s \in Scopes : dockets[s] = {}
  BY DEF ScopedInv, DocketInv
<1>2. CASE PublishEnter
  <2>1. CASE ~gateClosed
    BY <1>1, <1>2, <2>1, Quiet DEF PublishEnter, rings, inboxVars, pipe
  <2> QED
    BY <1>2, <2>1, DiscardStep
<1>3. CASE PublishPush
  <2>1. pipe' = pipe
    BY <1>3, PipeFits, PipePublished DEF ScopedInv
  <2> QED
    BY <1>1, <1>3, <2>1, Quiet DEF PublishPush, inboxVars
<1>4. CASE ReceiptEnter
  BY <1>1, <1>4, Quiet DEF ReceiptEnter, rings, inboxVars, pipe
<1>5. CASE RecoverOrphans
  <2>1. CASE commands = <<>>
    BY <1>1, <1>5, <2>1, Quiet DEF RecoverOrphans, rings, inboxVars, pipe
  <2> QED
    BY <1>5, <2>1, OrphanStep
<1>6. CASE RootReceipt
  <2>1. CASE rootReceipts = <<>>
    BY <1>1, <1>6, <2>1, Quiet DEF RootReceipt, inboxVars, pipe
  <2> QED
    BY <1>6, <2>1, RootReceiptStep
<1>7. CASE ReceiptPop
  <2>1. CASE scopeReplies = <<>>
    BY <1>1, <1>7, <2>1, Quiet DEF ReceiptPop, inboxVars, pipe
  <2> QED
    BY <1>7, <2>1, ReceiptPopStep
<1> QED
  BY <1>2, <1>3, <1>4, <1>5, <1>6, <1>7, OpenStep, SendRootStep, SendScopeStep, CloseStep
     DEF Owner

(* Every step of the executor.                                             *)
LEMMA ExecutorStep == ASSUME ScopedInv, Executor PROVE DataInv'
<1>1. xPc \in {"releaseRoot", "releaseScope", "gone"} =>
        rootDocket = {} /\ \A s \in Scopes : dockets[s] = {}
  BY DEF ScopedInv, DocketInv
<1>2. CASE StartDrain
  BY <1>2, Quiet DEF StartDrain, ownerVars, rings, pipe
<1>3. CASE Drain
  <2>1. CASE commands = <<>>
    BY <1>3, <2>1, Quiet DEF Drain, ownerVars, pipe
  <2> QED
    BY <1>3, <2>1, DrainStep
<1>4. CASE WalkRoot
  BY <1>4, AnswerRootStep DEF WalkRoot, ownerVars, pipe
<1>5. ASSUME NEW s \in Scopes, NEW outcome \in {"Applied", "Rejected"}, WalkScope(s, outcome)
      PROVE  DataInv'
  BY <1>5, AnswerScopeStep DEF WalkScope, ownerVars, pipe
<1>6. ASSUME NEW s \in Scopes, RetireStart(s) PROVE DataInv'
  BY <1>6, Quiet DEF RetireStart, ownerVars, rings, pipe
<1>7. CASE RetireLeftover
  <2>1. retiring \in Scopes
    BY <1>7 DEF RetireLeftover, ScopedInv, PcInv
  <2>2. PICK b \in dockets[retiring] : AnswerScope(b, "Rejected")
    BY <1>7 DEF RetireLeftover
  <2> QED
    BY <1>7, <2>1, <2>2, AnswerScopeStep DEF RetireLeftover, ownerVars, pipe
<1>8. CASE CloseGate
  BY <1>8, Quiet DEF CloseGate, ownerVars, rings, pipe
<1>9. CASE Unanswered
  <2>1. CASE (\E b \in rootDocket : AnswerRoot(b)) /\ UNCHANGED <<dockets, scopeReplies, xPc>>
    BY <1>9, <2>1, AnswerRootStep DEF Unanswered, ownerVars, pipe
  <2>2. CASE /\ \E s \in Scopes : \E b \in dockets[s] : AnswerScope(b, "Rejected")
             /\ UNCHANGED <<rootDocket, rootReceipts, xPc>>
    BY <1>9, <2>2, AnswerScopeStep DEF Unanswered, ownerVars, pipe
  <2>3. CASE /\ rootDocket = {} /\ \A s \in Scopes : dockets[s] = {}
             /\ UNCHANGED <<rootDocket, rootReceipts, dockets, scopeReplies>>
    BY <1>9, <2>3, Quiet DEF Unanswered, ownerVars, pipe
  <2> QED
    BY <1>9, <2>1, <2>2, <2>3 DEF Unanswered
<1>10. CASE Release
  BY <1>1, <1>10, Quiet DEF Release, ownerVars, rings, pipe
<1> QED
  BY <1>2, <1>3, <1>4, <1>5, <1>6, <1>7, <1>8, <1>9, <1>10, RetireEndStep DEF Executor

(* Every step preserves it.                                                *)
LEMMA ScopedNext == ASSUME ScopedInv, [Next]_vars PROVE ScopedInv'
<1>1. TypeOK' /\ PcInv'
  BY TypeStep, PcStep
<1>2. CASE UNCHANGED vars
  <2>1. xPc \in {"releaseRoot", "releaseScope", "gone"} =>
          rootDocket = {} /\ \A s \in Scopes : dockets[s] = {}
    BY DEF ScopedInv, DocketInv
  <2>2. DataInv'
    BY <1>2, <2>1, Quiet DEF vars, ownerVars, inboxVars, rings, pipe
  <2> QED
    BY <1>1, <2>2 DEF ScopedInv, DataInv
<1>3. CASE Next
  BY <1>1, <1>3, OwnerStep, ExecutorStep DEF Next, ScopedInv, DataInv
<1> QED
  BY <1>2, <1>3

(* ScopedInv holds in every state of the channel.                          *)
THEOREM ScopedInvariant == Spec => []ScopedInv
<1>1. Init => ScopedInv
  BY ScopedInit
<1>2. ScopedInv /\ [Next]_vars => ScopedInv'
  BY ScopedNext
<1> QED
  BY <1>1, <1>2, PTL DEF Spec

-----------------------------------------------------------------------------
(* What ScopedInv says of a state.                                         *)

(* The balance of a level, with the pipe taken apart.                      *)
LEMMA CreditsHeld == ASSUME ScopedInv PROVE CreditsBalance
<1>1. commands \in Seq(Item) /\ staged \in Seq(Item)
  BY DEF ScopedInv, TypeOK
<1>2. \A s : /\ Batches(pipe, s) = Batches(commands, s) + Batches(staged, s)
             /\ Batches(commands, s) \in Nat /\ Batches(staged, s) \in Nat
  BY <1>1, ConcatCount, BatchesFinite DEF pipe
<1> SUFFICES ASSUME ~gateClosed
             PROVE  /\ rootCredits + Batches(staged, Root) + Batches(commands, Root)
                         + Cardinality(rootDocket) + Len(rootReceipts) = RootCapacity
                    /\ \A s \in Scopes :
                         slots[s].credits + Batches(staged, s) + Batches(commands, s)
                           + Cardinality(dockets[s]) + Batches(scopeReplies, s) = ScopeCapacity
  BY DEF CreditsBalance
<1>3. rootCredits + Batches(staged, Root) + Batches(commands, Root)
        + Cardinality(rootDocket) + Len(rootReceipts) = RootCapacity
  <2>1. rootCredits + Batches(pipe, Root) + Cardinality(rootDocket) + Len(rootReceipts)
          = RootCapacity
    BY DEF ScopedInv, BalanceInv, RootFlight
  <2> QED
    BY <1>2, <2>1, Numbers
<1>4. ASSUME NEW s \in Scopes
      PROVE  slots[s].credits + Batches(staged, s) + Batches(commands, s)
               + Cardinality(dockets[s]) + Batches(scopeReplies, s) = ScopeCapacity
  <2>1. slots[s].credits + Batches(pipe, s) + Cardinality(dockets[s])
          + Batches(scopeReplies, s) = ScopeCapacity
    BY DEF ScopedInv, BalanceInv, Flight
  <2>2. /\ slots[s].credits \in Nat /\ Cardinality(dockets[s]) \in Nat
        /\ Batches(scopeReplies, s) \in Nat
    BY Numbers
  <2> QED
    BY <1>2, <2>1, <2>2
<1> QED
  BY <1>3, <1>4

(* The incarnations of the pipe and of the replies.                        *)
LEMMA GenerationsHeld == ASSUME ScopedInv PROVE GenerationsAgree
<1>1. ASSUME scopeHeld, NEW i \in DOMAIN pipe, pipe[i].scope # Root
      PROVE  /\ pipe[i].gen = life[pipe[i].scope].gen
             /\ pipe[i].kind = "close" => LastOfLevel(pipe, i)
  <2>1. pipe[i].scope \in Scopes
    BY <1>1, PipeItems, ItemFields DEF ScopedInv
  <2>2. pipe[i].gen = slots[pipe[i].scope].gen /\ NoneClosed(pipe[i].scope)
    BY <1>1 DEF ScopedInv, PipeOwn
  <2>3. pipe[i].gen = life[pipe[i].scope].gen
    BY <1>1, <2>1, <2>2 DEF ScopedInv, LifeInv
  <2> QED
    BY <2>3 DEF ScopedInv, PipeInv, LastOfLevel
<1>2. \A k \in DOMAIN scopeReplies :
        /\ scopeReplies[k].gen = slots[scopeReplies[k].scope].gen
        /\ scopeReplies[k].kind = "Closed" => LastOfLevel(scopeReplies, k)
  BY DEF ScopedInv, ReplyInv
<1> QED
  BY <1>1, <1>2 DEF GenerationsAgree, pipe

(* The book and the ledger.                                                *)
LEMMA HistoryHeld == ASSUME ScopedInv PROVE OwnHistory
<1> SUFFICES ASSUME NEW s \in Scopes, slots[s].state = "Open", scopeHeld,
                    NEW q \in {slots[s].applied, ledger[s]}, q # None
             PROVE  q >= since[s]
  BY DEF OwnHistory
<1>1. since[s] <= q
  BY DEF ScopedInv, LifeInv
<1>2. q \in Int /\ since[s] \in Int
  BY DEF ScopedInv, TypeOK
<1> QED
  BY <1>1, <1>2

(* The room for an orphan.                                                 *)
LEMMA OrphansHeld == ASSUME ScopedInv PROVE OrphansFit
<1> SUFFICES ASSUME sPc = "recover", commands # <<>>
             PROVE  IF Head(commands).scope = Root THEN Len(rootReceipts) < RootCapacity
                                                   ELSE Len(scopeReplies) < ScopeRoom
  BY DEF OrphansFit
<1>1. PICK x : x = Head(commands)
  OBVIOUS
<1>2. commands \in Seq(Item) /\ staged \in Seq(Item)
  BY DEF ScopedInv, TypeOK
<1>3. pipe # <<>> /\ Head(pipe) = x /\ 1 \in DOMAIN pipe /\ pipe[1] = x /\ x \in Item
  BY <1>1, <1>2 DEF pipe
<1>4. /\ x.kind \in {"batch", "close"} /\ x.scope \in {Root} \cup Scopes /\ x.gen \in Gens
      /\ x.scope = Root => x.kind = "batch"
  BY <1>3, ItemFields
<1>5. \A s : /\ Batches(pipe, s) = Counts(x, s) + Batches(Tail(pipe), s)
             /\ Batches(Tail(pipe), s) \in Nat
  <2>1. pipe \in Seq(Item) /\ Tail(pipe) \in Seq(Item)
    BY <1>3, PipeItems DEF ScopedInv
  <2> QED
    BY <1>3, <2>1, TailCount, BatchesFinite
<1>6. x.kind = "batch" => Batches(pipe, x.scope) > 0
  <2>1. x.kind = "batch" => Counts(x, x.scope) = 1
    BY DEF Counts
  <2> QED
    BY <1>5, <2>1
<1>7. CASE x.scope = Root
  <2>1. Batches(pipe, Root) > 0
    BY <1>4, <1>6, <1>7
  <2> QED
    BY <1>1, <1>7, <2>1, RootLands
<1>8. CASE x.scope # Root
  <2>1. x.scope \in Scopes /\ NoneClosed(x.scope)
    BY <1>3, <1>4, <1>8 DEF ScopedInv, PipeOwn
  <2>2. CASE x.kind = "batch"
    <3>1. /\ Receipt(x, "Rejected") \in Reply /\ Receipt(x, "Rejected").scope = x.scope
      BY <1>3, <2>2, ReceiptOf
    <3>2. Batches(scopeReplies, x.scope) < ScopeCapacity
      BY <1>6, <2>1, <2>2, Bounded
    <3>3. Len(scopeReplies) < ScopeRoom
      BY <2>1, <3>1, <3>2, ReplyLands
    <3> QED
      BY <1>1, <1>8, <3>3
  <2>3. CASE x.kind = "close"
    <3>1. /\ ClosedReply(x.scope, x.gen) \in Reply /\ ClosedReply(x.scope, x.gen).kind = "Closed"
          /\ ClosedReply(x.scope, x.gen).scope = x.scope
      BY <1>4, <2>1, ClosedOf
    <3>2. Len(scopeReplies) < ScopeRoom
      BY <2>1, <3>1, ReplyLands
    <3> QED
      BY <1>1, <1>8, <3>2
  <2> QED
    BY <1>4, <2>2, <2>3
<1> QED
  BY <1>7, <1>8

-----------------------------------------------------------------------------
(* What the channel promises.                                              *)

(* Every variable keeps its type: no credit count leaves its capacity and  *)
(* no generation is skipped past the bound.                                *)
THEOREM ScopedTypes == Spec => []TypeOK
<1>1. ScopedInv => TypeOK
  BY DEF ScopedInv
<1> QED
  BY <1>1, ScopedInvariant, PTL

(* While the inbox lives each credit of each level is in exactly one       *)
(* place: the book, the pass, the ring, a docket or a receipt.             *)
THEOREM CreditsStayBalanced == Spec => []CreditsBalance
<1>1. ScopedInv => CreditsBalance
  BY CreditsHeld
<1> QED
  BY <1>1, ScopedInvariant, PTL

(* Whatever the owner staged has room in the ring as it is published, so   *)
(* push_slice drops nothing of a pass, whoever shares the ring; and every  *)
(* answer it makes up for an orphan has a place, so that the debug_assert  *)
(* of recover_orphans never fires.                                         *)
THEOREM RingsNeverOverflow == Spec => []NothingOverflows
<1>1. ScopedInv => NothingOverflows
  BY PipeFits, OrphansHeld DEF NothingOverflows
<1> QED
  BY <1>1, ScopedInvariant, PTL

(* No item meets an inbox of another generation and no reply a slot of     *)
(* another one; Close and Closed are the last of their incarnation.        *)
THEOREM GenerationsAlwaysAgree == Spec => []GenerationsAgree
<1>1. ScopedInv => GenerationsAgree
  BY GenerationsHeld
<1> QED
  BY <1>1, ScopedInvariant, PTL

(* The book and the ledger of an open scope speak of its own batches only. *)
THEOREM HistoryIsOwn == Spec => []OwnHistory
<1>1. ScopedInv => OwnHistory
  BY HistoryHeld
<1> QED
  BY <1>1, ScopedInvariant, PTL
=============================================================================
