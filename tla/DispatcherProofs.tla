--------------------------- MODULE DispatcherProofs ---------------------------
(***************************************************************************)
(* Proofs about Dispatcher, for any number of tasks, capacity and          *)
(* priorities: the roster stays within the capacity, on_cancel is called   *)
(* at most once, nothing is registered behind a Shutdown, and a pass       *)
(* visits its tasks by priority.                                           *)
(*                                                                         *)
(* The roster lags behind the clients by what is queued, so the inductive  *)
(* invariant speaks of the roster as it will be after every prefix of the  *)
(* queue, and of where a task is from its reservation to its fate.         *)
(***************************************************************************)
EXTENDS Dispatcher, FiniteSetTheorems, TLAPS

-----------------------------------------------------------------------------
(* Ranks.  In a finite set under a strict total order every element has a  *)
(* rank of its own, and every rank below the set's size is taken.          *)

Rank(D, L, i) == Cardinality({j \in D : <<j, i>> \in L})

StrictOrder(D, L) ==
  /\ \A i \in D : <<i, i>> \notin L
  /\ \A i, j \in D : i # j => <<i, j>> \in L \/ <<j, i>> \in L
  /\ \A i, j, k \in D : <<i, j>> \in L /\ <<j, k>> \in L => <<i, k>> \in L

LEMMA RankGrows ==
  ASSUME NEW D, IsFiniteSet(D), NEW L, StrictOrder(D, L), NEW i \in D, NEW j \in D,
         <<i, j>> \in L
  PROVE  Rank(D, L, i) < Rank(D, L, j)
  <1> DEFINE A == {k \in D : <<k, i>> \in L}
             B == {k \in D : <<k, j>> \in L}
  <1>1. A \subseteq B /\ i \in B /\ i \notin A
    BY DEF StrictOrder
  <1>2. IsFiniteSet(A) /\ IsFiniteSet(B)
    BY FS_Subset
  <1>3. Cardinality(A) \in Nat /\ Cardinality(B) \in Nat
    BY <1>2, FS_CardinalityType
  <1>4. Cardinality(A) <= Cardinality(B) /\ (Cardinality(B) = Cardinality(A) => B = A)
    BY <1>1, <1>2, FS_Subset
  <1>5. A # B
    BY <1>1
  <1> HIDE DEF A, B
  <1>6. Cardinality(A) < Cardinality(B)
    BY <1>3, <1>4, <1>5
  <1> QED
    BY <1>6 DEF Rank, A, B

LEMMA RankRange ==
  ASSUME NEW D, IsFiniteSet(D), NEW L, StrictOrder(D, L), NEW i \in D
  PROVE  Rank(D, L, i) \in 0 .. Cardinality(D) - 1
  <1> DEFINE A == {k \in D : <<k, i>> \in L}
  <1>1. A \subseteq D /\ i \notin A
    BY DEF StrictOrder
  <1>2. IsFiniteSet(A)
    BY FS_Subset
  <1>3. Cardinality(A) \in Nat /\ Cardinality(D) \in Nat
    BY <1>2, FS_CardinalityType
  <1>4. Cardinality(A) <= Cardinality(D) /\ (Cardinality(D) = Cardinality(A) => D = A)
    BY <1>1, FS_Subset
  <1>5. A # D
    BY <1>1
  <1> HIDE DEF A
  <1>6. Cardinality(A) \in 0 .. Cardinality(D) - 1
    BY <1>3, <1>4, <1>5
  <1> QED
    BY <1>6 DEF Rank, A

LEMMA RankTaken ==
  ASSUME NEW D, IsFiniteSet(D), NEW L, StrictOrder(D, L), NEW n \in 1 .. Cardinality(D)
  PROVE  \E i \in D : Rank(D, L, i) = n - 1
  <1> DEFINE c == Cardinality(D)
             T == 0 .. c - 1
             f == [i \in D |-> Rank(D, L, i)]
  <1>1. c \in Nat
    BY FS_CardinalityType
  <1>2. f \in [D -> T]
    BY RankRange
  <1>3. \A i, j \in D : i # j => f[i] # f[j]
    <2> SUFFICES ASSUME NEW i \in D, NEW j \in D, i # j PROVE f[i] # f[j]
      OBVIOUS
    <2>1. Rank(D, L, i) \in Int /\ Rank(D, L, j) \in Int
      BY RankRange
    <2>2. Rank(D, L, i) < Rank(D, L, j) \/ Rank(D, L, j) < Rank(D, L, i)
      BY RankGrows DEF StrictOrder
    <2> QED
      BY <2>1, <2>2
  <1>4. f \in Injection(D, T)
    BY <1>2, <1>3 DEF Injection, IsInjective
  <1>5. IsFiniteSet(T) /\ Cardinality(T) = c
    <2> HIDE DEF c
    <2>1. IsFiniteSet(0 .. c - 1) /\ Cardinality(0 .. c - 1) = IF 0 > c - 1 THEN 0 ELSE c - 1 - 0 + 1
      BY <1>1, FS_Interval
    <2> QED
      BY <1>1, <2>1
  <1> HIDE DEF f
  <1>6. f \in Surjection(D, T)
    BY <1>4, <1>5, FS_Injection
  <1>7. n - 1 \in T
    BY <1>1
  <1>8. \E i \in D : f[i] = n - 1
    BY <1>6, <1>7 DEF Surjection
  <1> QED
    BY <1>8 DEF f

(* Listing a set by rank is listing it in its order. *)
LEMMA RankOrders ==
  ASSUME NEW D, IsFiniteSet(D), NEW L, StrictOrder(D, L),
         NEW p, \A n \in 1 .. Cardinality(D) : p[n] = CHOOSE i \in D : Rank(D, L, i) = n - 1
  PROVE  /\ \A n \in 1 .. Cardinality(D) : p[n] \in D
         /\ \A n, m \in 1 .. Cardinality(D) : n < m => <<p[n], p[m]>> \in L
  <1>1. \A n \in 1 .. Cardinality(D) : p[n] \in D /\ Rank(D, L, p[n]) = n - 1
    BY RankTaken
  <1>2. ASSUME NEW n \in 1 .. Cardinality(D), NEW m \in 1 .. Cardinality(D), n < m
        PROVE  <<p[n], p[m]>> \in L
    <2>1. p[n] # p[m]
      BY <1>1, <1>2, FS_CardinalityType
    <2>2. ~(Rank(D, L, p[m]) < Rank(D, L, p[n]))
      BY <1>1, <1>2, FS_CardinalityType
    <2>3. <<p[m], p[n]>> \notin L
      BY <1>1, <2>2, RankGrows
    <2> QED
      BY <1>1, <2>1, <2>3 DEF StrictOrder
  <1> QED
    BY <1>1, <1>2

-----------------------------------------------------------------------------
(* The operations on a roster.                                             *)

UniqueIds(r) == \A i, j \in DOMAIN r : r[i].id = r[j].id => i = j
Sorted(r) == \A i, j \in DOMAIN r : i < j => Before(r[i], r[j])
Within(out, r) == \A n \in DOMAIN out : \E i \in DOMAIN r : out[n] = r[i]

(* remove_terminal keeps the live slots, and their order. *)
LEMMA RemoveFacts ==
  ASSUME NEW r \in Seq(Slot), UniqueIds(r)
  PROVE  LET out == RemoveTerminal(r) IN
           /\ out \in Seq(Slot) /\ UniqueIds(out) /\ Within(out, r)
           /\ \A n \in DOMAIN out : ~out[n].terminal
           /\ Sorted(r) => Sorted(out)
  <1> DEFINE D == {i \in DOMAIN r : ~r[i].terminal}
             L == {q \in D \X D : q[1] < q[2]}
             c == Cardinality(D)
             p == [n \in 1 .. c |-> CHOOSE i \in D : Rank(D, L, i) = n - 1]
             out == [n \in 1 .. c |-> r[p[n]]]
  <1>1. DOMAIN r = 1 .. Len(r) /\ Len(r) \in Nat
    OBVIOUS
  <1>2. IsFiniteSet(D)
    <2>1. IsFiniteSet(1 .. Len(r))
      BY <1>1, FS_Interval
    <2> QED
      BY <1>1, <2>1, FS_Subset
  <1>3. c \in Nat
    BY <1>2, FS_CardinalityType
  <1>4. StrictOrder(D, L)
    BY <1>1 DEF StrictOrder
  <1>5. \A i \in D : {j \in D : j < i} = {j \in D : <<j, i>> \in L}
    OBVIOUS
  <1>6. RemoveTerminal(r) = out
    <2>1. \A n \in 1 .. c : (CHOOSE i \in D : Cardinality({j \in D : j < i}) = n - 1) = p[n]
      <3> SUFFICES ASSUME NEW n \in 1 .. c
                   PROVE  (CHOOSE i \in D : Cardinality({j \in D : j < i}) = n - 1) = p[n]
        OBVIOUS
      <3>1. \A i \in D : Cardinality({j \in D : j < i}) = n - 1 <=> Rank(D, L, i) = n - 1
        BY <1>5 DEF Rank
      <3>2. p[n] = CHOOSE i \in D : Rank(D, L, i) = n - 1
        OBVIOUS
      <3> HIDE DEF p, L, D
      <3> QED
        BY <3>1, <3>2
    <2> DEFINE listed == [n \in 1 .. c |->
                            r[CHOOSE i \in D : Cardinality({j \in D : j < i}) = n - 1]]
    <2>2. RemoveTerminal(r) = listed
      BY DEF RemoveTerminal
    <2>3. \A n \in 1 .. c : listed[n] = r[p[n]]
      <3> HIDE DEF p, D
      <3> QED
        BY <2>1
    <2>4. listed = [n \in 1 .. c |-> listed[n]]
      OBVIOUS
    <2> HIDE DEF p, listed, c
    <2>5. listed = out
      BY <2>3, <2>4
    <2> QED
      BY <2>2, <2>5
  <1>7. \A n \in 1 .. c : p[n] = CHOOSE i \in D : Rank(D, L, i) = n - 1
    OBVIOUS
  <1> HIDE DEF p
  <1>8. /\ \A n \in 1 .. c : p[n] \in D
        /\ \A n, m \in 1 .. c : n < m => <<p[n], p[m]>> \in L
    <2> HIDE DEF D, L
    <2> QED
      BY <1>2, <1>4, <1>7, RankOrders
  <1>9. \A n, m \in 1 .. c : n < m => p[n] < p[m]
    BY <1>8
  <1>10. out \in [1 .. c -> Slot] /\ DOMAIN out = 1 .. c
    BY <1>1, <1>8
  <1>11. out \in Seq(Slot)
    <2> HIDE DEF out, c
    <2> QED
      BY <1>3, <1>10
  <1>12. Within(out, r) /\ (\A n \in DOMAIN out : ~out[n].terminal)
    BY <1>8, <1>10 DEF Within
  <1>13. UniqueIds(out)
    <2> SUFFICES ASSUME NEW n \in 1 .. c, NEW m \in 1 .. c, r[p[n]].id = r[p[m]].id
                 PROVE  n = m
      BY <1>10 DEF UniqueIds
    <2>1. p[n] = p[m] /\ p[n] \in Int
      BY <1>1, <1>8 DEF UniqueIds
    <2> QED
      BY <1>3, <1>9, <2>1
  <1>14. Sorted(r) => Sorted(out)
    BY <1>8, <1>9, <1>10 DEF Sorted
  <1> HIDE DEF out
  <1> QED
    BY <1>6, <1>11, <1>12, <1>13, <1>14

(* reorder_slots permutes the roster into its order. *)
LEMMA ReorderFacts ==
  ASSUME NEW r \in Seq(Slot), UniqueIds(r)
  PROVE  LET out == ReorderSlots(r) IN
           out \in Seq(Slot) /\ UniqueIds(out) /\ Within(out, r) /\ Sorted(out)
  <1> DEFINE D == DOMAIN r
             L == {q \in D \X D : Before(r[q[1]], r[q[2]])}
             c == Cardinality(D)
             p == [n \in D |-> CHOOSE i \in D : Rank(D, L, i) = n - 1]
             out == [n \in D |-> r[p[n]]]
  <1>1. D = 1 .. Len(r) /\ Len(r) \in Nat
    OBVIOUS
  <1>2. IsFiniteSet(D) /\ c = Len(r)
    <2>1. /\ IsFiniteSet(1 .. Len(r))
          /\ Cardinality(1 .. Len(r)) = IF 1 > Len(r) THEN 0 ELSE Len(r) - 1 + 1
      BY <1>1, FS_Interval
    <2> QED
      BY <1>1, <2>1
  <1>3. \A i \in D : r[i] \in Slot /\ r[i].priority \in Int /\ r[i].id \in Int
    <2>1. \A i \in D : r[i] \in Slot
      BY <1>1
    <2>2. \A a \in Slot : a.priority \in Int /\ a.id \in Int
      BY DispatcherAssumption DEF Slot, Tasks, Priorities
    <2> QED
      BY <2>1, <2>2
  <1>4. StrictOrder(D, L)
    <2>1. \A i \in D : <<i, i>> \notin L
      BY <1>3 DEF Before
    <2>2. \A i, j \in D : i # j => <<i, j>> \in L \/ <<j, i>> \in L
      BY <1>3 DEF Before, UniqueIds
    <2>3. \A i, j, k \in D : <<i, j>> \in L /\ <<j, k>> \in L => <<i, k>> \in L
      <3> SUFFICES ASSUME NEW i \in D, NEW j \in D, NEW k \in D,
                          Before(r[i], r[j]), Before(r[j], r[k])
                   PROVE  Before(r[i], r[k])
        OBVIOUS
      <3> QED
        BY <1>3 DEF Before
    <2> QED
      BY <2>1, <2>2, <2>3 DEF StrictOrder
  <1>5. \A i \in D : {j \in D : Before(r[j], r[i])} = {j \in D : <<j, i>> \in L}
    OBVIOUS
  <1>6. ReorderSlots(r) = out
    <2>1. \A n \in D : (CHOOSE i \in D :
                          Cardinality({j \in D : Before(r[j], r[i])}) = n - 1) = p[n]
      <3> SUFFICES ASSUME NEW n \in D
                   PROVE  (CHOOSE i \in D :
                             Cardinality({j \in D : Before(r[j], r[i])}) = n - 1) = p[n]
        OBVIOUS
      <3>1. \A i \in D : Cardinality({j \in D : Before(r[j], r[i])}) = n - 1 <=>
                         Rank(D, L, i) = n - 1
        BY <1>5 DEF Rank
      <3>2. p[n] = CHOOSE i \in D : Rank(D, L, i) = n - 1
        OBVIOUS
      <3> HIDE DEF p, L, D
      <3> QED
        BY <3>1, <3>2
    <2> DEFINE listed == [n \in D |-> r[CHOOSE i \in D :
                            Cardinality({j \in D : Before(r[j], r[i])}) = n - 1]]
    <2>2. ReorderSlots(r) = listed
      BY DEF ReorderSlots
    <2>3. \A n \in D : listed[n] = r[p[n]]
      <3> HIDE DEF p, D
      <3> QED
        BY <2>1
    <2>4. listed = [n \in D |-> listed[n]]
      OBVIOUS
    <2> HIDE DEF p, listed, D
    <2>5. listed = out
      BY <2>3, <2>4
    <2> QED
      BY <2>2, <2>5
  <1>7. \A n \in 1 .. c : p[n] = CHOOSE i \in D : Rank(D, L, i) = n - 1
    BY <1>1, <1>2
  <1> HIDE DEF p
  <1>8. /\ \A n \in 1 .. c : p[n] \in D
        /\ \A n, m \in 1 .. c : n < m => <<p[n], p[m]>> \in L
    <2> HIDE DEF D, L
    <2> QED
      BY <1>2, <1>4, <1>7, RankOrders
  <1>9. /\ \A n \in D : p[n] \in D
        /\ \A n, m \in D : n < m => Before(r[p[n]], r[p[m]])
    BY <1>1, <1>2, <1>8
  <1>10. out \in [1 .. Len(r) -> Slot] /\ DOMAIN out = D
    BY <1>1, <1>3, <1>9
  <1>11. out \in Seq(Slot)
    <2> HIDE DEF out
    <2> QED
      BY <1>1, <1>10
  <1>12. Within(out, r)
    BY <1>9, <1>10 DEF Within
  <1>13. UniqueIds(out)
    <2> SUFFICES ASSUME NEW n \in D, NEW m \in D, r[p[n]].id = r[p[m]].id
                 PROVE  n = m
      BY <1>10 DEF UniqueIds
    <2>1. p[n] = p[m] /\ p[n] \in D
      BY <1>9 DEF UniqueIds
    <2>2. ~Before(r[p[n]], r[p[m]]) /\ ~Before(r[p[m]], r[p[n]])
      BY <1>3, <2>1 DEF Before
    <2> QED
      BY <1>1, <1>9, <2>2
  <1>14. Sorted(out)
    BY <1>9, <1>10 DEF Sorted
  <1> HIDE DEF out
  <1> QED
    BY <1>6, <1>11, <1>12, <1>13, <1>14

(* Slot::cancel marks slots and moves none. *)
LEMMA EndedFacts ==
  ASSUME NEW r \in Seq(Slot), UniqueIds(r), NEW ids
  PROVE  LET out == Ended(r, ids) IN
           /\ out \in Seq(Slot) /\ UniqueIds(out) /\ DOMAIN out = DOMAIN r
           /\ \A i \in DOMAIN r :
                /\ out[i].id = r[i].id /\ out[i].priority = r[i].priority
                /\ out[i].terminal <=> r[i].terminal \/ r[i].id \in ids
           /\ Sorted(r) => Sorted(out)
  <1> DEFINE out == [i \in DOMAIN r |->
                       [r[i] EXCEPT !.terminal = @ \/ r[i].id \in ids]]
  <1>1. Ended(r, ids) = out
    BY DEF Ended
  <1>2. \A i \in DOMAIN r : r[i] \in Slot
    OBVIOUS
  <1>3. \A i \in DOMAIN r :
          /\ out[i] \in Slot
          /\ out[i].id = r[i].id /\ out[i].priority = r[i].priority
          /\ out[i].terminal <=> r[i].terminal \/ r[i].id \in ids
    BY <1>2 DEF Slot
  <1>4. DOMAIN r = 1 .. Len(r) /\ Len(r) \in Nat
    OBVIOUS
  <1>5. out \in [1 .. Len(r) -> Slot] /\ DOMAIN out = DOMAIN r
    BY <1>3, <1>4
  <1> HIDE DEF out
  <1>6. out \in Seq(Slot)
    BY <1>4, <1>5
  <1>7. UniqueIds(out) /\ (Sorted(r) => Sorted(out))
    BY <1>3, <1>5 DEF UniqueIds, Sorted, Before
  <1> QED
    BY <1>1, <1>3, <1>5, <1>6, <1>7

-----------------------------------------------------------------------------
(* The inductive invariant.                                                *)

(* A client about to send its Register holds the admission lock, and the   *)
(* dispatcher is open. *)
LockInv ==
  /\ \A t \in Tasks : cPc[t] = "register" <=> lockedBy = t
  /\ \A t \in Tasks : cPc[t] = "register" => admission = "Open"

(* The receiver lives as long as the thread; what it drops is dropped. *)
LoopInv ==
  /\ rxAlive <=> dPc # "gone"
  /\ dPc \in {"dropRx", "gone"} => slots = <<>>
  /\ dPc = "gone" => queue = <<>>

(* A task is registered once, before it is unregistered, and a Shutdown is *)
(* sent as the dispatcher closes. *)
Ordered(i, j) ==
  /\ queue[i].kind = "Register" /\ queue[j] = queue[i] => i = j
  /\ queue[i].kind = "Register" /\ queue[j].kind = "Unregister" /\ queue[j].id = queue[i].id =>
       i < j
  /\ queue[i].kind = "Shutdown" /\ queue[j].kind = "Register" => j < i
Placed(c) ==
  /\ c.kind = "Shutdown" => admission = "Closed"
  /\ c.kind = "Unregister" => cPc[c.id] \in {"release", "gone"}
  /\ c.kind = "Register" =>
       fate[c.id] = "none" /\ cPc[c.id] \in {"handle", "unregister", "release", "gone"}
QueueInv ==
  /\ \A i, j \in DOMAIN queue : Ordered(i, j)
  /\ \A i \in DOMAIN queue : Placed(queue[i])

(* A task has no fate before it is registered, a slot that is not terminal *)
(* holds a live task, and a cancelled task keeps its token. *)
SlotInv == \A i \in DOMAIN slots :
  fate[slots[i].id] # "none" /\ (~slots[i].terminal => fate[slots[i].id] = "live")
Unbuilt == {"new", "reserved", "pending", "register"}
FateInv ==
  /\ UniqueIds(slots) /\ SlotInv
  /\ \A t \in Tasks : cPc[t] \in Unbuilt => fate[t] = "none"
  /\ \A t \in Tasks : fate[t] = "cancelled" => token[t]
  /\ CancelledOnce

(* The clients with a reservation, those whose Register was sent and whose *)
(* Unregister was not, and the roster as it is after the next k commands   *)
(* at most. *)
Holding == {t \in Tasks : cPc[t] \in {"reserved", "pending", "register", "handle",
                                      "unregister", "release"}}
Registered == {t \in Tasks : cPc[t] \in {"handle", "unregister"}}
After(k) ==
  {t \in Tasks :
     /\ t \in Ids(slots) \/ \E i \in 1 .. k : queue[i] = [kind |-> "Register", id |-> t]
     /\ \A i \in 1 .. k : queue[i] # [kind |-> "Unregister", id |-> t]}
CapacityInv ==
  /\ active = Cardinality(Holding)
  /\ \A k \in 0 .. Len(queue) : Cardinality(After(k)) <= capacity
  /\ admission = "Open" => After(Len(queue)) \subseteq Registered

(* A roster that may be out of order is known to be. *)
OrderInv == (needsReorder \/ Sorted(slots)) /\ (dPc = "visit" => ~needsReorder)

IInv == TypeOK /\ LockInv /\ LoopInv /\ QueueInv /\ FateInv /\ CapacityInv /\ OrderInv

-----------------------------------------------------------------------------
(* The clients' steps.                                                     *)

ClientPcs == {"new", "reserved", "pending", "register", "handle", "unregister", "release",
              "gone"}

(* What a client's step may do at all. *)
LEMMA ClientFrame ==
  ASSUME TypeOK, NEW t \in Tasks, Client(t)
  PROVE  /\ UNCHANGED <<loopVars, cancelled, stopPc>>
         /\ cPc' \in [Tasks -> ClientPcs]
         /\ token' \in [Tasks -> BOOLEAN] /\ want' \in [Tasks -> Priorities]
         /\ lockedBy' \in {0} \cup Tasks
         /\ \A u \in Tasks : token[u] => token'[u]
         /\ \A u \in Tasks \ {t} : cPc'[u] = cPc[u]
         /\ admission' = admission \/ admission' = "Closed"
  <1> USE DEF clientVars, ClientPcs, TypeOK
  <1>1. CASE Reserve(t)
    BY <1>1 DEF Reserve
  <1>2. CASE Prepare(t) \/ DropPending(t)
    BY <1>2 DEF Prepare, DropPending, GiveUp
  <1>3. CASE RegisterCheck(t)
    BY <1>3 DEF RegisterCheck, GiveUp
  <1>4. CASE RegisterSend(t)
    BY <1>4 DEF RegisterSend, GiveUp
  <1>5. CASE CancelTask(t) \/ ChangePriority(t)
    BY <1>5 DEF CancelTask, ChangePriority
  <1>6. CASE DropHandle(t) \/ Unregister(t) \/ ReleaseReservation(t)
    BY <1>6 DEF DropHandle, Unregister, ReleaseReservation
  <1> QED
    BY <1>1, <1>2, <1>3, <1>4, <1>5, <1>6 DEF Client

(* Where a client goes from where it is. *)
LEMMA ClientMoves ==
  ASSUME TypeOK, NEW t \in Tasks, Client(t)
  PROVE  \/ cPc'[t] = cPc[t] /\ active' = active
         \/ cPc[t] = "new" /\ cPc'[t] = "gone" /\ active' = active
         \/ cPc[t] = "new" /\ cPc'[t] = "reserved" /\ active' = active + 1 /\ active < capacity
         \/ cPc[t] \in {"reserved", "pending", "register"} /\ cPc'[t] = "gone" /\ active' = active - 1
         \/ cPc[t] = "reserved" /\ cPc'[t] = "pending" /\ active' = active
         \/ cPc[t] = "pending" /\ cPc'[t] = "register" /\ active' = active
         \/ cPc[t] = "register" /\ cPc'[t] = "handle" /\ active' = active
         \/ cPc[t] = "handle" /\ cPc'[t] = "unregister" /\ active' = active
         \/ cPc[t] = "unregister" /\ cPc'[t] = "release" /\ active' = active
         \/ cPc[t] = "release" /\ cPc'[t] = "gone" /\ active' = active - 1
  <1> USE DEF clientVars
  <1>0. cPc \in [Tasks -> ClientPcs]
    BY DEF TypeOK, ClientPcs
  <1>1. CASE Reserve(t)
    BY <1>0, <1>1 DEF Reserve
  <1>2. CASE Prepare(t) \/ DropPending(t)
    BY <1>0, <1>2 DEF Prepare, DropPending, GiveUp
  <1>3. CASE RegisterCheck(t)
    BY <1>0, <1>3 DEF RegisterCheck, GiveUp
  <1>4. CASE RegisterSend(t)
    BY <1>0, <1>4 DEF RegisterSend, GiveUp
  <1>5. CASE CancelTask(t) \/ ChangePriority(t)
    BY <1>0, <1>5 DEF CancelTask, ChangePriority
  <1>6. CASE DropHandle(t) \/ Unregister(t) \/ ReleaseReservation(t)
    BY <1>0, <1>6 DEF DropHandle, Unregister, ReleaseReservation
  <1> QED
    BY <1>1, <1>2, <1>3, <1>4, <1>5, <1>6 DEF Client

(* The reservations counted are the clients that hold one. *)
LEMMA ClientActive ==
  ASSUME TypeOK, active = Cardinality(Holding), NEW t \in Tasks, Client(t), UNCHANGED capacity
  PROVE  active' = Cardinality(Holding') /\ active' \in 0 .. capacity'
  <1> USE DispatcherAssumption
  <1> DEFINE H == {"reserved", "pending", "register", "handle", "unregister", "release"}
  <1>1. IsFiniteSet(Holding)
    <2>1. IsFiniteSet(Tasks)
      BY FS_Interval DEF Tasks
    <2> QED
      BY <2>1, FS_Subset DEF Holding
  <1>2. \A u \in Tasks \ {t} : cPc'[u] = cPc[u]
    BY ClientFrame
  <1>3. active \in Nat /\ active <= capacity /\ capacity \in Nat
    BY DEF TypeOK
  <1>4. CASE active' = active /\ (cPc'[t] \in H <=> cPc[t] \in H)
    <2>1. Holding' = Holding
      BY <1>2, <1>4 DEF Holding
    <2> QED
      BY <1>3, <1>4, <2>1
  <1>5. CASE active' = active + 1 /\ active < capacity /\ cPc[t] \notin H /\ cPc'[t] \in H
    <2>1. Holding' = Holding \cup {t} /\ t \notin Holding
      BY <1>2, <1>5 DEF Holding
    <2>2. Cardinality(Holding') = Cardinality(Holding) + 1
      BY <1>1, <2>1, FS_AddElement
    <2> QED
      BY <1>3, <1>5, <2>2
  <1>6. CASE active' = active - 1 /\ cPc[t] \in H /\ cPc'[t] \notin H
    <2>1. Holding' = Holding \ {t} /\ t \in Holding
      BY <1>2, <1>6 DEF Holding
    <2>2. Cardinality(Holding') = Cardinality(Holding) - 1 /\ IsFiniteSet(Holding')
      BY <1>1, <2>1, FS_RemoveElement
    <2>3. Cardinality(Holding') \in Nat
      BY <2>2, FS_CardinalityType
    <2> QED
      BY <1>3, <1>6, <2>2, <2>3
  <1> QED
    BY <1>4, <1>5, <1>6, ClientMoves

LEMMA ClientLock ==
  ASSUME TypeOK, LockInv, NEW t \in Tasks, Client(t)
  PROVE  LockInv'
  <1> USE DEF clientVars, LockInv
  <1>0. /\ cPc \in [Tasks -> ClientPcs] /\ 0 \notin Tasks
        /\ \A u \in Tasks \ {t} : cPc'[u] = cPc[u]
    BY ClientFrame, DispatcherAssumption DEF TypeOK, ClientPcs, Tasks
  <1>1. CASE Reserve(t)
    BY <1>0, <1>1 DEF Reserve, Unlocked
  <1>2. CASE Prepare(t) \/ DropPending(t)
    BY <1>0, <1>2 DEF Prepare, DropPending, GiveUp
  <1>3. CASE RegisterCheck(t)
    BY <1>0, <1>3 DEF RegisterCheck, GiveUp, Unlocked
  <1>4. CASE RegisterSend(t)
    BY <1>0, <1>4 DEF RegisterSend, GiveUp
  <1>5. CASE CancelTask(t) \/ ChangePriority(t)
    BY <1>0, <1>5 DEF CancelTask, ChangePriority
  <1>6. CASE DropHandle(t) \/ Unregister(t) \/ ReleaseReservation(t)
    BY <1>0, <1>6 DEF DropHandle, Unregister, ReleaseReservation
  <1> QED
    BY <1>1, <1>2, <1>3, <1>4, <1>5, <1>6 DEF Client

RegisterOf(t) == [kind |-> "Register", id |-> t]
UnregisterOf(t) == [kind |-> "Unregister", id |-> t]
ShutdownCommand == [kind |-> "Shutdown", id |-> 0]

(* What a client sends, and when it sends nothing. *)
LEMMA ClientSends ==
  ASSUME TypeOK, NEW t \in Tasks, Client(t)
  PROVE  \/ /\ queue' = queue
            /\ cPc[t] = "register" /\ cPc'[t] = "handle" => FALSE
            /\ cPc[t] = "unregister" /\ cPc'[t] = "release" => admission = "Closed" \/ ~rxAlive
         \/ /\ queue' = Append(queue, RegisterOf(t)) /\ rxAlive /\ admission' = admission
            /\ cPc[t] = "register" /\ cPc'[t] = "handle"
         \/ /\ queue' = Append(queue, UnregisterOf(t)) /\ rxAlive /\ admission' = admission
            /\ cPc[t] = "unregister" /\ cPc'[t] = "release"
  <1> USE DEF clientVars, RegisterOf, UnregisterOf
  <1>0. cPc \in [Tasks -> ClientPcs] /\ admission \in {"Open", "Closed"}
    BY DEF TypeOK, ClientPcs
  <1>1. CASE Reserve(t)
    BY <1>0, <1>1 DEF Reserve
  <1>2. CASE Prepare(t) \/ DropPending(t)
    BY <1>0, <1>2 DEF Prepare, DropPending, GiveUp
  <1>3. CASE RegisterCheck(t)
    BY <1>0, <1>3 DEF RegisterCheck, GiveUp
  <1>4. CASE RegisterSend(t)
    BY <1>0, <1>4 DEF RegisterSend, GiveUp
  <1>5. CASE CancelTask(t) \/ ChangePriority(t)
    BY <1>0, <1>5 DEF CancelTask, ChangePriority
  <1>6. CASE DropHandle(t) \/ ReleaseReservation(t)
    BY <1>0, <1>6 DEF DropHandle, ReleaseReservation
  <1>7. CASE Unregister(t)
    BY <1>0, <1>7 DEF Unregister
  <1> QED
    BY <1>1, <1>2, <1>3, <1>4, <1>5, <1>6, <1>7 DEF Client

LEMMA CommandFacts ==
  /\ \A t \in Tasks : RegisterOf(t) \in Command /\ UnregisterOf(t) \in Command
  /\ ShutdownCommand \in Command
  /\ \A c \in Command : \/ c.id \in Tasks /\ (c = RegisterOf(c.id) \/ c = UnregisterOf(c.id))
                        \/ c = ShutdownCommand
  BY DEF Command, RegisterOf, UnregisterOf, ShutdownCommand

(* Commands keep their places while their tasks move on. *)
LEMMA QueueKept ==
  ASSUME TypeOK, QueueInv, queue' = queue, \A c \in Command : Placed(c) => Placed(c)'
  PROVE  QueueInv'
  <1>1. \A i \in DOMAIN queue : queue[i] \in Command
    BY DEF TypeOK
  <1>2. \A i, j \in DOMAIN queue : Ordered(i, j)'
    BY DEF QueueInv, Ordered
  <1> QED
    BY <1>1, <1>2 DEF QueueInv

LEMMA AppendFacts ==
  ASSUME queue \in Seq(Command), NEW c \in Command, queue' = Append(queue, c)
  PROVE  /\ queue' \in Seq(Command) /\ Len(queue') = Len(queue) + 1 /\ Len(queue) \in Nat
         /\ \A i \in DOMAIN queue' : i \in DOMAIN queue \/ i = Len(queue) + 1
         /\ \A i \in DOMAIN queue : queue'[i] = queue[i] /\ i < Len(queue) + 1
         /\ queue'[Len(queue) + 1] = c
  OBVIOUS

LEMMA QueueAppend ==
  ASSUME TypeOK, QueueInv, NEW c \in Command, queue' = Append(queue, c),
         \A d \in Command : Placed(d) => Placed(d)', Placed(c)',
         c.kind = "Register" =>
           \A i \in DOMAIN queue :
             /\ queue[i] # c /\ queue[i].kind # "Shutdown"
             /\ ~(queue[i].kind = "Unregister" /\ queue[i].id = c.id)
  PROVE  QueueInv'
  <1>0. queue \in Seq(Command)
    BY DEF TypeOK
  <1> DEFINE n == Len(queue) + 1
  <1>1. /\ \A i \in DOMAIN queue' : i \in DOMAIN queue \/ i = n
        /\ \A i \in DOMAIN queue : queue'[i] = queue[i] /\ i < n
        /\ queue'[n] = c
    BY <1>0, AppendFacts
  <1> HIDE DEF n
  <1>2. \A i \in DOMAIN queue : queue[i] \in Command
    BY <1>0
  <1>3. \A i \in DOMAIN queue' : Placed(queue[i])'
    BY <1>1, <1>2 DEF QueueInv, Placed
  <1>4. ASSUME NEW i \in DOMAIN queue', NEW j \in DOMAIN queue' PROVE Ordered(i, j)'
    <2>1. CASE i \in DOMAIN queue /\ j \in DOMAIN queue
      BY <1>1, <2>1 DEF QueueInv, Ordered
    <2>2. CASE i \in DOMAIN queue /\ j = n
      BY <1>1, <2>2 DEF Ordered
    <2>3. CASE i = n /\ j \in DOMAIN queue
      BY <1>1, <2>3 DEF Ordered
    <2>4. CASE i = n /\ j = n
      BY <1>1, <2>4 DEF Ordered
    <2> QED
      BY <1>1, <2>1, <2>2, <2>3, <2>4
  <1> QED
    BY <1>3, <1>4 DEF QueueInv

LEMMA ClientQueue ==
  ASSUME TypeOK, LockInv, QueueInv, FateInv, NEW t \in Tasks, Client(t)
  PROVE  QueueInv' /\ queue' \in Seq(Command)
  <1>0. queue \in Seq(Command) /\ fate' = fate
    BY ClientFrame DEF TypeOK, loopVars
  <1>1. \A c \in Command : Placed(c) => Placed(c)'
    <2> SUFFICES ASSUME NEW c \in Command, Placed(c) PROVE Placed(c)'
      OBVIOUS
    <2>1. CASE c = ShutdownCommand
      BY <2>1, ClientFrame DEF Placed, ShutdownCommand
    <2>2. CASE c.id \in Tasks /\ c = RegisterOf(c.id)
      <3>1. cPc'[c.id] \in {"handle", "unregister", "release", "gone"}
        BY <2>2, ClientFrame, ClientMoves DEF Placed, RegisterOf
      <3> QED
        BY <1>0, <2>2, <3>1 DEF Placed, RegisterOf
    <2>3. CASE c.id \in Tasks /\ c = UnregisterOf(c.id)
      <3>1. cPc'[c.id] \in {"release", "gone"}
        BY <2>3, ClientFrame, ClientMoves DEF Placed, UnregisterOf
      <3> QED
        BY <2>3, <3>1 DEF Placed, UnregisterOf
    <2> QED
      BY <2>1, <2>2, <2>3, CommandFacts
  <1>2. CASE queue' = queue
    BY <1>0, <1>1, <1>2, QueueKept
  <1>3. CASE /\ queue' = Append(queue, RegisterOf(t))
             /\ cPc[t] = "register" /\ cPc'[t] = "handle"
    <2>1. RegisterOf(t) \in Command
      BY CommandFacts
    <2>2. Placed(RegisterOf(t))'
      BY <1>0, <1>3 DEF Placed, RegisterOf, FateInv, Unbuilt
    <2>3. \A i \in DOMAIN queue :
            /\ queue[i] # RegisterOf(t) /\ queue[i].kind # "Shutdown"
            /\ ~(queue[i].kind = "Unregister" /\ queue[i].id = t)
      <3> SUFFICES ASSUME NEW i \in DOMAIN queue
                   PROVE  /\ queue[i] # RegisterOf(t) /\ queue[i].kind # "Shutdown"
                          /\ ~(queue[i].kind = "Unregister" /\ queue[i].id = t)
        OBVIOUS
      <3>1. admission = "Open"
        BY <1>3 DEF LockInv
      <3>2. Placed(queue[i])
        BY DEF QueueInv
      <3> QED
        BY <1>3, <3>1, <3>2 DEF Placed, RegisterOf
    <2>4. RegisterOf(t).kind = "Register" /\ RegisterOf(t).id = t
      BY DEF RegisterOf
    <2>5. QueueInv'
      BY <1>1, <1>3, <2>1, <2>2, <2>3, <2>4, QueueAppend
    <2> QED
      BY <1>0, <1>3, <2>1, <2>5, AppendFacts
  <1>4. CASE /\ queue' = Append(queue, UnregisterOf(t))
             /\ cPc[t] = "unregister" /\ cPc'[t] = "release"
    <2>1. UnregisterOf(t) \in Command /\ UnregisterOf(t).kind # "Register"
      BY CommandFacts DEF UnregisterOf
    <2>2. Placed(UnregisterOf(t))'
      BY <1>4 DEF Placed, UnregisterOf
    <2>3. QueueInv'
      BY <1>1, <1>4, <2>1, <2>2, QueueAppend
    <2> QED
      BY <1>0, <1>4, <2>1, <2>3, AppendFacts
  <1> QED
    BY <1>2, <1>3, <1>4, ClientSends

(* Sets of tasks are finite, and a smaller one counts for less. *)
LEMMA TasksCount ==
  ASSUME NEW S, S \subseteq Tasks, NEW T, T \subseteq S
  PROVE  IsFiniteSet(S) /\ Cardinality(S) \in Nat /\ Cardinality(T) \in Nat
         /\ Cardinality(T) <= Cardinality(S)
  <1>1. IsFiniteSet(Tasks)
    BY DispatcherAssumption, FS_Interval DEF Tasks
  <1>2. IsFiniteSet(S)
    BY <1>1, FS_Subset
  <1>3. IsFiniteSet(T) /\ Cardinality(T) <= Cardinality(S)
    BY <1>2, FS_Subset
  <1> QED
    BY <1>2, <1>3, FS_CardinalityType

(* A roster to come that is part of one counted before is within bounds. *)
LEMMA AfterShrinks ==
  ASSUME TypeOK, CapacityInv, UNCHANGED capacity,
         NEW k \in 0 .. Len(queue), NEW S, S \subseteq After(k)
  PROVE  Cardinality(S) <= capacity'
  <1>1. Cardinality(After(k)) <= capacity
    BY DEF CapacityInv
  <1>2. After(k) \subseteq Tasks
    BY DEF After
  <1>3. /\ Cardinality(S) <= Cardinality(After(k))
        /\ Cardinality(S) \in Nat /\ Cardinality(After(k)) \in Nat
    <2> HIDE DEF After
    <2> QED
      BY <1>2, TasksCount
  <1> QED
    BY <1>1, <1>3 DEF TypeOK

(* The rosters to come after one more command is sent. *)
LEMMA AfterAppend ==
  ASSUME TypeOK, NEW c \in Command, queue' = Append(queue, c), slots' = slots,
         NEW n \in Nat, n = Len(queue) + 1
  PROVE  /\ \A k \in 0 .. Len(queue) : After(k)' = After(k)
         /\ \A t \in After(n)' :
              (t \in After(Len(queue)) \/ c = RegisterOf(t)) /\ c # UnregisterOf(t)
  <1>0. queue \in Seq(Command)
    BY DEF TypeOK
  <1>1. /\ \A i \in 1 .. Len(queue) : queue'[i] = queue[i]
        /\ queue'[n] = c /\ Len(queue) \in Nat
    BY <1>0, AppendFacts
  <1>2. ASSUME NEW k \in 0 .. Len(queue) PROVE After(k)' = After(k)
    <2>1. \A i \in 1 .. k : queue'[i] = queue[i]
      BY <1>1
    <2> QED
      BY <2>1 DEF After, Ids
  <1>3. ASSUME NEW t \in After(n)'
        PROVE  (t \in After(Len(queue)) \/ c = RegisterOf(t)) /\ c # UnregisterOf(t)
    <2>1. /\ t \in Tasks
          /\ t \in Ids(slots) \/ \E i \in 1 .. n : queue'[i] = RegisterOf(t)
          /\ \A i \in 1 .. n : queue'[i] # UnregisterOf(t)
      BY <1>3 DEF After, Ids, RegisterOf, UnregisterOf
    <2>2. n \in 1 .. n /\ (\A i \in 1 .. n : i \in 1 .. Len(queue) \/ i = n)
      BY <1>1
    <2>3. \A i \in 1 .. Len(queue) : i \in 1 .. n
      BY <1>1
    <2>4. c # UnregisterOf(t) /\ \A i \in 1 .. Len(queue) : queue[i] # UnregisterOf(t)
      BY <1>1, <2>1, <2>2, <2>3
    <2>5. \/ t \in Ids(slots) \/ c = RegisterOf(t)
          \/ \E i \in 1 .. Len(queue) : queue[i] = RegisterOf(t)
      BY <1>1, <2>1, <2>2
    <2> QED
      BY <2>1, <2>4, <2>5 DEF After, RegisterOf, UnregisterOf
  <1> QED
    BY <1>2, <1>3

LEMMA ClientCapacity ==
  ASSUME TypeOK, LockInv, LoopInv, CapacityInv, NEW t \in Tasks, Client(t), UNCHANGED capacity
  PROVE  CapacityInv'
  <1>0. queue \in Seq(Command) /\ Len(queue) \in Nat /\ admission \in {"Open", "Closed"}
    BY DEF TypeOK
  <1> PICK n \in Nat : n = Len(queue) + 1
    BY <1>0
  <1>1. active' = Cardinality(Holding') /\ active' \in 0 .. capacity'
    BY ClientActive DEF CapacityInv
  <1>2. slots' = slots /\ \A u \in Tasks \ {t} : cPc'[u] = cPc[u]
    BY ClientFrame DEF loopVars
  <1>3. admission' = "Open" => admission = "Open"
    BY ClientFrame
  <1>4. CASE /\ queue' = queue
             /\ cPc[t] = "register" /\ cPc'[t] = "handle" => FALSE
             /\ cPc[t] = "unregister" /\ cPc'[t] = "release" => admission = "Closed" \/ ~rxAlive
    <2>1. \A k \in 0 .. Len(queue) : After(k)' = After(k)
      BY <1>2, <1>4 DEF After, Ids
    <2>2. (\A k \in 0 .. Len(queue) : Cardinality(After(k)) <= capacity)'
      BY <1>4, <2>1 DEF CapacityInv
    <2>3. admission' = "Open" => After(Len(queue)) \subseteq Registered'
      <3> SUFFICES ASSUME admission' = "Open", NEW u \in After(Len(queue))
                   PROVE  u \in Registered'
        OBVIOUS
      <3>1. u \in Registered
        BY <1>3 DEF CapacityInv
      <3>2. CASE u # t
        BY <1>2, <3>1, <3>2 DEF Registered
      <3>3. CASE u = t /\ rxAlive
        BY <1>3, <1>4, <3>1, <3>3, ClientMoves DEF Registered
      <3>4. CASE ~rxAlive
        <4>1. slots = <<>> /\ queue = <<>>
          BY <3>4 DEF LoopInv
        <4>2. Len(queue) = 0 /\ Ids(slots) = {}
          BY <4>1 DEF Ids
        <4> QED
          BY <4>2 DEF After
      <3> QED
        BY <3>2, <3>3, <3>4
    <2>4. After(Len(queue))' = After(Len(queue))
      BY <1>2, <1>4 DEF After, Ids
    <2> QED
      BY <1>1, <2>2, <2>3, <2>4 DEF CapacityInv
  <1>5. CASE /\ queue' = Append(queue, RegisterOf(t)) /\ admission' = admission
             /\ cPc[t] = "register" /\ cPc'[t] = "handle"
    <2>1. RegisterOf(t) \in Command /\ \A u \in Tasks : RegisterOf(t) = RegisterOf(u) => u = t
      BY CommandFacts DEF RegisterOf
    <2>2. /\ \A k \in 0 .. Len(queue) : After(k)' = After(k)
          /\ \A u \in After(n)' : u \in After(Len(queue)) \/ RegisterOf(t) = RegisterOf(u)
      BY <1>2, <1>5, <2>1, AfterAppend
    <2>3. After(n)' \subseteq Registered'
      <3>1. After(Len(queue)) \subseteq Registered
        BY <1>5 DEF LockInv, CapacityInv
      <3>2. After(n)' \subseteq Tasks
        BY DEF After
      <3> QED
        BY <1>2, <1>5, <2>1, <2>2, <3>1, <3>2 DEF Registered
    <2>4. Cardinality(After(n)') <= capacity'
      <3>1. Registered' \subseteq Holding' /\ Holding' \subseteq Tasks
        BY DEF Registered, Holding
      <3>2. /\ Cardinality(After(n)') <= Cardinality(Holding')
            /\ Cardinality(After(n)') \in Nat
        <4> HIDE DEF After, Holding, Registered
        <4> QED
          BY <2>3, <3>1, TasksCount
      <3> QED
        BY <1>1, <3>2 DEF TypeOK
    <2>5. Len(queue') = n
      BY <1>0, <1>5, <2>1, AppendFacts
    <2>6. \A k \in 0 .. Len(queue) : Cardinality(After(k)') <= capacity'
      BY <2>2 DEF CapacityInv
    <2>7. \A k \in 0 .. Len(queue') : k \in 0 .. Len(queue) \/ k = n
      BY <1>0, <2>5
    <2>8. (\A k \in 0 .. Len(queue) : Cardinality(After(k)) <= capacity)'
      BY <2>4, <2>6, <2>7
    <2> QED
      BY <1>1, <2>3, <2>5, <2>8 DEF CapacityInv
  <1>6. CASE /\ queue' = Append(queue, UnregisterOf(t)) /\ admission' = admission
             /\ cPc[t] = "unregister" /\ cPc'[t] = "release"
    <2>1. UnregisterOf(t) \in Command /\ \A u \in Tasks : UnregisterOf(t) # RegisterOf(u)
      BY CommandFacts DEF RegisterOf, UnregisterOf
    <2>2. /\ \A k \in 0 .. Len(queue) : After(k)' = After(k)
          /\ \A u \in After(n)' : u \in After(Len(queue)) /\ u # t
      <3>1. After(n)' \subseteq Tasks
        BY DEF After
      <3> QED
        BY <1>2, <1>6, <2>1, <3>1, AfterAppend
    <2>3. admission' = "Open" => After(n)' \subseteq Registered'
      <3>1. admission' = "Open" => After(Len(queue)) \subseteq Registered
        BY <1>6 DEF CapacityInv
      <3> QED
        BY <1>2, <2>2, <3>1 DEF Registered
    <2>4. Cardinality(After(n)') <= capacity'
      <3>1. Len(queue) \in 0 .. Len(queue)
        BY <1>0
      <3> HIDE DEF After
      <3>2. After(n)' \subseteq After(Len(queue))
        BY <2>2
      <3> QED
        BY <3>1, <3>2, AfterShrinks
    <2>5. Len(queue') = n
      BY <1>0, <1>6, <2>1, AppendFacts
    <2>6. \A k \in 0 .. Len(queue) : Cardinality(After(k)') <= capacity'
      BY <2>2 DEF CapacityInv
    <2>7. \A k \in 0 .. Len(queue') : k \in 0 .. Len(queue) \/ k = n
      BY <1>0, <2>5
    <2>8. (\A k \in 0 .. Len(queue) : Cardinality(After(k)) <= capacity)'
      BY <2>4, <2>6, <2>7
    <2> QED
      BY <1>1, <2>3, <2>5, <2>8 DEF CapacityInv
  <1> QED
    BY <1>4, <1>5, <1>6, ClientSends

LEMMA ClientStepIInv ==
  ASSUME IInv, NEW t \in Tasks, Client(t), UNCHANGED capacity
  PROVE  IInv'
  <1> USE DEF IInv
  <1>0. UNCHANGED <<rxAlive, dPc, slots, needsReorder, visit, cancels, fate>>
    BY ClientFrame DEF loopVars
  <1>1. LockInv' /\ QueueInv' /\ CapacityInv'
    BY ClientLock, ClientQueue, ClientCapacity
  <1>2. TypeOK'
    <2>1. active' \in 0 .. capacity' /\ queue' \in Seq(Command)
      BY ClientActive, ClientQueue DEF CapacityInv
    <2>2. admission' \in {"Open", "Closed"} /\ cancelled' = cancelled /\ stopPc' = stopPc
      BY ClientFrame DEF TypeOK
    <2>3. /\ cPc' \in [Tasks -> ClientPcs] /\ token' \in [Tasks -> BOOLEAN]
          /\ want' \in [Tasks -> Priorities] /\ lockedBy' \in {0} \cup Tasks
      BY ClientFrame
    <2> QED
      BY <1>0, <2>1, <2>2, <2>3 DEF TypeOK, ClientPcs
  <1>3. LoopInv'
    <2>1. rxAlive = FALSE => queue' = queue
      BY ClientSends
    <2> QED
      BY <1>0, <2>1 DEF LoopInv, TypeOK
  <1>4. FateInv'
    <2>1. \A u \in Tasks : cPc'[u] \in Unbuilt => cPc[u] \in Unbuilt
      BY ClientFrame, ClientMoves DEF Unbuilt
    <2>2. \A u \in Tasks : token[u] => token'[u]
      BY ClientFrame
    <2> QED
      BY <1>0, <2>1, <2>2 DEF FateInv, SlotInv, UniqueIds, CancelledOnce
  <1>5. OrderInv'
    BY <1>0 DEF OrderInv, Sorted, Before
  <1> QED
    BY <1>1, <1>2, <1>3, <1>4, <1>5

-----------------------------------------------------------------------------
(* The shutdown and the dispatcher's token.                                *)

LEMMA StopStepIInv ==
  ASSUME IInv, Shutdown \/ ShutdownCancel \/ CancelDispatcher, UNCHANGED capacity
  PROVE  IInv'
  <1> USE DEF IInv, clientVars
  <1>0. /\ UNCHANGED <<lockedBy, active, cPc, want, token>>
        /\ UNCHANGED <<rxAlive, dPc, slots, needsReorder, visit, cancels, fate>>
    BY DEF Shutdown, ShutdownCancel, CancelDispatcher, loopVars
  <1>1. queue \in Seq(Command) /\ Len(queue) \in Nat /\ ShutdownCommand \in Command
    BY CommandFacts DEF TypeOK
  <1>2. admission' = admission \/ admission' = "Closed"
    BY DEF Shutdown, ShutdownCancel, CancelDispatcher
  <1>3. \/ queue' = queue
        \/ queue' = Append(queue, ShutdownCommand) /\ rxAlive /\ admission' = "Closed"
    BY DEF Shutdown, ShutdownCancel, CancelDispatcher, ShutdownCommand
  <1>4. LockInv'
    <2>1. CASE Shutdown
      <3>1. \A t \in Tasks : cPc[t] # "register"
        BY <2>1, DispatcherAssumption DEF Shutdown, Unlocked, LockInv, Tasks
      <3> QED
        BY <1>0, <3>1 DEF LockInv
    <2>2. CASE ShutdownCancel \/ CancelDispatcher
      BY <1>0, <2>2 DEF ShutdownCancel, CancelDispatcher, LockInv
    <2> QED
      BY <2>1, <2>2
  <1>5. TypeOK'
    <2>1. queue' \in Seq(Command)
      BY <1>1, <1>3, AppendFacts
    <2>2. cancelled' \in BOOLEAN /\ stopPc' \in {"none", "cancel", "done"}
      BY DEF Shutdown, ShutdownCancel, CancelDispatcher, TypeOK
    <2> QED
      BY <1>0, <1>2, <2>1, <2>2 DEF TypeOK
  <1>6. LoopInv' /\ FateInv' /\ OrderInv'
    <2>1. LoopInv'
      BY <1>0, <1>3 DEF LoopInv
    <2>2. FateInv'
      BY <1>0 DEF FateInv, SlotInv, UniqueIds, CancelledOnce, Unbuilt
    <2> QED
      BY <1>0, <2>1, <2>2 DEF OrderInv, Sorted, Before
  <1>7. \A c \in Command : Placed(c) => Placed(c)'
    BY <1>0, <1>2 DEF Placed
  <1>8. CASE queue' = queue
    <2>1. QueueInv'
      BY <1>7, <1>8, QueueKept
    <2>2. CapacityInv'
      BY <1>0, <1>2, <1>8 DEF CapacityInv, After, Ids, Holding, Registered
    <2> QED
      BY <1>4, <1>5, <1>6, <2>1, <2>2
  <1>9. CASE queue' = Append(queue, ShutdownCommand) /\ admission' = "Closed"
    <2>1. QueueInv'
      <3>1. Placed(ShutdownCommand)' /\ ShutdownCommand.kind # "Register"
        BY <1>9 DEF Placed, ShutdownCommand
      <3> QED
        BY <1>1, <1>7, <1>9, <3>1, QueueAppend
    <2>2. CapacityInv'
      <3> PICK n \in Nat : n = Len(queue) + 1
        BY <1>1
      <3>1. /\ \A k \in 0 .. Len(queue) : After(k)' = After(k)
            /\ \A t \in After(n)' :
                 t \in After(Len(queue)) \/ ShutdownCommand = RegisterOf(t)
        BY <1>0, <1>1, <1>9, AfterAppend
      <3>2. \A t \in Tasks : ShutdownCommand # RegisterOf(t)
        BY DEF ShutdownCommand, RegisterOf
      <3>3. After(n)' \subseteq After(Len(queue))
        <4>1. After(n)' \subseteq Tasks
          BY DEF After
        <4> HIDE DEF After
        <4> QED
          BY <3>1, <3>2, <4>1
      <3>4. Cardinality(After(n)') <= capacity'
        <4>1. Len(queue) \in 0 .. Len(queue)
          BY <1>1
        <4> HIDE DEF After
        <4> QED
          BY <3>3, <4>1, AfterShrinks
      <3>5. Len(queue') = n
        BY <1>1, <1>9, AppendFacts
      <3>6. \A k \in 0 .. Len(queue) : Cardinality(After(k)') <= capacity'
        BY <3>1 DEF CapacityInv
      <3>7. \A k \in 0 .. Len(queue') : k \in 0 .. Len(queue) \/ k = n
        BY <1>1, <3>5
      <3>8. (\A k \in 0 .. Len(queue) : Cardinality(After(k)) <= capacity)'
        BY <3>4, <3>6, <3>7
      <3>9. active' = Cardinality(Holding')
        BY <1>0 DEF CapacityInv, Holding
      <3> QED
        BY <1>9, <3>8, <3>9 DEF CapacityInv
    <2> QED
      BY <1>4, <1>5, <1>6, <2>1, <2>2
  <1> QED
    BY <1>3, <1>8, <1>9

-----------------------------------------------------------------------------
(* The loop's steps.                                                       *)

(* A roster of different tasks is as long as the set of them. *)
LEMMA RosterCount ==
  ASSUME NEW r \in Seq(Slot), UniqueIds(r)
  PROVE  /\ Ids(r) \subseteq Tasks /\ Cardinality(Ids(r)) = Len(r)
         /\ Len(r) <= NTasks
  <1> DEFINE f == [i \in 1 .. Len(r) |-> r[i].id]
  <1>1. DOMAIN r = 1 .. Len(r) /\ Len(r) \in Nat
    OBVIOUS
  <1>2. \A i \in 1 .. Len(r) : r[i] \in Slot
    BY <1>1
  <1>3. Ids(r) = {r[i].id : i \in 1 .. Len(r)}
    BY <1>1 DEF Ids
  <1>4. Ids(r) \subseteq Tasks
    BY <1>2, <1>3 DEF Slot
  <1>5. f \in [1 .. Len(r) -> Ids(r)]
    BY <1>3
  <1>6. \A i, j \in 1 .. Len(r) : f[i] = f[j] => i = j
    BY <1>1 DEF UniqueIds
  <1>7. \A t \in Ids(r) : \E i \in 1 .. Len(r) : f[i] = t
    BY <1>3
  <1> HIDE DEF f
  <1>8. f \in Bijection(1 .. Len(r), Ids(r))
    BY <1>5, <1>6, <1>7 DEF Bijection, Injection, Surjection, IsInjective
  <1>9. ExistsBijection(1 .. Len(r), Ids(r))
    BY <1>8 DEF ExistsBijection
  <1>10. Cardinality(Ids(r)) = Len(r)
    BY <1>1, <1>9, FS_CountingElements
  <1>11. Cardinality(Tasks) = NTasks
    <2>1. Cardinality(1 .. NTasks) = IF 1 > NTasks THEN 0 ELSE NTasks - 1 + 1
      BY DispatcherAssumption, FS_Interval
    <2> QED
      BY <2>1, DispatcherAssumption DEF Tasks
  <1>12. Cardinality(Ids(r)) <= Cardinality(Tasks)
    BY <1>4, TasksCount
  <1> QED
    BY <1>4, <1>10, <1>11, <1>12

(* Slot::cancel is due only for live tasks. *)
LEMMA DueFacts ==
  ASSUME TypeOK, FateInv, NEW S
  PROVE  Due(S) \subseteq Tasks /\ \A t \in Due(S) : fate[t] = "live"
  <1>1. \A i \in DOMAIN slots : slots[i] \in Slot
    BY DEF TypeOK
  <1> QED
    BY <1>1 DEF Due, Slot, FateInv, SlotInv

FateTypes ==
  /\ token \in [Tasks -> BOOLEAN] /\ cancels \in [Tasks -> Nat]
  /\ fate \in [Tasks -> {"none", "live", "done", "cancelled", "panicked", "dropped"}]

(* on_cancel on tasks that have not been cancelled. *)
LEMMA OnCancelFacts ==
  ASSUME TypeOK, FateInv, NEW ids, ids \subseteq Tasks, OnCancel(ids),
         \A t \in ids : fate[t] # "cancelled"
  PROVE  /\ FateTypes' /\ CancelledOnce'
         /\ \A t \in Tasks : fate'[t] = "cancelled" => token'[t]
         /\ \A t \in Tasks : fate'[t] = IF t \in ids THEN "cancelled" ELSE fate[t]
  <1>1. \A t \in Tasks :
          /\ token'[t] = (token[t] \/ t \in ids)
          /\ cancels'[t] = cancels[t] + (IF t \in ids THEN 1 ELSE 0)
          /\ fate'[t] = IF t \in ids THEN "cancelled" ELSE fate[t]
    BY DEF OnCancel
  <1>2. token' \in [Tasks -> BOOLEAN]
    BY DEF OnCancel, TypeOK
  <1>3. cancels' \in [Tasks -> Nat]
    BY DEF OnCancel, TypeOK
  <1>4. fate' \in [Tasks -> {"none", "live", "done", "cancelled", "panicked", "dropped"}]
    BY DEF OnCancel, TypeOK
  <1>5. \A t \in Tasks : cancels[t] = IF fate[t] = "cancelled" THEN 1 ELSE 0
    BY DEF FateInv, CancelledOnce
  <1>6. \A t \in Tasks : cancels'[t] = IF fate'[t] = "cancelled" THEN 1 ELSE 0
    BY <1>1, <1>5
  <1>7. \A t \in Tasks : fate'[t] = "cancelled" => token'[t]
    BY <1>1 DEF FateInv
  <1> QED
    BY <1>1, <1>2, <1>3, <1>4, <1>6, <1>7 DEF FateTypes, CancelledOnce

(* Cancelling the slots that are due leaves every slot true to its task. *)
LEMMA CancelDue ==
  ASSUME TypeOK, FateInv, NEW S, OnCancel(Due(S))
  PROVE  /\ FateTypes' /\ CancelledOnce'
         /\ \A t \in Tasks : fate'[t] = "cancelled" => token'[t]
         /\ \A t \in Tasks : fate'[t] = "none" <=> fate[t] = "none"
         /\ Ended(slots, Due(S)) \in Seq(Slot) /\ UniqueIds(Ended(slots, Due(S)))
         /\ DOMAIN Ended(slots, Due(S)) = DOMAIN slots
         /\ \A i \in DOMAIN slots :
              LET a == Ended(slots, Due(S))[i] IN
                /\ a.id = slots[i].id /\ a.priority = slots[i].priority
                /\ fate'[a.id] # "none" /\ (~a.terminal => fate'[a.id] = "live")
                /\ a.id \in S => a.terminal
         /\ Sorted(slots) => Sorted(Ended(slots, Due(S)))
  <1>1. Due(S) \subseteq Tasks /\ \A t \in Due(S) : fate[t] = "live"
    BY DueFacts
  <1>2. /\ FateTypes' /\ CancelledOnce'
        /\ \A t \in Tasks : fate'[t] = "cancelled" => token'[t]
        /\ \A t \in Tasks : fate'[t] = IF t \in Due(S) THEN "cancelled" ELSE fate[t]
    BY <1>1, OnCancelFacts
  <1>3. slots \in Seq(Slot) /\ UniqueIds(slots)
    BY DEF TypeOK, FateInv
  <1> DEFINE E == Ended(slots, Due(S))
  <1>4. /\ E \in Seq(Slot) /\ UniqueIds(E) /\ DOMAIN E = DOMAIN slots
        /\ \A i \in DOMAIN slots :
             /\ E[i].id = slots[i].id /\ E[i].priority = slots[i].priority
             /\ E[i].terminal <=> slots[i].terminal \/ slots[i].id \in Due(S)
        /\ Sorted(slots) => Sorted(E)
    BY <1>3, EndedFacts
  <1>5. \A i \in DOMAIN slots : slots[i].id \in Tasks /\ slots[i].id \in S =>
          slots[i].terminal \/ slots[i].id \in Due(S)
    BY DEF Due
  <1>6. \A i \in DOMAIN slots : slots[i].id \in Tasks
    <2>1. \A i \in DOMAIN slots : slots[i] \in Slot
      BY <1>3
    <2> QED
      BY <2>1 DEF Slot
  <1> HIDE DEF E
  <1>7. \A i \in DOMAIN slots :
          /\ fate'[E[i].id] # "none" /\ (~E[i].terminal => fate'[E[i].id] = "live")
          /\ E[i].id \in S => E[i].terminal
    BY <1>1, <1>2, <1>4, <1>5, <1>6 DEF FateInv, SlotInv
  <1>8. \A t \in Tasks : fate'[t] = "none" <=> fate[t] = "none"
    BY <1>1, <1>2
  <1> QED
    BY <1>2, <1>4, <1>7, <1>8 DEF E

(* A step that neither sends nor receives, and does not grow the roster. *)
LEMMA RosterStep ==
  ASSUME IInv, UNCHANGED <<capacity, admission, queue, clientVars>>,
         slots' \in Seq(Slot), UniqueIds(slots'), Ids(slots') \subseteq Ids(slots),
         CancelledOnce', SlotInv',
         \A t \in Tasks : fate'[t] = "cancelled" => token'[t],
         \A t \in Tasks : fate'[t] = "none" <=> fate[t] = "none"
  PROVE  LockInv' /\ QueueInv' /\ FateInv' /\ CapacityInv'
  <1> USE DEF IInv, clientVars
  <1>1. LockInv'
    BY DEF LockInv
  <1>2. QueueInv'
    <2>1. \A c \in Command : Placed(c) => Placed(c)'
      BY CommandFacts DEF Placed, ShutdownCommand
    <2> QED
      BY <2>1, QueueKept
  <1>3. FateInv'
    BY DEF FateInv, Unbuilt
  <1>4. CapacityInv'
    <2>1. \A k \in 0 .. Len(queue) : After(k)' \subseteq After(k)
      BY DEF After
    <2>2. \A k \in 0 .. Len(queue) : Cardinality(After(k)') <= capacity'
      BY <2>1, AfterShrinks
    <2>3. (\A k \in 0 .. Len(queue) : Cardinality(After(k)) <= capacity)'
      BY <2>2
    <2>4. active' = Cardinality(Holding')
      BY DEF CapacityInv, Holding
    <2>5. After(Len(queue))' \subseteq After(Len(queue)) /\ Registered' = Registered
      BY DEF After, Registered
    <2> QED
      BY <2>3, <2>4, <2>5 DEF CapacityInv
  <1> QED
    BY <1>1, <1>2, <1>3, <1>4

(* What the loop leaves alone in every step but a drain. *)
LoopFrame == UNCHANGED <<capacity, admission, cancelled, queue, clientVars>>

(* The roster is cancelled, all of it or one slot, and stays in place. *)
LEMMA CancelInPlace ==
  ASSUME IInv, LoopFrame, NEW S, slots' = Ended(slots, Due(S)), OnCancel(Due(S))
  PROVE  /\ LockInv' /\ QueueInv' /\ FateInv' /\ CapacityInv' /\ FateTypes'
         /\ slots' \in Seq(Slot) /\ (Sorted(slots) => Sorted(slots'))
         /\ DOMAIN slots' = DOMAIN slots
  <1> USE DEF IInv, LoopFrame
  <1>1. /\ FateTypes' /\ CancelledOnce'
        /\ \A t \in Tasks : fate'[t] = "cancelled" => token'[t]
        /\ \A t \in Tasks : fate'[t] = "none" <=> fate[t] = "none"
        /\ slots' \in Seq(Slot) /\ UniqueIds(slots') /\ DOMAIN slots' = DOMAIN slots
        /\ \A i \in DOMAIN slots :
             /\ slots'[i].id = slots[i].id
             /\ fate'[slots'[i].id] # "none"
             /\ ~slots'[i].terminal => fate'[slots'[i].id] = "live"
        /\ Sorted(slots) => Sorted(slots')
    BY CancelDue
  <1>2. Ids(slots') \subseteq Ids(slots)
    BY <1>1 DEF Ids
  <1>3. SlotInv'
    BY <1>1 DEF SlotInv
  <1> QED
    BY <1>1, <1>2, <1>3, RosterStep

(* The roster is cancelled in part and what is terminal leaves it. *)
LEMMA CancelAndRemove ==
  ASSUME TypeOK, FateInv, NEW S, OnCancel(Due(S))
  PROVE  LET kept == RemoveTerminal(Ended(slots, Due(S))) IN
           /\ FateTypes' /\ CancelledOnce'
           /\ \A t \in Tasks : fate'[t] = "cancelled" => token'[t]
           /\ \A t \in Tasks : fate'[t] = "none" <=> fate[t] = "none"
           /\ kept \in Seq(Slot) /\ UniqueIds(kept)
           /\ Ids(kept) \subseteq Ids(slots) \ S
           /\ \A n \in DOMAIN kept : fate'[kept[n].id] = "live"
           /\ Sorted(slots) => Sorted(kept)
  <1> DEFINE E == Ended(slots, Due(S))
             kept == RemoveTerminal(E)
  <1>1. /\ FateTypes' /\ CancelledOnce'
        /\ \A t \in Tasks : fate'[t] = "cancelled" => token'[t]
        /\ \A t \in Tasks : fate'[t] = "none" <=> fate[t] = "none"
        /\ E \in Seq(Slot) /\ UniqueIds(E) /\ DOMAIN E = DOMAIN slots
        /\ \A i \in DOMAIN slots :
             /\ E[i].id = slots[i].id
             /\ ~E[i].terminal => fate'[E[i].id] = "live"
             /\ E[i].id \in S => E[i].terminal
        /\ Sorted(slots) => Sorted(E)
    BY CancelDue
  <1> HIDE DEF E
  <1>2. /\ kept \in Seq(Slot) /\ UniqueIds(kept) /\ Within(kept, E)
        /\ \A n \in DOMAIN kept : ~kept[n].terminal
        /\ Sorted(E) => Sorted(kept)
    BY <1>1, RemoveFacts
  <1> HIDE DEF kept
  <1>3. Ids(kept) \subseteq Ids(slots) \ S
    BY <1>1, <1>2 DEF Within, Ids
  <1>4. \A n \in DOMAIN kept : fate'[kept[n].id] = "live"
    BY <1>1, <1>2 DEF Within
  <1> QED
    BY <1>1, <1>2, <1>3, <1>4 DEF kept, E

LEMMA CheckCancelStep ==
  ASSUME IInv, CheckCancel, UNCHANGED capacity
  PROVE  IInv'
  <1> USE DEF IInv
  <1>0. LoopFrame /\ UNCHANGED <<rxAlive, needsReorder, visit>> /\ dPc = "check"
    BY DEF CheckCancel, LoopFrame
  <1>1. CASE CancelAll /\ dPc' = "exit"
    <2>1. slots' = Ended(slots, Due(Tasks)) /\ OnCancel(Due(Tasks))
      BY <1>1 DEF CancelAll
    <2>2. /\ LockInv' /\ QueueInv' /\ FateInv' /\ CapacityInv' /\ FateTypes'
          /\ slots' \in Seq(Slot) /\ (Sorted(slots) => Sorted(slots'))
      BY <1>0, <2>1, CancelInPlace
    <2>3. TypeOK'
      BY <1>0, <1>1, <2>2 DEF LoopFrame, clientVars, TypeOK, FateTypes
    <2>4. LoopInv' /\ OrderInv'
      BY <1>0, <1>1, <2>2 DEF LoopFrame, LoopInv, OrderInv
    <2> QED
      BY <2>2, <2>3, <2>4
  <1>2. CASE UNCHANGED <<slots, token, cancels, fate>> /\ dPc' = "pass"
    <2> USE <1>0, <1>2 DEF LoopFrame, clientVars
    <2>1. TypeOK' /\ LockInv'
      BY DEF TypeOK, LockInv
    <2>2. LoopInv' /\ OrderInv'
      BY DEF LoopInv, OrderInv, Sorted, Before
    <2>3. QueueInv'
      BY DEF QueueInv, Ordered, Placed
    <2>4. FateInv'
      BY DEF FateInv, SlotInv, UniqueIds, CancelledOnce, Unbuilt
    <2>5. CapacityInv'
      BY DEF CapacityInv, After, Ids, Holding, Registered
    <2> QED
      BY <2>1, <2>2, <2>3, <2>4, <2>5
  <1> QED
    BY <1>1, <1>2 DEF CheckCancel

LEMMA BeginPassStep ==
  ASSUME IInv, BeginPass, UNCHANGED capacity
  PROVE  IInv'
  <1> USE DEF IInv
  <1> DEFINE S == {t \in Tasks : IsCancelled(t)}
             kept == RemoveTerminal(Ended(slots, Due(S)))
             fresh == [i \in DOMAIN kept |-> [kept[i] EXCEPT !.priority = want[kept[i].id]]]
             moved == needsReorder \/ Len(kept) < Len(slots) \/ fresh # kept
  <1>0. /\ LoopFrame /\ UNCHANGED rxAlive /\ dPc = "pass" /\ dPc' = "visit" /\ visit' = 1
        /\ needsReorder' = FALSE /\ OnCancel(Due(S))
        /\ slots' = IF moved THEN ReorderSlots(fresh) ELSE fresh
    BY DEF BeginPass, LoopFrame
  <1>1. /\ FateTypes' /\ CancelledOnce'
        /\ \A t \in Tasks : fate'[t] = "cancelled" => token'[t]
        /\ \A t \in Tasks : fate'[t] = "none" <=> fate[t] = "none"
        /\ kept \in Seq(Slot) /\ UniqueIds(kept) /\ Ids(kept) \subseteq Ids(slots)
        /\ \A n \in DOMAIN kept : fate'[kept[n].id] = "live"
        /\ Sorted(slots) => Sorted(kept)
    BY <1>0, CancelAndRemove
  <1> HIDE DEF kept, S
  <1>2. /\ fresh \in Seq(Slot) /\ DOMAIN fresh = DOMAIN kept
        /\ \A i \in DOMAIN kept : fresh[i].id = kept[i].id
    <2>1. \A i \in DOMAIN kept : kept[i] \in Slot
      BY <1>1
    <2>2. \A i \in DOMAIN kept : fresh[i] \in Slot /\ fresh[i].id = kept[i].id
      BY <2>1 DEF Slot, TypeOK
    <2>3. DOMAIN kept = 1 .. Len(kept) /\ Len(kept) \in Nat
      BY <1>1
    <2>4. fresh \in [1 .. Len(kept) -> Slot] /\ DOMAIN fresh = DOMAIN kept
      BY <2>2, <2>3
    <2> HIDE DEF fresh
    <2> QED
      BY <2>2, <2>3, <2>4
  <1> HIDE DEF fresh
  <1>3. UniqueIds(fresh)
    BY <1>1, <1>2 DEF UniqueIds
  <1>4. slots' \in Seq(Slot) /\ UniqueIds(slots') /\ Within(slots', fresh) /\ Sorted(slots')
    <2>1. CASE moved
      BY <1>0, <1>2, <1>3, <2>1, ReorderFacts
    <2>2. CASE ~moved
      <3>1. fresh = kept /\ ~needsReorder /\ slots' = kept
        BY <1>0, <2>2
      <3>2. Sorted(kept)
        BY <1>1, <3>1 DEF OrderInv
      <3> QED
        BY <1>1, <3>1, <3>2 DEF Within
    <2> QED
      BY <2>1, <2>2
  <1>5. Ids(slots') \subseteq Ids(slots) /\ SlotInv'
    <2>1. \A n \in DOMAIN slots' : \E i \in DOMAIN kept : slots'[n].id = kept[i].id
      BY <1>2, <1>4 DEF Within
    <2>2. Ids(slots') \subseteq Ids(slots)
      <3>1. Ids(slots') \subseteq Ids(kept)
        BY <2>1 DEF Ids
      <3> QED
        BY <1>1, <3>1
    <2>3. SlotInv'
      BY <1>1, <2>1 DEF SlotInv
    <2> QED
      BY <2>2, <2>3
  <1>6. LockInv' /\ QueueInv' /\ FateInv' /\ CapacityInv'
    BY <1>0, <1>1, <1>4, <1>5, RosterStep DEF LoopFrame
  <1>7. TypeOK'
    <2>1. visit' \in 1 .. NTasks + 1
      BY <1>0, DispatcherAssumption
    <2>2. needsReorder' \in BOOLEAN /\ rxAlive' \in BOOLEAN
      BY <1>0 DEF TypeOK
    <2> QED
      BY <1>0, <1>1, <1>4, <2>1, <2>2 DEF LoopFrame, clientVars, TypeOK, FateTypes
  <1>8. LoopInv' /\ OrderInv'
    BY <1>0, <1>4 DEF LoopFrame, LoopInv, OrderInv
  <1> QED
    BY <1>6, <1>7, <1>8

LEMMA VisitStep ==
  ASSUME IInv, Visit, UNCHANGED capacity
  PROVE  IInv'
  <1> USE DEF IInv
  <1>0. /\ LoopFrame /\ UNCHANGED <<rxAlive, needsReorder, dPc>>
        /\ dPc = "visit" /\ visit <= Len(slots) /\ visit' = visit + 1
    BY DEF Visit, LoopFrame
  <1>1. slots \in Seq(Slot) /\ UniqueIds(slots)
    BY DEF TypeOK, FateInv
  <1>2. visit' \in 1 .. NTasks + 1
    <2>1. Len(slots) <= NTasks /\ Len(slots) \in Nat
      BY <1>1, RosterCount
    <2> QED
      BY <1>0, <2>1, DispatcherAssumption DEF TypeOK
  <1>3. visit \in DOMAIN slots /\ slots[visit] \in Slot
    BY <1>0, <1>1 DEF TypeOK
  <1>4. CASE slots' = Ended(slots, Due({slots[visit].id})) /\ OnCancel(Due({slots[visit].id}))
    <2>1. /\ LockInv' /\ QueueInv' /\ FateInv' /\ CapacityInv' /\ FateTypes'
          /\ slots' \in Seq(Slot) /\ (Sorted(slots) => Sorted(slots'))
      <3> DEFINE S == {slots[visit].id}
      <3>1. slots' = Ended(slots, Due(S)) /\ OnCancel(Due(S))
        BY <1>4
      <3> HIDE DEF S
      <3> QED
        BY <1>0, <3>1, CancelInPlace
    <2>2. TypeOK'
      BY <1>0, <1>2, <2>1 DEF LoopFrame, clientVars, TypeOK, FateTypes
    <2>3. LoopInv' /\ OrderInv'
      BY <1>0, <2>1 DEF LoopFrame, LoopInv, OrderInv
    <2> QED
      BY <2>1, <2>2, <2>3
  <1>5. CASE /\ ~IsCancelled(slots[visit].id)
             /\ slots' = [slots EXCEPT ![visit].terminal = TRUE]
             /\ fate' = [fate EXCEPT ![slots[visit].id] = "done"]
             /\ UNCHANGED <<token, cancels>>
    <2> DEFINE t == slots[visit].id
    <2>1. t \in Tasks /\ ~token[t] /\ fate[t] # "none" /\ fate[t] # "cancelled"
      <3>1. t \in Tasks
        BY <1>3 DEF Slot
      <3> QED
        BY <1>3, <1>5, <3>1 DEF IsCancelled, FateInv, SlotInv
    <2>2. fate'[t] = "done" /\ \A u \in Tasks \ {t} : fate'[u] = fate[u]
      BY <1>5, <2>1 DEF TypeOK
    <2>3. fate' \in [Tasks -> {"none", "live", "done", "cancelled", "panicked", "dropped"}]
      BY <1>5 DEF TypeOK
    <2>4. FateTypes'
      BY <1>5, <2>3 DEF TypeOK, FateTypes
    <2>5. CancelledOnce'
      <3>1. \A u \in Tasks : fate'[u] = "cancelled" <=> fate[u] = "cancelled"
        BY <2>1, <2>2
      <3> QED
        BY <1>5, <3>1 DEF FateInv, CancelledOnce
    <2>6. \A u \in Tasks : fate'[u] = "cancelled" => token'[u]
      BY <1>5, <2>1, <2>2 DEF FateInv
    <2>7. \A u \in Tasks : fate'[u] = "none" <=> fate[u] = "none"
      BY <2>1, <2>2
    <2>8. /\ slots' \in Seq(Slot) /\ DOMAIN slots' = DOMAIN slots
          /\ \A i \in DOMAIN slots :
               /\ slots'[i].id = slots[i].id /\ slots'[i].priority = slots[i].priority
               /\ IF i = visit THEN slots'[i].terminal
                  ELSE slots'[i].terminal = slots[i].terminal
      <3>1. [slots[visit] EXCEPT !.terminal = TRUE] \in Slot
        BY <1>3 DEF Slot
      <3>2. slots' = [slots EXCEPT ![visit] = [slots[visit] EXCEPT !.terminal = TRUE]]
        BY <1>5
      <3>3. /\ [slots[visit] EXCEPT !.terminal = TRUE].id = slots[visit].id
            /\ [slots[visit] EXCEPT !.terminal = TRUE].priority = slots[visit].priority
            /\ [slots[visit] EXCEPT !.terminal = TRUE].terminal
        BY <1>3 DEF Slot
      <3>4. slots' \in Seq(Slot) /\ DOMAIN slots' = DOMAIN slots
        BY <1>1, <1>3, <3>1, <3>2
      <3> QED
        BY <1>1, <1>3, <3>2, <3>3, <3>4
    <2>9. UniqueIds(slots') /\ (Sorted(slots) => Sorted(slots'))
      BY <1>1, <2>8 DEF UniqueIds, Sorted, Before
    <2>10. Ids(slots') \subseteq Ids(slots)
      BY <2>8 DEF Ids
    <2>11. SlotInv'
      <3> SUFFICES ASSUME NEW i \in DOMAIN slots
                   PROVE  /\ fate'[slots'[i].id] # "none"
                          /\ ~slots'[i].terminal => fate'[slots'[i].id] = "live"
        BY <2>8 DEF SlotInv
      <3>1. fate[slots[i].id] # "none" /\ (~slots[i].terminal => fate[slots[i].id] = "live")
        BY DEF FateInv, SlotInv
      <3>2. slots[i].id \in Tasks
        <4>1. slots[i] \in Slot
          BY <1>1
        <4> QED
          BY <4>1 DEF Slot
      <3>3. CASE i = visit
        BY <2>2, <2>8, <3>3
      <3>4. CASE i # visit
        <4>1. slots[i].id # t
          BY <1>1, <1>3, <3>4 DEF UniqueIds
        <4> QED
          BY <2>2, <2>8, <3>1, <3>2, <3>4, <4>1
      <3> QED
        BY <3>3, <3>4
    <2>12. LockInv' /\ QueueInv' /\ FateInv' /\ CapacityInv'
      BY <1>0, <2>5, <2>6, <2>7, <2>8, <2>9, <2>10, <2>11, RosterStep DEF LoopFrame
    <2>13. TypeOK'
      BY <1>0, <1>2, <2>4, <2>8 DEF LoopFrame, clientVars, TypeOK, FateTypes
    <2>14. LoopInv' /\ OrderInv'
      BY <1>0, <2>9 DEF LoopFrame, LoopInv, OrderInv
    <2> QED
      BY <2>12, <2>13, <2>14
  <1>6. CASE UNCHANGED <<slots, token, cancels, fate>>
    <2> USE <1>0, <1>6 DEF LoopFrame, clientVars
    <2>1. TypeOK' /\ LockInv'
      BY <1>2 DEF TypeOK, LockInv
    <2>2. LoopInv' /\ OrderInv'
      BY DEF LoopInv, OrderInv, Sorted, Before
    <2>3. QueueInv'
      BY DEF QueueInv, Ordered, Placed
    <2>4. FateInv'
      BY DEF FateInv, SlotInv, UniqueIds, CancelledOnce, Unbuilt
    <2>5. CapacityInv'
      BY DEF CapacityInv, After, Ids, Holding, Registered
    <2> QED
      BY <2>1, <2>2, <2>3, <2>4, <2>5
  <1> QED
    BY <1>4, <1>5, <1>6 DEF Visit

LEMMA EndPassStep ==
  ASSUME IInv, EndPass, UNCHANGED capacity
  PROVE  IInv'
  <1> USE DEF IInv
  <1>0. /\ LoopFrame /\ UNCHANGED <<rxAlive, needsReorder, visit, token, cancels, fate>>
        /\ dPc = "visit" /\ dPc' = "drain" /\ slots' = RemoveTerminal(slots)
    BY DEF EndPass, LoopFrame
  <1>1. slots \in Seq(Slot) /\ UniqueIds(slots)
    BY DEF TypeOK, FateInv
  <1>2. /\ slots' \in Seq(Slot) /\ UniqueIds(slots') /\ Within(slots', slots)
        /\ Sorted(slots) => Sorted(slots')
    BY <1>0, <1>1, RemoveFacts
  <1>3. Ids(slots') \subseteq Ids(slots)
    BY <1>2 DEF Within, Ids
  <1>4. SlotInv' /\ CancelledOnce' /\ \A t \in Tasks : fate'[t] = "cancelled" => token'[t]
    BY <1>0, <1>2 DEF FateInv, SlotInv, Within, CancelledOnce
  <1>5. LockInv' /\ QueueInv' /\ FateInv' /\ CapacityInv'
    BY <1>0, <1>2, <1>3, <1>4, RosterStep DEF LoopFrame
  <1>6. TypeOK'
    BY <1>0, <1>2 DEF LoopFrame, clientVars, TypeOK
  <1>7. LoopInv' /\ OrderInv'
    BY <1>0, <1>2 DEF LoopFrame, LoopInv, OrderInv
  <1> QED
    BY <1>5, <1>6, <1>7

LEMMA DropRosterStep ==
  ASSUME IInv, DropRoster, UNCHANGED capacity
  PROVE  IInv'
  <1> USE DEF IInv
  <1>0. /\ LoopFrame /\ UNCHANGED <<rxAlive, needsReorder, visit>>
        /\ dPc = "exit" /\ dPc' = "dropRx" /\ slots' = <<>> /\ OnCancel(Due(Tasks))
    BY DEF DropRoster, LoopFrame
  <1>1. /\ FateTypes' /\ CancelledOnce'
        /\ \A t \in Tasks : fate'[t] = "cancelled" => token'[t]
        /\ \A t \in Tasks : fate'[t] = "none" <=> fate[t] = "none"
    BY <1>0, CancelDue
  <1>2. slots' \in Seq(Slot) /\ DOMAIN slots' = {}
    BY <1>0
  <1>3. UniqueIds(slots') /\ Ids(slots') = {} /\ SlotInv' /\ Sorted(slots')
    BY <1>2 DEF UniqueIds, Ids, SlotInv, Sorted
  <1>4. LockInv' /\ QueueInv' /\ FateInv' /\ CapacityInv'
    BY <1>0, <1>1, <1>2, <1>3, RosterStep DEF LoopFrame
  <1>5. TypeOK'
    BY <1>0, <1>1, <1>2 DEF LoopFrame, clientVars, TypeOK, FateTypes
  <1>6. LoopInv' /\ OrderInv'
    BY <1>0, <1>3 DEF LoopFrame, LoopInv, OrderInv
  <1> QED
    BY <1>4, <1>5, <1>6

LEMMA DropReceiverStep ==
  ASSUME IInv, DropReceiver, UNCHANGED capacity
  PROVE  IInv'
  <1> USE DEF IInv, clientVars
  <1>0. /\ UNCHANGED <<admission, cancelled, lockedBy, active, cPc, want, stopPc>>
        /\ UNCHANGED <<token, slots, needsReorder, visit, cancels>>
        /\ dPc = "dropRx" /\ dPc' = "gone" /\ rxAlive' = FALSE /\ queue' = <<>>
    BY DEF DropReceiver
  <1>1. \A t \in Tasks : fate'[t] = fate[t] \/ (fate[t] = "none" /\ fate'[t] = "dropped"
                           /\ cPc[t] \notin Unbuilt)
    <2>1. \A t \in Tasks, i \in DOMAIN queue : queue[i] = RegisterOf(t) =>
            fate[t] = "none" /\ cPc[t] \notin Unbuilt
      BY DEF QueueInv, Placed, RegisterOf, Unbuilt
    <2>2. \A t \in Tasks :
            fate'[t] = IF \E i \in DOMAIN queue : queue[i] = RegisterOf(t)
                       THEN "dropped" ELSE fate[t]
      BY DEF DropReceiver, RegisterOf
    <2> QED
      BY <2>1, <2>2
  <1>2. fate' \in [Tasks -> {"none", "live", "done", "cancelled", "panicked", "dropped"}]
    BY DEF DropReceiver, TypeOK
  <1>3. slots = <<>> /\ DOMAIN slots = {}
    BY <1>0 DEF LoopInv
  <1>4. TypeOK'
    <2>1. queue' \in Seq(Command) /\ slots' = slots
      BY <1>0
    <2>2. rxAlive' \in BOOLEAN /\ needsReorder' \in BOOLEAN /\ cancelled' \in BOOLEAN
      BY <1>0 DEF TypeOK
    <2> QED
      BY <1>0, <1>2, <2>1, <2>2 DEF TypeOK
  <1>5. LockInv' /\ LoopInv' /\ OrderInv'
    <2>1. LockInv' /\ LoopInv'
      BY <1>0, <1>3 DEF LockInv, LoopInv
    <2> QED
      BY <1>0, <1>3, <2>1 DEF OrderInv, Sorted
  <1>6. QueueInv'
    BY <1>0 DEF QueueInv
  <1>7. FateInv'
    <2>1. \A t \in Tasks : fate'[t] = "cancelled" <=> fate[t] = "cancelled"
      BY <1>1
    <2>2. CancelledOnce'
      BY <1>0, <2>1 DEF FateInv, CancelledOnce
    <2>3. UniqueIds(slots') /\ SlotInv'
      BY <1>0, <1>3 DEF UniqueIds, SlotInv
    <2>4. \A t \in Tasks : cPc'[t] \in Unbuilt => fate'[t] = "none"
      BY <1>0, <1>1 DEF FateInv
    <2>5. \A t \in Tasks : fate'[t] = "cancelled" => token'[t]
      BY <1>0, <2>1 DEF FateInv
    <2> QED
      BY <2>2, <2>3, <2>4, <2>5 DEF FateInv, Unbuilt
  <1>8. CapacityInv'
    <2>1. Len(queue') = 0 /\ Ids(slots') = {}
      BY <1>0, <1>3 DEF Ids
    <2>2. After(0)' = {}
      BY <2>1 DEF After
    <2>3. Cardinality({}) = 0
      BY FS_EmptySet
    <2>4. active' = Cardinality(Holding')
      BY <1>0 DEF CapacityInv, Holding
    <2>5. (\A k \in 0 .. Len(queue) : Cardinality(After(k)) <= capacity)'
      <3>1. \A k \in 0 .. Len(queue') : k = 0
        BY <2>1
      <3>2. Cardinality(After(0)') <= capacity'
        <4>1. capacity' \in Nat /\ 0 <= capacity'
          BY DEF TypeOK
        <4> QED
          BY <2>2, <2>3, <4>1
      <3> QED
        BY <3>1, <3>2
    <2>6. After(Len(queue))' = {}
      BY <2>1 DEF After
    <2> QED
      BY <2>4, <2>5, <2>6 DEF CapacityInv
  <1> QED
    BY <1>4, <1>5, <1>6, <1>7, <1>8

-----------------------------------------------------------------------------
(* Draining a command.                                                     *)

LEMMA PopFacts ==
  ASSUME queue \in Seq(Command), queue # <<>>, queue' = Tail(queue)
  PROVE  /\ queue' \in Seq(Command) /\ Len(queue') = Len(queue) - 1 /\ Len(queue) \in Nat
         /\ Head(queue) = queue[1] /\ Head(queue) \in Command /\ 1 \in DOMAIN queue
         /\ \A i \in DOMAIN queue' :
              /\ i + 1 \in DOMAIN queue /\ queue'[i] = queue[i + 1] /\ i \in Nat \ {0}
  OBVIOUS

(* What is queued behind a command keeps its place. *)
LEMMA QueuePop ==
  ASSUME TypeOK, QueueInv, queue # <<>>, queue' = Tail(queue),
         UNCHANGED <<admission, cPc>>,
         \A t \in Tasks : fate[t] = "none" /\ Head(queue) # RegisterOf(t) => fate'[t] = "none"
  PROVE  QueueInv'
  <1>1. queue \in Seq(Command)
    BY DEF TypeOK
  <1>2. /\ Head(queue) = queue[1] /\ 1 \in DOMAIN queue
        /\ \A i \in DOMAIN queue' :
             i + 1 \in DOMAIN queue /\ queue'[i] = queue[i + 1] /\ i \in Nat \ {0}
    BY <1>1, PopFacts
  <1>3. ASSUME NEW i \in DOMAIN queue', NEW j \in DOMAIN queue' PROVE Ordered(i, j)'
    <2>1. Ordered(i + 1, j + 1)
      BY <1>2 DEF QueueInv
    <2>2. i \in Nat /\ j \in Nat
      BY <1>2
    <2>3. (i + 1 = j + 1 => i = j) /\ (i + 1 < j + 1 => i < j) /\ (j + 1 < i + 1 => j < i)
      BY <2>2
    <2> QED
      BY <1>2, <2>1, <2>3 DEF Ordered
  <1>4. ASSUME NEW i \in DOMAIN queue' PROVE Placed(queue[i])'
    <2>1. Placed(queue[i + 1]) /\ Ordered(i + 1, 1) /\ i + 1 \in DOMAIN queue
      BY <1>2 DEF QueueInv
    <2>2. i + 1 # 1
      BY <1>2
    <2>3. queue[i + 1] \in Command
      BY <1>1, <2>1
    <2>4. CASE queue[i + 1].kind = "Register"
      <3>1. queue[i + 1].id \in Tasks /\ queue[i + 1] = RegisterOf(queue[i + 1].id)
        BY <2>3, <2>4, CommandFacts DEF UnregisterOf, ShutdownCommand
      <3>2. Head(queue) # RegisterOf(queue[i + 1].id)
        BY <1>2, <2>1, <2>2, <2>4, <3>1 DEF Ordered
      <3> QED
        BY <1>2, <2>1, <2>4, <3>1, <3>2 DEF Placed
    <2>5. CASE queue[i + 1].kind # "Register"
      BY <1>2, <2>1, <2>5 DEF Placed
    <2> QED
      BY <2>4, <2>5
  <1> QED
    BY <1>3, <1>4 DEF QueueInv

(* The roster after k commands of the rest is one of those counted before. *)
LEMMA CapacityPop ==
  ASSUME TypeOK, QueueInv, CapacityInv, queue # <<>>, queue' = Tail(queue),
         UNCHANGED <<capacity, admission, active, cPc>>,
         \A t \in Ids(slots') : t \in Ids(slots) \/ Head(queue) = RegisterOf(t),
         \A t \in Tasks : Head(queue) = UnregisterOf(t) => t \notin Ids(slots')
  PROVE  CapacityInv'
  <1>1. queue \in Seq(Command)
    BY DEF TypeOK
  <1>2. /\ Len(queue') = Len(queue) - 1 /\ Len(queue) \in Nat
        /\ Head(queue) = queue[1] /\ 1 \in DOMAIN queue
        /\ \A i \in DOMAIN queue' :
             i + 1 \in DOMAIN queue /\ queue'[i] = queue[i + 1] /\ i \in Nat \ {0}
        /\ DOMAIN queue' = 1 .. Len(queue') /\ DOMAIN queue = 1 .. Len(queue)
    BY <1>1, PopFacts
  <1>3. ASSUME NEW k \in 0 .. Len(queue') PROVE After(k)' \subseteq After(k + 1)
    <2> SUFFICES ASSUME NEW u \in After(k)' PROVE u \in After(k + 1)
      OBVIOUS
    <2>1. /\ u \in Tasks
          /\ u \in Ids(slots') \/ \E i \in 1 .. k : queue'[i] = RegisterOf(u)
          /\ \A i \in 1 .. k : queue'[i] # UnregisterOf(u)
      BY DEF After, RegisterOf, UnregisterOf
    <2>2. \A i \in 1 .. k : /\ i \in DOMAIN queue' /\ queue'[i] = queue[i + 1]
                            /\ i + 1 \in 1 .. k + 1 /\ i + 1 \in DOMAIN queue
      BY <1>2
    <2>3. \A i \in 1 .. k + 1 : i = 1 \/ (i - 1 \in 1 .. k /\ (i - 1) + 1 = i)
      BY <1>2
    <2>4. 1 \in 1 .. k + 1
      BY <1>2
    <2>5. u \in Ids(slots) \/ \E i \in 1 .. k + 1 : queue[i] = RegisterOf(u)
      BY <1>2, <2>1, <2>2, <2>4
    <2>6. queue[1] # UnregisterOf(u)
      <3> SUFFICES ASSUME queue[1] = UnregisterOf(u) PROVE FALSE
        OBVIOUS
      <3>1. u \notin Ids(slots')
        BY <1>2, <2>1
      <3>2. PICK i \in 1 .. k : queue'[i] = RegisterOf(u)
        BY <2>1, <3>1
      <3>3. queue[i + 1] = RegisterOf(u) /\ i + 1 \in DOMAIN queue
        BY <2>2, <3>2
      <3>4. i + 1 < 1
        BY <1>2, <3>3 DEF QueueInv, Ordered, RegisterOf, UnregisterOf
      <3> QED
        BY <3>4
    <2>7. \A i \in 1 .. k + 1 : queue[i] # UnregisterOf(u)
      BY <2>1, <2>2, <2>3, <2>6
    <2> QED
      BY <2>1, <2>5, <2>7 DEF After, RegisterOf, UnregisterOf
  <1>4. \A k \in 0 .. Len(queue') : k + 1 \in 0 .. Len(queue)
    BY <1>2
  <1>5. \A k \in 0 .. Len(queue') : Cardinality(After(k)') <= capacity'
    BY <1>3, <1>4, AfterShrinks
  <1>6. (\A k \in 0 .. Len(queue) : Cardinality(After(k)) <= capacity)'
    BY <1>5
  <1>7. active' = Cardinality(Holding')
    BY DEF CapacityInv, Holding
  <1>8. admission' = "Open" => After(Len(queue))' \subseteq Registered'
    <2>0. Len(queue') \in Nat
      BY <1>2
    <2> PICK m \in Nat : m = Len(queue')
      BY <2>0
    <2>1. m \in 0 .. Len(queue') /\ m + 1 = Len(queue)
      BY <1>2
    <2>2. After(m)' \subseteq After(Len(queue))
      BY <1>3, <2>1
    <2>3. After(Len(queue))' = After(m)'
      BY DEF After
    <2>4. admission' = "Open" => After(Len(queue)) \subseteq Registered
      BY DEF CapacityInv
    <2>5. Registered' = Registered
      BY DEF Registered
    <2> QED
      BY <2>2, <2>3, <2>4, <2>5
  <1> QED
    BY <1>6, <1>7, <1>8 DEF CapacityInv

(* What a drain of a command leaves alone. *)
DrainFrame == UNCHANGED <<capacity, admission, cancelled, clientVars, rxAlive, visit>>

(* The parts of the invariant a drained command is bound to keep, from     *)
(* what it does to the roster and to the fates. *)
LEMMA DrainCommand ==
  ASSUME IInv, DrainFrame, dPc = "drain", queue # <<>>, queue' = Tail(queue),
         dPc' \in {"drain", "exit"}, needsReorder' \in BOOLEAN,
         slots' \in Seq(Slot), UniqueIds(slots'), FateTypes', CancelledOnce', SlotInv',
         needsReorder' \/ Sorted(slots'),
         \A t \in Tasks : fate'[t] = "cancelled" => token'[t],
         \A t \in Tasks : fate[t] = "none" /\ Head(queue) # RegisterOf(t) => fate'[t] = "none",
         \A t \in Ids(slots') : t \in Ids(slots) \/ Head(queue) = RegisterOf(t),
         \A t \in Tasks : Head(queue) = UnregisterOf(t) => t \notin Ids(slots')
  PROVE  IInv'
  <1> USE DEF IInv, DrainFrame, clientVars
  <1>1. queue \in Seq(Command)
    BY DEF TypeOK
  <1>2. queue' \in Seq(Command) /\ Head(queue) = queue[1] /\ 1 \in DOMAIN queue
    BY <1>1, PopFacts
  <1>3. TypeOK'
    BY <1>2 DEF TypeOK, FateTypes
  <1>4. LockInv'
    BY DEF LockInv
  <1>5. LoopInv'
    BY DEF LoopInv
  <1>6. QueueInv'
    BY QueuePop
  <1>7. CapacityInv'
    BY CapacityPop
  <1>8. FateInv'
    <2>1. \A t \in Tasks : cPc[t] \in Unbuilt => Head(queue) # RegisterOf(t)
      BY <1>2 DEF QueueInv, Placed, RegisterOf, Unbuilt
    <2>2. \A t \in Tasks : cPc'[t] \in Unbuilt => fate'[t] = "none"
      BY <2>1 DEF FateInv
    <2> QED
      BY <2>2 DEF FateInv, Unbuilt
  <1>9. OrderInv'
    BY DEF OrderInv
  <1> QED
    BY <1>3, <1>4, <1>5, <1>6, <1>7, <1>8, <1>9

LEMMA DrainRegisterStep ==
  ASSUME IInv, DrainFrame, dPc = "drain", dPc' = dPc, queue # <<>>, queue' = Tail(queue),
         Head(queue).kind = "Register", DrainRegister(Head(queue).id)
  PROVE  IInv'
  <1> USE DEF IInv
  <1> DEFINE t == Head(queue).id
  <1>1. /\ Head(queue) \in Command /\ Head(queue) = queue[1] /\ 1 \in DOMAIN queue
    <2>1. queue \in Seq(Command)
      BY DEF TypeOK
    <2> QED
      BY <2>1, PopFacts
  <1>2. t \in Tasks /\ Head(queue) = RegisterOf(t)
    BY <1>1, CommandFacts DEF UnregisterOf, ShutdownCommand
  <1>3. fate[t] = "none"
    BY <1>1 DEF QueueInv, Placed
  <1>4. slots \in Seq(Slot) /\ UniqueIds(slots)
    BY DEF TypeOK, FateInv
  <1>5. \A u \in Tasks : Head(queue) # UnregisterOf(u)
    BY <1>2 DEF RegisterOf, UnregisterOf
  <1>6. \A i \in DOMAIN slots : slots[i].id # t /\ slots[i].id \in Tasks
    <2>1. \A i \in DOMAIN slots : slots[i] \in Slot
      BY <1>4
    <2>2. \A i \in DOMAIN slots : slots[i].id \in Tasks
      BY <2>1 DEF Slot
    <2> QED
      BY <1>3, <2>2 DEF FateInv, SlotInv
  <1> HIDE DEF t
  <1>7. CASE fate' = [fate EXCEPT ![t] = "panicked"]
             /\ UNCHANGED <<slots, needsReorder, token, cancels>>
    <2>1. fate'[t] = "panicked" /\ \A u \in Tasks \ {t} : fate'[u] = fate[u]
      BY <1>2, <1>7 DEF TypeOK
    <2>2. fate' \in [Tasks -> {"none", "live", "done", "cancelled", "panicked", "dropped"}]
      BY <1>7 DEF TypeOK
    <2>3. FateTypes' /\ needsReorder' \in BOOLEAN
      BY <1>7, <2>2 DEF FateTypes, TypeOK
    <2>4. \A u \in Tasks : fate'[u] = "cancelled" <=> fate[u] = "cancelled"
      BY <1>3, <2>1
    <2>5. CancelledOnce' /\ \A u \in Tasks : fate'[u] = "cancelled" => token'[u]
      BY <1>7, <2>4 DEF FateInv, CancelledOnce
    <2>6. SlotInv'
      BY <1>6, <1>7, <2>1 DEF FateInv, SlotInv
    <2>7. needsReorder' \/ Sorted(slots')
      BY <1>7 DEF OrderInv, Sorted, Before
    <2>8. \A u \in Tasks : fate[u] = "none" /\ Head(queue) # RegisterOf(u) => fate'[u] = "none"
      BY <1>2, <2>1
    <2>9. slots' = slots
      BY <1>7
    <2> QED
      BY <1>4, <1>5, <2>3, <2>5, <2>6, <2>7, <2>8, <2>9, DrainCommand
  <1>8. CASE OnCancel({t}) /\ UNCHANGED <<slots, needsReorder>>
    <2>1. /\ FateTypes' /\ CancelledOnce'
          /\ \A u \in Tasks : fate'[u] = "cancelled" => token'[u]
          /\ \A u \in Tasks : fate'[u] = IF u \in {t} THEN "cancelled" ELSE fate[u]
      BY <1>2, <1>3, <1>8, OnCancelFacts
    <2>2. SlotInv'
      BY <1>6, <1>8, <2>1 DEF FateInv, SlotInv
    <2>3. (needsReorder' \/ Sorted(slots')) /\ needsReorder' \in BOOLEAN
      BY <1>8 DEF OrderInv, Sorted, Before, TypeOK
    <2>4. \A u \in Tasks : fate[u] = "none" /\ Head(queue) # RegisterOf(u) => fate'[u] = "none"
      BY <1>2, <2>1
    <2>5. slots' = slots
      BY <1>8
    <2> QED
      BY <1>4, <1>5, <2>1, <2>2, <2>3, <2>4, <2>5, DrainCommand
  <1>9. CASE /\ slots' = Append(slots, [id |-> t, priority |-> 0, terminal |-> FALSE])
             /\ fate' = [fate EXCEPT ![t] = "live"]
             /\ needsReorder' = TRUE
             /\ UNCHANGED <<token, cancels>>
    <2> DEFINE a == [id |-> t, priority |-> 0, terminal |-> FALSE]
    <2>1. fate'[t] = "live" /\ \A u \in Tasks \ {t} : fate'[u] = fate[u]
      BY <1>2, <1>9 DEF TypeOK
    <2>2. fate' \in [Tasks -> {"none", "live", "done", "cancelled", "panicked", "dropped"}]
      BY <1>9 DEF TypeOK
    <2>3. FateTypes' /\ needsReorder' \in BOOLEAN
      BY <1>9, <2>2 DEF FateTypes, TypeOK
    <2>4. \A u \in Tasks : fate'[u] = "cancelled" <=> fate[u] = "cancelled"
      BY <1>3, <2>1
    <2>5. CancelledOnce' /\ \A u \in Tasks : fate'[u] = "cancelled" => token'[u]
      BY <1>9, <2>4 DEF FateInv, CancelledOnce
    <2>6. a \in Slot /\ a.id = t
      BY <1>2, DispatcherAssumption DEF Slot, Priorities
    <2> HIDE DEF a
    <2>7. /\ slots' \in Seq(Slot)
          /\ \A i \in DOMAIN slots' : i \in DOMAIN slots \/ i = Len(slots) + 1
          /\ \A i \in DOMAIN slots : slots'[i] = slots[i]
          /\ slots'[Len(slots) + 1] = a
      <3>1. slots' = Append(slots, a)
        BY <1>9 DEF a
      <3> QED
        BY <1>4, <2>6, <3>1
    <2>8. UniqueIds(slots')
      BY <1>4, <1>6, <2>6, <2>7 DEF UniqueIds
    <2>9. SlotInv'
      BY <1>6, <2>1, <2>6, <2>7 DEF FateInv, SlotInv
    <2>10. \A u \in Ids(slots') : u \in Ids(slots) \/ Head(queue) = RegisterOf(u)
      BY <1>2, <2>6, <2>7 DEF Ids
    <2>11. \A u \in Tasks : fate[u] = "none" /\ Head(queue) # RegisterOf(u) => fate'[u] = "none"
      BY <1>2, <2>1
    <2>12. needsReorder' \/ Sorted(slots')
      BY <1>9
    <2> QED
      BY <1>5, <2>3, <2>5, <2>7, <2>8, <2>9, <2>10, <2>11, <2>12, DrainCommand
  <1> QED
    BY <1>7, <1>8, <1>9 DEF DrainRegister, t

LEMMA DrainUnregisterStep ==
  ASSUME IInv, DrainFrame, dPc = "drain", dPc' = dPc, queue # <<>>, queue' = Tail(queue),
         Head(queue).kind = "Unregister", DrainUnregister(Head(queue).id)
  PROVE  IInv'
  <1> USE DEF IInv
  <1> DEFINE S == {Head(queue).id}
             left == RemoveTerminal(Ended(slots, Due(S)))
  <1>0. /\ slots' = left /\ OnCancel(Due(S))
        /\ needsReorder' = (needsReorder \/ Len(left) < Len(slots))
    BY DEF DrainUnregister
  <1>1. \A u \in Tasks : Head(queue) = UnregisterOf(u) => u \in S
    BY DEF UnregisterOf
  <1> HIDE DEF S
  <1>2. /\ FateTypes' /\ CancelledOnce'
        /\ \A t \in Tasks : fate'[t] = "cancelled" => token'[t]
        /\ \A t \in Tasks : fate'[t] = "none" <=> fate[t] = "none"
        /\ left \in Seq(Slot) /\ UniqueIds(left) /\ Ids(left) \subseteq Ids(slots) \ S
        /\ \A n \in DOMAIN left : fate'[left[n].id] = "live"
        /\ Sorted(slots) => Sorted(left)
    BY <1>0, CancelAndRemove
  <1> HIDE DEF left
  <1>3. SlotInv'
    BY <1>0, <1>2 DEF SlotInv
  <1>4. needsReorder' \in BOOLEAN /\ (needsReorder' \/ Sorted(slots'))
    BY <1>0, <1>2 DEF OrderInv, TypeOK
  <1>5. /\ \A t \in Ids(slots') : t \in Ids(slots)
        /\ \A t \in Tasks : Head(queue) = UnregisterOf(t) => t \notin Ids(slots')
    BY <1>0, <1>1, <1>2
  <1> QED
    BY <1>0, <1>2, <1>3, <1>4, <1>5, DrainCommand

LEMMA DrainShutdownStep ==
  ASSUME IInv, DrainFrame, dPc = "drain", dPc' = "exit", queue # <<>>, queue' = Tail(queue),
         Head(queue).kind = "Shutdown", CancelAll, UNCHANGED needsReorder
  PROVE  IInv'
  <1> USE DEF IInv
  <1>1. slots' = Ended(slots, Due(Tasks)) /\ OnCancel(Due(Tasks))
    BY DEF CancelAll
  <1>2. /\ FateTypes' /\ CancelledOnce'
        /\ \A t \in Tasks : fate'[t] = "cancelled" => token'[t]
        /\ \A t \in Tasks : fate'[t] = "none" <=> fate[t] = "none"
        /\ slots' \in Seq(Slot) /\ UniqueIds(slots') /\ DOMAIN slots' = DOMAIN slots
        /\ \A i \in DOMAIN slots :
             /\ slots'[i].id = slots[i].id
             /\ fate'[slots'[i].id] # "none"
             /\ ~slots'[i].terminal => fate'[slots'[i].id] = "live"
        /\ Sorted(slots) => Sorted(slots')
    BY <1>1, CancelDue
  <1>3. SlotInv'
    BY <1>2 DEF SlotInv
  <1>4. \A t \in Ids(slots') : t \in Ids(slots)
    BY <1>2 DEF Ids
  <1>5. needsReorder' \in BOOLEAN /\ (needsReorder' \/ Sorted(slots'))
    BY <1>2 DEF OrderInv, TypeOK
  <1>6. \A t \in Tasks : Head(queue) # UnregisterOf(t)
    BY DEF UnregisterOf
  <1> QED
    BY <1>2, <1>3, <1>4, <1>5, <1>6, DrainCommand

LEMMA DrainStep ==
  ASSUME IInv, Drain, UNCHANGED capacity
  PROVE  IInv'
  <1>0. DrainFrame /\ dPc = "drain"
    BY DEF Drain, DrainFrame
  <1>1. CASE /\ dPc' = "check"
             /\ UNCHANGED <<queue, slots, needsReorder, token, cancels, fate>>
    <2> USE <1>0, <1>1 DEF IInv, DrainFrame, clientVars
    <2>1. TypeOK' /\ LockInv'
      BY DEF TypeOK, LockInv
    <2>2. LoopInv' /\ OrderInv'
      BY DEF LoopInv, OrderInv, Sorted, Before
    <2>3. QueueInv'
      BY DEF QueueInv, Ordered, Placed
    <2>4. FateInv'
      BY DEF FateInv, SlotInv, UniqueIds, CancelledOnce, Unbuilt
    <2>5. CapacityInv'
      BY DEF CapacityInv, After, Ids, Holding, Registered
    <2> QED
      BY <2>1, <2>2, <2>3, <2>4, <2>5
  <1>2. CASE /\ queue # <<>> /\ queue' = Tail(queue)
             /\ Head(queue).kind = "Register" /\ DrainRegister(Head(queue).id) /\ dPc' = dPc
    BY <1>0, <1>2, DrainRegisterStep
  <1>3. CASE /\ queue # <<>> /\ queue' = Tail(queue)
             /\ Head(queue).kind = "Unregister" /\ DrainUnregister(Head(queue).id) /\ dPc' = dPc
    BY <1>0, <1>3, DrainUnregisterStep
  <1>4. CASE /\ queue # <<>> /\ queue' = Tail(queue)
             /\ Head(queue).kind = "Shutdown" /\ CancelAll /\ dPc' = "exit"
             /\ UNCHANGED needsReorder
    BY <1>0, <1>4, DrainShutdownStep
  <1> QED
    BY <1>1, <1>2, <1>3, <1>4 DEF Drain

-----------------------------------------------------------------------------
LEMMA InitIInv == Init => IInv
  <1> SUFFICES ASSUME Init PROVE IInv
    OBVIOUS
  <1> USE DispatcherAssumption DEF Init
  <1>1. TypeOK
    <2>1. queue \in Seq(Command) /\ slots \in Seq(Slot)
      OBVIOUS
    <2>2. /\ capacity \in 1 .. MaxCapacity /\ active \in 0 .. capacity
          /\ visit \in 1 .. NTasks + 1 /\ cancels \in [Tasks -> Nat]
      OBVIOUS
    <2>3. /\ token \in [Tasks -> BOOLEAN] /\ cancelled \in BOOLEAN
          /\ rxAlive \in BOOLEAN /\ needsReorder \in BOOLEAN
      OBVIOUS
    <2>4. want \in [Tasks -> Priorities]
      BY DEF Priorities
    <2> QED
      BY <2>1, <2>2, <2>3, <2>4 DEF TypeOK
  <1>2. LockInv /\ LoopInv /\ QueueInv
    BY DEF LockInv, LoopInv, QueueInv, Tasks
  <1>3. FateInv /\ OrderInv
    BY DEF FateInv, SlotInv, UniqueIds, CancelledOnce, OrderInv, Sorted
  <1>4. CapacityInv
    <2>1. Holding = {} /\ Cardinality({}) = 0
      BY FS_EmptySet DEF Holding
    <2>2. Len(queue) = 0 /\ Ids(slots) = {}
      BY DEF Ids
    <2>3. After(0) = {}
      BY <2>2 DEF After
    <2>4. \A k \in 0 .. Len(queue) : k = 0
      BY <2>2
    <2>5. 0 <= capacity
      OBVIOUS
    <2> QED
      BY <2>1, <2>2, <2>3, <2>4, <2>5 DEF CapacityInv
  <1> QED
    BY <1>1, <1>2, <1>3, <1>4 DEF IInv

LEMMA StepIInv == IInv /\ [Next]_vars => IInv'
  <1> SUFFICES ASSUME IInv, [Next]_vars PROVE IInv'
    OBVIOUS
  <1>1. CASE Next
    <2>0. UNCHANGED capacity
      BY <1>1 DEF Next
    <2>1. CASE ClientStep
      BY <2>0, <2>1, ClientStepIInv DEF ClientStep
    <2>2. CASE Shutdown \/ ShutdownCancel \/ CancelDispatcher
      BY <2>0, <2>2, StopStepIInv
    <2>3. CASE Loop
      BY <2>0, <2>3, DrainStep, CheckCancelStep, BeginPassStep, VisitStep, EndPassStep,
        DropRosterStep, DropReceiverStep DEF Loop
    <2> QED
      BY <1>1, <2>1, <2>2, <2>3 DEF Next
  <1>2. CASE UNCHANGED vars
    <2> USE <1>2 DEF IInv, vars, clientVars, loopVars
    <2>1. TypeOK' /\ LockInv'
      BY DEF TypeOK, LockInv
    <2>2. LoopInv' /\ OrderInv'
      BY DEF LoopInv, OrderInv, Sorted, Before
    <2>3. QueueInv'
      BY DEF QueueInv, Ordered, Placed
    <2>4. FateInv'
      BY DEF FateInv, SlotInv, UniqueIds, CancelledOnce, Unbuilt
    <2>5. CapacityInv'
      BY DEF CapacityInv, After, Ids, Holding, Registered
    <2> QED
      BY <2>1, <2>2, <2>3, <2>4, <2>5
  <1> QED
    BY <1>1, <1>2

(* The inductive invariant holds throughout. *)
THEOREM DispatcherInvariant == Spec => []IInv
  BY InitIInv, StepIInv, PTL DEF Spec

(* Every variable keeps its type: the count of reservations stays between  *)
(* zero and the capacity, and a visit stays within the roster.             *)
THEOREM DispatcherTypes == Spec => []TypeOK
  <1>1. IInv => TypeOK
    BY DEF IInv
  <1> QED
    BY <1>1, DispatcherInvariant, PTL

(* The roster never outgrows the capacity, although a handle returns its   *)
(* reservation before the dispatcher has removed its task.                 *)
THEOREM DispatcherRosterWithinCapacity == Spec => []RosterWithinCapacity
  <1>1. IInv => RosterWithinCapacity
    <2> SUFFICES ASSUME IInv PROVE Len(slots) <= capacity
      BY DEF RosterWithinCapacity
    <2>1. slots \in Seq(Slot) /\ UniqueIds(slots) /\ queue \in Seq(Command)
      BY DEF IInv, TypeOK, FateInv
    <2>2. Ids(slots) \subseteq Tasks /\ Cardinality(Ids(slots)) = Len(slots)
      BY <2>1, RosterCount
    <2>3. After(0) = Ids(slots)
      BY <2>2 DEF After
    <2>4. Cardinality(After(0)) <= capacity
      BY <2>1 DEF IInv, CapacityInv
    <2> QED
      BY <2>2, <2>3, <2>4
  <1> QED
    BY <1>1, DispatcherInvariant, PTL

(* on_cancel is called on a task at most once and only on one whose fate   *)
(* is to be cancelled, whichever of its causes come together.              *)
THEOREM DispatcherCancelledOnce == Spec => []CancelledOnce
  <1>1. IInv => CancelledOnce
    BY DEF IInv, FateInv
  <1> QED
    BY <1>1, DispatcherInvariant, PTL

(* The admission lock keeps every Register ahead of the Shutdown.          *)
THEOREM DispatcherNothingBehindShutdown == Spec => []NothingBehindShutdown
  <1>1. IInv => NothingBehindShutdown
    BY DEF IInv, QueueInv, Ordered, NothingBehindShutdown
  <1> QED
    BY <1>1, DispatcherInvariant, PTL

(* Every pass visits its tasks by priority and then by age: needsReorder   *)
(* is set wherever the roster may have left its order.                     *)
THEOREM DispatcherVisitedByPriority == Spec => []VisitedByPriority
  <1>1. IInv => VisitedByPriority
    BY DEF IInv, OrderInv, Sorted, VisitedByPriority
  <1> QED
    BY <1>1, DispatcherInvariant, PTL
=============================================================================
