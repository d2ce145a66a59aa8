---------------------------- MODULE PlatformProofs ----------------------------
(***************************************************************************)
(* Proofs about the two primitives of kithara-platform, the cancel tree    *)
(* and the thread gate.                                                    *)
(*                                                                         *)
(* CancelTree, for any number of nodes, threads and groups.  A cancelled   *)
(* node's live child is always on some thread's way: this needs that a     *)
(* node keeps all its children for as long as it is alive (KidsKept), and  *)
(* that what a thread works on is already flagged (Held).                  *)
(*                                                                         *)
(* WakeGate, for any number of signallers, posters and edges.  The waiter  *)
(* sets WAITING before it looks at the edge: a signal after the look finds *)
(* the flag, so the inductive invariant speaks of the waiter from the look *)
(* on, not only of the parked one.                                         *)
(***************************************************************************)
EXTENDS CancelTree, WakeGate, TLAPS

(* Parents are derived before their children, and only they list them. *)
Shape ==
  /\ \A n \in 2 .. count : parent[n] \in 1 .. count
  /\ \A p \in Nodes : \A n \in children[p] : n \in 2 .. count /\ parent[n] = p
  /\ \A th \in Threads : pending[th] \subseteq Derived /\ current[th] \in 0 .. count

(* A thread in the middle of a node has flagged it. *)
Held ==
  \A th \in Threads :
    /\ phase[th] = "idle" <=> current[th] = 0
    /\ current[th] # 0 => flag[current[th]]

(* A node that is alive still lists every child derived from it. *)
KidsKept == \A n \in 2 .. count : ~flag[parent[n]] => n \in children[parent[n]]

(* What a thread is to cancel was asked for, or hangs under a cancelled node. *)
PendingJustified ==
  \A th \in Threads : \A n \in pending[th] : n \in asked \/ (n # 1 /\ flag[parent[n]])

(* Slots are where their group put them, and fire only under a cancelled source. *)
SlotsJustified ==
  /\ \A n \in Nodes : fired[n] => flag[n]
  /\ \A g \in Groups :
       /\ gPc[g] = "idle" => sources[g] = {} /\ ~ran[g]
       /\ unregistered[g] \subseteq sources[g] /\ sources[g] \subseteq Derived
       /\ \A n \in Nodes : g \in wakers[n] => n \in sources[g]
       /\ gPc[g] = "call" => \E n \in sources[g] : flag[n]
       /\ \A th \in Threads : g \in firing[th] => \E n \in sources[g] : flag[n]

(* The inductive invariant. *)
TreeInv ==
  /\ TypeOK /\ Shape /\ Held /\ KidsKept /\ ChildNotMissed
  /\ PendingJustified /\ OnlyDownward /\ SlotsJustified /\ CallbackOnce

LEMMA TreeInitInv == Init => TreeInv
  <1> SUFFICES ASSUME Init PROVE TreeInv
    OBVIOUS
  <1> USE CancelTreeAssumption DEF Init, Nodes, Derived
  <1>1. TypeOK
    BY DEF TypeOK
  <1>2. Shape /\ Held /\ KidsKept /\ ChildNotMissed
    BY DEF Shape, Held, KidsKept, ChildNotMissed
  <1>3. PendingJustified /\ OnlyDownward /\ SlotsJustified /\ CallbackOnce
    BY DEF PendingJustified, OnlyDownward, SlotsJustified, CallbackOnce
  <1> QED
    BY <1>1, <1>2, <1>3 DEF TreeInv

(* Deriving a child keeps the invariant. *)
LEMMA ChildStep ==
  ASSUME TreeInv, NEW p \in Derived, Child(p)
  PROVE  TreeInv'
  <1> USE CancelTreeAssumption DEF TreeInv, Nodes, Derived
  <1>a. count \in Nat /\ count' = count + 1 /\ count' \in Nodes /\ p \in 1 .. count /\ p # count'
    BY DEF Child, TypeOK
  <1>b. /\ parent' = [parent EXCEPT ![count'] = p]
        /\ flag' = [flag EXCEPT ![count'] = flag[p]]
        /\ fired' = [fired EXCEPT ![count'] = flag[p]]
        /\ children' = [children EXCEPT ![p] = @ \cup {count'}]
        /\ UNCHANGED <<wakers, pending, current, phase, firing, gPc, sources, unregistered, ran,
                       calls, asked>>
    BY DEF Child, threadVars, groupVars
  <1>c. TypeOK'
    BY <1>a, <1>b DEF TypeOK
  <1>d. \A n \in 2 .. count' : n = count' \/ n \in 2 .. count
    BY <1>a
  <1>d1. \A n \in 1 .. count : parent'[n] = parent[n] /\ flag'[n] = flag[n]
    BY <1>a, <1>b DEF TypeOK
  <1>d2. parent'[count'] = p /\ flag'[count'] = flag[p]
    BY <1>a, <1>b DEF TypeOK
  <1>e. Shape'
    <2>1. \A n \in 2 .. count' : parent'[n] \in 1 .. count'
      BY <1>a, <1>d, <1>d1, <1>d2 DEF Shape
    <2>2. \A q \in Nodes : \A n \in children'[q] : n \in 2 .. count' /\ parent'[n] = q
      BY <1>a, <1>b, <1>d1, <1>d2 DEF Shape, TypeOK
    <2>3. \A th \in Threads : pending'[th] \subseteq 1 .. count' /\ current'[th] \in 0 .. count'
      BY <1>a, <1>b DEF Shape, TypeOK
    <2> QED
      BY <2>1, <2>2, <2>3 DEF Shape
  <1>f. Held'
    BY <1>a, <1>b, <1>d1 DEF Held, Shape, TypeOK
  <1>g. KidsKept'
    BY <1>a, <1>b, <1>d, <1>d1, <1>d2 DEF KidsKept, Shape, TypeOK
  <1>h. ChildNotMissed'
    BY <1>a, <1>b, <1>d, <1>d1, <1>d2 DEF ChildNotMissed, Shape, TypeOK
  <1>i. PendingJustified'
    BY <1>a, <1>b, <1>d1 DEF PendingJustified, Shape, TypeOK
  <1>j. OnlyDownward'
    BY <1>a, <1>b, <1>d1, <1>d2 DEF OnlyDownward, Shape, TypeOK
  <1>k. SlotsJustified'
    BY <1>a, <1>b, <1>d1, <1>d2 DEF SlotsJustified, TypeOK
  <1>l. CallbackOnce'
    BY <1>a, <1>b, <1>d1 DEF CallbackOnce, SlotsJustified, TypeOK
  <1> QED
    BY <1>c, <1>e, <1>f, <1>g, <1>h, <1>i, <1>j, <1>k, <1>l

(* A thread begins to cancel. *)
LEMMA CancelStep ==
  ASSUME TreeInv, NEW th \in Threads, NEW n \in Derived, Cancel(th, n)
  PROVE  TreeInv'
  <1> USE CancelTreeAssumption DEF TreeInv, Nodes, Derived
  <1>a. /\ phase[th] = "idle" /\ pending[th] = {}
        /\ pending' = [pending EXCEPT ![th] = {n}]
        /\ asked' = asked \cup {n}
        /\ UNCHANGED <<count, parent, flag, children, fired, wakers, current, phase, firing, gPc,
                       sources, unregistered, ran, calls>>
    BY DEF Cancel, tree, groupVars
  <1>b. TypeOK'
    BY <1>a DEF TypeOK
  <1>c. Shape' /\ Held' /\ KidsKept'
    BY <1>a DEF Shape, Held, KidsKept, TypeOK
  <1>d. ChildNotMissed'
    BY <1>a DEF ChildNotMissed, TypeOK
  <1>e. PendingJustified' /\ OnlyDownward'
    BY <1>a DEF PendingJustified, OnlyDownward, TypeOK
  <1>f. SlotsJustified' /\ CallbackOnce'
    BY <1>a DEF SlotsJustified, CallbackOnce
  <1> QED
    BY <1>b, <1>c, <1>d, <1>e, <1>f

(* A thread comes to a node. *)
LEMMA SwapStep ==
  ASSUME TreeInv, NEW th \in Threads, Swap(th)
  PROVE  TreeInv'
  <1> USE CancelTreeAssumption DEF TreeInv, Nodes, Derived
  <1>1. PICK n \in pending[th] :
          /\ pending' = [pending EXCEPT ![th] = @ \ {n}]
          /\ flag' = [flag EXCEPT ![n] = TRUE]
          /\ current' = [current EXCEPT ![th] = IF flag[n] THEN 0 ELSE n]
          /\ phase' = [phase EXCEPT ![th] = IF flag[n] THEN "idle" ELSE "drain"]
    BY DEF Swap
  <1>a. /\ phase[th] = "idle" /\ current[th] = 0 /\ n \in 1 .. count
        /\ UNCHANGED <<count, parent, children, fired, wakers, firing, gPc, sources, unregistered,
                       ran, calls, asked>>
    BY DEF Swap, groupVars, Held, Shape
  <1>b. TypeOK'
    BY <1>1, <1>a DEF TypeOK
  <1>m. \A k \in Nodes : flag'[k] = (flag[k] \/ k = n)
    BY <1>1, <1>a DEF TypeOK
  <1>c. Shape'
    BY <1>1, <1>a DEF Shape, TypeOK
  <1>d. Held'
    BY <1>1, <1>a, <1>m DEF Held, Shape, TypeOK
  <1>e. KidsKept'
    BY <1>a, <1>m DEF KidsKept, Shape, TypeOK
  <1>f. ChildNotMissed'
    <2> SUFFICES ASSUME NEW k \in 2 .. count, flag'[parent[k]], ~flag'[k]
                 PROVE  \E t \in Threads :
                          \/ k \in pending'[t]
                          \/ current'[t] = parent[k] /\ k \in children[parent[k]]
      BY <1>a DEF ChildNotMissed
    <2>0. parent[k] \in 1 .. count /\ k \in Nodes /\ parent[k] \in Nodes
      BY DEF Shape, TypeOK
    <2>1. k # n /\ ~flag[k]
      BY <1>m, <2>0
    <2>2. CASE flag[parent[k]]
      <3>1. PICK t \in Threads : \/ k \in pending[t]
                                 \/ current[t] = parent[k] /\ k \in children[parent[k]]
        BY <2>1, <2>2 DEF ChildNotMissed
      <3>2. k \in pending[t] => k \in pending'[t]
        BY <1>1, <2>1 DEF TypeOK
      <3>3. current[t] = parent[k] => t # th
        BY <1>a, <2>0
      <3> QED
        BY <1>1, <3>1, <3>2, <3>3 DEF TypeOK
    <2>3. CASE ~flag[parent[k]]
      <3>1. parent[k] = n
        BY <1>m, <2>0, <2>3
      <3>2. k \in children[parent[k]]
        BY <2>3 DEF KidsKept
      <3>3. current'[th] = n
        BY <1>1, <2>3, <3>1 DEF TypeOK
      <3> QED
        BY <3>1, <3>2, <3>3
    <2> QED
      BY <2>2, <2>3
  <1>g. PendingJustified'
    BY <1>1, <1>a, <1>m DEF PendingJustified, Shape, TypeOK
  <1>h. OnlyDownward'
    BY <1>1, <1>a, <1>m DEF OnlyDownward, PendingJustified, Shape, TypeOK
  <1>i. SlotsJustified'
    BY <1>a, <1>m DEF SlotsJustified, TypeOK
  <1>j. CallbackOnce'
    BY <1>a, <1>m DEF CallbackOnce, SlotsJustified, TypeOK
  <1> QED
    BY <1>b, <1>c, <1>d, <1>e, <1>f, <1>g, <1>h, <1>i, <1>j

(* A thread drains the wakers of the node it flagged. *)
LEMMA DrainStep ==
  ASSUME TreeInv, NEW th \in Threads, Drain(th)
  PROVE  TreeInv'
  <1> USE CancelTreeAssumption DEF TreeInv, Nodes, Derived
  <1>a. /\ fired' = [fired EXCEPT ![current[th]] = TRUE]
        /\ firing' = [firing EXCEPT ![th] = wakers[current[th]]]
        /\ wakers' = [wakers EXCEPT ![current[th]] = {}]
        /\ phase' = [phase EXCEPT ![th] = "fire"]
        /\ UNCHANGED <<count, parent, flag, children, pending, current, gPc, sources,
                       unregistered, ran, calls, asked>>
    BY DEF Drain, groupVars
  <1>b. phase[th] = "drain" /\ current[th] \in Nodes /\ flag[current[th]]
    BY DEF Drain, Held, Shape, TypeOK
  <1>c. TypeOK'
    BY <1>a, <1>b DEF TypeOK
  <1>d. Shape' /\ Held' /\ KidsKept'
    BY <1>a, <1>b DEF Shape, Held, KidsKept, TypeOK
  <1>e. ChildNotMissed' /\ PendingJustified' /\ OnlyDownward'
    BY <1>a DEF ChildNotMissed, PendingJustified, OnlyDownward
  <1>f. SlotsJustified'
    BY <1>a, <1>b DEF SlotsJustified, TypeOK
  <1>g. CallbackOnce'
    BY <1>a DEF CallbackOnce
  <1> QED
    BY <1>c, <1>d, <1>e, <1>f, <1>g

(* Running a callback whose group has a cancelled source. *)
LEMMA RunOnce ==
  ASSUME TypeOK, CallbackOnce, NEW g \in Groups, Run(g),
         \E n \in sources[g] : flag[n], UNCHANGED <<sources, flag>>
  PROVE  /\ CallbackOnce'
         /\ ran' \in [Groups -> BOOLEAN] /\ calls' \in [Groups -> 0 .. 1]
         /\ \A h \in Groups : h # g => ran'[h] = ran[h]
  BY DEF TypeOK, CallbackOnce, Run

(* A thread fires a slot it drained. *)
LEMMA FireStep ==
  ASSUME TreeInv, NEW th \in Threads, Fire(th)
  PROVE  TreeInv'
  <1> USE CancelTreeAssumption DEF TreeInv, Nodes, Derived
  <1>1. PICK g \in firing[th] : Run(g) /\ firing' = [firing EXCEPT ![th] = @ \ {g}]
    BY DEF Fire
  <1>a. UNCHANGED <<count, parent, flag, children, fired, wakers, pending, current, phase, gPc,
                    sources, unregistered, asked>>
    BY DEF Fire, tree
  <1>b. g \in Groups /\ \E n \in sources[g] : flag[n]
    BY DEF SlotsJustified, TypeOK
  <1>c. /\ CallbackOnce'
        /\ ran' \in [Groups -> BOOLEAN] /\ calls' \in [Groups -> 0 .. 1]
        /\ \A h \in Groups : h # g => ran'[h] = ran[h]
    BY <1>1, <1>a, <1>b, RunOnce
  <1>d. TypeOK'
    BY <1>1, <1>a, <1>c DEF TypeOK
  <1>e. Shape' /\ Held' /\ KidsKept'
    BY <1>a DEF Shape, Held, KidsKept
  <1>f. ChildNotMissed' /\ PendingJustified' /\ OnlyDownward'
    BY <1>a DEF ChildNotMissed, PendingJustified, OnlyDownward
  <1>g. SlotsJustified'
    <2>1. gPc[g] # "idle"
      BY <1>b DEF SlotsJustified
    <2> QED
      BY <1>1, <1>a, <1>b, <1>c, <2>1 DEF SlotsJustified, TypeOK
  <1> QED
    BY <1>c, <1>d, <1>e, <1>f, <1>g

(* A thread takes the children of the node it is done with. *)
LEMMA SnapshotStep ==
  ASSUME TreeInv, NEW th \in Threads, Snapshot(th)
  PROVE  TreeInv'
  <1> USE CancelTreeAssumption DEF TreeInv, Nodes, Derived
  <1>a. /\ pending' = [pending EXCEPT ![th] = @ \cup children[current[th]]]
        /\ children' = [children EXCEPT ![current[th]] = {}]
        /\ phase' = [phase EXCEPT ![th] = "idle"]
        /\ current' = [current EXCEPT ![th] = 0]
        /\ UNCHANGED <<count, parent, flag, fired, wakers, firing, gPc, sources, unregistered,
                       ran, calls, asked>>
    BY DEF Snapshot, groupVars
  <1>b. current[th] \in Nodes /\ flag[current[th]]
    BY DEF Snapshot, Held, Shape, TypeOK
  <1>c. TypeOK'
    BY <1>a, <1>b DEF TypeOK
  <1>d. Shape'
    BY <1>a, <1>b DEF Shape, TypeOK
  <1>e. Held'
    BY <1>a DEF Held, TypeOK
  <1>f. KidsKept'
    BY <1>a, <1>b DEF KidsKept, Shape, TypeOK
  <1>g. ChildNotMissed'
    <2> SUFFICES ASSUME NEW k \in 2 .. count, flag[parent[k]], ~flag[k]
                 PROVE  \E t \in Threads :
                          \/ k \in pending'[t]
                          \/ current'[t] = parent[k] /\ k \in children'[parent[k]]
      BY <1>a DEF ChildNotMissed
    <2>0. parent[k] \in Nodes
      BY DEF Shape, TypeOK
    <2>1. PICK t \in Threads : \/ k \in pending[t]
                               \/ current[t] = parent[k] /\ k \in children[parent[k]]
      BY DEF ChildNotMissed
    <2>2. CASE k \in pending[t]
      BY <1>a, <2>2 DEF TypeOK
    <2>3. CASE current[t] = parent[k] /\ k \in children[parent[k]]
      <3>1. CASE parent[k] = current[th]
        <4>1. k \in pending'[th]
          BY <1>a, <2>3, <3>1 DEF TypeOK
        <4> QED
          BY <4>1
      <3>2. CASE parent[k] # current[th]
        <4>1. t # th
          BY <2>3, <3>2
        <4>2. current'[t] = parent[k] /\ k \in children'[parent[k]]
          BY <1>a, <1>b, <2>0, <2>3, <3>2, <4>1 DEF TypeOK
        <4> QED
          BY <4>2
      <3> QED
        BY <3>1, <3>2
    <2> QED
      BY <2>1, <2>2, <2>3
  <1>h. PendingJustified'
    BY <1>a, <1>b DEF PendingJustified, Shape, TypeOK
  <1>i. OnlyDownward' /\ SlotsJustified' /\ CallbackOnce'
    BY <1>a DEF OnlyDownward, SlotsJustified, CallbackOnce
  <1> QED
    BY <1>c, <1>d, <1>e, <1>f, <1>g, <1>h, <1>i

(* A group's own steps. *)
LEMMA GroupStep ==
  ASSUME TreeInv, NEW g \in Groups, Group(g)
  PROVE  TreeInv'
  <1> USE CancelTreeAssumption DEF TreeInv, Nodes, Derived
  <1>a. UNCHANGED <<count, parent, flag, children, fired, pending, current, phase, firing, asked>>
    BY DEF Group, OnCancel, Register, FireAtOnce, DropGuards, tree, threadVars
  <1>b. Shape' /\ Held' /\ KidsKept'
    BY <1>a DEF Shape, Held, KidsKept
  <1>c. ChildNotMissed' /\ PendingJustified' /\ OnlyDownward'
    BY <1>a DEF ChildNotMissed, PendingJustified, OnlyDownward
  <1>d. TypeOK' /\ SlotsJustified' /\ CallbackOnce'
    <2>1. CASE OnCancel(g)
      <3>1. PICK a \in Derived, b \in Derived :
              /\ sources' = [sources EXCEPT ![g] = {a, b}]
              /\ unregistered' = [unregistered EXCEPT ![g] = {a, b}]
        BY <2>1 DEF OnCancel
      <3>2. /\ gPc[g] = "idle" /\ gPc' = [gPc EXCEPT ![g] = "registering"]
            /\ UNCHANGED <<wakers, ran, calls>>
        BY <2>1 DEF OnCancel, tree
      <3>3. a \in Nodes /\ b \in Nodes
        BY DEF TypeOK
      <3>4. TypeOK'
        BY <1>a, <3>1, <3>2, <3>3 DEF TypeOK
      <3>5. SlotsJustified'
        BY <1>a, <3>1, <3>2 DEF SlotsJustified, TypeOK
      <3>6. CallbackOnce'
        BY <1>a, <3>1, <3>2 DEF CallbackOnce, SlotsJustified, TypeOK
      <3> QED
        BY <3>4, <3>5, <3>6
    <2>2. CASE Register(g)
      <3>0. gPc[g] = "registering" /\ UNCHANGED <<sources, ran, calls>>
        BY <2>2 DEF Register
      <3>1. CallbackOnce'
        BY <1>a, <3>0 DEF CallbackOnce
      <3>2. CASE gPc' = [gPc EXCEPT ![g] = "registered"] /\ UNCHANGED <<wakers, unregistered>>
        BY <1>a, <3>0, <3>1, <3>2 DEF SlotsJustified, TypeOK
      <3>3. ASSUME NEW n \in unregistered[g],
                   unregistered' = [unregistered EXCEPT ![g] = @ \ {n}],
                   wakers' = IF fired[n] THEN wakers ELSE [wakers EXCEPT ![n] = @ \cup {g}],
                   gPc' = [gPc EXCEPT ![g] = IF fired[n] THEN "call" ELSE @]
            PROVE  TypeOK' /\ SlotsJustified'
        <4>1. n \in Nodes /\ n \in sources[g] /\ (fired[n] => flag[n])
          BY DEF SlotsJustified, TypeOK
        <4>2. TypeOK'
          BY <1>a, <3>0, <3>3, <4>1 DEF TypeOK
        <4>3. SlotsJustified'
          BY <1>a, <3>0, <3>3, <4>1 DEF SlotsJustified, TypeOK
        <4> QED
          BY <4>2, <4>3
      <3> QED
        BY <2>2, <3>1, <3>2, <3>3 DEF Register
    <2>3. CASE FireAtOnce(g)
      <3>0. /\ gPc[g] = "call" /\ Run(g) /\ gPc' = [gPc EXCEPT ![g] = "registering"]
            /\ UNCHANGED <<wakers, sources, unregistered>>
        BY <2>3 DEF FireAtOnce, tree
      <3>1. \E n \in sources[g] : flag[n]
        BY <3>0 DEF SlotsJustified
      <3>2. /\ CallbackOnce'
            /\ ran' \in [Groups -> BOOLEAN] /\ calls' \in [Groups -> 0 .. 1]
            /\ \A h \in Groups : h # g => ran'[h] = ran[h]
        BY <1>a, <3>0, <3>1, RunOnce
      <3>3. TypeOK'
        BY <1>a, <3>0, <3>2 DEF TypeOK
      <3>4. SlotsJustified'
        BY <1>a, <3>0, <3>2 DEF SlotsJustified, TypeOK
      <3> QED
        BY <3>2, <3>3, <3>4
    <2>4. CASE DropGuards(g)
      <3>0. /\ gPc[g] = "registered" /\ gPc' = [gPc EXCEPT ![g] = "dropped"]
            /\ wakers' = [n \in Nodes |-> wakers[n] \ {g}]
            /\ UNCHANGED <<sources, unregistered, ran, calls>>
        BY <2>4 DEF DropGuards
      <3>1. TypeOK'
        BY <1>a, <3>0 DEF TypeOK
      <3>2. SlotsJustified'
        BY <1>a, <3>0 DEF SlotsJustified, TypeOK
      <3>3. CallbackOnce'
        BY <1>a, <3>0 DEF CallbackOnce
      <3> QED
        BY <3>1, <3>2, <3>3
    <2> QED
      BY <2>1, <2>2, <2>3, <2>4 DEF Group
  <1> QED
    BY <1>b, <1>c, <1>d

LEMMA TreeNextInv == TreeInv /\ [Next]_vars => TreeInv'
  <1> SUFFICES ASSUME TreeInv, [Next]_vars PROVE TreeInv'
    OBVIOUS
  <1>1. CASE UNCHANGED vars
    BY <1>1 DEF vars, tree, threadVars, groupVars, TreeInv, TypeOK, Shape, Held, KidsKept,
      ChildNotMissed, PendingJustified, OnlyDownward, SlotsJustified, CallbackOnce, Derived
  <1>2. CASE \E p \in Derived : Child(p)
    BY <1>2, ChildStep
  <1>3. CASE \E th \in Threads : Walk(th)
    BY <1>3, SwapStep, DrainStep, FireStep, SnapshotStep DEF Walk
  <1>4. CASE \E th \in Threads, n \in Derived : Cancel(th, n)
    BY <1>4, CancelStep
  <1>5. CASE \E g \in Groups : Group(g)
    BY <1>5, GroupStep
  <1> QED
    BY <1>1, <1>2, <1>3, <1>4, <1>5 DEF Next

LEMMA TreeInductive == Spec => []TreeInv
  BY TreeInitInv, TreeNextInv, PTL DEF Spec

(* The cancel tree keeps its types: in particular no callback runs twice. *)
THEOREM TreeTypeCorrect == Spec => []TypeOK
  <1>1. TreeInv => TypeOK
    BY DEF TreeInv
  <1> QED
    BY TreeInductive, <1>1, PTL

(* A live child of a cancelled node is always on some thread's way, when   *)
(* ever it was derived and however many threads cancel: Node::child and    *)
(* Node::cancel need no lock in common beyond the one on the children.     *)
THEOREM NoChildIsMissed == Spec => []ChildNotMissed
  <1>1. TreeInv => ChildNotMissed
    BY DEF TreeInv
  <1> QED
    BY TreeInductive, <1>1, PTL

(* Cancellation never goes up or sideways in the tree. *)
THEOREM CancelGoesDown == Spec => []OnlyDownward
  <1>1. TreeInv => OnlyDownward
    BY DEF TreeInv
  <1> QED
    BY TreeInductive, <1>1, PTL

(* A group's callback runs at most once and finds a source cancelled. *)
THEOREM CallbackRunsOnce == Spec => []CallbackOnce
  <1>1. TreeInv => CallbackOnce
    BY DEF TreeInv
  <1> QED
    BY TreeInductive, <1>1, PTL

-----------------------------------------------------------------------------
(* The thread gate.                                                        *)

(* WAITING is set, and the waiter known, exactly inside the gate's wait. *)
FlagInside ==
  /\ waiting <=> wPc \in {"moved", "posted", "park", "lastMoved", "lastPosted", "leave"}
  /\ waiting => published

(* After the look, a signal that moved the edge left a permit or is about to. *)
SignalOnItsWay ==
  wPc \in {"posted", "park"} /\ ~permit /\ edge # seen =>
    \E c \in Signallers : sPc[c] = "unpark"

(* Only a signaller unparks. *)
UnparkIsSignallers == \A c \in Callers : sPc[c] = "unpark" => c \in Signallers

GateInv == GateTypeOK /\ FlagInside /\ SignalOnItsWay /\ UnparkIsSignallers

LEMMA GateInitInv == GateInit => GateInv
  <1> SUFFICES ASSUME GateInit PROVE GateInv
    OBVIOUS
  <1> USE WakeGateAssumption DEF GateInit
  <1>1. GateTypeOK
    <2>1. edge \in 0 .. MaxSignals /\ seen \in 0 .. edge
      OBVIOUS
    <2>2. sPc \in [Callers -> {"idle", "call", "unpark"}] /\ todo \subseteq Callers
      OBVIOUS
    <2>3. /\ waiting \in BOOLEAN /\ posted \in BOOLEAN /\ published \in BOOLEAN
          /\ permit \in BOOLEAN /\ woken \in BOOLEAN
      OBVIOUS
    <2> QED
      BY <2>1, <2>2, <2>3 DEF GateTypeOK
  <1>2. FlagInside /\ SignalOnItsWay /\ UnparkIsSignallers
    BY DEF FlagInside, SignalOnItsWay, UnparkIsSignallers
  <1> QED
    BY <1>1, <1>2 DEF GateInv

(* What a caller does. *)
LEMMA CallerStep ==
  ASSUME GateInv, NEW c \in Callers, Caller(c)
  PROVE  GateInv'
  <1> USE WakeGateAssumption DEF GateInv, gate
  <1>1. CASE Publish(c)
    <2>1. GateTypeOK'
      BY <1>1 DEF Publish, GateTypeOK
    <2>2. FlagInside' /\ UnparkIsSignallers'
      BY <1>1 DEF Publish, FlagInside, UnparkIsSignallers, GateTypeOK
    <2>3. SignalOnItsWay'
      BY <1>1 DEF Publish, SignalOnItsWay, GateTypeOK, Callers
    <2> QED
      BY <2>1, <2>2, <2>3
  <1>2. CASE Signal(c)
    <2>1. GateTypeOK'
      BY <1>2 DEF Signal, GateTypeOK
    <2>2. FlagInside' /\ UnparkIsSignallers'
      BY <1>2 DEF Signal, FlagInside, UnparkIsSignallers, GateTypeOK
    <2>3. SignalOnItsWay'
      <3>1. wPc \in {"posted", "park"} => sPc'[c] = "unpark"
        BY <1>2 DEF Signal, FlagInside, GateTypeOK
      <3> QED
        BY <1>2, <3>1 DEF Signal, SignalOnItsWay
    <2> QED
      BY <2>1, <2>2, <2>3
  <1>3. CASE Unpark(c)
    <2>1. GateTypeOK'
      BY <1>3 DEF Unpark, GateTypeOK
    <2>2. FlagInside' /\ UnparkIsSignallers'
      BY <1>3 DEF Unpark, FlagInside, UnparkIsSignallers, GateTypeOK
    <2>3. SignalOnItsWay'
      <3>1. wPc \in {"posted", "park"} => permit'
        BY <1>3 DEF Unpark, FlagInside
      <3> QED
        BY <1>3, <3>1 DEF Unpark, SignalOnItsWay
    <2> QED
      BY <2>1, <2>2, <2>3
  <1>4. CASE Post(c)
    <2>1. GateTypeOK'
      BY <1>4 DEF Post, GateTypeOK
    <2>2. FlagInside' /\ UnparkIsSignallers'
      BY <1>4 DEF Post, FlagInside, UnparkIsSignallers, GateTypeOK
    <2>3. SignalOnItsWay'
      BY <1>4 DEF Post, SignalOnItsWay, GateTypeOK, Callers
    <2> QED
      BY <2>1, <2>2, <2>3
  <1> QED
    BY <1>1, <1>2, <1>3, <1>4 DEF Caller

(* What the waiter does. *)
LEMMA WaiterStep ==
  ASSUME GateInv, Waiter
  PROVE  GateInv'
  <1> USE WakeGateAssumption DEF GateInv, gate
  <1>1. GateTypeOK'
    <2>1. CASE Serve \/ Top \/ CheckPosted \/ LastPosted
      BY <2>1 DEF Serve, Top, CheckPosted, LastPosted, TakePosted, GateTypeOK
    <2>2. CASE RegisterWaiter \/ Leave
      BY <2>2 DEF RegisterWaiter, Leave, GateTypeOK
    <2>3. CASE Store
      <3>1. seen' = edge /\ edge' = edge /\ edge \in 0 .. edge
        BY <2>3 DEF Store, GateTypeOK
      <3>2. wPc' \in {"return", "top"}
        BY <2>3 DEF Store
      <3> QED
        BY <2>3, <3>1, <3>2 DEF Store, GateTypeOK
    <2>4. CASE Moved \/ Unparked
      BY <2>4 DEF Moved, Unparked, GateTypeOK
    <2>5. CASE TimeUp \/ Deadline \/ Return
      BY <2>5 DEF TimeUp, Deadline, Return, GateTypeOK
    <2> QED
      BY <2>1, <2>2, <2>3, <2>4, <2>5 DEF Waiter, Running
  <1>2. FlagInside'
    BY DEF Waiter, Running, Serve, Top, RegisterWaiter, Moved, CheckPosted, LastPosted, Unparked, Leave,
      Store, Return, TimeUp, Deadline, TakePosted, GateTypeOK, FlagInside
  <1>3. UnparkIsSignallers'
    BY DEF Waiter, Running, Serve, Top, RegisterWaiter, Moved, CheckPosted, LastPosted, Unparked, Leave,
      Store, Return, TimeUp, Deadline, TakePosted, UnparkIsSignallers
  <1>4. SignalOnItsWay'
    BY DEF Waiter, Running, Serve, Top, RegisterWaiter, Moved, CheckPosted, LastPosted, Unparked, Leave,
      Store, Return, TimeUp, Deadline, TakePosted, SignalOnItsWay
  <1> QED
    BY <1>1, <1>2, <1>3, <1>4

LEMMA GateNextInv == GateInv /\ [GateNext]_gateVars => GateInv'
  <1> SUFFICES ASSUME GateInv, [GateNext]_gateVars PROVE GateInv'
    OBVIOUS
  <1>1. CASE UNCHANGED gateVars
    BY <1>1 DEF gateVars, gate, GateInv, GateTypeOK, FlagInside, SignalOnItsWay, UnparkIsSignallers
  <1> QED
    BY <1>1, CallerStep, WaiterStep DEF GateNext

LEMMA GateInductive == GateSpec => []GateInv
  BY GateInitInv, GateNextInv, PTL DEF GateSpec

(* The gate keeps its types: what a wait remembers as seen never runs      *)
(* ahead of the edge.                                                      *)
THEOREM GateTypeCorrect == GateSpec => []GateTypeOK
  <1>1. GateInv => GateTypeOK
    BY DEF GateInv
  <1> QED
    BY GateInductive, <1>1, PTL

(* Either the waiter of ThreadGate sees the edge or the signaller sees the *)
(* waiter, in plain and in sliced waits.                                   *)
THEOREM SignalIsNotLost == GateSpec => []NoLostSignal
  <1>1. GateInv => NoLostSignal
    BY DEF GateInv, SignalOnItsWay, NoLostSignal
  <1> QED
    BY GateInductive, <1>1, PTL

(* What a plain wait stores as seen is followed by a pass: Wake::wait      *)
(* takes no signal for an old one, whatever waits came before.             *)
THEOREM PlainWaitSeesSignals == GateSpec => []SignalNotSwallowed
  <1>1. GateInit => SignalNotSwallowed
    BY DEF GateInit, SignalNotSwallowed
  <1>2. GateInv /\ SignalNotSwallowed /\ [GateNext]_gateVars => SignalNotSwallowed'
    <2> SUFFICES ASSUME GateInv, SignalNotSwallowed, [GateNext]_gateVars PROVE SignalNotSwallowed'
      OBVIOUS
    <2>2. CASE UNCHANGED gateVars
      BY <2>2 DEF gateVars, gate, SignalNotSwallowed
    <2>3. CASE Waiter
      BY <2>3 DEF Waiter, Running, Serve, Top, RegisterWaiter, Moved, CheckPosted, LastPosted, Unparked,
        Leave, Store, Return, TimeUp, Deadline, TakePosted, gate, SignalNotSwallowed
    <2>4. ASSUME NEW c \in Callers, Caller(c) PROVE SignalNotSwallowed'
      <3>1. CASE Publish(c)
        BY <3>1 DEF Publish, gate, SignalNotSwallowed, GateInv, GateTypeOK
      <3>2. CASE Signal(c)
        <4>1. edge' # seen'
          BY <3>2 DEF Signal, GateInv, GateTypeOK
        <4> QED
          BY <4>1 DEF SignalNotSwallowed
      <3>3. CASE Unpark(c)
        BY <3>3 DEF Unpark, gate, SignalNotSwallowed, GateInv, GateTypeOK
      <3>4. CASE Post(c)
        BY <3>4, WakeGateAssumption DEF Post, gate, SignalNotSwallowed, GateInv, GateTypeOK
      <3> QED
        BY <2>4, <3>1, <3>2, <3>3, <3>4 DEF Caller
    <2> QED
      BY <2>2, <2>3, <2>4 DEF GateNext
  <1> QED
    BY GateInductive, <1>1, <1>2, PTL DEF GateSpec
=============================================================================
