------------------------------ MODULE CancelTree ------------------------------
(***************************************************************************)
(* The propagate-down cancel tree of kithara-platform: threads cancel      *)
(* subtrees while others derive children and register callbacks on groups  *)
(* of tokens.                                                              *)
(*                                                                         *)
(* A flag is one atomic; the children and the wakers of a node are under   *)
(* two locks, each of which covers one step here.  A task waiting in       *)
(* cancelled() parks the same kind of slot as a group of one source.  A    *)
(* node nobody holds can be observed by nobody, so nodes are never freed.  *)
(***************************************************************************)
EXTENDS Integers

CONSTANTS
  MaxNodes,   \* bound: nodes ever derived, the root included
  Threads,    \* threads that call cancel
  Groups      \* callers of CancelGroup::on_cancel

ASSUME CancelTreeAssumption == MaxNodes \in Nat \ {0}

VARIABLES
  count,     \* nodes derived so far; node 1 is the root
  parent,    \* Node::_parent
  flag,      \* Node::flag
  children,  \* Node::children
  fired,     \* WakerSlots::fired
  wakers,    \* WakerSlots::slots: the groups registered
  pending,   \* nodes each thread has still to cancel
  current,   \* the node whose flag it has set and is working on, or 0
  phase,     \* where in Node::cancel each thread is
  firing,    \* the slots it drained and has not fired yet
  gPc,       \* each group: "idle", "registering", "call", "registered", "dropped"
  sources,   \* its sources
  unregistered,  \* the sources it has still to register on
  ran,       \* the flag its callback swaps
  calls,     \* history: times the callback ran
  asked      \* history: nodes cancel was called on by name

Nodes == 1 .. MaxNodes
Derived == 1 .. count
tree == <<count, parent, flag, children, fired, wakers>>
threadVars == <<pending, current, phase, firing>>
groupVars == <<gPc, sources, unregistered, ran, calls>>
vars == <<tree, threadVars, groupVars, asked>>

-----------------------------------------------------------------------------
(* Variant of Child: a child is always born alive.                         *)
ChildAlive(p) ==
  /\ count < MaxNodes
  /\ count' = count + 1
  /\ parent' = [parent EXCEPT ![count'] = p]
  /\ children' = [children EXCEPT ![p] = @ \cup {count'}]
  /\ UNCHANGED <<flag, fired, wakers, threadVars, groupVars, asked>>
(* Node::child under the parent's children lock. *)
Child(p) ==
  /\ count < MaxNodes
  /\ count' = count + 1
  /\ parent' = [parent EXCEPT ![count'] = p]
  /\ flag' = [flag EXCEPT ![count'] = flag[p]]
  /\ fired' = [fired EXCEPT ![count'] = flag[p]]
  /\ children' = [children EXCEPT ![p] = @ \cup {count'}]
  /\ UNCHANGED <<wakers, threadVars, groupVars, asked>>

Cancel(th, n) ==
  /\ phase[th] = "idle" /\ pending[th] = {}
  /\ pending' = [pending EXCEPT ![th] = {n}]
  /\ asked' = asked \cup {n}
  /\ UNCHANGED <<tree, current, phase, firing, groupVars>>

(* The swap: a node cancelled before is left to whoever cancelled it.  In  *)
(* which order a thread comes to the nodes of a subtree is left open.      *)
Swap(th) ==
  /\ phase[th] = "idle"
  /\ \E n \in pending[th] :
       /\ pending' = [pending EXCEPT ![th] = @ \ {n}]
       /\ flag' = [flag EXCEPT ![n] = TRUE]
       /\ current' = [current EXCEPT ![th] = IF flag[n] THEN 0 ELSE n]
       /\ phase' = [phase EXCEPT ![th] = IF flag[n] THEN "idle" ELSE "drain"]
  /\ UNCHANGED <<count, parent, children, fired, wakers, firing, groupVars, asked>>

(* Variant of Drain: the registry does not remember that it fired.         *)
DrainUnlatched(th) ==
  /\ phase[th] = "drain"
  /\ firing' = [firing EXCEPT ![th] = wakers[current[th]]]
  /\ wakers' = [wakers EXCEPT ![current[th]] = {}]
  /\ phase' = [phase EXCEPT ![th] = "fire"]
  /\ UNCHANGED <<fired, count, parent, flag, children, pending, current, groupVars, asked>>
Drain(th) ==
  /\ phase[th] = "drain"
  /\ fired' = [fired EXCEPT ![current[th]] = TRUE]
  /\ firing' = [firing EXCEPT ![th] = wakers[current[th]]]
  /\ wakers' = [wakers EXCEPT ![current[th]] = {}]
  /\ phase' = [phase EXCEPT ![th] = "fire"]
  /\ UNCHANGED <<count, parent, flag, children, pending, current, groupVars, asked>>

(* Variant of Run: every source runs the callback.                         *)
RunEach(g) ==
  /\ ran' = [ran EXCEPT ![g] = TRUE]
  /\ calls' = [calls EXCEPT ![g] = @ + 1]
(* The callback of CancelGroup::on_cancel: the first source runs it. *)
Run(g) ==
  /\ ran' = [ran EXCEPT ![g] = TRUE]
  /\ calls' = [calls EXCEPT ![g] = IF ran[g] THEN @ ELSE @ + 1]

Fire(th) ==
  /\ phase[th] = "fire"
  /\ \E g \in firing[th] :
       /\ Run(g)
       /\ firing' = [firing EXCEPT ![th] = @ \ {g}]
  /\ UNCHANGED <<tree, pending, current, phase, gPc, sources, unregistered, asked>>

(* Variant of Snapshot: the node's children are left alone.                *)
SnapshotNone(th) ==
  /\ phase[th] = "fire" /\ firing[th] = {}
  /\ UNCHANGED pending
  /\ children' = [children EXCEPT ![current[th]] = {}]
  /\ phase' = [phase EXCEPT ![th] = "idle"]
  /\ current' = [current EXCEPT ![th] = 0]
  /\ UNCHANGED <<count, parent, flag, fired, wakers, firing, groupVars, asked>>
(* The children are taken under their lock, to be cancelled in turn. *)
Snapshot(th) ==
  /\ phase[th] = "fire" /\ firing[th] = {}
  /\ pending' = [pending EXCEPT ![th] = @ \cup children[current[th]]]
  /\ children' = [children EXCEPT ![current[th]] = {}]
  /\ phase' = [phase EXCEPT ![th] = "idle"]
  /\ current' = [current EXCEPT ![th] = 0]
  /\ UNCHANGED <<count, parent, flag, fired, wakers, firing, groupVars, asked>>

Walk(th) == Swap(th) \/ Drain(th) \/ Fire(th) \/ Snapshot(th)
-----------------------------------------------------------------------------
OnCancel(g) ==
  /\ gPc[g] = "idle"
  /\ \E a, b \in Derived :
       /\ sources' = [sources EXCEPT ![g] = {a, b}]
       /\ unregistered' = [unregistered EXCEPT ![g] = {a, b}]
  /\ gPc' = [gPc EXCEPT ![g] = "registering"]
  /\ UNCHANGED <<tree, threadVars, ran, calls, asked>>

(* Node::register on each source in turn; a fired node runs the callback   *)
(* on this thread, outside the lock.                                       *)
Register(g) ==
  /\ gPc[g] = "registering"
  /\ \/ /\ unregistered[g] = {}
        /\ gPc' = [gPc EXCEPT ![g] = "registered"]
        /\ UNCHANGED <<wakers, unregistered>>
     \/ \E n \in unregistered[g] :
          /\ \A k \in unregistered[g] : n <= k
          /\ unregistered' = [unregistered EXCEPT ![g] = @ \ {n}]
          /\ wakers' = IF fired[n] THEN wakers ELSE [wakers EXCEPT ![n] = @ \cup {g}]
          /\ gPc' = [gPc EXCEPT ![g] = IF fired[n] THEN "call" ELSE @]
  /\ UNCHANGED <<count, parent, flag, children, fired, threadVars, sources, ran, calls, asked>>

FireAtOnce(g) ==
  /\ gPc[g] = "call"
  /\ Run(g)
  /\ gPc' = [gPc EXCEPT ![g] = "registering"]
  /\ UNCHANGED <<tree, threadVars, sources, unregistered, asked>>

(* Drop for CancelWakerGuard. *)
DropGuards(g) ==
  /\ gPc[g] = "registered"
  /\ gPc' = [gPc EXCEPT ![g] = "dropped"]
  /\ wakers' = [n \in Nodes |-> wakers[n] \ {g}]
  /\ UNCHANGED <<count, parent, flag, children, fired, threadVars, sources, unregistered, ran,
                 calls, asked>>

Group(g) == OnCancel(g) \/ Register(g) \/ FireAtOnce(g) \/ DropGuards(g)
-----------------------------------------------------------------------------
Init ==
  /\ count = 1
  /\ parent = [n \in Nodes |-> 0]
  /\ flag = [n \in Nodes |-> FALSE] /\ fired = [n \in Nodes |-> FALSE]
  /\ children = [n \in Nodes |-> {}] /\ wakers = [n \in Nodes |-> {}]
  /\ pending = [th \in Threads |-> {}] /\ current = [th \in Threads |-> 0]
  /\ phase = [th \in Threads |-> "idle"]
  /\ firing = [th \in Threads |-> {}]
  /\ gPc = [g \in Groups |-> "idle"]
  /\ sources = [g \in Groups |-> {}] /\ unregistered = [g \in Groups |-> {}]
  /\ ran = [g \in Groups |-> FALSE]
  /\ calls = [g \in Groups |-> 0]
  /\ asked = {}

Next ==
  \/ \E p \in Derived : Child(p)
  \/ \E th \in Threads : Walk(th) \/ \E n \in Derived : Cancel(th, n)
  \/ \E g \in Groups : Group(g)
Spec == Init /\ [][Next]_vars

(* A call of cancel or on_cancel that began is finished. *)
FairSpec ==
  /\ Spec
  /\ \A th \in Threads : WF_vars(Walk(th))
  /\ \A g \in Groups : WF_vars(Register(g) \/ FireAtOnce(g))
-----------------------------------------------------------------------------
TypeOK ==
  /\ count \in Nodes
  /\ parent \in [Nodes -> 0 .. MaxNodes]
  /\ flag \in [Nodes -> BOOLEAN] /\ fired \in [Nodes -> BOOLEAN]
  /\ children \in [Nodes -> SUBSET Nodes] /\ wakers \in [Nodes -> SUBSET Groups]
  /\ pending \in [Threads -> SUBSET Nodes] /\ current \in [Threads -> 0 .. MaxNodes]
  /\ phase \in [Threads -> {"idle", "drain", "fire"}]
  /\ firing \in [Threads -> SUBSET Groups]
  /\ gPc \in [Groups -> {"idle", "registering", "call", "registered", "dropped"}]
  /\ sources \in [Groups -> SUBSET Nodes] /\ unregistered \in [Groups -> SUBSET Nodes]
  /\ ran \in [Groups -> BOOLEAN] /\ calls \in [Groups -> 0 .. 1]
  /\ asked \subseteq Nodes

(* A live child of a cancelled node is on some thread's way: in what it    *)
(* has still to cancel, or among the children of a node it has flagged and *)
(* not snapshotted yet.  No child born in between is missed.               *)
ChildNotMissed ==
  \A n \in 2 .. count :
    flag[parent[n]] /\ ~flag[n] =>
      \E th \in Threads :
        \/ n \in pending[th]
        \/ current[th] = parent[n] /\ n \in children[parent[n]]

(* A node is cancelled by name or through its parent, never from below or  *)
(* from beside.                                                            *)
OnlyDownward ==
  \A n \in Derived : flag[n] => n \in asked \/ (n # 1 /\ flag[parent[n]])

(* A callback runs at most once, whatever sources fire on whatever threads *)
(* while it is being registered, and it finds a source cancelled.          *)
CallbackOnce ==
  \A g \in Groups :
    /\ calls[g] = IF ran[g] THEN 1 ELSE 0
    /\ ran[g] => \E n \in sources[g] : flag[n]

(* Once a node is cancelled its whole subtree is, the children derived     *)
(* meanwhile included.                                                     *)
ReachesChildren == \A n \in 2 .. MaxNodes :
  (n <= count /\ flag[parent[n]]) ~> flag[n]

(* A registered callback runs once a source is cancelled, unless its       *)
(* guards are dropped.                                                     *)
GroupIsTold == \A g \in Groups :
  (gPc[g] = "registered" /\ \E n \in sources[g] : flag[n]) ~> (ran[g] \/ gPc[g] = "dropped")
=============================================================================
