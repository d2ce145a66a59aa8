------------------------------- MODULE WakeGate -------------------------------
(***************************************************************************)
(* The Wake of a dispatcher over the ThreadGate of kithara-platform: a     *)
(* word of state with an edge counter and two flags, and the permit of the *)
(* waiter's thread.  One thread serves and waits; signallers publish work  *)
(* and signal, posters publish work and only record it.                    *)
(*                                                                         *)
(* A pass that found its sinks full waits in slices                        *)
(* (wait_for_backpressure): a slice that ends without an edge is followed  *)
(* by another one, not by a pass, until the deadline of the whole wait.    *)
(***************************************************************************)
EXTENDS Integers

CONSTANTS
  Signallers, Posters,  \* threads that call wake and defer
  Modes,                \* the waits a pass may end in: "plain", "sliced"
  MaxSignals            \* bound: edges in a behaviour

ASSUME WakeGateAssumption ==
  /\ Signallers \cap Posters = {} /\ Modes \subseteq {"plain", "sliced"} /\ Modes # {}
  /\ MaxSignals \in Nat

VARIABLES
  edge,       \* ThreadGate::state: the sequence
  waiting,    \* ThreadGate::state: WAITING
  posted,     \* ThreadGate::state: POSTED
  published,  \* ThreadGate::waiter is the waiter
  permit,     \* the thread's unpark permit
  seen,       \* WakeInner::seen
  wPc,        \* where the waiter is
  mode,       \* the wait it is in
  woken,      \* what the wait will return
  sPc,        \* where each caller is: "idle", "call" or "unpark"
  todo        \* the callers whose work no pass has found yet

Callers == Signallers \cup Posters
gate == <<edge, waiting, posted, published>>
gateVars == <<gate, permit, seen, wPc, mode, woken, sPc, todo>>

-----------------------------------------------------------------------------
(* Work is published first. *)
Publish(c) ==
  /\ sPc[c] = "idle"
  /\ edge < MaxSignals
  /\ todo' = todo \cup {c}
  /\ sPc' = [sPc EXCEPT ![c] = "call"]
  /\ UNCHANGED <<gate, permit, seen, wPc, mode, woken>>

(* ThreadGate::signal: advance, and unpark if the waiter was waiting. *)
Signal(c) ==
  /\ c \in Signallers /\ sPc[c] = "call"
  /\ edge < MaxSignals
  /\ edge' = edge + 1
  /\ sPc' = [sPc EXCEPT ![c] = IF waiting THEN "unpark" ELSE "idle"]
  /\ UNCHANGED <<waiting, posted, published, permit, seen, wPc, mode, woken, todo>>

Unpark(c) ==
  /\ sPc[c] = "unpark"
  /\ permit' = (permit \/ published)
  /\ sPc' = [sPc EXCEPT ![c] = "idle"]
  /\ UNCHANGED <<gate, seen, wPc, mode, woken, todo>>

(* ThreadGate::post. *)
Post(c) ==
  /\ c \in Posters /\ sPc[c] = "call"
  /\ posted' = TRUE
  /\ sPc' = [sPc EXCEPT ![c] = "idle"]
  /\ UNCHANGED <<edge, waiting, published, permit, seen, wPc, mode, woken, todo>>

Caller(c) == Publish(c) \/ Signal(c) \/ Unpark(c) \/ Post(c)
-----------------------------------------------------------------------------
(* A pass finds everything published; its outcome chooses the wait. *)
Serve ==
  /\ wPc = "serve"
  /\ todo' = {}
  /\ mode' \in Modes
  /\ wPc' = "top"
  /\ UNCHANGED <<gate, permit, seen, woken, sPc>>

(* take_posted: if a post was pending it is consumed and the wait is woken. *)
TakePosted(then, else) ==
  /\ posted' = FALSE
  /\ wPc' = IF posted THEN then ELSE else
  /\ woken' = posted
  /\ UNCHANGED <<edge, waiting, published, permit, seen, mode, sPc, todo>>

(* Wake::wait looks for a post before it waits. *)
Top == wPc = "top" /\ TakePosted("return", "register")

(* Variant of RegisterWaiter: the waiter is announced only as it parks.          *)
RegisterLate ==
  /\ wPc = "register"
  /\ published' = TRUE
  /\ wPc' = "moved"
  /\ UNCHANGED <<edge, waiting, posted, permit, seen, mode, woken, sPc, todo>>
(* ThreadGate::register. *)
RegisterWaiter ==
  /\ wPc = "register"
  /\ published' = TRUE
  /\ waiting' = TRUE
  /\ wPc' = "moved"
  /\ UNCHANGED <<edge, posted, permit, seen, mode, woken, sPc, todo>>

(* wait_timeout_inner: the edge, then a post, then the clock. *)
Moved ==
  /\ wPc \in {"moved", "lastMoved"}
  /\ woken' = (edge # seen)
  /\ wPc' = IF edge # seen THEN "leave"
            ELSE IF wPc = "moved" THEN "posted" ELSE "lastPosted"
  /\ UNCHANGED <<gate, permit, seen, mode, sPc, todo>>

CheckPosted == wPc = "posted" /\ TakePosted("leave", "park")
LastPosted == wPc = "lastPosted" /\ TakePosted("leave", "leave")

(* park_timeout returns with a permit, ... *)
Unparked ==
  /\ wPc = "park" /\ permit
  /\ permit' = FALSE
  /\ wPc' = "moved"
  /\ UNCHANGED <<gate, seen, mode, woken, sPc, todo>>

(* ... or the time of the wait is up: one more look. *)
TimeUp ==
  /\ wPc = "park"
  /\ wPc' = "lastMoved"
  /\ UNCHANGED <<gate, permit, seen, mode, woken, sPc, todo>>

(* Variant of Leave: both flags are cleared.                               *)
LeaveClean ==
  /\ wPc = "leave"
  /\ waiting' = FALSE
  /\ posted' = FALSE
  /\ wPc' = "store"
  /\ UNCHANGED <<edge, published, permit, seen, mode, woken, sPc, todo>>
Leave ==
  /\ wPc = "leave"
  /\ waiting' = FALSE
  /\ wPc' = "store"
  /\ UNCHANGED <<edge, posted, published, permit, seen, mode, woken, sPc, todo>>

(* Variant of Store: every wait is followed by another.                    *)
StoreAndGoOn ==
  /\ wPc = "store"
  /\ seen' = edge
  /\ wPc' = IF woken THEN "return" ELSE "top"
  /\ UNCHANGED <<gate, permit, mode, woken, sPc, todo>>
(* Wake::wait remembers the edge it has seen. *)
Store ==
  /\ wPc = "store"
  /\ seen' = edge
  /\ wPc' = IF woken \/ mode = "plain" THEN "return" ELSE "top"
  /\ UNCHANGED <<gate, permit, mode, woken, sPc, todo>>

(* The deadline of a sliced wait. *)
Deadline ==
  /\ wPc = "top" /\ mode = "sliced"
  /\ wPc' = "return"
  /\ UNCHANGED <<gate, permit, seen, mode, woken, sPc, todo>>

(* The wait is over and the loop goes on to its next pass. *)
Return ==
  /\ wPc = "return"
  /\ wPc' = "serve"
  /\ UNCHANGED <<gate, permit, seen, mode, woken, sPc, todo>>

Running ==
  Serve \/ Top \/ RegisterWaiter \/ Moved \/ CheckPosted \/ LastPosted \/ Unparked \/ Leave
    \/ Store \/ Return
Waiter == Running \/ TimeUp \/ Deadline
-----------------------------------------------------------------------------
GateInit ==
  /\ edge = 0 /\ waiting = FALSE /\ posted = FALSE /\ published = FALSE
  /\ permit = FALSE /\ seen = 0
  /\ wPc = "serve" /\ mode = "plain" /\ woken = FALSE
  /\ sPc = [c \in Callers |-> "idle"]
  /\ todo = {}

GateNext == Waiter \/ \E c \in Callers : Caller(c)
GateSpec == GateInit /\ [][GateNext]_gateVars

(* Threads run and a caller finishes its call; no wait has to time out.    *)
PromptSpec ==
  /\ GateSpec
  /\ WF_gateVars(Running)
  /\ \A c \in Callers : WF_gateVars(Signal(c) \/ Unpark(c) \/ Post(c))
-----------------------------------------------------------------------------
GateTypeOK ==
  /\ edge \in 0 .. MaxSignals /\ seen \in 0 .. edge
  /\ waiting \in BOOLEAN /\ posted \in BOOLEAN /\ published \in BOOLEAN
  /\ permit \in BOOLEAN /\ woken \in BOOLEAN
  /\ wPc \in {"serve", "top", "register", "moved", "posted", "park", "lastMoved",
              "lastPosted", "leave", "store", "return"}
  /\ mode \in {"plain", "sliced"}
  /\ sPc \in [Callers -> {"idle", "call", "unpark"}]
  /\ todo \subseteq Callers

(* Either the waiter sees the edge or the signaller sees the waiter: a     *)
(* thread parked without a permit has missed no signal, unless its         *)
(* signaller is about to unpark it.                                        *)
NoLostSignal ==
  wPc = "park" /\ ~permit /\ edge # seen => \E c \in Signallers : sPc[c] = "unpark"

(* A signal made during a plain wait is not taken for one that was seen    *)
(* before: unless the waiter is on its way to a pass, the work of every    *)
(* signal made has its edge still ahead of seen.  (A sliced wait can:      *)
(* between the end of a slice and the store of seen, Wake::wait.)          *)
SignalNotSwallowed ==
  \A c \in todo \cap Signallers :
    mode = "plain" /\ sPc[c] # "call" /\ wPc \notin {"serve", "leave", "store", "return"}
      => edge # seen

(* Posted work is found by a pass as soon as a slice of the wait is over,  *)
(* long before the deadline of the wait, which need not come.              *)
PostServed == WF_gateVars(TimeUp) => \A c \in Posters : c \in todo ~> c \notin todo
=============================================================================
