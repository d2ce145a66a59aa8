------------------------------ MODULE Dispatcher ------------------------------
(***************************************************************************)
(* The worker dispatcher of kithara-worker: clients reserve capacity,      *)
(* submit tasks and drop their handles; one thread drains the commands     *)
(* they send, ticks the tasks of its roster by priority, and stops when it *)
(* is shut down or its cancellation token fires.                           *)
(*                                                                         *)
(* A client is the thread that owns one task, named by the task's          *)
(* identifier.  What a tick does is the task's choice of a result; the     *)
(* ticks of a burst are one visit.  Every park ends by a timeout, so the   *)
(* loop is modelled without it; WakeGate models what ends it earlier.      *)
(***************************************************************************)
EXTENDS Integers, Sequences, FiniteSets

CONSTANTS
  NTasks,      \* tasks that are ever reserved
  MaxCapacity, \* bound: capacities a dispatcher may be built with
  MaxPriority  \* bound: priorities a task may ask for

ASSUME DispatcherAssumption ==
  NTasks \in Nat \ {0} /\ MaxCapacity \in Nat \ {0} /\ MaxPriority \in Nat

VARIABLES
  admission,   \* Admission: "Open" or "Closed"
  lockedBy,    \* the client that holds the admission lock across steps, or 0
  cancelled,   \* the dispatcher's token
  capacity,    \* DispatcherConfig::capacity of this dispatcher
  active,      \* Capacity::active: reservations alive
  queue,       \* the channel of commands
  rxAlive,     \* the dispatcher's thread holds the receiver
  cPc,         \* where each client is
  token,       \* each task's own token
  want,        \* the priority each task asks for
  stopPc,      \* a call of shutdown: "none", "cancel" or "done"
  dPc,         \* the dispatcher's thread: drain, check, pass, visit, exit, gone
  slots,       \* its roster, in the order it is visited
  needsReorder,
  visit,       \* the next slot of produce_pass
  cancels,     \* history: calls of on_cancel on each task
  fate         \* history: what became of each task's object

Tasks == 1 .. NTasks
Priorities == 0 .. MaxPriority
clientVars == <<lockedBy, active, cPc, want, stopPc>>
loopVars == <<rxAlive, dPc, slots, needsReorder, visit, cancels, fate>>
vars == <<capacity, admission, cancelled, queue, token, clientVars, loopVars>>

Command == [kind : {"Register", "Unregister"}, id : Tasks] \cup [kind : {"Shutdown"}, id : {0}]
Slot == [id : Tasks, priority : Priorities, terminal : BOOLEAN]

(* CancelToken::is_cancelled of a task's token, a child of the dispatcher's. *)
IsCancelled(t) == token[t] \/ cancelled
Unlocked == lockedBy = 0

-----------------------------------------------------------------------------
(* Clients.                                                                *)

(* DispatcherInner::reserve up to the reservation; a full dispatcher       *)
(* answers Capacity and a stopped one Stopped.                             *)
Reserve(t) ==
  /\ cPc[t] = "new" /\ Unlocked
  /\ IF admission = "Closed" \/ cancelled
     THEN /\ cPc' = [cPc EXCEPT ![t] = "gone"]
          /\ UNCHANGED active
     ELSE /\ active < capacity
          /\ active' = active + 1
          /\ cPc' = [cPc EXCEPT ![t] = "reserved"]
  /\ UNCHANGED <<admission, lockedBy, cancelled, queue, token, want, stopPc, loopVars>>

(* Leaving with Cancelled or Stopped: the pending task cancels its token,  *)
(* then its reservation is dropped.                                        *)
GiveUp(t) ==
  /\ cPc' = [cPc EXCEPT ![t] = "gone"]
  /\ token' = [token EXCEPT ![t] = TRUE]
  /\ active' = active - 1

(* The rest of reserve, start and submit up to register: each asks whether *)
(* a cancellation raced it.                                                *)
Prepare(t) ==
  /\ cPc[t] = "reserved"
  /\ \/ IsCancelled(t) /\ GiveUp(t)
     \/ /\ ~IsCancelled(t)
        /\ cPc' = [cPc EXCEPT ![t] = "pending"]
        /\ UNCHANGED <<token, active>>
  /\ UNCHANGED <<admission, lockedBy, cancelled, queue, want, stopPc, loopVars>>

(* A pending task dropped before it is submitted. *)
DropPending(t) ==
  /\ cPc[t] = "pending"
  /\ GiveUp(t)
  /\ UNCHANGED <<admission, lockedBy, cancelled, queue, want, stopPc, loopVars>>

(* Variant of RegisterCheck: the admission is read outside its lock.       *)
RegisterUnlocked(t) ==
  /\ cPc[t] = "pending" /\ Unlocked
  /\ \/ /\ admission = "Closed" \/ cancelled
        /\ GiveUp(t)
        /\ UNCHANGED lockedBy
     \/ /\ admission = "Open" /\ ~cancelled
        /\ UNCHANGED lockedBy
        /\ cPc' = [cPc EXCEPT ![t] = "register"]
        /\ UNCHANGED <<token, active>>
  /\ UNCHANGED <<admission, cancelled, queue, want, stopPc, loopVars>>
(* DispatcherInner::register under the admission lock. *)
RegisterCheck(t) ==
  /\ cPc[t] = "pending" /\ Unlocked
  /\ \/ /\ admission = "Closed" \/ cancelled
        /\ GiveUp(t)
        /\ UNCHANGED lockedBy
     \/ /\ admission = "Open" /\ ~cancelled
        /\ lockedBy' = t
        /\ cPc' = [cPc EXCEPT ![t] = "register"]
        /\ UNCHANGED <<token, active>>
  /\ UNCHANGED <<admission, cancelled, queue, want, stopPc, loopVars>>

RegisterSend(t) ==
  /\ cPc[t] = "register"
  /\ lockedBy' = 0
  /\ \/ /\ rxAlive
        /\ queue' = Append(queue, [kind |-> "Register", id |-> t])
        /\ cPc' = [cPc EXCEPT ![t] = "handle"]
        /\ UNCHANGED <<admission, active, token>>
     \/ /\ ~rxAlive
        /\ admission' = "Closed"
        /\ GiveUp(t)
        /\ UNCHANGED queue
  /\ UNCHANGED <<cancelled, want, stopPc, loopVars>>

(* TaskControl::cancel, or the task's cancellation domain. *)
CancelTask(t) ==
  /\ cPc[t] \in {"pending", "handle"}
  /\ token' = [token EXCEPT ![t] = TRUE]
  /\ UNCHANGED <<admission, cancelled, queue, clientVars, loopVars>>

(* A task changes the priority it reports. *)
ChangePriority(t) ==
  /\ cPc[t] = "handle"
  /\ \E p \in Priorities : want' = [want EXCEPT ![t] = p]
  /\ UNCHANGED <<admission, cancelled, queue, token, lockedBy, active, cPc, stopPc, loopVars>>

(* Drop for TaskHandle: cancel, Unregister, and the reservation last.      *)
DropHandle(t) ==
  /\ cPc[t] = "handle"
  /\ token' = [token EXCEPT ![t] = TRUE]
  /\ cPc' = [cPc EXCEPT ![t] = "unregister"]
  /\ UNCHANGED <<admission, cancelled, queue, lockedBy, active, want, stopPc, loopVars>>

(* Variant of Unregister: the task's token alone has to remove it.         *)
UnregisterNothing(t) ==
  /\ cPc[t] = "unregister" /\ Unlocked
  /\ cPc' = [cPc EXCEPT ![t] = "release"]
  /\ UNCHANGED <<queue, admission, cancelled, token, lockedBy, active, want, stopPc, loopVars>>
Unregister(t) ==
  /\ cPc[t] = "unregister" /\ Unlocked
  /\ queue' = IF admission = "Open" /\ rxAlive
              THEN Append(queue, [kind |-> "Unregister", id |-> t])
              ELSE queue
  /\ cPc' = [cPc EXCEPT ![t] = "release"]
  /\ UNCHANGED <<admission, cancelled, token, lockedBy, active, want, stopPc, loopVars>>

ReleaseReservation(t) ==
  /\ cPc[t] = "release"
  /\ active' = active - 1
  /\ cPc' = [cPc EXCEPT ![t] = "gone"]
  /\ UNCHANGED <<admission, cancelled, queue, token, lockedBy, want, stopPc, loopVars>>

(* DispatcherInner::shutdown: the admission and the command under its      *)
(* lock, the token after it.                                               *)
Shutdown ==
  /\ stopPc = "none" /\ Unlocked
  /\ admission' = "Closed"
  /\ queue' = IF admission = "Open" /\ rxAlive
              THEN Append(queue, [kind |-> "Shutdown", id |-> 0])
              ELSE queue
  /\ stopPc' = "cancel"
  /\ UNCHANGED <<cancelled, token, lockedBy, active, cPc, want, loopVars>>

ShutdownCancel ==
  /\ stopPc = "cancel"
  /\ cancelled' = TRUE
  /\ stopPc' = "done"
  /\ UNCHANGED <<admission, queue, token, lockedBy, active, cPc, want, loopVars>>

(* The worker's token, or the dispatcher's cancellation domain, fires. *)
CancelDispatcher ==
  /\ ~cancelled
  /\ cancelled' = TRUE
  /\ UNCHANGED <<admission, queue, token, clientVars, loopVars>>

Client(t) ==
  \/ Reserve(t) \/ Prepare(t) \/ DropPending(t) \/ RegisterCheck(t) \/ RegisterSend(t)
  \/ CancelTask(t) \/ ChangePriority(t)
  \/ DropHandle(t) \/ Unregister(t) \/ ReleaseReservation(t)
-----------------------------------------------------------------------------
(* The dispatcher's thread.                                                *)

Ids(roster) == {roster[i].id : i \in DOMAIN roster}

(* The tasks Slot::cancel acts on among those it is called for.            *)
(* Variant of Due: a terminal slot is cancelled again.                     *)
DueAgain(ids) == ids \cap Ids(slots)
Due(ids) == ids \cap {slots[i].id : i \in {j \in DOMAIN slots : ~slots[j].terminal}}

(* What it does to them: token, on_cancel, and their slots are terminal. *)
OnCancel(ids) ==
  /\ token' = [t \in Tasks |-> token[t] \/ t \in ids]
  /\ cancels' = [t \in Tasks |-> cancels[t] + (IF t \in ids THEN 1 ELSE 0)]
  /\ fate' = [t \in Tasks |-> IF t \in ids THEN "cancelled" ELSE fate[t]]
Ended(roster, ids) ==
  [i \in DOMAIN roster |-> [roster[i] EXCEPT !.terminal = @ \/ roster[i].id \in ids]]
CancelAll ==
  LET ids == Due(Tasks) IN slots' = Ended(slots, ids) /\ OnCancel(ids)

(* Variant of RemoveTerminal: nothing leaves the roster.                   *)
RemoveNothing(roster) == roster
RemoveTerminal(roster) ==
  LET kept == {i \in DOMAIN roster : ~roster[i].terminal}
      Nth(n) == CHOOSE i \in kept : Cardinality({j \in kept : j < i}) = n - 1
  IN [n \in 1 .. Cardinality(kept) |-> roster[Nth(n)]]

(* drain_commands, one command: a registration whose factory panics makes  *)
(* no slot, one that is cancelled is cancelled on the spot.                *)
(* Variant of DrainRegister: a roster that grew is taken to be in order.   *)
DrainRegisterInPlace(t) ==
  /\ UNCHANGED needsReorder
  /\ \/ /\ fate' = [fate EXCEPT ![t] = "panicked"]
        /\ UNCHANGED <<slots, token, cancels>>
     \/ /\ IsCancelled(t)
        /\ OnCancel({t})
        /\ UNCHANGED slots
     \/ /\ ~IsCancelled(t)
        /\ slots' = Append(slots, [id |-> t, priority |-> 0, terminal |-> FALSE])
        /\ fate' = [fate EXCEPT ![t] = "live"]
        /\ UNCHANGED <<token, cancels>>
DrainRegister(t) ==
  \/ /\ fate' = [fate EXCEPT ![t] = "panicked"]
     /\ UNCHANGED <<slots, needsReorder, token, cancels>>
  \/ /\ IsCancelled(t)
     /\ OnCancel({t})
     /\ UNCHANGED <<slots, needsReorder>>
  \/ /\ ~IsCancelled(t)  \* its configured priority, which is 0
     /\ slots' = Append(slots, [id |-> t, priority |-> 0, terminal |-> FALSE])
     /\ fate' = [fate EXCEPT ![t] = "live"]
     /\ needsReorder' = TRUE
     /\ UNCHANGED <<token, cancels>>

(* unregister_slot: cancel the slot, if there is one, and remove it. *)
DrainUnregister(t) ==
  LET ids == Due({t})
      left == RemoveTerminal(Ended(slots, ids))
  IN /\ slots' = left
     /\ OnCancel(ids)
     /\ needsReorder' = (needsReorder \/ Len(left) < Len(slots))

Drain ==
  /\ dPc = "drain"
  /\ \/ /\ queue = <<>>
        /\ dPc' = "check"
        /\ UNCHANGED <<queue, slots, needsReorder, token, cancels, fate>>
     \/ /\ queue # <<>>
        /\ queue' = Tail(queue)
        /\ \/ /\ Head(queue).kind = "Register"
              /\ DrainRegister(Head(queue).id)
              /\ UNCHANGED dPc
           \/ /\ Head(queue).kind = "Unregister"
              /\ DrainUnregister(Head(queue).id)
              /\ UNCHANGED dPc
           \/ /\ Head(queue).kind = "Shutdown"
              /\ CancelAll
              /\ dPc' = "exit"
              /\ UNCHANGED needsReorder
  /\ UNCHANGED <<admission, cancelled, clientVars, rxAlive, visit>>

(* cancel_and_drain asks for the token after the drain found nothing. *)
CheckCancel ==
  /\ dPc = "check"
  /\ \/ /\ cancelled
        /\ CancelAll
        /\ dPc' = "exit"
     \/ /\ ~cancelled
        /\ dPc' = "pass"
        /\ UNCHANGED <<slots, token, cancels, fate>>
  /\ UNCHANGED <<admission, cancelled, queue, clientVars, rxAlive, needsReorder, visit>>

(* reorder_slots: higher priority first, then the older task.  The keys    *)
(* differ, so a slot's place is the number of slots that go before it.     *)
Before(a, b) == a.priority > b.priority \/ (a.priority = b.priority /\ a.id < b.id)
ReorderSlots(roster) ==
  LET Nth(n) == CHOOSE i \in DOMAIN roster :
        Cardinality({j \in DOMAIN roster : Before(roster[j], roster[i])}) = n - 1
  IN [n \in DOMAIN roster |-> roster[Nth(n)]]

(* run_pass before it produces: cancel and remove, sample the priorities,  *)
(* and sort the roster if anything may have moved.                         *)
BeginPass ==
  LET ids == Due({t \in Tasks : IsCancelled(t)})
      kept == RemoveTerminal(Ended(slots, ids))
      fresh == [i \in DOMAIN kept |-> [kept[i] EXCEPT !.priority = want[kept[i].id]]]
      moved == needsReorder \/ Len(kept) < Len(slots) \/ fresh # kept
  IN /\ dPc = "pass"
     /\ OnCancel(ids)
     /\ slots' = IF moved THEN ReorderSlots(fresh) ELSE fresh
     /\ needsReorder' = FALSE
     /\ visit' = 1
     /\ dPc' = "visit"
     /\ UNCHANGED <<admission, cancelled, queue, clientVars, rxAlive>>

(* One slot of produce_pass: a cancelled task is not ticked further, a     *)
(* panic cancels it, Done ends it without on_cancel.                       *)
Visit ==
  /\ dPc = "visit" /\ visit <= Len(slots)
  /\ visit' = visit + 1
  /\ \/ LET ids == Due({slots[visit].id})
        IN slots' = Ended(slots, ids) /\ OnCancel(ids)
     \/ /\ ~IsCancelled(slots[visit].id)
        /\ slots' = [slots EXCEPT ![visit].terminal = TRUE]
        /\ fate' = [fate EXCEPT ![slots[visit].id] = "done"]
        /\ UNCHANGED <<token, cancels>>
     \/ /\ ~IsCancelled(slots[visit].id)
        /\ UNCHANGED <<slots, token, cancels, fate>>
  /\ UNCHANGED <<admission, cancelled, queue, clientVars, rxAlive, dPc, needsReorder>>

(* The rest of run_pass, and the park that any timeout ends. *)
EndPass ==
  /\ dPc = "visit" /\ visit > Len(slots)
  /\ slots' = RemoveTerminal(slots)
  /\ dPc' = "drain"
  /\ UNCHANGED <<admission, cancelled, queue, token, clientVars, rxAlive, needsReorder, visit,
                 cancels, fate>>

(* run_loop returned: the roster is dropped, and then the receiver with    *)
(* what is still queued in it.                                             *)
DropRoster ==
  /\ dPc = "exit"
  /\ OnCancel(Due(Tasks))
  /\ slots' = <<>>
  /\ dPc' = "dropRx"
  /\ UNCHANGED <<admission, cancelled, queue, clientVars, rxAlive, needsReorder, visit>>

DropReceiver ==
  /\ dPc = "dropRx"
  /\ rxAlive' = FALSE
  /\ fate' = [t \in Tasks |->
                IF \E i \in DOMAIN queue : queue[i] = [kind |-> "Register", id |-> t]
                THEN "dropped" ELSE fate[t]]
  /\ queue' = <<>>
  /\ dPc' = "gone"
  /\ UNCHANGED <<admission, cancelled, token, clientVars, slots, needsReorder, visit, cancels>>

Loop == Drain \/ CheckCancel \/ BeginPass \/ Visit \/ EndPass \/ DropRoster \/ DropReceiver
-----------------------------------------------------------------------------
Init ==
  /\ admission = "Open" /\ lockedBy = 0 /\ cancelled = FALSE
  /\ capacity \in 1 .. MaxCapacity /\ active = 0
  /\ queue = <<>> /\ rxAlive = TRUE
  /\ cPc = [t \in Tasks |-> "new"]
  /\ token = [t \in Tasks |-> FALSE]
  /\ want = [t \in Tasks |-> 0]
  /\ stopPc = "none"
  /\ dPc = "drain" /\ slots = <<>> /\ needsReorder = FALSE /\ visit = 1
  /\ cancels = [t \in Tasks |-> 0]
  /\ fate = [t \in Tasks |-> "none"]

ClientStep == \E t \in Tasks : Client(t)
Next ==
  /\ ClientStep \/ Shutdown \/ ShutdownCancel \/ CancelDispatcher \/ Loop
  /\ UNCHANGED capacity
Spec == Init /\ [][Next]_vars

(* The dispatcher is stopped by shutdown alone. *)
ShutdownSpec == Init /\ [][Next /\ ~CancelDispatcher]_vars

(* A tick returns and a park times out, so the loop goes round.  Nothing   *)
(* is asked of the clients.                                                *)
FairSpec == Spec /\ WF_vars(Loop /\ UNCHANGED capacity)
-----------------------------------------------------------------------------
TypeOK ==
  /\ admission \in {"Open", "Closed"} /\ lockedBy \in {0} \cup Tasks
  /\ cancelled \in BOOLEAN /\ rxAlive \in BOOLEAN /\ needsReorder \in BOOLEAN
  /\ capacity \in 1 .. MaxCapacity /\ active \in 0 .. capacity
  /\ queue \in Seq(Command) /\ slots \in Seq(Slot)
  /\ cPc \in [Tasks -> {"new", "reserved", "pending", "register", "handle", "unregister",
                        "release", "gone"}]
  /\ token \in [Tasks -> BOOLEAN] /\ want \in [Tasks -> Priorities]
  /\ stopPc \in {"none", "cancel", "done"}
  /\ dPc \in {"drain", "check", "pass", "visit", "exit", "dropRx", "gone"}
  /\ visit \in 1 .. NTasks + 1
  /\ cancels \in [Tasks -> Nat]
  /\ fate \in [Tasks -> {"none", "live", "done", "cancelled", "panicked", "dropped"}]

(* The roster never holds more tasks than the capacity, although a handle  *)
(* gives its reservation back before the dispatcher has removed the task:  *)
(* the Unregister of the one is queued before the Register of the next.    *)
RosterWithinCapacity == Len(slots) <= capacity

(* on_cancel is called on a task at most once, and never on one that       *)
(* finished or was never built, whichever of Unregister, the token, a      *)
(* panic, Shutdown and the drop of the roster come together.               *)
CancelledOnce ==
  \A t \in Tasks : cancels[t] = IF fate[t] = "cancelled" THEN 1 ELSE 0

(* A pass visits its tasks by priority and then by age, however commands,  *)
(* cancellations and priority changes left the roster.                     *)
VisitedByPriority ==
  dPc = "visit" => \A i, j \in DOMAIN slots : i < j => Before(slots[i], slots[j])

(* No registration is queued behind a Shutdown: what was admitted before   *)
(* the dispatcher closed is drained before it stops.                       *)
NothingBehindShutdown ==
  \A i, j \in DOMAIN queue :
    queue[i].kind = "Shutdown" /\ queue[j].kind = "Register" => j < i

(* A task that is queued as the dispatcher is shut down is cancelled: no   *)
(* admitted task is discarded without on_cancel.  The loop can read the    *)
(* token set by a shutdown that began after its last look at the queue.    *)
QueuedIsCancelled == \A t \in Tasks : fate[t] # "dropped"

(* A task whose handle was dropped leaves the roster for good. *)
DroppedHandleLeaves == \A t \in Tasks : cPc[t] = "gone" ~> [](t \notin Ids(slots))
=============================================================================
