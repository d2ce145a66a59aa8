# TLA+ models of kithara

kithara is a real-time audio engine written in Rust: a workspace of crates for
fetching media (file, HLS), storing it, decoding and rendering it, and for
driving all that from a player, a queue and user interfaces. This directory
holds TLA+ models of its concurrent core, the TLC runs that check them on small
instances, and TLAPS proofs of the invariants that carry the argument for every
instance.

Run everything from this directory:

    tlc -workers 4 -config CommandChannel.cfg MCCommandChannel
    tlapm CommandChannelProofs.tla

`PROJECT.json` lists every run with its properties, the source lines each
definition translates, the hazards the properties are aimed at, and for every
property a variant of the code that breaks it.

## Inventory

Paths are relative to `src/crates/`.

| part | state | operations | what is hard | what makes it correct | here |
|---|---|---|---|---|---|
| `kithara-command`: one-level channel | sender: next number, credits, applied and pending batches; rings of batches and receipts; gate; docket (schedule, arrived, parked, committed, ledger) | send, receipts, basis; drain, take_due, apply/commit/defer/refuse, take_deferred, park, take_parked, complete, refuse_timed, run_block; drop | two threads over lock-free rings; drop of the inbox during a send; answers out of order; judgement of a basis against a ledger that moves | each batch answered once; credits balance; applied shifts form a chain; the book tracks the ledger | `CommandChannel`, `ProjectedSender` |
| channel wakers | two `AtomicWaker`s, ring ends | hold, release, receipts, send, poll_drain, reply, both drops | register/look/sleep races; order of fields in two drops | no side sleeps through what it waits for | `ChannelWake` |
| `kithara-storage`: resource, memory driver | driver buffer and snapshot, observer's record, lock-free flag, gated state, available ranges, wait gate, cancel tokens | write_at, commit, reactivate, fail, abandon, drop, wait_range, read_at, read_into | state published in several steps; condition variable with cancellation from outside the lock; lock-free reads across generations | no lost wake-up, no torn read, record before status, nobody hangs on a writer that left | `StorageResource` |
| `kithara-command`: scoped channel | scope slots with generations over one ring, staged passes, a docket and a ledger per scope | open, close, stage, publish, receipts; drain, walk, retire; drop | a scope retired and opened again while replies are on the ring; one gate for all levels; Close without a credit of its own | nothing of a former generation reaches the next; credits and ring room balance over all levels; a closed scope becomes free | `ScopedChannel`, `ScopedAnswers` |
| `kithara-command`: mailbox | posts, holder and its waker, tickets | post, wait, give up; hold, drain, answer, release, drop | the holder is woken after the unlock; a post racing the drop or a hand-over | each post is answered exactly once, in order | `Mailbox`, `Requests` |
| `kithara-worker`: dispatcher | admission, reservations, command queue, roster with priorities, tokens | reserve, submit, set priority, drop of a handle, shutdown; drain, pass, drop of the loop | admission racing shutdown; a place given back before the task is gone; several ways to end a task | the roster fits, on_cancel at most once, passes by priority, tasks of dropped handles leave | `Dispatcher` |
| `kithara-storage`: mmap driver, atomic and chunked decorators | mapping, canonical file, handover lock | atomic write_all, in-place commit, resize | rename and reopen that fail half-way | readers see the old or the new payload | the deferred commit of the chunked decorator in `AvailabilityIndex`; rest planned |
| `kithara-assets`: availability index, flush hub | aggregate of entries, dirty flag, durability obligations, manifest file, worker, pending signal | acquire, record write and commit, remove, open; signal, flush, checkpoint; reopen | crash between a file and the manifest; mutations while a flush is under way; a barrier that fails half-way | the manifest never vouches for bytes that are not there, and catches up | `AvailabilityIndex` |
| `kithara-assets`: pins, LRU, leases, eviction | pinned roots, recency, leases, pending sessions | acquire, lease, pin, evict | eviction racing a lease | what is pinned or leased is not evicted | planned |
| `kithara-download` | registry of peers, request slots, epochs | register, fetch, cancel, complete | cancellation racing completion | each request ends once, slots return | planned |
| `kithara-abr` | variants, locks, current and pending decision | decide, lock, unlock, report | decision on stale estimates, locks held by several | no switch while locked | planned |
| `kithara-queue`, `kithara-events` | track list, cursor, loading track; event bus | navigation, load, advance | a late load for a track no longer wanted | the current track is the one last selected | planned |
| `kithara-bufpool` | shards, shared byte budget | get, put, trim | two counters moved apart | the budget balances | planned |
| `kithara-platform`: cancel tree | flags, children, waker registries, groups | cancel, child, register, on_cancel | child born while the parent is cancelled; overlapping cancels; groups told from several threads | a cancelled node has no live descendant for long; a callback runs once | `CancelTree` |
| `kithara-platform`: thread gate, `kithara-worker`: wake | edge counter, waiting and posted flags, the thread's permit | signal, post, wait | register/look/park races; the edge remembered after a wait | no signal is lost | `WakeGate` |
| `kithara-stream`, `kithara-file`, `kithara-hls` | blocking reader, sessions, segment plan | read, seek, flush, fetch | seek while a read blocks | a read after a seek returns bytes of the new place | planned |
| `kithara-play`, `kithara-host`, `kithara-render`, `kithara-audio` | decks, graph, render loop | outbox, render | they own the two sides of the channel | planned bases apply | use of the channel only |
| `kithara-broadcast` | segment window | rotate | window and playlist | | planned |
| `kithara-net`, decoders, encoders, DSP, analysis, link, DRM, UI, FFI, tools | | | I/O, numerics, presentation | | not modelled |

How the parts interact: a player or queue (owner) sends numbered batches to a
renderer or worker (executor) over a command channel and gets each of them back
in a receipt; download peers write into a storage resource that readers (stream,
HLS, decoders) wait on and read; assets hand out and evict these resources; a
cancel tree runs through all of them.

## Modules

### CommandChannel

One `Sender` and one `Inbox`, joined by two SPSC rings and a gate. Each action
is the code between two accesses to state the other thread sees: a ring push or
pop, the gate, the release of a ring end. So a send is `SendEnter` (the gate is
open) and `SendPush` (credit, push, book), and a drop of the inbox may run
between them; a drop is `CloseGate`, `Drain`, `Unanswered`, `ReleasePending`,
`ReleaseAnswers`.

| variables | code |
|---|---|
| `next`, `credits`, `applied`, `pending` | `Sender::next`, `Book` (`sender.rs`, `book.rs`) |
| `sPc`, `hand` | the sender's thread inside `send` or `receipts` |
| `gateClosed`, `commands`, `receipts`, `pendingHeld`, `answersHeld` | `Gate`, the rings and the inbox's ends of them |
| `schedule`, `arrived`, `parked`, `committed`, `ledger` | `Docket` |
| `xPc`, `held`, `start` | the executor's thread, the `Due` or `Deferred` it holds, its block |
| `answered` | history: receipts the owner has read |

A batch keeps its number, moment and basis; commands and refusal reasons are
payload. `Option<Seq>` is an integer with `None` = 0, `When` an integer ordered
as the enum is. Walks of the docket (`take_due`, `reject_outdated`,
`unanswered`) are one action per batch answered, because the owner may read the
receipt between two of them. An executor may answer a `Due` in each way the API
has, drop it unanswered, and drop the inbox between any two calls.

### ProjectedSender

Extends `CommandChannel` with the sender the player has (`Outbox::deck_owned`):
the basis of each batch is `Sender::basis`, which folds the batches in flight
over the applied ones. The executor is a willing one (it never refuses).

### ChannelWake

The same channel with batches counted and not told apart, and the two wakers
added: what registers when, what a wake spends, and the order in which the
fields of `Sender` and `Inbox` are dropped. Split finer than `CommandChannel`,
at every access to a waker or to a ring end. `AtomicWaker` and the scheduler of
the tasks are external: a wake reaches a registered waker once. Parked and
committed batches are left out, as they wait for an event of the executor's own.

### StorageResource

One resource over the memory driver: the owner's handle (active, committed,
reactivated, failed, abandoned, dropped), any number of `wait_range` callers,
one lock-free reader, and the tokens of the resource and of each wait. A byte
is the generation of the writer that wrote it, so a torn read shows. The gate's
lock is explicit (`holder`) from a waiter's look to its park, since a cancel
sets its token outside it. A write, commit or reactivation is a step per
published piece: driver, record, flag, gated state, notification.

Calls that fail change nothing and are left out, except a failed commit, which
consumes the writer and is `DropHandle`. A resource opened with
initial data, which is a committed one, and the observer's `on_write`, which
feeds an index, are left out. A read of the working buffer (no
snapshot published) is not kept: it takes the lock, and its bytes are whatever
was written so far.

### ScopedChannel and ScopedAnswers

The channel with a root and scopes. The owner stages a pass and publishes it
with one store; the gate is read before the push, so `PublishEnter` and
`PublishPush` are two steps. Levels judge as `CommandChannel` says, so here a
batch is its number, level and generation, an answer is Applied or Rejected, and
each level has one target that every batch shifts. `slots` is the owner's side
of a scope (state, generation, credits, applied), `life`, `dockets` and `ledger`
the inbox's. `since` is history: the first number of the incarnation.

`ScopedAnswers` adds the history that its liveness is about: what the owner put
on the ring (`published`) and how often each batch was read back (`answers`).
Each of its actions is one of `ScopedChannel` with what it moved recorded. A
Close that the last drain of a dropped inbox takes is never answered, in the
code as in the model (the drop retires nothing), so `ClosingFrees` leaves out
that one and one discarded with its pass, and no other.

### Requests and Mailbox

`Requests` is the abstract promise: a request taken is answered once, and its
answer stands. `Mailbox` is the detailed specification: one mutex, so each
critical section is a step, and the waker of the holder is called after the
unlock (`CallWaker`), when the owner may have changed hands. `Promise` maps a
post to a request: idle until numbered, waiting until answered. `PostError` and
a deadline that passes in `wait_until` change nothing and are left out.

### Dispatcher

One thread and one client per task. The admission lock is explicit where a
client holds it across two steps (`RegisterCheck`, then the send). The queue is
a sequence of Register, Unregister and Shutdown, the roster one of slots. A tick is the task's choice of a result, panics included; the ticks of a
burst are one visit. Every park of the loop ends by a timeout, so `Dispatcher`
leaves parks out and `WakeGate` models what ends them early.

### WakeGate

The `Wake` of a dispatcher over `ThreadGate`: the word of state (edge, waiting,
posted) and the permit of the waiter's thread, one step per atomic access of
the waiter. Signallers publish work and signal, posters only record it. A wait
is plain, or in slices after a pass that found its sinks full; in slices the
waiter goes back to wait, not to a pass, when a slice ends without an edge.

### CancelTree

Threads that walk subtrees (swap the flag, drain the wakers, run them, snapshot
the children), callers that derive children, and groups that register one
callback on several tokens. The children and the wakers of a node are under two
locks, each taken for one step. A node nobody holds can be observed by nobody,
so nodes are not freed.

### AvailabilityIndex

The availability index of the disk store, its hub and what a crash leaves. A
writer removes an unconfirmed file, fetches into a sibling, renames it
(`AtomicChunked::commit` with the deferred barrier) and records the commit with
its durability obligation. A flush, the worker's or a checkpoint's, takes the
dirty flag, reads each entry, takes the obligations, forces and verifies each
file, and writes the manifest; every barrier and the write may fail. `Kill`
leaves the page cache, `PowerLoss` may tear what was not forced, and the store
is opened again over the rest.

| variables | code |
|---|---|
| `file`, `manifest`, `written` | the canonical files and `availability.bin`, each with what of it is on the medium |
| `entries`, `final`, `owed`, `dirty` | `InnerIndex`: the aggregate, `final_len`, `pending_durability`, the flag |
| `signalled`, `nonDurable`, `worker`, `flush` | `FlushHub`: `pending`, `non_durable`, the worker's loop, the holder of `flush_lock` |
| `pc`, `removing`, `marking` | the writers, the editor inside `remove_resource`, threads inside `mark_dirty` |
| `mode` | whether the store is only filled, or resources are removed and opened plainly too |

Ranges of an entry, other sources of the hub, and empty files are left out. Only
`sync_data` counts as forcing; the write-back of a released mapping may do more
on some platforms. A finished rename, of a resource or of the manifest, is taken
to survive a loss of power. That is an assumption about the file system: the
code forces files and never their directory, so a system without ordered
metadata may bring back the former manifest or lose a name, and what the runs
and proofs say after a loss of power does not speak of it. A commit may fail
after its rename, when the file cannot be opened again (`GiveUp` from
`renamed`): the name stays and no entry records it. A rewrite of a committed
resource through `reactivate` (`resource/handle.rs`) is left out: the cache
reactivates only entries that are not committed (`decorator/cache/layer.rs`).

## Runs

| run | checks | shows | bounds | distinct states |
|---|---|---|---|---|
| `channel` | `ExactlyOnce`, `CreditsBalance`, `AppliedChain`, `SoleConsumer`, `LedgerForward`, `AnsweredAfterClose` | over every moment, basis, answer and drop, and at the limit of the credits; under fairness the owner gets every batch back after the gate closes, the one pushed behind it included | 2 targets, 2 credits, 2 batches and one too many, blocks of one frame | 1.2M |
| `projected` | `PlannedBatchesApply`, `BasisNeverRollsBack` | planned bases are never stale; a receipt never moves the projection back | 2 targets, at most one per batch, 4 batches, 3 credits | 102k |
| `wake` | `NobodyStranded`, `ClosedMeansDrained`, `EveryBatchReturns` | neither side sleeps over what the other left; every batch returns | 2 credits, 3 sends | 47k |
| `storage` | `UntornRead`, `PublishedIsDone`, `NoLostWake`, `WaitersReleased` | what is visible has happened; reads are whole; nobody hangs on a writer that left | 1 waiter, 1 reader, 2 bytes, 2 generations | 604k |
| `mailbox` | `RunsInPostOrder`, `NoLostWake`, `AnswersEachOnce`, `AnswersEach` | `Mailbox` implements `Requests`, its fairness included | 2 posters, 2 executors, 3 posts | 315k |
| `scoped` | `CreditsBalance`, `NothingOverflows`, `GenerationsAgree`, `OwnHistory` | levels and incarnations share the ring without touching each other | 2 scopes, 1 credit each, 3 batches, 2 generations | 3.9M |
| `scoped_live` | `ClosingFrees`, `AnsweredAfterDrop` | a closed scope becomes free; after the drop every batch published is read back exactly once | 1 scope, 2 batches, 3 generations | 38k |
| `dispatcher` | `RosterWithinCapacity`, `CancelledOnce`, `NothingBehindShutdown`, `VisitedByPriority`, `DroppedHandleLeaves` | tasks against shutdown, tokens, panics and priority changes | 2 tasks, capacity 1 or 2, 2 priorities | 632k |
| `dispatcher_queued` | `QueuedIsCancelled` | *violated* (finding below) | 1 task | |
| `wake_gate` | `NoLostSignal`, `SignalNotSwallowed`, `PostServed` | signals and posts against plain and sliced waits | 2 signallers, 1 poster, 3 edges | 75k |
| `cancel_tree` | `ChildNotMissed`, `CallbackOnce`, `ReachesChildren`, `GroupIsTold` | overlapping cancels, births and registrations | 3 nodes, 2 threads, 1 group | 67k |
| `availability` | `ManifestAfterBytes`, `SettledManifest`, `CommitReachesManifest` | the manifest against commits, removals, failing barriers, a crash and a reopened store | 1 resource, 2 lengths, 2 files renamed there, 1 death | 1.1M |

The longest runs (`availability`, `storage`, `dispatcher`, `channel`) take one to
four minutes on two cores. No run lists the type invariants: where a module
has proofs `TypeOK` is proved, elsewhere it documents the state.

Why the bounds suffice for the cases meant. With two credits
both rings can be filled to their last place. A third batch is offered only
while both credits are spent (`LastAtLimit` in `MCCommandChannel`), so the run
takes the refusal as Full, and a channel that let the batch in would have an
answer too many for its ring; credits spent again after they came back are in
`projected`, and in the proofs for every capacity. A receipt can be unread while
another batch is judged; with two targets two batches are enough for one to be
stale on one target and current on the other, for a commit completed late and
for a batch resumed late. Projection needs four batches: two committed, one
applied, one planned. In `wake` three sends over two credits let each side
sleep, be woken and sleep again before the last. Two bytes allow a range half
available and a commit shorter than the data; two generations allow a read that
spans a rewrite. Three posts let the owner change hands with one post drained,
one queued and one under way. Two generations of a scope are the one that is
retired and the one that could see its remains; three batches and a Close of
each scope are a pass that fills the ring of commands. In `scoped_live` a batch
of each level and a Close do the same with one scope, which can be closed twice.
With two tasks and capacity one, the second can be admitted only on the place
the first gave back. Three nodes allow a child derived under a node that is
itself being reached. One resource renamed into place twice, with two lengths,
gives a flush whose snapshot is older than the file it forces; a store that was
edited and reopened gets no further file (`ReopenedIsRead` in
`MCAvailabilityIndex`). A cohort of several files that fails half-way is not in
the run: with two resources its states are too many beside the liveness
property. `ManifestFollowsBytes` and `ManifestSettles` prove that case, for any
set of resources. `MaxSeq`, `MaxFrame`, `MaxSends`, `MaxPosts`, `MaxLen`,
`MaxGen`, `MaxSignals`, `MaxNodes`, `MaxPriority`, `MaxCapacity` and `MaxDeaths`
are bounds of the models and not of the code, where numbers are 64-bit counters
that no run of the program wraps.

Deadlock is checked in `channel`, `projected` and `storage`. The other systems
may come to rest: both halves of a channel or a mailbox gone, a dispatcher's
thread ended, every callback told, the bound on renames used up.

## Fairness

- `CommandChannel!Fairness`: a drop that has begun runs to its end on its
  thread, a send that was entered finishes, and the owner keeps reading. The
  first two are single function calls without blocking; the third is the
  owner's part of the protocol. Nothing is assumed of the executor.
- `ChannelWake!FairSpec`: a task that is woken runs, and finishes the call it
  is in. `ReceiptsStart` and `Reply` are strongly fair: an owner that keeps
  running (sending, holding, releasing) reads its receipts again and again, an
  executor that keeps polling answers what it drained. No send and no drop is
  owed.
- `StorageResource!FairSpec`: every thread inside a call goes on. A waiter's
  look and a cancel callback need the gate's mutex, which others take and
  release again and again, so they are strongly fair: the mutex is
  `parking_lot`'s (`kithara-platform/src/system/lock.rs`), which hands over
  fairly from time to time, so no waiter starves.
- `Mailbox!FairSpec`: a poster past the unlock calls the waker, a holder drains,
  answers, sleeps and wakes, and an owner without a holder is held again or
  dropped. The last is the protocol's demand on whoever owns the mailbox.
- `ScopedChannel!Fairness` (in `ScopedAnswers!SpecH`): an owner that keeps
  coming back publishes what it staged and reads its receipts; an executor that
  keeps walking drains and retires. These are strongly fair because each shares
  its thread with other calls; a call that was entered is weakly fair.
- `Dispatcher!FairSpec`: only the loop's thread, weakly. Clients owe nothing.
- `WakeGate!PromptSpec`: the waiter's thread runs and a call that began
  finishes; no wait times out unless `PostServed` assumes it of its slices
  (`WF_gateVars(TimeUp)`), so the other properties do not rest on a timeout.
- `CancelTree!FairSpec`: a cancel that began walks to its end, and a group that
  began to register finishes. No cancel is owed.
- `AvailabilityIndex!Fairness`: a thread inside `mark_dirty` goes on, a flush
  that holds the lock goes on, and the worker's thread runs. No checkpoint is
  owed. `CommitReachesManifest` speaks of behaviours in which no flush fails and
  the hub is not cancelled, since the code does not repeat a failed flush.

## Proofs

Eight modules prove theorems for every value of the constants their assumptions
allow (positive capacities and bounds, disjoint names, nothing about sizes):

| module | theorems |
|---|---|
| `CommandChannelProofs` | `ChannelTypeCorrect`, `ParkedStayFresh`, `RingHasOneConsumer`, `LedgerGoesForward`, `BatchesInOnePlace`, `CreditsStayBalanced`, `ShiftsFormAChain` |
| `ChannelWakeProofs` | `WakeTypeCorrect`, `ExecutorIsNeverStranded`, `OwnerIsNeverStranded`, `NobodyIsStranded`, `ClosedIsDrained` |
| `MailboxProofs` | `TypeCorrect`, `PostOrder`, `WakeNotLost`, `DropLeavesNothing`, `Refinement` |
| `PlatformProofs` | `TreeTypeCorrect`, `NoChildIsMissed`, `CancelGoesDown`, `CallbackRunsOnce`, `GateTypeCorrect`, `SignalIsNotLost`, `PlainWaitSeesSignals` |
| `AvailabilityIndexProofs` | `IndexTypeCorrect`, `ManifestSettles`, `ManifestFollowsBytes` |
| `StorageResourceProofs` | `StorageTypes`, `StorageNoLostWake`, `StorageUntornRead`, `StoragePublishedIsDone` |
| `DispatcherProofs` | `DispatcherTypes`, `DispatcherRosterWithinCapacity`, `DispatcherCancelledOnce`, `DispatcherNothingBehindShutdown`, `DispatcherVisitedByPriority` |
| `ScopedChannelProofs` | `ScopedTypes`, `CreditsStayBalanced`, `RingsNeverOverflow`, `GenerationsAlwaysAgree`, `HistoryIsOwn` |

With them every invariant a run checks is also proved, except the one about the
projection (`projected`). Each inductive invariant was model-checked on
a small instance before it was proved.

The first inductive invariant of the channel is `ChannelInv`. `LedgerForward` does not
follow from the types: recording a batch moves the ledger forward only because
the batch is newer than what it replaces. That takes `BasesBackward` (the basis
of every batch anywhere names older batches), `DueIsCurrent` (what the executor
holds as due still stands on the ledger, as nothing can move the ledger while it
is held) and `HandsFull` (there is a batch in the hand wherever the program
counters say so). With both, the entry replaced is the basis, and the basis is
older. `ParkedFresh` is inductive beside them: a ledger entry moves only on a
step into `outdate`, which is left when nothing parked is outdated; a deferred
due is parked with a basis equal to the ledger. `EndsInOrder` ties the two ring
ends to the executor's counter, which gives `SoleConsumer`.

`FlightInv` adds where batches are. `ExactlyOnce` and `CreditsBalance` are proved
together because each step of one needs the other: a batch put into a part of
the docket adds to its size only if its number is not there already, and an
answer is lost unless the receipt ring has room, which the balance gives as long
as the batch being answered is itself counted. Beside them: numbers not given
yet are nowhere (`NotYet`), the sender's hand bears the next number
(`HandIsNext`), the executor's hand is empty outside its work (`HandsIdle`) and
the docket is finite. Each action is shown to be one of a dozen motions of one
batch between two places (`ScheduleAnswered`, `HeldParked`, `DrainedToArrived`
...), or to move nothing; only a push adds a number.

`ChainInv` adds the history of shifts. `AppliedChain` is not inductive: that a
batch judged current joins its target's chain at the end takes `LedgerHeads`, the
ledger holds the newest shift of each target and nothing shifted it later. An
applied batch then names that shift as its basis and is newer. Completing a
commit moves a shift from the docket to the receipts and leaves the set of
shifts as it was, since its receipt is not lost (`FlightInv`). `DropIsClosed`
says that the leftovers of a drop, committed batches answered Unanswered, come
only behind the closed gate, where `AppliedChain` no longer speaks.

The inductive invariant of the wakers is `WakeInv`: besides types,
`EndsFollowThreads` (which end is released at which counter),
`ExecutorRegistered` (past its registration the executor is registered, or a
wake has been delivered, or there is nothing new for it) and `OwnerRegistered`,
the same for the owner that holds its sender. The two "not stranded" properties
speak only of a sleeping thread; the stronger forms speak of every point after
the registration, which is where a push may slip in.

`Refinement` shows that `Mailbox` implements `Requests` step by step. Its
invariant `MailboxInv` places every number: queued, in the hand of the executor
or of the drop, or answered, each at most once (`NumbersInPlace`, `InHand`,
`AnswersInPlace`), ties the phase to the holder (`HolderAgrees`) and says who
has been or will be called (`Called`). An answer then finds its request waiting.

The cancel tree needs more than its property. `ChildNotMissed` speaks of one
level; that a walk's remaining nodes were reached rightly is `PendingJustified`,
that a node not yet snapshotted keeps its children is `KidsKept`, that a thread
at work on a node has flagged it is `Held`, and that slots handed out for firing
belong to cancelled sources is `SlotsJustified`; `Shape` says that parents are
older than their children.

For the gate, `SignalOnItsWay` extends `NoLostSignal` from the park back to the
registration, with `FlagInside` (the waiting flag is up exactly inside the wait)
and `UnparkIsSignallers`.

`ManifestSettles` rests on `SettledInv`. The flag speaks for three things at
once: with it down and no thread about to raise it, the manifest is the index
(no flush), or what the flush has read so far is (`FlagSpeaks`). Beside it:
`LockHeld`, `KnownEntries` (so that a removal that changes the index also raises
the flag), `EditorWaits` and `UnforcedIsKnown`.

`ManifestFollowsBytes` rests on `FilledInv`, per key: what the manifest or the
flush under way names is what the index names, and it is whole or its obligation
is somewhere a flush that would name it cannot pass over (`Obliged`: with the
index, in the cohort still to be forced, or in the cohort an error is about to
put back). A key with a writer at work is not indexed, so nothing that is named
is replaced.

The storage resource publishes a call in several unlocked steps, so its invariant
`IInv` says what holds between them. `NoLostWake` needs `GateInv`: a waiter that
looked and is about to park holds the gate's lock, and its verdict can only have
changed through a token, whose callback is then still to come. `PublishedIsDone`
needs `RecordInv` (the record precedes the flag), `DriverInv` (the working buffer
has the driver's length except between a commit and the next reactivation) and
`AnnounceInv` (what the first writer announced is written). `UntornRead` needs
that every snapshot in place was published, and that a read in progress has
returned nothing yet. The model assumes that no waiter bears the name `"nobody"`
of the free lock; the names are the model's own.

The dispatcher's `CapacityInv` is the one that is hard to find. A dropped handle
gives its place back while its task is still in the roster, so the roster and
the reservations together may exceed the capacity. What stays within it is the
roster as it will be after any number of the commands still queued (`After(k)`,
for every `k`), which bounds the roster itself at `k = 0`; after all of them it
holds only tasks whose handle is still there, as long as admission is open. That
is kept because an Unregister is sent before its reservation is released, and a
Register only by a client that holds one. `QueueInv` orders the commands of a
task and puts every Register before any Shutdown, with `LockInv` (a client
between its check and its send holds the lock, and admission is open).
`FateInv` ties slots to fates, so that `on_cancel` finds a live task, and
`OrderInv` says that a roster that may be out of order is known to be.

For these proofs `RemoveTerminal` and `ReorderSlots` are written with ranks: the
n-th slot kept is the one with n - 1 kept slots before it, and the n-th of the
sorted roster the one that n - 1 slots go before. The prover has no account of
`SelectSeq` and `SortSeq`; that ranks name every slot once follows from counting
(`RankTaken`, `RankOrders`), without induction.

The scoped channel's `ScopedInv` takes what was staged and what was published
as one queue, `pipe`: publishing a pass that fits moves nothing in it. It says of
each place a batch goes through (pipe, docket, ring of replies) and of each place
the token of a Close goes through (pipe, the flag of the lifecycle, a Closed)
that what is there is of the incarnation of the owner's slot (`PipeOwn`,
`DocketInv`, `ReplyInv`), and that the token comes last: while it is in the pipe
nothing of its scope is behind it, once the flag is up the pipe has nothing of
the scope, and once a Closed is on its way neither has the docket. `LifeInv` then
knows how far the two sides are apart: the inbox is one generation ahead exactly
while a Closed is unread, and then its ledger is clean, which is why the slot
that the owner frees on reading it remembers nothing. Numbers in the pipe rise
and are younger than those in the dockets (`PipeInv`, `Drained`), so a batch that
is drained is new to its docket and the count goes up.

The balance of a level bounds what that level has in a ring, but the rings are
shared, and that the bounds of all levels add up to the ring's size is a sum over
a constant number of scopes. `RingRoom` replaces the induction by counting: an
item of a scope is mapped to its scope and to the number of the scope's batches
before it, a Close or Closed to its scope and the last number, and that map is
injective into `Scopes \X 0 .. ScopeCapacity`, which has `ScopeRoom` elements.
The proofs need the balance to know that a push lands and that pushes land to
keep the balance, also after the gate has closed, where a discarded pass loses
credits and the balance is an inequality; that is what the
half of `NothingOverflows` about orphans takes.

Only model-checked: every liveness property (fairness and `ENABLED` are out of
the prover's reach), the liveness half of the refinement with them; and the
projection, a fold over a sorted sequence, which would need induction over data.
No module with theorems reaches a `RECURSIVE` operator.

## Finding

`dispatcher_queued`. `cancel_and_drain` empties the queue first and looks at the
token afterwards. A registration and a shutdown that both fall between the two
leave Register and Shutdown in the queue; the loop returns on the token, and the
receiver drops the admitted task without `on_cancel`, although its client holds
a handle. The test `shutdown_cancels_and_recycles_a_queued_never_run_task_once`
holds the loop inside a tick and does not reach this order.

## Observations

Met while modelling; true of the code, and the reason why some properties are
stated with a condition.

- `Book::basis` judges a pending batch all-or-nothing against its guess. A batch
  committed on two targets, then followed on one of them by a batch whose
  receipt is read first, no longer matches, and its shift of the other target
  drops out of the projection though it is in the ledger: the next batch planned
  there is Stale. With one target per batch this cannot happen (`projected`).
- A commit shorter than what was written leaves ranges past the end available,
  and coverage is looked at before the end: `wait_range` answers Ready where its
  documentation says Eof. `PublishedIsDone` therefore speaks of the time before
  the commit.
- `read_into` loads the length and the bytes separately, so across a
  reactivation it can return the head of a longer generation cut at the former
  length. The bytes themselves are never mixed (`UntornRead`).
- In sliced waits a signal that falls between the end of a slice and the store
  of `seen` is taken for one seen before and waits for the deadline.
  `SignalNotSwallowed` is about plain waits.
- A plain `open_resource` of a file a crash left behind records it as committed
  and owes no barrier for it, so the next manifest names bytes nobody forced.
  A key removed and fetched again is named by the old manifest until the next
  flush. `ManifestAfterBytes` is therefore about stores that are only filled.
- After a kill, a checkpoint over a clean index does not force the manifest that
  the former process wrote without forcing it (`written = "left"`).
- A failed flush leaves the index dirty, and nothing repeats it until the next
  signal or checkpoint.

## Plan

In this order:

1. `kithara-assets`: pins, LRU, leases and eviction over `AvailabilityIndex`
   (a snapshot of the pins is taken before the evictor walks); the atomic
   decorator of `kithara-storage`, whose rename or reopen may fail after the
   backing was released.
2. The live configuration of `kithara-command`, a small module that refines
   `Requests` as `Mailbox` does.
3. `kithara-download` (request slots and epochs, a cancel against a completion),
   `kithara-abr`, `kithara-queue` (a late load for a track no longer wanted),
   `kithara-bufpool`, `kithara-broadcast`, each a module of its own; streams and
   HLS last, as they compose the others.

## Not modelled

Decoders, encoders, resampling, stretching, analysis and tempo synchronisation
are numeric; the network, the mmap system calls and the audio device are I/O;
user interfaces and bindings present what the engine does; tools and fixtures
are not the program, and are most of the repository's lines. Within the modelled
parts: `SendError::Target`, `committed_mut` and `next_gap` of the channel change
nothing the properties tell apart; calls of a storage resource that fail change
nothing, except a failed commit; the dispatcher's observer, the lengths of its
parks and its bounded compute are left out; so are the hub's other sources.
