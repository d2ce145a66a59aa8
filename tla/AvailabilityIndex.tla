------------------------- MODULE AvailabilityIndex -------------------------
(* The availability index of the disk asset store (kithara-assets) and the *)
(* hub that flushes it.  Writers fetch resources into a sibling file,      *)
(* rename it into place and record the commit; the file's bytes are forced *)
(* onto the medium later, by whichever flush takes the file's durability   *)
(* obligation, before that flush writes the manifest that names it.  The   *)
(* flushes are the worker's, after a signal, and the checkpoints of        *)
(* clients.  The process can be killed and the machine can lose power at   *)
(* any point; the store opened afterwards trusts what its manifest names.  *)
(*                                                                         *)
(* A store is only filled, or it is edited too: then resources are removed *)
(* (by a client, the evictor or the lease of a failed writer) and files    *)
(* are opened that the index does not know.  A key has one writer at a     *)
(* time (the cache above joins a second one to it).  The bytes of a file   *)
(* are its generation; lengths are kept, zero is left out.  A manifest     *)
(* read from a medium it was not forced onto may fail to validate and then *)
(* reads as empty.                                                         *)
EXTENDS Integers

CONSTANTS Keys, MaxLen, MaxGen, MaxDeaths

ASSUME BoundsAssumption ==
  MaxLen \in Nat \ {0} /\ MaxGen \in Nat \ {0} /\ MaxDeaths \in Nat

(* The thread that removes and opens is none of the writers.               *)
ASSUME EditorAssumption == "editor" \notin Keys

VARIABLES
  mode,         \* "fill": commits only; "edit": removals and plain opens too
  file,         \* what is at a key's canonical path: the last generation renamed
                \* there, its length, and its bytes ("none" once it is removed)
  manifest,     \* availability.bin: the final length it gives a key, 0 for none
  written,      \* whether availability.bin is on the medium: "synced", "cached", or
                \* "left" so by a process that was killed
  entries,      \* keys the aggregate has an entry for
  final,        \* final_len of an entry, 0 for None
  owed,         \* pending_durability
  dirty,        \* InnerIndex::dirty
  signalled,    \* HubState::pending
  nonDurable,   \* FlushHub::non_durable holds this index
  worker,       \* where the flush worker is in its loop
  flush,        \* the flush that holds flush_lock
  pc,           \* where the writer of a key is
  removing,     \* keys whose file is removed and whose entry comes next
  marking,      \* how far a thread is in mark_dirty
  deaths

disk == <<file, manifest, written>>
index == <<entries, final, owed>>
hub == <<dirty, signalled, nonDurable, worker, flush>>
vars == <<mode, disk, index, hub, pc, removing, marking, deaths>>

Lens == 1..MaxLen
Editor == "editor"                      \* the thread that removes and opens
Threads == Keys \cup {Editor}
Blank == [k \in Keys |-> 0]
Holder == [by |-> "nobody", step |-> "free", todo |-> {}, selected |-> Blank,
           cohort |-> {}, left |-> {}, opened |-> {}]

Exists(k) == file[k].bytes # "none"
Confirmed(k) == final[k] # 0 /\ Exists(k)
Free(t) == marking[t] = "no"

-----------------------------------------------------------------------------
(* mark_dirty: the flag first, the signal to the hub after it.             *)

Mark(t) ==
  /\ marking[t] = "mark"
  /\ dirty' = TRUE
  /\ marking' = [marking EXCEPT ![t] = "signal"]
  /\ UNCHANGED <<mode, disk, index, signalled, nonDurable, worker, flush, pc, removing, deaths>>

(* Variant of Signal: nothing is left for a worker that does not wait.     *)
SignalWaiting(t) ==
  /\ marking[t] = "signal"
  /\ signalled' = (signalled \/ worker = "wait")
  /\ marking' = [marking EXCEPT ![t] = "no"]
  /\ UNCHANGED <<mode, disk, index, dirty, nonDurable, worker, flush, pc, removing, deaths>>

Signal(t) ==
  /\ marking[t] = "signal"
  /\ signalled' = TRUE
  /\ marking' = [marking EXCEPT ![t] = "no"]
  /\ UNCHANGED <<mode, disk, index, dirty, nonDurable, worker, flush, pc, removing, deaths>>

-----------------------------------------------------------------------------
(* Writers.                                                                *)

(* A file the index does not vouch for is removed and fetched again.       *)
Acquire(k) ==
  /\ pc[k] = "idle" /\ Free(k)
  /\ ~Confirmed(k)
  /\ file' = [file EXCEPT ![k] = [@ EXCEPT !.bytes = "none", !.len = 0]]
  /\ pc' = [pc EXCEPT ![k] = "writing"]
  /\ UNCHANGED <<mode, manifest, written, index, hub, removing, marking, deaths>>

RecordWrite(k) ==
  /\ pc[k] = "writing" /\ Free(k)
  /\ k \notin entries
  /\ entries' = entries \cup {k}
  /\ marking' = [marking EXCEPT ![k] = "mark"]
  /\ UNCHANGED <<mode, disk, final, owed, hub, pc, removing, deaths>>

(* A writer dropped, failed or refused its rename, or one whose renamed    *)
(* file could not be opened again: the name stays and nothing records it.  *)
GiveUp(k) ==
  /\ pc[k] \in {"writing", "renamed"} /\ Free(k)
  /\ pc' = [pc EXCEPT ![k] = "idle"]
  /\ UNCHANGED <<mode, disk, index, hub, removing, marking, deaths>>

(* AtomicChunked::commit with the deferred barrier: the name is there, the *)
(* bytes need not be.                                                      *)
Rename(k) ==
  /\ pc[k] = "writing" /\ Free(k)
  /\ file[k].gen < MaxGen
  /\ \E n \in Lens :
       file' = [file EXCEPT ![k] = [len |-> n, gen |-> file[k].gen + 1, bytes |-> "cached"]]
  /\ pc' = [pc EXCEPT ![k] = "renamed"]
  /\ UNCHANGED <<mode, manifest, written, index, hub, removing, marking, deaths>>

(* The obligation and the entry under one guard, which a flush that takes  *)
(* the obligations has to wait for.                                        *)
RecordFileCommit(k) ==
  /\ pc[k] = "renamed"
  /\ owed' = owed \cup {k}
  /\ entries' = entries \cup {k}
  /\ final' = [final EXCEPT ![k] = file[k].len]
  /\ pc' = [pc EXCEPT ![k] = "idle"]
  /\ marking' = [marking EXCEPT ![k] = "mark"]
  /\ UNCHANGED <<mode, disk, hub, removing, deaths>>

-----------------------------------------------------------------------------
(* An edited store.                                                        *)

RemoveFile(k) ==
  /\ mode = "edit" /\ Free(Editor) /\ removing = {}
  /\ file' = [file EXCEPT ![k].bytes = "none"]
  /\ removing' = {k}
  /\ UNCHANGED <<mode, manifest, written, index, hub, pc, marking, deaths>>

RemoveEntry(k) ==
  /\ k \in removing
  /\ entries' = entries \ {k}
  /\ final' = [final EXCEPT ![k] = 0]
  /\ removing' = {}
  /\ marking' = [marking EXCEPT ![Editor] = IF k \in entries THEN "mark" ELSE "no"]
  /\ UNCHANGED <<mode, disk, owed, hub, pc, deaths>>

(* open_resource records the length of whatever file is there and owes     *)
(* nothing for it.                                                         *)
OpenResource(k) ==
  /\ mode = "edit" /\ Free(Editor) /\ removing = {}
  /\ Exists(k) /\ final[k] # file[k].len
  /\ final' = [final EXCEPT ![k] = file[k].len]
  /\ entries' = entries \cup {k}
  /\ marking' = [marking EXCEPT ![Editor] = "mark"]
  /\ UNCHANGED <<mode, disk, owed, hub, pc, removing, deaths>>

-----------------------------------------------------------------------------
(* A flush, under flush_lock.                                              *)

(* flush_dirty takes the flag before anything is read.  A checkpoint also  *)
(* repeats what the worker last wrote without forcing it.                  *)
Begin(by) ==
  LET needed == dirty \/ (by = "checkpoint" /\ nonDurable)
  IN /\ flush.by = "nobody"
     /\ dirty' = FALSE
     /\ flush' = IF needed THEN [Holder EXCEPT !.by = by, !.step = "select", !.todo = Keys]
                 ELSE Holder

Checkpoint ==
  /\ Begin("checkpoint")
  /\ signalled' = FALSE
  /\ UNCHANGED <<mode, disk, index, nonDurable, worker, pc, removing, marking, deaths>>

(* snapshot_aggregate: the committed entries, each read at a moment of its *)
(* own.  The tree is held, so an entry that leaves it reads as before.     *)
SelectEntry(k) ==
  /\ flush.step = "select" /\ k \in flush.todo
  /\ flush' = [flush EXCEPT !.selected = [@ EXCEPT ![k] = final[k]], !.todo = @ \ {k}]
  /\ UNCHANGED <<mode, disk, index, dirty, signalled, nonDurable, worker, pc,
                 removing, marking, deaths>>

(* Once the values are frozen, barrier_pending_files lists the obligations *)
(* and then takes those it listed, all before it opens the first file.     *)
AfterTaking(todo) == IF todo = {} THEN "sync" ELSE "take"

CollectPaths ==
  /\ flush.step = "select" /\ flush.todo = {}
  /\ flush' = [flush EXCEPT !.step = AfterTaking(owed), !.todo = owed]
  /\ UNCHANGED <<mode, disk, index, dirty, signalled, nonDurable, worker, pc,
                 removing, marking, deaths>>

TakePath(k) ==
  /\ flush.step = "take" /\ k \in flush.todo
  /\ flush' = [flush EXCEPT !.step = AfterTaking(flush.todo \ {k}), !.todo = @ \ {k},
                            !.cohort = @ \cup {k}, !.left = @ \cup {k}]
  /\ owed' = owed \ {k}
  /\ UNCHANGED <<mode, disk, entries, final, dirty, signalled, nonDurable, worker,
                 pc, removing, marking, deaths>>

(* A missing file is a finished removal if neither the selected nor the    *)
(* live aggregate knows its key; otherwise it is an error.                 *)
Missing(k) ==
  IF flush.selected[k] = 0 /\ k \notin entries
  THEN [flush EXCEPT !.step = "sync", !.left = @ \ {k}]
  ELSE [flush EXCEPT !.step = "err"]

(* sync_selected_file, up to and with sync_data, which may fail.           *)
SyncFile(k) ==
  /\ flush.step = "sync" /\ k \in flush.left
  /\ \/ /\ ~Exists(k)
        /\ flush' = Missing(k)
        /\ UNCHANGED file
     \/ /\ Exists(k)
        /\ file' = [file EXCEPT ![k].bytes = IF @ = "cached" THEN "synced" ELSE @]
        /\ flush' = [flush EXCEPT !.step = "verify", !.left = @ \ {k},
                                    !.opened = {<<k, file[k].gen>>}]
     \/ /\ flush' = [flush EXCEPT !.step = "err"]
        /\ UNCHANGED file
  /\ UNCHANGED <<mode, manifest, written, index, dirty, signalled, nonDurable,
                 worker, pc, removing, marking, deaths>>

(* The path must still name the file that was forced, at the selected      *)
(* length.                                                                 *)
StillSelected(k, gen) ==
  file[k].gen = gen /\ flush.selected[k] \in {0, file[k].len}

Verify ==
  /\ flush.step = "verify"
  /\ \E o \in flush.opened :
       flush' = IF ~Exists(o[1]) THEN [Missing(o[1]) EXCEPT !.opened = {}]
                ELSE [flush EXCEPT !.opened = {},
                                   !.step = IF StillSelected(o[1], o[2]) THEN "sync" ELSE "err"]
  /\ UNCHANGED <<mode, disk, index, dirty, signalled, nonDurable, worker, pc,
                 removing, marking, deaths>>

(* Where a flush returns to: the worker to its loop or its end.            *)
Returned == IF flush.by = "worker"
            THEN IF worker = "final" THEN "gone" ELSE "wait"
            ELSE worker

(* Variant of WriteManifest: the dirty flag is cleared once the file is    *)
(* written.                                                                *)
WriteThenClear ==
  /\ flush.step = "sync" /\ flush.left = {}
  /\ manifest' = flush.selected
  /\ written' = IF flush.by = "checkpoint" THEN "synced" ELSE "cached"
  /\ nonDurable' = (flush.by = "worker")
  /\ dirty' = FALSE
  /\ worker' = Returned
  /\ flush' = Holder
  /\ UNCHANGED <<mode, file, index, signalled, pc, removing, marking, deaths>>

(* Variant of WriteManifest: what is written is the index as it is now.    *)
WriteLive ==
  /\ flush.step = "sync" /\ flush.left = {}
  /\ manifest' = final
  /\ written' = IF flush.by = "checkpoint" THEN "synced" ELSE "cached"
  /\ nonDurable' = (flush.by = "worker")
  /\ worker' = Returned
  /\ flush' = Holder
  /\ UNCHANGED <<mode, file, index, dirty, signalled, pc, removing, marking, deaths>>

(* write_aggregate: a sibling file, forced first by a checkpoint, renamed  *)
(* over the manifest.                                                      *)
WriteManifest ==
  /\ flush.step = "sync" /\ flush.left = {}
  /\ manifest' = flush.selected
  /\ written' = IF flush.by = "checkpoint" THEN "synced" ELSE "cached"
  /\ nonDurable' = (flush.by = "worker")
  /\ worker' = Returned
  /\ flush' = Holder
  /\ UNCHANGED <<mode, file, index, dirty, signalled, pc, removing, marking, deaths>>

(* The manifest could not be written; the files of the cohort are forced.  *)
WriteFails ==
  /\ flush.step = "sync" /\ flush.left = {}
  /\ flush' = [flush EXCEPT !.step = "err", !.cohort = {}]
  /\ UNCHANGED <<mode, disk, index, dirty, signalled, nonDurable, worker, pc,
                 removing, marking, deaths>>

(* Variant of Abort: the cohort's obligations are not put back.            *)
AbortForgets ==
  /\ flush.step = "err"
  /\ dirty' = TRUE
  /\ worker' = Returned
  /\ flush' = Holder
  /\ UNCHANGED <<mode, disk, index, signalled, nonDurable, pc, removing, marking, deaths>>

(* An error puts the cohort's obligations back and leaves the index dirty. *)
Abort ==
  /\ flush.step = "err"
  /\ owed' = owed \cup flush.cohort
  /\ dirty' = TRUE
  /\ worker' = Returned
  /\ flush' = Holder
  /\ UNCHANGED <<mode, disk, entries, final, signalled, nonDurable, pc, removing,
                 marking, deaths>>

Flushing ==
  \/ \E k \in Keys : SelectEntry(k) \/ TakePath(k) \/ SyncFile(k)
  \/ CollectPaths \/ Verify \/ WriteManifest \/ WriteFails \/ Abort

-----------------------------------------------------------------------------
(* The flush worker.  How long it coalesces signals is left open.          *)

(* The token is found cancelled, with nothing signalled or while signals   *)
(* are coalesced: the worker flushes for the last time.                    *)
WorkerCancelled ==
  /\ worker = "wait"
  /\ worker' = "final"
  /\ UNCHANGED <<mode, disk, index, dirty, signalled, nonDurable, flush, pc, removing, marking,
                 deaths>>

(* The signal is taken before the flush it asks for.                       *)
WorkerWakes ==
  /\ worker = "wait" /\ signalled
  /\ signalled' = FALSE
  /\ worker' = "flush"
  /\ UNCHANGED <<mode, disk, index, dirty, nonDurable, flush, pc, removing, marking, deaths>>

WorkerBegins ==
  /\ worker \in {"flush", "final"}
  /\ Begin("worker")
  /\ worker' = IF dirty THEN worker ELSE IF worker = "final" THEN "gone" ELSE "wait"
  /\ UNCHANGED <<mode, disk, index, signalled, nonDurable, pc, removing, marking, deaths>>

Worker == WorkerWakes \/ WorkerBegins

-----------------------------------------------------------------------------
(* The process dies, by a kill or with the machine, and a store is opened  *)
(* over what is left.  A kill leaves the page cache; a loss of power may   *)
(* leave a file whose bytes were not forced with others in their place.    *)

Reopened(m) ==
  /\ manifest' = m
  /\ final' = [k \in Keys |-> IF Exists(k) THEN m[k] ELSE 0]
  /\ entries' = {k \in Keys : Exists(k) /\ m[k] # 0}
  /\ dirty' = (\E k \in Keys : m[k] # 0 /\ ~Exists(k))
  /\ deaths' = deaths + 1
  /\ owed' = {}
  /\ signalled' = FALSE /\ nonDurable' = FALSE
  /\ worker' = "wait" /\ flush' = Holder
  /\ pc' = [k \in Keys |-> "idle"] /\ removing' = {}
  /\ marking' = [t \in Threads |-> "no"]
  /\ UNCHANGED mode

Kill ==
  /\ deaths < MaxDeaths
  /\ Reopened(manifest)
  /\ written' = IF written = "cached" THEN "left" ELSE written
  /\ UNCHANGED file

PowerLoss ==
  /\ deaths < MaxDeaths
  /\ \E lost \in SUBSET {k \in Keys : file[k].bytes = "cached"} :
       file' = [k \in Keys |-> [file[k] EXCEPT !.bytes =
                                 IF k \in lost THEN "torn"
                                 ELSE IF @ = "cached" THEN "synced" ELSE @]]
  /\ Reopened(manifest) \/ (written # "synced" /\ Reopened(Blank))
  /\ written' = "synced"

-----------------------------------------------------------------------------
Init ==
  /\ mode \in {"fill", "edit"}
  /\ file = [k \in Keys |-> [len |-> 0, gen |-> 0, bytes |-> "none"]]
  /\ manifest = Blank /\ written = "synced"
  /\ entries = {} /\ final = Blank /\ owed = {}
  /\ dirty = FALSE /\ signalled = FALSE /\ nonDurable = FALSE
  /\ worker = "wait" /\ flush = Holder
  /\ pc = [k \in Keys |-> "idle"] /\ removing = {}
  /\ marking = [t \in Threads |-> "no"]
  /\ deaths = 0

Next ==
  \/ \E t \in Threads : Mark(t) \/ Signal(t)
  \/ \E k \in Keys : \/ Acquire(k) \/ RecordWrite(k) \/ GiveUp(k) \/ Rename(k)
                     \/ RecordFileCommit(k)
                     \/ RemoveFile(k) \/ RemoveEntry(k) \/ OpenResource(k)
  \/ Checkpoint \/ Flushing
  \/ Worker \/ WorkerCancelled
  \/ Kill \/ PowerLoss

Spec == Init /\ [][Next]_vars

(* A thread inside mark_dirty goes on, a flush that holds the lock goes    *)
(* on, and the worker's thread runs.                                       *)
Fairness ==
  /\ \A t \in Threads : WF_vars(Mark(t) \/ Signal(t))
  /\ WF_vars(Flushing)
  /\ WF_vars(Worker)

-----------------------------------------------------------------------------
(* Properties.                                                             *)

FileType == [len : 0..MaxLen, gen : 0..MaxGen,
             bytes : {"none", "cached", "synced", "torn"}]
FlushType == [by : {"nobody", "worker", "checkpoint"},
              step : {"free", "select", "take", "sync", "verify", "err"},
              todo : SUBSET Keys, selected : [Keys -> 0..MaxLen], cohort : SUBSET Keys, left : SUBSET Keys,
              opened : SUBSET (Keys \X (0..MaxGen))]

(* The types of the state.                                                 *)
TypeOK ==
  /\ mode \in {"fill", "edit"}
  /\ file \in [Keys -> FileType]
  /\ manifest \in [Keys -> 0..MaxLen] /\ written \in {"synced", "cached", "left"}
  /\ entries \subseteq Keys /\ final \in [Keys -> 0..MaxLen] /\ owed \subseteq Keys
  /\ dirty \in BOOLEAN /\ signalled \in BOOLEAN /\ nonDurable \in BOOLEAN
  /\ worker \in {"wait", "flush", "final", "gone"}
  /\ flush \in FlushType
  /\ pc \in [Keys -> {"idle", "writing", "renamed"}]
  /\ removing \subseteq Keys
  /\ marking \in [Threads -> {"no", "mark", "signal"}]
  /\ deaths \in 0..MaxDeaths

(* In a store that is only filled the manifest never names a file whose    *)
(* bytes are not on the medium, whenever the process dies: what it names   *)
(* after a loss of power is whole (flush_with_durability: the snapshot is  *)
(* frozen before its files are forced and written after).                  *)
ManifestAfterBytes ==
  mode = "fill" => \A k \in Keys : manifest[k] # 0 => file[k].bytes = "synced"

(* With the flag down, no mutation on its way to raising it and no flush   *)
(* under way, the manifest says what the index says; if this process wrote *)
(* it without forcing it, a checkpoint still knows that it has to.         *)
SettledManifest ==
  ~dirty /\ flush.by = "nobody" /\ (\A t \in Threads : marking[t] # "mark")
    => manifest = final /\ (written = "cached" => nonDurable)

(* While no flush fails and the hub is not cancelled, a commit reaches the *)
(* manifest by the signal that mark_dirty sends after the flag, without    *)
(* any checkpoint, unless the resource is removed or the process dies.  (A *)
(* failed flush leaves the index dirty but is not repeated by itself.)     *)
CommitReachesManifest ==
  [](flush.step # "err" /\ worker \notin {"final", "gone"}) =>
    \A k \in Keys : final[k] # 0 ~> (manifest[k] = final[k] \/ final[k] = 0)
=============================================================================
