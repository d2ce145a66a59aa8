---------------------- MODULE AvailabilityIndexProofs ----------------------
(* Proofs about AvailabilityIndex, for every set of keys and all bounds.   *)
EXTENDS AvailabilityIndex, TLAPS

-----------------------------------------------------------------------------
(* No variable of the index, the hub or the disk leaves its type.          *)

LEMMA HolderType == Holder \in FlushType /\ Blank \in [Keys -> 0..MaxLen]
BY BoundsAssumption DEF Holder, Blank, FlushType

LEMMA TypeInit == Init => TypeOK
<1> SUFFICES ASSUME Init PROVE TypeOK
  OBVIOUS
<1>1. file \in [Keys -> FileType]
  BY BoundsAssumption DEF Init, FileType
<1>2. manifest \in [Keys -> 0..MaxLen] /\ final \in [Keys -> 0..MaxLen] /\ flush \in FlushType
  BY HolderType DEF Init
<1>3. dirty \in BOOLEAN /\ signalled \in BOOLEAN /\ nonDurable \in BOOLEAN
  BY DEF Init
<1>4. deaths \in 0..MaxDeaths
  BY BoundsAssumption DEF Init
<1>5. entries \subseteq Keys /\ owed \subseteq Keys /\ removing \subseteq Keys
  BY DEF Init
<1>6. pc \in [Keys -> {"idle", "writing", "renamed"}] /\ marking \in [Threads -> {"no", "mark", "signal"}]
  BY DEF Init
<1> QED
  BY <1>1, <1>2, <1>3, <1>4, <1>5, <1>6 DEF Init, TypeOK

LEMMA TypeWriters ==
  ASSUME TypeOK, NEW k \in Keys,
         \/ Acquire(k) \/ RecordWrite(k) \/ GiveUp(k) \/ Rename(k) \/ RecordFileCommit(k)
  PROVE  TypeOK'
<1> USE BoundsAssumption DEF TypeOK, disk, index, hub, Lens, Threads
<1>1. CASE Acquire(k)
  <2>1. file' \in [Keys -> FileType]
    <3>1. [file[k] EXCEPT !.bytes = "none", !.len = 0] \in FileType
      <4>1. file[k] \in FileType /\ 0 \in 0..MaxLen
        OBVIOUS
      <4> QED
        BY <4>1 DEF FileType
    <3> QED
      BY <1>1, <3>1 DEF Acquire
  <2> QED
    BY <1>1, <2>1 DEF Acquire
<1>2. CASE RecordWrite(k)
  BY <1>2 DEF RecordWrite
<1>3. CASE GiveUp(k)
  BY <1>3 DEF GiveUp
<1>4. CASE Rename(k)
  <2>1. file' \in [Keys -> FileType]
    BY <1>4 DEF Rename, FileType
  <2> QED
    BY <1>4, <2>1 DEF Rename
<1>5. CASE RecordFileCommit(k)
  BY <1>5 DEF RecordFileCommit, FileType
<1> QED
  BY <1>1, <1>2, <1>3, <1>4, <1>5

LEMMA TypeEdits ==
  ASSUME TypeOK, NEW k \in Keys, RemoveFile(k) \/ RemoveEntry(k) \/ OpenResource(k)
  PROVE  TypeOK'
<1> USE BoundsAssumption DEF TypeOK, disk, index, hub, Threads
<1>1. CASE RemoveFile(k)
  <2>1. file' \in [Keys -> FileType]
    BY <1>1 DEF RemoveFile, FileType
  <2> QED
    BY <1>1, <2>1 DEF RemoveFile
<1>2. CASE RemoveEntry(k)
  BY <1>2 DEF RemoveEntry
<1>3. CASE OpenResource(k)
  BY <1>3 DEF OpenResource, FileType
<1> QED
  BY <1>1, <1>2, <1>3

LEMMA TypeFlush == ASSUME TypeOK, Flushing PROVE TypeOK'
<1> USE BoundsAssumption DEF TypeOK, disk, index, hub
<1>1. ASSUME NEW k \in Keys, SelectEntry(k) PROVE TypeOK'
  <2>1. flush' \in FlushType
    BY <1>1 DEF SelectEntry, FlushType
  <2> QED
    BY <1>1, <2>1 DEF SelectEntry
<1>2. ASSUME NEW k \in Keys, TakePath(k) PROVE TypeOK'
  <2>1. flush' \in FlushType
    BY <1>2 DEF TakePath, AfterTaking, FlushType
  <2> QED
    BY <1>2, <2>1 DEF TakePath
<1>8. CASE CollectPaths
  <2>1. flush' \in FlushType
    BY <1>8 DEF CollectPaths, AfterTaking, FlushType
  <2> QED
    BY <1>8, <2>1 DEF CollectPaths
<1>3. ASSUME NEW k \in Keys, SyncFile(k) PROVE TypeOK'
  <2>1. file' \in [Keys -> FileType]
    BY <1>3 DEF SyncFile, FileType
  <2>2. flush' \in FlushType
    <3>1. <<k, file[k].gen>> \in Keys \X (0..MaxGen)
      BY DEF FileType
    <3>2. flush.left \subseteq Keys
      BY DEF FlushType
    <3>3. Missing(k) \in FlushType
      BY DEF Missing, FlushType
    <3>4. [flush EXCEPT !.step = "err"] \in FlushType
      BY DEF FlushType
    <3>5. [flush EXCEPT !.step = "verify", !.left = @ \ {k}, !.opened = {<<k, file[k].gen>>}]
            \in FlushType
      BY <3>1, <3>2 DEF FlushType
    <3> QED
      BY <1>3, <3>3, <3>4, <3>5 DEF SyncFile
  <2> QED
    BY <1>3, <2>1, <2>2 DEF SyncFile
<1>4. CASE Verify
  <2>1. flush' \in FlushType
    <3> PICK o \in flush.opened :
               flush' = IF ~Exists(o[1]) THEN [Missing(o[1]) EXCEPT !.opened = {}]
                        ELSE [flush EXCEPT !.opened = {},
                                !.step = IF StillSelected(o[1], o[2]) THEN "sync" ELSE "err"]
      BY <1>4 DEF Verify
    <3>1. [Missing(o[1]) EXCEPT !.opened = {}] \in FlushType
      BY DEF Missing, FlushType
    <3>2. [flush EXCEPT !.opened = {}, !.step = IF StillSelected(o[1], o[2]) THEN "sync" ELSE "err"]
            \in FlushType
      BY DEF FlushType
    <3> QED
      BY <3>1, <3>2
  <2> QED
    BY <1>4, <2>1 DEF Verify
<1>5. CASE WriteManifest
  BY <1>5, HolderType DEF WriteManifest, Returned, FlushType
<1>6. CASE WriteFails
  <2>1. flush' \in FlushType
    BY <1>6 DEF WriteFails, FlushType
  <2> QED
    BY <1>6, <2>1 DEF WriteFails
<1>7. CASE Abort
  BY <1>7, HolderType DEF Abort, Returned, FlushType
<1> QED
  BY <1>1, <1>2, <1>3, <1>4, <1>5, <1>6, <1>7, <1>8 DEF Flushing

LEMMA TypeHub ==
  ASSUME TypeOK, Checkpoint \/ Worker \/ WorkerCancelled \/ (\E t \in Threads : Mark(t) \/ Signal(t))
  PROVE  TypeOK'
<1> USE BoundsAssumption DEF TypeOK, disk, index, hub
<1>1. CASE Checkpoint
  BY <1>1, HolderType DEF Checkpoint, Begin, Holder, FlushType
<1>2. CASE WorkerWakes
  BY <1>2 DEF WorkerWakes
<1>3. CASE WorkerBegins
  BY <1>3, HolderType DEF WorkerBegins, Begin, Holder, FlushType
<1>4. CASE WorkerCancelled
  BY <1>4 DEF WorkerCancelled
<1>5. ASSUME NEW t \in Threads, Mark(t) PROVE TypeOK'
  BY <1>5 DEF Mark
<1>6. ASSUME NEW t \in Threads, Signal(t) PROVE TypeOK'
  BY <1>6 DEF Signal
<1> QED
  BY <1>1, <1>2, <1>3, <1>4, <1>5, <1>6 DEF Worker

LEMMA TypeDeath == ASSUME TypeOK, Kill \/ PowerLoss PROVE TypeOK'
<1> USE BoundsAssumption, HolderType DEF TypeOK, disk, index, hub
<1>1. ASSUME NEW m \in [Keys -> 0..MaxLen], Reopened(m), deaths < MaxDeaths,
             file' \in [Keys -> FileType], written' \in {"synced", "cached", "left"}
      PROVE  TypeOK'
  <2>1. final' \in [Keys -> 0..MaxLen]
    BY <1>1 DEF Reopened
  <2>2. dirty' \in BOOLEAN /\ signalled' \in BOOLEAN /\ nonDurable' \in BOOLEAN
    BY <1>1 DEF Reopened
  <2>3. deaths' \in 0..MaxDeaths
    BY <1>1 DEF Reopened
  <2> QED
    BY <1>1, <2>1, <2>2, <2>3 DEF Reopened
<1>2. CASE Kill
  BY <1>1, <1>2 DEF Kill
<1>3. CASE PowerLoss
  <2>1. file' \in [Keys -> FileType]
    BY <1>3 DEF PowerLoss, FileType
  <2> QED
    BY <1>1, <1>3, <2>1 DEF PowerLoss
<1> QED
  BY <1>2, <1>3

LEMMA TypeNext == ASSUME TypeOK, [Next]_vars PROVE TypeOK'
<1>1. CASE Next
  BY <1>1, TypeWriters, TypeEdits, TypeFlush, TypeHub, TypeDeath DEF Next
<1>2. CASE UNCHANGED vars
  BY <1>2 DEF vars, disk, index, hub, TypeOK
<1> QED
  BY <1>1, <1>2

(* The index, the hub, its flush and the disk keep their types, however    *)
(* many keys there are and however often the process dies.                 *)
THEOREM IndexTypeCorrect == Spec => []TypeOK
BY TypeInit, TypeNext, PTL DEF Spec

-----------------------------------------------------------------------------
(* What a flag that is down stands for.                                    *)

LockHeld == flush.by = "nobody" <=> flush.step = "free"
KnownEntries == \A k \in Keys : final[k] # 0 => k \in entries
UnforcedIsKnown == written = "cached" => nonDurable

(* No mutation of the index is yet to raise the flag.                      *)
Raised == \A t \in Threads : marking[t] # "mark"

(* With the flag down the index is what the manifest says or what the      *)
(* flush under way will make it say.                                       *)
FlagSpeaks ==
  ~dirty /\ Raised =>
    /\ flush.step = "free" => manifest = final
    /\ flush.step = "select" => \A k \in Keys \ flush.todo : flush.selected[k] = final[k]
    /\ flush.step \in {"take", "sync", "verify"} => flush.selected = final

(* A removal under way has nothing to raise from before.                   *)
EditorWaits == removing # {} => marking[Editor] = "no"

SettledInv ==
  TypeOK /\ LockHeld /\ KnownEntries /\ UnforcedIsKnown /\ EditorWaits /\ FlagSpeaks

-----------------------------------------------------------------------------
(* What a store that is only filled keeps.                                 *)

Whole(k) == file[k].bytes = "synced"

(* The obligation to force a file is with the index or with a flush.       *)
Obliged(k) ==
  \/ k \in owed
  \/ flush.step \in {"take", "sync", "verify"} /\ k \in flush.left
  \/ flush.step = "err" /\ k \in flush.cohort

(* Of one key: the manifest and the flush under way name what is indexed,  *)
(* what is indexed is whole or is still to be forced, and a key with a     *)
(* writer at work is not indexed.                                          *)
Filled(k) ==
  /\ manifest[k] # 0 => manifest[k] = final[k] /\ Whole(k)
  /\ final[k] # 0 => Whole(k) \/ (file[k].bytes = "cached" /\ Obliged(k))
  /\ pc[k] # "idle" => final[k] = 0
  /\ pc[k] = "renamed" => file[k].bytes \in {"cached", "synced"}
  /\ flush.step \in {"select", "take", "sync", "verify"} /\ flush.selected[k] # 0 =>
       /\ flush.selected[k] = final[k]
       /\ flush.step = "take" => Whole(k) \/ k \in flush.left \/ k \in flush.todo
       /\ flush.step \in {"sync", "verify"} => Whole(k) \/ k \in flush.left

FilledInv ==
  mode = "fill" =>
    /\ removing = {} /\ flush.left \subseteq flush.cohort
    /\ flush.step \in {"free", "select"} => flush.left = {}
    /\ \A k \in Keys : Filled(k)

-----------------------------------------------------------------------------
LEMMA SettledInit == Init => SettledInv
<1> SUFFICES ASSUME Init PROVE SettledInv
  OBVIOUS
<1>1. TypeOK
  BY TypeInit
<1>2. KnownEntries
  BY DEF Init, KnownEntries, Blank
<1> QED
  BY <1>1, <1>2 DEF Init, SettledInv, LockHeld, UnforcedIsKnown, EditorWaits, FlagSpeaks, Holder

LEMMA SettledMarks ==
  ASSUME SettledInv, TypeOK', NEW t \in Threads, Mark(t) \/ Signal(t)
  PROVE  SettledInv'
<1> USE DEF SettledInv, LockHeld, KnownEntries, UnforcedIsKnown, EditorWaits, FlagSpeaks, Raised,
            disk, index, hub
<1> Editor \in Threads /\ marking \in [Threads -> {"no", "mark", "signal"}]
  BY DEF TypeOK, Threads
<1>1. CASE Mark(t)
  BY <1>1 DEF Mark
<1>2. CASE Signal(t)
  BY <1>2 DEF Signal
<1> QED
  BY <1>1, <1>2

LEMMA SettledThreads ==
  ASSUME SettledInv, TypeOK', NEW k \in Keys,
         \/ Acquire(k) \/ RecordWrite(k) \/ GiveUp(k) \/ Rename(k)
         \/ RecordFileCommit(k) \/ RemoveFile(k) \/ RemoveEntry(k) \/ OpenResource(k)
  PROVE  SettledInv'
<1> USE DEF SettledInv, LockHeld, KnownEntries, UnforcedIsKnown, EditorWaits, FlagSpeaks, Raised,
            disk, index, hub
<1> Editor \in Threads /\ k \in Threads /\ k # Editor
    /\ marking \in [Threads -> {"no", "mark", "signal"}]
  BY EditorAssumption DEF TypeOK, Threads, Editor
<1> final \in [Keys -> 0..MaxLen] /\ final' \in [Keys -> 0..MaxLen]
  BY DEF TypeOK
<1>1. CASE Acquire(k)
  BY <1>1 DEF Acquire
<1>2. CASE RecordWrite(k)
  BY <1>2 DEF RecordWrite
<1>3. CASE GiveUp(k)
  BY <1>3 DEF GiveUp
<1>4. CASE Rename(k)
  BY <1>4 DEF Rename
<1>5. CASE RecordFileCommit(k)
  BY <1>5 DEF RecordFileCommit, Free
<1>6. CASE RemoveFile(k)
  BY <1>6 DEF RemoveFile, Free
<1>7. CASE RemoveEntry(k)
  <2>1. k \notin entries => final' = final
    BY <1>7 DEF RemoveEntry
  <2> QED
    BY <1>7, <2>1 DEF RemoveEntry
<1>8. CASE OpenResource(k)
  BY <1>8 DEF OpenResource
<1> QED
  BY <1>1, <1>2, <1>3, <1>4, <1>5, <1>6, <1>7, <1>8

LEMMA SettledFlush == ASSUME SettledInv, TypeOK', Flushing PROVE SettledInv'
<1> USE DEF SettledInv, LockHeld, KnownEntries, UnforcedIsKnown, EditorWaits, FlagSpeaks, Raised,
            disk, index, hub
<1> flush \in FlushType
  BY DEF TypeOK
<1>1. ASSUME NEW k \in Keys, SelectEntry(k) PROVE SettledInv'
  BY <1>1 DEF SelectEntry, FlushType
<1>2. ASSUME NEW k \in Keys, TakePath(k) PROVE SettledInv'
  BY <1>2 DEF TakePath, AfterTaking, FlushType
<1>8. CASE CollectPaths
  <2>1. ~dirty /\ Raised => flush.selected = final
    <3>1. flush.selected \in [Keys -> 0..MaxLen] /\ final \in [Keys -> 0..MaxLen]
      BY DEF FlushType, TypeOK
    <3>2. ~dirty /\ Raised => \A k \in Keys : flush.selected[k] = final[k]
      BY <1>8 DEF CollectPaths
    <3> QED
      BY <3>1, <3>2
  <2> QED
    BY <1>8, <2>1 DEF CollectPaths, AfterTaking, FlushType
<1>3. ASSUME NEW k \in Keys, SyncFile(k) PROVE SettledInv'
  <2>1. flush'.by = flush.by /\ flush'.selected = flush.selected
        /\ flush'.step \in {"sync", "verify", "err"}
    BY <1>3 DEF SyncFile, Missing, FlushType
  <2> QED
    BY <1>3, <2>1 DEF SyncFile
<1>4. CASE Verify
  <2>1. flush'.by = flush.by /\ flush'.selected = flush.selected
        /\ flush'.step \in {"sync", "err"}
    BY <1>4 DEF Verify, Missing, FlushType
  <2> QED
    BY <1>4, <2>1 DEF Verify
<1>5. CASE WriteManifest
  BY <1>5 DEF WriteManifest, Holder, FlushType
<1>6. CASE WriteFails
  BY <1>6 DEF WriteFails, FlushType
<1>7. CASE Abort
  BY <1>7 DEF Abort, Holder
<1> QED
  BY <1>1, <1>2, <1>3, <1>4, <1>5, <1>6, <1>7, <1>8 DEF Flushing

LEMMA SettledHub ==
  ASSUME SettledInv, TypeOK', Checkpoint \/ Worker \/ WorkerCancelled
  PROVE  SettledInv'
<1> USE DEF SettledInv, LockHeld, KnownEntries, UnforcedIsKnown, EditorWaits, FlagSpeaks, Raised,
            disk, index, hub
<1>1. CASE Checkpoint
  BY <1>1 DEF Checkpoint, Begin, Holder
<1>2. CASE WorkerWakes
  BY <1>2 DEF WorkerWakes
<1>3. CASE WorkerBegins
  BY <1>3 DEF WorkerBegins, Begin, Holder
<1>4. CASE WorkerCancelled
  BY <1>4 DEF WorkerCancelled
<1> QED
  BY <1>1, <1>2, <1>3, <1>4 DEF Worker

LEMMA SettledDeath == ASSUME SettledInv, TypeOK', Kill \/ PowerLoss PROVE SettledInv'
<1>1. ASSUME NEW m \in [Keys -> 0..MaxLen], Reopened(m), written' # "cached" PROVE SettledInv'
  <2>1. ~dirty' => final' = m
    BY <1>1 DEF Reopened
  <2>2. KnownEntries'
    BY <1>1 DEF Reopened, KnownEntries
  <2> QED
    BY <1>1, <2>1, <2>2 DEF Reopened, SettledInv, LockHeld, UnforcedIsKnown, EditorWaits,
       FlagSpeaks, Holder
<1> manifest \in [Keys -> 0..MaxLen] /\ written \in {"synced", "cached", "left"}
  BY DEF SettledInv, TypeOK
<1>2. CASE Kill
  BY <1>1, <1>2 DEF Kill
<1>3. CASE PowerLoss
  BY <1>1, <1>3, HolderType DEF PowerLoss
<1> QED
  BY <1>2, <1>3

LEMMA SettledNext == ASSUME SettledInv, [Next]_vars PROVE SettledInv'
<1>1. TypeOK'
  BY TypeNext DEF SettledInv
<1>2. CASE Next
  BY <1>1, <1>2, SettledMarks, SettledThreads, SettledFlush, SettledHub, SettledDeath DEF Next
<1>3. CASE UNCHANGED vars
  BY <1>3 DEF vars, disk, index, hub, SettledInv, TypeOK, LockHeld, KnownEntries,
     UnforcedIsKnown, EditorWaits, FlagSpeaks, Raised
<1> QED
  BY <1>2, <1>3

LEMMA SettledInvariant == Spec => []SettledInv
BY SettledInit, SettledNext, PTL DEF Spec

(* For every set of keys, and across kills and losses of power: a flag     *)
(* that is down, with no mutation about to raise it and no flush under     *)
(* way, means that the manifest says what the index says.                  *)
THEOREM ManifestSettles == Spec => []SettledManifest
<1>1. SettledInv => SettledManifest
  BY DEF SettledInv, SettledManifest, LockHeld, UnforcedIsKnown, FlagSpeaks, Raised
<1> QED
  BY <1>1, SettledInvariant, PTL

-----------------------------------------------------------------------------
LEMMA FilledInit == Init => FilledInv
BY DEF Init, FilledInv, Filled, Holder, Blank

LEMMA FilledWriters ==
  ASSUME TypeOK, FilledInv, NEW k \in Keys,
         \/ Acquire(k) \/ RecordWrite(k) \/ GiveUp(k) \/ Rename(k) \/ RecordFileCommit(k)
         \/ RemoveFile(k) \/ RemoveEntry(k) \/ OpenResource(k)
  PROVE  FilledInv'
<1> SUFFICES ASSUME mode' = "fill"
             PROVE  FilledInv'
  BY DEF FilledInv
<1> mode = "fill"
  BY DEF Acquire, RecordWrite, GiveUp, Rename, RecordFileCommit, RemoveFile, RemoveEntry,
         OpenResource
<1> /\ removing = {} /\ flush.left \subseteq flush.cohort
    /\ flush.step \in {"free", "select"} => flush.left = {}
    /\ \A j \in Keys : Filled(j)
  BY DEF FilledInv
<1> file \in [Keys -> FileType] /\ final \in [Keys -> 0..MaxLen]
    /\ pc \in [Keys -> {"idle", "writing", "renamed"}]
  BY DEF TypeOK
<1> USE DEF disk, index, hub
<1>1. CASE Acquire(k)
  <2>1. final[k] = 0
    BY <1>1 DEF Acquire, Confirmed, Exists, Filled, Whole
  <2>2. ASSUME NEW j \in Keys PROVE Filled(j)'
    <3>1. CASE j = k
      BY <1>1, <2>1, <3>1 DEF Acquire, Filled, Whole
    <3>2. CASE j # k
      BY <1>1, <3>2 DEF Acquire, Filled, Whole, Obliged
    <3> QED
      BY <3>1, <3>2
  <2> QED
    BY <1>1, <2>2 DEF Acquire, FilledInv
<1>2. CASE RecordWrite(k)
  BY <1>2 DEF RecordWrite, FilledInv, Filled, Whole, Obliged
<1>3. CASE GiveUp(k)
  BY <1>3 DEF GiveUp, FilledInv, Filled, Whole, Obliged
<1>4. CASE Rename(k)
  <2>1. final[k] = 0
    BY <1>4 DEF Rename, Filled
  <2>2. ASSUME NEW j \in Keys PROVE Filled(j)'
    <3>1. CASE j = k
      BY <1>4, <2>1, <3>1 DEF Rename, Filled, Whole, FileType
    <3>2. CASE j # k
      BY <1>4, <3>2 DEF Rename, Filled, Whole, Obliged
    <3> QED
      BY <3>1, <3>2
  <2> QED
    BY <1>4, <2>2 DEF Rename, FilledInv
<1>5. CASE RecordFileCommit(k)
  <2>1. ASSUME NEW j \in Keys PROVE Filled(j)'
    <3>1. CASE j = k
      BY <1>5, <3>1 DEF RecordFileCommit, Filled, Whole, Obliged
    <3>2. CASE j # k
      BY <1>5, <3>2 DEF RecordFileCommit, Filled, Whole, Obliged
    <3> QED
      BY <3>1, <3>2
  <2> QED
    BY <1>5, <2>1 DEF RecordFileCommit, FilledInv
<1>6. CASE RemoveFile(k) \/ RemoveEntry(k) \/ OpenResource(k)
  BY <1>6 DEF RemoveFile, RemoveEntry, OpenResource
<1> QED
  BY <1>1, <1>2, <1>3, <1>4, <1>5, <1>6

LEMMA FilledFlush == ASSUME TypeOK, FilledInv, Flushing PROVE FilledInv'
<1> SUFFICES ASSUME mode' = "fill"
             PROVE  FilledInv'
  BY DEF FilledInv
<1> mode = "fill"
  BY DEF Flushing, SelectEntry, CollectPaths, TakePath, SyncFile, Verify, WriteManifest, WriteFails, Abort
<1> /\ removing = {} /\ flush.left \subseteq flush.cohort
    /\ flush.step \in {"free", "select"} => flush.left = {}
    /\ \A j \in Keys : Filled(j)
  BY DEF FilledInv
<1> flush \in FlushType /\ file \in [Keys -> FileType] /\ final \in [Keys -> 0..MaxLen]
  BY DEF TypeOK
<1> USE DEF disk, index, hub
<1>1. ASSUME NEW k \in Keys, SelectEntry(k) PROVE FilledInv'
  BY <1>1 DEF SelectEntry, FilledInv, Filled, Whole, Obliged, FlushType
<1>2. ASSUME NEW k \in Keys, TakePath(k) PROVE FilledInv'
  BY <1>2 DEF TakePath, AfterTaking, FilledInv, Filled, Whole, Obliged, FlushType
<1>8. CASE CollectPaths
  BY <1>8 DEF CollectPaths, AfterTaking, FilledInv, Filled, Whole, Obliged, FlushType
<1>3. ASSUME NEW k \in Keys, SyncFile(k) PROVE FilledInv'
  <2>1. flush'.selected = flush.selected /\ flush'.cohort = flush.cohort
        /\ flush'.left \subseteq flush.left
        /\ \/ flush'.step \in {"sync", "verify"} /\ flush'.left = flush.left \ {k}
           \/ flush'.step = "err"
    <3>1. CASE flush' = Missing(k)
      BY <1>3, <3>1 DEF SyncFile, Missing, FlushType
    <3>2. CASE flush' = [flush EXCEPT !.step = "verify", !.left = @ \ {k},
                                      !.opened = {<<k, file[k].gen>>}]
      BY <1>3, <3>2 DEF SyncFile, FlushType
    <3>3. CASE flush' = [flush EXCEPT !.step = "err"]
      BY <3>3 DEF FlushType
    <3> QED
      BY <1>3, <3>1, <3>2, <3>3 DEF SyncFile
  <2>2. file'[k].bytes = "synced" \/ file' = file
    BY <1>3 DEF SyncFile, FileType
  <2>3. flush'.step # "err" => final[k] = 0 \/ Whole(k)'
    BY <1>3 DEF SyncFile, Filled, Exists, Whole, FileType, FlushType
  <2> QED
    BY <1>3, <2>1, <2>2, <2>3 DEF SyncFile, FilledInv, Filled, Whole, Obliged
<1>4. CASE Verify
  <2>1. PICK o \in flush.opened :
               flush' = IF ~Exists(o[1]) THEN [Missing(o[1]) EXCEPT !.opened = {}]
                        ELSE [flush EXCEPT !.opened = {},
                                !.step = IF StillSelected(o[1], o[2]) THEN "sync" ELSE "err"]
    BY <1>4 DEF Verify
  <2>2. o[1] \in Keys
    BY <2>1 DEF FlushType
  <2>3. /\ flush'.selected = flush.selected /\ flush'.cohort = flush.cohort
        /\ flush'.step \in {"sync", "err"}
        /\ \/ flush'.left = flush.left
           \/ ~Exists(o[1]) /\ flush'.left = flush.left \ {o[1]}
    BY <2>1 DEF Missing, FlushType
  <2>4. ~Exists(o[1]) => final[o[1]] = 0
    BY <2>2 DEF Filled, Exists, Whole
  <2> QED
    BY <1>4, <2>2, <2>3, <2>4 DEF Verify, FilledInv, Filled, Whole, Obliged
<1>5. CASE WriteManifest
  BY <1>5 DEF WriteManifest, FilledInv, Filled, Whole, Obliged, Holder
<1>6. CASE WriteFails
  BY <1>6 DEF WriteFails, FilledInv, Filled, Whole, Obliged, FlushType
<1>7. CASE Abort
  BY <1>7 DEF Abort, FilledInv, Filled, Whole, Obliged, Holder
<1> QED
  BY <1>1, <1>2, <1>3, <1>4, <1>5, <1>6, <1>7, <1>8 DEF Flushing

LEMMA FilledHub ==
  ASSUME TypeOK, LockHeld, FilledInv,
         Checkpoint \/ Worker \/ WorkerCancelled \/ (\E t \in Threads : Mark(t) \/ Signal(t))
  PROVE  FilledInv'
<1> USE DEF FilledInv, Filled, Whole, Obliged, disk, index, hub
<1>1. CASE Checkpoint
  BY <1>1 DEF Checkpoint, Begin, Holder, Blank, LockHeld
<1>2. CASE WorkerWakes
  BY <1>2 DEF WorkerWakes
<1>3. CASE WorkerBegins
  BY <1>3 DEF WorkerBegins, Begin, Holder, Blank, LockHeld
<1>4. CASE WorkerCancelled
  BY <1>4 DEF WorkerCancelled
<1>5. ASSUME NEW t \in Threads, Mark(t) \/ Signal(t) PROVE FilledInv'
  BY <1>5 DEF Mark, Signal
<1> QED
  BY <1>1, <1>2, <1>3, <1>4, <1>5 DEF Worker

LEMMA FilledDeath == ASSUME TypeOK, FilledInv, Kill \/ PowerLoss PROVE FilledInv'
<1> SUFFICES ASSUME mode' = "fill"
             PROVE  FilledInv'
  BY DEF FilledInv
<1>1. mode = "fill"
  BY DEF Kill, PowerLoss, Reopened
<1>2. \A k \in Keys : manifest[k] # 0 => Whole(k)
  BY <1>1 DEF FilledInv, Filled
<1>3. ASSUME NEW m \in [Keys -> 0..MaxLen], Reopened(m),
             \A k \in Keys : m[k] # 0 => Whole(k) /\ Whole(k)'
      PROVE  FilledInv'
  BY <1>3 DEF Reopened, FilledInv, Filled, Whole, Exists, Holder
<1> manifest \in [Keys -> 0..MaxLen] /\ file \in [Keys -> FileType]
  BY DEF TypeOK
<1>4. CASE Kill
  BY <1>2, <1>3, <1>4 DEF Kill, Whole
<1>5. CASE PowerLoss
  <2>1. \A k \in Keys : Whole(k) => Whole(k)'
    BY <1>5 DEF PowerLoss, Whole, FileType
  <2>2. CASE Reopened(manifest)
    BY <1>2, <1>3, <2>1, <2>2
  <2>3. CASE Reopened(Blank)
    BY <1>3, <2>3, HolderType DEF Blank
  <2> QED
    BY <1>5, <2>2, <2>3 DEF PowerLoss
<1> QED
  BY <1>4, <1>5

LEMMA FilledNext == ASSUME SettledInv, FilledInv, [Next]_vars PROVE FilledInv'
<1> TypeOK /\ LockHeld
  BY DEF SettledInv
<1>1. CASE Next
  BY <1>1, FilledWriters, FilledFlush, FilledHub, FilledDeath DEF Next
<1>2. CASE UNCHANGED vars
  BY <1>2 DEF vars, disk, index, hub, FilledInv, Filled, Whole, Obliged
<1> QED
  BY <1>1, <1>2

(* For every set of keys, and across kills and losses of power: a store    *)
(* that is only filled never has a manifest that names a file whose bytes  *)
(* are not on the medium, whatever commits, flushes, checkpoints and       *)
(* errors interleave.                                                      *)
THEOREM ManifestFollowsBytes == Spec => []ManifestAfterBytes
<1>1. FilledInv => ManifestAfterBytes
  BY DEF FilledInv, Filled, Whole, ManifestAfterBytes
<1>2. Spec => []FilledInv
  BY FilledInit, FilledNext, SettledInvariant, PTL DEF Spec
<1> QED
  BY <1>1, <1>2, PTL
=============================================================================
