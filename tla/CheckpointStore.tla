-------------------------- MODULE CheckpointStore --------------------------
(***************************************************************************)
(* The A/B checkpoint store of ulcr_manager: two slot directories, the     *)
(* active.meta file that names the slot recovery uses, and the flock that  *)
(* serialises checkpoints.  Every manager process (the monitor, a CLI      *)
(* `checkpoint`) runs ulcr_checkpoint_latest one system call at a time;    *)
(* every restorer runs ulcr_restore_latest, which takes no lock.  A        *)
(* manager can fail or die between two calls and the machine can lose      *)
(* power.                                                                  *)
(*                                                                         *)
(* A file is a record: ver says which capture its bytes come from (0: no   *)
(* such file), whole whether all of them are there, synced whether fsync   *)
(* has put them on the device.  For each name, <file>_disk is the set of   *)
(* files the name may denote after a power loss: a rename adds one, fsync  *)
(* of the directory leaves only the latest.                                *)
(***************************************************************************)
EXTENDS Naturals

CONSTANTS
    Managers,    \* processes that may call ulcr_checkpoint_latest
    Restorers,   \* processes that may call ulcr_restore_latest
    MaxVersion,  \* bound: the number of captures in a behaviour
    None         \* nobody holds the lock

ASSUME StoreAssumption == MaxVersion \in Nat /\ None \notin Managers

VARIABLES
    pc,             \* where each manager is in ulcr_checkpoint_latest
    slot,           \* its slot_name
    lock,           \* the holder of checkpoint.lock
    snapshot,       \* <slot>/snapshot.bin
    snapshot_tmp,   \* <slot>/snapshot.bin.tmp
    snapshot_disk,
    manifest,       \* <slot>/manifest.txt: the capture it describes, 0 if none
    manifest_disk,
    meta,           \* active.meta
    meta_tmp,       \* active.meta.tmp
    meta_disk,
    newest,         \* history: the number of captures begun
    acked,          \* history: the latest capture whose call returned 0
    blind,          \* history: the captures that chose a slot after a failed
                    \* read of an active.meta that names one
    rpc,            \* where each restorer is in ulcr_restore_latest
    rslot,          \* its snapshot_dir
    floor,          \* history: what was current when the restore began
    faulted,        \* history: a call of the restore failed on a good file
    restored        \* the image the restored child loaded

writeVars    == <<pc, slot, lock>>
snapshotVars == <<snapshot, snapshot_tmp, snapshot_disk>>
manifestVars == <<manifest, manifest_disk>>
metaVars     == <<meta, meta_tmp, meta_disk>>
historyVars  == <<newest, acked, blind>>
restoreVars  == <<rpc, rslot, floor, faulted, restored>>
vars == <<writeVars, snapshotVars, manifestVars, metaVars, historyVars, restoreVars>>

Slots  == {"A", "B"}
NoSlot == "none"

Image == [ver : Nat, whole : BOOLEAN, synced : BOOLEAN]
Meta  == [slot : Slots \cup {NoSlot}, whole : BOOLEAN, synced : BOOLEAN]

NoImage == [ver |-> 0, whole |-> FALSE, synced |-> TRUE]
NoMeta  == [slot |-> NoSlot, whole |-> FALSE, synced |-> TRUE]

\* A file just opened, one just written, and what write and fsync make of it.
OpenedImage(v)     == [ver |-> v, whole |-> FALSE, synced |-> FALSE]
MetaNaming(s)      == [slot |-> s, whole |-> TRUE, synced |-> FALSE]
Filled(file)       == [file EXCEPT !.whole = TRUE]
Synced(file)       == [file EXCEPT !.synced = TRUE]
TornOnDevice(file) == [file EXCEPT !.whole = FALSE, !.synced = TRUE]

Labels == {"idle", "choose", "capture", "dump", "sync", "rename", "syncdir",
           "manifest", "syncmanifest", "writemeta", "syncmeta", "renamemeta",
           "syncmetadir", "report"}

RestoreActive == {"probe_A", "probe_B", "load", "exec"}
RestoreLabels == RestoreActive \cup {"idle", "restored", "failed"}

ulcr_file_exists(image) == image.ver # 0

\* What access may answer for a file: it can fail on one that is there.
Found(image) == {ulcr_file_exists(image), FALSE}

\* The answers ulcr_load_snapshot may give for slot s: open and read can fail,
\* and an image that is cut off behind its header and tables is accepted.
ulcr_load_snapshot(s) == IF ulcr_file_exists(snapshot[s]) THEN BOOLEAN ELSE {FALSE}

\* The slot that active.meta names: a missing or truncated one names none.
ActiveSlot == IF meta.whole THEN meta.slot ELSE NoSlot

\* The answers read_active_slot may give: a failing access, open or read of
\* active.meta is reported in the same way as a file that is not there.
read_active_slot == {ActiveSlot, NoSlot}

\* Mutant: the next slot does not alternate.
AlwaysSlotA(active) == "A"

choose_next_slot(active) == IF active = "A" THEN "B" ELSE "A"

\* What active_checkpoint_dir answers when no call of it fails.
active_checkpoint_dir ==
    IF ActiveSlot \in Slots THEN ActiveSlot
    ELSE IF ulcr_file_exists(snapshot["A"]) THEN "A"
    ELSE IF ulcr_file_exists(snapshot["B"]) THEN "B"
    ELSE NoSlot

\* The capture recovery would use now.
CurrentVersion ==
    IF active_checkpoint_dir = NoSlot THEN 0 ELSE snapshot[active_checkpoint_dir].ver

Init ==
    /\ pc = [m \in Managers |-> "idle"]
    /\ slot = [m \in Managers |-> NoSlot]
    /\ lock = None
    /\ snapshot = [s \in Slots |-> NoImage]
    /\ snapshot_tmp = [s \in Slots |-> NoImage]
    /\ snapshot_disk = [s \in Slots |-> {NoImage}]
    /\ manifest = [s \in Slots |-> 0]
    /\ manifest_disk = [s \in Slots |-> {0}]
    /\ meta = NoMeta
    /\ meta_tmp = NoMeta
    /\ meta_disk = {NoMeta}
    /\ newest = 0
    /\ acked = 0
    /\ blind = {}
    /\ rpc = [r \in Restorers |-> "idle"]
    /\ rslot = [r \in Restorers |-> NoSlot]
    /\ floor = [r \in Restorers |-> 0]
    /\ faulted = [r \in Restorers |-> FALSE]
    /\ restored = [r \in Restorers |-> NoImage]

-----------------------------------------------------------------------------
(***************************************************************************)
(* ulcr_checkpoint_latest, one visible system call per action.             *)
(***************************************************************************)

Goto(m, from, to) ==
    /\ pc[m] = from
    /\ pc' = [pc EXCEPT ![m] = to]

\* Mutant: an advisory lock that nobody asks.
AcquireUnlocked(m) ==
    /\ newest < MaxVersion
    /\ lock' = m
    /\ Goto(m, "idle", "choose")
    /\ UNCHANGED <<slot, snapshotVars, manifestVars, metaVars, historyVars, restoreVars>>

\* LOCK_NB: when the lock is taken the call returns -1 and nothing changes.
checkpoint_lock_try_acquire(m) ==
    /\ newest < MaxVersion
    /\ lock = None
    /\ lock' = m
    /\ Goto(m, "idle", "choose")
    /\ UNCHANGED <<slot, snapshotVars, manifestVars, metaVars, historyVars, restoreVars>>

\* Slot A is the answer also when active.meta names A but cannot be read.
ChooseSlot(m) ==
    /\ Goto(m, "choose", "capture")
    /\ \E active \in read_active_slot :
        /\ slot' = [slot EXCEPT ![m] = choose_next_slot(active)]
        /\ blind' = IF active = ActiveSlot THEN blind \ {newest + 1} ELSE blind \cup {newest + 1}
    /\ UNCHANGED <<lock, snapshotVars, manifestVars, metaVars, newest, acked, restoreVars>>

\* The process is stopped; O_TRUNC discards whatever an earlier attempt left.
OpenSnapshot(m) ==
    /\ Goto(m, "capture", "dump")
    /\ newest' = newest + 1
    /\ snapshot_tmp' = [snapshot_tmp EXCEPT ![slot[m]] = OpenedImage(newest + 1)]
    /\ UNCHANGED <<slot, lock, snapshot, snapshot_disk, manifestVars, metaVars, acked, blind, restoreVars>>

\* The region bytes, then the header and region table rewritten with pwrite.
DumpRegions(m) ==
    /\ Goto(m, "dump", "sync")
    /\ snapshot_tmp' = [snapshot_tmp EXCEPT ![slot[m]] = Filled(@)]
    /\ UNCHANGED <<slot, lock, snapshot, snapshot_disk, manifestVars, metaVars, historyVars, restoreVars>>

\* Mutant: the temporary image is renamed without fsync.
SkipSyncSnapshot(m) ==
    /\ Goto(m, "sync", "rename")
    /\ UNCHANGED <<slot, lock, snapshotVars, manifestVars, metaVars, historyVars, restoreVars>>

SyncSnapshot(m) ==
    /\ Goto(m, "sync", "rename")
    /\ snapshot_tmp' = [snapshot_tmp EXCEPT ![slot[m]] = Synced(@)]
    /\ UNCHANGED <<slot, lock, snapshot, snapshot_disk, manifestVars, metaVars, historyVars, restoreVars>>

RenameSnapshot(m) ==
    LET s == slot[m] IN
    /\ Goto(m, "rename", "syncdir")
    /\ snapshot' = [snapshot EXCEPT ![s] = snapshot_tmp[s]]
    /\ snapshot_disk' = [snapshot_disk EXCEPT ![s] = @ \cup {snapshot_tmp[s]}]
    /\ snapshot_tmp' = [snapshot_tmp EXCEPT ![s] = NoImage]
    /\ UNCHANGED <<slot, lock, manifestVars, metaVars, historyVars, restoreVars>>

\* fsync of a slot directory commits both of its names.
fsync_parent_directory(s) ==
    /\ snapshot_disk' = [snapshot_disk EXCEPT ![s] = {snapshot[s]}]
    /\ manifest_disk' = [manifest_disk EXCEPT ![s] = {manifest[s]}]

SyncSlotDir(m) ==
    /\ Goto(m, "syncdir", "manifest")
    /\ fsync_parent_directory(slot[m])
    /\ UNCHANGED <<slot, lock, snapshot, snapshot_tmp, manifest, metaVars, historyVars, restoreVars>>

\* Mutant: the manifest stays in manifest.txt.tmp.
SkipRenameManifest(m) ==
    /\ Goto(m, "manifest", "syncmanifest")
    /\ UNCHANGED <<slot, lock, snapshotVars, manifestVars, metaVars, historyVars, restoreVars>>

\* ulcr_write_manifest: written to manifest.txt.tmp with no check that the
\* bytes got there, renamed, never fsynced.  How much of the text is there no
\* code asks.
RenameManifest(m) ==
    LET s == slot[m] IN
    /\ Goto(m, "manifest", "syncmanifest")
    /\ manifest' = [manifest EXCEPT ![s] = snapshot[s].ver]
    /\ manifest_disk' = [manifest_disk EXCEPT ![s] = @ \cup {snapshot[s].ver}]
    /\ UNCHANGED <<slot, lock, snapshotVars, metaVars, historyVars, restoreVars>>

SyncManifestDir(m) ==
    /\ Goto(m, "syncmanifest", "writemeta")
    /\ fsync_parent_directory(slot[m])
    /\ UNCHANGED <<slot, lock, snapshot, snapshot_tmp, manifest, metaVars, historyVars, restoreVars>>

\* Mutant: active.meta gets the directory's name and not the slot's.
WriteMetaDirectory(m) ==
    /\ Goto(m, "writemeta", "syncmeta")
    /\ meta_tmp' = MetaNaming("slot_A")
    /\ UNCHANGED <<slot, lock, snapshotVars, manifestVars, meta, meta_disk, historyVars, restoreVars>>

\* write_active_metadata: ulcr_atomic_write_text_file on active.meta.
WriteMeta(m) ==
    /\ Goto(m, "writemeta", "syncmeta")
    /\ meta_tmp' = MetaNaming(slot[m])
    /\ UNCHANGED <<slot, lock, snapshotVars, manifestVars, meta, meta_disk, historyVars, restoreVars>>

SyncMeta(m) ==
    /\ Goto(m, "syncmeta", "renamemeta")
    /\ meta_tmp' = Synced(meta_tmp)
    /\ UNCHANGED <<slot, lock, snapshotVars, manifestVars, meta, meta_disk, historyVars, restoreVars>>

RenameMeta(m) ==
    /\ Goto(m, "renamemeta", "syncmetadir")
    /\ meta' = meta_tmp
    /\ meta_disk' = meta_disk \cup {meta_tmp}
    /\ meta_tmp' = NoMeta
    /\ UNCHANGED <<slot, lock, snapshotVars, manifestVars, historyVars, restoreVars>>

\* Mutant: the rename of active.meta is never committed.
SkipSyncMetaDir(m) ==
    /\ Goto(m, "syncmetadir", "report")
    /\ UNCHANGED <<slot, lock, snapshotVars, manifestVars, metaVars, historyVars, restoreVars>>

SyncMetaDir(m) ==
    /\ Goto(m, "syncmetadir", "report")
    /\ meta_disk' = {meta}
    /\ UNCHANGED <<slot, lock, snapshotVars, manifestVars, meta, meta_tmp, historyVars, restoreVars>>

checkpoint_lock_release(m) == lock' = IF lock = m THEN None ELSE lock

\* The call ends, its slot_name is gone.
Leave(m) ==
    /\ pc' = [pc EXCEPT ![m] = "idle"]
    /\ slot' = [slot EXCEPT ![m] = NoSlot]

\* The state and status files, which no code reads and whose failures nobody
\* asks for, are written; the call returns 0.
Report(m) ==
    /\ pc[m] = "report" /\ Leave(m)
    /\ checkpoint_lock_release(m)
    /\ acked' = snapshot[slot[m]].ver
    /\ UNCHANGED <<snapshotVars, manifestVars, metaVars, newest, blind, restoreVars>>

CheckpointStep(m) ==
    \/ checkpoint_lock_try_acquire(m) \/ ChooseSlot(m)
    \/ OpenSnapshot(m) \/ DumpRegions(m) \/ SyncSnapshot(m)
    \/ RenameSnapshot(m) \/ SyncSlotDir(m)
    \/ RenameManifest(m) \/ SyncManifestDir(m)
    \/ WriteMeta(m) \/ SyncMeta(m) \/ RenameMeta(m) \/ SyncMetaDir(m)
    \/ Report(m)

\* Mutant: a failed call returns without checkpoint_lock_release.
AbortKeepsLock(m) ==
    /\ pc[m] \notin {"idle", "choose", "report"} /\ Leave(m)
    /\ UNCHANGED <<lock, snapshotVars, manifestVars, metaVars, historyVars, restoreVars>>

(***************************************************************************)
(* Any call from the capture on may fail: the function returns -1 after    *)
(* releasing the lock.  A failed rename of snapshot.bin.tmp unlinks it, as *)
(* does every failure of ulcr_atomic_write_text_file between its open and  *)
(* its rename; other failures leave the temporary file behind.             *)
(***************************************************************************)
Abort(m) ==
    /\ pc[m] \notin {"idle", "choose", "report"} /\ Leave(m)
    /\ checkpoint_lock_release(m)
    /\ snapshot_tmp' = IF pc[m] = "rename"
                       THEN [snapshot_tmp EXCEPT ![slot[m]] = NoImage]
                       ELSE snapshot_tmp
    /\ \/ pc[m] \notin {"syncmeta", "renamemeta"} /\ meta_tmp' = meta_tmp
       \/ pc[m] \in {"writemeta", "syncmeta", "renamemeta"} /\ meta_tmp' = NoMeta
    /\ UNCHANGED <<snapshot, snapshot_disk, manifestVars, meta, meta_disk, historyVars, restoreVars>>

\* The manager is killed: the kernel closes the lock file and detaches.
Crash(m) ==
    /\ pc[m] # "idle" /\ Leave(m)
    /\ checkpoint_lock_release(m)
    /\ UNCHANGED <<snapshotVars, manifestVars, metaVars, historyVars, restoreVars>>

-----------------------------------------------------------------------------
(***************************************************************************)
(* ulcr_restore_latest: active_checkpoint_dir, one probe at a time, then   *)
(* the load that validates the image in the parent and, after the fork,    *)
(* the load of ulcr_runtime_bootstrap in the child.                        *)
(***************************************************************************)

RGoto(r, to) == rpc' = [rpc EXCEPT ![r] = to]

UseSlot(r, s) ==
    /\ rslot' = [rslot EXCEPT ![r] = s]
    /\ RGoto(r, "load")

storeVars == <<writeVars, snapshotVars, manifestVars, metaVars, historyVars>>

\* Mutant: recovery looks for an image and never reads active.meta.
ProbeOnly(r) ==
    /\ rpc[r] \in {"idle", "restored", "failed"}
    /\ floor' = [floor EXCEPT ![r] = CurrentVersion]
    /\ faulted' = [faulted EXCEPT ![r] = FALSE]
    /\ restored' = [restored EXCEPT ![r] = NoImage]
    /\ RGoto(r, "probe_A") /\ rslot' = [rslot EXCEPT ![r] = NoSlot]
    /\ UNCHANGED storeVars

ReadMeta(r) ==
    /\ rpc[r] \in {"idle", "restored", "failed"}
    /\ floor' = [floor EXCEPT ![r] = CurrentVersion]
    /\ restored' = [restored EXCEPT ![r] = NoImage]
    /\ \E active \in read_active_slot :
        /\ faulted' = [faulted EXCEPT ![r] = active # ActiveSlot]
        /\ IF active \in Slots
           THEN UseSlot(r, active)
           ELSE RGoto(r, "probe_A") /\ rslot' = [rslot EXCEPT ![r] = NoSlot]
    /\ UNCHANGED storeVars

\* Looks for an image in slot s and goes to next if it sees none.
Probe(r, s, next) ==
    /\ \E found \in Found(snapshot[s]) :
        /\ faulted' = [faulted EXCEPT ![r] = @ \/ found # ulcr_file_exists(snapshot[s])]
        /\ IF found THEN UseSlot(r, s) ELSE RGoto(r, next) /\ UNCHANGED rslot
    /\ UNCHANGED <<storeVars, floor, restored>>

ProbeSlotA(r) == rpc[r] = "probe_A" /\ Probe(r, "A", "probe_B")

ProbeSlotB(r) == rpc[r] = "probe_B" /\ Probe(r, "B", "failed")

\* The parent loads the image and forks; either may fail.
ValidateInParent(r) ==
    /\ rpc[r] = "load"
    /\ \E ok \in ulcr_load_snapshot(rslot[r]), forked \in BOOLEAN :
        /\ RGoto(r, IF ok /\ forked THEN "exec" ELSE "failed")
        /\ IF ok /\ forked THEN UNCHANGED rslot ELSE rslot' = [rslot EXCEPT ![r] = NoSlot]
        /\ faulted' = [faulted EXCEPT
               ![r] = @ \/ IF ok THEN ~forked ELSE snapshot[rslot[r]].whole]
    /\ UNCHANGED <<storeVars, floor, restored>>

\* The child loads it again by path after its execv.
LoadInChild(r) ==
    /\ rpc[r] = "exec"
    /\ \E ok \in ulcr_load_snapshot(rslot[r]) :
        LET image == snapshot[rslot[r]] IN
        /\ RGoto(r, IF ok THEN "restored" ELSE "failed")
        /\ restored' = IF ok THEN [restored EXCEPT ![r] = image] ELSE restored
        /\ faulted' = [faulted EXCEPT ![r] = @ \/ (~ok /\ image.whole)]
    /\ rslot' = [rslot EXCEPT ![r] = NoSlot]
    /\ UNCHANGED <<storeVars, floor>>

RestoreStep(r) ==
    ReadMeta(r) \/ ProbeSlotA(r) \/ ProbeSlotB(r) \/ ValidateInParent(r) \/ LoadInChild(r)

-----------------------------------------------------------------------------
\* A file whose bytes were never fsynced may come back truncated.
Survivors(file) ==
    IF file.synced THEN {file} ELSE {Synced(file), TornOnDevice(file)}

AfterPowerLoss(files) == UNION {Survivors(file) : file \in files}

\* One of the files in disk[s] for every slot s.
OneOfEach(disk) ==
    {f \in [Slots -> UNION {disk[s] : s \in Slots}] : \A s \in Slots : f[s] \in disk[s]}

\* Every process dies; each name denotes one of the files it may denote.
PowerLoss ==
    /\ snapshot' \in OneOfEach([s \in Slots |-> AfterPowerLoss(snapshot_disk[s])])
    /\ manifest' \in OneOfEach(manifest_disk)
    /\ meta' \in AfterPowerLoss(meta_disk)
    /\ snapshot_disk' = [s \in Slots |-> {snapshot'[s]}]
    /\ manifest_disk' = [s \in Slots |-> {manifest'[s]}]
    /\ meta_disk' = {meta'}
    /\ snapshot_tmp' = [s \in Slots |-> NoImage]
    /\ meta_tmp' = NoMeta
    /\ pc' = [m \in Managers |-> "idle"]
    /\ slot' = [m \in Managers |-> NoSlot]
    /\ lock' = None
    /\ rpc' = [r \in Restorers |-> "idle"]
    /\ rslot' = [r \in Restorers |-> NoSlot]
    /\ floor' = [r \in Restorers |-> 0]
    /\ faulted' = [r \in Restorers |-> FALSE]
    /\ restored' = [r \in Restorers |-> NoImage]
    /\ UNCHANGED historyVars

ProcessStep ==
    \/ \E m \in Managers : CheckpointStep(m) \/ Abort(m) \/ Crash(m)
    \/ \E r \in Restorers : RestoreStep(r)

Next == ProcessStep \/ PowerLoss

Spec == Init /\ [][Next]_vars

\* A call in progress goes on: a manager is scheduled again.  Nothing obliges a
\* user to start one.
Fairness == \A m \in Managers : WF_vars(pc[m] # "idle" /\ CheckpointStep(m))

FairSpec == Spec /\ Fairness

-----------------------------------------------------------------------------
(***************************************************************************)
(* Properties.                                                             *)
(***************************************************************************)

\* Every variable holds a value of its type.
TypeOK ==
    /\ pc \in [Managers -> Labels]
    /\ slot \in [Managers -> Slots \cup {NoSlot}]
    /\ lock \in Managers \cup {None}
    /\ snapshot \in [Slots -> Image]
    /\ snapshot_tmp \in [Slots -> Image]
    /\ snapshot_disk \in [Slots -> SUBSET Image]
    /\ manifest \in [Slots -> Nat]
    /\ manifest_disk \in [Slots -> SUBSET Nat]
    /\ meta \in Meta
    /\ meta_tmp \in Meta
    /\ meta_disk \in SUBSET Meta
    /\ newest \in Nat
    /\ acked \in Nat
    /\ blind \in SUBSET Nat
    /\ rpc \in [Restorers -> RestoreLabels]
    /\ rslot \in [Restorers -> Slots \cup {NoSlot}]
    /\ floor \in [Restorers -> Nat]
    /\ faulted \in [Restorers -> BOOLEAN]
    /\ restored \in [Restorers -> Image]

\* At any moment, also after crashes and power losses, the slot that
\* active_checkpoint_dir answers holds a complete image.
RecoveryIsWhole ==
    active_checkpoint_dir # NoSlot =>
        LET image == snapshot[active_checkpoint_dir] IN ulcr_file_exists(image) /\ image.whole

\* A checkpoint call that returned 0 is never lost: recovery uses that
\* capture or a later one, whatever failed, crashed or lost power since.
NoLostCheckpoint == CurrentVersion >= acked

\* A restore that races with checkpoints without the lock comes back with a
\* complete image, whatever fails.  If no call of it failed on a good file, the
\* image is no older than the one recovery would have used when it began, and
\* the restore fails only if there was none: what it reads of active.meta and of
\* the slots at different moments still fits together.
RestoreIsCurrent ==
    \A r \in Restorers :
        /\ rpc[r] = "restored" =>
            restored[r].whole /\ (~faulted[r] => restored[r].ver >= floor[r])
        /\ rpc[r] = "failed" => floor[r] = 0 \/ faulted[r]

\* While the machine stays up, only a capture whose manager could not read
\* active.meta replaces the image active.meta points to: failed and interrupted
\* calls in any number do not lead the next one into the active slot.
ActiveSlotUntouched ==
    [][\A s \in Slots : ActiveSlot = s /\ snapshot'[s] # snapshot[s] =>
           snapshot'[s].ver \in blind \/ PowerLoss]_vars

\* The manifest in slot s is not that of the capture the slot held before.
ManifestMatches(s) == manifest[s] = snapshot[s].ver

\* While the machine stays up, no slot becomes the active one with the manifest
\* of another capture, and the active one keeps its own unless a capture is
\* written over it after a failed read of active.meta.
ManifestDescribesActive ==
    [][\A s \in Slots : ActiveSlot' = s =>
           \/ ManifestMatches(s)'
           \/ ActiveSlot = s /\ (~ManifestMatches(s) \/ snapshot'[s].ver \in blind)
           \/ PowerLoss]_vars

\* No return path of ulcr_checkpoint_latest keeps the lock: a holder lets go.
LockReleased == \A m \in Managers : lock = m ~> lock # m

\* The store implements the atomic checkpoint register.
Atomic == INSTANCE AtomicCheckpoint WITH current <- CurrentVersion
AtomicSpec == Atomic!Spec

\* While the machine stays up, the steps of the store are those of the register
\* without its PowerLoss: the current capture changes to the newest one and to
\* nothing else, also where a capture is written over the active slot.
AtomicSteps == [][[Atomic!Step]_Atomic!vars \/ PowerLoss]_vars

-----------------------------------------------------------------------------
(***************************************************************************)
(* The inductive invariant.                                                *)
(***************************************************************************)

Other(s) == IF s = "A" THEN "B" ELSE "A"

\* The labels at which the slot has been chosen and active.meta is still old.
Writing == {"capture", "dump", "sync", "rename", "syncdir", "manifest",
            "syncmanifest", "writemeta", "syncmeta", "renamemeta"}
\* The labels at which the new image is still only a temporary file.
Unpublished == {"dump", "sync", "rename"}
\* The labels at which the new image is durable in its slot.
Committed == {"manifest", "syncmanifest", "writemeta", "syncmeta", "renamemeta",
              "syncmetadir", "report"}
\* The labels at which the number of the capture has been taken.
Numbered == Unpublished \cup {"syncdir"} \cup Committed

\* Exactly the manager inside the function holds the lock.
LockInv == \A m \in Managers : pc[m] # "idle" <=> lock = m

\* What a slot name may denote on the device is complete, and the name
\* denotes one of those files now.
SlotInv ==
    \A s \in Slots :
        /\ snapshot[s] \in snapshot_disk[s]
        /\ \A f \in snapshot_disk[s] :
               f.synced /\ f.ver <= newest /\ (f.ver # 0 => f.whole)

\* Every active.meta a power loss may leave names a slot all of whose possible
\* images are as new as the last acknowledged one; it is missing only while
\* nothing has been acknowledged.
MetaInv ==
    /\ meta \in meta_disk
    /\ \A f \in meta_disk :
        /\ f.synced /\ (f.slot # NoSlot => f.whole)
        /\ f.slot \in Slots => \A g \in snapshot_disk[f.slot] : g.ver # 0 /\ g.ver >= acked
        /\ f.slot = NoSlot => acked = 0
    /\ acked <= newest

\* The number of the capture that manager m has taken or is about to take.
Number(m) == IF pc[m] = "capture" THEN newest + 1 ELSE newest

\* What manager m has done so far in the function.
Progress(m) ==
    LET s == slot[m] IN
    /\ pc[m] \in Writing =>
        /\ s \in Slots
        /\ s = "B" => meta.slot = "A"
        /\ s = meta.slot => Number(m) \in blind
    /\ pc[m] \in Numbered =>
        /\ s \in Slots
        /\ acked < newest
        /\ \A f \in snapshot_disk[Other(s)] : f.ver < newest
    /\ pc[m] \in Unpublished =>
        /\ \A f \in snapshot_disk[s] : f.ver < newest
        /\ snapshot_tmp[s].ver = newest
    /\ pc[m] \in {"sync", "rename"} => snapshot_tmp[s].whole
    /\ pc[m] = "rename" => snapshot_tmp[s].synced
    /\ pc[m] = "syncdir" => snapshot[s].ver = newest
    /\ pc[m] \in Committed => \A f \in snapshot_disk[s] : f.ver = newest
    /\ pc[m] \in {"syncmeta", "renamemeta"} => meta_tmp.slot = s /\ meta_tmp.whole
    /\ pc[m] = "renamemeta" => meta_tmp.synced
    /\ pc[m] \in {"syncmetadir", "report"} => meta.slot = s
    /\ pc[m] = "report" => meta_disk = {meta}

ProgressInv == \A m \in Managers : Progress(m)

\* A restore finds an image in the slot it has chosen, and, if no call of it has
\* failed, one that will do in the slot it has chosen or is still looking at.
RestoreInv ==
    \A r \in Restorers :
        /\ floor[r] <= newest
        /\ rpc[r] \in {"load", "exec"} => rslot[r] \in Slots /\ snapshot[rslot[r]].ver # 0
        /\ ~faulted[r] =>
            /\ rpc[r] = "probe_A" =>
                IF ulcr_file_exists(snapshot["A"]) THEN snapshot["A"].ver >= floor[r]
                ELSE snapshot["B"].ver >= floor[r]
            /\ rpc[r] = "probe_B" => snapshot["B"].ver >= floor[r]
            /\ rpc[r] \in {"load", "exec"} => snapshot[rslot[r]].ver >= floor[r]
        /\ rpc[r] = "failed" => floor[r] = 0 \/ faulted[r]
        /\ rpc[r] = "restored" =>
            restored[r].whole /\ (~faulted[r] => restored[r].ver >= floor[r])

\* The inductive invariant behind the properties above: together with TypeOK
\* it is preserved by every step of every manager, restorer and power loss.
StoreInv == LockInv /\ SlotInv /\ MetaInv /\ ProgressInv /\ RestoreInv

=============================================================================
