------------------------ MODULE CheckpointStoreProofs ------------------------
(***************************************************************************)
(* Proofs about CheckpointStore for every set of managers and restorers    *)
(* and every bound: type correctness, the inductive invariant StoreInv,    *)
(* and what it implies.                                                    *)
(***************************************************************************)
EXTENDS CheckpointStore, TLAPS

-----------------------------------------------------------------------------
(***************************************************************************)
(* Files: what opening, writing, fsync and a power loss make of them.      *)
(***************************************************************************)

LEMMA NoFiles ==
    /\ NoImage \in Image /\ NoImage.ver = 0 /\ NoImage.synced
    /\ NoMeta \in Meta /\ NoMeta.slot = NoSlot /\ NoMeta.synced
BY DEF NoImage, NoMeta, Image, Meta

LEMMA NewImage ==
    ASSUME NEW v \in Nat
    PROVE  OpenedImage(v) \in Image /\ OpenedImage(v).ver = v
BY DEF OpenedImage, Image

LEMMA NewMeta ==
    ASSUME NEW s \in Slots \cup {NoSlot}
    PROVE  MetaNaming(s) \in Meta /\ MetaNaming(s).slot = s /\ MetaNaming(s).whole
BY DEF MetaNaming, Meta

LEMMA ImageUpdates ==
    ASSUME NEW i \in Image
    PROVE  /\ i.ver \in Nat
           /\ Filled(i) \in Image /\ Filled(i).ver = i.ver /\ Filled(i).whole
           /\ Synced(i) \in Image /\ Synced(i).ver = i.ver
           /\ Synced(i).whole = i.whole /\ Synced(i).synced
           /\ TornOnDevice(i) \in Image /\ TornOnDevice(i).ver = i.ver
BY DEF Filled, Synced, TornOnDevice, Image

LEMMA MetaUpdates ==
    ASSUME NEW f \in Meta
    PROVE  /\ f.slot \in Slots \cup {NoSlot}
           /\ Synced(f) \in Meta /\ Synced(f).slot = f.slot
           /\ Synced(f).whole = f.whole /\ Synced(f).synced
           /\ TornOnDevice(f) \in Meta
BY DEF Synced, TornOnDevice, Meta

\* What is left of an image or of active.meta after a power loss is one.
LEMMA SurvivorTypes ==
    /\ \A S \in SUBSET Image : AfterPowerLoss(S) \subseteq Image
    /\ \A S \in SUBSET Meta : AfterPowerLoss(S) \subseteq Meta
<1>1. ASSUME NEW S \in SUBSET Image, NEW f \in AfterPowerLoss(S) PROVE f \in Image
  <2>1. PICK g \in S : f \in Survivors(g)
    BY DEF AfterPowerLoss
  <2>2. f \in {g, Synced(g), TornOnDevice(g)}
    BY <2>1 DEF Survivors
  <2> QED BY <2>2, ImageUpdates
<1>2. ASSUME NEW S \in SUBSET Meta, NEW f \in AfterPowerLoss(S) PROVE f \in Meta
  <2>1. PICK g \in S : f \in Survivors(g)
    BY DEF AfterPowerLoss
  <2>2. f \in {g, Synced(g), TornOnDevice(g)}
    BY <2>1 DEF Survivors
  <2> QED BY <2>2, MetaUpdates
<1> QED BY <1>1, <1>2

\* Files that are on the device survive a power loss as they are.
LEMMA SyncedSurvive ==
    ASSUME NEW S, \A f \in S : f.synced
    PROVE  AfterPowerLoss(S) = S
BY DEF AfterPowerLoss, Survivors

-----------------------------------------------------------------------------
(***************************************************************************)
(* Type correctness.                                                       *)
(***************************************************************************)

\* A manager past its choice, and a restore that loads, have a slot.
LEMMA ChosenSlots ==
    ASSUME TypeOK, ProgressInv, RestoreInv
    PROVE  /\ \A m \in Managers : pc[m] \notin {"idle", "choose"} => slot[m] \in Slots
           /\ \A r \in Restorers : rpc[r] \in {"load", "exec"} => rslot[r] \in Slots
BY DEF TypeOK, ProgressInv, Progress, RestoreInv, Labels, Writing, Numbered,
       Unpublished, Committed

LEMMA CurrentType == ASSUME TypeOK PROVE CurrentVersion \in Nat
BY ImageUpdates DEF TypeOK, CurrentVersion, active_checkpoint_dir, ActiveSlot, Slots, NoSlot

LEMMA TypeStep == TypeOK /\ ProgressInv /\ RestoreInv /\ [Next]_vars => TypeOK'
<1> SUFFICES ASSUME TypeOK, ProgressInv, RestoreInv, [Next]_vars PROVE TypeOK'
  OBVIOUS
<1>0. /\ \A m \in Managers : pc[m] \notin {"idle", "choose"} => slot[m] \in Slots
      /\ \A r \in Restorers : rpc[r] \in {"load", "exec"} => rslot[r] \in Slots
  BY ChosenSlots
<1> USE DEF TypeOK
<1>1. ASSUME NEW m \in Managers, CheckpointStep(m) PROVE TypeOK'
  <2> USE DEF Goto, Labels, writeVars, snapshotVars, manifestVars, metaVars,
              historyVars, restoreVars
  <2>1. CASE checkpoint_lock_try_acquire(m)
    BY <2>1 DEF checkpoint_lock_try_acquire
  <2>2. CASE ChooseSlot(m)
    <3>1. \A active : choose_next_slot(active) \in Slots
      BY DEF choose_next_slot, Slots
    <3>2. newest + 1 \in Nat
      OBVIOUS
    <3>3. blind' \in SUBSET Nat
      BY <2>2, <3>2 DEF ChooseSlot
    <3> QED BY <2>2, <3>1, <3>3 DEF ChooseSlot
  <2>3. CASE OpenSnapshot(m)
    <3>1. newest + 1 \in Nat
      OBVIOUS
    <3>2. OpenedImage(newest + 1) \in Image
      BY <3>1, NewImage
    <3> QED BY <2>3, <3>1, <3>2 DEF OpenSnapshot
  <2>4. CASE DumpRegions(m)
    <3>1. Filled(snapshot_tmp[slot[m]]) \in Image
      BY <1>0, <2>4, ImageUpdates DEF DumpRegions
    <3> QED BY <2>4, <3>1 DEF DumpRegions
  <2>5. CASE SyncSnapshot(m)
    <3>1. Synced(snapshot_tmp[slot[m]]) \in Image
      BY <1>0, <2>5, ImageUpdates DEF SyncSnapshot
    <3> QED BY <2>5, <3>1 DEF SyncSnapshot
  <2>6. CASE RenameSnapshot(m)
    <3>1. slot[m] \in Slots
      BY <1>0, <2>6 DEF RenameSnapshot
    <3> QED BY <2>6, <3>1, NoFiles DEF RenameSnapshot
  <2>7. CASE SyncSlotDir(m)
    <3>1. {snapshot[slot[m]]} \in SUBSET Image /\ {manifest[slot[m]]} \in SUBSET Nat
      BY <1>0, <2>7 DEF SyncSlotDir
    <3> QED BY <2>7, <3>1 DEF SyncSlotDir, fsync_parent_directory
  <2>8. CASE RenameManifest(m)
    <3>1. slot[m] \in Slots
      BY <1>0, <2>8 DEF RenameManifest
    <3>2. snapshot[slot[m]].ver \in Nat
      BY <3>1, ImageUpdates
    <3> QED BY <2>8, <3>1, <3>2 DEF RenameManifest
  <2>9. CASE SyncManifestDir(m)
    <3>1. {snapshot[slot[m]]} \in SUBSET Image /\ {manifest[slot[m]]} \in SUBSET Nat
      BY <1>0, <2>9 DEF SyncManifestDir
    <3> QED BY <2>9, <3>1 DEF SyncManifestDir, fsync_parent_directory
  <2>10. CASE WriteMeta(m)
    BY <2>10, NewMeta DEF WriteMeta
  <2>11. CASE SyncMeta(m)
    BY <2>11, MetaUpdates DEF SyncMeta
  <2>12. CASE RenameMeta(m)
    BY <2>12, NoFiles DEF RenameMeta
  <2>13. CASE SyncMetaDir(m)
    BY <2>13 DEF SyncMetaDir
  <2>14. CASE Report(m)
    <3>1. snapshot[slot[m]].ver \in Nat
      BY <1>0, <2>14, ImageUpdates DEF Report
    <3> QED BY <2>14, <3>1 DEF Report, Leave, checkpoint_lock_release
  <2> QED
    BY <1>1, <2>1, <2>2, <2>3, <2>4, <2>5, <2>6, <2>7, <2>8, <2>9, <2>10,
       <2>11, <2>12, <2>13, <2>14 DEF CheckpointStep
<1>2. ASSUME NEW m \in Managers, Abort(m) PROVE TypeOK'
  BY <1>2, NoFiles DEF Abort, Leave, checkpoint_lock_release, Labels, manifestVars,
         historyVars, restoreVars
<1>3. ASSUME NEW m \in Managers, Crash(m) PROVE TypeOK'
  BY <1>3 DEF Crash, Leave, checkpoint_lock_release, Labels, snapshotVars, manifestVars,
         metaVars, historyVars, restoreVars
<1>4. ASSUME NEW r \in Restorers, RestoreStep(r) PROVE TypeOK'
  <2> USE DEF storeVars, writeVars, snapshotVars, manifestVars, metaVars, historyVars,
              RGoto, UseSlot, RestoreLabels, RestoreActive
  <2>1. CASE ReadMeta(r)
    <3>1. read_active_slot \subseteq Slots \cup {NoSlot}
      BY DEF read_active_slot, ActiveSlot, Meta
    <3> QED BY <2>1, <3>1, NoFiles, CurrentType DEF ReadMeta
  <2>2. CASE ProbeSlotA(r)
    BY <2>2 DEF ProbeSlotA, Probe, Found, ulcr_file_exists, Slots
  <2>3. CASE ProbeSlotB(r)
    BY <2>3 DEF ProbeSlotB, Probe, Found, ulcr_file_exists, Slots
  <2>4. CASE ValidateInParent(r)
    <3>1. snapshot[rslot[r]] \in Image
      BY <1>0, <2>4 DEF ValidateInParent
    <3>2. snapshot[rslot[r]].whole \in BOOLEAN
      BY <3>1 DEF Image
    <3> QED BY <2>4, <3>2 DEF ValidateInParent, ulcr_load_snapshot
  <2>5. CASE LoadInChild(r)
    <3>1. snapshot[rslot[r]] \in Image
      BY <1>0, <2>5 DEF LoadInChild
    <3>2. snapshot[rslot[r]].whole \in BOOLEAN
      BY <3>1 DEF Image
    <3> QED BY <2>5, <3>1, <3>2 DEF LoadInChild, ulcr_load_snapshot
  <2> QED
    BY <1>4, <2>1, <2>2, <2>3, <2>4, <2>5 DEF RestoreStep
<1>5. CASE PowerLoss
  <2>1. ASSUME NEW f \in OneOfEach([s \in Slots |-> AfterPowerLoss(snapshot_disk[s])])
        PROVE  f \in [Slots -> Image]
    BY <2>1, SurvivorTypes DEF OneOfEach
  <2>2. ASSUME NEW f \in OneOfEach(manifest_disk) PROVE f \in [Slots -> Nat]
    BY <2>2 DEF OneOfEach
  <2>3. snapshot' \in [Slots -> Image] /\ manifest' \in [Slots -> Nat] /\ meta' \in Meta
    BY <1>5, <2>1, <2>2, SurvivorTypes DEF PowerLoss
  <2> QED
    BY <1>5, <2>3, NoFiles DEF PowerLoss, historyVars, Labels, RestoreLabels
<1>6. CASE UNCHANGED vars
  BY <1>6 DEF vars, writeVars, snapshotVars, manifestVars, metaVars, historyVars, restoreVars
<1> QED
  BY <1>1, <1>2, <1>3, <1>4, <1>5, <1>6 DEF Next, ProcessStep

-----------------------------------------------------------------------------
(***************************************************************************)
(* The inductive invariant.  A step of a manager concerns only that        *)
(* manager's Progress, because the lock keeps all others idle.             *)
(***************************************************************************)

LEMMA IdleProgress ==
    ASSUME NEW n \in Managers, pc'[n] = "idle"
    PROVE  Progress(n)'
BY DEF Progress, Writing, Numbered, Unpublished, Committed

LEMMA LockStep ==
    ASSUME TypeOK, LockInv, NEW m \in Managers, pc[m] # "idle",
           NEW to, pc' = [pc EXCEPT ![m] = to],
           lock' = IF to = "idle" THEN None ELSE lock
    PROVE  LockInv' /\ \A n \in Managers \ {m} : pc'[n] = "idle"
BY StoreAssumption DEF TypeOK, LockInv

\* A restore in progress does not mind a newer image in a slot, if it is the
\* newest there is.
LEMMA RestoreFrame ==
    ASSUME TypeOK, TypeOK', RestoreInv, UNCHANGED restoreVars, newest' >= newest,
           \A s \in Slots : /\ snapshot'[s].ver >= snapshot[s].ver
                            /\ snapshot'[s].ver \in {snapshot[s].ver, newest}
    PROVE  RestoreInv'
<1>1. /\ "A" \in Slots /\ "B" \in Slots
      /\ \A s \in Slots : snapshot[s].ver \in Nat /\ snapshot'[s].ver \in Nat
  BY ImageUpdates DEF TypeOK, Slots
<1>2. \A r \in Restorers : restored'[r] = restored[r] /\ rpc'[r] = rpc[r]
                           /\ rslot'[r] = rslot[r] /\ floor'[r] = floor[r]
                           /\ faulted'[r] = faulted[r]
  BY DEF restoreVars
<1>3. newest \in Nat /\ newest' \in Nat /\ \A r \in Restorers : floor[r] \in Nat /\ floor[r] <= newest
  BY DEF TypeOK, RestoreInv
<1>4. \A s \in Slots : \A r \in Restorers :
        snapshot[s].ver >= floor[r] => snapshot'[s].ver >= floor[r]
  BY <1>1, <1>3
<1>5. ASSUME NEW r \in Restorers, rpc[r] = "probe_A", ~faulted[r]
      PROVE  IF ulcr_file_exists(snapshot'["A"]) THEN snapshot'["A"].ver >= floor[r]
             ELSE snapshot'["B"].ver >= floor[r]
  <2>1. CASE ulcr_file_exists(snapshot["A"])
    BY <1>1, <1>4, <1>5, <2>1 DEF RestoreInv, ulcr_file_exists
  <2>2. CASE ~ulcr_file_exists(snapshot["A"])
    BY <1>1, <1>3, <1>4, <1>5, <2>2 DEF RestoreInv, ulcr_file_exists
  <2> QED
    BY <2>1, <2>2
<1>6. ASSUME NEW r \in Restorers, rpc[r] \in {"load", "exec"}
      PROVE  /\ rslot[r] \in Slots /\ snapshot'[rslot[r]].ver # 0
             /\ ~faulted[r] => snapshot'[rslot[r]].ver >= floor[r]
  <2>1. /\ rslot[r] \in Slots /\ snapshot[rslot[r]].ver # 0
        /\ ~faulted[r] => snapshot[rslot[r]].ver >= floor[r]
    BY <1>6 DEF RestoreInv
  <2> QED
    BY <1>1, <1>4, <2>1
<1> QED
  BY <1>1, <1>2, <1>3, <1>4, <1>5, <1>6 DEF RestoreInv

\* What is left to show for a step of manager m that holds the lock.
LEMMA ManagerStep ==
    ASSUME TypeOK, StoreInv, NEW m \in Managers, pc[m] # "idle",
           NEW to, pc' = [pc EXCEPT ![m] = to],
           lock' = IF to = "idle" THEN None ELSE lock,
           SlotInv', MetaInv', Progress(m)', RestoreInv'
    PROVE  StoreInv'
<1>1. LockInv' /\ \A n \in Managers \ {m} : pc'[n] = "idle"
  BY LockStep DEF StoreInv
<1> QED
  BY <1>1, IdleProgress DEF StoreInv, ProgressInv

LEMMA CheckpointStepInv ==
    ASSUME TypeOK, TypeOK', StoreInv, NEW m \in Managers, CheckpointStep(m)
    PROVE  StoreInv'
<1> DEFINE s == slot[m]
<1> USE DEF Goto, writeVars, snapshotVars, manifestVars, metaVars, historyVars
<1>0. LockInv /\ SlotInv /\ MetaInv /\ Progress(m) /\ RestoreInv
  BY DEF StoreInv, ProgressInv
<1>1. /\ newest \in Nat /\ acked \in Nat
      /\ \A t \in Slots : snapshot[t].ver \in Nat
      /\ \A t \in Slots : \A f \in snapshot_disk[t] : f.ver \in Nat
  BY ImageUpdates DEF TypeOK
<1>2. ASSUME newest' = newest \/ newest' = newest + 1, snapshot' = snapshot,
             UNCHANGED restoreVars
      PROVE  RestoreInv'
  <2>1. newest' >= newest
    BY <1>1, <1>2
  <2> QED BY <1>0, <1>1, <1>2, <2>1, RestoreFrame
<1>3. CASE checkpoint_lock_try_acquire(m)
  <2> USE <1>3 DEF checkpoint_lock_try_acquire
  <2>1. LockInv' /\ \A n \in Managers \ {m} : pc'[n] = "idle"
    BY <1>0, StoreAssumption DEF LockInv, TypeOK
  <2>2. pc'[m] = "choose"
    BY DEF TypeOK
  <2>3. SlotInv' /\ MetaInv'
    BY <1>0 DEF SlotInv, MetaInv
  <2>4. Progress(m)'
    BY <2>2 DEF Progress, Number, Writing, Numbered, Unpublished, Committed
  <2> QED
    BY <1>2, <2>1, <2>3, <2>4, IdleProgress DEF StoreInv, ProgressInv
<1>4. CASE ChooseSlot(m)
  <2> USE <1>4 DEF ChooseSlot
  <2>1. PICK active \in read_active_slot :
          /\ slot' = [slot EXCEPT ![m] = choose_next_slot(active)]
          /\ blind' = IF active = ActiveSlot THEN blind \ {newest + 1}
                      ELSE blind \cup {newest + 1}
    OBVIOUS
  <2>2. pc'[m] = "capture" /\ slot'[m] = choose_next_slot(active)
    BY <2>1 DEF TypeOK
  <2>3. SlotInv' /\ MetaInv'
    BY <1>0 DEF SlotInv, MetaInv
  <2>4. Progress(m)'
    <3>1. ActiveSlot = meta.slot
      BY <1>0 DEF MetaInv, ActiveSlot
    <3>2. slot'[m] \in Slots /\ (slot'[m] = "B" => meta'.slot = "A")
      BY <2>1, <2>2, <3>1 DEF choose_next_slot, read_active_slot, Slots, NoSlot
    <3>3. ASSUME slot'[m] = meta'.slot PROVE newest + 1 \in blind'
      BY <2>1, <2>2, <3>1, <3>3 DEF choose_next_slot, read_active_slot, Slots, NoSlot
    <3>4. Number(m)' = newest + 1
      BY <2>2 DEF Number
    <3> QED
      BY <2>2, <3>2, <3>3, <3>4 DEF Progress, Number, Writing, Numbered, Unpublished, Committed
  <2> QED BY <1>2, <2>2, <2>3, <2>4, ManagerStep
<1>5. CASE OpenSnapshot(m)
  <2> USE <1>5 DEF OpenSnapshot
  <2>1. pc'[m] = "dump" /\ slot' = slot /\ s \in Slots
    BY <1>0 DEF TypeOK, Progress, Writing
  <2>2. snapshot_tmp'[s].ver = newest + 1
    BY <1>1, <2>1, NewImage DEF TypeOK
  <2>3. SlotInv' /\ MetaInv'
    BY <1>0, <1>1 DEF SlotInv, MetaInv
  <2>4. \A t \in Slots : \A f \in snapshot_disk[t] : f.ver < newest + 1
    BY <1>0, <1>1 DEF SlotInv
  <2>5. Other(s) \in Slots
    BY DEF Other, Slots
  <2>6. Progress(m)'
    BY <1>0, <1>1, <2>1, <2>2, <2>4, <2>5 DEF Progress, Number, MetaInv, Writing, Numbered,
       Unpublished, Committed
  <2> QED BY <1>2, <2>1, <2>3, <2>6, ManagerStep
<1>6. CASE DumpRegions(m)
  <2> USE <1>6 DEF DumpRegions
  <2>1. pc'[m] = "sync" /\ slot' = slot /\ s \in Slots
    BY <1>0 DEF TypeOK, Progress, Writing
  <2>2. snapshot_tmp'[s].ver = snapshot_tmp[s].ver /\ snapshot_tmp'[s].whole
    BY <2>1, ImageUpdates DEF TypeOK
  <2>3. SlotInv' /\ MetaInv'
    BY <1>0 DEF SlotInv, MetaInv
  <2>4. Progress(m)'
    BY <1>0, <2>1, <2>2 DEF Progress, Number, Writing, Numbered, Unpublished, Committed
  <2> QED BY <1>2, <2>1, <2>3, <2>4, ManagerStep
<1>7. CASE SyncSnapshot(m)
  <2> USE <1>7 DEF SyncSnapshot
  <2>1. pc'[m] = "rename" /\ slot' = slot /\ s \in Slots
    BY <1>0 DEF TypeOK, Progress, Writing
  <2>2. /\ snapshot_tmp'[s].ver = snapshot_tmp[s].ver
        /\ snapshot_tmp'[s].whole = snapshot_tmp[s].whole /\ snapshot_tmp'[s].synced
    BY <2>1, ImageUpdates DEF TypeOK
  <2>3. SlotInv' /\ MetaInv'
    BY <1>0 DEF SlotInv, MetaInv
  <2>4. Progress(m)'
    BY <1>0, <2>1, <2>2 DEF Progress, Number, Writing, Numbered, Unpublished, Committed
  <2> QED BY <1>2, <2>1, <2>3, <2>4, ManagerStep
<1>8. CASE RenameSnapshot(m)
  <2> USE <1>8 DEF RenameSnapshot
  <2> DEFINE new == snapshot_tmp[s]
  <2>1. pc'[m] = "syncdir" /\ slot' = slot /\ s \in Slots
    BY <1>0 DEF TypeOK, Progress, Writing
  <2>2. new.ver = newest /\ new.whole /\ new.synced
    BY <1>0 DEF Progress, Unpublished
  <2>3. /\ snapshot'[s] = new
        /\ snapshot_disk'[s] = snapshot_disk[s] \cup {new}
        /\ \A t \in Slots \ {s} : snapshot'[t] = snapshot[t]
                                  /\ snapshot_disk'[t] = snapshot_disk[t]
    BY <2>1 DEF TypeOK
  <2>4. \A f \in snapshot_disk[s] \cup snapshot_disk[Other(s)] : f.ver < newest
    BY <1>0 DEF Progress, Unpublished, Numbered
  <2>5. SlotInv'
    BY <1>0, <1>1, <2>2, <2>3 DEF SlotInv
  <2>6. MetaInv'
    <3>1. acked < newest
      BY <1>0 DEF Progress, Unpublished, Numbered
    <3> QED BY <1>0, <1>1, <2>2, <2>3, <3>1 DEF MetaInv
  <2>7. Progress(m)'
    <3>1. Other(s) \in Slots \ {s}
      BY <2>1 DEF Other, Slots
    <3> QED BY <1>0, <2>1, <2>2, <2>3, <3>1 DEF Progress, Number, Writing, Numbered, Unpublished, Committed
  <2>8. /\ newest' >= newest
        /\ \A t \in Slots : /\ snapshot'[t].ver >= snapshot[t].ver
                            /\ snapshot'[t].ver \in {snapshot[t].ver, newest}
    BY <1>0, <1>1, <2>2, <2>3, <2>4 DEF SlotInv
  <2>9. RestoreInv'
    BY <1>0, <1>1, <2>8, RestoreFrame
  <2> QED BY <2>1, <2>5, <2>6, <2>7, <2>9, ManagerStep
<1>9. CASE SyncSlotDir(m)
  <2> USE <1>9 DEF SyncSlotDir, fsync_parent_directory
  <2>1. pc'[m] = "manifest" /\ slot' = slot /\ s \in Slots
    BY <1>0 DEF TypeOK, Progress, Writing
  <2>2. /\ snapshot_disk'[s] = {snapshot[s]}
        /\ \A t \in Slots \ {s} : snapshot_disk'[t] = snapshot_disk[t]
    BY <2>1 DEF TypeOK
  <2>3. \A t \in Slots : snapshot_disk'[t] \subseteq snapshot_disk[t]
    BY <1>0, <2>2 DEF SlotInv
  <2>4. SlotInv' /\ MetaInv'
    BY <1>0, <2>2, <2>3 DEF SlotInv, MetaInv
  <2>5. Progress(m)'
    <3>1. Other(s) \in Slots \ {s}
      BY <2>1 DEF Other, Slots
    <3> QED BY <1>0, <2>1, <2>2, <3>1 DEF Progress, Number, Writing, Numbered, Unpublished, Committed
  <2> QED BY <1>2, <2>1, <2>4, <2>5, ManagerStep
<1>10. CASE RenameManifest(m)
  <2> USE <1>10 DEF RenameManifest
  <2>1. pc'[m] = "syncmanifest" /\ slot' = slot /\ UNCHANGED <<snapshotVars, metaVars, historyVars>>
    BY DEF TypeOK
  <2>2. SlotInv' /\ MetaInv'
    BY <1>0, <2>1 DEF SlotInv, MetaInv
  <2>3. Progress(m)'
    BY <1>0, <2>1 DEF Progress, Number, Writing, Numbered, Unpublished, Committed
  <2> QED BY <1>2, <2>1, <2>2, <2>3, ManagerStep
<1>11. CASE SyncManifestDir(m)
  <2> USE <1>11 DEF SyncManifestDir, fsync_parent_directory
  <2>1. pc'[m] = "writemeta" /\ slot' = slot /\ s \in Slots
    BY <1>0 DEF TypeOK, Progress, Writing
  <2>2. /\ snapshot_disk'[s] = {snapshot[s]}
        /\ \A t \in Slots \ {s} : snapshot_disk'[t] = snapshot_disk[t]
    BY <2>1 DEF TypeOK
  <2>3. \A t \in Slots : snapshot_disk'[t] \subseteq snapshot_disk[t]
    BY <1>0, <2>2 DEF SlotInv
  <2>4. SlotInv' /\ MetaInv'
    BY <1>0, <2>2, <2>3 DEF SlotInv, MetaInv
  <2>5. Progress(m)'
    <3>1. Other(s) \in Slots \ {s}
      BY <2>1 DEF Other, Slots
    <3>2. \A f \in snapshot_disk'[s] : f.ver = newest
      BY <1>0, <2>1, <2>3 DEF Progress, Committed
    <3> QED BY <1>0, <2>1, <2>2, <3>1, <3>2 DEF Progress, Number, Writing, Numbered, Unpublished, Committed
  <2> QED BY <1>2, <2>1, <2>4, <2>5, ManagerStep
<1>12. CASE WriteMeta(m)
  <2> USE <1>12 DEF WriteMeta
  <2>1. pc'[m] = "syncmeta" /\ slot' = slot /\ s \in Slots
    BY <1>0 DEF TypeOK, Progress, Writing
  <2>2. meta_tmp'.slot = s /\ meta_tmp'.whole
    BY <2>1, NewMeta
  <2>3. SlotInv' /\ MetaInv'
    BY <1>0 DEF SlotInv, MetaInv
  <2>4. Progress(m)'
    BY <1>0, <2>1, <2>2 DEF Progress, Number, Writing, Numbered, Unpublished, Committed
  <2> QED BY <1>2, <2>1, <2>3, <2>4, ManagerStep
<1>13. CASE SyncMeta(m)
  <2> USE <1>13 DEF SyncMeta
  <2>1. pc'[m] = "renamemeta" /\ slot' = slot
    BY DEF TypeOK
  <2>2. meta_tmp'.slot = meta_tmp.slot /\ meta_tmp'.whole = meta_tmp.whole /\ meta_tmp'.synced
    BY MetaUpdates DEF TypeOK
  <2>3. SlotInv' /\ MetaInv'
    BY <1>0 DEF SlotInv, MetaInv
  <2>4. Progress(m)'
    BY <1>0, <2>1, <2>2 DEF Progress, Number, Writing, Numbered, Unpublished, Committed
  <2> QED BY <1>2, <2>1, <2>3, <2>4, ManagerStep
<1>14. CASE RenameMeta(m)
  <2> USE <1>14 DEF RenameMeta
  <2>1. pc'[m] = "syncmetadir" /\ slot' = slot /\ s \in Slots
    BY <1>0 DEF TypeOK, Progress, Writing
  <2>2. meta_tmp.slot = s /\ meta_tmp.whole /\ meta_tmp.synced
    BY <1>0 DEF Progress
  <2>3. SlotInv'
    BY <1>0 DEF SlotInv
  <2>4. MetaInv'
    <3>1. \A g \in snapshot_disk[s] : g.ver # 0 /\ g.ver >= acked
      BY <1>0, <1>1 DEF Progress, Committed, Numbered
    <3>2. s # NoSlot
      BY <2>1 DEF Slots, NoSlot
    <3> QED BY <1>0, <2>2, <3>1, <3>2 DEF MetaInv
  <2>5. Progress(m)'
    BY <1>0, <2>1, <2>2 DEF Progress, Number, Writing, Numbered, Unpublished, Committed
  <2> QED BY <1>2, <2>1, <2>3, <2>4, <2>5, ManagerStep
<1>15. CASE SyncMetaDir(m)
  <2> USE <1>15 DEF SyncMetaDir
  <2>1. pc'[m] = "report" /\ slot' = slot
    BY DEF TypeOK
  <2>2. SlotInv' /\ MetaInv'
    BY <1>0 DEF SlotInv, MetaInv
  <2>3. Progress(m)'
    BY <1>0, <2>1 DEF Progress, Number, Writing, Numbered, Unpublished, Committed
  <2> QED BY <1>2, <2>1, <2>2, <2>3, ManagerStep
<1>16. CASE Report(m)
  <2> USE <1>16 DEF Report, Leave, checkpoint_lock_release
  <2>1. pc'[m] = "idle" /\ pc[m] # "idle" /\ lock' = None
    BY <1>0 DEF TypeOK, LockInv
  <2>2. s \in Slots /\ snapshot[s].ver = newest /\ acked < newest
    BY <1>0 DEF Progress, Numbered, Committed, SlotInv
  <2>3. SlotInv'
    BY <1>0 DEF SlotInv
  <2>4. MetaInv'
    <3>1. meta_disk = {meta} /\ meta.slot = s /\ s # NoSlot
      BY <1>0, <2>2 DEF Progress, Slots, NoSlot
    <3>2. \A g \in snapshot_disk[s] : g.ver = newest
      BY <1>0 DEF Progress, Committed
    <3> QED BY <1>0, <1>1, <2>2, <3>1, <3>2 DEF MetaInv
  <2>5. Progress(m)'
    BY <2>1, IdleProgress
  <2> QED BY <1>2, <2>1, <2>3, <2>4, <2>5, ManagerStep
<1> QED
  BY <1>3, <1>4, <1>5, <1>6, <1>7, <1>8, <1>9, <1>10, <1>11, <1>12, <1>13, <1>14,
     <1>15, <1>16 DEF CheckpointStep

\* A call that fails or whose manager dies leaves the store as it stands.
LEMMA FailureInv ==
    ASSUME TypeOK, TypeOK', StoreInv, NEW m \in Managers, Abort(m) \/ Crash(m)
    PROVE  StoreInv'
<1> USE DEF Abort, Crash, Leave, checkpoint_lock_release, snapshotVars, manifestVars, metaVars,
            historyVars
<1>0. LockInv /\ SlotInv /\ MetaInv /\ RestoreInv
  BY DEF StoreInv
<1>1. /\ pc[m] # "idle" /\ pc'[m] = "idle" /\ pc' = [pc EXCEPT ![m] = "idle"]
      /\ lock' = None
  BY <1>0 DEF TypeOK, LockInv
<1>2. /\ UNCHANGED <<snapshot, snapshot_disk, meta, meta_disk, newest, acked, restoreVars>>
  OBVIOUS
<1>3. SlotInv' /\ MetaInv'
  BY <1>0, <1>2 DEF SlotInv, MetaInv
<1>4. RestoreInv'
  <2>1. newest' >= newest /\ \A t \in Slots : snapshot'[t].ver >= snapshot[t].ver
    BY <1>2, ImageUpdates DEF TypeOK
  <2> QED BY <1>0, <1>2, <2>1, RestoreFrame
<1> QED
  BY <1>1, <1>3, <1>4, IdleProgress, ManagerStep

\* What recovery finds when active.meta names slot t, and when it names none.
LEMMA NamedSlot ==
    ASSUME TypeOK, SlotInv, MetaInv
    PROVE  /\ ActiveSlot = meta.slot
           /\ meta.slot \in Slots =>
                /\ snapshot[meta.slot].ver # 0 /\ snapshot[meta.slot].ver >= acked
           /\ meta.slot \notin Slots => acked = 0
           /\ \A t \in Slots : snapshot[t].ver # 0 => snapshot[t].whole
BY DEF TypeOK, Meta, SlotInv, MetaInv, ActiveSlot

\* The capture recovery would use, in terms of what active.meta names.
LEMMA CurrentIs ==
    ASSUME TypeOK, SlotInv, MetaInv
    PROVE  /\ CurrentVersion = IF meta.slot \in Slots THEN snapshot[meta.slot].ver
                               ELSE IF snapshot["A"].ver # 0 THEN snapshot["A"].ver
                               ELSE snapshot["B"].ver
           /\ CurrentVersion \in acked .. newest
<1>1. /\ acked \in Nat /\ newest \in Nat /\ acked <= newest
      /\ \A t \in Slots : snapshot[t].ver \in Nat /\ snapshot[t].ver <= newest
  BY ImageUpdates DEF TypeOK, SlotInv, MetaInv
<1>2. CASE meta.slot \in Slots
  BY <1>1, <1>2, NamedSlot DEF CurrentVersion, active_checkpoint_dir, Slots, NoSlot
<1>3. CASE meta.slot \notin Slots
  BY <1>1, <1>3, NamedSlot DEF CurrentVersion, active_checkpoint_dir, ulcr_file_exists,
     Slots, NoSlot
<1> QED BY <1>2, <1>3

LEMMA RestoreStepInv ==
    ASSUME TypeOK, TypeOK', StoreInv, NEW r \in Restorers, RestoreStep(r)
    PROVE  StoreInv'
<1> USE DEF storeVars, writeVars, snapshotVars, manifestVars, metaVars, historyVars
<1>0. LockInv /\ SlotInv /\ MetaInv /\ ProgressInv /\ RestoreInv
  BY DEF StoreInv
<1>1. UNCHANGED storeVars
  BY DEF RestoreStep, ReadMeta, ProbeSlotA, ProbeSlotB, Probe, ValidateInParent, LoadInChild
<1>2. LockInv' /\ SlotInv' /\ MetaInv'
  BY <1>0, <1>1 DEF LockInv, SlotInv, MetaInv
<1>3. ProgressInv'
  <2>1. ASSUME NEW m \in Managers PROVE Progress(m)'
    BY <1>0, <1>1 DEF ProgressInv, Progress, Number
  <2> QED BY <2>1 DEF ProgressInv
<1>4. \A t \in Slots : snapshot[t].ver \in Nat /\ (snapshot[t].ver # 0 => snapshot[t].whole)
  BY <1>0, NamedSlot, ImageUpdates DEF TypeOK
<1>5. "A" \in Slots /\ "B" \in Slots /\ NoSlot \notin Slots /\ acked \in Nat
  BY DEF Slots, NoSlot, TypeOK
<1>6. CurrentVersion \in Nat /\ newest \in Nat /\ CurrentVersion <= newest
  BY <1>0, CurrentIs DEF TypeOK
<1>7. RestoreInv'
  <2> USE DEF TypeOK, RGoto, UseSlot
  <2>0. \A q \in Restorers \ {r} : /\ rpc'[q] = rpc[q] /\ rslot'[q] = rslot[q] /\ floor'[q] = floor[q]
                                  /\ faulted'[q] = faulted[q] /\ restored'[q] = restored[q]
    BY DEF RestoreStep, ReadMeta, ProbeSlotA, ProbeSlotB, Probe, ValidateInParent, LoadInChild
  <2> DEFINE Good(q) ==
        /\ floor[q] <= newest
        /\ rpc[q] \in {"load", "exec"} => rslot[q] \in Slots /\ snapshot[rslot[q]].ver # 0
        /\ ~faulted[q] =>
            /\ rpc[q] = "probe_A" =>
                IF ulcr_file_exists(snapshot["A"]) THEN snapshot["A"].ver >= floor[q]
                ELSE snapshot["B"].ver >= floor[q]
            /\ rpc[q] = "probe_B" => snapshot["B"].ver >= floor[q]
            /\ rpc[q] \in {"load", "exec"} => snapshot[rslot[q]].ver >= floor[q]
        /\ rpc[q] = "failed" => floor[q] = 0 \/ faulted[q]
        /\ rpc[q] = "restored" =>
            restored[q].whole /\ (~faulted[q] => restored[q].ver >= floor[q])
  <2>6. Good(r)
    BY <1>0 DEF RestoreInv
  <2>7. Good(r)' => RestoreInv'
    BY <1>0, <1>1, <2>0 DEF RestoreInv
  <2>1. CASE ReadMeta(r)
    <3>1. PICK active \in read_active_slot :
          /\ floor'[r] = CurrentVersion /\ faulted'[r] = (active # ActiveSlot)
          /\ UNCHANGED <<snapshot, newest>>
          /\ \/ active \in Slots /\ rpc'[r] = "load" /\ rslot'[r] = active
             \/ active \notin Slots /\ rpc'[r] = "probe_A"
      BY <2>1 DEF ReadMeta
    <3>2. CASE active \in Slots
      <4>1. /\ active = meta.slot /\ snapshot[active].ver # 0
            /\ snapshot[active].ver >= CurrentVersion
        BY <1>0, <1>4, <1>5, <3>1, <3>2, NamedSlot, CurrentIs DEF read_active_slot
      <4> QED BY <1>5, <1>6, <2>7, <3>1, <3>2, <4>1
    <3>3. CASE active \notin Slots
      <4>1. ASSUME active = ActiveSlot
            PROVE  IF ulcr_file_exists(snapshot["A"]) THEN snapshot["A"].ver >= CurrentVersion
                   ELSE snapshot["B"].ver >= CurrentVersion
        BY <1>0, <1>4, <1>5, <3>3, <4>1, NamedSlot, CurrentIs DEF ulcr_file_exists
      <4> QED BY <1>6, <2>7, <3>1, <3>3, <4>1
    <3> QED BY <3>2, <3>3
  <2>2. CASE ProbeSlotA(r)
    <3>1. PICK found \in Found(snapshot["A"]) :
          /\ rpc[r] = "probe_A" /\ UNCHANGED <<snapshot, newest, floor, restored>>
          /\ faulted'[r] = (faulted[r] \/ found # ulcr_file_exists(snapshot["A"]))
          /\ IF found THEN rpc'[r] = "load" /\ rslot'[r] = "A" ELSE rpc'[r] = "probe_B"
      BY <2>2 DEF ProbeSlotA, Probe
    <3> QED BY <1>4, <1>5, <2>6, <2>7, <3>1 DEF Found, ulcr_file_exists
  <2>3. CASE ProbeSlotB(r)
    <3>1. PICK found \in Found(snapshot["B"]) :
          /\ rpc[r] = "probe_B" /\ UNCHANGED <<snapshot, newest, floor, restored>>
          /\ faulted'[r] = (faulted[r] \/ found # ulcr_file_exists(snapshot["B"]))
          /\ IF found THEN rpc'[r] = "load" /\ rslot'[r] = "B" ELSE rpc'[r] = "failed"
      BY <2>3 DEF ProbeSlotB, Probe
    <3>2. found \in BOOLEAN /\ (found => snapshot["B"].ver # 0)
      BY DEF Found, ulcr_file_exists
    <3>3. ~found /\ ~faulted'[r] => snapshot["B"].ver = 0
      BY <3>1, <3>2 DEF ulcr_file_exists
    <3>4. floor[r] \in Nat /\ snapshot["B"].ver \in Nat
      BY <1>4, <1>5
    <3>5. CASE found
      BY <1>5, <2>6, <2>7, <3>1, <3>2, <3>5
    <3>6. CASE ~found
      BY <2>6, <2>7, <3>1, <3>3, <3>4, <3>6
    <3> QED BY <3>5, <3>6
  <2>4. CASE ValidateInParent(r)
    <3>1. PICK ok \in ulcr_load_snapshot(rslot[r]), forked \in BOOLEAN :
          /\ rpc[r] = "load" /\ UNCHANGED <<snapshot, newest, floor, restored>>
          /\ faulted'[r] = (faulted[r] \/ IF ok THEN ~forked ELSE snapshot[rslot[r]].whole)
          /\ rpc'[r] = IF ok /\ forked THEN "exec" ELSE "failed"
          /\ ok /\ forked => rslot'[r] = rslot[r]
      BY <2>4 DEF ValidateInParent
    <3>2. snapshot[rslot[r]].whole
      BY <1>4, <2>6, <3>1
    <3> QED BY <2>6, <2>7, <3>1, <3>2
  <2>5. CASE LoadInChild(r)
    <3>1. PICK ok \in ulcr_load_snapshot(rslot[r]) :
          /\ rpc[r] = "exec" /\ UNCHANGED <<snapshot, newest, floor>>
          /\ faulted'[r] = (faulted[r] \/ (~ok /\ snapshot[rslot[r]].whole))
          /\ rpc'[r] = IF ok THEN "restored" ELSE "failed"
          /\ ok => restored'[r] = snapshot[rslot[r]]
      BY <2>5 DEF LoadInChild
    <3>2. snapshot[rslot[r]].whole
      BY <1>4, <2>6, <3>1
    <3> QED BY <2>6, <2>7, <3>1, <3>2
  <2> QED BY <2>1, <2>2, <2>3, <2>4, <2>5 DEF RestoreStep
<1> QED
  BY <1>2, <1>3, <1>7 DEF StoreInv

\* Everything a name may denote has been fsynced, so a power loss only picks
\* one of the files the invariant speaks of.
LEMMA PowerLossInv ==
    ASSUME TypeOK, TypeOK', StoreInv, PowerLoss
    PROVE  StoreInv'
<1>0. SlotInv /\ MetaInv
  BY DEF StoreInv
<1>1. \A t \in Slots : snapshot'[t] \in snapshot_disk[t] /\ snapshot_disk'[t] = {snapshot'[t]}
  BY <1>0, SyncedSurvive DEF PowerLoss, OneOfEach, SlotInv
<1>2. meta' \in meta_disk /\ meta_disk' = {meta'}
  BY <1>0, SyncedSurvive DEF PowerLoss, MetaInv
<1>3. newest' = newest /\ acked' = acked /\ newest \in Nat /\ acked \in Nat
  BY DEF PowerLoss, historyVars, TypeOK
<1>4. SlotInv'
  BY <1>0, <1>1, <1>3 DEF SlotInv
<1>5. MetaInv'
  BY <1>0, <1>1, <1>2, <1>3 DEF MetaInv
<1>6. LockInv'
  BY StoreAssumption DEF PowerLoss, LockInv
<1>7. ProgressInv'
  BY IdleProgress DEF PowerLoss, ProgressInv
<1>8. RestoreInv'
  BY <1>3 DEF PowerLoss, RestoreInv
<1> QED
  BY <1>4, <1>5, <1>6, <1>7, <1>8 DEF StoreInv

LEMMA InitInv == Init => TypeOK /\ StoreInv
<1> SUFFICES ASSUME Init PROVE TypeOK /\ StoreInv
  OBVIOUS
<1> USE NoFiles DEF Init
<1>1. TypeOK
  BY DEF TypeOK, Labels, RestoreLabels
<1>2. LockInv
  BY StoreAssumption DEF LockInv
<1>3. SlotInv /\ MetaInv
  BY DEF SlotInv, MetaInv, Slots, NoSlot
<1>4. ProgressInv
  BY DEF ProgressInv, Progress, Writing, Numbered, Unpublished, Committed
<1>5. RestoreInv
  BY DEF RestoreInv
<1> QED BY <1>1, <1>2, <1>3, <1>4, <1>5 DEF StoreInv

LEMMA NextInv == TypeOK /\ StoreInv /\ [Next]_vars => (TypeOK /\ StoreInv)'
<1> SUFFICES ASSUME TypeOK, StoreInv, [Next]_vars PROVE (TypeOK /\ StoreInv)'
  OBVIOUS
<1>1. TypeOK'
  BY TypeStep DEF StoreInv
<1>2. CASE UNCHANGED vars
  <2> USE <1>2 DEF vars, writeVars, snapshotVars, manifestVars, metaVars, historyVars, restoreVars
  <2>1. LockInv' /\ SlotInv' /\ MetaInv' /\ RestoreInv'
    BY DEF StoreInv, LockInv, SlotInv, MetaInv, RestoreInv
  <2>2. ASSUME NEW m \in Managers PROVE Progress(m)'
    BY DEF StoreInv, ProgressInv, Progress, Number
  <2> QED BY <1>1, <2>1, <2>2 DEF StoreInv, ProgressInv
<1> QED
  BY <1>1, <1>2, CheckpointStepInv, FailureInv, RestoreStepInv, PowerLossInv
     DEF Next, ProcessStep

-----------------------------------------------------------------------------
(***************************************************************************)
(* The theorems.                                                           *)
(***************************************************************************)

\* Every variable of the store keeps its type, for every set of managers and
\* restorers.
THEOREM TypeCorrect == Spec => []TypeOK
BY InitInv, NextInv, PTL DEF Spec

\* The inductive invariant holds: only the lock holder is inside
\* ulcr_checkpoint_latest, all a slot name may denote is complete and fsynced,
\* every active.meta that may survive names a slot that is new enough.
THEOREM StoreCorrect == Spec => []StoreInv
BY InitInv, NextInv, PTL DEF Spec

\* What recovery would use is never a torn image.
THEOREM RecoveryCorrect == Spec => []RecoveryIsWhole
<1>1. TypeOK /\ StoreInv => RecoveryIsWhole
  BY NamedSlot DEF StoreInv, RecoveryIsWhole, active_checkpoint_dir, ulcr_file_exists,
     Slots, NoSlot
<1> QED
  BY <1>1, InitInv, NextInv, PTL DEF Spec

\* No acknowledged checkpoint is lost, whatever crashes and power losses.
THEOREM Durability == Spec => []NoLostCheckpoint
<1>1. TypeOK /\ StoreInv => NoLostCheckpoint
  BY CurrentIs DEF StoreInv, NoLostCheckpoint, TypeOK
<1> QED
  BY <1>1, InitInv, NextInv, PTL DEF Spec

\* A restore without the lock gets a complete image whatever fails; if no call
\* of it failed on a good file, that image is no older than the one recovery
\* would have used when it began, and it fails only if there was none.
THEOREM RestoreCorrect == Spec => []RestoreIsCurrent
<1>1. StoreInv => RestoreIsCurrent
  BY DEF StoreInv, RestoreInv, RestoreIsCurrent
<1> QED
  BY <1>1, InitInv, NextInv, PTL DEF Spec

\* A rename of snapshot.bin puts the newest capture into its slot, and that is
\* the active one only for a capture that chose its slot after a failed read.
LEMMA RenamedImage ==
    ASSUME TypeOK, StoreInv, NEW m \in Managers, RenameSnapshot(m)
    PROVE  /\ slot[m] \in Slots
           /\ snapshot'[slot[m]].ver = newest
           /\ \A s \in Slots : s # slot[m] => snapshot'[s] = snapshot[s]
           /\ slot[m] = ActiveSlot => newest \in blind
           /\ UNCHANGED <<manifest, meta, ActiveSlot, blind>>
<1>1. Progress(m) /\ pc[m] = "rename" /\ ActiveSlot = meta.slot
  BY NamedSlot DEF StoreInv, ProgressInv, RenameSnapshot, Goto
<1>2. /\ slot[m] \in Slots /\ snapshot_tmp[slot[m]].ver = newest
      /\ slot[m] = ActiveSlot => newest \in blind
  BY <1>1 DEF Progress, Number, Writing, Unpublished
<1> QED
  BY <1>2 DEF TypeOK, RenameSnapshot, ActiveSlot, manifestVars, metaVars, historyVars

\* While the machine stays up nobody replaces the image active.meta points to,
\* except for a capture whose manager could not read active.meta: no failed or
\* interrupted call leads the next one into the active slot.
THEOREM ActiveUntouched == Spec => ActiveSlotUntouched
<1>1. TypeOK /\ StoreInv /\ [Next]_vars
        => [\A s \in Slots : ActiveSlot = s /\ snapshot'[s] # snapshot[s]
                => snapshot'[s].ver \in blind \/ PowerLoss]_vars
  <2> SUFFICES ASSUME TypeOK, StoreInv, ProcessStep, NEW s \in Slots, ActiveSlot = s,
                      snapshot'[s] # snapshot[s]
               PROVE  snapshot'[s].ver \in blind
    BY DEF Next
  <2>1. \E m \in Managers : RenameSnapshot(m)
    BY DEF ProcessStep, CheckpointStep, RestoreStep, Abort, Crash, ReadMeta, ProbeSlotA,
       ProbeSlotB, Probe, ValidateInParent, LoadInChild, checkpoint_lock_try_acquire, ChooseSlot,
       OpenSnapshot, DumpRegions, SyncSnapshot, SyncSlotDir, RenameManifest, SyncManifestDir,
       WriteMeta, SyncMeta, RenameMeta, SyncMetaDir, Report, storeVars, snapshotVars
  <2> QED BY <2>1, RenamedImage
<1> QED
  BY <1>1, InitInv, NextInv, PTL DEF Spec, ActiveSlotUntouched

-----------------------------------------------------------------------------
(***************************************************************************)
(* The manifest next to the active image.                                  *)
(***************************************************************************)

\* The labels from the rename of the manifest on, until active.meta is renamed.
Described == {"syncmanifest", "writemeta", "syncmeta", "renamemeta"}

\* There the slot being written holds an image and a manifest of one capture.
ManifestInv == \A m \in Managers : pc[m] \in Described => ManifestMatches(slot[m])

\* While m is in the function, no other manager is.
LEMMA OthersIdle ==
    ASSUME TypeOK, StoreInv, NEW m \in Managers, pc[m] # "idle", NEW n \in Managers, n # m
    PROVE  pc[n] = "idle"
BY DEF StoreInv, LockInv

\* A step that leaves the images, the manifests and the slot of whoever is
\* behind the rename of the manifest alone, and brings nobody there.
LEMMA ManifestFrame ==
    ASSUME ManifestInv, UNCHANGED <<snapshot, manifest>>,
           \A m \in Managers : pc'[m] \in Described => pc[m] \in Described /\ slot'[m] = slot[m]
    PROVE  ManifestInv'
BY DEF ManifestInv, ManifestMatches

\* Every step keeps ManifestInv, and no step of a process gives the active slot
\* the manifest of another capture, but for a capture written over it.
LEMMA ManifestStep ==
    ASSUME TypeOK, StoreInv, ManifestInv, [Next]_vars
    PROVE  /\ ManifestInv'
           /\ [\A s \in Slots : ActiveSlot' = s =>
                  \/ ManifestMatches(s)'
                  \/ ActiveSlot = s /\ (~ManifestMatches(s) \/ snapshot'[s].ver \in blind)
                  \/ PowerLoss]_vars
<1> USE DEF TypeOK, Goto, snapshotVars, manifestVars, metaVars, historyVars, restoreVars
<1>0. ASSUME UNCHANGED <<snapshot, manifest, meta>>, NEW s \in Slots, ActiveSlot' = s
      PROVE  ManifestMatches(s)' \/ (ActiveSlot = s /\ ~ManifestMatches(s))
  BY <1>0 DEF ManifestMatches, ActiveSlot
<1>1. ASSUME NEW m \in Managers, RenameSnapshot(m)
      PROVE  /\ ManifestInv'
             /\ \A s \in Slots : ActiveSlot' = s =>
                   \/ ManifestMatches(s)'
                   \/ ActiveSlot = s /\ (~ManifestMatches(s) \/ snapshot'[s].ver \in blind)
  <2>1. \A n \in Managers : pc'[n] \in {"idle", "syncdir"}
    BY <1>1, OthersIdle DEF RenameSnapshot
  <2>2. ManifestInv'
    BY <2>1 DEF ManifestInv, Described
  <2> QED
    BY <1>1, <2>2, RenamedImage DEF ManifestMatches
<1>2. ASSUME NEW m \in Managers, RenameManifest(m)
      PROVE  /\ ManifestInv'
             /\ \A s \in Slots : ActiveSlot' = s =>
                   ManifestMatches(s)' \/ (ActiveSlot = s /\ ~ManifestMatches(s))
  <2>1. slot[m] \in Slots
    BY <1>2 DEF StoreInv, ProgressInv, Progress, Writing, RenameManifest
  <2>2. \A n \in Managers : n # m => pc'[n] = "idle"
    BY <1>2, OthersIdle DEF RenameManifest
  <2>3. /\ manifest'[slot[m]] = snapshot[slot[m]].ver
        /\ \A s \in Slots : s # slot[m] => manifest'[s] = manifest[s]
        /\ UNCHANGED <<snapshot, slot, ActiveSlot>>
    BY <1>2, <2>1 DEF RenameManifest, ActiveSlot
  <2>4. ManifestInv'
    BY <2>2, <2>3 DEF ManifestInv, ManifestMatches, Described
  <2> QED
    BY <2>3, <2>4 DEF ManifestMatches
<1>3. ASSUME NEW m \in Managers, RenameMeta(m)
      PROVE  ManifestInv' /\ \A s \in Slots : ActiveSlot' = s => ManifestMatches(s)'
  <2>1. meta'.slot = slot[m] /\ meta'.whole /\ UNCHANGED <<snapshot, manifest, slot>>
    BY <1>3 DEF StoreInv, ProgressInv, Progress, RenameMeta
  <2>2. ManifestMatches(slot[m])
    BY <1>3 DEF ManifestInv, Described, RenameMeta
  <2>3. \A n \in Managers : pc'[n] \in {"idle", "syncmetadir"}
    BY <1>3, OthersIdle DEF RenameMeta
  <2>4. ManifestInv'
    BY <2>3 DEF ManifestInv, Described
  <2> QED
    BY <2>1, <2>2, <2>4 DEF ManifestMatches, ActiveSlot
<1>4. ASSUME NEW m \in Managers,
             \/ checkpoint_lock_try_acquire(m) \/ ChooseSlot(m) \/ OpenSnapshot(m) \/ DumpRegions(m)
             \/ SyncSnapshot(m) \/ SyncSlotDir(m) \/ SyncManifestDir(m) \/ WriteMeta(m) \/ SyncMeta(m)
             \/ SyncMetaDir(m) \/ Report(m) \/ Abort(m) \/ Crash(m)
      PROVE  ManifestInv' /\ UNCHANGED <<snapshot, manifest, meta>>
  <2> USE <1>4 DEF checkpoint_lock_try_acquire, ChooseSlot, OpenSnapshot, DumpRegions, SyncSnapshot,
      SyncSlotDir, SyncManifestDir, WriteMeta, SyncMeta, SyncMetaDir, Report, Abort, Crash, Leave
  <2>1. UNCHANGED <<snapshot, manifest, meta>>
    OBVIOUS
  <2>2. \A n \in Managers : pc'[n] \in Described => pc[n] \in Described /\ slot'[n] = slot[n]
    BY DEF Described
  <2> QED
    BY <2>1, <2>2, ManifestFrame
<1>5. ASSUME NEW r \in Restorers, RestoreStep(r)
      PROVE  ManifestInv' /\ UNCHANGED <<snapshot, manifest, meta>>
  <2>1. UNCHANGED <<snapshot, manifest, meta, pc, slot>>
    BY <1>5 DEF RestoreStep, ReadMeta, ProbeSlotA, ProbeSlotB, Probe, ValidateInParent, LoadInChild,
       storeVars, writeVars
  <2> QED
    BY <2>1, ManifestFrame
<1>6. CASE PowerLoss
  BY <1>6 DEF PowerLoss, ManifestInv, Described
<1>7. CASE UNCHANGED vars
  BY <1>7, ManifestFrame DEF vars, writeVars
<1> QED
  BY <1>0, <1>1, <1>2, <1>3, <1>4, <1>5, <1>6, <1>7 DEF Next, ProcessStep, CheckpointStep

\* No process makes a slot the active one while it holds the manifest of another
\* capture, and the active one keeps its own, whatever failed between the two
\* renames (snapshot.c, ulcr_write_manifest), unless a capture is written over
\* it after a failed read of active.meta.
THEOREM ManifestKept == Spec => ManifestDescribesActive
<1>1. Init => ManifestInv
  BY DEF Init, ManifestInv, Described
<1>2. TypeOK /\ StoreInv /\ ManifestInv /\ [Next]_vars => (TypeOK /\ StoreInv /\ ManifestInv)'
  BY NextInv, ManifestStep
<1>3. TypeOK /\ StoreInv /\ ManifestInv /\ [Next]_vars
        => [\A s \in Slots : ActiveSlot' = s =>
               \/ ManifestMatches(s)'
               \/ ActiveSlot = s /\ (~ManifestMatches(s) \/ snapshot'[s].ver \in blind)
               \/ PowerLoss]_vars
  BY ManifestStep
<1> QED
  BY <1>1, <1>2, <1>3, InitInv, PTL DEF Spec, ManifestDescribesActive

-----------------------------------------------------------------------------
(***************************************************************************)
(* Refinement: the store is one atomic register.                           *)
(***************************************************************************)

\* Steps that leave the images and active.meta alone do not change the register.
LEMMA CurrentFrame ==
    ASSUME UNCHANGED <<snapshot, meta>>
    PROVE  CurrentVersion' = CurrentVersion
BY DEF CurrentVersion, active_checkpoint_dir, ActiveSlot, ulcr_file_exists

\* A new image is published by its rename if recovery already looks at its slot:
\* because active.meta names none, or names this one and could not be read.
LEMMA RenameSnapshotRefines ==
    ASSUME TypeOK, StoreInv, TypeOK', StoreInv', NEW m \in Managers, RenameSnapshot(m)
    PROVE  Atomic!Publish \/ UNCHANGED Atomic!vars
<1>0. /\ SlotInv /\ MetaInv /\ SlotInv' /\ MetaInv' /\ Progress(m) /\ pc[m] = "rename"
      /\ UNCHANGED <<meta, acked, newest>>
  BY DEF StoreInv, ProgressInv, RenameSnapshot, Goto, metaVars, historyVars
<1>1. /\ slot[m] \in Slots /\ (slot[m] = "B" => meta.slot = "A")
      /\ \A f \in snapshot_disk[slot[m]] \cup snapshot_disk[Other(slot[m])] : f.ver < newest
  BY <1>0 DEF Progress, Writing, Unpublished, Numbered
<1>2. /\ snapshot'[slot[m]].ver = newest
      /\ \A t \in Slots \ {slot[m]} : snapshot'[t] = snapshot[t]
  BY RenamedImage
<1>3. /\ newest \in Nat /\ newest # 0
      /\ \A t \in Slots : snapshot[t].ver < newest /\ snapshot[t].ver \in Nat
  BY <1>0, <1>1, ImageUpdates DEF SlotInv, Other, Slots, TypeOK
<1>4. CurrentVersion < newest
  BY <1>0, <1>3, CurrentIs DEF Slots
<1>5. CASE meta.slot \in Slots \ {slot[m]}
  <2>1. snapshot'[meta.slot] = snapshot[meta.slot]
    BY <1>2, <1>5
  <2>2. CurrentVersion' = CurrentVersion
    <3>1. ActiveSlot = meta.slot /\ ActiveSlot' = meta.slot
      BY <1>0 DEF MetaInv, ActiveSlot, TypeOK, Meta
    <3> QED BY <1>5, <2>1, <3>1 DEF CurrentVersion, active_checkpoint_dir
  <2> QED BY <1>0, <2>2 DEF Atomic!vars
<1>6. CASE meta.slot \notin Slots \ {slot[m]}
  <2>1. meta.slot = slot[m] \/ (meta.slot \notin Slots /\ slot[m] = "A")
    BY <1>1, <1>6 DEF Slots
  <2>2. CurrentVersion' = newest
    <3>1. ActiveSlot' = meta.slot
      BY <1>0 DEF MetaInv, ActiveSlot, TypeOK, Meta
    <3> QED BY <1>1, <1>2, <1>3, <2>1, <3>1 DEF CurrentVersion, active_checkpoint_dir,
           ulcr_file_exists, Slots, NoSlot
  <2> QED BY <1>0, <1>4, <2>2 DEF Atomic!Publish
<1> QED BY <1>5, <1>6

LEMMA RenameMetaRefines ==
    ASSUME TypeOK, StoreInv, TypeOK', StoreInv', NEW m \in Managers, RenameMeta(m)
    PROVE  Atomic!Publish \/ UNCHANGED Atomic!vars
<1> USE DEF RenameMeta, historyVars, snapshotVars
<1>0. /\ SlotInv /\ MetaInv /\ Progress(m)
      /\ UNCHANGED <<snapshot, acked, newest>>
  BY DEF StoreInv, ProgressInv
<1>1. /\ meta'.slot = slot[m] /\ meta'.whole /\ slot[m] \in Slots
      /\ (slot[m] = "B" => meta.slot = "A")
      /\ \A f \in snapshot_disk[slot[m]] : f.ver = newest
      /\ \A f \in snapshot_disk[Other(slot[m])] : f.ver < newest
  BY <1>0 DEF Goto, Progress, Writing, Committed, Numbered
<1>2. snapshot[slot[m]].ver = newest /\ snapshot[Other(slot[m])].ver < newest
  BY <1>0, <1>1 DEF SlotInv, Other, Slots
<1>3. CurrentVersion' = newest
  BY <1>0, <1>1, <1>2 DEF CurrentVersion, active_checkpoint_dir, ActiveSlot, Slots, NoSlot
<1>4. CASE meta.slot \in Slots \ {slot[m]}
  <2>1. Other(slot[m]) = meta.slot
    BY <1>1, <1>4 DEF Other, Slots
  <2>2. CurrentVersion < newest
    BY <1>0, <1>2, <1>4, <2>1, CurrentIs
  <2> QED BY <1>0, <1>3, <2>2 DEF Atomic!Publish
<1>5. CASE meta.slot = slot[m]
  <2>1. CurrentVersion = newest
    BY <1>0, <1>1, <1>2, <1>5, CurrentIs
  <2> QED BY <1>0, <1>3, <2>1 DEF Atomic!vars
<1>6. CASE meta.slot \notin Slots
  <2>1. slot[m] = "A" /\ Other(slot[m]) = "B"
    BY <1>1, <1>6 DEF Slots, Other
  <2>2. newest # 0
    BY <1>0, <1>2, <2>1, ImageUpdates DEF TypeOK, Slots
  <2>3. CurrentVersion = newest
    BY <1>0, <1>2, <1>6, <2>1, <2>2, CurrentIs
  <2> QED BY <1>0, <1>3, <2>3 DEF Atomic!vars
<1> QED BY <1>4, <1>5, <1>6

LEMMA ProcessStepRefines ==
    ASSUME TypeOK, StoreInv, TypeOK', StoreInv', [ProcessStep]_vars
    PROVE  [Atomic!Step]_(Atomic!vars)
<1> USE DEF vars, storeVars, writeVars, snapshotVars, manifestVars, metaVars, historyVars
<1>1. ASSUME UNCHANGED <<snapshot, meta, acked, newest>> PROVE UNCHANGED Atomic!vars
  BY <1>1, CurrentFrame DEF Atomic!vars
<1>2. ASSUME NEW m \in Managers, OpenSnapshot(m) PROVE Atomic!Capture
  BY <1>2, CurrentFrame DEF OpenSnapshot, Atomic!Capture
<1>3. ASSUME NEW m \in Managers, Report(m) PROVE Atomic!Acknowledge
  <2>1. /\ SlotInv /\ MetaInv /\ meta.slot = slot[m] /\ slot[m] \in Slots
        /\ acked < newest /\ snapshot[slot[m]].ver = newest
    BY <1>3 DEF Report, Goto, StoreInv, ProgressInv, Progress, Numbered, Committed, SlotInv
  <2>2. CurrentVersion = newest
    BY <2>1, CurrentIs
  <2> QED BY <1>3, <2>1, <2>2, CurrentFrame DEF Report, Atomic!Acknowledge
<1>4. ASSUME NEW m \in Managers, CheckpointStep(m) PROVE [Atomic!Step]_(Atomic!vars)
  BY <1>1, <1>2, <1>3, <1>4, RenameSnapshotRefines, RenameMetaRefines DEF CheckpointStep,
     Atomic!Step, checkpoint_lock_try_acquire, ChooseSlot, DumpRegions, SyncSnapshot, SyncSlotDir,
     RenameManifest, SyncManifestDir, WriteMeta, SyncMeta, SyncMetaDir
<1>5. ASSUME NEW m \in Managers, Abort(m) \/ Crash(m) PROVE UNCHANGED Atomic!vars
  BY <1>1, <1>5 DEF Abort, Crash
<1>6. ASSUME NEW r \in Restorers, RestoreStep(r) PROVE UNCHANGED Atomic!vars
  BY <1>1, <1>6 DEF RestoreStep, ReadMeta, ProbeSlotA, ProbeSlotB, Probe, ValidateInParent, LoadInChild
<1>7. CASE UNCHANGED vars
  BY <1>1, <1>7
<1> QED
  BY <1>4, <1>5, <1>6, <1>7 DEF ProcessStep

LEMMA PowerLossRefines ==
    ASSUME TypeOK, StoreInv, TypeOK', StoreInv', PowerLoss
    PROVE  Atomic!PowerLoss
<1>1. SlotInv' /\ MetaInv' /\ acked' = acked /\ newest' = newest
  BY DEF PowerLoss, StoreInv, historyVars
<1>2. acked \in Nat /\ newest \in Nat /\ acked <= newest
  BY DEF TypeOK, StoreInv, MetaInv
<1>3. /\ \A t \in Slots : snapshot'[t].ver \in Nat /\ snapshot'[t].ver <= newest
      /\ meta'.slot \in Slots => ActiveSlot' = meta'.slot
                                 /\ snapshot'[meta'.slot].ver >= acked
      /\ meta'.slot \notin Slots => ActiveSlot' = NoSlot /\ acked = 0
  BY <1>1, ImageUpdates DEF TypeOK, Meta, SlotInv, MetaInv, ActiveSlot
<1>4. CurrentVersion' \in acked .. newest
  BY <1>2, <1>3 DEF CurrentVersion, active_checkpoint_dir, Slots, NoSlot
<1> QED
  BY <1>1, <1>4 DEF Atomic!PowerLoss

LEMMA InitRefines == Init => Atomic!Init
BY InitInv, CurrentIs, NoFiles DEF StoreInv, Init, Atomic!Init, Slots, NoSlot

\* Seen through the image recovery would use, the store with its slots, locks,
\* temporary files, crashes and power losses is the atomic checkpoint register.
THEOREM Refinement == Spec => AtomicSpec
<1>1. TypeOK /\ StoreInv /\ [Next]_vars => [Atomic!Next]_(Atomic!vars)
  BY NextInv, ProcessStepRefines, PowerLossRefines DEF Next, Atomic!Next
<1> QED
  BY <1>1, InitRefines, InitInv, NextInv, PTL DEF Spec, AtomicSpec, Atomic!Spec

\* While the machine stays up it is that register without power losses: what
\* recovery would use changes only to the newest capture, in one step.
THEOREM StepsRefine == Spec => AtomicSteps
<1>1. TypeOK /\ StoreInv /\ [Next]_vars => [[Atomic!Step]_(Atomic!vars) \/ PowerLoss]_vars
  BY NextInv, ProcessStepRefines DEF Next
<1> QED
  BY <1>1, InitInv, NextInv, PTL DEF Spec, AtomicSteps

\* Nor does it ever go back to an older capture while the machine stays up: only
\* a power loss can, and then not behind an acknowledged one.
THEOREM RecoveryAdvances == Spec => [][CurrentVersion' >= CurrentVersion \/ PowerLoss]_vars
<1>1. ASSUME TypeOK, StoreInv, [Next]_vars
      PROVE  [CurrentVersion' >= CurrentVersion \/ PowerLoss]_vars
  <2> SUFFICES ASSUME ProcessStep PROVE CurrentVersion' >= CurrentVersion
    BY <1>1 DEF Next
  <2>1. CurrentVersion \in Nat /\ newest \in Nat
    BY <1>1, CurrentType DEF TypeOK
  <2>2. [Atomic!Step]_(Atomic!vars)
    BY <1>1, NextInv, ProcessStepRefines
  <2> QED BY <2>1, <2>2 DEF Atomic!Step, Atomic!Capture, Atomic!Publish, Atomic!Acknowledge, Atomic!vars
<1>2. TypeOK /\ StoreInv /\ [Next]_vars => [CurrentVersion' >= CurrentVersion \/ PowerLoss]_vars
  BY <1>1
<1> QED
  BY <1>2, InitInv, NextInv, PTL DEF Spec

=============================================================================
