# A verification of the user-level checkpoint/restore manager

TLA+ models, TLC runs and TLAPS proofs about `ulcr_manager`, the C program under
`src/` that checkpoints a running process periodically, notices that it is gone and
starts it again from its newest checkpoint. Line numbers refer to that source.

## The system

The program is a command line tool. Every command is a process of its own; `monitor`
is the one that stays. Processes share nothing but files, a `flock` and the managed
process itself, so what is hard is what two of them, a crash or a power loss do
between two system calls.

| component | state | operations | talks to |
|---|---|---|---|
| A/B checkpoint store (`manager.c`, `snapshot.c`, `common.c`) | `slot_A`, `slot_B` (each `snapshot.bin`, `manifest.txt` and their `.tmp`), `active.meta`, `checkpoint.lock` | `ulcr_checkpoint_latest`, `active_checkpoint_dir`, `ulcr_atomic_write_text_file` | called by the monitor and by `checkpoint`; read by restores |
| snapshot capture (`snapshot.c:48-316`) | the traced process, the image in memory, `snapshot.bin.tmp` | `ulcr_capture_snapshot` | called by the store |
| monitor loop (`manager.c:349-396`) | timerfd, pid, `last_checkpoint`, `current_interval` | one infinite loop | `/proc`, the store, restore |
| restore (`manager.c:320-347`, `snapshot.c:352-388`) | pid, state and status files | validate, fork, exec | reads the store without the lock |
| restore runtime (`runtime.c`) | descriptors and memory of the new process | `ulcr_runtime_bootstrap` | loads the image by its path |
| process introspection (`procfs.c`) | none | existence, age, regions, descriptors | `/proc` |
| life cycle commands (`manager.c`, `main.c`) | pid, state and status files | `start`, `fail`, `stop`, `status` | signals, files, the monitor |
| text files (`common.c`) | `X`, `X.tmp` | atomic and plain write | everything above |
| configuration (`config.c`) | none after the load | parse, range checks, path names | read once |
| demo workload (`demo/counter_demo.c`) | a page at a fixed address | counts | is captured and restored |

What makes them correct:

* store: recovery always finds a complete image; a checkpoint that was acknowledged is
  never lost; a restore that takes no lock is not fooled by checkpoints that run
  meanwhile; who can read `active.meta` does not write into the slot in use; the lock
  comes back;
* capture: the image is the process as it was at one moment; the process is let go;
* monitor: attempts keep coming at the promised rate; a death is noticed; a process just
  restored is not checkpointed at once; the rate rises with age;
* life cycle: one managed process at a time; the pid file names it and the monitor
  watches it; nobody signals anything else; a lost process comes back;
* runtime: the descriptors and regions of the image, and nothing else;
* text files: a reader finds a text that somebody wrote;
* configuration: no field overflows, no two files get one name;
* all together: the state of the workload survives.

`PROJECT.json` lists the hazards line by line with the properties that cover them.

## The modules

### CheckpointStore, and its promise AtomicCheckpoint

`CheckpointStore.tla` models `ulcr_checkpoint_latest` one visible system call per action
for every manager in `Managers`, and the reading half of `ulcr_restore_latest` for every
restorer in `Restorers`.

| action | code |
|---|---|
| `checkpoint_lock_try_acquire` | `open` and `flock(LOCK_EX \| LOCK_NB)`, `manager.c:44` |
| `ChooseSlot` | `choose_next_slot`, `manager.c:292` |
| `OpenSnapshot`, `DumpRegions`, `SyncSnapshot`, `RenameSnapshot`, `SyncSlotDir` | `snapshot.c:237-308` |
| `RenameManifest`, `SyncManifestDir` | `ulcr_write_manifest`, `snapshot.c:125` |
| `WriteMeta`, `SyncMeta`, `RenameMeta`, `SyncMetaDir` | `write_active_metadata` through `ulcr_atomic_write_text_file`, `common.c:120` |
| `Report` | the call returns 0, `manager.c:312` |
| `Abort` | any of these calls fails; the call returns -1 |
| `ReadMeta`, `ProbeSlotA`, `ProbeSlotB` | `active_checkpoint_dir`, one look at the file system each |
| `ValidateInParent`, `LoadInChild` | `ulcr_load_snapshot` before the fork, the fork, `ulcr_load_snapshot` after the exec |
| `Crash`, `PowerLoss` | a manager dies; the machine loses power |

A file is abstracted to the number of the capture its bytes come from and to whether all
bytes are there; a manifest to the first alone, since how much of its text survives no code
asks. The file system: a rename is atomic for whoever is running; after a power
loss a name denotes any file it has denoted since its directory was last fsynced, and a
file that was never fsynced may be cut off. Nothing else is assumed about the order in
which writes reach the device. The lock is advisory and dies with its holder. What is
left out: the state and status files (`manager.c:313-315`), which no code reads, and the
durability of the directories `init` makes.

Reading may fail as well. `read_active_slot` answers the same when `active.meta` cannot be
opened or read as when there is none (`manager.c:68-73`), so `read_active_slot` is a set:
the slot that is named (`ActiveSlot`), or none. A writer then takes slot A
(`choose_next_slot`), also when A is active; a restorer then probes the slots. `access`,
the loads and the fork of a restore may fail too. Two histories tell the properties what
has happened: `blind` are the captures that chose their slot after such a failed read,
`faulted[r]` says that a call of the restore in progress failed on a good file.

`ulcr_load_snapshot` reads the header and the tables only. Whether it accepts a truncated
image is therefore a free choice, as is whether it reads a whole one, so no property leans
on that validation.

`AtomicCheckpoint.tla` is what a user relies on: a register that holds the checkpoint
recovery would use. Only the newest capture becomes current, in one step; a power loss
may complete or undo what is in progress and never goes behind what was acknowledged.
`CheckpointStore` implements it with `current <- CurrentVersion` (`AtomicSpec`). That power
loss allows more than `Publish` does, so the steps of the machine that stays up are held to
the others alone (`AtomicSteps`), also when a writer that could not read `active.meta`
replaces the active image. A step that shows how
subtle this is: for the very first checkpoint there is no `active.meta` and recovery
falls back to probing the slots, so the capture becomes current at the rename of
`snapshot.bin`; for every later one that happens at the rename of `active.meta`, unless
it is written over the active slot, where it is the rename of `snapshot.bin` again.

### Supervisor

`Supervisor.tla` models the commands as processes beside each other and beside monitors,
with the kernel's process table: who is whose parent, who is a zombie, what init adopts.
One action is one step that another process can see.

| action | code |
|---|---|
| `Give` | `main` calls the function of a command |
| `Start` | the tests of `ulcr_start_process`, `manager.c:236` |
| `Restore` | `ulcr_restore_latest` up to the fork |
| `Fork`, `ForkFails` | the forks of both, or a failure before them |
| `TruncatePidFile`, `WritePidFile`, `PidFileFails` | `ulcr_write_text_file`, `common.c:88`, whose result nobody looks at |
| `CheckpointCommand` | `main.c:45` |
| `ReadPid`, `ReadNoPid`, `Kill`, `Terminate` | `ulcr_fail_process`, `ulcr_stop_process` |
| `Exit`, `Crash`, `EndMonitor` | a manager ends, and its children become init's |
| `BeginMonitor`, `See`, `Miss` | `ulcr_monitor_loop` without its clock |

Three constants say how the commands are used. `Patient`: commands are given one at a
time, and a process is restored only when it is gone. `Apart`: nobody starts or restores
beside a monitor. `Faults`: managers are killed anywhere and the pid file may fail. The
code enforces none of them. `scripts/demo.sh` keeps to the first two; what holds without
them and what does not is the difference between the runs.

`Give` includes `init` and `status` only by leaving them out: the one makes directories,
the other prints. The state and status files are written by all and read by none.

### SnapshotCapture

`SnapshotCapture.tla` looks inside the two actions `OpenSnapshot` and `DumpRegions`: stop
the process, read its regions, copy them in chunks, rewrite the tables, publish, detach.
The process may be killed at any point, every call may fail, and `stop` may send a SIGTERM
that is pending when the process is attached. A region whose copy fails may leave bytes in
the file. A unit of data is tagged with its region, its position and the version of the
process state it shows, which is what makes "exactly the bytes of the moment of the stop"
a formula. The address space is the constant `Maps`; `Included` is the rule of
`parse_maps_line` and `RegionIds` its cap.

### RestoreRuntime

`RestoreRuntime.tla` is the other end: the process that a restore has forked and
executed, from `ulcr_runtime_bootstrap` to the loop of the demo. Its state is the table of
descriptors, where `open` gives the lowest free number, and of each managed region where
its bytes came from. The initial states are every table a saved process may have had,
every set of files that are gone and every set of regions that were lost. `Clash` is the
case in which the number of the snapshot's own descriptor belongs to a saved file. Not in
the model: the working directory, open flags (`dup2` drops close-on-exec; an `open` of a
FIFO may block), and that descriptors which shared an offset get one each.

### AtomicTextFile

`AtomicTextFile.tla` is `ulcr_atomic_write_text_file` on inodes, called by several
processes for one name: each writer has an offset of its own, all open the same temporary
file, and a rename or an unlink takes whatever it denotes. `locked` is chosen in the
first state: the use for `active.meta`, or that for the state and status files. `short`
counts the writes that have written a part of their text only.

### MonitorLoop

`MonitorLoop.tla` is the loop of `ulcr_monitor_loop` beside a process that may die at any
moment. Time is counted in seconds. The loop itself takes no time (it runs in the second
in which it can) except for a checkpoint, which takes up to `MaxPause`. `clock` is the
monotonic one that drives the timer, `WallClock` what `time(NULL)` returns; `SetClock`
moves them apart by the amounts in `Steps`, and `moved` records in which directions. The
death of a process has two forms: a process whose parent waits for it disappears from
`/proc`, but a child of the monitor, or a process the monitor traces at that moment, stays
a zombie, since no code waits for either. A restore that succeeds is assumed to have
executed the workload. The store appears as an outcome only: a checkpoint succeeds or does
not. The age of a process that is there may be unreadable too (`manager.c:153`); then the
interval is `Base`, and `unread` records that its age calls for another.

### Configuration

`Configuration.tla` reads a file line by line and makes the names of the files. A text is
its length; a path is the list of its parts and how much of each was kept when it was cut
off at `ULCR_MAX_PATH`, so two names are equal exactly when their texts are. The bounds
keep a line below the 1024 characters at which `fgets` would split it. `max_checkpoints`
is parsed and checked and used nowhere.

### Recovery

`Recovery.tla` composes the parts at the level of what they were shown to do: the store is
the register `AtomicCheckpoint` (an instance, the same that `CheckpointStore` refines), a
capture is one instant, a restore gives back an image no older than the one that was
current when it began (`RestoreIsCurrent`: `floor` is what recovery would have used at the
restorer's first look at `active.meta`, not only what was acknowledged by then). It adds
the workload's counter and the time between a fork and the moment the process has its
state. Whatever may cost the workload its progress is in the model as the code does it and
is recorded, the first time, in `mishap`:

| mishap | what happened | code |
|---|---|---|
| `early` | a process was captured before it had its state | `manager.c:285` asks only whether it exists |
| `lost` | a capture went on without the managed region | `snapshot.c:274` |
| `overtaken` | a process was forked while a capture was being written, which is activated afterwards | `ulcr_restore_latest` takes no lock |
| `behind` | a restore that could not read `active.meta` took an image older than the acknowledged one | `manager.c:195` |
| `anew` | a user started the workload anew although there were checkpoints | `manager.c:236` |
| `fresh` | the managed page was mapped but not filled, and `main` began at zero | `runtime.c:67`, `counter_demo.c:63` |

`ProgressKept` says that progress is lost in no other way. Each of the six is needed: with
any one of them not counted TLC finds the counter behind an acknowledged checkpoint. A
bootstrap that fails before the page is mapped ends the process (the demo reads a page
that is not there), which costs nothing that was acknowledged.

## The runs

| run | constants | states | shows |
|---|---|---|---|
| `store_power` | 2 managers, 1 restorer, 3 captures | 154 729 | type invariant, `RecoveryIsWhole`, `NoLostCheckpoint`, `RestoreIsCurrent`, the inductive invariant `StoreInv`, the refinement `AtomicSpec`, the step properties `AtomicSteps`, `ActiveSlotUntouched` and `ManifestDescribesActive`, and `LockReleased` under fairness |
| `supervisor_scripts` | 2 shells, 1 monitor, 4 processes, `Patient`, `Apart` | 336 165 | type invariant, `OneProcess`, `ManagedIsNamed`, `MonitorWatchesManaged`, `SupervisorInv`, and `LossRepaired` under fairness |
| `supervisor_free` | 2 shells, 1 monitor, 2 processes, no discipline, `Faults` | 481 344 | `NoStraySignal` |
| `monitor_clock` | interval 6, timer 3, ages 52 and 290, 24 seconds, clock set by 7 seconds forward and back | 1 736 457 | type invariant, `AttemptsRegular`, `VanishedIsNoticed`, `RestoredRunsFirst`, `MonitorInv`, `IntervalFollowsAge` |
| `monitor_zombie` | the same with age 0, no clock steps | | violates `FailureDetected` |
| `monitor_short` | interval 3, timer 1, age 290, no clock steps | | violates `IntervalShrinks` |
| `capture_exact` | 6 mappings of 1 or 2 units, 5 of them in the image and 3 of those included | 580 890 | type invariant, `ImageExact`, `CaptureInv`, `ProcessResumes` |
| `capture_lost_region` | the same | | violates `ManagedCaptured` |
| `restore_no_clash` | descriptors 2 to 5, room for 3, 2 files and a pipe, 2 regions | 813 440 | type invariant, `DescriptorsRestored`, `RegionsRestored`, `RestoreInv` |
| `textfile_writers` | 2 writers, 2 texts, 2 short writes, failures and kills, with and without the lock | 2 928 248 | `WholeText`, `WholeTextFirst`, `ReturnedIsPublished` |
| `config_names` | 4 lines, lengths 12, 465, 600, numbers 0 and 7 | 1 649 043 | type invariant, `LastLineCounts`, `NamesDistinct` |
| `recovery_lifetimes` | 2 managers, 3 captures, counter to 2 | 284 063 | type invariant, `ProgressKept` |

Bounds. *Store*: two managers are every way to compete for the lock, a third could only
wait outside. Three captures use slot A, slot B and slot A again, so that a slot is
replaced while the other is active and both have a past; failed captures count, so two
failures and a success fit as well, as does a capture written over the active slot before or
after one that alternates. One restorer is enough because restorers do not write. The
managers are not declared symmetric, because of `LockReleased`.

*Supervisor*: two shells are two commands at once where `Patient` allows them. Four
processes are one started and three that replace it, so that a process is restored by a
shell, by the monitor, and by a monitor that began after another ended. Two are enough
for `supervisor_free`, whose question is only whether an id was ever forked.

*Monitor*: the ages lie 8 and 10 seconds before the thresholds of 60 and 300 seconds, so
that within 24 seconds each is crossed between two attempts and intervals of 6, 3 and 2
seconds are all used; restored processes start again at age 0. `monitor_short` crosses 300
seconds with the interval 3, for which the two fall-backs differ. `Horizon` bounds the clock,
`MaxSkew` its distance from the wall clock; a step of 7 seconds is more than an interval.
There the last state is the end of the clock, hence `CHECK_DEADLOCK FALSE`; the restored
process and the start-up of a command end in the same sense, and no other configuration
says so.

*Capture*: the process has six mappings and the image room for five. They are the data of
the program (two units, so that a copy can be cut short), its text and a page of the
kernel's (both excluded), the managed region (two units), the heap of a library, whose
offset depends on what was lost before it, and the stack, which the rule includes but
the cap drops.

*Restore runtime*: the lowest four numbers are the log, the monitor's timer (or a free
number), the snapshot and one number above it, so an entry lies below, at and above the
snapshot's number, and four entries exceed the room for three. *Text files*: the texts are
of different length and one is the beginning of none, so a mixture can be told from a
text; two short writes (`MaxShort`) are one of each writer or two behind each other, and
the other failures are not counted. *Configuration*: four lines are the two that must be
there and two more; 465 is the length of the root at which the longest temporary name just
fits. *Recovery*: three captures are an acknowledged one and two that go wrong, or one of each
behind the other; with a counter to 2 each can hold more than the one before, and less.

Fairness. `store_power` assumes weak fairness of each manager inside a call (`FairSpec`),
because the operating system goes on scheduling a runnable process, and none for starting
a call, since no user has to. It assumes nothing about failures and crashes, which may or
may not come; its safety properties do not depend on it. `capture_exact` assumes the same
of a capture in progress. `supervisor_scripts` assumes that the monitor's timer goes on
expiring and that a fork which is tried again and again succeeds once. `MonitorLoop` and
`Recovery` use no fairness: the promises of the one are bounds in seconds, which are
safety properties of its clock, and that the lost process comes back at all is
`LossRepaired`.

## Findings

* **A zombie is taken for alive** (`monitor_zombie`, `manager.c:379`). After its first
  automatic restore the managed process is a child of the monitor, which never waits.
  When it dies again `/proc/<pid>` stays, the loop tries to checkpoint a zombie forever
  and restores nothing. A process that is killed while it is being captured ends the
  same way, as a zombie of its tracer.
* **A capture without the managed region is a success** (`capture_lost_region`,
  `snapshot.c:274`). Killing the process during a capture, or a disk that is full for a
  moment, drops the regions not yet copied, and the image is activated. The image that
  held the state is in the inactive slot and is overwritten by the next checkpoint.
* **The schedule gets slower with age for two intervals** (`monitor_short`,
  `manager.c:157`, against `src/README.md:25`). Of a configured interval of 3 (or 2)
  seconds, 1 is left from 60 seconds on and all of it again from 300 on.

`src/README.md:32` says that each new checkpoint writes into the inactive slot and that
recovery always points to the last fully completed checkpoint. Neither is so when
`active.meta` is there and `access`, `open` or `read` of it fails. A checkpoint then takes
slot A for the inactive one, whichever is active (`manager.c:125`): recovery still finds a
complete and newest image, which is what `StoreInv`, `AtomicSpec` and `AtomicSteps` say,
but that image is in use before it is acknowledged, the one it replaced is gone, and until
its own is written the manifest beside it is of another capture. A restore looks into slot
A first (`manager.c:188`), and may load the older image. No run shows the two by
themselves; they are what the terms `blind` of `ActiveSlotUntouched` and
`ManifestDescribesActive` and `faulted` of `RestoreIsCurrent` stand for, and without
those terms TLC finds the three violated.

## Conditions, and what happens without them

Some properties hold under a condition that the code does not enforce. Each condition is
named in the property or is a constant of the model, and the model does what the code does
without it: drop it, and TLC shows the behaviour.

| condition | where | without it |
|---|---|---|
| nobody restores or starts beside a monitor | `Apart` in `Supervisor` | the monitor goes on with the pid it read at its start (`manager.c:360`): it neither checkpoints the new process nor misses it, and restores a second one |
| commands one at a time, restores of what is gone | `Patient` in `Supervisor` | two `start`s, or a `restore` of what runs, give two processes (`manager.c:238`, `manager.c:325`) |
| the wall clock has not been set back | `NeverSetBack` in `AttemptsRegular` | no checkpoint is due for as long as it was set back (`manager.c:390`) |
| the wall clock has not been set forward | `NeverSetForward` in `RestoredRunsFirst` | a process just restored is checkpointed at once |
| the age of the process can be read | `unread` in `IntervalFollowsAge` | the interval falls back to the whole (`manager.c:153`) |
| `active.meta` can be read | `blind` in `ActiveSlotUntouched` and `ManifestDescribesActive` | the active image is replaced, and its manifest is another's until the new one is written |
| no call of a restore fails on a good file | `faulted` in `RestoreIsCurrent` | it may load an older image or none; what it loads is whole all the same |
| no signal is pending at the attach | `"SIGSTOP" \notin pending` in `ProcessResumes`: then the stop was the attach's own, and the process runs on | the stop of a SIGTERM is taken for the attach's, the SIGTERM is dropped at the detach and the SIGSTOP left behind halts the process (`snapshot.c:53`) |
| no saved file has the snapshot's number | `~Clash` in `RestoreRuntime` | the file replaces the snapshot and the managed memory is read from it (`runtime.c:33`). A workload with one open file, restored by a command, has it at 3, where the snapshot is |
| the bootstrap succeeds | `RegionsRestored` is about `result = 1` | the demo takes -1 for a restore: a page mapped but not filled is initialised anew, one not mapped is read (`counter_demo.c:54`) |
| the names fit | `Fits` in `NamesDistinct` | a root of 466 characters and a name of 12 cut `snapshot.bin.tmp` off to `snapshot.bin`, and the image is overwritten in place (`snapshot.c:236`) |
| none of the six mishaps | `mishap = "none"` in `ProgressKept` | see `Recovery` above: the workload goes on from less than a checkpoint held that was acknowledged |
| no write is short | `short = 0` in `WholeTextFirst` | without the lock a part of one text is published over another; nothing reads those files |

And one behaviour without a condition: `stop` beside a monitor with `auto_restore` brings
the process back. Nothing in the repository promises otherwise.

## The proofs

Eight modules of proofs are checked by TLAPS with no assumption but those named in the
models and, in `Supervisor` and `OnlyLossLosesManaged`, in the theorem. Every invariant
and every action property of a passing run is the statement of a theorem; those theorems
that no run has a property for say what a run could not.

*Store* (`CheckpointStoreProofs`, under `StoreAssumption`: the bound is a number, `None` is
nobody). `RecoveryIsWhole` and `NoLostCheckpoint` speak of the slot recovery would use and
are not inductive: they say nothing of the slot being written, of the files a name may
denote after a power loss, or of a manager about to publish. `StoreInv` adds that:

* `LockInv`: exactly the manager inside the function holds the lock, so that every other
  conjunct has to look at one writer only;
* `SlotInv`: all a slot's name may denote on the device is complete and synced;
* `MetaInv`: every `active.meta` that may be found after a power loss names a slot all of
  whose possible images are at least as new as the last acknowledged one. This is what
  the order of fsync, rename, fsync of the directory and only then `active.meta` buys;
* `ProgressInv`: at each label, what the writer has achieved, among other things that
  its slot is not the one `active.meta` names until it names it itself, unless its capture
  is in `blind`, and that all the other slot may hold is older than the capture it has
  begun. The second is what saves recovery when the first fails: a capture written over
  the active slot is complete and newer than anything else at the moment of its rename;
* `RestoreInv`: the slot a restorer has chosen holds an image, and, if no call of it has
  failed, stays good for it, even when checkpoints alternate while it is between its two
  loads, because a slot only ever goes from one complete image to a newer one.

`NextInv` proves that every action preserves it, one step per action. From it follow
`RecoveryCorrect`, `Durability`, `RestoreCorrect`, `ActiveUntouched`, `ManifestKept`
(with the label of the writer between the two renames) and, with one lemma for each of the
two actions at which a capture may become current, `Refinement` and `StepsRefine`:
`Spec => AtomicSpec` and `Spec => AtomicSteps`, for any number of managers, restorers and
captures. The second is the stronger one where it applies: without a power loss `current`
changes to `newest` and to nothing else. `RecoveryAdvances` uses the same two
lemmas: while the machine stays up `CurrentVersion` never decreases, so a restore that
begins later never finds less than one that began earlier, and that is why `RestoreInv`
can promise a restorer what was current when it began rather than the last acknowledged
capture.

*Supervisor* (`SupervisorProofs`). `SignalsForked` holds for every use of the commands; its
invariant is that whatever is in the pid file or in a variable was forked. The others
assume `Careful`: `Patient`, `Apart`, no `Faults` and at most one monitor. Their invariant
follows who may fork: `OneAtATime` leaves one command or the monitor, `ForksAlone` says
that nothing runs while somebody is about to fork and that only the forked process runs
until the pid file is written, `MonitorKnows` that a monitor's pid is the file's.
`OneByOne` says the same of steps, which is what a slot for one process would promise: a
process is forked only when none runs, with an id that is new, and no other step adds one.

*Monitor* (`MonitorLoopProofs`, under `MonitorAssumption`: what `ulcr_load_config`
enforces at `config.c:77`, and that the machine's clock has run for at least one interval
since 1970). `MonitorInv` says how much of a promised time is used up at each place of the
loop, in terms of the timer's remaining seconds. Its bounds from above need a wall clock
that has not been set back, those from below one that has not been set forward, and
`DirectionsKept` says that what has been moved stays so; `VanishedNoticed` needs neither.
`Aggressive` needs the conjunct that the interval in use is at least the one for the
present age, and what `IntervalAt` does as the age grows: it does not grow, but for the
bases 2 and 3 at 300 seconds, where it returns to the base. It assumes nothing of the base
or of the reads of `/proc`.

*Capture* (`SnapshotCaptureProofs`). `CaptureInv` ties each table entry to the units in the
file behind it, for the image in progress as far as the loop has come and for the
published one. That a lost region may leave units behind is why offsets are taken from the
file and not from the sizes, and why the invariant speaks of the last `copied` units.
`OnlyLossExcludes` and `OnlyLossLosesManaged` are about the behaviours in which `LoseRegion`
never happens: then the image has exactly the regions the rule names, and a call that
returns 0 has the managed ones. They are the other half of the finding about
`ManagedCaptured`: as long as the managed mappings are within the rule and the cap, which is
assumed of them, the lost copy is its only cause, and the order of the loop is not one.

*Restore runtime* (`RestoreRuntimeProofs`). `RestoreInv` says of every number what is open
there when the entries of `todo` are left: `Target`. The kernel's lowest free number may be
that of an entry still to come; the invariant holds because such a number is given back
before the next entry, and because entries come in the order of their numbers.
`RestoreAssumption` keeps the names of saved files apart from the four words the model uses
for the log, the timer, the snapshot and nothing.

With a clash the opposite is proved, for every table. The number of the snapshot is 3, or 4
for a process the monitor restored, whose timer `exec` leaves open (`SpareNumber`), so a
process with nothing to open again at 3 and 4 has none: `ClashOnlyAtSpare`. If there is one,
`open` finds a number above it free when its entry comes (everything above is as `exec` left
it, `FdsClash`), `dup2` moves the file over the snapshot and nothing moves it back, so
`ClashIsTotal`: no region has a byte of the snapshot, and a bootstrap that returns 1 has
filled every region it rebuilt from another file. A clash is never partial or harmless.

The runs of this component let it stop, so that it goes on is proved instead: `NeverStuck`
(a free descriptor at the load, a first entry or region in each turn) and `BootstrapEnds`
(every step makes the natural number `Remaining` smaller). The lemma `Least`, that a finite
set of numbers has a least one, is derived from the well-founded order of finite sets, since
the library's induction theorems are not available to the provers.

*Text files* (`AtomicTextFileProofs`). Where the lock is held, the one writer inside the
function is the only one with an inode open, and what it has written is its text from
`fsync` on (`LockedInv`). Without the lock `BeginsWhole` needs much less, and holds for any
number of writers with descriptors open on one inode: every inode, published or not, is
empty or begins with a whole text, because every write that is not short puts a whole text
at offset 0 (`BeginInv`). `EnoughInodes` is about the model itself: `Inodes` has two more
than there are writers, and who has to create the temporary file always finds one unused,
so the bound takes no behaviour away.

*Configuration* (`ConfigurationProofs`, under `ConfigurationAssumption`), for files of any
number of lines with any lengths and numbers, and for every `ULCR_MAX_PATH` above 64. The
inductive invariant `ConfigInv` says of each number field that it is the value of the last
line read so far with its key, or the default while there was none, and of the names that
they are those made of the configuration; `LastLines` is that at the end of the file.
`TypeCorrect` is where the lengths matter: a join into a full buffer adds nothing, so
whatever is joined is a path that fits (`JoinIsPath`). `NamesDiffer` follows the parts of
each name: where there is room for one character a part is there, perhaps cut off
(`JoinWithRoom`), so two names differ at the part in which they were made different; the
three characters that may be missing from a temporary name are the last of `.tmp`.

*Recovery* (`RecoveryProofs`), for any number of managers and with no assumption on how the
commands are used or on what fails. `Progress`: until the first mishap, whatever a power
loss may make current, `acked .. newest`, holds at least the best acknowledged counter
(`DiskKeeps`), so does the process (`ProcessKeeps`), and a process being captured has not
fallen behind the capture (`CaptureInProgress`), which is the conjunct that a fork during a
capture breaks. `MishapStays` is why the invariant may be stated under `mishap = "none"`.

Only model-checked: the liveness properties `LockReleased`, `ProcessResumes` and
`LossRepaired`, since liveness under fairness is out of the prover's reach.
`FailureDetected`, `ManagedCaptured` and `IntervalShrinks` are violated, so there is nothing
to prove; `VanishedNoticed`, `OnlyLossLosesManaged` and `Aggressive` are what holds in their
place.

## Not modelled

* The contents of the state and status files, logs, manifest and `status`: no code reads
  them. CPU registers, which a capture copies into the header and nothing restores.
* The parsing of numbers in `/proc` (maps, fdinfo, stat, uptime), of `active.meta` as text,
  of a configuration line's blanks, and the splitting of `workload_args`.
* Reuse of process ids: `fail`, `stop`, `start` and the monitor take any process with the
  right number for the managed one.
* The working directory, open flags and shared offsets of a restored process.
* The scripts, the benchmark and the build: they keep no state once running.
