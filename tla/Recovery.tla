------------------------------- MODULE Recovery -------------------------------
(***************************************************************************)
(* The parts put together: does the state of the workload survive?         *)
(*                                                                         *)
(* The store is the register AtomicCheckpoint that CheckpointStore         *)
(* implements; a capture is the instant that SnapshotCapture shows it to   *)
(* be; a restore rebuilds what the capture holds, as RestoreRuntime does.  *)
(* One process is managed at a time, as in Supervisor.  What is left is    *)
(* the state of the workload, its counter, the time between the fork of a  *)
(* process and the moment it has its state (`checkpoint` asks only whether *)
(* the process exists), and the calls whose failure nobody takes notice    *)
(* of.  What may cost the workload its progress is recorded as a mishap.   *)
(***************************************************************************)
EXTENDS Integers

CONSTANTS
    Managers,    \* the monitor and the users' commands
    MaxCount,    \* bound: what the workload counts to
    MaxVersion   \* bound: the captures

ASSUME RecoveryAssumption == MaxCount \in Nat /\ MaxVersion \in Nat

Lost == -1
Counts   == 0 .. MaxCount
Versions == 1 .. MaxVersion

Mishaps == {"early", "lost", "overtaken", "behind", "anew", "fresh"}

VARIABLES
    current, acked, newest,  \* the store
    content,   \* of each capture: the counter in it, or that it has none
    pc,        \* of each manager: whether its capture is active yet
    process,   \* gone, forked, running
    source,    \* the capture the process is restored from, 0 for a new one
    count,     \* the counter in its page
    best,      \* history: the most an acknowledged checkpoint has held
    mishap     \* history: the first step that may have cost progress

Store == INSTANCE AtomicCheckpoint

storeVars   == <<current, acked, newest>>
processVars == <<process, source, count>>
historyVars == <<best, mishap>>
vars == <<storeVars, content, pc, processVars, historyVars>>

Init ==
    /\ Store!Init
    /\ content = [v \in Versions |-> Lost]
    /\ pc = [m \in Managers |-> "idle"]
    /\ process = "forked"
    /\ source = 0
    /\ count = 0
    /\ best = Lost
    /\ mishap = "none"

Goto(m, from, to) == pc[m] = from /\ pc' = [pc EXCEPT ![m] = to]

Unlocked == \A m \in Managers : pc[m] = "idle"

\* Records the mishap, if there is one and it is the first.
Note(what) == mishap' = IF mishap = "none" THEN what ELSE mishap

\* ulcr_start_process, ulcr_restore_managed_process.  While a capture of the
\* process before is being written, that capture will overtake this one.
Fork(v, what) ==
    /\ process' = "forked"
    /\ source' = v
    /\ Note(IF Unlocked THEN what ELSE "overtaken")
    /\ UNCHANGED <<count, best>>

-----------------------------------------------------------------------------
(***************************************************************************)
(* The workload.                                                           *)
(***************************************************************************)

Runs(value, what) == process' = "running" /\ count' = value /\ Note(what)

Crashes == process' = "gone" /\ UNCHANGED <<count, mishap>>

\* Mutant: the restored process begins anew.
BootstrapFresh ==
    /\ process = "forked"
    /\ Runs(0, "none")
    /\ UNCHANGED <<storeVars, content, pc, source, best>>

\* exec, ulcr_runtime_bootstrap, the first lines of main.  The image is loaded
\* by its path and may be a newer one than that the restore has chosen.  If the
\* image cannot be loaded, has no managed region or the mapping fails, main
\* reads a page that is not there.  If the page is mapped and pread fails, main
\* takes it for a new one; if only mprotect fails, the state is there.
Bootstrap ==
    /\ process = "forked"
    /\ \/ source = 0 /\ Runs(0, "none")
       \/ source # 0 /\ Crashes
       \/ source # 0 /\ \E v \in source .. newest :
              content[v] # Lost /\ (Runs(content[v], "none") \/ Runs(0, "fresh"))
    /\ UNCHANGED <<storeVars, content, pc, source, best>>

Count ==
    /\ process = "running" /\ count < MaxCount
    /\ count' = count + 1
    /\ UNCHANGED <<storeVars, content, pc, process, source, historyVars>>

Die ==
    /\ process # "gone"
    /\ process' = "gone"
    /\ UNCHANGED <<storeVars, content, pc, source, count, historyVars>>

-----------------------------------------------------------------------------
(***************************************************************************)
(* The managers.                                                           *)
(***************************************************************************)

\* What a capture may find in the managed window: the counter, or, before main
\* has its state, no window or a page of zeroes.
Captured == IF process = "running" THEN {count} ELSE {Lost, 0}

Begin(m) ==
    /\ Goto(m, "idle", "capturing")
    /\ Unlocked /\ newest < MaxVersion
    /\ process # "gone"
    /\ Store!Capture
    /\ \E image \in Captured : content' = [content EXCEPT ![newest'] = image]
    /\ Note(IF process = "running" THEN "none" ELSE "early")
    /\ UNCHANGED <<processVars, best>>

\* A read of the managed region or the write of its bytes fails, or the process
\* dies under the capture: the region is left out and the capture goes on.
LoseRegion(m) ==
    /\ pc[m] = "capturing"
    /\ content' = [content EXCEPT ![newest] = Lost]
    /\ Note("lost")
    /\ UNCHANGED <<storeVars, pc, processVars, best>>

Publish(m) ==
    /\ Goto(m, "capturing", "active")
    /\ Store!Publish
    /\ UNCHANGED <<content, processVars, historyVars>>

Acknowledge(m) ==
    /\ Goto(m, "active", "idle")
    /\ Store!Acknowledge
    /\ best' = IF content[current] > best THEN content[current] ELSE best
    /\ UNCHANGED <<content, processVars, mishap>>

\* Mutant: a failed call keeps the lock.
FailLocked(m) ==
    /\ pc[m] # "idle" /\ pc' = [pc EXCEPT ![m] = "failed"]
    /\ UNCHANGED <<storeVars, content, processVars, historyVars>>

Fail(m) ==
    /\ pc[m] # "idle" /\ pc' = [pc EXCEPT ![m] = "idle"]
    /\ UNCHANGED <<storeVars, content, processVars, historyVars>>

\* The monitor or a user restores a process that is gone; neither `restore` nor
\* its pid file knows, that is the discipline Supervisor calls Patient.  After a
\* failed read of active.meta it takes the first image it finds in a slot.
Restore(m) ==
    /\ pc[m] = "idle"
    /\ process = "gone" /\ current # 0
    /\ \E v \in 1 .. newest : Fork(v, IF v < acked THEN "behind" ELSE "none")
    /\ UNCHANGED <<storeVars, content, pc>>

\* A user starts the workload anew: `start` does not ask for checkpoints, and
\* the next one replaces them.
Start(m) ==
    /\ pc[m] = "idle"
    /\ process = "gone"
    /\ Fork(0, IF best # Lost THEN "anew" ELSE "none")
    /\ UNCHANGED <<storeVars, content, pc>>

PowerLoss ==
    /\ Store!PowerLoss
    /\ pc' = [m \in Managers |-> "idle"]
    /\ process' = "gone"
    /\ UNCHANGED <<content, source, count, historyVars>>

ManagerStep(m) ==
    \/ Begin(m) \/ LoseRegion(m) \/ Publish(m) \/ Acknowledge(m) \/ Fail(m)
    \/ Restore(m) \/ Start(m)

Next == Bootstrap \/ Count \/ Die \/ (\E m \in Managers : ManagerStep(m)) \/ PowerLoss

Spec == Init /\ [][Next]_vars

-----------------------------------------------------------------------------
(***************************************************************************)
(* Properties.                                                             *)
(***************************************************************************)

\* Every variable holds a value of its type.
TypeOK ==
    /\ current \in 0 .. newest /\ acked \in 0 .. newest /\ newest \in 0 .. MaxVersion
    /\ content \in [Versions -> Counts \cup {Lost}]
    /\ pc \in [Managers -> {"idle", "capturing", "active"}]
    /\ process \in {"gone", "forked", "running"}
    /\ source \in 0 .. newest
    /\ count \in Counts
    /\ best \in Counts \cup {Lost}
    /\ mishap \in Mishaps \cup {"none"}

\* Over all deaths, restores, failing calls and power losses, the checkpoint
\* recovery would use and the process that runs never hold less than any
\* acknowledged checkpoint did, unless one of six things has happened: a
\* process was captured before it had its state, a capture lost the region, a
\* process was forked while a capture was being written, a restore read past
\* active.meta an image older than the acknowledged one, somebody started the
\* workload anew, or the restore of the page failed and main began at zero.
ProgressKept ==
    mishap = "none" =>
        /\ best # Lost => current # 0 /\ content[current] >= best
        /\ process = "running" => count >= best

=============================================================================
