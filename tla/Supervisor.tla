------------------------------ MODULE Supervisor ------------------------------
(***************************************************************************)
(* The life cycle of the managed process: the commands start, restore,     *)
(* checkpoint, fail and stop, each a process of its own, beside a monitor, *)
(* and the pid file through which they find the process.  The file is      *)
(* truncated and then written, and nobody locks it.                        *)
(*                                                                         *)
(* The process table is the kernel's: a process that dies stays a zombie   *)
(* until its parent waits for it or exits.  No manager ever waits; init    *)
(* does.  A process id is used once.                                       *)
(***************************************************************************)
EXTENDS Naturals, FiniteSets

CONSTANTS
    Shells,       \* processes that run one command after the other
    Monitors,     \* processes that run ulcr_monitor_loop
    Init_,        \* process 1
    AutoRestore,  \* auto_restore
    Patient,      \* users wait for a command to end, and for a process to
                  \* disappear before they restore it
    Apart,        \* users neither start nor restore beside a monitor
    Faults,       \* managers may be killed anywhere, the pid file may fail
    MaxPid        \* bound: the processes forked

ASSUME SupervisorAssumption ==
    /\ Shells \cap Monitors = {}
    /\ Init_ \notin Shells \cup Monitors
    /\ AutoRestore \in BOOLEAN /\ Patient \in BOOLEAN
    /\ Apart \in BOOLEAN /\ Faults \in BOOLEAN
    /\ MaxPid \in Nat

Managers == Shells \cup Monitors
Pids     == 1 .. MaxPid
NoPid    == 0   \* what atoi makes of a missing or empty file

VARIABLES
    life,      \* of each process id: unborn, running, zombie or gone
    parent,    \* of each process
    pid_file,  \* the id it names
    pc,        \* where each manager is
    pid,       \* the pid variable of its command; what a monitor watches
    child,     \* the process it has forked last
    saved,     \* there is a checkpoint
    signalled  \* history: the ids kill was called with

tableVars == <<life, parent>>
vars == <<tableVars, pid_file, pc, pid, child, saved, signalled>>

Commands == {"start", "restore", "checkpoint", "fail", "stop"}
Forking  == {"fork", "truncate", "write"}
Labels   == Commands \cup Forking \cup {"idle", "kill", "term", "exit", "off", "watch"}

Init ==
    /\ life = [p \in Pids |-> "unborn"]
    /\ parent = [p \in Pids |-> Init_]
    /\ pid_file = NoPid
    /\ pc = [a \in Managers |-> IF a \in Shells THEN "idle" ELSE "off"]
    /\ pid = [a \in Managers |-> NoPid]
    /\ child = [a \in Managers |-> NoPid]
    /\ saved = FALSE
    /\ signalled = {}

ulcr_process_exists(p) == p \in Pids /\ life[p] \in {"running", "zombie"}

Running == {p \in Pids : life[p] = "running"}

Goto(a, to) == pc' = [pc EXCEPT ![a] = to]

\* A command ends by leaving main, a monitor goes on.
Rest(a) == Goto(a, IF a \in Shells THEN "exit" ELSE "watch")

-----------------------------------------------------------------------------
(***************************************************************************)
(* The kernel.                                                             *)
(***************************************************************************)

Death(p) ==
    life' = [life EXCEPT ![p] = IF parent[p] \in Managers THEN "zombie" ELSE "gone"]

\* The end of a manager: init adopts its children and waits for the dead.
Orphan(a) ==
    /\ life' = [p \in Pids |->
                  IF parent[p] = a /\ life[p] = "zombie" THEN "gone" ELSE life[p]]
    /\ parent' = [p \in Pids |-> IF parent[p] = a THEN Init_ ELSE parent[p]]

\* The workload ends, because of its own or of a SIGTERM.
Die(p) ==
    /\ life[p] = "running"
    /\ Death(p)
    /\ UNCHANGED <<parent, pid_file, pc, pid, child, saved, signalled>>

-----------------------------------------------------------------------------
(***************************************************************************)
(* The commands.                                                           *)
(***************************************************************************)

ShellsIdle == \A s \in Shells : pc[s] = "idle"

\* main calls the function of the command.
Give(s, command) ==
    /\ pc[s] = "idle"
    /\ Patient => ShellsIdle
    /\ (Patient /\ command = "restore") => ~ulcr_process_exists(pid_file)
    /\ (Apart /\ command \in {"start", "restore"}) => \A m \in Monitors : pc[m] = "off"
    /\ Goto(s, command)
    /\ UNCHANGED <<tableVars, pid_file, pid, child, saved, signalled>>

\* Mutant: start does not look for a process.
StartForks(s) ==
    /\ pc[s] = "start"
    /\ Goto(s, "fork")
    /\ UNCHANGED <<tableVars, pid_file, pid, child, saved, signalled>>

\* ulcr_start_process refuses when the process of the pid file exists.
Start(s) ==
    /\ pc[s] = "start"
    /\ Goto(s, IF ulcr_process_exists(pid_file) THEN "exit" ELSE "fork")
    /\ UNCHANGED <<tableVars, pid_file, pid, child, saved, signalled>>

\* ulcr_restore_latest up to the fork: it needs a checkpoint it can load.
Restore(a) ==
    /\ pc[a] = "restore"
    /\ \/ Goto(a, "fork") /\ saved
       \/ Rest(a) /\ ~saved
    /\ UNCHANGED <<tableVars, pid_file, pid, child, saved, signalled>>

Fork(a) ==
    /\ pc[a] = "fork"
    /\ \E p \in Pids :
        /\ life[p] = "unborn"
        /\ \A q \in Pids : q < p => life[q] # "unborn"
        /\ life' = [life EXCEPT ![p] = "running"]
        /\ parent' = [parent EXCEPT ![p] = a]
        /\ child' = [child EXCEPT ![a] = p]
    /\ Goto(a, "truncate")
    /\ UNCHANGED <<pid_file, pid, saved, signalled>>

\* Mutant: the manager does not look at fork's -1.
ForkUnchecked(a) ==
    /\ pc[a] = "fork"
    /\ child' = [child EXCEPT ![a] = MaxPid + 1]
    /\ Goto(a, "truncate")
    /\ UNCHANGED <<tableVars, pid_file, pid, saved, signalled>>

ForkFails(a) ==
    /\ pc[a] = "fork"
    /\ Rest(a)
    /\ UNCHANGED <<tableVars, pid_file, pid, child, saved, signalled>>

\* ulcr_write_text_file: open with O_TRUNC, then write.
TruncatePidFile(a) ==
    /\ pc[a] = "truncate"
    /\ pid_file' = NoPid
    /\ Goto(a, "write")
    /\ UNCHANGED <<tableVars, pid, child, saved, signalled>>

\* Mutant: the monitor's variable is not set.
DropChild(a) ==
    /\ pid' = pid
    /\ Rest(a)

\* The function returns the child in *pid_out or *restored_pid.
ReturnChild(a) ==
    /\ pid' = [pid EXCEPT ![a] = child[a]]
    /\ Rest(a)

\* Mutant: restore does not write the pid file.
ReturnOnly(a) ==
    /\ pc[a] = "write"
    /\ ReturnChild(a)
    /\ UNCHANGED <<tableVars, pid_file, child, saved, signalled>>

\* Two writers may have truncated the file before both write: the later line
\* then covers the earlier one from its start, and atoi reads the later.
WritePidFile(a) ==
    /\ pc[a] = "write"
    /\ pid_file' = child[a]
    /\ ReturnChild(a)
    /\ UNCHANGED <<tableVars, child, saved, signalled>>

\* The open or the write fails; nobody looks at the result.
PidFileFails(a) ==
    /\ Faults
    /\ pc[a] \in {"truncate", "write"}
    /\ ReturnChild(a)
    /\ UNCHANGED <<tableVars, pid_file, child, saved, signalled>>

\* The checkpoint of a running process succeeds or fails.
Checkpoint(p) == saved' \in IF p \in Running THEN {TRUE, saved} ELSE {saved}

CheckpointCommand(s) ==
    /\ pc[s] = "checkpoint"
    /\ Checkpoint(pid_file)
    /\ Goto(s, "exit")
    /\ UNCHANGED <<tableVars, pid_file, pid, child, signalled>>

\* Mutant: whatever atoi returns is a process id.
ReadAnyPid(s) ==
    /\ pc[s] \in {"fail", "stop"}
    /\ pid' = [pid EXCEPT ![s] = pid_file]
    /\ Goto(s, IF pc[s] = "fail" THEN "kill" ELSE "term")
    /\ UNCHANGED <<tableVars, pid_file, child, saved, signalled>>

\* read_pid_from_file of ulcr_fail_process and ulcr_stop_process.
ReadPid(s) ==
    /\ pc[s] \in {"fail", "stop"}
    /\ pid_file # NoPid
    /\ pid' = [pid EXCEPT ![s] = pid_file]
    /\ Goto(s, IF pc[s] = "fail" THEN "kill" ELSE "term")
    /\ UNCHANGED <<tableVars, pid_file, child, saved, signalled>>

ReadNoPid(s) ==
    /\ pc[s] \in {"fail", "stop"}
    /\ pid_file = NoPid
    /\ Goto(s, "exit")
    /\ UNCHANGED <<tableVars, pid_file, pid, child, saved, signalled>>

\* kill with SIGKILL; a zombie takes it and nothing happens.
Kill(s) ==
    /\ pc[s] = "kill"
    /\ IF pid[s] \in Running THEN Death(pid[s]) ELSE UNCHANGED life
    /\ signalled' = signalled \cup {pid[s]}
    /\ Goto(s, "exit")
    /\ UNCHANGED <<parent, pid_file, pid, child, saved>>

\* kill with SIGTERM; Die is what comes of it.
Terminate(s) ==
    /\ pc[s] = "term"
    /\ signalled' = signalled \cup {pid[s]}
    /\ Goto(s, "exit")
    /\ UNCHANGED <<tableVars, pid_file, pid, child, saved>>

Exit(s) ==
    /\ pc[s] = "exit"
    /\ Orphan(s)
    /\ Goto(s, "idle")
    /\ UNCHANGED <<pid_file, pid, child, saved, signalled>>

CommandStep(s) ==
    \/ Start(s) \/ CheckpointCommand(s) \/ ReadPid(s) \/ ReadNoPid(s)
    \/ Kill(s) \/ Terminate(s) \/ Exit(s)

RestoreStep(a) ==
    Restore(a) \/ Fork(a) \/ ForkFails(a) \/ TruncatePidFile(a) \/ WritePidFile(a) \/ PidFileFails(a)

-----------------------------------------------------------------------------
(***************************************************************************)
(* The monitor, which reads the pid file once.                             *)
(***************************************************************************)

BeginMonitor(m) ==
    /\ pc[m] = "off"
    /\ Patient => ShellsIdle
    /\ pid_file # NoPid
    /\ pid' = [pid EXCEPT ![m] = pid_file]
    /\ Goto(m, "watch")
    /\ UNCHANGED <<tableVars, pid_file, child, saved, signalled>>

\* The timer expired and the process is there.
See(m) ==
    /\ pc[m] = "watch"
    /\ ulcr_process_exists(pid[m])
    /\ Checkpoint(pid[m])
    /\ UNCHANGED <<tableVars, pid_file, pc, pid, child, signalled>>

\* Mutant: the loop goes on without a restore.
MissAndWait(m) ==
    /\ pc[m] = "watch"
    /\ ~ulcr_process_exists(pid[m]) /\ AutoRestore
    /\ UNCHANGED vars

\* The timer expired and it is gone.
Miss(m) ==
    /\ pc[m] = "watch"
    /\ ~ulcr_process_exists(pid[m]) /\ AutoRestore
    /\ Goto(m, "restore")
    /\ UNCHANGED <<tableVars, pid_file, pid, child, saved, signalled>>

\* A user kills the monitor.
EndMonitor(m) ==
    /\ pc[m] = "watch" \/ (Faults /\ pc[m] # "off")
    /\ Orphan(m)
    /\ Goto(m, "off")
    /\ UNCHANGED <<pid_file, pid, child, saved, signalled>>

\* A command is killed.
Crash(s) ==
    /\ Faults /\ pc[s] # "idle"
    /\ Orphan(s)
    /\ Goto(s, "idle")
    /\ UNCHANGED <<pid_file, pid, child, saved, signalled>>

MonitorStep(m) == See(m) \/ Miss(m) \/ RestoreStep(m)

Next ==
    \/ \E p \in Pids : Die(p)
    \/ \E s \in Shells :
        (\E command \in Commands : Give(s, command)) \/ CommandStep(s) \/ RestoreStep(s) \/ Crash(s)
    \/ \E m \in Monitors : BeginMonitor(m) \/ MonitorStep(m) \/ EndMonitor(m)

Spec == Init /\ [][Next]_vars

\* The monitor's timer goes on expiring, and a fork that is tried again and
\* again succeeds once.
Fairness == \A m \in Monitors : WF_vars(Miss(m) \/ RestoreStep(m)) /\ SF_vars(Fork(m))

FairSpec == Spec /\ Fairness

-----------------------------------------------------------------------------
(***************************************************************************)
(* Properties.                                                             *)
(***************************************************************************)

\* Every variable holds a value of its type.
TypeOK ==
    /\ life \in [Pids -> {"unborn", "running", "zombie", "gone"}]
    /\ parent \in [Pids -> Managers \cup {Init_}]
    /\ pid_file \in Pids \cup {NoPid}
    /\ pc \in [Managers -> Labels]
    /\ pid \in [Managers -> Pids \cup {NoPid}]
    /\ child \in [Managers -> Pids \cup {NoPid}]
    /\ saved \in BOOLEAN
    /\ signalled \subseteq Pids \cup {NoPid}

\* Used as the scripts use it (Patient, Apart, one monitor), start, restore and
\* the monitor never run two processes at once, whatever dies at whatever time
\* (the tests of ulcr_start_process and ulcr_monitor_loop before their forks).
OneProcess == Cardinality(Running) <= 1

\* When every command has ended and no monitor restores, a process that runs is
\* the one checkpoint, fail and stop will find in the pid file.
ManagedIsNamed ==
    (\A a \in Managers : pc[a] \in {"idle", "off", "watch"}) => Running \subseteq {pid_file}

\* A monitor watches, checkpoints and restores the process the pid file names,
\* not one that was replaced (the pid it reads once, or gets from its restore).
MonitorWatchesManaged ==
    \A m \in Monitors :
        (ShellsIdle /\ pc[m] = "watch" /\ pid_file \in Running) => pid[m] = pid_file

\* One command at a time, and none that forks beside a monitor.
OneAtATime ==
    /\ \A s, t \in Shells : pc[s] # "idle" /\ pc[t] # "idle" => s = t
    /\ \A s \in Shells, m \in Monitors :
          pc[m] # "off" => pc[s] \notin {"start", "restore"} \cup Forking

\* Who is about to fork has seen the process gone, and nobody else can start
\* one; who has forked is the only one to write the pid file.
ForksAlone ==
    /\ \A a \in Managers : pc[a] \in {"restore", "fork"} => Running = {}
    /\ \A a \in Managers : pc[a] \in {"truncate", "write"} => Running \subseteq {child[a]}
    /\ (\A a \in Managers : pc[a] \notin {"truncate", "write"}) => Running \subseteq {pid_file}

\* A monitor knows the pid file until it has forked.
MonitorKnows ==
    \A m \in Monitors : pc[m] \in {"watch", "restore", "fork"} => pid[m] = pid_file

\* Used as the scripts use it, the system keeps to the order behind OneProcess
\* at every step: test, fork, truncate, write.
SupervisorInv == OneAtATime /\ ForksAlone /\ MonitorKnows

\* However commands, monitors and crashes interleave, fail and stop signal only
\* ids that a manager forked: never 0, which is the caller's process group, when
\* they read a file between its truncation and its write.
NoStraySignal == \A p \in signalled : p \in Pids /\ life[p] # "unborn"

\* A process that is gone while a monitor watches it is replaced by a restored
\* one, unless somebody ends the monitor (or the model has no process ids left).
LossRepaired ==
    \A m \in Monitors, p \in Pids :
        (pc[m] = "watch" /\ pid[m] = p /\ life[p] = "gone" /\ saved /\ AutoRestore)
            ~> (pid[m] # p \/ pc[m] = "off" \/ \A q \in Pids : life[q] # "unborn")

=============================================================================
