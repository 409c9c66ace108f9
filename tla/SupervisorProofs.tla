--------------------------- MODULE SupervisorProofs ---------------------------
(***************************************************************************)
(* For any shells, monitors and number of processes: the commands signal   *)
(* only ids that were forked, under every interleaving and crash; and used *)
(* as the scripts use them, they never run two processes at once.          *)
(***************************************************************************)
EXTENDS Supervisor, FiniteSetTheorems, TLAPS

-----------------------------------------------------------------------------
(***************************************************************************)
(* Types.                                                                  *)
(***************************************************************************)

\* TypeOK holds in the first state.
LEMMA TypeInit ==
    ASSUME Init
    PROVE  TypeOK
BY DEF Init, TypeOK, Labels, Commands, Forking, Managers

\* A step of a shell of its own keeps the types.
LEMMA TypeShell ==
    ASSUME TypeOK, NEW s \in Shells,
           CommandStep(s) \/ Crash(s) \/ \E command \in Commands : Give(s, command)
    PROVE  TypeOK'
<1> USE DEF TypeOK, Labels, Commands, Forking, Goto, tableVars, Managers
<1>1. CASE \E command \in Commands : Give(s, command)
  BY <1>1 DEF Give
<1>2. CASE Start(s)
  BY <1>2 DEF Start
<1>3. CASE CheckpointCommand(s)
  BY <1>3 DEF CheckpointCommand, Checkpoint
<1>4. CASE ReadPid(s)
  BY <1>4 DEF ReadPid
<1>5. CASE ReadNoPid(s)
  BY <1>5 DEF ReadNoPid
<1>6. CASE Kill(s)
  BY <1>6 DEF Kill, Death
<1>7. CASE Terminate(s)
  BY <1>7 DEF Terminate
<1>8. CASE Exit(s)
  BY <1>8 DEF Exit, Orphan
<1>9. CASE Crash(s)
  BY <1>9 DEF Crash, Orphan
<1> QED
  BY <1>1, <1>2, <1>3, <1>4, <1>5, <1>6, <1>7, <1>8, <1>9 DEF CommandStep

\* A step of a restore keeps the types.
LEMMA TypeRestore ==
    ASSUME TypeOK, NEW a \in Managers, RestoreStep(a)
    PROVE  TypeOK'
<1> USE DEF TypeOK, Labels, Commands, Forking, Goto, Rest, tableVars, Managers
<1>1. CASE Restore(a)
  BY <1>1 DEF Restore
<1>2. CASE Fork(a)
  BY <1>2 DEF Fork
<1>3. CASE ForkFails(a)
  BY <1>3 DEF ForkFails
<1>4. CASE TruncatePidFile(a)
  BY <1>4 DEF TruncatePidFile
<1>5. CASE WritePidFile(a)
  BY <1>5 DEF WritePidFile, ReturnChild
<1>6. CASE PidFileFails(a)
  BY <1>6 DEF PidFileFails, ReturnChild
<1> QED
  BY <1>1, <1>2, <1>3, <1>4, <1>5, <1>6 DEF RestoreStep

\* A step of a monitor of its own, or a death, keeps the types.
LEMMA TypeMonitor ==
    ASSUME TypeOK,
           \/ \E p \in Pids : Die(p)
           \/ \E m \in Monitors : BeginMonitor(m) \/ See(m) \/ Miss(m) \/ EndMonitor(m)
    PROVE  TypeOK'
<1> USE DEF TypeOK, Labels, Commands, Forking, Goto, tableVars, Managers
<1>1. CASE \E p \in Pids : Die(p)
  BY <1>1 DEF Die, Death
<1>2. CASE \E m \in Monitors : BeginMonitor(m)
  BY <1>2 DEF BeginMonitor
<1>3. CASE \E m \in Monitors : See(m)
  BY <1>3 DEF See, Checkpoint
<1>4. CASE \E m \in Monitors : Miss(m)
  BY <1>4 DEF Miss
<1>5. CASE \E m \in Monitors : EndMonitor(m)
  BY <1>5 DEF EndMonitor, Orphan
<1> QED
  BY <1>1, <1>2, <1>3, <1>4, <1>5

\* Every step keeps the types.
LEMMA TypeStep ==
    ASSUME TypeOK, [Next]_vars
    PROVE  TypeOK'
<1>1. CASE UNCHANGED vars
  BY <1>1 DEF TypeOK, vars, tableVars
<1> QED
  BY <1>1, TypeShell, TypeRestore, TypeMonitor DEF Next, MonitorStep, Managers

\* Every variable of the life cycle keeps its type, for any set of commands and
\* monitors (the pid arithmetic of manager.c).
THEOREM TypeCorrect == Spec => []TypeOK
<1> QED
  BY TypeInit, TypeStep, PTL DEF Spec

-----------------------------------------------------------------------------
(***************************************************************************)
(* Ids that are signalled.                                                 *)
(***************************************************************************)

Forked(p) == p \in Pids /\ life[p] # "unborn"

\* Every id anybody has read, forked, written or signalled is one of a process
\* that was forked, but for the 0 of a file that is missing or empty.
SignalInv ==
    /\ pid_file # NoPid => Forked(pid_file)
    /\ \A a \in Managers : pc[a] \in {"truncate", "write"} => Forked(child[a])
    /\ \A a \in Shells : pc[a] \in {"kill", "term"} => Forked(pid[a])
    /\ \A p \in signalled : Forked(p)

\* A process that was forked stays so.
LEMMA ForkedStays ==
    ASSUME TypeOK, [Next]_vars, NEW p, Forked(p)
    PROVE  Forked(p)'
<1> USE DEF Forked, TypeOK, tableVars
<1>1. CASE \E q \in Pids : Die(q)
  BY <1>1 DEF Die, Death
<1>2. CASE \E a \in Managers : RestoreStep(a)
  BY <1>2 DEF RestoreStep, Restore, Fork, ForkFails, TruncatePidFile, WritePidFile, PidFileFails
<1>3. CASE \E s \in Shells : CommandStep(s)
  BY <1>3 DEF CommandStep, Start, CheckpointCommand, ReadPid, ReadNoPid, Kill, Terminate, Exit, Orphan, Death
<1>4. CASE \E s \in Shells : Crash(s) \/ \E command \in Commands : Give(s, command)
  BY <1>4 DEF Crash, Orphan, Give
<1>5. CASE \E m \in Monitors : BeginMonitor(m) \/ See(m) \/ Miss(m) \/ EndMonitor(m)
  BY <1>5 DEF BeginMonitor, See, Miss, EndMonitor, Orphan
<1>6. CASE UNCHANGED vars
  BY <1>6 DEF vars
<1> QED
  BY <1>1, <1>2, <1>3, <1>4, <1>5, <1>6 DEF Next, MonitorStep, Managers

\* SignalInv holds in the first state.
LEMMA SignalInit ==
    ASSUME Init
    PROVE  SignalInv
BY SupervisorAssumption DEF Init, SignalInv, Managers

\* Every step keeps SignalInv.
LEMMA SignalStep ==
    ASSUME TypeOK, SignalInv, [Next]_vars
    PROVE  SignalInv'
<1> USE DEF TypeOK, SignalInv, Goto, tableVars, Managers
<1>0. \A p : Forked(p) => Forked(p)'
  BY ForkedStays
<1>1. CASE \E q \in Pids : Die(q)
  BY <1>0, <1>1 DEF Die
<1>2. ASSUME NEW a \in Managers, RestoreStep(a)
      PROVE  SignalInv'
  <2>1. CASE Restore(a)
    BY <1>0, <2>1 DEF Restore, Rest
  <2>2. CASE Fork(a)
    <3>1. PICK p \in Pids : /\ life' = [life EXCEPT ![p] = "running"]
                            /\ child' = [child EXCEPT ![a] = p]
      BY <2>2 DEF Fork
    <3>2. Forked(p)'
      BY <3>1 DEF Forked
    <3> QED
      BY <1>0, <2>2, <3>1, <3>2 DEF Fork
  <2>3. CASE ForkFails(a)
    BY <1>0, <2>3 DEF ForkFails, Rest
  <2>4. CASE TruncatePidFile(a)
    BY <1>0, <2>4 DEF TruncatePidFile
  <2>5. CASE WritePidFile(a)
    BY <1>0, <2>5 DEF WritePidFile, ReturnChild, Rest
  <2>6. CASE PidFileFails(a)
    BY <1>0, <2>6 DEF PidFileFails, ReturnChild, Rest
  <2> QED
    BY <1>2, <2>1, <2>2, <2>3, <2>4, <2>5, <2>6 DEF RestoreStep
<1>3. ASSUME NEW s \in Shells, CommandStep(s)
      PROVE  SignalInv'
  <2>1. CASE Start(s)
    BY <1>0, <2>1 DEF Start
  <2>2. CASE CheckpointCommand(s)
    BY <1>0, <2>2 DEF CheckpointCommand
  <2>3. CASE ReadPid(s)
    BY <1>0, <2>3 DEF ReadPid
  <2>4. CASE ReadNoPid(s)
    BY <1>0, <2>4 DEF ReadNoPid
  <2>5. CASE Kill(s)
    BY <1>0, <2>5 DEF Kill
  <2>6. CASE Terminate(s)
    BY <1>0, <2>6 DEF Terminate
  <2>7. CASE Exit(s)
    BY <1>0, <2>7 DEF Exit
  <2> QED
    BY <1>3, <2>1, <2>2, <2>3, <2>4, <2>5, <2>6, <2>7 DEF CommandStep
<1>4. CASE \E s \in Shells : Crash(s)
  BY <1>0, <1>4 DEF Crash
<1>5. CASE \E s \in Shells, command \in Commands : Give(s, command)
  BY <1>0, <1>5 DEF Give, Commands
<1>6. CASE \E m \in Monitors : BeginMonitor(m)
  BY <1>0, <1>6, SupervisorAssumption DEF BeginMonitor
<1>7. CASE \E m \in Monitors : See(m) \/ Miss(m) \/ EndMonitor(m)
  BY <1>0, <1>7 DEF See, Miss, EndMonitor
<1>8. CASE UNCHANGED vars
  BY <1>0, <1>8 DEF vars
<1> QED
  BY <1>1, <1>2, <1>3, <1>4, <1>5, <1>6, <1>7, <1>8 DEF Next, MonitorStep

\* fail and stop signal only ids that were forked, however commands, monitors
\* and crashes interleave (the pid <= 0 test of read_pid_from_file's callers).
THEOREM SignalsForked == Spec => []NoStraySignal
<1>1. SignalInv => NoStraySignal
  BY DEF SignalInv, NoStraySignal, Forked
<1> QED
  BY <1>1, TypeInit, TypeStep, SignalInit, SignalStep, PTL DEF Spec

-----------------------------------------------------------------------------
(***************************************************************************)
(* One process.                                                            *)
(***************************************************************************)

\* The use the scripts make of the program, with one monitor at the most.
Careful ==
    /\ Patient /\ Apart /\ ~Faults
    /\ \A m, n \in Monitors : m = n

\* What a manager may be doing; only a shell gives commands.
LabelsApart ==
    /\ \A s \in Shells : pc[s] \notin {"off", "watch"}
    /\ \A m \in Monitors : pc[m] \in {"off", "watch", "restore"} \cup Forking

CarefulInv == SupervisorInv /\ LabelsApart

\* CarefulInv holds in the first state.
LEMMA CarefulInit ==
    ASSUME Init, Careful
    PROVE  CarefulInv
BY SupervisorAssumption DEF Init, CarefulInv, SupervisorInv, OneAtATime, ForksAlone, MonitorKnows, LabelsApart,
       Managers, Forking, Running

\* A step that starts no process, names none and moves nobody but a manager
\* that was not between a fork and the pid file to a label that is not, keeps
\* ForksAlone.
LEMMA QuietStep ==
    ASSUME TypeOK, ForksAlone, NEW a \in Managers, NEW to \in Labels,
           pc' = [pc EXCEPT ![a] = to], pid_file' = pid_file, child' = child,
           Running' \subseteq Running,
           pc[a] \notin {"truncate", "write"}, to \notin {"truncate", "write"},
           to \in {"restore", "fork"} => Running' = {}
    PROVE  ForksAlone'
<1>1. \A b \in Managers : pc'[b] \in {"truncate", "write"} => pc[b] = pc'[b]
  BY DEF TypeOK
<1>2. \A b \in Managers : pc'[b] \in {"restore", "fork"} => pc[b] = pc'[b] \/ Running' = {}
  BY DEF TypeOK
<1>3. (\A b \in Managers : pc'[b] \notin {"truncate", "write"}) =>
         (\A b \in Managers : pc[b] \notin {"truncate", "write"})
  BY DEF TypeOK
<1> QED
  BY <1>1, <1>2, <1>3 DEF ForksAlone

\* When nobody is between a fork and the pid file and the process the file
\* names does not exist, none runs.
LEMMA NoneRuns ==
    ASSUME TypeOK, ForksAlone,
           \A a \in Managers : pc[a] \notin {"truncate", "write"},
           ~ulcr_process_exists(pid_file)
    PROVE  Running = {}
BY DEF ForksAlone, Running, ulcr_process_exists

\* A command is given to an idle shell when no other is at work, one that forks
\* when there is no monitor.
LEMMA CarefulGive ==
    ASSUME Careful, TypeOK, CarefulInv, NEW s \in Shells, NEW command \in Commands, Give(s, command)
    PROVE  CarefulInv'
<1> USE DEF Careful, Goto, Managers, TypeOK
<1>1. /\ pc[s] = "idle" /\ ShellsIdle /\ pc' = [pc EXCEPT ![s] = command]
      /\ command \in {"start", "restore"} => \A m \in Monitors : pc[m] = "off"
      /\ command = "restore" => ~ulcr_process_exists(pid_file)
      /\ UNCHANGED <<life, parent, pid_file, pid, child, saved, signalled>>
  BY DEF Give, tableVars
<1>2. OneAtATime'
  BY <1>1 DEF CarefulInv, SupervisorInv, OneAtATime, ShellsIdle, Commands, Forking
<1>3. MonitorKnows' /\ LabelsApart'
  BY <1>1, SupervisorAssumption DEF CarefulInv, SupervisorInv, MonitorKnows, LabelsApart, Commands
<1>4. Running' = Running
  BY <1>1 DEF Running
<1>5. command = "restore" => Running = {}
  <2>1. command = "restore" => \A a \in Managers : pc[a] \notin {"truncate", "write"}
    BY <1>1 DEF ShellsIdle
  <2> QED
    BY <1>1, <2>1, NoneRuns DEF CarefulInv, SupervisorInv
<1>6. ForksAlone'
  BY <1>1, <1>4, <1>5, QuietStep DEF CarefulInv, SupervisorInv, Commands, Labels
<1> QED
  BY <1>2, <1>3, <1>6 DEF CarefulInv, SupervisorInv

\* While a shell starts or restores, nobody else is at work.
LEMMA ShellAlone ==
    ASSUME CarefulInv, NEW s \in Shells, pc[s] \in {"start", "restore"} \cup Forking,
           NEW a \in Managers, a # s
    PROVE  pc[a] \in {"idle", "off"}
<1>1. a \in Shells => pc[a] = "idle"
  BY DEF CarefulInv, SupervisorInv, OneAtATime, Forking
<1>2. a \in Monitors => pc[a] = "off"
  BY DEF CarefulInv, SupervisorInv, OneAtATime
<1> QED
  BY <1>1, <1>2 DEF Managers

\* While a monitor restores, no shell starts or restores.
LEMMA MonitorAlone ==
    ASSUME Careful, CarefulInv, NEW m \in Monitors, pc[m] # "off",
           NEW a \in Managers, a # m
    PROVE  pc[a] \notin {"start", "restore"} \cup Forking
BY DEF Careful, CarefulInv, SupervisorInv, OneAtATime, Managers

\* Whoever forks is alone with it.
LEMMA ForkerAlone ==
    ASSUME Careful, CarefulInv, NEW a \in Managers, pc[a] \in {"restore"} \cup Forking,
           NEW b \in Managers, b # a
    PROVE  pc[b] \notin {"restore"} \cup Forking
BY ShellAlone, MonitorAlone DEF Managers, Forking

\* A restore forks when no process runs and names the one it has forked.
LEMMA CarefulRestore ==
    ASSUME Careful, TypeOK, CarefulInv, NEW a \in Managers, RestoreStep(a)
    PROVE  CarefulInv'
<1> USE DEF Managers, TypeOK
<1>0. ~PidFileFails(a)
  BY DEF Careful, PidFileFails
<1>1. /\ pc[a] \in {"restore"} \cup Forking
      /\ \E to \in Forking \cup {"exit", "watch"} :
            /\ pc' = [pc EXCEPT ![a] = to]
            /\ to = "exit" => a \in Shells
            /\ to = "watch" => a \notin Shells
  BY <1>0 DEF RestoreStep, Restore, Fork, ForkFails, TruncatePidFile, WritePidFile, ReturnChild, Rest, Goto, Forking
<1>2. OneAtATime'
  <2>1. \A s \in Shells : pc'[s] # "idle" => pc[s] # "idle"
    BY <1>1 DEF Forking
  <2>2. \A s \in Shells, m \in Monitors :
           pc'[m] # "off" => pc'[s] \notin {"start", "restore"} \cup Forking
    BY <1>1, SupervisorAssumption DEF CarefulInv, SupervisorInv, OneAtATime, Forking
  <2> QED
    BY <2>1, <2>2 DEF CarefulInv, SupervisorInv, OneAtATime
<1>3. LabelsApart'
  BY <1>1, SupervisorAssumption DEF CarefulInv, LabelsApart, Forking
<1>4. \A b \in Managers : b # a => pc'[b] = pc[b] /\ pc[b] \notin {"restore"} \cup Forking
  BY <1>1, ForkerAlone
<1>5. MonitorKnows'
  <2> SUFFICES ASSUME NEW m \in Monitors, pc'[m] \in {"watch", "restore", "fork"}
               PROVE  pid'[m] = pid_file'
    BY DEF MonitorKnows
  <2>1. CASE m # a
    <3>1. pc[m] = "watch"
      BY <1>4, <2>1 DEF Forking
    <3>2. a \in Monitors
      BY <1>1, <3>1 DEF CarefulInv, SupervisorInv, OneAtATime, Forking
    <3> QED
      BY <2>1, <3>2 DEF Careful
  <2>2. CASE m = a
    <3>1. CASE Restore(a) \/ ForkFails(a)
      BY <2>2, <3>1 DEF Restore, ForkFails, CarefulInv, SupervisorInv, MonitorKnows
    <3>2. CASE Fork(a) \/ TruncatePidFile(a)
      BY <2>2, <3>2 DEF Fork, TruncatePidFile, Goto
    <3>3. CASE WritePidFile(a)
      BY <2>2, <3>3 DEF WritePidFile, ReturnChild
    <3> QED
      BY <1>0, <3>1, <3>2, <3>3 DEF RestoreStep
  <2> QED
    BY <2>1, <2>2
<1>6. ForksAlone'
  <2>1. CASE Restore(a)
    <3>1. \E to \in Labels : /\ pc' = [pc EXCEPT ![a] = to]
                             /\ to \notin {"truncate", "write"}
      BY <2>1 DEF Restore, Rest, Goto, Labels, Forking
    <3>2. Running' = Running /\ Running = {} /\ pid_file' = pid_file /\ child' = child /\ pc[a] = "restore"
      BY <2>1 DEF Restore, Running, tableVars, CarefulInv, SupervisorInv, ForksAlone
    <3> QED
      BY <3>1, <3>2, QuietStep DEF CarefulInv, SupervisorInv
  <2>2. CASE ForkFails(a)
    <3>0. \E to \in {"exit", "watch"} : pc' = [pc EXCEPT ![a] = to]
      BY <2>2 DEF ForkFails, Rest, Goto
    <3>1. \E to \in Labels : /\ pc' = [pc EXCEPT ![a] = to]
                             /\ to \notin {"truncate", "write", "restore", "fork"}
      BY <3>0 DEF Labels
    <3>2. Running' = Running /\ pid_file' = pid_file /\ child' = child /\ pc[a] = "fork"
      BY <2>2 DEF ForkFails, Running, tableVars
    <3> QED
      BY <3>1, <3>2, QuietStep DEF CarefulInv, SupervisorInv
  <2>3. CASE Fork(a)
    <3>1. PICK p \in Pids : /\ life' = [life EXCEPT ![p] = "running"]
                            /\ child' = [child EXCEPT ![a] = p]
      BY <2>3 DEF Fork
    <3>2. Running = {} /\ pc' = [pc EXCEPT ![a] = "truncate"]
      BY <2>3 DEF Fork, Goto, CarefulInv, SupervisorInv, ForksAlone
    <3>3. Running' \subseteq {child'[a]}
      BY <3>1, <3>2 DEF Running
    <3> QED
      BY <3>2, <3>3, <1>4 DEF ForksAlone, Forking
  <2>4. CASE TruncatePidFile(a)
    <3>1. Running' = Running /\ child' = child /\ pc[a] = "truncate" /\ pc' = [pc EXCEPT ![a] = "write"]
      BY <2>4 DEF TruncatePidFile, Running, tableVars, Goto
    <3>2. Running \subseteq {child[a]}
      BY <3>1 DEF CarefulInv, SupervisorInv, ForksAlone
    <3> QED
      BY <3>1, <3>2, <1>4 DEF ForksAlone, Forking
  <2>5. CASE WritePidFile(a)
    <3>1. Running' = Running /\ child' = child /\ pc[a] = "write" /\ pid_file' = child[a]
      BY <2>5 DEF WritePidFile, Running, tableVars
    <3>2. Running \subseteq {child[a]}
      BY <3>1 DEF CarefulInv, SupervisorInv, ForksAlone
    <3>3. pc'[a] \in {"exit", "watch"}
      BY <2>5 DEF WritePidFile, ReturnChild, Rest, Goto
    <3> QED
      BY <3>1, <3>2, <3>3, <1>4 DEF ForksAlone, Forking
  <2> QED
    BY <1>0, <2>1, <2>2, <2>3, <2>4, <2>5 DEF RestoreStep
<1> QED
  BY <1>2, <1>3, <1>5, <1>6 DEF CarefulInv, SupervisorInv

\* The other steps of a command start no process and write no pid file.
LEMMA CarefulCommand ==
    ASSUME Careful, TypeOK, CarefulInv, NEW s \in Shells, CommandStep(s)
    PROVE  CarefulInv'
<1> USE DEF Managers, TypeOK
<1>1. /\ pc[s] \in Commands \cup {"kill", "term", "exit"}
      /\ \E to \in {"exit", "fork", "kill", "term", "idle"} :
            /\ pc' = [pc EXCEPT ![s] = to]
            /\ to = "fork" => pc[s] = "start" /\ ~ulcr_process_exists(pid_file)
      /\ pid_file' = pid_file /\ child' = child
      /\ \A m \in Monitors : pid'[m] = pid[m]
  BY SupervisorAssumption DEF CommandStep, Start, CheckpointCommand, ReadPid, ReadNoPid, Kill, Terminate, Exit,
       Goto, Commands
<1>2. Running' \subseteq Running
  BY DEF CommandStep, Start, CheckpointCommand, ReadPid, ReadNoPid, Kill, Terminate, Exit, Orphan, Death,
       Running, tableVars
<1>3. OneAtATime'
  BY <1>1, SupervisorAssumption DEF CarefulInv, SupervisorInv, OneAtATime, Commands, Forking
<1>4. MonitorKnows' /\ LabelsApart'
  BY <1>1, SupervisorAssumption DEF CarefulInv, SupervisorInv, MonitorKnows, LabelsApart
<1>5. pc[s] = "start" /\ ~ulcr_process_exists(pid_file) => Running = {}
  <2> SUFFICES ASSUME pc[s] = "start", ~ulcr_process_exists(pid_file)
               PROVE  Running = {}
    OBVIOUS
  <2>1. \A a \in Managers : pc[a] \notin {"truncate", "write"}
    BY ShellAlone
  <2> QED
    BY <2>1, NoneRuns DEF CarefulInv, SupervisorInv
<1>6. ForksAlone'
  <2>1. PICK to \in {"exit", "fork", "kill", "term", "idle"} :
            /\ pc' = [pc EXCEPT ![s] = to]
            /\ to = "fork" => pc[s] = "start" /\ ~ulcr_process_exists(pid_file)
    BY <1>1
  <2>2. to \in Labels /\ to \notin {"truncate", "write", "restore"} /\ pc[s] \notin {"truncate", "write"}
    BY <1>1 DEF Labels, Forking, Commands
  <2>3. to = "fork" => Running' = {}
    BY <2>1, <1>2, <1>5
  <2> QED
    BY <2>1, <2>2, <2>3, <1>1, <1>2, QuietStep DEF CarefulInv, SupervisorInv
<1> QED
  BY <1>3, <1>4, <1>6 DEF CarefulInv, SupervisorInv

\* A monitor begins when no command is at work, and restores when the process
\* the pid file names is gone.
LEMMA CarefulMonitor ==
    ASSUME Careful, TypeOK, CarefulInv, NEW m \in Monitors,
           BeginMonitor(m) \/ See(m) \/ Miss(m) \/ EndMonitor(m)
    PROVE  CarefulInv'
<1> USE DEF Managers, TypeOK, Goto
<1>1. CASE BeginMonitor(m)
  <2>1. /\ ShellsIdle /\ pc[m] = "off" /\ pc' = [pc EXCEPT ![m] = "watch"]
        /\ pid' = [pid EXCEPT ![m] = pid_file] /\ pid_file' = pid_file /\ child' = child /\ life' = life
    BY <1>1 DEF BeginMonitor, Careful, tableVars
  <2>2. OneAtATime' /\ MonitorKnows' /\ LabelsApart'
    BY <2>1, SupervisorAssumption DEF CarefulInv, SupervisorInv, OneAtATime, MonitorKnows, LabelsApart, ShellsIdle, Forking
  <2>3. ForksAlone'
    <3>1. "watch" \in Labels /\ Running' = Running
      BY <2>1 DEF Labels, Running
    <3> QED
      BY <2>1, <3>1, QuietStep DEF CarefulInv, SupervisorInv
  <2> QED
    BY <2>2, <2>3 DEF CarefulInv, SupervisorInv
<1>2. CASE See(m)
  BY <1>2 DEF See, CarefulInv, SupervisorInv, OneAtATime, MonitorKnows, LabelsApart, ForksAlone, Running, tableVars
<1>3. CASE Miss(m)
  <2>1. /\ pc[m] = "watch" /\ pc' = [pc EXCEPT ![m] = "restore"] /\ ~ulcr_process_exists(pid[m])
        /\ pid' = pid /\ pid_file' = pid_file /\ child' = child /\ life' = life
    BY <1>3 DEF Miss, tableVars
  <2>2. OneAtATime' /\ MonitorKnows' /\ LabelsApart'
    BY <2>1, SupervisorAssumption DEF CarefulInv, SupervisorInv, OneAtATime, MonitorKnows, LabelsApart, Forking
  <2>3. Running = {}
    <3>1. pid[m] = pid_file
      BY <2>1 DEF CarefulInv, SupervisorInv, MonitorKnows
    <3>2. \A a \in Managers : pc[a] \notin {"truncate", "write"}
      BY <2>1, MonitorAlone DEF Forking
    <3> QED
      BY <2>1, <3>1, <3>2, NoneRuns DEF CarefulInv, SupervisorInv
  <2>4. ForksAlone'
    <3>1. "restore" \in Labels /\ Running' = Running
      BY <2>1 DEF Labels, Commands, Running
    <3> QED
      BY <2>1, <2>3, <3>1, QuietStep DEF CarefulInv, SupervisorInv
  <2> QED
    BY <2>2, <2>4 DEF CarefulInv, SupervisorInv
<1>4. CASE EndMonitor(m)
  <2>1. /\ pc[m] = "watch" /\ pc' = [pc EXCEPT ![m] = "off"]
        /\ pid' = pid /\ pid_file' = pid_file /\ child' = child
    BY <1>4 DEF EndMonitor, Careful
  <2>2. Running' \subseteq Running
    BY <1>4 DEF EndMonitor, Orphan, Running
  <2>3. OneAtATime' /\ MonitorKnows' /\ LabelsApart'
    BY <2>1, SupervisorAssumption DEF CarefulInv, SupervisorInv, OneAtATime, MonitorKnows, LabelsApart
  <2>4. ForksAlone'
    <3>1. "off" \in Labels
      BY DEF Labels
    <3> QED
      BY <2>1, <2>2, <3>1, QuietStep DEF CarefulInv, SupervisorInv
  <2> QED
    BY <2>3, <2>4 DEF CarefulInv, SupervisorInv
<1> QED
  BY <1>1, <1>2, <1>3, <1>4

\* Every step keeps CarefulInv.
LEMMA CarefulStep ==
    ASSUME Careful, TypeOK, CarefulInv, [Next]_vars
    PROVE  CarefulInv'
<1>1. CASE \E p \in Pids : Die(p)
  <2>1. Running' \subseteq Running
    BY <1>1 DEF Die, Death, Running, TypeOK
  <2> QED
    BY <1>1, <2>1 DEF Die, CarefulInv, SupervisorInv, OneAtATime, MonitorKnows, LabelsApart, ForksAlone
<1>2. CASE \E s \in Shells : Crash(s)
  BY <1>2 DEF Crash, Careful
<1>3. CASE UNCHANGED vars
  BY <1>3 DEF vars, tableVars, CarefulInv, SupervisorInv, OneAtATime, MonitorKnows, LabelsApart, ForksAlone, Running
<1> QED
  BY <1>1, <1>2, <1>3, CarefulGive, CarefulRestore, CarefulCommand, CarefulMonitor DEF Next, MonitorStep, Managers

\* Used as the scripts use it, the system keeps to the order behind the three
\* theorems that follow.
THEOREM CarefulCorrect == Careful /\ Spec => []SupervisorInv
<1>1. CarefulInv => SupervisorInv
  BY DEF CarefulInv
<1>2. CASE Careful
  BY <1>1, <1>2, TypeInit, TypeStep, CarefulInit, CarefulStep, PTL DEF Spec
<1> QED
  BY <1>2

\* Between two forks and all that may die in between, one process runs at the
\* most (the tests of ulcr_start_process and ulcr_monitor_loop).
THEOREM OneRuns == Careful /\ Spec => []OneProcess
<1>1. ASSUME Careful, TypeOK, CarefulInv
      PROVE  OneProcess
  <2>1. PICK x : Running \subseteq {x}
    BY <1>1 DEF CarefulInv, SupervisorInv, ForksAlone
  <2>2. IsFiniteSet({x}) /\ Cardinality({x}) = 1
    BY FS_Singleton
  <2>3. IsFiniteSet(Running) /\ Cardinality(Running) <= 1
    BY <2>1, <2>2, FS_Subset
  <2> QED
    BY <2>3 DEF OneProcess
<1>2. CASE Careful
  BY <1>1, <1>2, TypeInit, TypeStep, CarefulInit, CarefulStep, PTL DEF Spec
<1> QED
  BY <1>2

\* Between commands the process that runs is the one the pid file names.
THEOREM NamedRuns == Careful /\ Spec => []ManagedIsNamed
<1>1. SupervisorInv => ManagedIsNamed
  BY DEF SupervisorInv, ForksAlone, ManagedIsNamed
<1> QED
  BY <1>1, CarefulCorrect, PTL

\* A monitor watches the process the pid file names (ulcr_monitor_loop reads it
\* once).
THEOREM WatchesNamed == Careful /\ Spec => []MonitorWatchesManaged
<1>1. SupervisorInv => MonitorWatchesManaged
  BY DEF SupervisorInv, MonitorKnows, MonitorWatchesManaged
<1> QED
  BY <1>1, CarefulCorrect, PTL

\* The processes that run become fewer, or the first of an id is forked when
\* none runs.
FewerOrFirst ==
    \/ Running' \subseteq Running
    \/ Running = {} /\ \E p \in Pids : life[p] = "unborn" /\ Running' = {p}

\* Used as the scripts use it, the program implements a slot for one process:
\* start, restore and the monitor's restore fill it only when it is empty, each
\* time with a process that is new, and nobody else fills it.
THEOREM OneByOne == Careful /\ Spec => [][FewerOrFirst]_vars
<1>1. ASSUME Careful, TypeOK, CarefulInv, [Next]_vars
      PROVE  [FewerOrFirst]_vars
  <2> SUFFICES ASSUME Next PROVE FewerOrFirst
    BY <1>1
  <2>1. ASSUME NEW a \in Managers, Fork(a) PROVE FewerOrFirst
    <3>1. PICK p \in Pids : life[p] = "unborn" /\ life' = [life EXCEPT ![p] = "running"]
      BY <2>1 DEF Fork
    <3>2. Running = {}
      BY <1>1, <2>1 DEF Fork, CarefulInv, SupervisorInv, ForksAlone
    <3>3. Running' = {p}
      BY <1>1, <3>1, <3>2 DEF Running, TypeOK
    <3> QED
      BY <3>1, <3>2, <3>3 DEF FewerOrFirst
  <2>2. ASSUME NEW p \in Pids, Die(p) PROVE Running' \subseteq Running
    BY <2>2 DEF Die, Death, Running
  <2>3. ASSUME NEW a \in Managers, RestoreStep(a), ~Fork(a) PROVE Running' \subseteq Running
    BY <2>3 DEF RestoreStep, Restore, ForkFails, TruncatePidFile, WritePidFile, PidFileFails, tableVars, Running
  <2>4. ASSUME NEW s \in Shells, CommandStep(s) PROVE Running' \subseteq Running
    <3>1. CASE Kill(s)
      BY <1>1, <3>1 DEF Kill, Death, Running, TypeOK
    <3>2. CASE Exit(s)
      BY <3>2 DEF Exit, Orphan, Running
    <3>3. CASE life' = life
      BY <3>3 DEF Running
    <3> QED
      BY <2>4, <3>1, <3>2, <3>3 DEF CommandStep, Start, CheckpointCommand, ReadPid, ReadNoPid, Terminate, tableVars
  <2>5. ASSUME NEW s \in Shells, Crash(s) \/ \E command \in Commands : Give(s, command)
        PROVE  Running' \subseteq Running
    BY <2>5 DEF Crash, Orphan, Give, Running, tableVars
  <2>6. ASSUME NEW m \in Monitors, BeginMonitor(m) \/ See(m) \/ Miss(m) \/ EndMonitor(m)
        PROVE  Running' \subseteq Running
    BY <2>6 DEF BeginMonitor, See, Miss, EndMonitor, Orphan, Running, tableVars
  <2> QED
    BY <2>1, <2>2, <2>3, <2>4, <2>5, <2>6 DEF Next, MonitorStep, Managers, FewerOrFirst
<1>2. CASE Careful
  BY <1>1, <1>2, TypeInit, TypeStep, CarefulInit, CarefulStep, PTL DEF Spec
<1> QED
  BY <1>2

=============================================================================
