----------------------------- MODULE MonitorLoop -----------------------------
(***************************************************************************)
(* ulcr_monitor_loop: one process that wakes on a periodic timerfd, looks  *)
(* for /proc/<pid>, restores a process that is gone and checkpoints one    *)
(* that is due.  The watched process runs beside it and may die at any     *)
(* moment, also between the look at /proc and the checkpoint.              *)
(*                                                                         *)
(* Time is counted in seconds from the start of the loop, which is what    *)
(* the timer and the age of a process go by.  last_checkpoint goes by      *)
(* time(NULL): the same clock shifted by Epoch, so the initial             *)
(* last_checkpoint = 0 of the code is -Epoch, and by what the wall clock   *)
(* has been set forward or back since.                                     *)
(***************************************************************************)
EXTENDS Integers

CONSTANTS
    Base,         \* checkpoint_interval_sec
    Period,       \* monitor_interval_sec
    AutoRestore,  \* auto_restore
    Epoch,        \* time(NULL) when the loop starts
    MaxPause,     \* bound: the longest ulcr_checkpoint_latest, in seconds
    Ages,         \* how long the process may have run when the loop starts
    Steps,        \* by how much the wall clock may be set forward or back
    MaxSkew,      \* bound: how far it is set off in all
    Horizon       \* bound: the seconds a behaviour lasts

\* ulcr_load_config refuses intervals below one second.
ASSUME MonitorAssumption ==
    /\ Base \in Nat \ {0}
    /\ Period \in Nat \ {0}
    /\ AutoRestore \in BOOLEAN
    /\ Epoch \in Nat /\ Epoch >= Base
    /\ MaxPause \in Nat
    /\ Ages \subseteq Nat
    /\ Steps \subseteq Int
    /\ MaxSkew \in Nat
    /\ Horizon \in Nat

VARIABLES
    clock,            \* seconds since the loop started
    skew,             \* by how much the wall clock has been set since
    moved,            \* history: in which directions it has been set
    timer,            \* seconds until the timerfd expires
    expirations,      \* those the next read(timer_fd) returns
    pc,               \* where the loop is
    pause,            \* seconds the checkpoint in progress has taken
    process,          \* the watched process: running, a zombie, or gone
    child,            \* whether the loop forked it
    birth,            \* when it was started
    last_checkpoint,
    current_interval,
    unread,           \* history: it is the fallback for a process whose age
                      \* calls for another, after a failed read of /proc
    attempted,        \* history: the end of the last attempt or restore
    died,             \* history: when the process died
    noticed           \* history: the loop has seen that it is gone

wallVars    == <<skew, moved>>
timeVars    == <<clock, wallVars, timer, expirations>>
processVars == <<process, child, birth, died>>
loopVars    == <<last_checkpoint, current_interval, unread, attempted, noticed>>
vars == <<timeVars, pc, pause, processVars, loopVars>>

Never == -Epoch

\* time(NULL).
WallClock == clock + skew

\* Mutant: an entry of /proc that is not there is taken for one that is.
AlwaysThere == TRUE

\* /proc/<pid> is there for a zombie too.
ulcr_process_exists == process # "gone"

ulcr_get_process_runtime_seconds == clock - birth

\* Mutant: the thirds and halves of the two ages swapped.
SwappedIntervalAt(runtime) ==
    IF runtime >= 300 THEN IF Base > 2 THEN Base \div 2 ELSE 1
    ELSE IF runtime >= 60 THEN IF Base > 3 THEN Base \div 3 ELSE Base
    ELSE Base

IntervalAt(runtime) ==
    IF runtime >= 300 THEN IF Base > 3 THEN Base \div 3 ELSE Base
    ELSE IF runtime >= 60 THEN IF Base > 2 THEN Base \div 2 ELSE 1
    ELSE Base

\* The intervals the loop may compute: the runtime of a process that is gone
\* cannot be read, and that of a process that is there may not be read either.
compute_dynamic_checkpoint_interval ==
    {Base} \cup IF ulcr_process_exists THEN {IntervalAt(ulcr_get_process_runtime_seconds)} ELSE {}

Init ==
    /\ clock = 0
    /\ skew = 0
    /\ moved = {}
    /\ timer = Period
    /\ expirations = 0
    /\ pc = "wait"
    /\ pause = 0
    /\ process = "running"
    /\ child = FALSE
    /\ birth \in {-age : age \in Ages}
    /\ last_checkpoint = Never
    /\ current_interval = Period
    /\ unread = FALSE
    /\ attempted = Never
    /\ died = Never
    /\ noticed = FALSE

-----------------------------------------------------------------------------
\* Mutant: it_interval is left zero, the timer expires once.
OneShotTick ==
    /\ clock < Horizon
    /\ pc = "wait" /\ expirations = 0
    /\ clock' = clock + 1
    /\ timer' = timer - 1
    /\ expirations' = IF timer = 1 THEN expirations + 1 ELSE expirations
    /\ UNCHANGED <<wallVars, pc, pause, processVars, loopVars>>

\* A second passes.  The loop is scheduled within the second in which it can
\* go on; only a checkpoint takes time.
Tick ==
    /\ clock < Horizon
    /\ \/ pc = "wait" /\ expirations = 0 /\ pause' = pause
       \/ pc = "checkpoint" /\ pause < MaxPause /\ pause' = pause + 1
    /\ clock' = clock + 1
    /\ timer' = IF timer = 1 THEN Period ELSE timer - 1
    /\ expirations' = IF timer = 1 THEN expirations + 1 ELSE expirations
    /\ UNCHANGED <<wallVars, pc, processVars, loopVars>>

\* Somebody sets the wall clock.
SetClock(step) ==
    /\ skew + step \in -MaxSkew .. MaxSkew
    /\ skew' = skew + step
    /\ moved' = moved \cup {IF step < 0 THEN "back" ELSE "forward"}
    /\ UNCHANGED <<clock, timer, expirations, pc, pause, processVars, loopVars>>

\* The death of a process.  Nobody waits for a child of the loop, nor for a
\* tracee of the loop that dies under it: both stay zombies.  Any other
\* process is reaped by its parent.
Die ==
    /\ process = "running"
    /\ \/ process' = "zombie" /\ (child \/ pc = "checkpoint")
       \/ process' = "gone" /\ ~child
    /\ died' = clock
    /\ UNCHANGED <<timeVars, pc, pause, child, birth, loopVars>>

\* read(timer_fd) returns and the process exists.
SeeProcess ==
    /\ pc = "wait" /\ expirations > 0
    /\ ulcr_process_exists
    /\ expirations' = 0
    /\ pc' = "schedule"
    /\ UNCHANGED <<clock, wallVars, timer, pause, processVars, loopVars>>

\* read(timer_fd) returns and the process is gone.
MissProcess ==
    /\ pc = "wait" /\ expirations > 0
    /\ ~ulcr_process_exists
    /\ expirations' = 0
    /\ noticed' = TRUE
    /\ UNCHANGED <<clock, wallVars, timer, pause, processVars, last_checkpoint, current_interval,
                   unread, attempted>>
    /\ pc' = IF AutoRestore THEN "restore" ELSE "wait"

\* Mutant: last_checkpoint is not set after a restore.
RestoreKeepsTime ==
    /\ pc = "restore"
    /\ pc' = "wait"
    /\ process' = "running" /\ child' = TRUE /\ birth' = clock
    /\ current_interval' = IntervalAt(0) /\ unread' = FALSE
    /\ attempted' = clock
    /\ noticed' = FALSE
    /\ UNCHANGED <<timeVars, pause, died, last_checkpoint>>

\* ulcr_restore_latest forked a process.
Restore ==
    /\ pc = "restore"
    /\ pc' = "wait"
    /\ process' = "running" /\ child' = TRUE /\ birth' = clock
    /\ last_checkpoint' = WallClock
    /\ current_interval' = IntervalAt(0) /\ unread' = FALSE
    /\ attempted' = clock
    /\ noticed' = FALSE
    /\ UNCHANGED <<timeVars, pause, died>>

RestoreFails ==
    /\ pc = "restore"
    /\ pc' = "wait"
    /\ UNCHANGED <<timeVars, pause, processVars, loopVars>>

\* The interval is computed again.
Schedule(interval) ==
    /\ pc = "schedule"
    /\ current_interval' = interval
    /\ unread' = (ulcr_process_exists /\ interval # IntervalAt(ulcr_get_process_runtime_seconds))

Due(interval) == WallClock - last_checkpoint >= interval

\* Mutant: last_checkpoint is set outside the if.
NotDueResets(interval) ==
    /\ Schedule(interval)
    /\ ~Due(interval)
    /\ pc' = "wait"
    /\ last_checkpoint' = WallClock
    /\ UNCHANGED <<timeVars, pause, processVars, attempted, noticed>>

NotDue(interval) ==
    /\ Schedule(interval)
    /\ ~Due(interval)
    /\ pc' = "wait"
    /\ UNCHANGED <<timeVars, pause, processVars, last_checkpoint, attempted, noticed>>

BeginCheckpoint(interval) ==
    /\ Schedule(interval)
    /\ Due(interval) /\ process = "running"
    /\ pc' = "checkpoint"
    /\ UNCHANGED <<timeVars, pause, processVars, last_checkpoint, attempted, noticed>>

\* A process that is gone is not checkpointed, a zombie cannot be attached.
CheckpointRefused(interval) ==
    /\ Schedule(interval)
    /\ Due(interval) /\ process # "running"
    /\ pc' = "wait"
    /\ attempted' = clock
    /\ UNCHANGED <<timeVars, pause, processVars, last_checkpoint, noticed>>

\* ulcr_checkpoint_latest returns: 0, or -1 when a call failed or another
\* manager holds the lock.
EndCheckpoint ==
    /\ pc = "checkpoint"
    /\ pc' = "wait"
    /\ pause' = 0
    /\ last_checkpoint' \in {WallClock, last_checkpoint}
    /\ attempted' = clock
    /\ UNCHANGED <<timeVars, processVars, current_interval, unread, noticed>>

Next ==
    \/ Tick \/ (\E step \in Steps : SetClock(step))
    \/ Die \/ SeeProcess \/ MissProcess \/ Restore \/ RestoreFails
    \/ \E interval \in compute_dynamic_checkpoint_interval :
          NotDue(interval) \/ BeginCheckpoint(interval) \/ CheckpointRefused(interval)
    \/ EndCheckpoint

Spec == Init /\ [][Next]_vars

-----------------------------------------------------------------------------
(***************************************************************************)
(* Properties.                                                             *)
(***************************************************************************)

\* Every variable holds a value of its type.
TypeOK ==
    /\ clock \in Nat
    /\ skew \in Int
    /\ moved \subseteq {"back", "forward"}
    /\ timer \in 1 .. Period
    /\ expirations \in Nat
    /\ pc \in {"wait", "schedule", "restore", "checkpoint"}
    /\ pause \in 0 .. MaxPause
    /\ process \in {"running", "zombie", "gone"}
    /\ child \in BOOLEAN
    /\ birth \in Int
    /\ last_checkpoint \in Int
    /\ current_interval \in Nat \ {0}
    /\ unread \in BOOLEAN
    /\ attempted \in Int
    /\ died \in Int
    /\ noticed \in BOOLEAN

\* The wall clock has not been set back.
NeverSetBack == "back" \notin moved

\* The wall clock has not been set forward.
NeverSetForward == "forward" \notin moved

\* Once the loop has begun to checkpoint it never leaves a process it sees
\* without an attempt for longer than an interval, a timer period and the
\* checkpoint itself, whatever failed before, unless the wall clock is set back.
AttemptsRegular ==
    (NeverSetBack /\ attempted # Never /\ ulcr_process_exists) =>
        clock - attempted < Base + Period + MaxPause

\* A process that is gone is noticed at the latest when the timer expires
\* next, or when the checkpoint in progress is over.
VanishedIsNoticed ==
    (process = "gone" /\ ~noticed) => clock - died <= Period + MaxPause

\* A process that has died, in whatever way, is noticed as soon.
FailureDetected ==
    (process # "running" /\ ~noticed) => clock - died <= Period + MaxPause

\* A restored process runs for a whole interval before it is checkpointed: a
\* process that still rebuilds its state does not become the newest checkpoint.
\* It may be checkpointed at once when the wall clock has been set forward.
RestoredRunsFirst ==
    (NeverSetForward /\ pc = "checkpoint" /\ child) => clock - birth >= current_interval

\* The loop watches the same process as before, has computed its interval, and
\* its runtime could be read when it last did.
SameProcessRead ==
    attempted # Never /\ process' = "running" /\ birth' = birth /\ ~unread'

\* As a process grows older the loop checkpoints it at least as often, as long
\* as its runtime can be read.  From 300 seconds on, a configured interval of
\* two or three seconds is used whole again.
IntervalFollowsAge ==
    [][SameProcessRead =>
            \/ current_interval' <= current_interval
            \/ Base \in {2, 3} /\ clock - birth >= 300 /\ current_interval' = Base]_vars

\* What src/README.md:25 says ("Dynamic checkpoint scheduling that becomes more
\* aggressive as runtime grows"), also of these two intervals, which
\* ulcr_load_config accepts.
IntervalShrinks ==
    [][SameProcessRead => current_interval' <= current_interval]_vars

-----------------------------------------------------------------------------
(***************************************************************************)
(* The inductive invariant behind them: how much of the promised time is   *)
(* used up at each place of the loop.                                      *)
(***************************************************************************)

AttemptBudget ==
    (NeverSetBack /\ attempted # Never /\ ulcr_process_exists) =>
        /\ clock - attempted < Base + Period + pause
        /\ (pc = "wait" /\ expirations = 0) => clock - attempted + timer < Base + Period

NoticeBudget ==
    (process = "gone" /\ ~noticed) =>
        /\ pc = "wait" => clock - died <= Period + MaxPause
        /\ (pc = "wait" /\ expirations = 0) => clock - died + timer <= Period + MaxPause
        /\ pc = "schedule" => clock = died
        /\ pc = "checkpoint" => clock - died <= pause
        /\ pc # "restore"

\* The time budgets and the order of the recorded times.  What bounds the wait
\* for an attempt from above and from below depends on how time(NULL) is set.
MonitorInv ==
    /\ NoticeBudget
    /\ attempted <= clock
    /\ pc # "checkpoint" => pause = 0
    /\ pc = "restore" => process = "gone"
    /\ AttemptBudget
    /\ NeverSetBack => last_checkpoint <= attempted + skew
    /\ RestoredRunsFirst
    /\ (NeverSetForward /\ child) => last_checkpoint >= birth + skew

=============================================================================
