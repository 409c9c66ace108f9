-------------------------- MODULE MonitorLoopProofs --------------------------
(***************************************************************************)
(* Proofs about MonitorLoop for every configuration ulcr_load_config       *)
(* accepts, every duration of a checkpoint and every age of the process.   *)
(***************************************************************************)
EXTENDS MonitorLoop, TLAPS

\* The dynamic interval lies between one second and the configured one.
LEMMA IntervalRange ==
    ASSUME NEW age \in Int
    PROVE  IntervalAt(age) \in 1 .. Base
BY MonitorAssumption DEF IntervalAt

\* Every interval the loop may compute does, and none is shorter than the one
\* for the age of the process.
LEMMA ComputedRange ==
    ASSUME TypeOK, NEW interval \in compute_dynamic_checkpoint_interval
    PROVE  interval \in 1 .. Base /\ interval >= IntervalAt(clock - birth)
<1>1. clock - birth \in Int
  BY DEF TypeOK
<1> QED
  BY <1>1, IntervalRange, MonitorAssumption DEF compute_dynamic_checkpoint_interval,
     ulcr_get_process_runtime_seconds

\* It does not grow with the age, except that from 300 seconds on the guard
\* `base_interval > 3' sends the bases 2 and 3 back to the whole interval.
LEMMA IntervalMonotone ==
    ASSUME NEW a \in Int, NEW b \in Int, a <= b, Base \in {2, 3} => b < 300
    PROVE  IntervalAt(b) <= IntervalAt(a)
BY MonitorAssumption DEF IntervalAt

LEMMA TypeStep == TypeOK /\ [Next]_vars => TypeOK'
<1> SUFFICES ASSUME TypeOK, [Next]_vars PROVE TypeOK'
  OBVIOUS
<1> USE MonitorAssumption DEF TypeOK, WallClock, timeVars, wallVars, processVars, loopVars
<1>1. compute_dynamic_checkpoint_interval \subseteq Nat \ {0} /\ IntervalAt(0) \in Nat \ {0}
  BY IntervalRange, ComputedRange
<1>2. CASE Tick
  BY <1>2 DEF Tick
<1>3. CASE Die
  BY <1>3 DEF Die
<1>4. CASE SeeProcess
  BY <1>4 DEF SeeProcess
<1>5. CASE MissProcess
  BY <1>5 DEF MissProcess
<1>6. CASE Restore
  <2>1. child' \in BOOLEAN /\ noticed' \in BOOLEAN /\ unread' \in BOOLEAN
    BY <1>6, Zenon DEF Restore
  <2> QED BY <1>1, <1>6, <2>1 DEF Restore
<1>7. CASE RestoreFails
  BY <1>7 DEF RestoreFails
<1>8. ASSUME NEW interval \in compute_dynamic_checkpoint_interval,
             NotDue(interval) \/ BeginCheckpoint(interval) \/ CheckpointRefused(interval)
      PROVE  TypeOK'
  <2>1. current_interval' \in Nat \ {0}
    BY <1>1, <1>8 DEF NotDue, BeginCheckpoint, CheckpointRefused, Schedule
  <2>2. unread' \in BOOLEAN
    BY <1>8, Zenon DEF NotDue, BeginCheckpoint, CheckpointRefused, Schedule
  <2>3. CASE NotDue(interval)
    BY <2>1, <2>2, <2>3 DEF NotDue
  <2>4. CASE BeginCheckpoint(interval)
    BY <2>1, <2>2, <2>4 DEF BeginCheckpoint
  <2>5. CASE CheckpointRefused(interval)
    BY <2>1, <2>2, <2>5 DEF CheckpointRefused
  <2> QED BY <1>8, <2>3, <2>4, <2>5
<1>11. CASE EndCheckpoint
  BY <1>11 DEF EndCheckpoint
<1>12. CASE UNCHANGED vars
  BY <1>12 DEF vars
<1>13. ASSUME NEW step \in Steps, SetClock(step) PROVE TypeOK'
  BY <1>13 DEF SetClock
<1> QED
  BY <1>2, <1>3, <1>4, <1>5, <1>6, <1>7, <1>8, <1>11, <1>12, <1>13 DEF Next

\* Where the wait for an attempt is bounded from above.
AboveInv == AttemptBudget /\ (NeverSetBack => last_checkpoint <= attempted + skew)

\* Where it is bounded from below.
BelowInv ==
    /\ RestoredRunsFirst
    /\ (NeverSetForward /\ child) => last_checkpoint >= birth + skew

\* What does not depend on the wall clock.
CommonInv ==
    /\ NoticeBudget
    /\ attempted <= clock
    /\ pc # "checkpoint" => pause = 0
    /\ pc = "restore" => process = "gone"

LEMMA InvParts == MonitorInv <=> CommonInv /\ AboveInv /\ BelowInv
BY DEF MonitorInv, CommonInv, AboveInv, BelowInv

LEMMA CommonStep ==
    ASSUME TypeOK, TypeOK', CommonInv, [Next]_vars
    PROVE  CommonInv'
<1> USE MonitorAssumption DEF TypeOK, timeVars, wallVars, processVars, loopVars, CommonInv, NoticeBudget,
        ulcr_process_exists
<1>1. CASE Tick
  <2>1. clock' = clock + 1 /\ UNCHANGED <<pc, process, died, attempted, noticed>>
    BY <1>1 DEF Tick
  <2>2. CASE pc = "wait"
    <3>1. expirations = 0 /\ pause' = pause
      BY <1>1, <2>2 DEF Tick
    <3>2. (timer = 1 => expirations' = 1) /\ (timer # 1 => timer' = timer - 1)
      BY <1>1, <3>1 DEF Tick
    <3>3. NoticeBudget'
      <4> SUFFICES ASSUME process = "gone", ~noticed
                   PROVE  /\ clock' - died <= Period + MaxPause
                          /\ expirations' = 0 => clock' - died + timer' <= Period + MaxPause
        BY <2>1, <2>2
      <4>1. clock - died + timer <= Period + MaxPause
        BY <2>2, <3>1
      <4>2. timer' = timer - 1 => clock' - died + timer' <= Period + MaxPause
        BY <2>1, <4>1
      <4>3. clock' - died <= Period + MaxPause
        BY <2>1, <4>1
      <4>4. expirations' = 0 => timer' = timer - 1
        BY <3>2
      <4> QED BY <4>2, <4>3, <4>4
    <3>4. attempted' <= clock' /\ pc' = "wait" /\ pause' = 0
      BY <2>1, <2>2, <3>1
    <3> QED BY <3>3, <3>4
  <2>3. CASE pc # "wait"
    <3>1. pc = "checkpoint" /\ pause' = pause + 1
      BY <1>1, <2>3 DEF Tick
    <3> QED BY <2>1, <3>1
  <2> QED BY <2>2, <2>3
<1>2. ASSUME NEW step \in Steps, SetClock(step) PROVE CommonInv'
  BY <1>2 DEF SetClock
<1>3. CASE Die
  BY <1>3 DEF Die
<1>4. CASE SeeProcess \/ MissProcess
  BY <1>4 DEF SeeProcess, MissProcess
<1>5. CASE Restore \/ RestoreFails
  <2>1. CASE Restore
    BY <2>1 DEF Restore
  <2>2. CASE RestoreFails
    BY <2>2 DEF RestoreFails
  <2> QED BY <1>5, <2>1, <2>2
<1>6. ASSUME NEW interval \in compute_dynamic_checkpoint_interval,
             NotDue(interval) \/ BeginCheckpoint(interval) \/ CheckpointRefused(interval)
      PROVE  CommonInv'
  <2>1. CASE NotDue(interval)
    BY <2>1 DEF NotDue, Schedule
  <2>2. CASE BeginCheckpoint(interval)
    BY <2>2 DEF BeginCheckpoint, Schedule
  <2>3. CASE CheckpointRefused(interval)
    BY <2>3 DEF CheckpointRefused, Schedule
  <2> QED BY <1>6, <2>1, <2>2, <2>3
<1>7. CASE EndCheckpoint
  BY <1>7 DEF EndCheckpoint
<1>8. CASE UNCHANGED vars
  BY <1>8 DEF vars
<1> QED
  BY <1>1, <1>2, <1>3, <1>4, <1>5, <1>6, <1>7, <1>8 DEF Next

\* A wall clock that has been set in a direction stays so.
LEMMA DirectionsKept ==
    ASSUME TypeOK, [Next]_vars
    PROVE  (NeverSetBack' => NeverSetBack) /\ (NeverSetForward' => NeverSetForward)
<1> USE DEF NeverSetBack, NeverSetForward
<1>1. ASSUME NEW step \in Steps, SetClock(step)
      PROVE  (NeverSetBack' => NeverSetBack) /\ (NeverSetForward' => NeverSetForward)
  BY <1>1 DEF SetClock
<1>2. CASE UNCHANGED moved
  BY <1>2
<1> QED
  BY <1>1, <1>2 DEF Next, vars, timeVars, wallVars, Tick, Die, SeeProcess, MissProcess,
     Restore, RestoreFails, NotDue, BeginCheckpoint, CheckpointRefused, EndCheckpoint

LEMMA AboveStep ==
    ASSUME TypeOK, TypeOK', CommonInv, AboveInv, [Next]_vars
    PROVE  AboveInv'
<1> SUFFICES ASSUME NeverSetBack', NeverSetBack PROVE AboveInv'
  BY DirectionsKept DEF AboveInv, AttemptBudget
<1> USE MonitorAssumption DEF TypeOK, timeVars, wallVars, processVars, loopVars, CommonInv, AboveInv,
        AttemptBudget, ulcr_process_exists
<1>1. \A interval \in compute_dynamic_checkpoint_interval : interval \in 1 .. Base
  BY ComputedRange
<1>2. CASE Tick
  <2>1. /\ clock' = clock + 1
        /\ UNCHANGED <<skew, pc, process, last_checkpoint, attempted>>
    BY <1>2 DEF Tick
  <2>2. CASE pc = "wait"
    <3>1. expirations = 0 /\ pause' = pause
      BY <1>2, <2>2 DEF Tick
    <3>2. (timer = 1 => expirations' = 1) /\ (timer # 1 => timer' = timer - 1)
      BY <1>2, <3>1 DEF Tick
    <3>3. AttemptBudget'
      <4> SUFFICES ASSUME attempted # Never, process # "gone"
                   PROVE  /\ clock' - attempted < Base + Period + pause'
                          /\ expirations' = 0 => clock' - attempted + timer' < Base + Period
        BY <2>1, <2>2
      <4>1. clock - attempted + timer < Base + Period
        BY <2>2, <3>1
      <4>2. timer' = timer - 1 => clock' - attempted + timer' < Base + Period
        BY <2>1, <4>1
      <4>3. clock' - attempted < Base + Period + pause'
        BY <2>1, <3>1, <4>1
      <4>4. expirations' = 0 => timer' = timer - 1
        BY <3>2
      <4> QED BY <4>2, <4>3, <4>4
    <3> QED BY <2>1, <3>3
  <2>3. CASE pc # "wait"
    <3>1. pc = "checkpoint" /\ pause' = pause + 1
      BY <1>2, <2>3 DEF Tick
    <3> QED BY <2>1, <3>1
  <2> QED BY <2>2, <2>3
<1>3. ASSUME NEW step \in Steps, SetClock(step) PROVE AboveInv'
  <2>1. step >= 0
    BY <1>3 DEF SetClock, NeverSetBack
  <2> QED BY <1>3, <2>1 DEF SetClock
<1>4. CASE Die \/ SeeProcess \/ MissProcess
  BY <1>4 DEF Die, SeeProcess, MissProcess
<1>5. CASE Restore
  BY <1>5 DEF Restore, Never, WallClock
<1>6. CASE RestoreFails
  BY <1>6 DEF RestoreFails
<1>7. ASSUME NEW interval \in compute_dynamic_checkpoint_interval, NotDue(interval)
      PROVE  AboveInv'
  <2>1. clock - attempted < Base
    BY <1>1, <1>7 DEF NotDue, Due, WallClock
  <2> QED BY <1>7, <2>1 DEF NotDue, Schedule
<1>8. ASSUME NEW interval \in compute_dynamic_checkpoint_interval,
             BeginCheckpoint(interval) \/ CheckpointRefused(interval)
      PROVE  AboveInv'
  <2>1. CASE BeginCheckpoint(interval)
    BY <2>1 DEF BeginCheckpoint, Schedule
  <2>2. CASE CheckpointRefused(interval)
    BY <2>2 DEF CheckpointRefused, Schedule
  <2> QED BY <1>8, <2>1, <2>2
<1>9. CASE EndCheckpoint
  BY <1>9 DEF EndCheckpoint, WallClock
<1>10. CASE UNCHANGED vars
  BY <1>10 DEF vars
<1> QED
  BY <1>2, <1>3, <1>4, <1>5, <1>6, <1>7, <1>8, <1>9, <1>10 DEF Next

LEMMA BelowStep ==
    ASSUME TypeOK, TypeOK', CommonInv, BelowInv, [Next]_vars
    PROVE  BelowInv'
<1> SUFFICES ASSUME NeverSetForward', NeverSetForward PROVE BelowInv'
  BY DirectionsKept DEF BelowInv, RestoredRunsFirst
<1> USE MonitorAssumption DEF TypeOK, timeVars, wallVars, processVars, loopVars, CommonInv, BelowInv,
        RestoredRunsFirst
<1>1. \A interval \in compute_dynamic_checkpoint_interval : interval \in 1 .. Base
  BY ComputedRange
<1>2. ASSUME NEW step \in Steps, SetClock(step) PROVE BelowInv'
  <2>1. step < 0
    BY <1>2 DEF SetClock, NeverSetForward
  <2> QED BY <1>2, <2>1 DEF SetClock
<1>3. CASE Tick \/ Die \/ SeeProcess \/ MissProcess \/ RestoreFails
  <2>1. CASE Tick
    BY <2>1 DEF Tick
  <2>2. CASE Die
    BY <2>2 DEF Die
  <2>3. CASE SeeProcess
    BY <2>3 DEF SeeProcess
  <2>4. CASE MissProcess
    BY <2>4 DEF MissProcess
  <2>5. CASE RestoreFails
    BY <2>5 DEF RestoreFails
  <2> QED BY <1>3, <2>1, <2>2, <2>3, <2>4, <2>5
<1>4. CASE Restore
  BY <1>4 DEF Restore, WallClock
<1>5. ASSUME NEW interval \in compute_dynamic_checkpoint_interval,
             NotDue(interval) \/ CheckpointRefused(interval)
      PROVE  BelowInv'
  BY <1>5 DEF NotDue, CheckpointRefused, Schedule
<1>6. ASSUME NEW interval \in compute_dynamic_checkpoint_interval, BeginCheckpoint(interval)
      PROVE  BelowInv'
  <2>1. child => clock - birth >= interval
    BY <1>1, <1>6 DEF BeginCheckpoint, Due, WallClock
  <2> QED BY <1>6, <2>1 DEF BeginCheckpoint, Schedule
<1>7. CASE EndCheckpoint
  <2>1. child => last_checkpoint' >= birth' + skew'
    BY <1>7 DEF EndCheckpoint, WallClock
  <2> QED BY <1>7, <2>1 DEF EndCheckpoint
<1>8. CASE UNCHANGED vars
  BY <1>8 DEF vars
<1> QED
  BY <1>2, <1>3, <1>4, <1>5, <1>6, <1>7, <1>8 DEF Next

LEMMA InvStep == TypeOK /\ MonitorInv /\ [Next]_vars => MonitorInv'
<1> SUFFICES ASSUME TypeOK, TypeOK', MonitorInv, [Next]_vars PROVE MonitorInv'
  BY TypeStep
<1>1. CommonInv /\ AboveInv /\ BelowInv
  BY InvParts
<1>2. CommonInv' /\ AboveInv' /\ BelowInv'
  BY <1>1, CommonStep, AboveStep, BelowStep
<1> QED BY <1>2 DEF MonitorInv, CommonInv, AboveInv, BelowInv

LEMMA InitInv == Init => TypeOK /\ MonitorInv
<1> SUFFICES ASSUME Init PROVE TypeOK /\ MonitorInv
  OBVIOUS
<1> USE MonitorAssumption DEF Init
<1>1. birth \in Int /\ Never \in Int /\ Never <= 0
  BY DEF Never
<1>2. TypeOK
  <2>1. child \in BOOLEAN /\ noticed \in BOOLEAN /\ unread \in BOOLEAN
    BY Zenon
  <2> QED BY <1>1, <2>1 DEF TypeOK
<1>3. AttemptBudget /\ NoticeBudget
  BY DEF AttemptBudget, NoticeBudget, Never
<1> QED
  BY <1>1, <1>2, <1>3 DEF MonitorInv, RestoredRunsFirst

\* The interval in use is never shorter than the one for the present age, except
\* that two and three seconds are cut to one between 60 and 300 seconds of age.
IntervalInUse ==
    ((attempted # Never \/ pc = "checkpoint") /\ (Base \in {2, 3} => clock - birth < 300)) =>
        current_interval >= IntervalAt(clock - birth)

LEMMA IntervalStep ==
    ASSUME TypeOK, IntervalInUse, [Next]_vars
    PROVE  IntervalInUse'
<1> USE MonitorAssumption DEF TypeOK, IntervalInUse, timeVars, wallVars, processVars, loopVars
<1>1. IntervalAt(clock - birth) <= Base /\ clock - birth \in Int
  BY IntervalRange
<1>2. CASE UNCHANGED <<clock, birth, current_interval, attempted, pc>>
  BY <1>2
<1>3. CASE Tick
  <2>0. clock' = clock + 1 /\ UNCHANGED <<birth, current_interval, attempted, pc>>
    BY <1>3 DEF Tick
  <2> SUFFICES ASSUME attempted # Never \/ pc = "checkpoint",
                      Base \in {2, 3} => (clock + 1) - birth < 300
               PROVE  current_interval >= IntervalAt((clock + 1) - birth)
    BY <2>0
  <2>1. IntervalAt((clock + 1) - birth) <= IntervalAt(clock - birth)
    BY IntervalMonotone
  <2>2. IntervalAt((clock + 1) - birth) \in Int /\ IntervalAt(clock - birth) \in Int
    BY IntervalRange
  <2> QED BY <2>1, <2>2
<1>4. CASE Restore
  BY <1>4, IntervalRange DEF Restore
<1>5. ASSUME NEW interval \in compute_dynamic_checkpoint_interval,
             NotDue(interval) \/ BeginCheckpoint(interval) \/ CheckpointRefused(interval)
      PROVE  IntervalInUse'
  <2>1. interval >= IntervalAt(clock - birth)
    BY ComputedRange
  <2>2. current_interval' = interval /\ clock' = clock /\ birth' = birth
    BY <1>5 DEF NotDue, BeginCheckpoint, CheckpointRefused, Schedule
  <2> QED BY <2>1, <2>2
<1>6. CASE EndCheckpoint
  BY <1>6 DEF EndCheckpoint
<1>7. CASE RestoreFails \/ Die \/ SeeProcess \/ MissProcess \/ \E step \in Steps : SetClock(step)
  BY <1>7 DEF RestoreFails, Die, SeeProcess, MissProcess, SetClock
<1> QED
  BY <1>2, <1>3, <1>4, <1>5, <1>6, <1>7 DEF Next, vars

-----------------------------------------------------------------------------
\* Every variable of the loop keeps its type for every accepted configuration.
THEOREM TypeCorrect == Spec => []TypeOK
BY InitInv, TypeStep, PTL DEF Spec

\* The budgets of time hold at every place of the loop.
THEOREM LoopCorrect == Spec => []MonitorInv
BY InitInv, TypeStep, InvStep, PTL DEF Spec

\* Attempts to checkpoint keep coming, whatever fails, for every interval,
\* timer period, checkpoint duration and age of the process, as long as the
\* wall clock has not been set back.
THEOREM RegularAttempts == Spec => []AttemptsRegular
<1>1. TypeOK /\ MonitorInv => AttemptsRegular
  BY MonitorAssumption DEF TypeOK, MonitorInv, AttemptBudget, AttemptsRegular
<1> QED
  BY <1>1, InitInv, TypeStep, InvStep, PTL DEF Spec

\* A process whose /proc entry is gone is noticed within a timer period and
\* the checkpoint in progress.
THEOREM VanishedNoticed == Spec => []VanishedIsNoticed
<1>1. TypeOK /\ MonitorInv => VanishedIsNoticed
  BY MonitorAssumption DEF TypeOK, MonitorInv, NoticeBudget, VanishedIsNoticed
<1> QED
  BY <1>1, InitInv, TypeStep, InvStep, PTL DEF Spec

\* A restored process runs for a whole interval before its first checkpoint, as
\* long as the wall clock has not been set forward.
THEOREM RestoredFirst == Spec => []RestoredRunsFirst
<1>1. MonitorInv => RestoredRunsFirst
  BY DEF MonitorInv
<1> QED
  BY <1>1, InitInv, TypeStep, InvStep, PTL DEF Spec

\* The schedule becomes more aggressive with age for every configured interval,
\* as long as the runtime can be read: an interval of the same process only ever
\* grows at 300 seconds, from one second back to the two or three configured.
THEOREM Aggressive == Spec => IntervalFollowsAge
<1>1. Init => TypeOK /\ IntervalInUse
  BY InitInv DEF Init, IntervalInUse
<1>2. TypeOK /\ IntervalInUse /\ [Next]_vars => (TypeOK /\ IntervalInUse)'
  BY TypeStep, IntervalStep
<1>3. TypeOK /\ IntervalInUse /\ [Next]_vars =>
        [SameProcessRead =>
            \/ current_interval' <= current_interval
            \/ Base \in {2, 3} /\ clock - birth >= 300 /\ current_interval' = Base]_vars
  <2> SUFFICES ASSUME TypeOK, IntervalInUse, Next, SameProcessRead
               PROVE  \/ current_interval' <= current_interval
                      \/ Base \in {2, 3} /\ clock - birth >= 300 /\ current_interval' = Base
    OBVIOUS
  <2> USE DEF TypeOK, wallVars, processVars, loopVars
  <2>0. attempted # Never /\ process' = "running" /\ birth' = birth /\ ~unread'
    BY DEF SameProcessRead
  <2>1. (Base \in {2, 3} /\ clock - birth >= 300) \/ current_interval >= IntervalAt(clock - birth)
    BY <2>0 DEF IntervalInUse
  <2>2. ASSUME NEW interval \in compute_dynamic_checkpoint_interval,
               NotDue(interval) \/ BeginCheckpoint(interval) \/ CheckpointRefused(interval)
        PROVE  \/ current_interval' <= current_interval
               \/ Base \in {2, 3} /\ clock - birth >= 300 /\ current_interval' = Base
    <3>1. /\ current_interval' = interval /\ process = "running"
          /\ unread' = (ulcr_process_exists /\ interval # IntervalAt(clock - birth))
      BY <2>0, <2>2 DEF NotDue, BeginCheckpoint, CheckpointRefused, Schedule,
         ulcr_get_process_runtime_seconds
    <3>2. current_interval' = IntervalAt(clock - birth)
      BY <2>0, <3>1 DEF ulcr_process_exists
    <3>3. Base \in {2, 3} /\ clock - birth >= 300 => IntervalAt(clock - birth) = Base
      BY DEF IntervalAt
    <3> QED BY <2>1, <3>2, <3>3
  <2>3. CASE Restore
    <3>1. clock = birth /\ current_interval' = IntervalAt(0)
      BY <2>0, <2>3 DEF Restore
    <3>2. clock - birth = 0
      BY <3>1
    <3> QED BY <2>1, <3>1, <3>2
  <2>4. CASE UNCHANGED current_interval
    BY <2>4
  <2>5. CASE \/ Tick \/ Die \/ SeeProcess \/ MissProcess \/ RestoreFails \/ EndCheckpoint
             \/ \E step \in Steps : SetClock(step)
    BY <2>4, <2>5 DEF Tick, SetClock, Die, SeeProcess, MissProcess, RestoreFails, EndCheckpoint
  <2> QED BY <2>2, <2>3, <2>5 DEF Next
<1> QED
  BY <1>1, <1>2, <1>3, PTL DEF Spec, IntervalFollowsAge

=============================================================================
