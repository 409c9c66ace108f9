---------------------------- MODULE RecoveryProofs ----------------------------
(***************************************************************************)
(* Proofs about Recovery, for any bounds and any number of captures.       *)
(***************************************************************************)
EXTENDS Recovery, TLAPS

LEMMA InitTypes == Init => TypeOK
BY RecoveryAssumption DEF Init, Store!Init, TypeOK, Versions, Counts, Lost

\* A step records a mishap or leaves the record alone.
LEMMA NoteType == ASSUME TypeOK, NEW what \in Mishaps \cup {"none"}, Note(what)
                  PROVE  mishap' \in Mishaps \cup {"none"}
BY DEF TypeOK, Note

\* Seen as data, a step in which nothing goes wrong is one in which nothing had.
LEMMA NoMishap == ASSUME NEW what, Note(what), mishap' = "none"
                  PROVE  mishap = "none" /\ what = "none"
BY DEF Note

LEMMA NextTypes == TypeOK /\ [Next]_vars => TypeOK'
<1> SUFFICES ASSUME TypeOK, [Next]_vars PROVE TypeOK'
    OBVIOUS
<1> USE RecoveryAssumption DEF Versions, Counts, Lost
<1>1. CASE Bootstrap
    <2>1. /\ UNCHANGED <<current, acked, newest, content, pc, source, best>>
          /\ process' \in {"running", "gone"}
        BY <1>1 DEF Bootstrap, Runs, Crashes, storeVars
    <2>2. count' \in Counts
        <3>1. \A v \in source .. newest : source # 0 /\ content[v] # Lost => content[v] \in Counts
            BY DEF TypeOK
        <3> QED
            BY <1>1, <3>1 DEF Bootstrap, Runs, Crashes, TypeOK
    <2>3. mishap' \in Mishaps \cup {"none"}
        BY <1>1, NoteType DEF Bootstrap, Runs, Crashes, Mishaps, TypeOK
    <2> QED
        BY <2>1, <2>2, <2>3 DEF TypeOK
<1>2. CASE Count
    BY <1>2 DEF Count, storeVars, historyVars, TypeOK
<1>3. CASE Die
    BY <1>3 DEF Die, storeVars, historyVars, TypeOK
<1>4. ASSUME NEW m \in Managers, Begin(m) PROVE TypeOK'
    <2>1. Captured \subseteq Counts \cup {Lost}
        BY DEF Captured, TypeOK
    <2>2. PICK image \in Captured : content' = [content EXCEPT ![newest'] = image]
        BY <1>4 DEF Begin
    <2>3. newest' \in Versions /\ current' \in 0 .. newest' /\ acked' \in 0 .. newest'
        BY <1>4 DEF Begin, Store!Capture, TypeOK
    <2>4. content' \in [Versions -> Counts \cup {Lost}]
        BY <2>1, <2>2, <2>3 DEF TypeOK
    <2>5. pc' \in [Managers -> {"idle", "capturing", "active"}]
        BY <1>4 DEF Begin, Goto, TypeOK
    <2>6. source' \in 0 .. newest' /\ count' = count /\ process' = process /\ best' = best
        BY <1>4 DEF Begin, Store!Capture, processVars, TypeOK
    <2>7. mishap' \in Mishaps \cup {"none"}
        BY <1>4, NoteType DEF Begin, Mishaps
    <2> QED
        BY <2>3, <2>4, <2>5, <2>6, <2>7 DEF TypeOK
<1>5. ASSUME NEW m \in Managers, Publish(m) PROVE TypeOK'
    BY <1>5 DEF Publish, Goto, Store!Publish, processVars, historyVars, TypeOK
<1>6. ASSUME NEW m \in Managers, Acknowledge(m) PROVE TypeOK'
    <2>1. best' \in Counts \cup {Lost}
        <3>1. CASE current = 0
            BY <1>6, <3>1 DEF Acknowledge, Store!Acknowledge, TypeOK
        <3>2. CASE current # 0
            BY <1>6, <3>2 DEF Acknowledge, TypeOK
        <3> QED
            BY <3>1, <3>2
    <2> QED
        BY <1>6, <2>1 DEF Acknowledge, Goto, Store!Acknowledge, processVars, historyVars, TypeOK
<1>7. ASSUME NEW m \in Managers, Fail(m) PROVE TypeOK'
    BY <1>7 DEF Fail, storeVars, processVars, historyVars, TypeOK
<1>8. ASSUME NEW m \in Managers, Restore(m) \/ Start(m) PROVE TypeOK'
    <2>1. PICK v \in 0 .. newest, what \in Mishaps \cup {"none"} :
            Fork(v, what) /\ UNCHANGED <<storeVars, content, pc>>
        BY <1>8 DEF Restore, Start, Mishaps, TypeOK
    <2>2. mishap' \in Mishaps \cup {"none"}
        BY <2>1, NoteType DEF Fork, Mishaps
    <2> QED
        BY <2>1, <2>2 DEF Fork, storeVars, TypeOK
<1>9. ASSUME NEW m \in Managers, LoseRegion(m) PROVE TypeOK'
    <2>1. mishap' \in Mishaps \cup {"none"}
        BY <1>9, NoteType DEF LoseRegion, Mishaps
    <2> QED
        BY <1>9, <2>1 DEF LoseRegion, storeVars, processVars, TypeOK
<1>10. CASE PowerLoss
    BY <1>10 DEF PowerLoss, Store!PowerLoss, historyVars, TypeOK
<1>11. CASE UNCHANGED vars
    BY <1>11 DEF vars, storeVars, historyVars, processVars, historyVars, TypeOK
<1> QED
    BY <1>1, <1>2, <1>3, <1>4, <1>5, <1>6, <1>7, <1>8, <1>9, <1>10, <1>11 DEF Next, ManagerStep

\* Every variable of the composition keeps its type, for any managers, bounds
\* and captures.
THEOREM TypeCorrect == Spec => []TypeOK
<1>1. Init => TypeOK
    BY InitTypes
<1>2. TypeOK /\ [Next]_vars => TypeOK'
    BY NextTypes
<1> QED
    BY <1>1, <1>2, PTL DEF Spec

(***************************************************************************)
(* As long as nothing has gone wrong, nothing acknowledged is lost.        *)
(***************************************************************************)

\* What has been captured has a state.
CapturesHaveState == \A v \in 1 .. newest : content[v] # Lost

\* Whatever a power loss may make current holds at least the best.
DiskKeeps ==
    best # Lost => acked # 0 /\ \A v \in acked .. newest : content[v] >= best

\* So does the process, or whatever capture it is about to be restored from.
ProcessKeeps ==
    /\ process = "running" => count >= best
    /\ process = "forked" /\ best # Lost => source # 0 /\ acked <= source

\* The process being captured does not fall behind the capture.
CaptureInProgress ==
    \A m \in Managers : pc[m] # "idle" =>
        /\ process # "forked"
        /\ newest # 0
        /\ process = "running" => count >= content[newest]
        /\ pc[m] = "active" => current = newest

\* The lock is held by one manager.
OneCapture == \A m, n \in Managers : pc[m] # "idle" /\ pc[n] # "idle" => m = n

Kept ==
    /\ acked <= current
    /\ CapturesHaveState /\ DiskKeeps /\ ProcessKeeps
    /\ CaptureInProgress /\ OneCapture

LEMMA NextKept ==
    ASSUME TypeOK, Kept, [Next]_vars, mishap' = "none"
    PROVE  Kept'
<1> USE RecoveryAssumption DEF Versions, Counts, Lost
<1>0. TypeOK /\ TypeOK'
    BY NextTypes
<1>1. CASE Bootstrap
    <2>1. /\ UNCHANGED <<current, acked, newest, content, pc, source, best>>
          /\ process = "forked"
        BY <1>1 DEF Bootstrap, storeVars
    <2>2. CapturesHaveState' /\ DiskKeeps' /\ OneCapture' /\ acked' <= current'
        BY <2>1 DEF Kept, CapturesHaveState, DiskKeeps, OneCapture
    <2>3. \A n \in Managers : pc[n] = "idle"
        BY <2>1 DEF Kept, CaptureInProgress
    <2>4. CASE source = 0
        <3>1. process' = "running" /\ count' = 0
            BY <1>1, <2>4 DEF Bootstrap, Runs
        <3>2. best = Lost
            BY <2>1, <2>4 DEF Kept, ProcessKeeps
        <3> QED
            BY <2>1, <2>2, <2>3, <3>1, <3>2 DEF Kept, ProcessKeeps, CaptureInProgress
    <2>5. CASE source # 0
        <3>1. \/ process' = "gone"
              \/ process' = "running" /\ \E v \in source .. newest : count' = content[v]
            BY <1>1, <2>5, NoMishap DEF Bootstrap, Runs, Crashes
        <3>2. best # Lost => \A v \in source .. newest : content[v] >= best
            BY <1>0, <2>1 DEF Kept, DiskKeeps, ProcessKeeps, TypeOK
        <3>3. \A v \in source .. newest : content[v] >= Lost
            BY <1>0, <2>5 DEF TypeOK
        <3>4. ProcessKeeps'
            BY <2>1, <3>1, <3>2, <3>3 DEF ProcessKeeps
        <3> QED
            BY <2>1, <2>2, <2>3, <3>4 DEF Kept, CaptureInProgress
    <2> QED
        BY <2>4, <2>5
<1>2. CASE Count
    BY <1>0, <1>2 DEF Count, storeVars, historyVars, TypeOK, Kept, CapturesHaveState, DiskKeeps,
                      ProcessKeeps, CaptureInProgress, OneCapture
<1>3. CASE Die
    BY <1>0, <1>3 DEF Die, storeVars, historyVars, TypeOK, Kept, CapturesHaveState, DiskKeeps,
                      ProcessKeeps, CaptureInProgress, OneCapture
<1>4. ASSUME NEW m \in Managers, Begin(m) PROVE Kept'
    <2>1. process = "running" /\ Captured = {count} /\ count # Lost
        BY <1>0, <1>4, NoMishap DEF Begin, Captured, TypeOK
    <2>2. /\ newest' = newest + 1 /\ newest' \in Versions
          /\ content' = [content EXCEPT ![newest'] = count]
          /\ UNCHANGED <<current, acked, process, source, count, best>>
        BY <1>0, <1>4, <2>1 DEF Begin, Store!Capture, processVars, TypeOK
    <2>3. /\ content'[newest'] = count
          /\ \A v \in 1 .. newest : content'[v] = content[v]
        BY <1>0, <2>2 DEF TypeOK
    <2>4. count >= best
        BY <2>1 DEF Kept, ProcessKeeps
    <2>5. CapturesHaveState' /\ DiskKeeps'
        BY <1>0, <2>1, <2>2, <2>3, <2>4 DEF Kept, CapturesHaveState, DiskKeeps, TypeOK
    <2>6. ProcessKeeps'
        BY <2>1, <2>2, <2>4 DEF ProcessKeeps
    <2>7. CaptureInProgress'
        BY <1>0, <1>4, <2>1, <2>2, <2>3 DEF CaptureInProgress, Begin, Goto, Unlocked, TypeOK
    <2>8. OneCapture'
        BY <1>0, <1>4 DEF OneCapture, Begin, Goto, Unlocked, TypeOK
    <2> QED
        BY <2>2, <2>5, <2>6, <2>7, <2>8 DEF Kept
<1>5. ASSUME NEW m \in Managers, Publish(m) PROVE Kept'
    BY <1>0, <1>5 DEF Publish, Goto, Store!Publish, processVars, historyVars, TypeOK, Kept,
                      CapturesHaveState, DiskKeeps, ProcessKeeps, CaptureInProgress, OneCapture
<1>6. ASSUME NEW m \in Managers, Acknowledge(m) PROVE Kept'
    <2>1. /\ acked' = current /\ current = newest /\ newest # 0
          /\ UNCHANGED <<current, newest, content, process, source, count>>
        BY <1>0, <1>6 DEF Acknowledge, Goto, Store!Acknowledge, processVars, Kept,
                          CaptureInProgress, OneCapture
    <2>2. best' = content[newest] /\ best' \in Counts
        BY <1>0, <1>6, <2>1 DEF Acknowledge, Kept, DiskKeeps, CapturesHaveState, TypeOK
    <2>3. process # "forked" /\ (process = "running" => count >= best')
        BY <1>6, <2>2 DEF Acknowledge, Goto, Kept, CaptureInProgress
    <2>4. CapturesHaveState' /\ DiskKeeps'
        BY <1>0, <2>1, <2>2 DEF Kept, CapturesHaveState, DiskKeeps, TypeOK
    <2>5. ProcessKeeps'
        BY <2>1, <2>3 DEF ProcessKeeps
    <2>6. CaptureInProgress'
        BY <1>0, <1>6, <2>1 DEF Acknowledge, Goto, Kept, CaptureInProgress, TypeOK
    <2>7. OneCapture'
        BY <1>0, <1>6 DEF Acknowledge, Goto, Kept, OneCapture, TypeOK
    <2> QED
        BY <1>0, <2>1, <2>4, <2>5, <2>6, <2>7 DEF Kept, TypeOK
<1>7. ASSUME NEW m \in Managers, Fail(m) PROVE Kept'
    BY <1>0, <1>7 DEF Fail, storeVars, processVars, historyVars, TypeOK, Kept, CapturesHaveState,
                      DiskKeeps, ProcessKeeps, CaptureInProgress, OneCapture
<1>8. ASSUME NEW m \in Managers, Restore(m) \/ Start(m) PROVE Kept'
    <2>1. PICK v \in 0 .. newest :
            /\ Fork(v, "none")
            /\ best # Lost => v # 0 /\ acked <= v
            /\ UNCHANGED <<current, acked, newest, content, pc>>
        <3>1. CASE Restore(m)
            <4>1. PICK v \in 1 .. newest : Fork(v, IF v < acked THEN "behind" ELSE "none")
                BY <3>1 DEF Restore
            <4>2. ~ (v < acked)
                BY <4>1, NoMishap DEF Fork, Unlocked
            <4> QED
                BY <1>0, <3>1, <4>1, <4>2 DEF Restore, storeVars, TypeOK
        <3>2. CASE Start(m)
            <4>1. Fork(0, IF best # Lost THEN "anew" ELSE "none")
                BY <3>2 DEF Start
            <4>2. best = Lost
                BY <4>1, NoMishap DEF Fork, Unlocked
            <4> QED
                BY <1>0, <3>2, <4>1, <4>2 DEF Start, storeVars, TypeOK
        <3> QED
            BY <1>8, <3>1, <3>2
    <2>2. /\ process' = "forked" /\ source' = v /\ best' = best
          /\ \A n \in Managers : pc[n] = "idle"
        BY <2>1, NoMishap DEF Fork, Unlocked
    <2> QED
        BY <1>0, <2>1, <2>2 DEF Kept, CapturesHaveState, DiskKeeps, ProcessKeeps, CaptureInProgress,
           OneCapture
<1>9. ASSUME NEW m \in Managers, LoseRegion(m) PROVE FALSE
    BY <1>9, NoMishap DEF LoseRegion
<1>10. CASE PowerLoss
    BY <1>0, <1>10 DEF PowerLoss, Store!PowerLoss, historyVars, TypeOK, Kept, CapturesHaveState,
                       DiskKeeps, ProcessKeeps, CaptureInProgress, OneCapture
<1>11. CASE UNCHANGED vars
    BY <1>11 DEF vars, storeVars, historyVars, processVars, Kept, CapturesHaveState, DiskKeeps,
                 ProcessKeeps, CaptureInProgress, OneCapture
<1> QED
    BY <1>1, <1>2, <1>3, <1>4, <1>5, <1>6, <1>7, <1>8, <1>9, <1>10, <1>11 DEF Next, ManagerStep

\* A mishap stays on record.
LEMMA MishapStays == ASSUME [Next]_vars, mishap' = "none" PROVE mishap = "none"
BY NoMishap DEF Next, ManagerStep, vars, historyVars, Bootstrap, Runs, Crashes, Count, Die, Begin,
   LoseRegion, Publish, Acknowledge, Fail, Restore, Start, Fork, PowerLoss

ProgressInv == TypeOK /\ (mishap = "none" => Kept)

\* Whatever dies, is restored, fails or loses power, neither the checkpoint
\* recovery would use nor the process that runs falls behind an acknowledged
\* checkpoint, unless one of the six mishaps has happened: they are all there
\* are, for any number of managers and captures.
THEOREM Progress == Spec => []ProgressKept
<1>1. Init => ProgressInv
    <2> SUFFICES ASSUME Init PROVE ProgressInv
        OBVIOUS
    <2>1. TypeOK
        BY InitTypes
    <2> QED
        BY <2>1 DEF Init, Store!Init, ProgressInv, Kept, CapturesHaveState, DiskKeeps, ProcessKeeps,
                    CaptureInProgress, OneCapture, Lost
<1>2. ProgressInv /\ [Next]_vars => ProgressInv'
    BY NextTypes, NextKept, MishapStays DEF ProgressInv
<1>3. ProgressInv => ProgressKept
    BY DEF ProgressInv, Kept, TypeOK, DiskKeeps, ProcessKeeps, ProgressKept
<1> QED
    BY <1>1, <1>2, <1>3, PTL DEF Spec

=============================================================================
