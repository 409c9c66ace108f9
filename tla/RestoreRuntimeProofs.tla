------------------------- MODULE RestoreRuntimeProofs -------------------------
(***************************************************************************)
(* For any number of descriptors and regions, any saved process and either *)
(* set of inherited descriptors: a bootstrap whose snapshot does not get   *)
(* the number of a file to open again restores descriptors and regions.    *)
(***************************************************************************)
EXTENDS RestoreRuntime, FiniteSetTheorems, WellFoundedInduction, TLAPS

USE DEF STDERR_FILENO

-----------------------------------------------------------------------------
(***************************************************************************)
(* Types.                                                                  *)
(***************************************************************************)

\* An inherited descriptor is the log, the monitor's timer or closed, the two
\* from 4 on are closed, and what may be open there is a value of Open.
LEMMA InheritedType ==
    ASSUME TypeOK
    PROVE  /\ inherited \in [Fds -> {Log, Timer, Closed}]
           /\ \A n \in Fds : n >= 4 => inherited[n] = Closed
<1>1. PICK byMonitor \in BOOLEAN :
        inherited = [n \in Fds |-> IF n = STDERR_FILENO THEN Log
                                  ELSE IF n = 3 /\ byMonitor THEN Timer ELSE Closed]
  BY DEF TypeOK, Inherited
<1>2. \A n \in Fds : n >= 4 => inherited[n] = Closed
  BY <1>1
<1> QED
  BY <1>1, <1>2

\* The descriptors of a saved process are values of Open at numbers of Fds.
LEMMA WorkloadType ==
    ASSUME TypeOK
    PROVE  /\ DOMAIN workload \subseteq Fds
           /\ Collected \subseteq Fds
           /\ \A n \in DOMAIN workload : workload[n] \in Open
           /\ \A n \in DOMAIN workload : n > STDERR_FILENO => workload[n] \in Descriptor
<1>1. PICK S \in SUBSET Fds : workload \in [S -> Descriptor \cup {Log}] /\ \A n \in S : workload[n] = Log <=> n = STDERR_FILENO
  BY DEF TypeOK, Workloads
<1>2. DOMAIN workload = S
  BY <1>1
<1>3. \A n \in S : workload[n] \in Descriptor \cup {Log}
  BY <1>1
<1>4. \A n \in S : n \in Int
  BY <1>1, RestoreAssumption DEF Fds
<1> QED
  BY <1>1, <1>2, <1>3, <1>4 DEF Open, Collected

\* What open and lseek give is what the saved process had.
LEMMA ReopenedIsSaved ==
    ASSUME TypeOK, NEW n \in Collected, ~Skipped(n)
    PROVE  Reopened(n) = workload[n] /\ workload[n] \in Open
<1>1. n \in DOMAIN workload /\ n \in Int
  BY WorkloadType, RestoreAssumption DEF Collected, Fds
<1>2. workload[n] \in Descriptor
  BY <1>1, WorkloadType DEF Skipped
<1> QED
  BY <1>2 DEF Reopened, Descriptor, Open

\* TypeOK holds in the first state.
LEMMA TypeInit ==
    ASSUME Init
    PROVE  TypeOK
<1>1. inherited \in [Fds -> Open]
  BY DEF Init, Inherited, Open
<1> QED
  BY <1>1 DEF Init, TypeOK

\* A step of the load and the descriptors keeps the types.
LEMMA TypeStepFds ==
    ASSUME TypeOK, Load \/ LoadFails \/ RestoreFd \/ FdsDone
    PROVE  TypeOK'
<1> USE DEF TypeOK, imageVars
<1>1. CASE Load
  <2>1. PICK fd \in Fds : table' = [table EXCEPT ![fd] = Snapshot] /\ snapshot_fd' = fd
    BY <1>1 DEF Load
  <2>2. table' \in [Fds -> Open]
    BY <2>1 DEF Open
  <2>3. Collected' = Collected
    BY <1>1 DEF Load, Collected
  <2> QED
    BY <1>1, <2>1, <2>2, <2>3 DEF Load
<1>2. CASE LoadFails
  BY <1>2 DEF LoadFails
<1>3. CASE RestoreFd
  <2>1. PICK n \in todo : /\ todo' = todo \ {n}
                          /\ \/ UNCHANGED table
                             \/ ~Skipped(n) /\ table' = MovedTo(n)
    BY <1>3 DEF RestoreFd
  <2>2. n \in Collected
    BY <1>3, <2>1 DEF RestoreFd
  <2>3. table' \in [Fds -> Open]
    BY <2>1, <2>2, ReopenedIsSaved DEF MovedTo
  <2>4. Collected' = Collected
    BY <1>3 DEF RestoreFd, Collected
  <2> QED
    BY <1>3, <2>1, <2>3, <2>4 DEF RestoreFd
<1>4. CASE FdsDone
  BY <1>4 DEF FdsDone
<1> QED
  BY <1>1, <1>2, <1>3, <1>4

\* A step of the regions and of main keeps the types.
LEMMA TypeStepRegions ==
    ASSUME TypeOK, SkipRegion \/ RestoreRegion \/ RegionFails \/ RegionsDone \/ Main
    PROVE  TypeOK'
<1> USE DEF TypeOK, imageVars
<1>0. Content \in {"saved", "foreign"} /\ Closed \in Open
  BY DEF Content, Open
<1>1. CASE SkipRegion
  BY <1>1 DEF SkipRegion
<1>2. CASE RestoreRegion
  BY <1>0, <1>2 DEF RestoreRegion
<1>3. CASE RegionFails
  BY <1>0, <1>3 DEF RegionFails, Return
<1>4. CASE RegionsDone
  BY <1>0, <1>4 DEF RegionsDone, Return
<1>5. CASE Main
  BY <1>5 DEF Main
<1> QED
  BY <1>1, <1>2, <1>3, <1>4, <1>5

\* Every variable keeps its type.
LEMMA TypeStep ==
    ASSUME TypeOK, [Next]_vars
    PROVE  TypeOK'
<1>1. CASE UNCHANGED vars
  BY <1>1 DEF TypeOK, vars, imageVars, Collected
<1> QED
  BY <1>1, TypeStepFds, TypeStepRegions DEF Next

\* Every variable of the restored process keeps its type, for any numbers of
\* descriptors and regions (the shapes runtime.c's loops depend on).
THEOREM TypeCorrect == Spec => []TypeOK
<1> QED
  BY TypeInit, TypeStep, PTL DEF Spec

-----------------------------------------------------------------------------
(***************************************************************************)
(* The invariant.                                                          *)
(***************************************************************************)

\* RestoreInv holds in the first state.
LEMMA RestoreInit ==
    ASSUME Init
    PROVE  RestoreInv
BY DEF Init, RestoreInv, LoadState, FdState, FdProgress, RegionProgress, NotReturned,
       DescriptorsRestored, RegionsRestored

\* The load opens the snapshot at a number that was closed.
LEMMA LoadStep ==
    ASSUME TypeOK, RestoreInv, Load
    PROVE  RestoreInv'
<1> USE DEF imageVars
<1>1. PICK fd \in Fds : /\ fd \in Free(table)
                       /\ snapshot_fd' = fd
                       /\ table' = [table EXCEPT ![fd] = Snapshot]
  BY DEF Load, Smallest
<1>2. /\ pc = "load" /\ pc' = "fds" /\ todo' = Collected /\ result' = result /\ memory' = memory
      /\ inherited' = inherited /\ Collected' = Collected
  BY DEF Load, Collected
<1>3. table = inherited /\ result = 0 /\ memory = [r \in Regions |-> "unmapped"]
  BY <1>2 DEF RestoreInv, LoadState, NotReturned
<1>4. inherited[fd] = Closed
  BY <1>1, <1>3 DEF Free
<1>5. \A n \in Fds : table'[n] = Target(n, todo)'
  <2> SUFFICES ASSUME NEW n \in Fds PROVE table'[n] = Target(n, todo)'
    OBVIOUS
  <2>1. CASE n = fd
    BY <2>1, <1>1, <1>3, TypeOK DEF Target, TypeOK
  <2>2. CASE n # fd
    <3>1. table'[n] = inherited[n]
      BY <2>2, <1>1, <1>3 DEF TypeOK
    <3>2. Target(n, todo)' = inherited'[n]
      BY <2>2, <1>1, <1>2 DEF Target
    <3> QED
      BY <3>1, <3>2, <1>2
  <2> QED
    BY <2>1, <2>2
<1>6. FdProgress'
  BY <1>2, <1>5 DEF FdProgress
<1>7. LoadState' /\ FdState' /\ RegionProgress' /\ NotReturned' /\ DescriptorsRestored' /\ RegionsRestored'
  BY <1>1, <1>2, <1>3, <1>4 DEF LoadState, FdState, RegionProgress, NotReturned, DescriptorsRestored, RegionsRestored
<1> QED
  BY <1>6, <1>7 DEF RestoreInv

\* A load that fails leaves the descriptors as they were.
LEMMA LoadFailsStep ==
    ASSUME TypeOK, RestoreInv, LoadFails
    PROVE  RestoreInv'
<1> USE DEF imageVars
<1>1. pc = "load" /\ pc' = "main" /\ result' = -1 /\ snapshot_fd' = -1 /\ table' = inherited /\ inherited' = inherited
  BY DEF LoadFails, RestoreInv, LoadState
<1>2. inherited = [n \in Fds |-> inherited[n]]
  BY InheritedType
<1> QED
  BY <1>1, <1>2 DEF RestoreInv, LoadState, FdState, FdProgress, RegionProgress, NotReturned,
       DescriptorsRestored, RegionsRestored

\* The number of an entry to open again is free, or is the monitor's timer and
\* another one is free: open does not fail for want of a number.
LEMMA FreeForEntry ==
    ASSUME TypeOK, RestoreInv, pc = "fds", ~Clash,
           NEW n \in todo, Smallest(n, todo), ~Skipped(n)
    PROVE  Free(table) # {}
<1>1. /\ n \in Collected /\ n \in Fds /\ n > 2 /\ Collected \subseteq Int
      /\ 4 \in Fds /\ 5 \in Fds
  BY WorkloadType, RestoreAssumption DEF TypeOK, Skipped, Fds
<1>2. /\ snapshot_fd # n /\ snapshot_fd \in Fds /\ inherited[snapshot_fd] = Closed
  BY <1>1 DEF Clash, RestoreInv, FdState
<1>3. \A m \in Fds : m >= n /\ m # snapshot_fd => table[m] = inherited[m]
  <2> SUFFICES ASSUME NEW m \in Fds, m >= n, m # snapshot_fd PROVE table[m] = inherited[m]
    OBVIOUS
  <2>1. m \notin Collected \ todo
    <3>1. SUFFICES ASSUME m \in Collected \ todo PROVE FALSE
      OBVIOUS
    <3>2. m < n
      BY <3>1 DEF RestoreInv, FdProgress
    <3> QED
      BY <3>2, <1>1, <3>1
  <2> QED
    BY <2>1 DEF RestoreInv, FdProgress, Target
<1>4. CASE n >= 4
  <2>1. table[n] = Closed
    BY <1>1, <1>2, <1>3, <1>4, InheritedType
  <2> QED
    BY <1>1, <2>1 DEF Free
<1>5. CASE ~(n >= 4)
  <2>1. n = 3
    BY <1>1, <1>5 DEF Fds
  <2>2. \A m \in {4, 5} : m # snapshot_fd => table[m] = Closed
    BY <1>1, <1>3, <2>1, InheritedType
  <2> QED
    BY <1>1, <2>2 DEF Free
<1> QED
  BY <1>4, <1>5

\* An entry is opened at its number, or left as it was.
LEMMA RestoreFdStep ==
    ASSUME TypeOK, RestoreInv, RestoreFd
    PROVE  RestoreInv'
<1> USE DEF imageVars
<1>1. PICK n \in todo : /\ Smallest(n, todo)
                       /\ todo' = todo \ {n}
                       /\ \/ (Skipped(n) \/ Free(table) = {}) /\ UNCHANGED table
                          \/ ~Skipped(n) /\ Free(table) # {} /\ table' = MovedTo(n)
  BY DEF RestoreFd
<1>2. /\ pc = "fds" /\ pc' = pc /\ snapshot_fd' = snapshot_fd /\ inherited' = inherited
      /\ result' = result /\ memory' = memory /\ workload' = workload /\ missing' = missing
      /\ managed' = managed /\ included' = included
  BY DEF RestoreFd
<1>3. /\ Collected' = Collected
      /\ \A m : Skipped(m)' = Skipped(m)
      /\ \A m \in Fds : Target(m, todo)' = IF m = snapshot_fd THEN Snapshot
              ELSE IF m \in Collected \ todo' /\ ~Skipped(m) THEN workload[m] ELSE inherited[m]
  BY <1>2 DEF Collected, Skipped, Supported, Target
<1>4. todo \in SUBSET Collected /\ Collected \subseteq Fds /\ Collected \subseteq Int /\ n \in Collected
  BY <1>2, WorkloadType, RestoreAssumption DEF TypeOK, Fds
<1>5. \A m \in Collected \ todo', k \in todo' : m < k
  <2> SUFFICES ASSUME NEW m \in Collected \ todo', NEW k \in todo' PROVE m < k
    OBVIOUS
  <2>1. CASE m = n
    BY <2>1, <1>1, <1>4 DEF Smallest
  <2>2. CASE m # n
    BY <2>2, <1>1, <1>2 DEF RestoreInv, FdProgress
  <2> QED
    BY <2>1, <2>2
<1>6. ASSUME ~Clash, NEW m \in Fds
      PROVE  table'[m] = Target(m, todo)'
  <2>1. table[m] = Target(m, todo)
    BY <1>2, <1>6 DEF RestoreInv, FdProgress
  <2>2. CASE m # n
    <3>1. table'[m] = table[m]
      BY <2>2, <1>1, <1>6 DEF MovedTo, TypeOK
    <3> QED
      BY <2>1, <2>2, <3>1, <1>1, <1>3 DEF Target
  <2>3. CASE m = n /\ Skipped(n)
    BY <2>1, <2>3, <1>1, <1>3 DEF Target
  <2>4. CASE m = n /\ ~Skipped(n)
    <3>1. Free(table) # {}
      BY <1>1, <1>2, <1>6, <2>4, FreeForEntry
    <3>2. table' = MovedTo(n)
      BY <1>1, <3>1, <2>4
    <3>3. table'[n] = workload[n]
      BY <3>2, <1>4, <2>4, ReopenedIsSaved DEF MovedTo, TypeOK
    <3>4. n # snapshot_fd
      BY <1>4, <1>6, <2>4 DEF Clash
    <3> QED
      BY <3>3, <3>4, <1>1, <1>3, <1>4, <2>4
  <2> QED
    BY <2>2, <2>3, <2>4
<1>7. Clash' = Clash
  BY <1>2, <1>3 DEF Clash
<1>8. FdProgress'
  BY <1>2, <1>5, <1>6, <1>7, <1>3 DEF FdProgress
<1>9. LoadState' /\ FdState' /\ RegionProgress' /\ NotReturned' /\ DescriptorsRestored' /\ RegionsRestored'
  BY <1>2 DEF RestoreInv, LoadState, FdState, RegionProgress, NotReturned, DescriptorsRestored, RegionsRestored
<1> QED
  BY <1>8, <1>9 DEF RestoreInv

\* When no entry is left every descriptor is what it will be, and no region is
\* mapped.
LEMMA FdsDoneStep ==
    ASSUME TypeOK, RestoreInv, FdsDone
    PROVE  RestoreInv'
<1> USE DEF imageVars
<1>1. /\ pc = "fds" /\ pc' = "regions" /\ todo = {} /\ todo' = Regions
      /\ UNCHANGED <<imageVars, inherited, table, snapshot_fd, memory, result>>
  BY DEF FdsDone
<1>2. /\ Clash' = Clash /\ Rebuilt' = Rebuilt
      /\ \A n \in Fds : Target(n, {})' = Target(n, {})
  BY <1>1 DEF Clash, Collected, Skipped, Supported, Rebuilt, Target
<1>3. Rebuilt \ Regions = {}
  BY DEF Rebuilt, TypeOK
<1>4. RegionProgress'
  <2> SUFFICES ASSUME ~Clash
               PROVE  /\ \A n \in Fds : table'[n] = Target(n, {})'
                      /\ \A r \in Regions : memory'[r] = IF r \in Rebuilt' \ todo' THEN "saved" ELSE "unmapped"
    BY <1>2 DEF RegionProgress
  <2>1. \A n \in Fds : table[n] = Target(n, {})
    BY <1>1 DEF RestoreInv, FdProgress
  <2>2. memory = [r \in Regions |-> "unmapped"]
    BY <1>1 DEF RestoreInv, NotReturned
  <2> QED
    BY <2>1, <2>2, <1>1, <1>2, <1>3
<1>5. LoadState' /\ FdState' /\ FdProgress' /\ NotReturned' /\ DescriptorsRestored' /\ RegionsRestored'
  BY <1>1 DEF RestoreInv, LoadState, FdState, FdProgress, NotReturned, DescriptorsRestored, RegionsRestored
<1> QED
  BY <1>4, <1>5 DEF RestoreInv

\* A region's bytes come from the snapshot, or it is left unmapped.
LEMMA RegionStep ==
    ASSUME TypeOK, RestoreInv, SkipRegion \/ RestoreRegion
    PROVE  RestoreInv'
<1> USE DEF imageVars
<1>1. /\ pc = "regions" /\ pc' = pc
      /\ UNCHANGED <<imageVars, inherited, table, snapshot_fd, result>>
  BY DEF SkipRegion, RestoreRegion
<1>2. /\ Clash' = Clash /\ Rebuilt' = Rebuilt
      /\ \A n \in Fds : Target(n, {})' = Target(n, {})
  BY <1>1 DEF Clash, Collected, Skipped, Supported, Rebuilt, Target
<1>3. ASSUME ~Clash, NEW r \in Regions
      PROVE  memory'[r] = IF r \in Rebuilt \ todo' THEN "saved" ELSE "unmapped"
  <2>1. memory[r] = IF r \in Rebuilt \ todo THEN "saved" ELSE "unmapped"
    BY <1>1, <1>3 DEF RestoreInv, RegionProgress
  <2>2. CASE SkipRegion
    <3>1. PICK k \in todo \ Rebuilt : todo' = todo \ {k} /\ memory' = memory
      BY <2>2 DEF SkipRegion
    <3> QED
      BY <2>1, <3>1
  <2>3. CASE RestoreRegion
    <3>1. PICK k \in todo \cap Rebuilt :
            memory' = [memory EXCEPT ![k] = Content] /\ todo' = todo \ {k}
      BY <2>3 DEF RestoreRegion
    <3>2. table[snapshot_fd] = Snapshot
      BY <1>1, <1>3 DEF RestoreInv, RegionProgress, FdState, Target
    <3>3. Content = "saved"
      BY <3>2 DEF Content
    <3> QED
      BY <2>1, <3>1, <3>3 DEF TypeOK
  <2> QED
    BY <2>2, <2>3
<1>4. RegionProgress'
  <2>1. ~Clash => \A n \in Fds : table[n] = Target(n, {})
    BY <1>1 DEF RestoreInv, RegionProgress
  <2> QED
    BY <2>1, <1>1, <1>2, <1>3 DEF RegionProgress
<1>5. LoadState' /\ FdState' /\ FdProgress' /\ NotReturned' /\ DescriptorsRestored' /\ RegionsRestored'
  BY <1>1 DEF RestoreInv, LoadState, FdState, FdProgress, NotReturned, DescriptorsRestored, RegionsRestored
<1> QED
  BY <1>4, <1>5 DEF RestoreInv

\* The return closes the snapshot and nothing else.
LEMMA ReturnStep ==
    ASSUME TypeOK, RestoreInv, RegionFails \/ RegionsDone
    PROVE  RestoreInv'
<1> USE DEF imageVars
<1>1. /\ pc = "regions" /\ pc' = "main"
      /\ table' = [table EXCEPT ![snapshot_fd] = Closed]
      /\ UNCHANGED <<imageVars, inherited, snapshot_fd>>
      /\ result' = -1 \/ (result' = 1 /\ todo = {} /\ memory' = memory)
  BY DEF RegionFails, RegionsDone, Return
<1>2. /\ Clash' = Clash /\ Collected' = Collected
      /\ \A n : Skipped(n)' = Skipped(n)
  BY <1>1 DEF Clash, Collected, Skipped, Supported
<1>3. snapshot_fd \in Fds /\ inherited[snapshot_fd] = Closed /\ snapshot_fd # -1
  BY <1>1, RestoreAssumption DEF RestoreInv, FdState, Fds
<1>4. ASSUME ~Clash, NEW n \in Fds
      PROVE  table'[n] = IF n \in Collected /\ ~Skipped(n) THEN workload[n] ELSE inherited[n]
  <2>1. table[n] = Target(n, {})
    BY <1>1, <1>4 DEF RestoreInv, RegionProgress
  <2>2. CASE n = snapshot_fd
    BY <2>2, <1>1, <1>3, <1>4 DEF Clash, TypeOK
  <2>3. CASE n # snapshot_fd
    BY <2>1, <2>3, <1>1 DEF Target, TypeOK
  <2> QED
    BY <2>2, <2>3
<1>5. DescriptorsRestored'
  <2> SUFFICES ASSUME ~Clash
               PROVE  table' = [n \in Fds |-> IF n \in Collected /\ ~Skipped(n)
                                             THEN workload[n] ELSE inherited[n]]
    BY <1>1, <1>2, <1>3 DEF DescriptorsRestored
  <2>1. table' = [n \in Fds |-> table'[n]]
    BY <1>1 DEF TypeOK
  <2> QED
    BY <2>1, <1>4
<1>6. RegionsRestored'
  <2> SUFFICES ASSUME ~Clash, result' = 1
               PROVE  memory' = [r \in Regions |-> IF r \in managed \cap included THEN "saved" ELSE "unmapped"]
    BY <1>1, <1>2 DEF RegionsRestored
  <2>1. \A r \in Regions : memory'[r] = IF r \in managed \cap included THEN "saved" ELSE "unmapped"
    BY <1>1 DEF RestoreInv, RegionProgress, Rebuilt
  <2>2. memory' = [r \in Regions |-> memory'[r]]
    BY <1>1 DEF TypeOK
  <2> QED
    BY <2>1, <2>2
<1>7. LoadState' /\ FdState' /\ FdProgress' /\ RegionProgress' /\ NotReturned'
  BY <1>1 DEF LoadState, FdState, FdProgress, RegionProgress, NotReturned
<1> QED
  BY <1>5, <1>6, <1>7 DEF RestoreInv

\* What follows the return changes nothing the invariant is about.
LEMMA MainStep ==
    ASSUME RestoreInv, Main
    PROVE  RestoreInv'
<1> USE DEF imageVars
<1>1. /\ pc = "main" /\ pc' \in {"loop", "dead"}
      /\ UNCHANGED <<imageVars, inherited, table, snapshot_fd, todo, memory, result>>
  BY DEF Main
<1>2. /\ Clash' = Clash /\ Collected' = Collected
      /\ \A n : Skipped(n)' = Skipped(n)
  BY <1>1 DEF Clash, Collected, Skipped, Supported
<1> QED
  BY <1>1, <1>2 DEF RestoreInv, LoadState, FdState, FdProgress, RegionProgress, NotReturned,
       DescriptorsRestored, RegionsRestored

\* Every step keeps RestoreInv.
LEMMA RestoreStep ==
    ASSUME TypeOK, RestoreInv, [Next]_vars
    PROVE  RestoreInv'
<1>1. CASE UNCHANGED vars
  BY <1>1 DEF vars, imageVars, RestoreInv, LoadState, FdState, FdProgress, RegionProgress, NotReturned,
       DescriptorsRestored, RegionsRestored, Clash, Collected, Skipped, Supported, Rebuilt, Target
<1> QED
  BY <1>1, LoadStep, LoadFailsStep, RestoreFdStep, FdsDoneStep, RegionStep, ReturnStep, MainStep DEF Next

\* The invariant of the bootstrap (runtime.c, restore_supported_fds to the
\* return): the snapshot stays readable and the entries are done in order.
THEOREM RestoreCorrect == Spec => []RestoreInv
<1> QED
  BY TypeInit, TypeStep, RestoreInit, RestoreStep, PTL DEF Spec

\* Every file of the saved process that can be opened is back at its number and
\* position, the standard descriptors are untouched and the snapshot's number
\* is free again (runtime.c, restore_supported_fds).
THEOREM Descriptors == Spec => []DescriptorsRestored
<1>1. RestoreInv => DescriptorsRestored
  BY DEF RestoreInv
<1> QED
  BY <1>1, RestoreCorrect, PTL

\* A bootstrap that returns 1 rebuilt each managed region of the snapshot from
\* it and no other (runtime.c, restore_managed_regions).
THEOREM ManagedRegions == Spec => []RegionsRestored
<1>1. RestoreInv => RegionsRestored
  BY DEF RestoreInv
<1> QED
  BY <1>1, RestoreCorrect, PTL

-----------------------------------------------------------------------------
(***************************************************************************)
(* When a clash happens, and what it does.                                 *)
(***************************************************************************)

\* The snapshot gets the first number exec has left closed.
SpareNumber == snapshot_fd # -1 => snapshot_fd = IF inherited[3] = Closed THEN 3 ELSE 4

\* Until its entry is done nothing at or above the snapshot's number has
\* changed; from then on the number denotes the file of the saved process.
FdsClash ==
    (Clash /\ pc = "fds") =>
        IF snapshot_fd \in todo THEN \A m \in Fds : m > snapshot_fd => table[m] = inherited[m]
        ELSE table[snapshot_fd] = workload[snapshot_fd]

\* The number still denotes that file while the regions are filled.
RegionsClash ==
    (Clash /\ pc = "regions") =>
        /\ table[snapshot_fd] = workload[snapshot_fd]
        /\ \A r \in Rebuilt \ todo : memory[r] = "foreign"

\* With a clash no region has the bytes of the snapshot, and a bootstrap that
\* returns 1 has filled each one it rebuilt with those of another file.
NothingSaved ==
    Clash => /\ \A r \in Regions : memory[r] # "saved"
             /\ result = 1 => \A r \in Rebuilt : memory[r] = "foreign"

ClashInv == SpareNumber /\ FdsClash /\ RegionsClash /\ NothingSaved

\* The standard descriptors are open, so the lowest free number is 3 or 4.
LEMMA LowestFree ==
    ASSUME TypeOK, NEW fd, Smallest(fd, Free(inherited))
    PROVE  fd = IF inherited[3] = Closed THEN 3 ELSE 4
<1>1. /\ Fds \subseteq Int /\ 3 \in Fds /\ 4 \in Fds /\ 2 \in Fds
      /\ \A n \in Fds : n = 2 \/ n = 3 \/ n >= 4
  BY RestoreAssumption DEF Fds
<1>2. inherited[2] # Closed /\ inherited[4] = Closed
  <2>1. inherited[2] = Log
    BY <1>1 DEF TypeOK, Inherited
  <2>2. Log # Closed
    BY DEF Log, Closed
  <2> QED
    BY <1>1, <2>1, <2>2, InheritedType
<1>3. fd \in Fds /\ inherited[fd] = Closed /\ \A m \in Fds : inherited[m] = Closed => fd <= m
  BY DEF Smallest, Free
<1> QED
  BY <1>1, <1>2, <1>3

\* The number the snapshot got stays its number.
LEMMA SpareStep ==
    ASSUME TypeOK, RestoreInv, SpareNumber, [Next]_vars
    PROVE  SpareNumber'
<1> USE DEF imageVars
<1>1. CASE Load
  <2>1. PICK fd \in Fds : Smallest(fd, Free(table)) /\ snapshot_fd' = fd
    BY <1>1 DEF Load
  <2>2. table = inherited /\ inherited' = inherited
    BY <1>1 DEF Load, RestoreInv, LoadState
  <2> QED
    BY <2>1, <2>2, LowestFree DEF SpareNumber
<1>2. CASE \/ LoadFails \/ RestoreFd \/ FdsDone \/ SkipRegion \/ RestoreRegion \/ RegionFails
           \/ RegionsDone \/ Main \/ UNCHANGED vars
  <2>1. UNCHANGED <<snapshot_fd, inherited>>
    BY <1>2 DEF LoadFails, RestoreFd, FdsDone, SkipRegion, RestoreRegion, RegionFails, RegionsDone, Main, vars
  <2> QED
    BY <2>1 DEF SpareNumber
<1> QED
  BY <1>1, <1>2 DEF Next

\* What a file of the saved process reads is not the snapshot.
LEMMA SavedIsForeign ==
    ASSUME TypeOK, Clash, table[snapshot_fd] = workload[snapshot_fd]
    PROVE  Content = "foreign"
<1>1. snapshot_fd \in DOMAIN workload /\ snapshot_fd > STDERR_FILENO
  BY WorkloadType, RestoreAssumption DEF Clash, Collected, Skipped, Fds
<1>2. workload[snapshot_fd] \in Descriptor
  BY <1>1, WorkloadType
<1>3. workload[snapshot_fd].file \in Paths \cup Unnamed
  BY <1>2 DEF Descriptor
<1>4. Snapshot.file = "snapshot"
  BY DEF Snapshot
<1>5. workload[snapshot_fd] # Snapshot
  BY <1>3, <1>4, RestoreAssumption
<1> QED
  BY <1>5 DEF Content

\* A step that changes neither the saved process nor the snapshot's number
\* changes nothing about a clash.
LEMMA ClashFrame ==
    ASSUME UNCHANGED <<imageVars, snapshot_fd>>
    PROVE  Clash' = Clash /\ Collected' = Collected /\ Rebuilt' = Rebuilt
BY DEF imageVars, Clash, Collected, Skipped, Supported, Rebuilt

\* Loading makes a clash possible: the entry of the number is still to do.
LEMMA ClashLoad ==
    ASSUME TypeOK, RestoreInv, Load
    PROVE  (FdsClash /\ RegionsClash /\ NothingSaved)'
<1> USE DEF imageVars
<1>1. PICK fd \in Fds : snapshot_fd' = fd /\ table' = [table EXCEPT ![fd] = Snapshot]
  BY DEF Load
<1>2. /\ table = inherited /\ result = 0 /\ memory = [r \in Regions |-> "unmapped"]
      /\ pc' = "fds" /\ todo' = Collected /\ UNCHANGED <<inherited, memory, result, workload>>
      /\ Collected' = Collected
  BY DEF Load, RestoreInv, LoadState, NotReturned, Collected
<1>3. Clash' => snapshot_fd' \in todo'
  BY <1>2 DEF Clash
<1>4. \A m \in Fds : m > fd => table'[m] = inherited[m]
  BY <1>1, <1>2, RestoreAssumption DEF TypeOK, Fds
<1> QED
  BY <1>1, <1>2, <1>3, <1>4 DEF FdsClash, RegionsClash, NothingSaved

\* The turn for the snapshot's own number finds a free number above it, opens
\* the file there and moves it over the snapshot; no later turn undoes that.
LEMMA ClashRestoreFd ==
    ASSUME TypeOK, TypeOK', RestoreInv, SpareNumber, FdsClash, RegionsClash, NothingSaved, RestoreFd
    PROVE  (FdsClash /\ RegionsClash /\ NothingSaved)'
<1> USE DEF imageVars
<1>1. PICK n \in todo : /\ Smallest(n, todo)
                       /\ todo' = todo \ {n}
                       /\ \/ (Skipped(n) \/ Free(table) = {}) /\ UNCHANGED table
                          \/ ~Skipped(n) /\ Free(table) # {} /\ table' = MovedTo(n)
  BY DEF RestoreFd
<1>2. /\ pc = "fds" /\ pc' = "fds"
      /\ UNCHANGED <<imageVars, inherited, snapshot_fd, memory, result>>
  BY DEF RestoreFd
<1>3. Clash' = Clash /\ Rebuilt' = Rebuilt
  BY <1>2, ClashFrame
<1>4. todo \subseteq Collected /\ Collected \subseteq Fds /\ Fds \subseteq Int
  BY <1>2, WorkloadType, RestoreAssumption DEF TypeOK, Fds
<1>5. \A m \in Fds : m # n => table'[m] = table[m]
  BY <1>1 DEF MovedTo, TypeOK
<1>6. ASSUME Clash
      PROVE  IF snapshot_fd \in todo' THEN \A m \in Fds : m > snapshot_fd => table'[m] = inherited[m]
             ELSE table'[snapshot_fd] = workload[snapshot_fd]
  <2>1. snapshot_fd \in Collected /\ ~Skipped(snapshot_fd) /\ snapshot_fd \in Fds
    BY <1>4, <1>6 DEF Clash
  <2>2. CASE snapshot_fd \notin todo
    BY <1>1, <1>2, <1>5, <1>6, <2>1, <2>2 DEF FdsClash
  <2>3. CASE snapshot_fd \in todo /\ snapshot_fd # n
    <3>1. n < snapshot_fd
      BY <1>1, <1>4, <2>3 DEF Smallest
    <3>2. \A m \in Fds : m > snapshot_fd => m # n
      <4>1. n \in Int /\ snapshot_fd \in Int
        BY <1>4, <2>1
      <4>2. \A m \in Int : m > snapshot_fd => m # n
        BY <3>1, <4>1
      <4> QED
        BY <1>4, <4>2
    <3> QED
      BY <1>1, <1>2, <1>5, <1>6, <2>3, <3>2 DEF FdsClash
  <2>4. CASE snapshot_fd \in todo /\ snapshot_fd = n
    <3>1. snapshot_fd \in {3, 4}
      BY <2>1, RestoreAssumption DEF SpareNumber, Fds
    <3>2. 5 \in Fds /\ 5 > snapshot_fd
      BY <3>1, RestoreAssumption DEF Fds
    <3>3. table[5] = Closed
      BY <1>2, <1>6, <2>4, <3>2, InheritedType DEF FdsClash
    <3>4. table' = MovedTo(n)
      BY <1>1, <2>1, <2>4, <3>2, <3>3 DEF Free
    <3>5. table'[n] = workload[n]
      BY <2>1, <2>4, <3>4, ReopenedIsSaved DEF MovedTo, TypeOK
    <3> QED
      BY <1>1, <2>4, <3>5
  <2> QED
    BY <2>2, <2>3, <2>4
<1> QED
  BY <1>2, <1>3, <1>6 DEF FdsClash, RegionsClash, NothingSaved

\* The regions are filled from what the number denotes by then.
LEMMA ClashRegions ==
    ASSUME TypeOK, TypeOK', RestoreInv, FdsClash, RegionsClash, NothingSaved,
           FdsDone \/ SkipRegion \/ RestoreRegion \/ RegionFails \/ RegionsDone
    PROVE  (FdsClash /\ RegionsClash /\ NothingSaved)'
<1> USE DEF imageVars
<1>1. UNCHANGED <<imageVars, snapshot_fd>>
  BY DEF FdsDone, SkipRegion, RestoreRegion, RegionFails, RegionsDone
<1>2. Clash' = Clash /\ Rebuilt' = Rebuilt /\ Rebuilt \subseteq Regions
  BY <1>1, ClashFrame DEF Rebuilt, TypeOK
<1>3. ASSUME ~Clash PROVE (FdsClash /\ RegionsClash /\ NothingSaved)'
  BY <1>2, <1>3 DEF FdsClash, RegionsClash, NothingSaved
<1>4. ASSUME Clash, pc = "regions" PROVE Content = "foreign"
  BY <1>4, SavedIsForeign DEF RegionsClash
<1>5. ASSUME Clash, FdsDone PROVE (FdsClash /\ RegionsClash /\ NothingSaved)'
  BY <1>1, <1>2, <1>5 DEF FdsDone, FdsClash, RegionsClash, NothingSaved
<1>6. ASSUME Clash, SkipRegion PROVE (FdsClash /\ RegionsClash /\ NothingSaved)'
  <2>1. PICK r \in todo \ Rebuilt : todo' = todo \ {r}
    BY <1>6 DEF SkipRegion
  <2> QED
    BY <1>1, <1>2, <1>6, <2>1 DEF SkipRegion, FdsClash, RegionsClash, NothingSaved
<1>7. ASSUME Clash, RestoreRegion PROVE (FdsClash /\ RegionsClash /\ NothingSaved)'
  <2>1. PICK r \in todo \cap Rebuilt : memory' = [memory EXCEPT ![r] = Content] /\ todo' = todo \ {r}
    BY <1>7 DEF RestoreRegion
  <2>2. Content = "foreign"
    BY <1>4, <1>7 DEF RestoreRegion
  <2>3. \A q \in Regions : memory'[q] = IF q = r THEN "foreign" ELSE memory[q]
    BY <2>1, <2>2 DEF TypeOK
  <2> QED
    BY <1>1, <1>2, <1>7, <2>1, <2>3 DEF RestoreRegion, FdsClash, RegionsClash, NothingSaved, RestoreInv, NotReturned
<1>8. ASSUME Clash, RegionFails PROVE (FdsClash /\ RegionsClash /\ NothingSaved)'
  <2>1. PICK r \in todo \cap Rebuilt, bytes \in {"unmapped", "zero", Content} :
          memory' = [memory EXCEPT ![r] = bytes]
    BY <1>8 DEF RegionFails
  <2>2. bytes # "saved"
    BY <1>4, <1>8, <2>1 DEF RegionFails
  <2>3. \A q \in Regions : memory'[q] \in {bytes, memory[q]}
    BY <2>1 DEF TypeOK
  <2> QED
    BY <1>1, <1>2, <1>8, <2>2, <2>3 DEF RegionFails, Return, FdsClash, RegionsClash, NothingSaved
<1>9. ASSUME Clash, RegionsDone PROVE (FdsClash /\ RegionsClash /\ NothingSaved)'
  BY <1>1, <1>2, <1>9 DEF RegionsDone, Return, FdsClash, RegionsClash, NothingSaved
<1> QED
  BY <1>3, <1>5, <1>6, <1>7, <1>8, <1>9

\* Every step keeps the four facts.
LEMMA ClashStep ==
    ASSUME TypeOK, TypeOK', RestoreInv, ClashInv, [Next]_vars
    PROVE  ClashInv'
<1> USE DEF ClashInv, imageVars
<1>1. SpareNumber'
  BY SpareStep
<1>2. CASE LoadFails
  <2>1. snapshot_fd = -1 /\ UNCHANGED <<imageVars, snapshot_fd>>
    BY <1>2 DEF LoadFails, RestoreInv, LoadState
  <2>2. -1 \notin Fds
    BY RestoreAssumption DEF Fds
  <2>3. ~Clash
    BY <2>1, <2>2, WorkloadType DEF Clash
  <2>4. ~Clash'
    BY <2>1, <2>3, ClashFrame
  <2> QED
    BY <1>1, <2>4 DEF FdsClash, RegionsClash, NothingSaved
<1>3. CASE Main \/ UNCHANGED vars
  <2>1. UNCHANGED <<imageVars, snapshot_fd, table, inherited, memory, result, todo>>
    BY <1>3 DEF Main, vars
  <2>2. Clash' = Clash /\ Rebuilt' = Rebuilt
    BY <2>1, ClashFrame
  <2>3. pc' = pc \/ pc' \notin {"fds", "regions"}
    BY <1>3 DEF Main, vars
  <2> QED
    BY <1>1, <2>1, <2>2, <2>3 DEF FdsClash, RegionsClash, NothingSaved
<1> QED
  BY <1>1, <1>2, <1>3, ClashLoad, ClashRestoreFd, ClashRegions DEF Next

\* A saved process with no file to open again under 3 or 4 never clashes, so
\* for it the two theorems above hold without a condition.
THEOREM ClashOnlyAtSpare ==
    Spec => []((\A n \in Collected : n \in {3, 4} => Skipped(n)) => ~Clash)
<1>1. Init => SpareNumber
  BY DEF Init, SpareNumber
<1>2. TypeOK /\ RestoreInv /\ SpareNumber /\ [Next]_vars => SpareNumber'
  BY SpareStep
<1>3. TypeOK /\ SpareNumber => ((\A n \in Collected : n \in {3, 4} => Skipped(n)) => ~Clash)
  <2> SUFFICES ASSUME TypeOK, SpareNumber, \A n \in Collected : n \in {3, 4} => Skipped(n), Clash
               PROVE  FALSE
    OBVIOUS
  <2>1. snapshot_fd # -1
    BY WorkloadType, RestoreAssumption DEF Clash, Fds
  <2> QED
    BY <2>1 DEF SpareNumber, Clash
<1> QED
  BY <1>1, <1>2, <1>3, TypeCorrect, RestoreCorrect, PTL DEF Spec

\* With a clash nothing comes from the snapshot, whatever the descriptors and
\* regions: a bootstrap that returns 1 has filled every region it rebuilt with
\* the bytes of another file of the workload.
THEOREM ClashIsTotal == Spec => []NothingSaved
<1>1. Init => ClashInv
  BY DEF Init, ClashInv, SpareNumber, FdsClash, RegionsClash, NothingSaved
<1>2. TypeOK /\ RestoreInv /\ ClashInv /\ [Next]_vars => ClashInv'
  BY TypeStep, ClashStep
<1>3. ClashInv => NothingSaved
  BY DEF ClashInv
<1> QED
  BY <1>1, <1>2, <1>3, TypeCorrect, RestoreCorrect, PTL DEF Spec

-----------------------------------------------------------------------------
(***************************************************************************)
(* The bootstrap ends.                                                     *)
(***************************************************************************)

\* A finite set of numbers has a least one: of the sets of those below one of
\* them, one is minimal.
LEMMA Least ==
    ASSUME NEW S, S \subseteq Int, IsFiniteSet(S), S # {}
    PROVE  \E n \in S : Smallest(n, S)
<1> DEFINE Below == {{m \in S : m < n} : n \in S}
<1>1. Below \subseteq FiniteSubsetsOf(S) /\ Below # {}
  <2>1. \A L \in SUBSET S : L \in FiniteSubsetsOf(S)
    BY FS_Subset DEF FiniteSubsetsOf
  <2>2. \A n \in S : {m \in S : m < n} \in SUBSET S
    OBVIOUS
  <2> QED
    BY <2>1, <2>2
<1>2. PICK B \in Below : \A C \in Below : <<C, B>> \notin StrictSubsetOrdering(S)
  BY <1>1, FS_StrictSubsetOrderingWellFounded, WFMin
<1>3. PICK n \in S : B = {m \in S : m < n}
  BY <1>2
<1>4. ASSUME NEW m \in S, m < n PROVE FALSE
  <2> DEFINE C == {k \in S : k < m}
  <2>1. C \in Below
    OBVIOUS
  <2>2. C \subseteq B /\ m \in B /\ m \notin C
    <3>1. \A k \in Int : k < m => k < n
      BY <1>4
    <3>2. \A k \in S : k < m => k < n
      BY <3>1
    <3>3. ~(m < m)
      OBVIOUS
    <3> QED
      BY <3>2, <3>3, <1>3, <1>4
  <2>3. <<C, B>> \in StrictSubsetOrdering(S)
    BY <2>2, <1>3 DEF StrictSubsetOrdering
  <2> QED
    BY <1>2, <2>1, <2>3
<1> QED
  BY <1>4 DEF Smallest

\* The steps that are left at the most.
Remaining ==
    CASE pc = "load"    -> Cardinality(Fds) + MaxRegion + 4
      [] pc = "fds"     -> Cardinality(todo) + MaxRegion + 3
      [] pc = "regions" -> Cardinality(todo) + 2
      [] pc = "main"    -> 1
      [] OTHER          -> 0

\* A step that brings the end nearer.
Shorter == Remaining \in Nat /\ Remaining' \in Nat /\ Remaining' < Remaining

\* There is a next turn of the loop the process is in, or the loop is over.
CanGoOn ==
    /\ pc = "load" => \E fd \in Fds : Smallest(fd, Free(table))
    /\ pc \in {"fds", "regions"} => todo = {} \/ \E n \in todo : Smallest(n, todo)

\* The sets the loops go through are finite sets of numbers.
LEMMA FiniteLoops ==
    ASSUME TypeOK
    PROVE  /\ IsFiniteSet(Fds) /\ Fds \subseteq Int /\ Cardinality(Fds) \in Nat
           /\ IsFiniteSet(Collected) /\ Cardinality(Collected) \in Nat
           /\ Cardinality(Collected) <= Cardinality(Fds)
           /\ IsFiniteSet(todo) /\ todo \subseteq Int /\ Cardinality(todo) \in Nat
           /\ Cardinality(Regions) = MaxRegion
<1>1. IsFiniteSet(Fds) /\ Fds \subseteq Int /\ IsFiniteSet(Regions) /\ Regions \subseteq Int
      /\ Cardinality(Regions) = MaxRegion
  BY RestoreAssumption, FS_Interval DEF Fds, Regions
<1>2. IsFiniteSet(Collected) /\ Cardinality(Collected) <= Cardinality(Fds)
  BY <1>1, WorkloadType, FS_Subset
<1>3. todo \subseteq Fds \/ todo \subseteq Regions
  BY WorkloadType DEF TypeOK
<1>4. IsFiniteSet(todo) /\ todo \subseteq Int
  BY <1>1, <1>3, FS_Subset
<1> QED
  BY <1>1, <1>2, <1>4, FS_CardinalityType

\* No turn of the two loops waits for anything: at the load there is a free
\* descriptor, and an entry or a region left has a first one.
THEOREM NeverStuck == Spec => []CanGoOn
<1>1. TypeOK /\ RestoreInv => CanGoOn
  <2> SUFFICES ASSUME TypeOK, RestoreInv PROVE CanGoOn
    OBVIOUS
  <2>1. ASSUME pc = "load" PROVE \E fd \in Fds : Smallest(fd, Free(table))
    <3>1. table = inherited
      BY <2>1 DEF RestoreInv, LoadState
    <3>2. 4 \in Fds
      BY RestoreAssumption DEF Fds
    <3>3. 4 \in Free(table)
      BY <3>1, <3>2, InheritedType DEF Free
    <3>4. Free(table) \subseteq Fds
      BY DEF Free
    <3>5. IsFiniteSet(Free(table)) /\ Free(table) \subseteq Int
      BY <3>4, FiniteLoops, FS_Subset
    <3> QED
      BY <3>3, <3>4, <3>5, Least
  <2>2. todo = {} \/ \E n \in todo : Smallest(n, todo)
    BY FiniteLoops, Least
  <2> QED
    BY <2>1, <2>2 DEF CanGoOn
<1> QED
  BY <1>1, TypeCorrect, RestoreCorrect, PTL

\* Every step leaves fewer steps to do.
LEMMA StepShortens ==
    ASSUME TypeOK, Next
    PROVE  Remaining \in Nat /\ Remaining' \in Nat /\ Remaining' < Remaining
<1> USE DEF Remaining
<1>1. /\ Cardinality(Fds) \in Nat /\ Cardinality(todo) \in Nat /\ MaxRegion \in Nat
      /\ pc \in {"load", "fds", "regions", "main", "loop", "dead"}
  BY FiniteLoops, RestoreAssumption DEF TypeOK
<1>2. CASE Load
  <2>1. pc = "load" /\ pc' = "fds" /\ Cardinality(todo') \in Nat /\ Cardinality(todo') <= Cardinality(Fds)
    BY <1>2, FiniteLoops DEF Load
  <2> QED
    BY <1>1, <2>1
<1>3. CASE LoadFails \/ RegionFails \/ RegionsDone
  <2>1. pc \in {"load", "regions"} /\ pc' = "main"
    BY <1>3 DEF LoadFails, RegionFails, RegionsDone, Return
  <2> QED
    BY <1>1, <2>1
<1>4. CASE RestoreFd \/ SkipRegion \/ RestoreRegion
  <2>1. /\ pc \in {"fds", "regions"} /\ pc' = pc
        /\ \E n \in todo : todo' = todo \ {n}
    BY <1>4 DEF RestoreFd, SkipRegion, RestoreRegion
  <2>2. Cardinality(todo') = Cardinality(todo) - 1
    BY <2>1, FiniteLoops, FS_RemoveElement
  <2> QED
    BY <1>1, <2>1, <2>2
<1>5. CASE FdsDone
  <2>1. pc = "fds" /\ pc' = "regions" /\ Cardinality(todo') = MaxRegion
    BY <1>5, FiniteLoops DEF FdsDone
  <2> QED
    BY <1>1, <2>1
<1>6. CASE Main
  <2>1. pc = "main" /\ pc' \in {"loop", "dead"}
    BY <1>6 DEF Main
  <2> QED
    BY <1>1, <2>1
<1> QED
  BY <1>2, <1>3, <1>4, <1>5, <1>6 DEF Next

\* The bootstrap ends, after one step for each descriptor the snapshot has room
\* for and each region and a few more: every step makes a natural number smaller.
THEOREM BootstrapEnds == Spec => [][Shorter]_vars
<1>1. TypeOK /\ [Next]_vars => [Shorter]_vars
  BY StepShortens DEF Shorter
<1> QED
  BY <1>1, TypeCorrect, PTL DEF Spec

=============================================================================
