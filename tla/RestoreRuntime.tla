---------------------------- MODULE RestoreRuntime ----------------------------
(***************************************************************************)
(* ulcr_runtime_bootstrap in the process a restore has executed, and what  *)
(* the demo workload makes of its result: open the snapshot, open the      *)
(* files of the saved process again, rebuild its managed regions, go on.   *)
(*                                                                         *)
(* The kernel gives every open the lowest free descriptor.  The snapshot   *)
(* itself is read through a descriptor of the process that is restored.    *)
(* Descriptor 2 stands for the three standard ones.                        *)
(***************************************************************************)
EXTENDS Integers, FiniteSets

CONSTANTS
    MaxFd,        \* the last descriptor a process may have
    ULCR_MAX_FDS, \* the descriptors a snapshot has room for
    Paths,        \* files with a name
    Unnamed,      \* pipes, sockets: the link does not begin with a slash
    MaxPosition,  \* bound: the positions in a file
    MaxRegion     \* the regions of the saved process; the demo's page is 1

ASSUME RestoreAssumption ==
    /\ MaxFd \in Nat /\ MaxFd >= 5
    /\ ULCR_MAX_FDS \in Nat
    /\ Paths \cap Unnamed = {}
    /\ {"closed", "log", "timer", "snapshot"} \cap (Paths \cup Unnamed) = {}
    /\ MaxPosition \in Nat
    /\ MaxRegion \in Nat \ {0}

STDERR_FILENO == 2
Fds     == STDERR_FILENO .. MaxFd
Regions == 1 .. MaxRegion

Descriptor == [file : Paths, position : 0 .. MaxPosition] \cup [file : Unnamed, position : {0}]
Closed   == [file |-> "closed",   position |-> 0]
Log      == [file |-> "log",      position |-> 0]
Timer    == [file |-> "timer",    position |-> 0]
Snapshot == [file |-> "snapshot", position |-> 0]

VARIABLES
    workload,     \* the descriptors of the saved process
    managed,      \* its regions in the managed window
    missing,      \* the files that cannot be opened any more
    included,     \* its regions whose bytes are in the snapshot
    inherited,    \* the descriptors exec left open
    table,        \* the descriptors now
    snapshot_fd,
    pc,           \* where the process is
    todo,         \* the entries restore_supported_fds has still to do,
                  \* the regions restore_managed_regions has
    memory,       \* of each region: where its bytes came from
    result        \* of ulcr_runtime_bootstrap

imageVars == <<workload, missing, managed, included>>
vars == <<imageVars, inherited, table, snapshot_fd, pc, todo, memory, result>>

Smallest(n, S) == n \in S /\ \A m \in S : n <= m

Free(t) == {n \in Fds : t[n] = Closed}

\* collect_fds: /proc/<pid>/fd lists the descriptors in their order, and the
\* snapshot takes them while there is room.
Collected ==
    {n \in DOMAIN workload :
        Cardinality({m \in DOMAIN workload : m < n}) < ULCR_MAX_FDS}

\* entry->supported: the link begins with a slash.
Supported(n) == workload[n].file \notin Unnamed

\* A managed process writes to its log and opens what it likes.
Workloads ==
    UNION {{w \in [S -> Descriptor \cup {Log}] :
                \A n \in S : w[n] = Log <=> n = STDERR_FILENO} : S \in SUBSET Fds}

\* The restore command leaves nothing open, the monitor its timer.
Inherited ==
    {[n \in Fds |-> IF n = STDERR_FILENO THEN Log
                    ELSE IF n = 3 /\ byMonitor THEN Timer ELSE Closed] : byMonitor \in BOOLEAN}

Init ==
    /\ workload \in Workloads
    /\ missing \in SUBSET Paths
    /\ managed \in SUBSET Regions
    /\ included \in SUBSET Regions
    /\ inherited \in Inherited
    /\ table = inherited
    /\ snapshot_fd = -1
    /\ pc = "load"
    /\ todo = {}
    /\ memory = [r \in Regions |-> "unmapped"]
    /\ result = 0

-----------------------------------------------------------------------------

\* ulcr_load_snapshot.
Load ==
    /\ pc = "load"
    /\ \E fd \in Fds :
          /\ Smallest(fd, Free(table))
          /\ snapshot_fd' = fd
          /\ table' = [table EXCEPT ![fd] = Snapshot]
    /\ todo' = Collected
    /\ pc' = "fds"
    /\ UNCHANGED <<imageVars, inherited, memory, result>>

LoadFails ==
    /\ pc = "load"
    /\ result' = -1
    /\ pc' = "main"
    /\ UNCHANGED <<imageVars, inherited, table, snapshot_fd, todo, memory>>

\* Mutant: the position is counted from the end.
ReopenedAtEnd(n) == [file |-> workload[n].file, position |-> workload[n].position + MaxPosition]

\* open and, for a position > 0, lseek.
Reopened(n) == [file |-> workload[n].file, position |-> workload[n].position]

\* The entries restore_supported_fds leaves alone, and those whose open fails.
Skipped(n) ==
    ~Supported(n) \/ n <= STDERR_FILENO \/ workload[n].file \in missing

\* Mutant: the descriptor open returned stays open.
KeepBoth(n) ==
    [m \in Fds |-> IF m = n \/ Smallest(m, Free(table)) THEN Reopened(n) ELSE table[m]]

\* open returns the lowest free number; if that is not the entry's, dup2 moves
\* it there, whatever is open under that number, and close frees the first.
MovedTo(n) == [table EXCEPT ![n] = Reopened(n)]

\* One turn of restore_supported_fds.
RestoreFd ==
    /\ pc = "fds"
    /\ \E n \in todo :
          /\ Smallest(n, todo)
          /\ todo' = todo \ {n}
          /\ \/ (Skipped(n) \/ Free(table) = {}) /\ UNCHANGED table
             \/ ~Skipped(n) /\ Free(table) # {} /\ table' = MovedTo(n)
    /\ UNCHANGED <<imageVars, inherited, snapshot_fd, pc, memory, result>>

\* Mutant: the snapshot is closed before its bytes are read.
FdsDoneCloses ==
    /\ pc = "fds" /\ todo = {}
    /\ table' = [table EXCEPT ![snapshot_fd] = Closed]
    /\ todo' = Regions
    /\ pc' = "regions"
    /\ UNCHANGED <<imageVars, inherited, snapshot_fd, memory, result>>

FdsDone ==
    /\ pc = "fds" /\ todo = {}
    /\ todo' = Regions
    /\ pc' = "regions"
    /\ UNCHANGED <<imageVars, inherited, table, snapshot_fd, memory, result>>

\* Mutant: a region is rebuilt wherever it lies.
AllIncluded == included

\* The regions restore_managed_regions rebuilds.
Rebuilt == managed \cap included

SkipRegion ==
    /\ pc = "regions"
    /\ \E r \in todo \ Rebuilt : Smallest(r, todo) /\ todo' = todo \ {r}
    /\ UNCHANGED <<imageVars, inherited, table, snapshot_fd, pc, memory, result>>

\* What pread finds in whatever snapshot_fd is.
Content == IF table[snapshot_fd] = Snapshot THEN "saved" ELSE "foreign"

\* mmap, pread, mprotect.
RestoreRegion ==
    /\ pc = "regions"
    /\ \E r \in todo \cap Rebuilt :
          /\ Smallest(r, todo)
          /\ memory' = [memory EXCEPT ![r] = Content]
          /\ todo' = todo \ {r}
    /\ UNCHANGED <<imageVars, inherited, table, snapshot_fd, pc, result>>

\* close(snapshot_fd) and the return.
Return(value) ==
    /\ table' = [table EXCEPT ![snapshot_fd] = Closed]
    /\ result' = value
    /\ pc' = "main"

\* mmap fails, or pread does when the pages are there, or mprotect does when
\* they have been read.
RegionFails ==
    /\ pc = "regions"
    /\ \E r \in todo \cap Rebuilt, bytes \in {"unmapped", "zero", Content} :
          /\ Smallest(r, todo)
          /\ memory' = [memory EXCEPT ![r] = bytes]
    /\ Return(-1)
    /\ UNCHANGED <<imageVars, inherited, snapshot_fd, todo>>

RegionsDone ==
    /\ pc = "regions" /\ todo = {}
    /\ Return(1)
    /\ UNCHANGED <<imageVars, inherited, snapshot_fd, todo, memory>>

\* main of the demo reads its page, which is there or not, and does not tell
\* -1 from 1: a page of zeros is initialised like that of a new process.
Main ==
    /\ pc = "main"
    /\ pc' = IF memory[1] = "unmapped" THEN "dead" ELSE "loop"
    /\ UNCHANGED <<imageVars, inherited, table, snapshot_fd, todo, memory, result>>

Next ==
    \/ Load \/ LoadFails
    \/ RestoreFd \/ FdsDone
    \/ SkipRegion \/ RestoreRegion \/ RegionFails \/ RegionsDone
    \/ Main

Spec == Init /\ [][Next]_vars

-----------------------------------------------------------------------------
(***************************************************************************)
(* Properties.                                                             *)
(***************************************************************************)

Open == Descriptor \cup {Closed, Log, Timer, Snapshot}

\* Every variable holds a value of its type.
TypeOK ==
    /\ workload \in Workloads
    /\ missing \subseteq Paths
    /\ managed \subseteq Regions
    /\ included \subseteq Regions
    /\ inherited \in Inherited
    /\ table \in [Fds -> Open]
    /\ snapshot_fd \in Fds \cup {-1}
    /\ pc \in {"load", "fds", "regions", "main", "loop", "dead"}
    /\ todo \in SUBSET (IF pc = "fds" THEN Collected ELSE Regions)
    /\ memory \in [Regions -> {"unmapped", "zero", "saved", "foreign"}]
    /\ result \in {-1, 0, 1}

\* The saved process has a file open at the number the snapshot gets.
Clash ==
    /\ snapshot_fd \in Collected
    /\ ~Skipped(snapshot_fd)

\* Without a clash a process that returns from the bootstrap has, whatever
\* numbers open, dup2 and close went through: the standard descriptors it was
\* given, every file of the saved process that could be opened, at its number
\* and position, and nothing else.
DescriptorsRestored ==
    (pc \in {"main", "loop", "dead"} /\ ~Clash) =>
        table = [n \in Fds |-> IF snapshot_fd # -1 /\ n \in Collected /\ ~Skipped(n)
                               THEN workload[n] ELSE inherited[n]]

\* Without a clash a bootstrap that returns 1 has rebuilt every managed region
\* the snapshot has, from the snapshot, and has not touched any other address
\* of the new process.
RegionsRestored ==
    (result = 1 /\ ~Clash) =>
        memory = [r \in Regions |-> IF r \in managed \cap included THEN "saved" ELSE "unmapped"]

\* What is open at n when the entries of the set left are still to do.
Target(n, left) ==
    IF n = snapshot_fd THEN Snapshot
    ELSE IF n \in Collected \ left /\ ~Skipped(n) THEN workload[n] ELSE inherited[n]

LoadState ==
    pc = "load" => (snapshot_fd = -1 /\ table = inherited)

FdState ==
    pc \in {"fds", "regions"} => (snapshot_fd \in Fds /\ inherited[snapshot_fd] = Closed)

FdProgress ==
    pc = "fds" =>
        /\ \A n \in Collected \ todo, m \in todo : n < m
        /\ ~Clash => \A n \in Fds : table[n] = Target(n, todo)

RegionProgress ==
    (pc = "regions" /\ ~Clash) =>
        /\ \A n \in Fds : table[n] = Target(n, {})
        /\ \A r \in Regions : memory[r] = IF r \in Rebuilt \ todo THEN "saved" ELSE "unmapped"

NotReturned ==
    /\ pc \in {"load", "fds", "regions"} => result = 0
    /\ pc \in {"load", "fds"} => memory = [r \in Regions |-> "unmapped"]

\* At every step between, without a clash: the snapshot is open under its number
\* until the last byte is read, an entry that is done is open at its number and
\* one that is to do has not been touched.
RestoreInv ==
    /\ LoadState /\ FdState /\ FdProgress /\ RegionProgress /\ NotReturned
    /\ DescriptorsRestored
    /\ RegionsRestored

=============================================================================
