SPECIFICATION FairSpec
CONSTANTS
    Shells = {s1, s2}
    Monitors = {m1}
    Init_ = init
    AutoRestore = TRUE
    Patient = TRUE
    Apart = TRUE
    Faults = FALSE
    MaxPid = 4
INVARIANTS TypeOK OneProcess ManagedIsNamed MonitorWatchesManaged SupervisorInv
PROPERTY LossRepaired
