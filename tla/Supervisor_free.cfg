SPECIFICATION Spec
CONSTANTS
    Shells = {s1, s2}
    Monitors = {m1}
    Init_ = init
    AutoRestore = TRUE
    Patient = FALSE
    Apart = FALSE
    Faults = TRUE
    MaxPid = 2
INVARIANT NoStraySignal
