SPECIFICATION Spec
CONSTANTS
    Base = 6
    Period = 3
    AutoRestore = TRUE
    Epoch = 1000
    MaxPause = 2
    Ages = {0, 52, 290}
    Steps = {}
    MaxSkew = 10
    Horizon = 24
INVARIANTS FailureDetected
CHECK_DEADLOCK FALSE
