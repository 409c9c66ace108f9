SPECIFICATION Spec
CONSTANTS
    Base = 6
    Period = 3
    AutoRestore = TRUE
    Epoch = 1000
    MaxPause = 2
    Ages = {52, 290}
    Steps <- MCSteps
    MaxSkew = 7
    Horizon = 24
INVARIANTS TypeOK AttemptsRegular VanishedIsNoticed RestoredRunsFirst MonitorInv
PROPERTIES IntervalFollowsAge
CHECK_DEADLOCK FALSE
