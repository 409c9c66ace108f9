SPECIFICATION Spec
CONSTANTS
    Base = 3
    Period = 1
    AutoRestore = TRUE
    Epoch = 1000
    MaxPause = 1
    Ages = {290}
    Steps = {}
    MaxSkew = 0
    Horizon = 24
PROPERTIES IntervalShrinks
CHECK_DEADLOCK FALSE
