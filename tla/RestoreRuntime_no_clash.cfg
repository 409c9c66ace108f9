SPECIFICATION Spec
CONSTANTS
    MaxFd = 5
    ULCR_MAX_FDS = 3
    Paths = {f, g}
    Unnamed = {pipe}
    MaxPosition = 1
    MaxRegion = 2
INVARIANTS TypeOK DescriptorsRestored RegionsRestored RestoreInv
CHECK_DEADLOCK FALSE
