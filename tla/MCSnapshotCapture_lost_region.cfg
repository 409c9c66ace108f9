SPECIFICATION Spec
CONSTANTS
    Maps <- MCMaps
    ULCR_MAX_REGIONS = 5
    MaxVersion = 1
INVARIANTS ManagedCaptured
