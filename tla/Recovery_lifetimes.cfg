SPECIFICATION Spec
CONSTANTS
    Managers = {m1, m2}
    MaxCount = 2
    MaxVersion = 3
INVARIANTS TypeOK ProgressKept
