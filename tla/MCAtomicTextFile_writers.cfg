SPECIFICATION Spec
CONSTANTS
    Writers = {w1, w2}
    Values <- MCValues
    Faults = TRUE
    MaxShort = 2
INVARIANTS WholeText WholeTextFirst
PROPERTY ReturnedIsPublished
