SPECIFICATION Spec
CONSTANTS
    ULCR_MAX_PATH = 512
    Lengths = {12, 465, 600}
    Numbers = {0, 7}
    MaxLines = 4
INVARIANTS TypeOK LastLineCounts NamesDistinct
CHECK_DEADLOCK FALSE
