SPECIFICATION Spec
CONSTANTS
    LAST = 1
    Enabled <- MCEnabled
    MAX_FILES = 2
    MAX_FAULTS = 1
INVARIANTS NeverBlank WholeAreas
PROPERTIES RestartKeeps FileTakesEffect
CHECK_DEADLOCK FALSE
