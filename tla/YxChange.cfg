SPECIFICATION Spec
CONSTANTS
    LAST = 1
    PortOf <- MCPortOf
    POINTS = 2
    MAX_OVERRUN = 1
INVARIANTS Reported
PROPERTIES ReportsAreNews ChangeReported
