SPECIFICATION Spec
CONSTANTS
    RING = 3
    REPORT_SUM = 5
    MAX_REPORTS = 8
    Links <- MCLinks
INVARIANTS RingHoldsNewest BacklogSeen
PROPERTIES SentIsDue InOrder ImplementsStream
CHECK_DEADLOCK FALSE
