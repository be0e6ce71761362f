SPECIFICATION LinkSpec
CONSTANTS
    RING = 2
    REPORT_SUM = 3
    MAX_REPORTS = 2
    Links <- MCLinks
    Me <- MCMe
    W = 1
    SEQ = 4
    Asdus <- MCAsdus
    MAX_COMMANDS = 1
    MAX_TRANSIT = 1
PROPERTIES WindowHolds StartsFresh LinkDelivers
