SPECIFICATION Spec
CONSTANTS
    Links = {l1, l2}
    Order <- MCOrder
    DevNum <- MCDevNum
    MAX_USED = 2
    CHANNELS = 2
    BYTE = 3
    NONE = NONE
INVARIANTS RowsRead
PROPERTIES TakenIsSent Collected
