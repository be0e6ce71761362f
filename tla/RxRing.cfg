SPECIFICATION RxSpec
CONSTANTS
    PORTS <- MCPorts
    SIZE = 5
    FRAME = 3
    MAX_ANSWERS = 2
INVARIANTS RxTypeOK WholeAccepted
PROPERTIES AcceptedOnce
CHECK_DEADLOCK FALSE
