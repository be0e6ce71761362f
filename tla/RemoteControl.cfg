SPECIFICATION Spec
CONSTANTS
    Links <- MCLinks
    Commands <- MCThree
    Addr <- MCAddr
    Kind <- MCKind
    NONE = NONE
    POLL = POLL
    on1 = on1 on2 = on2 sel1 = sel1
    Ports <- MCPorts
    DevAddr <- MCDevAddr
    DEVICEMAXNUM = 2
INVARIANTS CountCovers FlagMeansCommand
PROPERTIES SentOnceAccepted PickedUp
