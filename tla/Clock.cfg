SPECIFICATION Spec
CONSTANTS
    Links = {l1, l2}
    l1 = l1
    l2 = l2
    MSECS = 2
    SECONDS = 2
    MINUTES = 2
    HOURS = 2
    YEARS = 2
    BASE = 2
    BYTE = 5
    MAX_SLOW = 2
    MonthDays <- MCMonthDays
    Settings <- MCSettings
    Others <- MCOthers
INVARIANTS
    TimeValid
    RtcFollows
PROPERTIES
    TickAdds
    RtcWritten
    RestartKeeps
