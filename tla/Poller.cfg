SPECIFICATION Spec
CONSTANTS
    LAST = 1
    WIDTH = 4
    MAX_COMMANDS = 2
    MAX_NOISE = 2
    MAX_TURNS = 1
INVARIANTS RightData OkIsCurrent GivenUpIsOff
PROPERTIES EveryoneAsked Converges
