SPECIFICATION Spec
CONSTANTS
    NPlayers = 2
    NoKeys = none
    Frames = {none, jump}
    Pressable <- OneHolds
    Delay = 1
    MaxHistory = 5
    MaxBackups = 3
    MaxLag = 2
    MaxCycle = 7
CHECK_DEADLOCK FALSE
INVARIANTS TypeOK ConfirmedFramesTrue WrongCyclesAreInvalid NoDesync ReplayFindsSnapshot
