SPECIFICATION Spec
CONSTANTS
    NPlayers = 2
    NoKeys = none
    Frames = {none, jump}
    Pressable <- OnlyZeroPlays
    Delay = 0
    MaxHistory = 4
    MaxBackups = 2
    MaxLag = 8
    MaxCycle = 5
CHECK_DEADLOCK FALSE
INVARIANTS
    ConfirmedFramesPlayed
