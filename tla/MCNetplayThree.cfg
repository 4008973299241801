SPECIFICATION Spec
CONSTANTS
    NPlayers = 3
    NoKeys = none
    Frames = {none, jump}
    Pressable <- OnlyZeroPlays
    Delay = 1
    MaxHistory = 4
    MaxBackups = 2
    MaxLag = 1
    MaxCycle = 5
CHECK_DEADLOCK FALSE
INVARIANTS PacketsConnect ConfirmedFramesPlayed AcknowledgedFramesArrived
