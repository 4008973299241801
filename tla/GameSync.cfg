\* One player, three moves of the game, so that an older state can be restored, and one loss
\* or restart, remote or local.
CONSTANTS
    Players = {p1}
    MaxState = 3
    MaxFaults = 1
    MaxBacklog = 0
SPECIFICATION FairSpec
INVARIANTS TypeOK ClientStateTrue ChainUnbroken NothingWithheld
PROPERTY CatchesUp
