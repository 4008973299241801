\* Three clients for a level of two players.
CONSTANTS
    NClients = 3
    GameSize = 2
    Tries = 1
    Extra = 1
    Delays = {4}
    MaxLeaves = 1
SPECIFICATION FairSpec
INVARIANTS TypeOK StartsTogether TablesAgree
CHECK_DEADLOCK FALSE
PROPERTY SomebodyStarts
