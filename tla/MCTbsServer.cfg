\* A player and an observer on three sockets; messages are numbered modulo three.
CONSTANTS
    p1 = p1
    Players <- MCPlayers
    Observers = {obs}
    Sockets = {k1, k2, k3}
    MaxQueue = 0
    Stamps = 3
SPECIFICATION Spec
INVARIANTS TypeOK OneReplyPerRequest MapsAgree NothingStranded AnsweredInOrder
SYMMETRY Alike
