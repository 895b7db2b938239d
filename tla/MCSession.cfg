SPECIFICATION WarmSpec
CONSTANTS
    c1 = c1
    c2 = c2
    c3 = c3
    NoConn = NoConn
    Conn = {c1, c2, c3}
    Nick = {"alice", "maximilian12"}
    Info <- MCPlayers
    NickLen <- MCNickLen
    MaxPackets = 0
    AllowReset = FALSE
    AllowStop = FALSE
SYMMETRY ConnSymmetry
INVARIANTS
    UniquePlayers
    NoOrphans
    HandshakeInOrder
    RostersAreRight
CHECK_DEADLOCK FALSE
