SPECIFICATION Spec
CONSTANTS
    c1 = c1
    c2 = c2
    NoConn = NoConn
    Conn = {c1, c2}
    Nick = {"alice", "bob"}
    NickLen <- MCNickLen
    Info <- MCTyped
    MaxPackets = 1
    AllowReset = TRUE
    AllowStop = TRUE
INVARIANTS
    WorldFollowsPlayers
PROPERTY ImplementsMembership
CHECK_DEADLOCK FALSE
