SPECIFICATION LiveSpec
CONSTANTS
    c1 = c1
    c2 = c2
    NoConn = NoConn
    Conn = {c1, c2}
    Nick = {"alice", "maximilian12"}
    NickLen <- MCNickLen
    Info <- MCPlayers
    MaxPackets = 0
    AllowReset = FALSE
    AllowStop = TRUE
PROPERTIES
    AcceptThreadGoesOn
    LeaversForgotten
CHECK_DEADLOCK FALSE
