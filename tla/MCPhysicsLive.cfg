SPECIFICATION WarmSpec
CONSTANTS
    p1 = p1
    p2 = p2
    o1 = o1
    Player = {p1, p2}
    Object = {o1}
    Server = Server
    Nobody = Nobody
    Claimant = {p1, p2}
    Timeout = 1
    MaxInFlight = 1
INVARIANT StaleTargetsOnlyOfLeavers
PROPERTIES
    LeaversLetGo
CHECK_DEADLOCK FALSE
