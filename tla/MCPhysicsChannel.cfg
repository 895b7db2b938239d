SPECIFICATION ChannelSpec
CONSTANTS
    p1 = p1
    p2 = p2
    o1 = o1
    Player = {p1, p2}
    Object = {o1}
    Server = Server
    Nobody = Nobody
    Claimant = {p1}
    Timeout = 1
    MaxInFlight = 4
INVARIANT ConfirmedAreKnown
PROPERTIES
    ChannelsWork
    EverybodyFollows
CHECK_DEADLOCK FALSE
