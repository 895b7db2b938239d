SPECIFICATION ServerSpec
CONSTANTS
    Part = {p1, p2}
    MaxGen = 2
    Clients = {"a", "b"}
    Present = {"a"}
    Accept = "accept"
    Main = "main"
    Nobody = "nobody"
    KickSize = 2
    Room = 1
    Thread = {"main", "physics", "accept", "serve", "frame", "tcp", "udp"}
    Role <- Named
INVARIANTS
    NoDanglingBodies
    ServedMapCurrent
    MixedOnlyByKicks
    LocksAreSafe
CHECK_DEADLOCK FALSE
