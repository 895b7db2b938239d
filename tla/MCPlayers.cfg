SPECIFICATION PlayersSpec
CONSTANTS
    o1 = o1
    o2 = o2
    NoObject = NoObject
    EditsOfOne = 2
    Rig = {"r1", "r2"}
    Part = {1, 2, 3, 4}
    PlayerId = {1}
    AdoptedId = {10, 11}
    RespawnDelay = 3
    RetryInterval = 2
    Ticks = {1, 2}

    
PROPERTIES
    LeftAloneHandedBack
    PlayersComeBack
CHECK_DEADLOCK FALSE
