SPECIFICATION ClientSpec
CONSTANTS
    MaxMessages = 2
    HelloTicks = 2
    WarnAfter = 2
    AllowFault = TRUE
    Parts = {"p", "q", "c"}
    Spare = "c"
    Model = "m"
    Inside = {"q"}
    Places = {"x1", "x2"}
    Addrs = {"a1", "a2", "a3"}
    None = "none"
    Ctrl = "ctrl"
    Key = "key"
    Button = "button"
    Debounce = 3
    MaxPresses <- MCMaxPresses
    MaxQueue = 2
    MaxRecreations = 1
INVARIANTS
    CleanEnd
    PressAnswered
PROPERTIES
    PlayerIsTold
    StopRestores
CHECK_DEADLOCK FALSE
