SPECIFICATION MapSpec
CONSTANTS
    g = g
    w = w
    r = r
    a = a
    b = b
    None = None
    Nodes = {g, w, r, a, b}
    Kind <- MCKind
    Game = g
    Workspace = w
SYMMETRY Sym
INVARIANTS
    NoLoops
    WorldFollowsTree
PROPERTIES
    SavedReadsBack
CHECK_DEADLOCK FALSE
