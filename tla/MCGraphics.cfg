SPECIFICATION GraphicsSpec
CONSTANTS
    Count = 4
    AtlasWidth = 8
    Widths = {2, 3}
    Rows = {1, 2}
    Advances = {1, 2}
    Newline = 3
    Contents <- MCContents
    MaxLetters = 5
    MaxFramesInFlight = 2
    Images = {1, 2, 3}
    Sizes = {1, 2}
    ResizeBound = 2
    Clients = {"a", "b"}
    Inodes = {"i1", "i2", "i3", "i4"}
    NoInode = "none"
    Machines <- MCMachines
    StartBound = 2
    Names = {"n1", "n2"}
    ImageFiles <- MCFiles
    Size <- Pictures
    CubeFaces = 3
    AtlasSize <- MCAtlas
    Capacity <- MCCapacity
    RequestBound = 3
    ClearDepth = 6
    Depths = {2, 4}
    Room <- MCRoom
    MaxThings = 3
    MaxFrames = 3
    UpdateBound = 1
    Obj <- MCObjects
    Top <- MCTop
    Class <- MCClass
    Home <- MCHome
    RootOf <- MCRootOf
    Branches <- MCBranches
    Start <- MCStart
    Edit <- MCEdit
    Loaded <- MCLoaded
    Reach = 3
    MaxInstances = 2
    EditBound = 3
INVARIANTS
    GlyphsPlaced
    TextLaidOut
    FramesApart
    FrameShowsScene
    SetupIsRight
PROPERTIES
    PictureMatchesTree
    TexturesWhole
    MeshesAgree
    FramesKeepComing
CHECK_DEADLOCK FALSE
