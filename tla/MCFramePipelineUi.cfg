CONSTANTS
    i1 = i1
    i2 = i2
    i3 = i3
    MaxFramesInFlight = 2
    Images <- MCImages
    Sizes = {1, 2}
    ResizeBound = 2
SPECIFICATION Spec
PROPERTIES
    RenderedBeforeNewFrame
CHECK_DEADLOCK FALSE
