SPECIFICATION OwnershipSpec
CONSTANTS
    o1 = o1
    o2 = o2
    o3 = o3
    o4 = o4
    Object = {o1, o2, o3}
    Cap = 2
    NoObject = NoObject
    Things = {o1, o2, o3, o4}
    MaxDepth = 2
SYMMETRY ObjectSymmetry
INVARIANTS
    BooksAreRight
    ClaimsAreRight
PROPERTIES
    CapSparesTheMoving
    LastWordIsCurrent
CHECK_DEADLOCK FALSE
