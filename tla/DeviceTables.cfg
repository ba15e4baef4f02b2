SPECIFICATION Spec
CONSTANTS
    NULL = NULL
    d1 = d1
    d2 = d2
    d3 = d3
    p1 = p1
    p2 = p2
    p3 = p3
    Devices = {d1, d2, d3}
    Paths = {p1, p2, p3}
    MAX_DEVICE = 2
    MaxID = 3
    MaxPlugs = 4
SYMMETRY Symmetry
INVARIANTS
    TypeOK
    ListingComplete
    WrongDeviceOnlyOver
PROPERTY StaysListed
