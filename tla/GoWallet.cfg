SPECIFICATION Spec
CONSTANTS
    NULL = NULL
    ABSENT = ABSENT
    TORN = TORN
    p1 = p1
    p2 = p2
    Passwords = {p1, p2}
    Requests <- MCRequests
    UNREADABLE = UNREADABLE
    Half = 8
    MaxWallets = 2
INVARIANTS
    TypeOK
    CreatedIsKept
    PanicsOnlyOver
    SpendsJustEnough
