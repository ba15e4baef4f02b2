SPECIFICATION Spec
CONSTANTS
    NULL = NULL
    t0 = t0
    t1 = t1
    t2 = t2
    p1 = p1
    p2 = p2
    kSendOnceLen = 230
    Txs = {t0, t1, t2}
    InputLen <- MCInputLen
    Paths = {p1, p2}
    ChainID <- MCChainID
    RecIDs = {0, 1}
    MaxCalls = 4
    MaxCmds = 6
    MaxMisses = 1
SYMMETRY Symmetry
INVARIANTS
    TypeOK
    SignedIsRequested
    RecoveryIsEIP155
    CrashOnlyOverLate

\* A crash ends the process.
CHECK_DEADLOCK FALSE
