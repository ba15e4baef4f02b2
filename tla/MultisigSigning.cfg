SPECIFICATION Spec
CONSTANTS
    NULL = NULL
    GARBAGE = GARBAGE
    p = p
    q = q
    t1 = t1
    t2 = t2
    t3 = t3
    t4 = t4
    Cosigners = {2, 3, 4}
    Keys = {1, 2, 3, 4}
    Configs <- MCConfigs
    m = 2
    n = 3
    MaxCosigners = 4
    Paths = {p, q}
    Rank <- MCRank
    Txs = {t1, t2, t3, t4}
    Inputs <- MCInputs
    Change <- MCChange
    Return0 = {t4}
    Foreign <- MCForeign
    MaxCalls = 3
    MaxParses = 2
    MaxWrong = 1
INVARIANTS
    TypeOK
    ReturnedTxSound
    ScriptsAgree
    FinishedByDifferentKeys
    OverrunsOnlyOver

\* A crash ends the process, and with it, here, what its cosigner does.
CHECK_DEADLOCK FALSE
