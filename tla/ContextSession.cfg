SPECIFICATION Spec
CONSTANTS
    d1 = d1
    d2 = d2
    a1 = a1
    a2 = a2
    mBTC = mBTC
    btc = btc
    bch = bch
    ltc = ltc
    t120 = t120
    NULL = NULL
    Devices = {d1, d2}
    Addresses = {a1, a2}
    MaxID = 2
    MaxCreated = 3
    Units = {mBTC, btc}
    Coins = {bch, ltc}
    Timeouts = {t120}
SYMMETRY Symmetry
INVARIANTS
    TypeOK
    LastIsConfigured
    IDsNameContexts
    NoDanglingEntry
