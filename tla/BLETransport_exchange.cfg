SPECIFICATION FairSpec
CONSTANTS
    MaxCmds = 2
    MaxLoss = 1
    MaxDup = 0
    MaxConns = 2
    MaxSpurious = 1
    RespLens <- ShortLens
    TempSize = 512
PROPERTIES
    ImplementsExchange
    SendDataReturns
