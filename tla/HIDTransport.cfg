SPECIFICATION FairSpec
CONSTANTS
    MaxCmds = 3
    MaxOpens = 3
    MaxUnplugs = 1
    QueueMax = 2
    SendLens <- MCSendLens
    RespLens <- MCRespLens
    Rooms <- MCRooms
INVARIANTS
    TypeOK
    AnswerIntact
    OKLeavesQuiet
    CommandWhole
PROPERTY HangsOnlyOver
CHECK_DEADLOCK FALSE
