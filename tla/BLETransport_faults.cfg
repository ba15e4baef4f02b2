SPECIFICATION Spec
CONSTANTS
    MaxCmds = 2
    MaxLoss = 1
    MaxDup = 1
    MaxConns = 2
    MaxSpurious = 0
    RespLens <- Lens
    TempSize = 58
INVARIANTS
    TypeOK
    AnswerIntact
    AnswerFresh
    NoBufferRace
    SleepsOnlyIfEarly
    StackOverrunOnlyOver
\* A thread that has overrun its stack may never come back.
CHECK_DEADLOCK FALSE
