SPECIFICATION CodecSpec
CONSTANTS
    NONE = NONE
    Lengths <- MCLengths
    SigLen = 71
    KeyPaths <- MCKeyPaths
    HARDENED = 128
    ERROR = ERROR
INVARIANT ReadsBack

\* A length is read once.
CHECK_DEADLOCK FALSE
