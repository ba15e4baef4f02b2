SPECIFICATION Spec
CONSTANTS
    kSendOnceLen = 230
    kReadOnceLen = 256
    Uploads <- MCUploads
    SigLens <- MCSigLens
    MaxCalls = 3
    MaxCmds = 27
    MaxMisses = 2
    NULL = NULL
INVARIANTS
    TypeOK
    PacksAreUpload
PROPERTIES
    ConfirmsRequested
    ImplementsSigningCall
