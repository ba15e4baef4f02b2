SPECIFICATION Spec
CONSTANTS
    kSendOnceLen = 230
    kReadOnceLen = 256
    Uploads <- ShortUploads
    SigLens <- ShortSigLens
    MaxCalls = 6
    MaxCmds = 33
    MaxMisses = 0
    NULL = NULL
INVARIANT SignedIsRequested
