SPECIFICATION FairSpec
CONSTANTS
    NL1 = 2
    NL2 = 2
    CS = 2
    VSize = 7
    NBlocks = 3
    EPB = 4
    NSlots = 2
    Caps = {3}
    MaxReq = 2
    Images <- AllImages
    Fsync = TRUE
    PowerLoss = TRUE
INVARIANTS CrashReads RefusedClean
PROPERTIES Settles
