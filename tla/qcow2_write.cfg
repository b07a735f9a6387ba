SPECIFICATION Spec
CONSTANTS
    NL1 = 2
    NL2 = 2
    CS = 2
    VSize = 7
    NBlocks = 3
    EPB = 4
    NSlots = 1
    Caps = {1}
    MaxReq = 2
    Images <- AllImages
    Fsync = FALSE
    PowerLoss = FALSE
INVARIANTS ReadsBack FlushedExact RefcountsLast
PROPERTIES ImplementsRefs
