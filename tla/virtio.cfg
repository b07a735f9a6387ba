\* A read-only and a writable device of two sectors; the rings are met at
\* their start and where the indices wrap.
SPECIFICATION FairSpec
CONSTANTS
    Device = {"input", "output"}
    Sectors = 2
    Value = {1}
    ReadOnly = {"input"}
    QueueSize = 8
    IdxMod = 16
    Starts = {0, 15}
    Modes = {"stops", "scans"}
    Faulty = {"stops"}
    Slow = TRUE
    MaxReq = 3
    MaxErrs = 1
INVARIANTS
    Honest
    NoLostRequest
PROPERTIES
    Answered
CHECK_DEADLOCK FALSE
