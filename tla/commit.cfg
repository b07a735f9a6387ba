SPECIFICATION OpSpec
CONSTANTS
    NGuest = 4
    Entries = 2
    NHost = 15
    Slots = 1
    MaxRuns = 3
    Overlays <- PlainOverlays
    Backings <- MCBackings
    NGrain = 4
    GrainEntries = 2
    FileSize = 4
    MinHint = 6
    VmdkOverlays <- GrainOverlays
INVARIANTS
    OverlayView
    Merged
    OverlayCounted
    BackingSnapshots
    Rerunnable
CHECK_DEADLOCK FALSE
