SPECIFICATION OpSpec
CHECK_DEADLOCK FALSE
CONSTANTS
    MaxCluster = 8
    Jobs <- MCJobs
    Small = 2
    Big = 4
    OutCluster = 4
    L2Entries = 2
    Grain = 4
    GtEntries = 2
    VBlock = 12
    MbAlign = 12
    ChsUnit = 6
    Headroom = 60
    CompLens = {0, 1, 3}
    MaxCounts = 40
    MaxSector = 4
    Pairs <- MCPairs
    Maps <- MCMaps
    Calls <- MCCalls
    MaxHops = 3
INVARIANTS
    ConvertedExact
    Whole
    MeasureCovers
    
    MapExact
    Discovered
