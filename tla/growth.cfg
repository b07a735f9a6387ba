SPECIFICATION BenchSpec
CONSTANTS
    EPB = 2
    RPC = 4
    Rounds = 8
    Top = 150
    MaxBlocks = 22
    MaxRtSlots = 26
    Inputs = {}
    NCluster = 46
    MaxWorst = 90
    Images <- MCImages
    Fsync = TRUE
    Jobs <- MCJobs
    ClusterBytes = 8
    EntryBytes = 4
    SectorBytes = 4
    ArgMax = 100
    BufMax = 64
    Families = {"raw", "qcow2", "vhd"}
INVARIANTS
    PlanCovers
    
    GrownExact
    BenchProvided
