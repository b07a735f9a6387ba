CONSTANTS
    Reports = {"progress", "differencing", "l2 entry", "start", "long"}
    Size <- MCSize
    Pay <- MCPay
    Base = 4
    MaxMessage = 5
    Margin = 2
    MaxSends = 3
    Commands = {"probe", "bench", "resize", "amend", "bitmap", "rebase", "commit", "create",
                "info", "copy", "check", "compare", "convert", "measure", "map", "list",
                "snapshot"}
SPECIFICATION HostSpec
INVARIANTS Delivered Explained
CHECK_DEADLOCK FALSE
