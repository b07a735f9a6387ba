CONSTANTS
    E = 4
    CS = 2
    N = 48
    Images <- MCImages
    Sizes = {3, 8, 9, 20, 34, 70}
    Modes = {"full"}
    Limits <- MCLimits
    MaxOps = 3
    MaxFaults = 1
    SC = 2
    BLK = 2
    MB = 4
    Ratio = 2
    GTES = 2
    Room = 80
    Disks = {}
    NewSizes = {3, 4, 6, 7, 9, 14, 22}
    NewImages = {}
    NewFiles = {}
    Slack = 16
SPECIFICATION AnySpec
INVARIANT ViewKept
CHECK_DEADLOCK FALSE
