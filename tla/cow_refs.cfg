\* Three clusters, two active entries, up to two snapshot references each.
SPECIFICATION Spec
CONSTANTS
    Ref = {r1, r2}
    Cluster = {c1, c2, c3}
    None = none
    KeptCounts = {0, 1, 2}
INVARIANTS Exact SnapshotsUntouched
CHECK_DEADLOCK FALSE
