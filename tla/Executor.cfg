SPECIFICATION ExFairSpec
CONSTANTS
    Proc = {p1, p2}
    Key = {k1, k2}
    Val = {v1, v2}
    Err = {"transient", "ctx", "lost", "fatal"}
    None = None
    RequestedCapacity = 1
    MaxAttempts = 2
INVARIANTS
    ExTypeOK
    AppliedOnce
    RightStatement
    OpenBounded
    NoOrphanStatement
PROPERTY CallsEnd
CHECK_DEADLOCK FALSE
