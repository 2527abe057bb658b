SPECIFICATION ExSpec
CONSTANTS
    Proc = {p1, p2}
    Key = {k1, k2}
    Val = {v1, v2}
    Err = {"transient", "ctx", "lost", "fatal"}
    None = None
    RequestedCapacity = 1
    MaxAttempts = 2
INVARIANT NoUseAfterClose
CHECK_DEADLOCK FALSE
