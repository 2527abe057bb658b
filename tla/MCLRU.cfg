SPECIFICATION MCSpec
CONSTANTS
    Proc = {p1, p2, p3}
    Key = {k1, k2, k3}
    Val = {v1, v2, v3}
    Err = {e1}
    None = None
    RequestedCapacity = 2
SYMMETRY Symm
INVARIANTS
    TypeOK
    MapMatchesList
    ShardedBounded
    SingleFlight
    WaiterHasLeader
    ReleasedOnce
    RightKey
    EvictsLeastRecent
    NoStaleResult
PROPERTY ImplementsResourceCache
