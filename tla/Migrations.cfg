SPECIFICATION FairSpec
CONSTANTS
    Proc = {p1, p2}
    Version = {1, 2, 3}
    Empty = {2}
    Deployments = {{1, 2, 3}, {1, 3}}
INVARIANTS
    TypeOK
    AppliedOnce
    VersionTableTrue
    UpComplete
    InOrder
PROPERTY CallsEnd
