SPECIFICATION FairSpec
CONSTANTS
    Proc = {p1, p2}
    Type = {user, broken, number}
    NotStruct = {number}
    Panicky = {broken}
    Entry = {e1, e2}
    None = None
    MaxOpen = 1
    DefaultTimeout = 30
    MaxRows = 2
INVARIANTS
    TypeOK
    CompiledOnce
    ConnsReturned
    WholeResult
    HooksPaired
PROPERTY CallsEnd
