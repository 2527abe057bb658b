SPECIFICATION FairSpec
CONSTANTS
    Proc = {p1, p2}
    Chunks = 2
    MaxOpen = 2
    MaxAttempts = 2
    DefaultTimeout = 30
INVARIANTS
    CompleteOnSuccess
PROPERTIES
    BatchReturns
    ImplementsRun
