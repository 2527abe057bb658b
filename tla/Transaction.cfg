SPECIFICATION FairSpec
CONSTANTS
    MaxAttempts = 2
    Policies = {{"nil"}, {"transient", "fatal", "lost", "ctx"}}
    MaxScopes = 3
INVARIANTS
    TypeOK
    OwnSavepoint
    ScopedRollback
    NoTxLeft
    CommittedOnce
PROPERTY RunReturns
