SPECIFICATION Spec
CONSTANTS
    Proc = {p1}
    Chunks = 2
    MaxOpen = 2
    MaxAttempts = 2
    DefaultTimeout = 30
INVARIANT AllOrNothing
