SPECIFICATION Spec
CONSTANTS
    Handle = {base, h1, h2, h3, h4}
    Root = base
    Col = {a, b}
    Array = {x1, x2, x3, x4}
    None = None
    MaxCols = 2
INVARIANT Immutable
CHECK_DEADLOCK FALSE
