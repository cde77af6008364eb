CONSTANTS
    Goroutine = {g1, g2}
    Entry = {e1, e2, e3}
    None = None
    Limit = 2
    Window = 3
    MaxTime = 6
SYMMETRY Symmetry
SPECIFICATION Spec
INVARIANTS
    TypeOK
    RateBound
