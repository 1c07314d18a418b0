SPECIFICATION Spec
CONSTANTS
    w2 = w2
    w1 = w1
    e3 = e3
    e2 = e2
    e1 = e1
    s2 = s2
    s1 = s1
    Shift = {s1, s2}
    Entry = {e1, e2, e3}
    Worker = {w1, w2}
    None = None
    Pieces = 1
SYMMETRY Symmetry
INVARIANTS TypeOK RestCloseIsWhole GoesBackOnce NoDeadlock
PROPERTIES ClosedForGood
CHECK_DEADLOCK FALSE
