CHECK_DEADLOCK FALSE
SPECIFICATION Spec
CONSTANTS
    sold = sold
    void1 = void1
    void2 = void2
    back1 = back1
    back2 = back2
    goods = goods
    w1 = w1
    w2 = w2
    Doc = {goods}
    Says <- SaysThat
    Worker = {w1, w2}
    None = None
    Deniable = {}
    MaxFault = 2
    Edited = {goods}
    AtOnce = FALSE
SYMMETRY Symmetry
INVARIANTS AllOrNone
