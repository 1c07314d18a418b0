CHECK_DEADLOCK FALSE
SPECIFICATION Spec
CONSTANTS
    sold = sold
    void1 = void1
    void2 = void2
    back1 = back1
    back2 = back2
    goods = goods
    w1 = w1
    w2 = w2
    Doc = {sold, void1, void2, back1, back2}
    Says <- SaysThat
    Worker = {w1, w2}
    None = None
    Deniable = {}
    MaxFault = 2
    Edited = {}
    AtOnce = FALSE
SYMMETRY Symmetry
INVARIANTS ShownWhole NoDeadlock
PROPERTIES ImplementsDocuments
