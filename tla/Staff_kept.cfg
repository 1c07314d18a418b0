SPECIFICATION Spec
CONSTANTS
    w3 = w3
    w2 = w2
    w1 = w1
    o1 = o1
    o2 = o2
    c = c
    b1 = b1
    b2 = b2
    b3 = b3
    n = n
    User = {o1, o2, c, n}
    Branch = {b1, b2, b3}
    Worker = {w1, w2, w3}
    Role = {"owner", "cashier"}
    None = None
    Start <- TwoBranches
    MaxRow = 10
    MaxAsked = 3
    Alone = {"revoke"}
    MadeMeanwhile = FALSE
SYMMETRY Symmetry
INVARIANTS TypeOK ShopKeepsOwner StaysEmployed
CHECK_DEADLOCK FALSE
