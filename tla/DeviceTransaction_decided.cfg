CHECK_DEADLOCK FALSE
SPECIFICATION FairSpec
CONSTANTS
    sold = sold
    void1 = void1
    void2 = void2
    back1 = back1
    back2 = back2
    goods = goods
    w1 = w1
    w2 = w2
    Doc = {sold, goods}
    Says <- SaysThat
    Worker = {w1, w2}
    None = None
    Deniable = {"bill", "charge"}
    MaxFault = 1
    Edited = {goods}
    AtOnce = TRUE
INVARIANTS AllOrNone
PROPERTIES EveryDocumentIsDecided
