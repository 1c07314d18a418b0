SPECIFICATION FairSpec
CONSTANTS
    d1 = d1
    u1 = u1
    u2 = u2
    r1 = r1
    h1 = h1
    h2 = h2
    Device = {d1}
    User = {u1, u2}
    Row = {r1}
    SeededRow = {}
    Handler = {h1, h2}
    Rest = Rest
    None = None
    MaxOps = 2
    PushBatch = 2
    MaxRest = 1
    MaxLost = 0
    MaxKilled = 1
    MaxRefused = 1
    FinalRefusals <- UpdatesOnly
    TransientRefusals <- AllKinds
    EditDuringSync = TRUE
INVARIANTS AppliedOnce StatusIsTrue
PROPERTIES EveryOpSettles
