SPECIFICATION Spec
CONSTANTS
    d1 = d1
    u1 = u1
    r1 = r1
    r2 = r2
    h1 = h1
    h2 = h2
    Device = {d1}
    User = {u1}
    Row = {r1, r2}
    SeededRow = {r1}
    Handler = {h1, h2}
    Rest = Rest
    None = None
    MaxOps = 3
    PushBatch = 2
    MaxRest = 2
    MaxLost = 1
    MaxKilled = 0
    MaxRefused = 0
    FinalRefusals <- InsertsOnly
    TransientRefusals <- NoRefusals
    EditDuringSync = FALSE
SYMMETRY Symmetry
INVARIANTS TypeOK NoUnseenOverwrite DeviceAgrees
