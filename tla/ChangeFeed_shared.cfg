SPECIFICATION Spec
CONSTANTS
    r1 = r1
    r2 = r2
    r3 = r3
    u1 = u1
    u2 = u2
    w1 = w1
    w2 = w2
    Row = {r1, r2}
    Master = {r1, r2}
    Editable = {r1, r2}
    User = {u1, u2}
    Writer = {w1, w2}
    None = None
    FirstScope <- TwoReaders
    PageSize = 1
    MaxPages = 3
    MaxWrites = 3
    MaxRescopes = 1
    MaxRestores = 0
    MaxStops = 1
    ChangesDuringPull = TRUE
SYMMETRY Symmetry
INVARIANTS TypeOK NothingMissed AgreesWithServer PendingEditKept
PROPERTIES CommitsInOrder
