SPECIFICATION FairSpec
CONSTANTS
    r1 = r1
    r2 = r2
    r3 = r3
    u1 = u1
    u2 = u2
    w1 = w1
    w2 = w2
    Row = {r1, r2}
    Master <- NoRow
    Editable <- NoRow
    User = {u1}
    Writer = {w1, w2}
    None = None
    FirstScope <- OneReader
    PageSize = 1
    MaxPages = 2
    MaxWrites = 3
    MaxRescopes = 2
    MaxRestores = 1
    MaxStops = 1
    ChangesDuringPull = FALSE
INVARIANTS AgreesWithServer
PROPERTIES FeedIsRead
