SPECIFICATION Spec
CONSTANTS
    u1 = u1
    u2 = u2
    s1 = s1
    s2 = s2
    r1 = r1
    c1 = c1
    w1 = w1
    User = {u1, u2}
    Session = {s1, s2}
    Renewal = {r1}
    Revalidation = {c1}
    Worker = {w1}
    None = None
    MaxIssued = 3
    MaxFault = 1
    Apart = {"late", "handover", "signin", "revalidate"}
SYMMETRY Symmetry
INVARIANTS TypeOK LiveIsEntitled 
PROPERTIES DeadStaysDead NotTakenForThief KeepsLiveSession
CHECK_DEADLOCK FALSE
