CHECK_DEADLOCK FALSE
SPECIFICATION Spec
CONSTANTS
    c = c
    x = x
    h = h
    s1 = s1
    s2 = s2
    v = v
    r1 = r1
    r2 = r2
    pay = pay
    off = off
    lim = lim
    stop = stop
    again = again
    nil = nil
    over = over
    recv = recv
    ps1 = ps1
    ps2 = ps2
    adj = adj
    cl = cl
    w1 = w1
    w2 = w2
    w3 = w3
    Product = {1, 2}
    Customer = {c}
    Supplier = {x}
    Shift = {h}
    Request = {s1, s2, v, r1, r2, pay, off, lim, stop, again, recv, ps1, ps2, adj, cl, nil, over}
    Mixes <- ThreeMixes
    Asks <- Asks16
    Price <- Prices
    Unit <- Units
    OnHand0 <- Stock
    Debt0 <- Debts
    Owed0 <- Owes
    Limit0 <- Limits
    Worker = {w1, w2, w3}
    None = None
SYMMETRY Symmetry
INVARIANTS TypeOK BalancesHold ReturnsAddUp CirclesAreOfCarts
PROPERTIES CreditKept
