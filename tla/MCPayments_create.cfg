SPECIFICATION Spec
CONSTANTS
    p1 = p1
    p2 = p2
    p3 = p3
    p4 = p4
    card = card
    shop = shop
    Payments = {p1, p2, p3, p4}
    Accounts = {card, shop}
    Amounts = {1, 2}
    InitBalance <- Balances
    Payment <- FourPayments
    Requests <- CreateRequests
    Handlers = {h1, h2, h3}
    PastWindow = 2
    FutureWindow = 1
    NonceTTL = 4
    IdempotencyTTL = 2
    PushAttempts = 2
    MaxTime = 0
    Overlap = TRUE
    KeysLost = TRUE
SYMMETRY HandlerSymmetry
INVARIANTS
    IInv
    RowIffMoved
    CachedIsStored
CHECK_DEADLOCK FALSE
