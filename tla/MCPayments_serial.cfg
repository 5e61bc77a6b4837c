SPECIFICATION Spec
CONSTANTS
    p1 = p1
    p2 = p2
    p3 = p3
    p4 = p4
    card = card
    shop = shop
    Payments = {p1, p2, p3, p4}
    Accounts = {card, shop}
    Amounts = {1, 2}
    InitBalance <- Balances
    Payment <- FourPayments
    Requests <- AllRequests
    Handlers = {h1, h2}
    PastWindow = 2
    FutureWindow = 1
    NonceTTL = 4
    IdempotencyTTL = 8
    PushAttempts = 2
    MaxTime = 5
    Overlap = FALSE
    KeysLost = FALSE
SYMMETRY HandlerSymmetry
INVARIANTS
    MoneyMovesOnce
    SuccessIsTrue
    SettledOneWay
PROPERTY
    NoRedisNoMoney
CHECK_DEADLOCK FALSE
