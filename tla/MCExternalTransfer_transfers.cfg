SPECIFICATION FairSpec
CONSTANTS
    h1 = h1  h2 = h2  h3 = h3
    t1 = t1  t2 = t2  t3 = t3  t4 = t4
    alice = alice  bob = bob  fees = fees
    Handlers = {h1, h2, h3}
    Refs = {t1, t2, t3, t4}
    Accounts = {alice, bob, fees}
    FeeAccount = fees
    InitBalance <- Balances
    Blocked = {bob}
    Requests <- FourTransfers
    Parts = 2
    FeePercent = 50
    FeeFixed = 1
    PoolSize = 3
CHECK_DEADLOCK FALSE
INVARIANTS
    IInv
    MoneyAccountedFor
    SentOnce
    SuccessIsDurable
    CachedIsCommitted
    OnlyThePoolStops
PROPERTIES
    ImplementsAtomicAccounts
    EndsUnlessPoolExhausted
