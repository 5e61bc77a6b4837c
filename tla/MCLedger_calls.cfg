SPECIFICATION FairSpec
CONSTANTS
    Txs = {t1, t2}
    NoTx = NoTx
    acc1 = acc1
    acc2 = acc2
    Accounts = {acc1, acc2}
    NoAccount = NoAccount
    Idents = {1, 2, 3, 4, 5}
    Amounts = {1}
    Resolve <- TwoNames
    Rank <- IdentityRank
    InitBalance <- TwoBalances
INVARIANTS
    BooksInv
    StatementChain
    DoubleEntry
    DeadlockNeedsTwoNames
PROPERTIES
    ImplementsAtomicLedger
    EveryCallEnds
CHECK_DEADLOCK FALSE
