SPECIFICATION MCSpec
CONSTANTS
    Txs = {t1, t2}
    Exts = {x1}
    NoTx = NoTx
    alice = alice
    fees = fees
    Accounts = {alice, fees}
    NoAccount = NoAccount
    Idents = {1, 2, 3, 4}
    Amounts = {1}
    Resolve <- Names
    Rank <- IdentityRank
    InitBalance <- Balances
    ExtRequests <- Transfers
    FeeRows = {fees, NoAccount}
SYMMETRY TxSymmetry
INVARIANTS
    BooksBalance
    CircleNeedsNamesOrFee
PROPERTIES
    ImplementsAtomicAccounts
CHECK_DEADLOCK FALSE
