# Verification of the ruralpay payment backend

The repository (a Go service, `src/cmd` and `src/internal`) is a payment backend
over PostgreSQL and Redis: card payments, transfers to other banks, USSD and QR
payment codes, user sessions, and a software security module (HSM) that keeps
signing keys in files. This directory holds TLA+ specifications of the parts that
keep state, the TLC runs that check them, and proofs that TLAPS checks of what
every component promises.

    tlc -config MCLedger_calls.cfg MCLedger      # any run of the table below
    tlapm LedgerProofs.tla                       # any ...Proofs module

## 1. Inventory

| Component | State it keeps | Operations | Interacts with |
|---|---|---|---|
| `DoubleLedgerService` (`services/ledger_service.go`) | tables `accounts`, `ledger_entries`, `payment_states` | `Transfer` (own transaction), `TransferTx` (inside the caller's) | called by card payments |
| card payments (`services/transaction_service.go`) | table `transactions`, Redis keys `idempotency:*` (24 h), `nonce:*` (10 min), list `settlement_queue` | `CreateTransaction`, `BatchTransactions` with its settlement goroutine; start, shutdown and Redis client of the process | ledger, HSM signatures, ISO 20022 |
| external transfers (same file) | `accounts`, `transactions`, `idempotency:*`, the connection pool | `ExternalBankTransfer` | ISO 20022 settlement; the rows of `accounts` that the ledger moves money on |
| enquiries (same file) | none | balance, history, name enquiry | reads only |
| USSD codes (`services/ussd_service.go`, `handlers/ussd_handler.go`) | table `ussd_codes`, counter `ussd:ratelimit:*` | generate push / pull code, validate and consume, clean up | HTTP handlers |
| QR codes (`services/qr_service.go`) | `qr:*` (5 min) | generate, process | HTTP handlers |
| BVN one-time passwords (`services/auth_service.go`) | `bvn_otp:*` | `ValidateBVN`, `VerifyOTP` | HTTP handlers |
| sessions (`auth_service.go`, `middleware/auth.go`) | tables `users`, `accounts`, `blacklist:*` | `Register`, `Login`, `Logout`, `AuthMiddleware`, `GetUserAccount` | every protected handler |
| HSM (`hsm/hsm.go`, `services/hsm_key_service.go`) | keys in memory, key files, table `hsm_keys` | start, generate, sign, verify, encrypt and decrypt card data, rotate, delete, sync | card payments, card provisioning |
| ISO 20022 (`services/iso20022_service.go`) | none | convert to pacs.008, send (a log line) | payments |
| card provisioning, bank directory, voice banking, validation, audit log, configuration, static files, generated `docs/docs.go` | none that other parts read | stubs, static data, pure functions, I/O | |

What is hard here. Each request is a goroutine; nothing in the process orders two
requests. Order comes from PostgreSQL row locks, unique indexes and commits, and
from single Redis commands; a handler that uses two Redis commands or two
transactions has a gap between them. Any statement may fail, a COMMIT may take
effect without its caller knowing, a client may repeat a request, the server may
stop anywhere, and key files may be torn. PROJECT.json lists each such place
under `hazards`; one without properties is a promise that does not hold (section 4).

What makes each part correct. (Section 4 names the promises that the code does
not keep.)

- Ledger: no overdraft; the balances add up; one debit and one credit per
  committed transfer and none otherwise; the account statement chains; no
  deadlock; every call ends; the whole looks atomic.
- Card payments: one payment moves money once; a row exists exactly when money
  moved; a success answer and a cached status are true; it goes to settlement one way
  only; a retry is not lost; counters grow.
- Ledger and external transfers on one table: no payment of one kind undoes one
  of the other; the books balance.
- External transfers: no overdraft; all money accounted for; one message per
  reference; success is durable; a recorded failure stays one; requests end.
- USSD, QR, OTP: consumed once, in time, the latest one, never refused while
  good; the rate limit neither exceeded nor too strict; expired codes go away.
- HSM: what signs now verifies, and what is sealed opens, after any restart; what is deleted stays deleted;
  what is rotated signs no more, and signing goes on.
- Sessions: each user has one account; a revoked token stays revoked; a login
  gives access, to one's own profile.

## 2. Modules

| Module | Models |
|---|---|
| `AtomicLedger` | the abstract promise of the ledger: whole, covered transfers, one at a time |
| `Ledger` | `Transfer` and `TransferTx`, one action per SQL statement |
| `LedgerInvariant`, `LedgerProofs` | the inductive invariants of rows and of books; the theorems and their proofs: rows and refinement, then books, deadlock and sums |
| `AtomicAccounts` | the abstract promise of table `accounts` to both kinds of payment; `SharedAccounts` and `ExternalTransfer` implement it |
| `SharedAccounts` | `Ledger` and the database transaction of `ExternalBankTransfer` on the same rows: the two composed, statement by statement |
| `SharedAccountsProofs` | its inductive invariant, theorems and proofs, on top of those of `LedgerProofs` |
| `Payments` | `CreateTransaction` and `BatchTransactions` between client, PostgreSQL and Redis, in a process that ends, starts, and may have no Redis client. The ledger transfer is one step, as `Refinement` allows |
| `ExternalTransfer` | `ExternalBankTransfer`, row locks and connection pool |
| `Ussd` | the three operations of `USSDService` and the handler's choice of code type |
| `OneTimeSecret` | the abstract promise of a one-time secret: it stands until redeemed, replaced or lapsed; and what is left of it in a server without its store |
| `OneTimeTokens` | QR codes (`GenerateQRCode`, `ProcessQRCode`) and OTPs (`ValidateBVN`, `VerifyOTP`): both are a Redis key that is set with a TTL, read, and deleted in a separate command, in a process that has a Redis client or a nil one |
| `Hsm` | the life of key pairs across starts and crashes, and what was signed and sealed with them |
| `Sessions` | registration, login, logout, the middleware's two checks, and `GetUserAccount` behind them |
| `PaymentsInvariant`, `ExternalTransferInvariant`, `UssdInvariant`, `OneTimeTokensInvariant`, `HsmInvariant`, `SessionsInvariant` | the inductive invariant of each, conjunct by conjunct; runs check it, proofs rest on it |
| `PaymentsProofs`, `ExternalTransferProofs`, `UssdProofs`, `OneTimeTokensProofs`, `HsmProofs`, `SessionsProofs` | the theorems about each and their proofs |
| `MC...` | constants for TLC: small requests, accounts, symmetry |

Conventions. `pc[h]` is the next step of a handler (goroutine); an action is one
statement, one Redis command or one file operation with the code up to the next
one. `reply` is what the client was told. History variables (`moved`, `sent`,
`signed`, ...) record what the outside world has seen. A definition whose name is
that of another one followed by `_Something` is a plausible mistake in that
definition's code; PROJECT.json pairs it with the property that notices it.

How the state corresponds to the code, for the core module `Ledger`:

| TLA+ | Code |
|---|---|
| `row`, `durable`, `owner` | newest and committed version of each `accounts` row, holder of its lock |
| `journal` | `ledger_entries` in id order, with the dead rows of rolled-back transactions; visible when `pc[tx] = "committed"` |
| `states` | `payment_states` rows of the call's transaction |
| `locked[t].first`, `.second` | the two `models.Account` values `lockAccount` returned |
| `Resolve`, `Rank` | `WHERE card_id = $1 OR account_id = $1 OR id = $1`; the order of Go strings |
| `Begin` ... `Commit`, `AppendFailed`, `Rollback` | the lines of `Transfer` and `TransferTx` in order |
| `StatementFails`, `DeadlockVictim` | any SQL error; PostgreSQL's deadlock detector |

## 3. Runs

Passing runs:

| Run | Shows | Bounds, and why they are enough |
|---|---|---|
| `ledger_calls` | inductive invariant of rows and books (types and no overdraft included), statement chain, double entry, a deadlock needs one row under two names, refinement, every call ends | 2 calls, 2 rows with 2 identifiers each plus an unknown one, amount 1 over balances 2 and 1: every pair of same, crossed, self and unknown transfers, covered and not. Interference is between two transactions on a row; the theorems lift the bound for most of it |
| `shared_accounts` | books balance, a deadlock needs a row under two names or the fee account, refinement of `AtomicAccounts` | 2 card payments and 1 external transfer on 2 rows, one of them the fee account unless the configured one is missing; 2 names for the customer's row, 1 for the other, 1 that finds nothing (for the transfer; `ledger_calls` has it for card payments); balances for one or two payments. One external transfer, as `ExternalTransfer` has them among themselves |
| `pay_create` | inductive invariant (types included), row iff moved (and that once), cache true | 3 overlapping handlers, so a duplicate, its original and a stranger's payment meet; the process restarts, Redis commands fail and keys disappear |
| `pay_serial` | money once, answers true, settled one way (sent once by a batch, or queued), no money without Redis | 2 requests, one after the other, the process restarting with Redis or without, over single payments and batches; a RPUSH takes effect up to 2 times (4 in the code: one repeat is enough to tell a copy from none); the clock passes the timestamp window and the life of nonces |
| `ext_transfers` | inductive invariant (no overdraft included), refinement of `AtomicAccounts`, money accounted for, sent once, success durable, cache committed, requests all wait only for the pool, and end unless it is exhausted | 3 handlers on 3 connections, so the pool can be exhausted; 4 references: two compete for one account, any may be delivered three times, one is from a blocked account, one from somebody else's; amounts in halves, so that fractions are cut off; both parts of the fee |
| `ussd_codes` | inductive invariant, single use, limit kept, used in time | 4 requests, 3 codes of both types, limit 2 per window of 2, clock past a window into the next; the counter raised by 1 or 2 (up to 4 in the code); generations one after the other, validations overlapping, every failure, the clean-up running |
| `token_serial` | inductive invariant, refinement of `OneTimeSecret` (with Redis only what stands is redeemed, and once if DEL took effect), and not refused while good, where Redis answered | 3 requests (enough for a code that is issued, redeemed and tried again, and for an OTP that is replaced and then tried), a QR code and a BVN with two OTPs, TTLs of 1 and 2 ticks and a clock past both; commands that fail, and that take effect although they seem to fail; restarts anywhere, with Redis or without; one request at a time per key |
| `hsm_restarts` | inductive invariant, memory is on disk, signatures verify and sealed data opens, published keys are used, deleted keys stay deleted | 6 key pairs: three defaults, one other, and two more that are rotated or generated again; crashes inside each write |
| `session_tokens` | inductive invariant, each user has one account; a logged-out token is never accepted; a profile is one's own | 3 requests: three registrations of two people with one phone and of one person twice, two account ids so that they collide; or a registration, a logout and a use; tokens of 1 tick, clock past their life; the sequence of ids starts so that they pass the first one that is printed with an exponent |

`CHECK_DEADLOCK FALSE` is set everywhere: requests are finite in number, so every
system comes to rest. Deadlock between calls is a property of its own
(`DeadlockNeedsTwoNames`, `CircleNeedsNamesOrFee`, `OnlyThePoolStops`,
`EveryCallEnds`, `EndsUnlessPoolExhausted`).

Runs that end in a violation, each a disagreement between the code and a line of
its documentation or comments (quoted in PROJECT.json under `findings`):

| Run | What TLC finds |
|---|---|
| `pay_batch_race` | two overlapping batches with one payment both pass the nonce check and move the money twice |
| `pay_counter` | the counter of an accepted payment is never stored, so counters need not grow |
| `token_qr_race` | two requests read a QR code before either deletes it, and both process it |

A constant tells a passing run from its violation: `Overlap` for `MoneyMovesOnce` of
batches and for `RedeemedOnce`. Together they say which circumstance the code
needs.

## 4. Disagreements that no run is kept for

Met while modelling. Where a constant is named, giving it that value in the run
makes TLC show the violation; the others follow from the action at the line.

| Code | Says otherwise | What happens |
|---|---|---|
| `ledger_service.go:54` | `ledger_service.go:52`, "Lock accounts in consistent order to prevent deadlocks" | the order compares identifiers, not rows: A to B by card ids against B to A by account ids deadlock, and PostgreSQL fails one. `DeadlockNeedsTwoNames` has the circumstance, and no more is true |
| `transaction_service.go:1535` | the same line | the fee account is locked last by external transfers, in the ledger's order by card payments: the two can deadlock (the second alternative of `CircleNeedsNamesOrFee`) |
| `transaction_service.go:1466` | `migrations/README.md:7`, "double-entry bookkeeping" | external transfers write no `ledger_entries`: a statement read from them no longer chains to the balance (`StatementChain` is of `Ledger` alone) |
| `transaction_service.go:1441` | | the debit drops the fraction of the amount, the message carries it (`MoneyAccountedFor` has the difference) |
| `transaction_service.go:1219` | | `Register` writes no `user_id` to the account row, so a fresh user owns no account by this check |
| `transaction_service.go:1053`, `:992` | | external transfers are stored without `user_id` and are missing from recent history; the other listing scans a DECIMAL into an int64 and filters by a column the table does not have |
| `database/redis.go:28` | the same line, "continuing without Redis" | it returns nil, and the first command of a payment, USSD code or QR code panics; `Recoverer` answers 500. `NoRedisNoMoney` is the good side of it |
| `auth_service.go:368` | `auth_service.go:348`, "Invalid or expired OTP" | only the OTP handlers look for the nil client, and go on without: `ValidateBVN` says an OTP was sent that is stored nowhere, and `VerifyOTP` accepts every OTP (`Pass` of `OneTimeSecret`) |
| `auth_service.go:371` | the same line | any Redis error is answered so, whatever the OTP is (`RefusedIsInvalid` speaks of the requests whose GET was answered) |
| `qr_service.go:81`, `auth_service.go:383` | `docs/QR_CODE_FEATURE.md:110`, "One-time use only (deleted after processing)" | the error of DEL is ignored, and a secret that was redeemed then stands until it lapses |
| `cmd/server/main.go:253` | `main.go:236`, "Graceful shutdown" | `Shutdown` waits for handlers, not for settlement goroutines: processed batch payments may never be sent |
| `middleware/auth.go:75` | `auth_service.go:194`, "Login successful" | ids from 1000000 on are printed as `1e+06`: the token is accepted and then serves nothing (`ReadAs`) |
| `hsm.go:463` | | `VerifyPIN` takes the first 16 bytes for the salt, `HashPIN` accepts a salt of any length: with another one no PIN verifies |
| `transaction_service.go:811` | `SECURITY_FEATURES.md:48`, "Safe retry mechanism" | the nonce is stored before the payment is tried; a payment that then failed is refused as a replay |
| `transaction_service.go:1587` | `SECURITY_FEATURES.md:48`, `:50` | a settlement that failed after the debit is not sent again: the retry is answered as already processed |
| `transaction_service.go:1559` | `SECURITY_FEATURES.md:15`, "same result" | the cache says PENDING for 24 hours, also when the row has been marked `FAILED_...` since: a repeat is told the first |
| `transaction_service.go:323` | | a batch payment whose INSERT failed is answered "Storage failed", with its money moved and no row (`SuccessIsTrue` is the other direction) |
| `transaction_service.go:905` | | a RPUSH is sent again when no reply comes (`redis.go:19` leaves go-redis at 3 retries): the settlement queue may hold copies of one payment. `SettledOneWay` says what is left |
| `ussd_service.go:64` | `docs/USSD_TECHNICAL_FLOW.md:168`, "5 codes per user per hour" | overlapping generations read one count and exceed the limit (`Overlap = TRUE`, `MaxGeneration = 1`, `WithinLimit`) |
| `ussd_service.go:188` | the same line | each code starts the hour anew, so a steady user is refused with fewer codes in the last hour |
| `ussd_service.go:72` | `docs/USSD_TECHNICAL_FLOW.md:153`, 5 minutes | a `TIMESTAMP` without zone: on a server east of UTC codes live longer (`ZoneOffset = 1`, `ConsumedInTime`) |
| `ussd_service.go:192` | `docs/USSD_TECHNICAL_FLOW.md:154`, "Background job" | nothing calls the clean-up (`CleanupRuns = FALSE` is the program) |
| `handlers/ussd_handler.go:138` | `docs/USSD_TECHNICAL_FLOW.md:318`, "not found or wrong format" | only PULL codes are looked for, so a fresh PUSH code is "invalid" |
| `auth_service.go:383` | `auth_service.go:348`, "Invalid or expired OTP" | the DEL of one verification removes a newer OTP, which is then refused (`Overlap = TRUE`, `RefusedIsInvalid`) |
| `auth_service.go:281` | `auth_service.go:266`, "Logout user and blacklist token" | a failed SET is logged and the logout reported as successful |
| `auth_service.go:231` | `auth_service.go:196`, "Invalid credentials" | phone numbers are not unique: of two users with one, one is refused with the right password |
| `auth_service.go:438` | `auth_service.go:194`, "Login successful" | a login in the second of a logged-out one returns the blacklisted token |
| `hsm.go:139` | `migrations/008_seed_initial_data.sql:28` | defaults are generated only into an empty store: a stop after the first one leaves it incomplete for good |
| `hsm.go:505` | `docs/HSM_SECURITY.md:11`, "Graceful Transition" | the new key has a name nobody signs with and the old one is inactive, until a restart, as the mark is not saved, makes it active again |

## 5. Fairness

- `Ledger!FairSpec`: weak fairness of each call's next statement and of the
  deadlock detector. Goroutines and connections are scheduled, and PostgreSQL
  looks for deadlocks after `deadlock_timeout`. No fairness on failures or on
  calls beginning.
- `ExternalTransfer!FairSpec`: weak fairness of each handler's steps; `database/sql`
  gives a free connection to a waiting request.

No other module has a liveness property.

## 6. What is proved

Everything here holds for every value of the constants that satisfies the
module's named assumption (`LedgerAssumption`, `PaymentsAssumption`, ...), which
says what the constants are (sets of requests of the right shape, times that are
numbers, amounts that are positive) and these facts of the code's surroundings:
an identifier finds at most one row and the order of strings is injective
(`Ledger`); a reference names one request, an amount is at least 1, and no one
sends from the fee account (`ExternalTransfer`); a payload names one QR code
(`OneTimeTokens`); no derived key equals that of a torn file, and default ids are
not ids of other keys (`Hsm`); handlers are finite in number where their number
is compared with a limit, and accounts and transfers where something is added up
over them.

| Module | Theorem | Statement | Run that checks it |
|---|---|---|---|
| `LedgerProofs` | `LedgerInvariance`, `TypeCorrectness` | `Spec => []IInv`, `[]TypeOK` | as a part of `BooksInv` |
| | `NeverOverdrawn` | `Spec => []NoOverdraft` | as a part of `BooksInv` |
| | `Refinement` | `Spec => ImplementsAtomicLedger` | `ledger_calls` |
| | `BooksInvariance` | `Spec => []BooksInv` | `ledger_calls` |
| | `StatementsAreRight` | `Spec => []StatementChain` | `ledger_calls` |
| | `CommittedIsDoubleEntry` | `Spec => []DoubleEntry` | `ledger_calls` |
| | `DeadlockFreedom` | `Spec => []DeadlockNeedsTwoNames` | `ledger_calls` |
| | `MoneyIsKept` | `IsFiniteSet(Accounts) => (Spec => []TotalKept)` | none |
| `SharedAccountsProofs` | `SharedInvariance` | `SharedSpec => []SharedInv` | none |
| | `PaymentsStayWhole` | `SharedSpec => ImplementsAtomicAccounts` | `shared_accounts` |
| | `SharedDeadlock` | `SharedSpec => []CircleNeedsNamesOrFee` | `shared_accounts` |
| | `BooksAlwaysBalance` | `SharedSpec => []BooksBalance` | `shared_accounts` |
| `PaymentsProofs` | `Invariant`, `TypeCorrect` | `Spec => []IInv`, `[]TypeOK` | `pay_create` |
| | `RowExactlyWhenMoneyMoved` | `Spec => []RowIffMoved` | `pay_create` |
| | `CacheNeverAhead` | `Spec => []CachedIsStored` | `pay_create` |
| | `SuccessNeverFalse` | `Spec => []SuccessIsTrue` | `pay_serial` |
| | `SettledByOneWay` | `Spec => []SettledOneWay` | `pay_serial` |
| | `NoRedisMovesNoMoney` | `Spec => NoRedisNoMoney` | `pay_serial` |
| | `NoDoubleCharge` | `Serial => (Spec => []MoneyMovesOnce)` | `pay_serial` |
| `ExternalTransferProofs` | `Invariant` | `Spec => []IInv` | `ext_transfers` |
| | `NeverOverdrawn` | `Spec => []NoOverdraft` | as a part of `IInv` |
| | `SentAtMostOnce` | `Spec => []SentOnce` | `ext_transfers` |
| | `SuccessNeverFalse` | `Spec => []SuccessIsDurable` | `ext_transfers` |
| | `CacheNeverAhead` | `Spec => []CachedIsCommitted` | `ext_transfers` |
| | `NoDeadlockButThePool` | `Spec => []OnlyThePoolStops` | `ext_transfers` |
| | `TransfersStayWhole` | `Spec => ImplementsAtomicAccounts` | `ext_transfers` |
| | `MoneyAlwaysAccountedFor` | `Spec => []MoneyAccountedFor` | `ext_transfers` |
| `UssdProofs` | `CodeInvariant`, `Invariant` | `Spec => []CodeInv`, `[]IInv` | `ussd_codes` |
| | `OnePaymentPerCode` | `Spec => []SingleUse` | `ussd_codes` |
| | `NeverConsumedLate` | `ZoneOffset <= 0 => (Spec => ConsumedInTime)` | `ussd_codes` |
| | `RateLimitHolds` | `~Overlap => (Spec => []WithinLimit)` | `ussd_codes` |
| `OneTimeTokensProofs` | `Invariant`, `TypeCorrect` | `Spec => []IInv`, `[]TypeOK` | `token_serial` |
| | `ValidIsNotRefused` | `~Overlap => (Spec => RefusedIsInvalid)` | `token_serial` |
| | `OneTimeSecrets` | `~Overlap => (Spec => ImplementsOneTimeSecret)` | `token_serial` |
| `HsmProofs` | `Invariant` | `Spec => []IInv` | `hsm_restarts` |
| | `KeysAreSaved` | `Spec => []MemoryIsSaved` | `hsm_restarts` |
| | `SecretsOutliveTheProcess` | `Spec => []SignedAndSealedSurvive` | `hsm_restarts` |
| | `PublishedKeysAreUsed` | `Spec => []PublishedIsUsed` | `hsm_restarts` |
| | `DeletedForGood` | `Spec => []DeletedStaysDeleted` | `hsm_restarts` |
| `SessionsProofs` | `Invariant` | `Spec => []IInv` | `session_tokens` |
| | `OneAccountPerUser` | `Spec => []AccountOfEachUser` | `session_tokens` |
| | `LoggedOutStaysOut` | `Spec => []LogoutIsFinal` | `session_tokens` |
| | `OwnProfileOnly` | `Spec => []ProfileIsOwn` | `session_tokens` |

The hypotheses on the left of `=>` are the circumstances that the code needs and
does not enforce; where one fails, the property fails too, by a run of section 3
(`pay_batch_race`) or by the constants of section 4 (`ZoneOffset = 1`, `Overlap =
TRUE`). They are constants of the runs: `ussd_codes`, `token_serial` and
`pay_serial` have the values that satisfy them. `Serial` reads: requests do not
overlap, Redis keeps its keys, and a nonce (10 minutes) lives longer than the
window in which a timestamp is accepted (5 minutes back, 30 seconds ahead).

The arguments, each module's inductive invariant being the conjunction of the
parts named here with its types and its safety properties:

**Ledger, rows** (`IInv`). `NoOverdraft` is not inductive: nothing in it ties the
balance a call compared with the amount to the balance it later writes. `IInv`
adds the chain that does: a lock has a running owner, and an unlocked row has no
uncommitted version (`LockInv`); what `lockAccount` returned is a locked row and
still its committed version (`SnapshotInv`); a call owns only its two rows
(`OwnInv`); its rows are unchanged before the UPDATEs and are exactly debited and
credited after them, and are two different rows (`WriteInv`). The last point is
where the version check matters: a call whose two identifiers name one row passes
the first UPDATE and then finds its version gone. With `IInv`, `Commit` is a
`Move` of `AtomicLedger` and every other action leaves `durable` alone. No
assumption on deadlock or on one name per row is needed: mutual waiting costs
progress, never money.

**Ledger, books** (`BooksInv`). Ids are given at the INSERT and become visible at
the COMMIT, so that entries may appear before others with higher ids. Each call
has made exactly the entries, with the balances of its snapshot, and the payment
states of its place in the code (`EntryInv`, `StateInv`). What it enters on a row
comes after every entry of that row that is visible while it runs (`OrderInv`),
since the row lock lets nobody else commit an entry there meanwhile. A commit
therefore extends two statements by one newest entry each, whose balance is
the snapshot's plus its amount, and by `IInv` the snapshot is the balance the
statement had reached: `StatementChain` again.

**Ledger, deadlock.** In every circle of waiting calls, of any length, two calls
name one row differently. A member of the circle waits for its second row and
holds its first, which the next member waits for; if both name that row alike,
the string the next one waits for is smaller than the one this one waits for. A
circle where this always held would be a set of ranks without a smallest
(`SmallestNumber`, from the library's theorem on strict subsets of a finite set
and the minimum that well-foundedness gives). A system that always passes account
ids therefore never deadlocks.

**Both kinds of payment on one table** (`SharedInv`). An external transfer works
outside the ledger's protocol, so the ledger's invariant does not hold of the table
as it is. It does hold of the table as the calls could tell it: `CallOwner` and
`CallRow` take the locks of open external transfers away and put the committed
versions in place of theirs. Seen like this, every statement of a call is the same
statement of `Ledger` (`StepProjection`), every step of an external transfer but its
commit is a stutter (`NotSeen`), and its commit changes versions of rows that no call
holds (`CommitSeen`). The lemmas of `LedgerProofs` are then used through `INSTANCE ...
WITH owner <- CallOwner, row <- CallRow` instead of being proved again. The rest of
`SharedInv` is about the external transfer itself (`ExtInv`): it holds its source from
the SELECT on, at last also the fee account if there is one and a fee, and the
versions it is going to commit are the committed ones less its total and plus its fee,
also where source and fee account are one row. This makes its commit a `Withdraw`
of `AtomicAccounts`. The version
number that it leaves as it is is never missed: a call that has read a row holds its
lock to the end, so nothing it read changes under the same number. For the circle: an external transfer in it can only be on its way to the fee
account, whose holder waits too, hence is a call (an external transfer that had it
would not wait) and names it; a circle without external transfers is one of `Ledger`.

**Card payments.** `SettledOneWay` keeps the places where a payment waits or was
sent apart, so the invariant says whose they are: the row of a payment was inserted
by at most one item of one handler that lived to tell (`InsertedOnce`, from the unique
key of `transactions`), what is in the queue has its row and is no batch's
`processed` item (`QueueInv`), and what was sent is a `processed` item no longer in
its goroutine's list (`SentInv`). That copies of one payment can be in the queue does not
matter to it: no batch can insert the row of any of them again. A restart makes handlers forget, never remember, so it preserves
all three. `StoredInv` says that a handler past its INSERT still finds the row; a
cache entry is written only there, so `CachedIsStored`. For `NoDoubleCharge` a
second invariant (`SerialInv`): a payment whose money moved has a nonce that
outlives the last moment at which its timestamp is accepted (`Covered`), and a
handler between the nonce check and the transfer works on a payment whose money
has not moved. That is where the three conditions of `Serial` are used, one each.

**External transfers.** The balance that `SELECT ... FOR UPDATE` compared with
amount and fee is there until the commit, as no two handlers hold one source row
and fee credits only add (`LockInv`); of the requests with one reference at most
one is past its INSERT, and until it commits there is no row, until it sends no
message (`OwnerInv`). The process may stop between any two of these; what stops
leaves `Owning` without sending. A commit is therefore a `Withdraw` of
`AtomicAccounts`, and no other step changes a balance. For `OnlyThePoolStops`: who is
to commit waits for nobody, and the fee account is locked by nobody else (no
transfer is from it), so none waits for it in the end; then no row is locked and
nothing is being inserted, and what is left are requests without a transaction,
which want a connection, and transactions before `verifyAccountOwnership`, which
want a second one. There are no more transactions than connections (`PoolInv`), so
these hold all of them. Row locks alone would never do it, in any number.
`Waits` says more requests wait than do (a rejection's INSERT may not be needed);
so the theorem says more than that one of them can go on.

**Sums of money** (`TotalKept`, `BooksBalance`, `MoneyAccountedFor`). They add up with
`SumFunction` of the community modules, which folds over a set by a recursion that
takes out some element. That the recursion has a solution on every finite set is
shown by the size of its subsets (`FoldExists`); what it computes, by a subset
that is wrong while none of its proper subsets is (`NoneWrong`, from well-foundedness):
a function changed at one point, or at two, adds up to a sum changed by as much
(`SumChange`, `SumOfTwoChanges`), whichever element the recursion takes out first.
Then each commit has a line of arithmetic: a call's gives one account what it takes
from another; an external transfer's takes its total from the source, also where
source and fee account are one row or there is no fee account, and what reaches no
account is the addend of `Left` that it turns from zero. In `ExternalTransfer`
accounts count in whole units and messages in `Parts` of one, and the commit's two
addends, amount and fraction, differ by the whole units it took. The other two
modules take the lemmas from `LedgerProofs` by INSTANCE; they do not depend on the
ledger, so `ExternalTransferProofs` instantiates it without calls or accounts.

**USSD codes.** A row knows the handler that made it (`RowInv`), the holder of the
row lock has an unused, unexpired code to itself (`ConsumeInv`), and the row of a
consumed code is used or gone (`GotInv`); the last is not affected by a code being
generated again, as the new row has a new id. For the rate limit, the counter of
a user expires no earlier than `Window` after the last code that it counted, and is
at least the number of codes in the current window (`WindowInv`): each increment
extends the key, so that a counter that has expired has no code left to count,
and a window that ends at a code is no larger than the current one was then.

**One-time secrets.** A handler on its way to a DEL has a Redis client, and no
handler has heard from Redis before its GET (`ReplyInv`). With one request at a time
per key, Redis has the latest secret it stored until that is spent (`StandsInv`), and
a handler about to delete read exactly that (`HeldInv`). Every action is then a step
of `OneTimeSecret` or changes nothing that it sees: `Tick` lets secrets lapse; a SET
is an issue, also if it is reported as failed, and an OTP that is sent without Redis
none; `Delete` after a GET that matched is the redemption, a failed one a redemption
after which the secret stands; a DEL that takes effect under a process that then ends
is a lapse; what `VerifyOTP` accepts without a client is a `Pass`.

**HSM.** Everything rests on no key pair having two names (`UniqueInv`): a torn
file or a failed save then concerns one name, the deletion of one name deletes the
pair. What was signed, sealed or published stands in a readable file of its
default name (`OutsideInv`); a start loads all readable files and nothing takes a
default key out of memory (`LoadedInv`); and defaults are
generated again only into a store that has no readable file, where by
`OutsideInv` nothing is outside (`GenerateInv`). `MemoryIsSaved` closes the circle:
rotation and crash leave the files of what is in memory.

**Sessions.** Open registrations clash with no committed row and with no other
open one, because an INSERT waits for the uncommitted rows it clashes with
(`RegistrationInv`); a user id stands for one person, and tokens carry the id of
their person (`IdentityInv`), which with `ReadAs` (an id is read back as itself or
not at all) gives `ProfileIsOwn`. `LogoutIsFinal` follows from an inequality: the
blacklist key outlives the token (`BlacklistInv`), so that a late request is
refused by Redis, or, once Redis has forgotten, by the expiry in the token.

Only model-checked:

- All liveness (`EveryCallEnds`, `EndsUnlessPoolExhausted`): fairness and ENABLED are
  outside the prover's reach. The theorems on deadlock are the part of them that is
  about states: what can stop everybody.
- The runs that end in a violation, by their nature.

## 7. Assumptions and what is left out

- PostgreSQL at READ COMMITTED: row locks until the end of a transaction, `FOR
  UPDATE` and `UPDATE` see the newest committed version after a wait, unique
  indexes make a second INSERT wait for the first one's transaction.
- Redis commands are atomic one by one. `SECURITY_FEATURES.md` requires Redis to be
  persistent; `pay_create` drops that, the batch runs keep it.
- `redis.go:19` leaves go-redis at its default of 3 retries. Any command may have taken
  effect although it is reported as failed, and may run again after its reply was
  lost. For a GET, EXISTS, DEL, or a SET to the same value that is as good as
  once; for RPUSH and for the pipeline of INCR and EXPIRE the repeats are in the
  models (`PushAttempts`, `IncrAttempts`).
- Schema as the code expects it. The migrations and the queries disagree in
  places (no `payment_states` table, `accounts.card_id` commented out,
  `transactions.card_id` and `counter` and `cards.cak` absent, a type check that
  excludes DEBIT and CREDIT, a 20-character status column, `total_amount` required
  but not written). On such a schema statements fail, which every module allows
  as a nondeterministic error; the interesting behaviour is with the columns.
- An identifier finds at most one row; the fee account exists (`SharedAccounts`
  drops that); a reference of an
  external transfer names one transfer (`SECURITY_FEATURES.md:38`).
- A key store path is configured (`.env.example:18`): without one keys live in memory
  only (`hsm.go:547`, `:589`), and `Hsm` says nothing. Key files are readable with the
  configured master key: a store of which no file can be read, or decrypted, counts as
  empty and gets new defaults over the old files (`hsm.go:573`). A directory that
  cannot be listed is an error (`hsm.go:556`) and ends the start.
  `RotateKeys`, `DeleteKey` and further `GenerateKeyPair` calls have only test callers
  today; the model lets an operator call them.
- `token_serial` processes one request at a time per key and `ussd_codes` one generation
  at a time per user; what overlap brings is in `token_qr_race` and in section 4.
- Where the code ignores or only logs a Redis error, the property speaks of the
  requests whose command was answered: codes that were counted (`WithinLimit`),
  secrets whose DEL took effect (`RedeemedOnce`; the abstract secret of
  `OneTimeSecret` may survive a failed one) and whose GET was answered
  (`RefusedIsInvalid`), tokens whose SET and EXISTS did
  (`LogoutIsFinal`). The failures themselves are in the actions.
- External transfers: a request whose SELECT finds no row, or fails, fails at
  `verifyAccountOwnership` before it, or by `StatementFails`; a failed UPDATE or INSERT
  aborts the transaction, so the status row that the code then tries to insert
  (`FAILED_DEBIT_ERROR`) is undone with it. Neither has a case of its own.
- Signatures, hashes, codes and passwords are symbolic: an honest value verifies,
  another does not.
- Not modelled: read-only enquiries (they change nothing; section 4 has where
  they disagree with what is stored), the layout of ISO 20022 messages (their
  amount is modelled), card provisioning (a stub), bank directory, voice banking, validation tags, audit log lines,
  configuration, static files, generated API docs; see `components`.

## 8. Plan

Done, in this order: `AtomicLedger` and `Ledger` with runs and proofs; `Payments`;
`ExternalTransfer`; `Ussd`; `OneTimeTokens`; `Hsm`; `Sessions`; then `SharedAccounts`,
the composition of the two kinds of payment on one table, and `OneTimeSecret`;
restarts and the missing Redis client in `Payments`, fractions of amounts in
`ExternalTransfer`, user ids and profiles in `Sessions`, sealed data in `Hsm`.

The proofs, in the order of section 6: rows, refinement, books and deadlock of
`Ledger`; then the safety properties of `Payments`, `ExternalTransfer`, `Sessions`,
`Hsm`, `Ussd` and `OneTimeTokens`, with the refinement of `OneTimeSecret`; then
`SharedAccounts`, from the lemmas of `Ledger`. For these
`toSettle` of `Payments` became the set of positions that the goroutine has yet to
send, in order of position, and the maps of `Hsm` are joined by `Over`; both say
what they said before.

The sums came last (`MoneyIsKept`, `BooksAlwaysBalance`, `MoneyAlwaysAccountedFor`), with
`TransfersStayWhole` and `NoDeadlockButThePool`. For them `BooksBalance` and
`MoneyAccountedFor` moved from the `MC` modules to `SharedAccounts` and
`ExternalTransfer`, the latter made exact: it bounded the fractions by one unit for each
transfer and now adds them up. Every safety property of a run is now proved, and every
passing run's refinement; liveness is left to TLC. A further step would be to prove
the violations of section 3 impossible for the repaired code, once there is one: one
atomic `GETDEL` for codes and secrets, one `SET NX` for nonces, a stored counter.
