-------------------------- MODULE ExternalTransfer --------------------------
(***************************************************************************)
(* TransactionService.ExternalBankTransfer                                 *)
(* (internal/services/transaction_service.go): the customer's account is   *)
(* debited by amount and fee, the fee goes to the system account, and a    *)
(* pacs.008 message goes to the settlement system after the commit.        *)
(*                                                                         *)
(* Concurrent handlers share a bounded pool of database connections, row   *)
(* locks, the UNIQUE transaction_id and the Redis idempotency keys.  A     *)
(* statement may fail, a COMMIT may take effect without the handler        *)
(* learning of it, and a handler may be lost with the server.              *)
(* Definitions named X_Something are mutants of X.                         *)
(***************************************************************************)
EXTENDS Integers, FiniteSets, Functions

CONSTANTS
    Handlers,      \* request handlers, one per request the server receives
    Refs,          \* transaction ids: the client's reference, or EXT-<time>
    Accounts,
    FeeAccount,    \* SYSTEM_FEE_ACCOUNT
    InitBalance,
    Blocked,       \* accounts whose status is not ACTIVE
    Requests,      \* the transfers clients ask for
    Parts,         \* amounts of requests count in Parts-ths of the ledger's unit
    FeePercent, FeeFixed,    \* parameters of calculateFee
    PoolSize       \* SetMaxOpenConns

\* Migration 008 creates the fee account.  SECURITY_FEATURES.md:38 asks clients
\* for a unique id: requests with one ref are deliveries of one transfer.
ASSUME ExternalTransferAssumption ==
    /\ IsFiniteSet(Handlers) /\ IsFiniteSet(Accounts)
    /\ FeeAccount \in Accounts
    /\ InitBalance \in [Accounts -> Nat]
    /\ Blocked \subseteq Accounts
    /\ Requests \subseteq [ref : Refs, from : Accounts \ {FeeAccount},
                           amount : Nat \ {0}, owned : BOOLEAN]
    /\ Parts \in Nat \ {0}
    /\ \A r \in Requests : r.amount >= Parts
    /\ \A r, s \in Requests : r.ref = s.ref => r = s
    /\ FeePercent \in Nat /\ FeeFixed \in Nat /\ PoolSize \in Nat \ {0}

VARIABLES
    pc,        \* the next step of each handler
    req,       \* its request
    reply,     \* what it answered
    balance,   \* committed account balances
    status,    \* column status of the committed row of each ref
    cache,     \* Redis idempotency key of each ref
    sent       \* number of pacs.008 messages of each ref

vars == <<pc, req, reply, balance, status, cache, sent>>

NoStatus == "none"
Rejections == {"FAILED_ACCOUNT_NOT_ACTIVE", "FAILED_INSUFFICIENT_BALANCE"}
Statuses == Rejections \cup {"PENDING", "FAILED_SETTLEMENT_ERROR"}

Replies == {NoStatus, "accepted", "duplicate", "duplicateOfFailed", "refused", "failed"}
InTransaction_UntilReturn == {"owner", "select", "debit", "insert", "fee", "commit",
                              "cachePending", "send", "markFailed"}

InTransaction == {"owner", "select", "debit", "insert", "fee", "commit"}
PCs == InTransaction \cup {"idle", "idempotency", "database", "begin",
                           "cachePending", "send", "markFailed", "ended"}

\* int64(req.Amount): the ledger's share of an amount loses its fraction; the
\* pacs.008 message carries req.Amount itself.
Truncated_RoundedUp(amount) == (amount + Parts - 1) \div Parts

Truncated(amount) == amount \div Parts
Amount(h) == Truncated(req[h].amount)

\* calculateFee: a percentage, rounded down, and a fixed part.
CalculateFee(amount) == (amount * FeePercent) \div 100 + FeeFixed
Fee(h) == CalculateFee(Amount(h))
Total(h) == Amount(h) + Fee(h)

Ref(h) == req[h].ref
From(h) == req[h].from

Goto(h, step) == pc' = [pc EXCEPT ![h] = step] /\ UNCHANGED reply

\* Every way out of the handler; the deferred Rollback ends its transaction.
Answer(h, outcome) ==
    /\ reply' = [reply EXCEPT ![h] = outcome]
    /\ pc' = [pc EXCEPT ![h] = "ended"]

\* A statement outside the handler's transaction, and BEGIN, need a connection
\* of their own: database/sql waits for one without a time limit.
ConnectionFree == Cardinality({h \in Handlers : pc[h] \in InTransaction}) < PoolSize

\* Rows the uncommitted transaction of h has locked.
LockedAccounts(h) ==
    {a \in Accounts : \/ a = From(h) /\ pc[h] \in {"debit", "insert", "fee", "commit"}
                      \/ a = FeeAccount /\ Fee(h) > 0 /\ pc[h] = "commit"}
Unlocked(h, a) == \A g \in Handlers \ {h} : a \notin LockedAccounts(g)

\* An INSERT waits for a transaction that has inserted the same transaction_id.
NotBeingInserted(h) ==
    \A g \in Handlers \ {h} : pc[g] \in {"fee", "commit"} => Ref(g) # Ref(h)

-----------------------------------------------------------------------------
Init ==
    /\ pc = [h \in Handlers |-> "idle"]
    /\ req \in [Handlers -> Requests]
    /\ reply = [h \in Handlers |-> NoStatus]
    /\ balance = InitBalance
    /\ status = [r \in Refs |-> NoStatus]
    /\ cache = [r \in Refs |-> NoStatus]
    /\ sent = [r \in Refs |-> 0]

Receive(h) ==
    /\ pc[h] = "idle"
    /\ Goto(h, "idempotency")
    /\ UNCHANGED <<req, balance, status, cache, sent>>

\* "success" of a duplicate's reply.
AnswerDuplicate_Success(h, old) == Answer(h, "duplicate")

AnswerDuplicate(h, old) ==
    Answer(h, IF old = "PENDING" THEN "duplicate" ELSE "duplicateOfFailed")

\* checkIdempotency: a Redis error reads as "not found".
CheckIdempotency(h) ==
    /\ pc[h] = "idempotency"
    /\ \/ cache[Ref(h)] # NoStatus /\ AnswerDuplicate(h, cache[Ref(h)])
       \/ Goto(h, "database")
    /\ UNCHANGED <<req, balance, status, cache, sent>>

\* setIdempotency, whose error is ignored.
SetIdempotency(ref, value) ==
    \/ cache' = [cache EXCEPT ![ref] = value]
    \/ UNCHANGED cache

\* SELECT status: any error, "no rows" or not, means going on.  Found, the
\* status is cached and reported; nobody acts on it between the two.
CheckDatabase(h) ==
    /\ pc[h] = "database"
    /\ ConnectionFree
    /\ \/ /\ status[Ref(h)] # NoStatus
          /\ SetIdempotency(Ref(h), status[Ref(h)])
          /\ AnswerDuplicate(h, status[Ref(h)])
       \/ Goto(h, "begin") /\ UNCHANGED cache
    /\ UNCHANGED <<req, balance, status, sent>>

Begin(h) ==
    /\ pc[h] = "begin"
    /\ ConnectionFree
    /\ Goto(h, "owner")
    /\ UNCHANGED <<req, balance, status, cache, sent>>

\* verifyAccountOwnership asks ts.db, not the transaction: a second connection.
VerifyOwner(h) ==
    /\ pc[h] = "owner"
    /\ ConnectionFree
    /\ IF req[h].owned THEN Goto(h, "select") ELSE Answer(h, "refused")
    /\ UNCHANGED <<req, balance, status, cache, sent>>

\* A row with a FAILED_* status is inserted and committed, if the database
\* takes it: both errors are ignored.
RecordRejection(h, reason) ==
    /\ NotBeingInserted(h)
    /\ \/ status[Ref(h)] = NoStatus /\ status' = [status EXCEPT ![Ref(h)] = reason]
       \/ UNCHANGED status
    /\ Answer(h, "refused")

\* SELECT balance, status ... FOR UPDATE.
SelectSource(h) ==
    /\ pc[h] = "select"
    /\ Unlocked(h, From(h))
    /\ \/ /\ From(h) \in Blocked
          /\ RecordRejection(h, "FAILED_ACCOUNT_NOT_ACTIVE")
       \/ From(h) \notin Blocked /\ Goto(h, "debit") /\ UNCHANGED status
    /\ UNCHANGED <<req, balance, cache, sent>>

\* The balance read under the lock, and again in the UPDATE's WHERE clause.
\* With the row locked the two agree: "no rows affected" cannot happen.
Debit_WithoutFee(h) ==
    /\ pc[h] = "debit"
    /\ \/ /\ balance[From(h)] >= Amount(h)
          /\ Goto(h, "insert") /\ UNCHANGED status
       \/ /\ balance[From(h)] < Amount(h)
          /\ RecordRejection(h, "FAILED_INSUFFICIENT_BALANCE")
    /\ UNCHANGED <<req, balance, cache, sent>>

Debit(h) ==
    /\ pc[h] = "debit"
    /\ \/ balance[From(h)] >= Total(h) /\ Goto(h, "insert") /\ UNCHANGED status
       \/ /\ balance[From(h)] < Total(h)
          /\ RecordRejection(h, "FAILED_INSUFFICIENT_BALANCE")
    /\ UNCHANGED <<req, balance, cache, sent>>

\* INSERT ... 'PENDING': fails if the transaction_id is there.
Insert_NotUnique(h) ==
    /\ pc[h] = "insert"
    /\ Goto(h, "fee")
    /\ UNCHANGED <<req, balance, status, cache, sent>>

Insert_CachesEarly(h) ==
    /\ pc[h] = "insert"
    /\ NotBeingInserted(h)
    /\ status[Ref(h)] = NoStatus
    /\ cache' = [cache EXCEPT ![Ref(h)] = "PENDING"]
    /\ Goto(h, "fee")
    /\ UNCHANGED <<req, balance, status, sent>>

Insert(h) ==
    /\ pc[h] = "insert"
    /\ NotBeingInserted(h)
    /\ IF status[Ref(h)] = NoStatus THEN Goto(h, "fee") ELSE Answer(h, "failed")
    /\ UNCHANGED <<req, balance, status, cache, sent>>

\* UPDATE of the fee account, if there is a fee.
CreditFee(h) ==
    /\ pc[h] = "fee"
    /\ Fee(h) > 0 => Unlocked(h, FeeAccount)
    /\ Goto(h, "commit")
    /\ UNCHANGED <<req, balance, status, cache, sent>>

\* Debit, row and fee become durable together; the handler may not learn of it.
Commit(h) ==
    /\ pc[h] = "commit"
    /\ balance' = [balance EXCEPT ![From(h)] = @ - Total(h), ![FeeAccount] = @ + Fee(h)]
    /\ status' = [status EXCEPT ![Ref(h)] = "PENDING"]
    /\ \/ Goto(h, "cachePending")
       \/ Answer(h, "failed")
    /\ UNCHANGED <<req, cache, sent>>

\* A statement of the transaction fails (a database error): rolled back.  After
\* such an error the INSERT of a FAILED_DEBIT_ERROR row cannot succeed either.
StatementFails(h) ==
    /\ pc[h] \in InTransaction
    /\ pc[h] = "owner" => ConnectionFree
    /\ Answer(h, "failed")
    /\ UNCHANGED <<req, balance, status, cache, sent>>

CachePending(h) ==
    /\ pc[h] = "cachePending"
    /\ SetIdempotency(Ref(h), "PENDING")
    /\ Goto(h, "send")
    /\ UNCHANGED <<req, balance, status, sent>>

\* CreatePacs008, which never fails: the amount of the message is the one asked
\* for, of which the ledger took the truncated one.
MessageAmount(ref) == (CHOOSE r \in Requests : r.ref = ref).amount

SendToSettlement(ref) == sent' = [sent EXCEPT ![ref] = @ + 1]

Send_RetriesForever(h) ==
    /\ pc[h] = "send"
    /\ \/ SendToSettlement(Ref(h)) /\ Answer(h, "accepted")
       \/ Goto(h, "cachePending") /\ UNCHANGED sent
    /\ UNCHANGED <<req, balance, status, cache>>

Send(h) ==
    /\ pc[h] = "send"
    /\ \/ SendToSettlement(Ref(h)) /\ Answer(h, "accepted")
       \/ Goto(h, "markFailed") /\ UNCHANGED sent
    /\ UNCHANGED <<req, balance, status, cache>>

\* UPDATE transactions SET status, its error ignored.  Neither the debit nor
\* the Redis key is undone.
MarkFailed_LowerCase(h) ==
    /\ pc[h] = "markFailed"
    /\ ConnectionFree
    /\ status' = [status EXCEPT ![Ref(h)] = "failed"]
    /\ Answer(h, "failed")
    /\ UNCHANGED <<req, balance, cache, sent>>

MarkFailed(h) ==
    /\ pc[h] = "markFailed"
    /\ ConnectionFree
    /\ \/ status' = [status EXCEPT ![Ref(h)] = "FAILED_SETTLEMENT_ERROR"]
       \/ UNCHANGED status
    /\ Answer(h, "failed")
    /\ UNCHANGED <<req, balance, cache, sent>>

\* The server stops under the handler; the database rolls its transaction back.
Lose(h) ==
    /\ pc[h] \notin {"idle", "ended"}
    /\ Answer(h, NoStatus)
    /\ UNCHANGED <<req, balance, status, cache, sent>>

\* 24 hours pass, or Redis restarts or evicts the key.
CacheExpires(ref) ==
    /\ cache[ref] # NoStatus
    /\ cache' = [cache EXCEPT ![ref] = NoStatus]
    /\ UNCHANGED <<pc, req, reply, balance, status, sent>>

\* What the handler does by itself, once the request is in.
Proceed(h) ==
    \/ CheckIdempotency(h) \/ CheckDatabase(h) \/ Begin(h) \/ VerifyOwner(h)
    \/ SelectSource(h) \/ Debit(h) \/ Insert(h) \/ CreditFee(h) \/ Commit(h)
    \/ CachePending(h) \/ Send(h) \/ MarkFailed(h)

Next ==
    \/ \E h \in Handlers : Receive(h) \/ Proceed(h) \/ StatementFails(h) \/ Lose(h)
    \/ \E ref \in Refs : CacheExpires(ref)

Spec == Init /\ [][Next]_vars

\* Goroutines run, the database answers, and locks and connections are handed
\* to waiters.  Nothing makes a request arrive or a step fail.
Fairness == \A h \in Handlers : WF_vars(Proceed(h))

FairSpec == Spec /\ Fairness

-----------------------------------------------------------------------------
(* Properties. *)

\* Every variable has its type.
TypeOK ==
    /\ pc \in [Handlers -> PCs]
    /\ req \in [Handlers -> Requests]
    /\ reply \in [Handlers -> Replies]
    /\ balance \in [Accounts -> Int]
    /\ status \in [Refs -> Statuses \cup {NoStatus}]
    /\ cache \in [Refs -> Statuses \cup {NoStatus}]
    /\ sent \in [Refs -> Nat]

\* The transfers whose debit is durable.
Debited == {ref \in Refs : status[ref] \in {"PENDING", "FAILED_SETTLEMENT_ERROR"}}

\* No account goes below zero, whatever handlers withdraw at the same time.
NoOverdraft == \A a \in Accounts : balance[a] >= 0

\* Of the pool, the locks, the two stores and everything that fails, the accounts
\* show nothing but whole withdrawals, each covered for amount and fee by what the
\* account holds at that moment ("Insufficient balance").
AtomicTable ==
    INSTANCE AtomicAccounts
        WITH Amounts <- {},
             Withdrawals <- {[amount |-> Truncated(r.amount),
                              fee |-> CalculateFee(Truncated(r.amount))] : r \in Requests}

ImplementsAtomicAccounts == AtomicTable!Spec

\* The transfers asked for, and the sum of a part of each that was debited.
Asked == {Ref(h) : h \in Handlers}
SumOfDebited(part) ==
    SumFunction([ref \in Asked |-> IF ref \in Debited THEN part[ref] ELSE 0])

\* Of what a customer pays, the fee stays with the system account and the amount
\* goes out with the message; no money is lost, whichever of the failures
\* happens, and none is made but the fractions the debits cut off, which the
\* messages still promise.
MoneyAccountedFor ==
    Parts * SumFunction(balance) + SumOfDebited([ref \in Asked |-> MessageAmount(ref)])
        = Parts * SumFunction(InitBalance)
              + SumOfDebited([ref \in Asked |-> MessageAmount(ref) % Parts])

\* A message to the settlement system is about a transfer that was debited, and
\* there are never two about one (SECURITY_FEATURES.md:14).
SentOnce == \A ref \in Refs : sent[ref] <= (IF ref \in Debited THEN 1 ELSE 0)

\* What a client is told was accepted, now or by an earlier delivery, is durable.
SuccessIsDurable ==
    \A h \in Handlers : reply[h] \in {"accepted", "duplicate"} => Ref(h) \in Debited

\* A Redis answer is never ahead of the database: it stems from a committed row.
CachedIsCommitted ==
    \A ref \in Refs : cache[ref] # NoStatus =>
        /\ status[ref] # NoStatus
        /\ cache[ref] \in Rejections <=> status[ref] \in Rejections

\* All connections are held by handlers that wait for one more.
PoolExhausted == Cardinality({h \in Handlers : pc[h] = "owner"}) = PoolSize

\* What a handler waits for: a connection, a row lock, the end of an INSERT of the
\* same transaction_id (which a rejection's INSERT needs too, if it comes to that).
Waits(h) ==
    \/ pc[h] \in {"database", "begin", "owner", "markFailed"} /\ ~ConnectionFree
    \/ pc[h] = "select" /\ ~Unlocked(h, From(h))
    \/ pc[h] = "fee" /\ Fee(h) > 0 /\ ~Unlocked(h, FeeAccount)
    \/ pc[h] \in {"select", "debit", "insert"} /\ ~NotBeingInserted(h)

\* If everybody who is under way waits, it is for the pool, used up by
\* transactions that each want a second connection.
OnlyThePoolStops ==
    LET running == {h \in Handlers : pc[h] \notin {"idle", "ended"}}
    IN  running # {} /\ (\A h \in running : Waits(h)) => PoolExhausted

\* Row locks and the unique index alone never stop a request: it ends, unless
\* the pool is used up by transactions that each want a second connection.
EndsUnlessPoolExhausted ==
    \A h \in Handlers : pc[h] # "idle" ~> (pc[h] = "ended" \/ PoolExhausted)
=============================================================================
