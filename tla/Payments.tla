------------------------------ MODULE Payments ------------------------------
(***************************************************************************)
(* TransactionService.CreateTransaction and BatchTransactions              *)
(* (internal/services/transaction_service.go): concurrent request handlers *)
(* over one database and one Redis, at the granularity of their database   *)
(* transactions and Redis commands.  Money moves through AtomicLedger,     *)
(* which module Ledger implements.                                         *)
(*                                                                         *)
(* Clients retry and networks duplicate: several handlers may serve the    *)
(* same payment.  The server process may end at any point and starts again *)
(* (cmd/server/main.go); Redis may be unreachable or lose its keys (a      *)
(* restart, an eviction).  go-redis sends a command again whose reply does *)
(* not come: one may take effect although it is reported as failed, and a  *)
(* RPUSH, the only one where it matters, more than once.                   *)
(* Definitions named X_Something are mutants of X, as in Ledger.           *)
(***************************************************************************)
EXTENDS Integers, Sequences, FiniteSets

CONSTANTS
    Handlers,        \* request handlers, one per request the server receives
    Payments,        \* signed payments, each with its own txId
    Payment,         \* their contents
    Requests,        \* the requests clients may send: endpoint and payments
    Accounts, InitBalance, Amounts,    \* see AtomicLedger
    PastWindow,      \* how old a timestamp may be (300 s)
    FutureWindow,    \* how far ahead a timestamp may be (30 s)
    NonceTTL,        \* life of a nonce key (10 min)
    IdempotencyTTL,  \* life of an idempotency key (24 h)
    PushAttempts,    \* times go-redis sends a command (MaxRetries 3, so 4)
    MaxTime,         \* bound on the clock, for TLC
    Overlap,         \* may two requests for one payment be in progress at once
    KeysLost         \* may Redis lose its keys

\* Defects of a payment, by the check that finds it.
Defects == {"none", "owner", "account", "signature"}
NoCounter == 0
NoCard == "null"

ASSUME PaymentsAssumption ==
    /\ InitBalance \in [Accounts -> Nat]
    /\ Amounts \subseteq Nat \ {0}
    /\ Payment \in [Payments -> [from : Accounts, to : Accounts, amount : Amounts,
                                 debit : BOOLEAN, counter : Nat \ {NoCounter},
                                 timestamp : Nat, defect : Defects]]
    /\ Requests \subseteq [endpoint : {"create", "batch"}, items : Seq(Payments)]
    /\ \A r \in Requests : /\ r.items # <<>>
                           /\ r.endpoint = "create" => Len(r.items) = 1
    /\ PastWindow \in Nat /\ FutureWindow \in Nat /\ MaxTime \in Nat
    /\ NonceTTL \in Nat \ {0} /\ IdempotencyTTL \in Nat \ {0}
    /\ PushAttempts \in Nat \ {0}
    /\ Overlap \in BOOLEAN /\ KeysLost \in BOOLEAN

VARIABLES
    pc,        \* the next step of each handler
    req,       \* its request
    replies,   \* the outcome of each payment of it so far, in order
    toSettle,  \* positions in it that its batchSettlement goroutine has yet to send
    balance,   \* committed account balances
    moved,     \* number of committed ledger transfers of each payment
    rows,      \* table transactions
    client,    \* does the running process have a Redis client, or nil
    redisUp,   \* can Redis be reached
    nonce,     \* time each nonce key expires, 0 if never set
    idem,      \* the same for the idempotency keys, whose value is COMPLETED
    queue,     \* Redis list settlement_queue, which nothing reads
    sent,      \* number of times each payment went to SendToSettlement
    now        \* the clock

redis == <<redisUp, nonce, idem, queue>>
database == <<balance, moved, rows>>
vars == <<pc, req, replies, toSettle, database, client, redis, sent, now>>

Ledger == INSTANCE AtomicLedger

\* The outcomes of one payment that a reply can tell the client.
Outcomes == {"created", "processed", "duplicate", "refused", "replay", "failed"}
PCs == {"idle", "idempotency", "database", "cacheDuplicate", "validate",
        "checkNonce", "storeNonce", "signature", "pay", "doubleSpending",
        "transfer", "store", "cacheCompleted", "enqueue", "done", "lost"}

Live(expiry) == expiry > now

Active(h) == pc[h] \notin {"idle", "done", "lost"}
Items(h) == {req[h].items[i] : i \in DOMAIN req[h].items}

\* The payment a handler is working on.
Current(h) == req[h].items[Len(replies[h]) + 1]
IsCreate(h) == req[h].endpoint = "create"

-----------------------------------------------------------------------------
Init ==
    /\ pc = [h \in Handlers |-> "idle"]
    /\ req \in [Handlers -> Requests]
    /\ replies = [h \in Handlers |-> <<>>]
    /\ toSettle = [h \in Handlers |-> {}]
    /\ Ledger!Init
    /\ moved = [p \in Payments |-> 0]
    /\ rows = {}
    /\ redisUp = TRUE
    /\ client = redisUp
    /\ nonce = [p \in Payments |-> 0]
    /\ idem = [p \in Payments |-> 0]
    /\ queue = <<>>
    /\ sent = [p \in Payments |-> 0]
    /\ now = 0

\* What storeTransaction inserts: columns card_id and counter are not among
\* the ones it names.
StoredRow(p) == [txId |-> p, cardId |-> NoCard, counter |-> NoCounter]
Stored(p) == \E r \in rows : r.txId = p

Goto(h, step) == pc' = [pc EXCEPT ![h] = step]

\* successfulTransactions of BatchTransactions.
Processed(results) == {i \in DOMAIN results : results[i] = "processed"}

\* The handler has an outcome for its current payment.  CreateTransaction
\* replies; BatchTransactions goes on with the next payment, and after the last
\* one starts batchSettlement for the processed ones and replies.
Answer_SettlesAll(h, outcome) ==
    LET results == Append(replies[h], outcome)
        last == Len(results) = Len(req[h].items)
    IN  /\ replies' = [replies EXCEPT ![h] = results]
        /\ Goto(h, IF last THEN "done" ELSE "validate")
        /\ toSettle' = IF last /\ ~IsCreate(h)
                       THEN [toSettle EXCEPT ![h] = DOMAIN results]
                       ELSE toSettle

Answer(h, outcome) ==
    LET results == Append(replies[h], outcome)
        last == Len(results) = Len(req[h].items)
    IN  /\ replies' = [replies EXCEPT ![h] = results]
        /\ Goto(h, IF last THEN "done" ELSE "validate")
        /\ toSettle' = IF last
                       THEN [toSettle EXCEPT ![h] = Processed(results)]
                       ELSE toSettle

Continue(h, step) == Goto(h, step) /\ UNCHANGED <<replies, toSettle>>

Receive(h) ==
    /\ pc[h] = "idle"
    /\ Overlap \/ \A g \in Handlers : Active(g) => Items(g) \cap Items(h) = {}
    /\ Continue(h, IF IsCreate(h) THEN "idempotency" ELSE "validate")
    /\ UNCHANGED <<req, client, database, redis, sent, now>>

\* verifyCardOwnership, which a database error makes refuse too, then
\* checkIdempotency: a Redis error reads as "not found".
CheckIdempotency(h) ==
    /\ pc[h] = "idempotency"
    /\ \/ Answer(h, "refused")
       \/ /\ Payment[Current(h)].defect # "owner"
          /\ client
          /\ \/ redisUp /\ Live(idem[Current(h)]) /\ Answer(h, "duplicate")
             \/ ~(redisUp /\ Live(idem[Current(h)])) /\ Continue(h, "database")
    /\ UNCHANGED <<req, client, database, redis, sent, now>>

\* SELECT status FROM transactions.  Any error, "no rows" or not, means going on.
CheckDatabase(h) ==
    /\ pc[h] = "database"
    /\ \/ Stored(Current(h)) /\ Continue(h, "cacheDuplicate")
       \/ Continue(h, "validate")
    /\ UNCHANGED <<req, client, database, redis, sent, now>>

\* setIdempotency: SETEX for 24 h, its error ignored.
SetIdempotency_Sign(p) ==
    idem' = IF redisUp THEN [idem EXCEPT ![p] = now - IdempotencyTTL] ELSE idem

SetIdempotency(p) ==
    idem' = IF redisUp THEN [idem EXCEPT ![p] = now + IdempotencyTTL] ELSE idem

CacheDuplicate(h) ==
    /\ pc[h] = "cacheDuplicate"
    /\ SetIdempotency(Current(h))
    /\ Answer(h, "duplicate")
    /\ UNCHANGED <<req, client, database, redisUp, nonce, queue, sent, now>>

\* The checks of validateTransaction before the nonce: account, balance of a
\* DEBIT (read without a lock), timestamp window.  BatchTransactions verifies
\* the owner of the card just before.
Valid(p) ==
    /\ Payment[p].defect \notin {"owner", "account"}
    /\ Payment[p].debit => balance[Payment[p].from] >= Payment[p].amount
    /\ Payment[p].timestamp <= now + FutureWindow
    /\ Payment[p].timestamp + PastWindow >= now

Validate(h) ==
    /\ pc[h] = "validate"
    /\ \/ Valid(Current(h)) /\ Continue(h, "checkNonce")
       \/ Answer(h, "refused")
    /\ UNCHANGED <<req, client, database, redis, sent, now>>

\* checkReplayAttack, first command: EXISTS.
CheckNonce_SkippedWithoutRedis(h) ==
    /\ pc[h] = "checkNonce"
    /\ \/ client /\ ~redisUp /\ Answer(h, "failed")
       \/ client /\ redisUp /\ Live(nonce[Current(h)]) /\ Answer(h, "replay")
       \/ client /\ redisUp /\ ~Live(nonce[Current(h)]) /\ Continue(h, "storeNonce")
       \/ ~client /\ Continue(h, "signature")
    /\ UNCHANGED <<req, client, database, redis, sent, now>>

CheckNonce(h) ==
    /\ pc[h] = "checkNonce"
    /\ client
    /\ \/ ~redisUp /\ Answer(h, "failed")
       \/ redisUp /\ Live(nonce[Current(h)]) /\ Answer(h, "replay")
       \/ redisUp /\ ~Live(nonce[Current(h)]) /\ Continue(h, "storeNonce")
    /\ UNCHANGED <<req, client, database, redis, sent, now>>

\* checkReplayAttack, second command: SETEX.
StoreNonce_WindowTTL(h) ==
    /\ pc[h] = "storeNonce"
    /\ \/ UNCHANGED nonce /\ Answer(h, "failed")
       \/ /\ redisUp
          /\ nonce' = [nonce EXCEPT ![Current(h)] = now + PastWindow]
          /\ Continue(h, "signature") \/ Answer(h, "failed")
    /\ UNCHANGED <<req, client, database, redisUp, idem, queue, sent, now>>

StoreNonce(h) ==
    /\ pc[h] = "storeNonce"
    /\ \/ UNCHANGED nonce /\ Answer(h, "failed")
       \/ /\ redisUp
          /\ nonce' = [nonce EXCEPT ![Current(h)] = now + NonceTTL]
          /\ Continue(h, "signature") \/ Answer(h, "failed")
    /\ UNCHANGED <<req, client, database, redisUp, idem, queue, sent, now>>

\* verifySignature: the card key comes from the database, which may fail.
VerifySignature_CachesEarly(h) ==
    /\ pc[h] = "signature"
    /\ Payment[Current(h)].defect # "signature"
    /\ SetIdempotency(Current(h))
    /\ Continue(h, IF IsCreate(h) THEN "pay" ELSE "doubleSpending")
    /\ UNCHANGED <<req, client, database, redisUp, nonce, queue, sent, now>>

VerifySignature(h) ==
    /\ pc[h] = "signature"
    /\ \/ Answer(h, "failed")
       \/ /\ Payment[Current(h)].defect # "signature"
          /\ Continue(h, IF IsCreate(h) THEN "pay" ELSE "doubleSpending")
    /\ UNCHANGED <<req, client, database, redis, sent, now>>

\* A committed ledger transfer of payment p.
Move(p) ==
    /\ Ledger!Move(Payment[p].from, Payment[p].to, Payment[p].amount)
    /\ moved' = [moved EXCEPT ![p] = @ + 1]

\* INSERT INTO transactions, where transaction_id is UNIQUE.
Insert(p) == ~Stored(p) /\ rows' = rows \cup {StoredRow(p)}

\* CreateTransaction: transfer and row in one database transaction.  The
\* connection may be lost after the COMMIT took effect.
Pay_RowAfterCommit(h) ==
    /\ pc[h] = "pay"
    /\ Move(Current(h))
    /\ \/ Insert(Current(h)) /\ Continue(h, "cacheCompleted")
       \/ UNCHANGED rows /\ Answer(h, "failed")
    /\ UNCHANGED <<req, client, redis, sent, now>>

Pay(h) ==
    /\ pc[h] = "pay"
    /\ Move(Current(h))
    /\ Insert(Current(h))
    /\ \/ Continue(h, "cacheCompleted")
       \/ Answer(h, "failed")
    /\ UNCHANGED <<req, client, redis, sent, now>>

\* Short of money, a deadlock, a duplicate key, a database error: everything
\* is rolled back.
PayFails(h) ==
    /\ pc[h] = "pay"
    /\ Answer(h, "failed")
    /\ UNCHANGED <<req, client, database, redis, sent, now>>

CacheCompleted(h) ==
    /\ pc[h] = "cacheCompleted"
    /\ SetIdempotency(Current(h))
    /\ Continue(h, "enqueue")
    /\ UNCHANGED <<req, client, database, redisUp, nonce, queue, sent, now>>

\* queueForSettlement: RPUSH, whose error is only logged.  Where no reply to
\* it comes it is sent again, whether it took effect or not.
Copies(p) == Cardinality({i \in DOMAIN queue : queue[i] = p})

Enqueue(h) ==
    /\ pc[h] = "enqueue"
    /\ \/ /\ redisUp /\ Copies(Current(h)) < PushAttempts
          /\ queue' = Append(queue, Current(h))
       \/ UNCHANGED queue
    /\ Answer(h, "created") \/ Continue(h, "enqueue")
    /\ UNCHANGED <<req, client, database, redisUp, nonce, idem, sent, now>>

\* checkDoubleSpending: the card's counters among the rows of transactions.
Counters(card) == {r.counter : r \in {row \in rows : row.cardId = card}}

CheckDoubleSpending(h) ==
    /\ pc[h] = "doubleSpending"
    /\ \/ Answer(h, "failed")
       \/ /\ \A c \in Counters(Payment[Current(h)].from) :
                Payment[Current(h)].counter > c
          /\ Continue(h, "transfer")
    /\ UNCHANGED <<req, client, database, redis, sent, now>>

\* BatchTransactions: the transfer commits by itself, or (error, or the COMMIT
\* acknowledged to nobody) the item is reported as failed.
Transfer(h) ==
    /\ pc[h] = "transfer"
    /\ Move(Current(h))
    /\ \/ Continue(h, "store")
       \/ Answer(h, "failed")
    /\ UNCHANGED <<req, client, rows, redis, sent, now>>

TransferFails(h) ==
    /\ pc[h] = "transfer"
    /\ Answer(h, "failed")
    /\ UNCHANGED <<req, client, database, redis, sent, now>>

\* ... and the row is inserted by a statement of its own.
Store_ErrorIgnored(h) ==
    /\ pc[h] = "store"
    /\ \/ Insert(Current(h))
       \/ UNCHANGED rows
    /\ Answer(h, "processed")
    /\ UNCHANGED <<req, client, balance, moved, redis, sent, now>>

Store(h) ==
    /\ pc[h] = "store"
    /\ \/ Insert(Current(h)) /\ Answer(h, "processed")
       \/ UNCHANGED rows /\ Answer(h, "failed")
    /\ UNCHANGED <<req, client, balance, moved, redis, sent, now>>

\* One turn of the goroutine's loop: sent, or dropped with a log line.
BatchSettle(h) ==
    /\ \E i \in toSettle[h] :
          /\ \A j \in toSettle[h] : i <= j
          /\ toSettle' = [toSettle EXCEPT ![h] = @ \ {i}]
          /\ \/ sent' = [sent EXCEPT ![req[h].items[i]] = @ + 1]
             \/ UNCHANGED sent
    /\ UNCHANGED <<pc, req, replies, client, database, redis, now>>

\* InitRedis returned nil ("continuing without Redis"): the first command a
\* handler sends panics, and middleware.Recoverer answers 500.
PanicsWithoutRedis(h) ==
    /\ ~client
    /\ \/ pc[h] = "idempotency" /\ Payment[Current(h)].defect # "owner"
       \/ pc[h] = "checkNonce"
    /\ Continue(h, "lost")
    /\ UNCHANGED <<req, client, database, redis, sent, now>>

\* The process ends and is started again.  After a signal, Shutdown gives the
\* handlers 30 s and the settlement goroutines nothing; a crash gives nobody
\* anything.  InitRedis pings once, for the whole life of the process.
Restart ==
    /\ pc' = [h \in Handlers |-> IF Active(h) THEN "lost" ELSE pc[h]]
    /\ toSettle' = [h \in Handlers |-> {}]
    /\ client' = redisUp
    /\ UNCHANGED <<req, replies, database, redis, sent, now>>

RedisConnection ==
    /\ redisUp' = ~redisUp
    /\ UNCHANGED <<pc, req, replies, toSettle, client, database, nonce, idem, queue, sent, now>>

RedisLosesKeys ==
    /\ KeysLost
    /\ nonce' = [p \in Payments |-> 0]
    /\ idem' = [p \in Payments |-> 0]
    /\ queue' = <<>>
    /\ UNCHANGED <<pc, req, replies, toSettle, client, database, redisUp, sent, now>>

\* Time passes; no handler spends a unit of it between the timestamp check and
\* the SETEX of the nonce.
Tick ==
    /\ now < MaxTime
    /\ \A h \in Handlers : pc[h] \notin {"checkNonce", "storeNonce"}
    /\ now' = now + 1
    /\ UNCHANGED <<pc, req, replies, toSettle, client, database, redis, sent>>

HandlerStep(h) ==
    \/ Receive(h) \/ CheckIdempotency(h) \/ CheckDatabase(h) \/ CacheDuplicate(h)
    \/ Validate(h) \/ CheckNonce(h) \/ StoreNonce(h) \/ VerifySignature(h)
    \/ Pay(h) \/ PayFails(h) \/ CacheCompleted(h) \/ Enqueue(h)
    \/ CheckDoubleSpending(h) \/ Transfer(h) \/ TransferFails(h) \/ Store(h)
    \/ BatchSettle(h) \/ PanicsWithoutRedis(h)

Next == \/ \E h \in Handlers : HandlerStep(h)
        \/ Restart \/ RedisConnection \/ RedisLosesKeys \/ Tick

Spec == Init /\ [][Next]_vars

-----------------------------------------------------------------------------
(* Properties. *)

\* Every variable has its type.
TypeOK ==
    /\ pc \in [Handlers -> PCs]
    /\ req \in [Handlers -> Requests]
    /\ replies \in [Handlers -> Seq(Outcomes)]
    /\ toSettle \in [Handlers -> SUBSET (Nat \ {0})]
    /\ balance \in [Accounts -> Int]
    /\ moved \in [Payments -> Nat]
    /\ rows \subseteq {StoredRow(p) : p \in Payments}
    /\ client \in BOOLEAN
    /\ redisUp \in BOOLEAN
    /\ nonce \in [Payments -> Nat]
    /\ idem \in [Payments -> Nat]
    /\ queue \in Seq(Payments)
    /\ sent \in [Payments -> Nat]
    /\ now \in Nat

\* SECURITY_FEATURES.md:14, "preventing double-charging": however often a
\* payment is delivered, its money moves at most once.
MoneyMovesOnce == \A p \in Payments : moved[p] <= 1

\* Payments that only CreateTransaction is ever asked to execute.
CreateOnly(p) == \A h \in Handlers : p \in Items(h) => IsCreate(h)

\* CreateTransaction's database transaction is all or nothing: a payment has
\* its row in transactions exactly if its money moved, and it moved once.
RowIffMoved ==
    \A p \in Payments :
        CreateOnly(p) => moved[p] = (IF Stored(p) THEN 1 ELSE 0)

\* A Redis answer of "already COMPLETED" is never ahead of the database, so a
\* duplicate is never told of a payment that a crash could still undo.
CachedIsStored == \A p \in Payments : Live(idem[p]) => Stored(p)

\* What a client is told succeeded did succeed, for it or for an earlier
\* request: the money moved and the row is there.
SuccessIsTrue ==
    \A h \in Handlers : \A i \in DOMAIN replies[h] :
        replies[h][i] \in {"created", "processed", "duplicate"} =>
            moved[req[h].items[i]] >= 1 /\ Stored(req[h].items[i])

\* However a payment is repeated, and to whichever endpoint, it goes to
\* settlement one way: BatchTransactions sends it once, or CreateTransaction
\* queues it (in one copy or several, see Enqueue), and never both; and only one
\* whose money has moved and whose row is there.
SettledOneWay ==
    \A p \in Payments :
        LET queued == \E i \in DOMAIN queue : queue[i] = p
        IN  /\ sent[p] <= 1
            /\ ~(queued /\ sent[p] > 0)
            /\ queued \/ sent[p] > 0 => Stored(p) /\ moved[p] > 0

\* "Redis connection failed, continuing without Redis" (redis.go:28): a process
\* that started without Redis, and so cannot tell a replay, moves no money, even
\* when Redis is back.
NoRedisNoMoney ==
    [][(\E p \in Payments : moved'[p] > moved[p]) => client]_vars

\* SECURITY_FEATURES.md:113, "Each card maintains monotonically increasing
\* counter": a batch item that is executed has a counter above every counter
\* the card has executed before.
CounterIncreases ==
    [][\A p, q \in Payments :
            /\ moved[q] > 0 /\ moved'[p] > moved[p]
            /\ Payment[p].from = Payment[q].from
            => Payment[p].counter > Payment[q].counter]_vars
=============================================================================
