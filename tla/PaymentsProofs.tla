--------------------------- MODULE PaymentsProofs ---------------------------
(***************************************************************************)
(* Theorems about Payments, for any set of handlers, payments, requests,   *)
(* accounts and amounts, and any time-outs the assumptions allow.          *)
(***************************************************************************)
EXTENDS PaymentsInvariant, FiniteSetTheorems, TLAPS

-----------------------------------------------------------------------------
(* Facts about requests, and the effects of Answer and Continue. *)

LEMMA TimesType ==
    /\ PastWindow \in Nat /\ FutureWindow \in Nat
    /\ NonceTTL \in Nat \ {0} /\ IdempotencyTTL \in Nat \ {0}
  BY PaymentsAssumption

LEMMA PaymentType ==
    ASSUME NEW p \in Payments
    PROVE  /\ Payment[p].from \in Accounts /\ Payment[p].to \in Accounts
           /\ Payment[p].amount \in Nat \ {0} /\ Payment[p].timestamp \in Nat
  BY PaymentsAssumption

LEMMA RequestType ==
    ASSUME TypeOK, NEW h \in Handlers
    PROVE  /\ req[h] \in Requests
           /\ req[h].items \in Seq(Payments)
           /\ Len(req[h].items) \in Nat /\ Len(req[h].items) >= 1
           /\ DOMAIN req[h].items = 1..Len(req[h].items)
           /\ IsCreate(h) => Len(req[h].items) = 1
           /\ req[h].endpoint \in {"create", "batch"}
  <1>1. req[h] \in Requests
    BY DEF TypeOK
  <1>2. /\ req[h].items \in Seq(Payments) /\ req[h].items # <<>>
        /\ req[h].endpoint \in {"create", "batch"}
        /\ IsCreate(h) => Len(req[h].items) = 1
    BY <1>1, PaymentsAssumption DEF IsCreate
  <1>3. QED
    BY <1>1, <1>2

LEMMA RepliesType ==
    ASSUME TypeOK, NEW h \in Handlers
    PROVE  /\ replies[h] \in Seq(Outcomes) /\ Len(replies[h]) \in Nat
           /\ DOMAIN replies[h] = 1..Len(replies[h])
  BY DEF TypeOK

\* A handler with a payment left is working on one of its request.
LEMMA CurrentType ==
    ASSUME TypeOK, NEW h \in Handlers, Len(replies[h]) < Len(req[h].items)
    PROVE  /\ Len(replies[h]) + 1 \in DOMAIN req[h].items
           /\ Current(h) \in Payments /\ Current(h) \in Items(h)
           /\ Current(h) = req[h].items[Len(replies[h]) + 1]
  <1>1. Len(replies[h]) + 1 \in DOMAIN req[h].items
    BY RequestType, RepliesType
  <1>2. QED
    BY <1>1, RequestType DEF Current, Items

LEMMA Answered ==
    ASSUME TypeOK, NEW h \in Handlers, Len(replies[h]) < Len(req[h].items),
           NEW outcome \in Outcomes, Answer(h, outcome)
    PROVE  /\ pc' \in [Handlers -> PCs]
           /\ replies' \in [Handlers -> Seq(Outcomes)]
           /\ \A g \in Handlers \ {h} :
                 pc'[g] = pc[g] /\ replies'[g] = replies[g] /\ toSettle'[g] = toSettle[g]
           /\ Len(replies'[h]) = Len(replies[h]) + 1
           /\ DOMAIN replies'[h] = DOMAIN replies[h] \cup {Len(replies[h]) + 1}
           /\ \A i \in DOMAIN replies[h] : replies'[h][i] = replies[h][i]
           /\ replies'[h][Len(replies[h]) + 1] = outcome
           /\ pc'[h] = "done" \/ (pc'[h] = "validate" /\ Len(replies'[h]) < Len(req[h].items))
           /\ toSettle'[h] = IF pc'[h] = "done" THEN Processed(replies'[h])
                             ELSE toSettle[h]
           /\ toSettle' \in [Handlers -> SUBSET (Nat \ {0})]
  <1> DEFINE results == Append(replies[h], outcome)
             last == Len(results) = Len(req[h].items)
  <1>1. /\ replies' = [replies EXCEPT ![h] = results]
        /\ pc' = [pc EXCEPT ![h] = IF last THEN "done" ELSE "validate"]
        /\ toSettle' = IF last THEN [toSettle EXCEPT ![h] = Processed(results)]
                       ELSE toSettle
    BY DEF Answer, Goto
  <1>2. /\ results \in Seq(Outcomes) /\ Len(results) = Len(replies[h]) + 1
        /\ DOMAIN results = DOMAIN replies[h] \cup {Len(replies[h]) + 1}
        /\ \A i \in DOMAIN replies[h] : results[i] = replies[h][i]
        /\ results[Len(replies[h]) + 1] = outcome
    BY RepliesType
  <1>3. Processed(results) \in SUBSET (Nat \ {0})
    BY <1>2, RepliesType DEF Processed
  <1>4. ~last => Len(results) < Len(req[h].items)
    BY <1>2, RepliesType, RequestType
  <1> HIDE DEF results
  <1>5. QED
    BY <1>1, <1>2, <1>3, <1>4 DEF TypeOK, PCs

LEMMA Continued ==
    ASSUME TypeOK, NEW h \in Handlers, NEW step \in PCs, Continue(h, step)
    PROVE  /\ pc' \in [Handlers -> PCs] /\ pc'[h] = step
           /\ \A g \in Handlers \ {h} : pc'[g] = pc[g]
           /\ replies' = replies /\ toSettle' = toSettle
  BY DEF TypeOK, Continue, Goto

-----------------------------------------------------------------------------
(* Most steps of a handler move no money and leave no trace but the answer. *)

\* What the steps that change no table, no idempotency key and no queue have
\* in common.
Plain(h) ==
    /\ Active(h) \/ pc[h] = "idle"
    /\ UNCHANGED <<req, client, database, redisUp, idem, queue, sent, now>>
    /\ nonce' \in [Payments -> Nat]
    /\ \/ \E step \in PCs \ {"idle", "store", "cacheCompleted", "enqueue", "done"} :
             /\ Continue(h, step)
             /\ step \in CreateSteps => IsCreate(h)
             /\ step \in BatchSteps => ~IsCreate(h)
             /\ step \in PastRedis => client
             /\ step = "cacheDuplicate" => Stored(Current(h))
       \/ \E outcome \in Outcomes \ {"created", "processed"} :
             /\ Answer(h, outcome)
             /\ outcome = "duplicate" => Stored(Current(h))

PlainStep(h) ==
    \/ Receive(h) \/ CheckIdempotency(h) \/ CheckDatabase(h) \/ Validate(h)
    \/ CheckNonce(h) \/ StoreNonce(h) \/ VerifySignature(h) \/ PayFails(h)
    \/ CheckDoubleSpending(h) \/ TransferFails(h) \/ PanicsWithoutRedis(h)

LEMMA PlainSteps ==
    ASSUME IInv, NEW h \in Handlers, PlainStep(h)
    PROVE  Plain(h)
  <1> USE DEF redis, database, PCs, Outcomes, CreateSteps, BatchSteps, PastRedis
  <1>0. /\ TypeOK /\ nonce \in [Payments -> Nat]
        /\ (pc[h] \in CreateSteps => IsCreate(h)) /\ (pc[h] \in BatchSteps => ~IsCreate(h))
        /\ pc[h] \in PastRedis => client
    BY DEF IInv, TypeOK, HandlerInv
  <1>1. CASE Receive(h)
    BY <1>0, <1>1 DEF Receive, Plain
  <1>2. CASE CheckIdempotency(h)
    <2>1. /\ Active(h) /\ Current(h) \in Payments
      BY <1>0, <1>2, CurrentType DEF CheckIdempotency, Active, IInv, HandlerInv
    <2>2. Live(idem[Current(h)]) => Stored(Current(h))
      BY <2>1 DEF IInv, CachedIsStored
    <2>3. QED
      BY <1>0, <1>2, <2>1, <2>2 DEF CheckIdempotency, Plain
  <1>3. CASE CheckDatabase(h)
    BY <1>0, <1>3 DEF CheckDatabase, Plain, Active
  <1>4. CASE Validate(h)
    BY <1>0, <1>4 DEF Validate, Plain, Active
  <1>5. CASE CheckNonce(h)
    BY <1>0, <1>5 DEF CheckNonce, Plain, Active
  <1>6. CASE StoreNonce(h)
    <2>1. Current(h) \in Payments
      BY <1>0, <1>6, CurrentType DEF StoreNonce, Active, IInv, HandlerInv
    <2>2. nonce' \in [Payments -> Nat]
      <3>1. now + NonceTTL \in Nat
        BY <1>0, TimesType DEF TypeOK
      <3>2. nonce' = nonce \/ nonce' = [nonce EXCEPT ![Current(h)] = now + NonceTTL]
        BY <1>6 DEF StoreNonce
      <3>3. QED
        BY <1>0, <2>1, <3>1, <3>2
    <2>3. QED
      BY <1>0, <1>6, <2>2 DEF StoreNonce, Plain, Active
  <1>7. CASE VerifySignature(h)
    BY <1>0, <1>7 DEF VerifySignature, Plain, Active, IsCreate
  <1>8. CASE PayFails(h)
    BY <1>0, <1>8 DEF PayFails, Plain, Active
  <1>9. CASE CheckDoubleSpending(h)
    BY <1>0, <1>9 DEF CheckDoubleSpending, Plain, Active
  <1>10. CASE TransferFails(h)
    BY <1>0, <1>10 DEF TransferFails, Plain, Active
  <1>11. CASE PanicsWithoutRedis(h)
    BY <1>0, <1>11 DEF PanicsWithoutRedis, Plain, Active
  <1>12. QED
    BY <1>1, <1>2, <1>3, <1>4, <1>5, <1>6, <1>7, <1>8, <1>9, <1>10, <1>11 DEF PlainStep

\* Every step of the system, with the plain ones under one name.
LEMMA StepCases ==
    ASSUME IInv, [Next]_vars
    PROVE  \/ \E h \in Handlers :
                 \/ Plain(h) \/ CacheDuplicate(h) \/ Pay(h) \/ CacheCompleted(h)
                 \/ Enqueue(h) \/ Transfer(h) \/ Store(h) \/ BatchSettle(h)
           \/ Restart \/ RedisConnection \/ RedisLosesKeys \/ Tick
           \/ UNCHANGED vars
  BY PlainSteps DEF Next, HandlerStep, PlainStep

\* The request of a handler never changes.
LEMMA ReqConstant == ASSUME IInv, [Next]_vars PROVE req' = req
  BY StepCases DEF Plain, CacheDuplicate, Pay, CacheCompleted, Enqueue, Transfer, Store,
     BatchSettle, Restart, RedisConnection, RedisLosesKeys, Tick, vars

-----------------------------------------------------------------------------
(* Type correctness. *)

LEMMA InsertType ==
    ASSUME TypeOK, NEW p \in Payments, Insert(p)
    PROVE  /\ rows' \subseteq {StoredRow(q) : q \in Payments}
           /\ \A q \in Payments : Stored(q)' <=> Stored(q) \/ q = p
           /\ ~Stored(p)
  <1>1. rows' = rows \cup {StoredRow(p)} /\ ~Stored(p)
    BY DEF Insert
  <1>2. rows' \subseteq {StoredRow(q) : q \in Payments}
    BY <1>1 DEF TypeOK
  <1>3. StoredRow(p).txId = p
    BY DEF StoredRow
  <1>4. ASSUME NEW q \in Payments PROVE Stored(q)' <=> Stored(q) \/ q = p
    BY <1>1, <1>3 DEF Stored
  <1>5. QED
    BY <1>1, <1>2, <1>4

LEMMA MoveType ==
    ASSUME TypeOK, NEW p \in Payments, Move(p)
    PROVE  /\ balance' \in [Accounts -> Int] /\ moved' \in [Payments -> Nat]
           /\ moved'[p] = moved[p] + 1
           /\ \A q \in Payments \ {p} : moved'[q] = moved[q]
  <1>1. balance' \in [Accounts -> Int]
    BY PaymentType DEF TypeOK, Move, Ledger!Move
  <1>2. QED
    BY <1>1 DEF TypeOK, Move

LEMMA SetIdempotencyType ==
    ASSUME TypeOK, NEW p \in Payments, SetIdempotency(p)
    PROVE  /\ idem' \in [Payments -> Nat]
           /\ \A q \in Payments \ {p} : idem'[q] = idem[q]
  BY TimesType DEF TypeOK, SetIdempotency

LEMMA InitTypeOK == ASSUME Init PROVE TypeOK
  <1>1. balance \in [Accounts -> Int] /\ replies \in [Handlers -> Seq(Outcomes)]
    BY PaymentsAssumption DEF Init, Ledger!Init
  <1>2. QED
    BY <1>1 DEF Init, TypeOK, PCs

HandlersOK == /\ pc' \in [Handlers -> PCs]
              /\ replies' \in [Handlers -> Seq(Outcomes)]
              /\ toSettle' \in [Handlers -> SUBSET (Nat \ {0})]

LEMMA HandlersType ==
    ASSUME TypeOK, NEW h \in Handlers, Len(replies[h]) < Len(req[h].items),
           \/ \E step \in PCs : Continue(h, step)
           \/ \E outcome \in Outcomes : Answer(h, outcome)
    PROVE  HandlersOK
  <1>1. ASSUME NEW step \in PCs, Continue(h, step) PROVE HandlersOK
    BY <1>1, Continued DEF TypeOK, HandlersOK
  <1>2. ASSUME NEW outcome \in Outcomes, Answer(h, outcome) PROVE HandlersOK
    BY <1>2, Answered DEF HandlersOK
  <1>3. QED
    BY <1>1, <1>2

LEMMA StepTypeOK == ASSUME IInv, [Next]_vars PROVE TypeOK'
  <1> USE DEF redis, database, HandlersOK, PCs, Outcomes
  <1>0. TypeOK
    BY DEF IInv
  <1>1. ASSUME NEW h \in Handlers, Active(h)
        PROVE  Current(h) \in Payments /\ Len(replies[h]) < Len(req[h].items)
    BY <1>0, <1>1, CurrentType DEF IInv, HandlerInv
  <1>2. ASSUME NEW h \in Handlers, Plain(h)
        PROVE  TypeOK'
    <2>1. Len(replies[h]) < Len(req[h].items)
      BY <1>2 DEF Plain, IInv, HandlerInv
    <2>2. HandlersOK
      BY <1>0, <1>2, <2>1, HandlersType DEF Plain
    <2>3. QED
      BY <1>0, <1>2, <2>2 DEF Plain, TypeOK, StoredRow
  <1>3. ASSUME NEW h \in Handlers, CacheDuplicate(h) \/ CacheCompleted(h)
        PROVE  TypeOK'
    <2>1. Active(h)
      BY <1>3 DEF CacheDuplicate, CacheCompleted, Active
    <2>2. HandlersOK
      BY <1>0, <1>1, <1>3, <2>1, HandlersType DEF CacheDuplicate, CacheCompleted
    <2>3. idem' \in [Payments -> Nat]
      BY <1>0, <1>1, <1>3, <2>1, SetIdempotencyType DEF CacheDuplicate, CacheCompleted
    <2>4. QED
      BY <1>0, <1>3, <2>2, <2>3 DEF TypeOK, CacheDuplicate, CacheCompleted, StoredRow
  <1>4. ASSUME NEW h \in Handlers, Pay(h) \/ Transfer(h)
        PROVE  TypeOK'
    <2>1. Active(h)
      BY <1>4 DEF Pay, Transfer, Active
    <2>2. HandlersOK
      BY <1>0, <1>1, <1>4, <2>1, HandlersType DEF Pay, Transfer
    <2>3. balance' \in [Accounts -> Int] /\ moved' \in [Payments -> Nat]
      BY <1>0, <1>1, <1>4, <2>1, MoveType DEF Pay, Transfer
    <2>4. rows' \subseteq {StoredRow(q) : q \in Payments}
      BY <1>0, <1>1, <1>4, <2>1, InsertType DEF Pay, Transfer, TypeOK
    <2>5. /\ UNCHANGED <<req, client, redisUp, nonce, idem, queue, sent, now>>
      BY <1>4 DEF Pay, Transfer
    <2>6. QED
      BY <1>0, <2>2, <2>3, <2>4, <2>5 DEF TypeOK, StoredRow
  <1>5. ASSUME NEW h \in Handlers, Enqueue(h)
        PROVE  TypeOK'
    <2>1. Active(h)
      BY <1>5 DEF Enqueue, Active
    <2>2. HandlersOK
      BY <1>0, <1>1, <1>5, <2>1, HandlersType DEF Enqueue
    <2>3. queue' \in Seq(Payments)
      <3>1. queue' = Append(queue, Current(h)) \/ queue' = queue
        BY <1>5 DEF Enqueue
      <3>2. queue \in Seq(Payments) /\ Current(h) \in Payments
        BY <1>0, <1>1, <2>1 DEF TypeOK
      <3>3. QED
        BY <3>1, <3>2
    <2>4. UNCHANGED <<req, client, database, redisUp, nonce, idem, sent, now>>
      BY <1>5 DEF Enqueue
    <2>5. QED
      BY <1>0, <2>2, <2>3, <2>4 DEF TypeOK, StoredRow
  <1>6. ASSUME NEW h \in Handlers, Store(h)
        PROVE  TypeOK'
    <2>1. Active(h)
      BY <1>6 DEF Store, Active
    <2>2. HandlersOK
      BY <1>0, <1>1, <1>6, <2>1, HandlersType DEF Store
    <2>3. rows' \subseteq {StoredRow(q) : q \in Payments}
      BY <1>0, <1>1, <1>6, <2>1, InsertType DEF Store, TypeOK
    <2>4. QED
      BY <1>0, <1>6, <2>2, <2>3 DEF TypeOK, Store, StoredRow
  <1>7. ASSUME NEW h \in Handlers, BatchSettle(h)
        PROVE  TypeOK'
    <2>1. PICK i \in toSettle[h] :
             /\ toSettle' = [toSettle EXCEPT ![h] = @ \ {i}]
             /\ sent' = [sent EXCEPT ![req[h].items[i]] = @ + 1] \/ UNCHANGED sent
      BY <1>7 DEF BatchSettle
    <2>2. /\ toSettle \in [Handlers -> SUBSET (Nat \ {0})]
          /\ sent \in [Payments -> Nat]
      BY <1>0 DEF TypeOK
    <2>3. /\ toSettle' \in [Handlers -> SUBSET (Nat \ {0})]
          /\ sent' \in [Payments -> Nat]
      <3> DEFINE p == req[h].items[i]
      <3>1. toSettle' = [toSettle EXCEPT ![h] = toSettle[h] \ {i}]
        BY <2>1
      <3>2. sent' = [sent EXCEPT ![p] = @ + 1] \/ sent' = sent
        BY <2>1
      <3> HIDE DEF p
      <3>3. toSettle[h] \ {i} \in SUBSET (Nat \ {0})
        BY <2>2
      <3>4. toSettle' \in [Handlers -> SUBSET (Nat \ {0})]
        BY <2>2, <3>1, <3>3
      <3>5. \A q \in Payments : sent[q] + 1 \in Nat
        BY <2>2
      <3>6. sent' \in [Payments -> Nat]
        BY <2>2, <3>2, <3>5
      <3>7. QED
        BY <3>4, <3>6
    <2>4. QED
      BY <1>0, <1>7, <2>3 DEF TypeOK, BatchSettle, StoredRow
  <1>8. CASE Restart
    BY <1>0, <1>8 DEF TypeOK, Restart, PCs, StoredRow
  <1>9. CASE RedisConnection
    BY <1>0, <1>9 DEF TypeOK, RedisConnection, StoredRow
  <1>10. CASE RedisLosesKeys
    BY <1>0, <1>10 DEF TypeOK, RedisLosesKeys, StoredRow
  <1>11. CASE Tick
    BY <1>0, <1>11 DEF TypeOK, Tick, StoredRow
  <1>12. CASE UNCHANGED vars
    BY <1>0, <1>12 DEF TypeOK, vars, StoredRow
  <1>13. QED
    BY <1>2, <1>3, <1>4, <1>5, <1>6, <1>7, <1>8, <1>9, <1>10, <1>11, <1>12, StepCases

-----------------------------------------------------------------------------
(* What the steps of a handler have in common, for the other invariants. *)

HandlerAct(h) ==
    \/ Plain(h) \/ CacheDuplicate(h) \/ Pay(h) \/ CacheCompleted(h)
    \/ Enqueue(h) \/ Transfer(h) \/ Store(h)

\* The step a handler goes on to, and the outcome it answers, tell where its
\* payment stands.
StoredNext(p) == \E r \in rows' : r.txId = p

Continues(h, step) ==
    /\ Continue(h, step)
    /\ step \in CreateSteps => IsCreate(h)
    /\ step \in BatchSteps => ~IsCreate(h)
    /\ step \in PastRedis => client
    /\ step \in {"cacheDuplicate", "cacheCompleted", "enqueue"} => StoredNext(Current(h))
    /\ step = "store" => moved'[Current(h)] >= 1
    /\ step = "cacheCompleted" => Insert(Current(h))
    /\ step = "enqueue" => pc[h] \in {"cacheCompleted", "enqueue"}

Answers(h, outcome) ==
    /\ Answer(h, outcome)
    /\ outcome \in {"created", "processed", "duplicate"} => StoredNext(Current(h))
    /\ outcome = "created" => pc[h] = "enqueue"
    /\ outcome = "processed" => Insert(Current(h))

LEMMA Shape ==
    ASSUME IInv, NEW h \in Handlers, HandlerAct(h)
    PROVE  /\ Active(h) \/ pc[h] = "idle"
           /\ Len(replies[h]) < Len(req[h].items)
           /\ UNCHANGED <<req, client, redisUp, sent, now>>
           /\ \/ \E step \in PCs \ {"idle", "done"} : Continues(h, step)
              \/ \E outcome \in Outcomes : Answers(h, outcome)
  <1> USE DEF redis, database, PCs, Outcomes, CreateSteps, BatchSteps, PastRedis,
              Continues, Answers
  <1> DEFINE p == Current(h)
  <1>1. TypeOK /\ HandlerInv /\ StoredInv
    BY DEF IInv
  <1>2. /\ Active(h) \/ pc[h] = "idle"
        /\ UNCHANGED <<req, client, redisUp, sent, now>>
    <2>1. CASE Plain(h)
      BY <2>1 DEF Plain
    <2>2. CASE CacheDuplicate(h) \/ CacheCompleted(h) \/ Enqueue(h)
      BY <2>2 DEF CacheDuplicate, CacheCompleted, Enqueue, Active
    <2>3. CASE Pay(h) \/ Transfer(h) \/ Store(h)
      BY <2>3 DEF Pay, Transfer, Store, Active
    <2>4. QED
      BY <2>1, <2>2, <2>3 DEF HandlerAct
  <1>3. Len(replies[h]) < Len(req[h].items) /\ p \in Payments
    BY <1>1, <1>2, CurrentType DEF HandlerInv
  <1>4. ASSUME Insert(p) PROVE StoredNext(p)
    <2>1. StoredRow(p) \in rows' /\ StoredRow(p).txId = p
      BY <1>4 DEF Insert, StoredRow
    <2>2. QED
      BY <2>1 DEF StoredNext
  <1>5. Stored(p) /\ UNCHANGED rows => StoredNext(p)
    BY DEF Stored, StoredNext
  <1> DEFINE Goal == \/ \E step \in PCs \ {"idle", "done"} : Continues(h, step)
                     \/ \E outcome \in Outcomes : Answers(h, outcome)
  <1> HIDE DEF p
  <1>6. ASSUME Plain(h) PROVE Goal
    <2>1. UNCHANGED rows
      BY <1>6 DEF Plain
    <2>2. ASSUME NEW step \in PCs \ {"idle", "store", "cacheCompleted", "enqueue", "done"},
                 Continue(h, step),
                 step \in CreateSteps => IsCreate(h),
                 step \in BatchSteps => ~IsCreate(h),
                 step \in PastRedis => client,
                 step = "cacheDuplicate" => Stored(p)
          PROVE  Continues(h, step)
      BY <1>5, <2>1, <2>2 DEF p
    <2>3. ASSUME NEW outcome \in Outcomes \ {"created", "processed"}, Answer(h, outcome),
                 outcome = "duplicate" => Stored(p)
          PROVE  Answers(h, outcome)
      BY <1>5, <2>1, <2>3 DEF p
    <2> HIDE DEF Continues, Answers
    <2>4. QED
      BY <1>6, <2>2, <2>3 DEF Plain, p
  <1>7. ASSUME CacheDuplicate(h) PROVE Goal
    <2>1. Answers(h, "duplicate")
      BY <1>1, <1>5, <1>7 DEF CacheDuplicate, StoredInv, p
    <2> HIDE DEF Continues, Answers
    <2>2. QED
      BY <2>1
  <1>8. ASSUME Pay(h) PROVE Goal
    <2>1. Insert(p) /\ pc[h] = "pay"
      BY <1>8 DEF Pay, p
    <2>2. IsCreate(h) /\ client
      BY <1>1, <2>1 DEF HandlerInv
    <2>3. Continues(h, "cacheCompleted") \/ Answers(h, "failed")
      BY <1>4, <1>8, <2>1, <2>2 DEF Pay, p
    <2> HIDE DEF Continues, Answers
    <2>4. QED
      BY <2>3
  <1>9. ASSUME CacheCompleted(h) PROVE Goal
    <2>1. IsCreate(h) /\ client /\ Stored(p)
      BY <1>1, <1>9 DEF HandlerInv, StoredInv, CacheCompleted, p
    <2>2. Continues(h, "enqueue")
      BY <1>5, <1>9, <2>1 DEF CacheCompleted, p
    <2> HIDE DEF Continues, Answers
    <2>3. QED
      BY <2>2
  <1>10. ASSUME Enqueue(h) PROVE Goal
    <2>1. IsCreate(h) /\ client /\ Stored(p)
      BY <1>1, <1>10 DEF HandlerInv, StoredInv, Enqueue, p
    <2>2. Answers(h, "created") \/ Continues(h, "enqueue")
      BY <1>5, <1>10, <2>1 DEF Enqueue, p
    <2> HIDE DEF Continues, Answers
    <2>3. QED
      BY <2>2
  <1>11. ASSUME Transfer(h) PROVE Goal
    <2>1. Move(p) /\ pc[h] = "transfer"
      BY <1>11 DEF Transfer, p
    <2>2. ~IsCreate(h) /\ client /\ moved'[p] >= 1
      BY <1>1, <1>3, <2>1, MoveType DEF HandlerInv, TypeOK
    <2>3. Continues(h, "store") \/ Answers(h, "failed")
      BY <1>11, <2>2 DEF Transfer, p
    <2> HIDE DEF Continues, Answers
    <2>4. QED
      BY <2>3
  <1>12. ASSUME Store(h) PROVE Goal
    <2>1. Answers(h, "processed") \/ Answers(h, "failed")
      BY <1>4, <1>12 DEF Store, p
    <2> HIDE DEF Continues, Answers
    <2>2. QED
      BY <2>1
  <1> HIDE DEF Continues, Answers
  <1>13. QED
    BY <1>2, <1>3, <1>6, <1>7, <1>8, <1>9, <1>10, <1>11, <1>12 DEF HandlerAct

\* The other steps leave the handlers' progress alone, or restart them all.
LEMMA Cases ==
    ASSUME IInv, [Next]_vars
    PROVE  \/ \E h \in Handlers : HandlerAct(h) \/ BatchSettle(h)
           \/ Restart
           \/ UNCHANGED <<pc, req, replies, toSettle, client, database, sent>>
  BY StepCases DEF HandlerAct, RedisConnection, RedisLosesKeys, Tick, vars

\* Rows are never deleted and ledger transfers never undone.
LEMMA DatabaseGrows ==
    ASSUME IInv, [Next]_vars, NEW p \in Payments
    PROVE  /\ Stored(p) => Stored(p)'
           /\ moved'[p] >= moved[p]
  <1>1. TypeOK /\ moved[p] \in Nat
    BY DEF IInv, TypeOK
  <1>2. rows \subseteq rows'
    <2>1. ASSUME NEW q, Insert(q) PROVE rows \subseteq rows'
      BY <2>1 DEF Insert
    <2>2. QED
      BY <2>1, StepCases DEF Plain, CacheDuplicate, Pay, CacheCompleted, Enqueue, Transfer,
         Store, BatchSettle, Restart, RedisConnection, RedisLosesKeys, Tick, vars, database
  <1>3. moved'[p] >= moved[p]
    <2>1. ASSUME NEW h \in Handlers, Pay(h) \/ Transfer(h)
          PROVE  moved'[p] >= moved[p]
      <3>1. Current(h) \in Payments /\ Move(Current(h))
        BY <2>1, CurrentType DEF IInv, HandlerInv, Active, Pay, Transfer
      <3>2. QED
        BY <1>1, <3>1, MoveType
    <2>2. ASSUME UNCHANGED moved PROVE moved'[p] >= moved[p]
      BY <1>1, <2>2
    <2>3. QED
      BY <2>1, <2>2, StepCases DEF Plain, CacheDuplicate, CacheCompleted, Enqueue,
         Store, BatchSettle, Restart, RedisConnection, RedisLosesKeys, Tick, vars, database
  <1>4. QED
    BY <1>2, <1>3 DEF Stored

\* An act of handler h leaves the others where they are.
LEMMA OtherHandlers ==
    ASSUME IInv, NEW h \in Handlers, HandlerAct(h), NEW g \in Handlers \ {h}
    PROVE  /\ pc'[g] = pc[g] /\ replies'[g] = replies[g] /\ toSettle'[g] = toSettle[g]
           /\ req' = req
  <1>1. TypeOK /\ req' = req /\ Len(replies[h]) < Len(req[h].items)
    BY Shape DEF IInv
  <1>2. ASSUME NEW step \in PCs, Continues(h, step)
        PROVE  pc'[g] = pc[g] /\ replies'[g] = replies[g] /\ toSettle'[g] = toSettle[g]
    BY <1>1, <1>2, Continued DEF Continues
  <1>3. ASSUME NEW outcome \in Outcomes, Answers(h, outcome)
        PROVE  pc'[g] = pc[g] /\ replies'[g] = replies[g] /\ toSettle'[g] = toSettle[g]
    BY <1>1, <1>3, Answered DEF Answers
  <1>4. QED
    BY <1>1, <1>2, <1>3, Shape

\* Outcomes are never taken back, and a finished handler stays finished.
LEMMA RepliesGrow ==
    ASSUME IInv, [Next]_vars, NEW h \in Handlers
    PROVE  /\ \A i \in DOMAIN replies[h] : i \in DOMAIN replies'[h] /\ replies'[h][i] = replies[h][i]
           /\ pc[h] = "done" => pc'[h] = "done" /\ toSettle'[h] \subseteq toSettle[h]
  <1>0. TypeOK
    BY DEF IInv
  <1>1. ASSUME NEW g \in Handlers, HandlerAct(g), g # h
        PROVE  replies'[h] = replies[h] /\ pc'[h] = pc[h] /\ toSettle'[h] = toSettle[h]
    BY <1>1, OtherHandlers
  <1>2. ASSUME HandlerAct(h)
        PROVE  /\ \A i \in DOMAIN replies[h] :
                     i \in DOMAIN replies'[h] /\ replies'[h][i] = replies[h][i]
               /\ pc[h] # "done"
    <2>1. pc[h] # "done" /\ Len(replies[h]) < Len(req[h].items)
      BY <1>2, Shape DEF Active
    <2>2. ASSUME NEW step \in PCs, Continues(h, step)
          PROVE  replies' = replies
      BY <1>0, <2>2, Continued DEF Continues
    <2>3. ASSUME NEW outcome \in Outcomes, Answers(h, outcome)
          PROVE  \A i \in DOMAIN replies[h] :
                     i \in DOMAIN replies'[h] /\ replies'[h][i] = replies[h][i]
      BY <1>0, <2>1, <2>3, Answered DEF Answers
    <2>4. QED
      BY <1>2, <2>1, <2>2, <2>3, Shape
  <1>3. ASSUME NEW g \in Handlers, BatchSettle(g)
        PROVE  replies' = replies /\ pc' = pc /\ toSettle'[h] \subseteq toSettle[h]
    BY <1>0, <1>3 DEF BatchSettle, TypeOK
  <1>4. CASE Restart
    BY <1>0, <1>4 DEF Restart, Active, TypeOK
  <1>5. QED
    BY <1>1, <1>2, <1>3, <1>4, Cases

LEMMA StepHandlerInv == ASSUME IInv, [Next]_vars PROVE HandlerInv'
  <1>0. TypeOK /\ HandlerInv /\ req' = req
    BY ReqConstant DEF IInv
  <1> DEFINE Inv(h) == /\ pc[h] \in CreateSteps => IsCreate(h)
                       /\ pc[h] \in BatchSteps => ~IsCreate(h)
                       /\ Len(replies[h]) <= Len(req[h].items)
                       /\ Active(h) \/ pc[h] = "idle" => Len(replies[h]) < Len(req[h].items)
                       /\ pc[h] \in PastRedis => client
  <1>1. ASSUME NEW h \in Handlers, HandlerAct(h), NEW g \in Handlers
        PROVE  Inv(g)'
    <2>1. client' = client /\ Len(replies[h]) < Len(req[h].items)
      BY <1>1, Shape
    <2>2. CASE g # h
      BY <1>0, <1>1, <2>1, <2>2, OtherHandlers DEF HandlerInv, IsCreate, Active
    <2>3. ASSUME g = h, NEW step \in PCs \ {"idle", "done"}, Continues(h, step)
          PROVE  Inv(g)'
      <3>1. pc'[h] = step /\ replies' = replies
        BY <1>0, <2>3, Continued DEF Continues
      <3>2. Len(replies[h]) \in Nat /\ Len(req[h].items) \in Nat
        BY <1>0, RepliesType, RequestType
      <3>3. QED
        BY <1>0, <2>1, <2>3, <3>1, <3>2 DEF Continues, IsCreate, Active
    <2>4. ASSUME g = h, NEW outcome \in Outcomes, Answers(h, outcome)
          PROVE  Inv(g)'
      <3>1. /\ Len(replies'[h]) = Len(replies[h]) + 1
            /\ pc'[h] = "done" \/ (pc'[h] = "validate" /\ Len(replies'[h]) < Len(req[h].items))
        BY <1>0, <2>1, <2>4, Answered DEF Answers
      <3>2. Len(replies'[h]) <= Len(req[h].items)
        BY <1>0, <2>1, <3>1, RepliesType, RequestType
      <3>3. QED
        BY <1>0, <2>4, <3>1, <3>2 DEF Active, CreateSteps, BatchSteps, PastRedis
    <2>5. QED
      BY <1>1, <2>2, <2>3, <2>4, Shape
  <1>2. ASSUME NEW h \in Handlers, BatchSettle(h)
        PROVE  HandlerInv'
    BY <1>0, <1>2 DEF HandlerInv, BatchSettle, IsCreate, Active
  <1>3. CASE Restart
    <2>1. ASSUME NEW g \in Handlers PROVE Inv(g)'
      BY <1>0, <1>3 DEF HandlerInv, Restart, IsCreate, Active, TypeOK, CreateSteps,
         BatchSteps, PastRedis
    <2>2. QED
      BY <2>1 DEF HandlerInv
  <1>4. CASE UNCHANGED <<pc, req, replies, toSettle, client, database, sent>>
    BY <1>0, <1>4 DEF HandlerInv, IsCreate, Active
  <1>5. (\E h \in Handlers : HandlerAct(h)) => HandlerInv'
    BY <1>1 DEF HandlerInv
  <1>6. QED
    BY <1>2, <1>3, <1>4, <1>5, Cases

LEMMA StepGoroutineInv == ASSUME IInv, [Next]_vars PROVE GoroutineInv'
  <1>0. TypeOK /\ GoroutineInv
    BY DEF IInv
  <1> DEFINE Inv(h) == /\ toSettle[h] \subseteq Processed(replies[h])
                       /\ pc[h] # "done" => toSettle[h] = {}
  <1>1. ASSUME NEW h \in Handlers, HandlerAct(h), NEW g \in Handlers
        PROVE  Inv(g)'
    <2>1. pc[h] # "done" /\ Len(replies[h]) < Len(req[h].items)
      BY <1>1, Shape DEF Active
    <2>2. CASE g # h
      BY <1>0, <1>1, <2>2, OtherHandlers DEF GoroutineInv
    <2>3. ASSUME g = h, NEW step \in PCs \ {"idle", "done"}, Continues(h, step)
          PROVE  Inv(g)'
      BY <1>0, <2>1, <2>3, Continued DEF Continues, GoroutineInv
    <2>4. ASSUME g = h, NEW outcome \in Outcomes, Answers(h, outcome)
          PROVE  Inv(g)'
      BY <1>0, <2>1, <2>4, Answered DEF Answers, GoroutineInv
    <2>5. QED
      BY <1>1, <2>2, <2>3, <2>4, Shape
  <1>2. ASSUME NEW h \in Handlers, BatchSettle(h)
        PROVE  GoroutineInv'
    BY <1>0, <1>2 DEF GoroutineInv, BatchSettle, TypeOK
  <1>3. CASE Restart
    BY <1>3 DEF GoroutineInv, Restart
  <1>4. CASE UNCHANGED <<pc, req, replies, toSettle, client, database, sent>>
    BY <1>0, <1>4 DEF GoroutineInv
  <1>5. (\E h \in Handlers : HandlerAct(h)) => GoroutineInv'
    BY <1>1 DEF GoroutineInv
  <1>6. QED
    BY <1>2, <1>3, <1>4, <1>5, Cases

\* Where rows come from and where money moves.
LEMMA NewRow ==
    ASSUME IInv, [Next]_vars, NEW p \in Payments, Stored(p)', ~Stored(p)
    PROVE  \E h \in Handlers :
              /\ Active(h) /\ p = Current(h) /\ p \in Items(h) /\ Insert(p)
              /\ \/ Pay(h) /\ moved'[p] = moved[p] + 1
                 \/ Store(h) /\ UNCHANGED moved
  <1>0. TypeOK /\ HandlerInv
    BY DEF IInv
  <1>1. ASSUME UNCHANGED rows PROVE FALSE
    BY <1>1 DEF Stored
  <1>2. PICK h \in Handlers : Pay(h) \/ (Store(h) /\ Insert(Current(h)))
    <2>1. ASSUME NEW h \in Handlers, Store(h), ~Insert(Current(h)) PROVE UNCHANGED rows
      BY <2>1 DEF Store
    <2>2. QED
      BY <1>1, <2>1, StepCases DEF Plain, CacheDuplicate, CacheCompleted, Enqueue, Transfer,
         BatchSettle, Restart, RedisConnection, RedisLosesKeys, Tick, vars, database
  <1>3. Active(h) /\ Insert(Current(h))
    BY <1>2 DEF Pay, Store, Active
  <1>4. Current(h) \in Payments /\ Current(h) \in Items(h)
    BY <1>0, <1>3, CurrentType DEF HandlerInv
  <1>5. p = Current(h)
    BY <1>0, <1>3, <1>4, InsertType
  <1>6. Pay(h) => moved'[p] = moved[p] + 1
    BY <1>0, <1>5, MoveType DEF Pay
  <1>7. Store(h) => UNCHANGED moved
    BY DEF Store
  <1>8. QED
    BY <1>2, <1>3, <1>4, <1>5, <1>6, <1>7

LEMMA NewMove ==
    ASSUME IInv, [Next]_vars, NEW p \in Payments, moved'[p] # moved[p]
    PROVE  \E h \in Handlers :
              /\ Active(h) /\ p = Current(h) /\ p \in Items(h)
              /\ moved'[p] = moved[p] + 1
              /\ \/ Pay(h) /\ Insert(p)
                 \/ Transfer(h) /\ UNCHANGED rows
  <1>0. TypeOK /\ HandlerInv
    BY DEF IInv
  <1>1. PICK h \in Handlers : Pay(h) \/ Transfer(h)
    BY StepCases DEF Plain, CacheDuplicate, CacheCompleted, Enqueue, Store,
       BatchSettle, Restart, RedisConnection, RedisLosesKeys, Tick, vars, database
  <1>2. Active(h) /\ Move(Current(h))
    BY <1>1 DEF Pay, Transfer, Active
  <1>3. Current(h) \in Payments /\ Current(h) \in Items(h)
    BY <1>0, <1>2, CurrentType DEF HandlerInv
  <1>4. p = Current(h) /\ moved'[p] = moved[p] + 1
    BY <1>0, <1>2, <1>3, MoveType
  <1>5. QED
    BY <1>1, <1>2, <1>3, <1>4 DEF Pay, Transfer

LEMMA StepStoredInv == ASSUME IInv, [Next]_vars PROVE StoredInv'
  <1>0. TypeOK /\ HandlerInv /\ StoredInv /\ req' = req
    BY ReqConstant DEF IInv
  <1> DEFINE Inv(h) ==
        /\ pc[h] \in {"cacheDuplicate", "cacheCompleted", "enqueue"} => Stored(Current(h))
        /\ pc[h] = "store" => moved[Current(h)] >= 1
  <1>1. ASSUME NEW g \in Handlers, pc'[g] = pc[g], replies'[g] = replies[g]
        PROVE  Inv(g)'
    <2>1. CASE Active(g)
      <3>1. PICK p \in Payments : p = Current(g) /\ Current(g)' = p
        BY <1>0, <1>1, <2>1, CurrentType DEF HandlerInv, Current
      <3>2. moved[p] \in Nat /\ moved'[p] \in Nat
        BY <1>0, <3>1, StepTypeOK DEF TypeOK
      <3>3. (Stored(p) => Stored(p)') /\ moved'[p] >= moved[p]
        BY <3>1, DatabaseGrows
      <3>4. /\ pc[g] \in {"cacheDuplicate", "cacheCompleted", "enqueue"} => Stored(p)
            /\ pc[g] = "store" => moved[p] >= 1
        BY <1>0, <3>1 DEF StoredInv
      <3>5. Stored(Current(g))' <=> Stored(p)'
        BY <3>1 DEF Stored
      <3>6. QED
        BY <1>1, <3>1, <3>2, <3>3, <3>4, <3>5
    <2>2. CASE ~Active(g)
      BY <1>1, <2>2 DEF Active
    <2>3. QED
      BY <2>1, <2>2
  <1>2. ASSUME NEW h \in Handlers, HandlerAct(h)
        PROVE  Inv(h)'
    <2>1. Len(replies[h]) < Len(req[h].items)
      BY <1>2, Shape
    <2>2. ASSUME NEW step \in PCs, Continues(h, step)
          PROVE  Inv(h)'
      <3>1. pc'[h] = step /\ replies' = replies
        BY <1>0, <2>2, Continued DEF Continues
      <3>2. Current(h)' = Current(h)
        BY <1>0, <3>1 DEF Current
      <3>3. QED
        BY <2>2, <3>1, <3>2 DEF Continues, Stored, StoredNext
    <2>3. ASSUME NEW outcome \in Outcomes, Answers(h, outcome)
          PROVE  Inv(h)'
      BY <1>0, <2>1, <2>3, Answered DEF Answers
    <2>4. QED
      BY <1>2, <2>2, <2>3, Shape
  <1>3. ASSUME NEW g \in Handlers PROVE Inv(g)'
    <2>1. ASSUME NEW h \in Handlers, HandlerAct(h), g # h PROVE Inv(g)'
      BY <1>1, <2>1, OtherHandlers
    <2>2. CASE Restart
      BY <2>2 DEF Restart, Active
    <2>3. QED
      BY <1>1, <1>2, <2>1, <2>2, Cases DEF BatchSettle
  <1>4. ASSUME NEW p \in Payments, Stored(p)' PROVE moved'[p] >= 1
    <2>1. moved[p] \in Nat /\ moved'[p] \in Nat /\ moved'[p] >= moved[p]
      BY <1>0, StepTypeOK, DatabaseGrows DEF TypeOK
    <2>2. CASE Stored(p)
      BY <1>0, <2>1, <2>2 DEF StoredInv
    <2>3. CASE ~Stored(p)
      <3>1. PICK h \in Handlers :
               /\ p = Current(h)
               /\ moved'[p] = moved[p] + 1 \/ (Store(h) /\ UNCHANGED moved)
        BY <1>4, <2>3, NewRow
      <3>2. Store(h) => moved[p] >= 1
        BY <1>0, <3>1 DEF StoredInv, Store
      <3>3. QED
        BY <2>1, <3>1, <3>2
    <2>4. QED
      BY <2>2, <2>3
  <1>5. QED
    BY <1>3, <1>4 DEF StoredInv

LEMMA StepSuccessIsTrue == ASSUME IInv, [Next]_vars PROVE SuccessIsTrue'
  <1>0. TypeOK /\ HandlerInv /\ SuccessIsTrue /\ req' = req /\ TypeOK' /\ StoredInv'
    BY ReqConstant, StepTypeOK, StepStoredInv DEF IInv
  <1> DEFINE Good == {"created", "processed", "duplicate"}
  <1>1. ASSUME NEW h \in Handlers, NEW i \in DOMAIN replies'[h], replies'[h][i] \in Good
        PROVE  i \in DOMAIN req[h].items /\ Stored(req[h].items[i])'
    <2>1. i \in DOMAIN req[h].items
      <3>1. HandlerInv'
        BY StepHandlerInv
      <3>2. /\ i \in 1..Len(replies'[h]) /\ Len(replies'[h]) <= Len(req[h].items)
            /\ Len(replies'[h]) \in Nat
        BY <1>0, <3>1, RepliesType DEF HandlerInv, TypeOK
      <3>3. QED
        BY <1>0, <3>2, RequestType
    <2>2. PICK p \in Payments : p = req[h].items[i]
      BY <1>0, <2>1, RequestType
    <2>3. CASE i \in DOMAIN replies[h]
      <3>1. replies'[h][i] = replies[h][i]
        BY <2>3, RepliesGrow
      <3>2. Stored(req[h].items[i])
        BY <1>0, <1>1, <2>3, <3>1 DEF SuccessIsTrue
      <3>3. Stored(p)'
        BY <2>2, <3>2, DatabaseGrows
      <3>4. QED
        BY <1>0, <2>1, <2>2, <3>3 DEF Stored
    <2>4. CASE i \notin DOMAIN replies[h]
      <3>1. HandlerAct(h)
        BY <2>4, Cases, OtherHandlers DEF BatchSettle, Restart
      <3>2. Len(replies[h]) < Len(req[h].items)
        BY <3>1, Shape
      <3>3. PICK outcome \in Outcomes : Answers(h, outcome)
        BY <1>0, <2>4, <3>1, Shape, Continued DEF Continues
      <3>4. i = Len(replies[h]) + 1 /\ replies'[h][i] = outcome
        BY <1>0, <2>4, <3>2, <3>3, Answered DEF Answers
      <3>5. StoredNext(Current(h)) /\ Current(h) = req[h].items[i]
        BY <1>1, <3>3, <3>4 DEF Answers, Current
      <3>6. QED
        BY <1>0, <2>1, <3>5 DEF StoredNext, Stored
    <2>5. QED
      BY <2>3, <2>4
  <1>2. QED
    BY <1>0, <1>1, RequestType DEF SuccessIsTrue, StoredInv

LEMMA StepRowIffMoved == ASSUME IInv, [Next]_vars PROVE RowIffMoved'
  <1>0. TypeOK /\ HandlerInv /\ RowIffMoved /\ req' = req
    BY ReqConstant DEF IInv
  <1>1. ASSUME NEW p \in Payments, CreateOnly(p)'
        PROVE  moved'[p] = IF Stored(p)' THEN 1 ELSE 0
    <2>1. CreateOnly(p) /\ moved[p] = IF Stored(p) THEN 1 ELSE 0
      BY <1>0, <1>1 DEF CreateOnly, IsCreate, Items, RowIffMoved
    <2>2. CASE moved'[p] # moved[p]
      <3>1. PICK h \in Handlers :
               /\ p \in Items(h) /\ moved'[p] = moved[p] + 1
               /\ (Pay(h) /\ Insert(p)) \/ (Transfer(h) /\ UNCHANGED rows)
        BY <2>2, NewMove
      <3>2. IsCreate(h) /\ ~Transfer(h)
        BY <1>0, <2>1, <3>1 DEF CreateOnly, HandlerInv, Transfer, BatchSteps
      <3>3. ~Stored(p) /\ Stored(p)'
        BY <1>0, <3>1, <3>2, InsertType
      <3>4. QED
        BY <2>1, <3>1, <3>3
    <2>3. CASE moved'[p] = moved[p] /\ Stored(p)' /\ ~Stored(p)
      <3>1. PICK h \in Handlers :
               /\ p \in Items(h)
               /\ (Pay(h) /\ moved'[p] = moved[p] + 1) \/ Store(h)
        BY <2>3, NewRow
      <3>2. Store(h)
        BY <1>0, <2>3, <3>1 DEF TypeOK
      <3>3. QED
        BY <1>0, <2>1, <3>1, <3>2 DEF CreateOnly, HandlerInv, Store, BatchSteps
    <2>4. QED
      BY <2>1, <2>2, <2>3, DatabaseGrows
  <1>2. QED
    BY <1>1 DEF RowIffMoved

LEMMA StepCachedIsStored == ASSUME IInv, [Next]_vars PROVE CachedIsStored'
  <1>0. TypeOK /\ HandlerInv /\ StoredInv /\ CachedIsStored
    BY DEF IInv
  <1>1. SUFFICES ASSUME NEW p \in Payments, idem'[p] > now' PROVE Stored(p)'
    BY DEF CachedIsStored, Live
  <1>2. CASE idem'[p] = idem[p]
    <2>1. now' >= now
      BY <1>0, StepCases DEF Plain, CacheDuplicate, Pay, CacheCompleted, Enqueue, Transfer,
         Store, BatchSettle, Restart, RedisConnection, RedisLosesKeys, Tick, vars, TypeOK
    <2>2. Live(idem[p])
      BY <1>0, <1>1, <1>2, <2>1, StepTypeOK DEF Live, TypeOK
    <2>3. QED
      BY <1>0, <2>2, DatabaseGrows DEF CachedIsStored
  <1>3. CASE idem'[p] # idem[p]
    <2>1. ~RedisLosesKeys
      BY <1>0, <1>1 DEF RedisLosesKeys, TypeOK
    <2>2. PICK h \in Handlers : CacheDuplicate(h) \/ CacheCompleted(h)
      BY <1>3, <2>1, StepCases DEF Plain, Pay, Enqueue, Transfer,
         Store, BatchSettle, Restart, RedisConnection, Tick, vars, redis
    <2>3. /\ Current(h) \in Payments /\ Stored(Current(h)) /\ SetIdempotency(Current(h))
      BY <1>0, <2>2, CurrentType DEF HandlerInv, StoredInv, CacheDuplicate, CacheCompleted, Active
    <2>4. p = Current(h)
      BY <1>0, <1>3, <2>3, SetIdempotencyType
    <2>5. QED
      BY <2>3, <2>4, DatabaseGrows
  <1>4. QED
    BY <1>2, <1>3

-----------------------------------------------------------------------------
(* One handler at most has inserted a payment's row and lived to tell. *)

LEMMA InsertedIsStored ==
    ASSUME IInv, NEW h \in Handlers, NEW i \in DOMAIN req[h].items, Inserted(h, i)
    PROVE  Stored(req[h].items[i])
  BY DEF IInv, Inserted, SuccessIsTrue, StoredInv, Current

LEMMA NewInserted ==
    ASSUME IInv, [Next]_vars, NEW h \in Handlers, NEW i \in DOMAIN req[h].items,
           Inserted(h, i)', ~Inserted(h, i)
    PROVE  HandlerAct(h) /\ i = Len(replies[h]) + 1 /\ Insert(req[h].items[i])
  <1>0. TypeOK
    BY DEF IInv
  <1>1. pc'[h] # pc[h] \/ replies'[h] # replies[h]
    BY DEF Inserted
  <1>2. HandlerAct(h)
    <2>1. CASE Restart
      BY <1>0, <2>1 DEF Restart, Inserted, Active, TypeOK
    <2>2. QED
      BY <1>1, <2>1, Cases, OtherHandlers DEF BatchSettle
  <1>3. Len(replies[h]) < Len(req[h].items)
    BY <1>2, Shape
  <1>4. ASSUME NEW step \in PCs, Continues(h, step)
        PROVE  i = Len(replies[h]) + 1 /\ Insert(req[h].items[i])
    <2>1. pc'[h] = step /\ replies' = replies
      BY <1>0, <1>4, Continued DEF Continues
    <2>2. i = Len(replies[h]) + 1 /\ step = "cacheCompleted"
      BY <1>4, <2>1 DEF Inserted, Continues
    <2>3. QED
      BY <1>4, <2>2 DEF Continues, Current
  <1>5. ASSUME NEW outcome \in Outcomes, Answers(h, outcome)
        PROVE  i = Len(replies[h]) + 1 /\ Insert(req[h].items[i])
    <2>1. /\ DOMAIN replies'[h] = DOMAIN replies[h] \cup {Len(replies[h]) + 1}
          /\ \A k \in DOMAIN replies[h] : replies'[h][k] = replies[h][k]
          /\ replies'[h][Len(replies[h]) + 1] = outcome
          /\ pc'[h] \in {"done", "validate"}
      BY <1>0, <1>3, <1>5, Answered DEF Answers
    <2>2. i = Len(replies[h]) + 1 /\ outcome \in {"created", "processed"}
      BY <2>1 DEF Inserted
    <2>3. outcome # "created"
      BY <1>5, <2>2 DEF Answers, Inserted
    <2>4. QED
      BY <1>5, <2>2, <2>3 DEF Answers, Current
  <1>6. QED
    BY <1>2, <1>4, <1>5, Shape

LEMMA StepInsertedOnce == ASSUME IInv, [Next]_vars PROVE InsertedOnce'
  <1>0. TypeOK /\ InsertedOnce /\ req' = req
    BY ReqConstant DEF IInv
  <1>1. SUFFICES ASSUME NEW g \in Handlers, NEW h \in Handlers,
                        NEW i \in DOMAIN req[g].items, NEW j \in DOMAIN req[h].items,
                        Inserted(g, i)', Inserted(h, j)',
                        req[g].items[i] = req[h].items[j]
                 PROVE  g = h /\ i = j
    BY <1>0 DEF InsertedOnce
  <1>2. CASE Inserted(g, i) /\ Inserted(h, j)
    BY <1>0, <1>1, <1>2 DEF InsertedOnce
  <1>3. CASE Inserted(g, i) /\ ~Inserted(h, j)
    BY <1>1, <1>3, NewInserted, InsertedIsStored DEF Insert
  <1>4. CASE ~Inserted(g, i) /\ Inserted(h, j)
    BY <1>1, <1>4, NewInserted, InsertedIsStored DEF Insert
  <1>5. CASE ~Inserted(g, i) /\ ~Inserted(h, j)
    <2>1. /\ HandlerAct(g) /\ i = Len(replies[g]) + 1
          /\ HandlerAct(h) /\ j = Len(replies[h]) + 1
      BY <1>1, <1>5, NewInserted
    <2>2. g = h
      BY <1>1, <1>5, <2>1, OtherHandlers DEF Inserted
    <2>3. QED
      BY <2>1, <2>2
  <1>6. QED
    BY <1>2, <1>3, <1>4, <1>5

\* A reply of "processed" that is new is to a payment that had no row.
LEMMA NewProcessed ==
    ASSUME IInv, [Next]_vars, NEW h \in Handlers, NEW i \in DOMAIN replies'[h],
           replies'[h][i] = "processed"
    PROVE  /\ i \in DOMAIN req[h].items
           /\ \/ i \in DOMAIN replies[h] /\ replies[h][i] = "processed"
              \/ ~Stored(req[h].items[i])
  <1>0. TypeOK /\ HandlerInv' /\ TypeOK' /\ req' = req
    BY ReqConstant, StepTypeOK, StepHandlerInv DEF IInv
  <1>1. i \in DOMAIN req[h].items
    <2>1. /\ i \in 1..Len(replies'[h]) /\ Len(replies'[h]) <= Len(req[h].items)
          /\ Len(replies'[h]) \in Nat
      BY <1>0, RepliesType DEF HandlerInv, TypeOK
    <2>2. QED
      BY <1>0, <2>1, RequestType
  <1>2. CASE i \in DOMAIN replies[h]
    BY <1>1, <1>2, RepliesGrow
  <1>3. CASE i \notin DOMAIN replies[h]
    <2>1. Inserted(h, i)'
      BY DEF Inserted
    <2>2. CASE Inserted(h, i)
      <3>1. i = Len(replies[h]) + 1 /\ pc[h] \in {"cacheCompleted", "enqueue"}
        BY <1>3, <2>2 DEF Inserted
      <3>2. HandlerAct(h) /\ Len(replies[h]) < Len(req[h].items)
        BY <1>3, Cases, OtherHandlers, Shape DEF BatchSettle, Restart
      <3>3. PICK outcome \in Outcomes : Answers(h, outcome)
        BY <1>0, <1>3, <3>2, Shape, Continued DEF Continues
      <3>4. outcome = "processed"
        BY <1>0, <3>1, <3>2, <3>3, Answered DEF Answers
      <3>5. Insert(Current(h)) /\ Current(h) = req[h].items[i]
        BY <3>1, <3>3, <3>4 DEF Answers, Current
      <3>6. QED
        BY <1>1, <3>5 DEF Insert
    <2>3. CASE ~Inserted(h, i)
      BY <1>1, <2>1, <2>3, NewInserted DEF Insert
    <2>4. QED
      BY <2>2, <2>3
  <1>4. QED
    BY <1>2, <1>3

LEMMA StepQueueInv == ASSUME IInv, [Next]_vars PROVE QueueInv'
  <1>0. TypeOK /\ QueueInv /\ StoredInv /\ InsertedOnce /\ req' = req
    BY ReqConstant DEF IInv
  <1> DEFINE Settling(p) ==
        /\ Stored(p)
        /\ \A h \in Handlers : \A i \in DOMAIN replies[h] :
              replies[h][i] = "processed" => req[h].items[i] # p
        SettlingNext(p) ==
        /\ StoredNext(p)
        /\ \A h \in Handlers : \A i \in DOMAIN replies'[h] :
              replies'[h][i] = "processed" => req[h].items[i] # p
  <1>1. ASSUME NEW p \in Payments, Settling(p)
        PROVE  SettlingNext(p)
    <2>1. StoredNext(p)
      BY <1>1, DatabaseGrows DEF Stored, StoredNext
    <2>2. QED
      BY <1>1, <2>1, NewProcessed
  <1>2. \A a \in DOMAIN queue : queue[a] \in Payments /\ Settling(queue[a])
    <2>1. queue \in Seq(Payments)
      BY <1>0 DEF TypeOK
    <2>2. QED
      BY <1>0, <2>1 DEF QueueInv
  <1>3. CASE UNCHANGED queue
    <2>1. \A a \in DOMAIN queue : SettlingNext(queue[a])
      BY <1>1, <1>2
    <2>2. QED
      BY <1>0, <1>3, <2>1 DEF QueueInv, Stored, StoredNext
  <1>4. CASE RedisLosesKeys
    BY <1>4 DEF RedisLosesKeys, QueueInv
  <1>5. ASSUME NEW h \in Handlers, Enqueue(h), queue' = Append(queue, Current(h))
        PROVE  QueueInv'
    <2>1. pc[h] = "enqueue" /\ Len(replies[h]) < Len(req[h].items)
      BY <1>5 DEF Enqueue, IInv, HandlerInv, Active
    <2>2. PICK p \in Payments : p = Current(h)
      BY <1>0, <2>1, CurrentType
    <2>3. /\ Len(replies[h]) + 1 \in DOMAIN req[h].items
          /\ p = req[h].items[Len(replies[h]) + 1]
      BY <1>0, <2>1, <2>2, CurrentType
    <2>4. ASSUME NEW g \in Handlers, NEW i \in DOMAIN replies[g],
                 replies[g][i] = "processed", req[g].items[i] = p
          PROVE  FALSE
      <3>1. i \in DOMAIN req[g].items
        BY <1>0, RequestType, RepliesType DEF IInv, HandlerInv
      <3>2. Inserted(g, i) /\ Inserted(h, Len(replies[h]) + 1)
        BY <2>1, <2>4 DEF Inserted
      <3>3. g = h /\ i = Len(replies[h]) + 1
        BY <1>0, <2>3, <2>4, <3>1, <3>2 DEF InsertedOnce
      <3>4. QED
        BY <1>0, <3>3, RepliesType
    <2>5. Settling(p)
      BY <1>0, <2>1, <2>2, <2>4 DEF StoredInv
    <2>6. /\ DOMAIN queue' = DOMAIN queue \cup {Len(queue) + 1}
          /\ \A a \in DOMAIN queue : queue'[a] = queue[a]
          /\ queue'[Len(queue) + 1] = p
      <3>1. queue \in Seq(Payments) /\ queue' = Append(queue, p)
        BY <1>0, <1>5, <2>2 DEF TypeOK
      <3>2. QED
        BY <3>1
    <2>7. \A a \in DOMAIN queue' : SettlingNext(queue'[a])
      <3>1. SettlingNext(p)
        BY <1>1, <2>5
      <3>2. \A a \in DOMAIN queue : SettlingNext(queue[a])
        BY <1>1, <1>2
      <3> HIDE DEF SettlingNext
      <3>3. QED
        BY <2>6, <3>1, <3>2
    <2>8. QED
      BY <1>0, <2>7 DEF QueueInv, Stored, StoredNext
  <1>6. QED
    BY <1>3, <1>4, <1>5, StepCases DEF Plain, CacheDuplicate, Pay, CacheCompleted, Enqueue,
       Transfer, Store, BatchSettle, Restart, RedisConnection, Tick, vars, redis

LEMMA StepSentInv == ASSUME IInv, [Next]_vars PROVE SentInv'
  <1>0. /\ TypeOK /\ HandlerInv /\ GoroutineInv /\ InsertedOnce /\ SentInv /\ req' = req
    BY ReqConstant DEF IInv
  <1> DEFINE Told(p) == \E h \in Handlers : \E i \in DOMAIN replies[h] \ toSettle[h] :
                 replies[h][i] = "processed" /\ req[h].items[i] = p /\ pc[h] = "done"
  <1>1. ASSUME NEW p \in Payments, Told(p)
        PROVE  Told(p)'
    BY <1>0, <1>1, RepliesGrow
  <1>2. CASE UNCHANGED sent
    BY <1>0, <1>1, <1>2 DEF SentInv
  <1>3. ASSUME NEW h \in Handlers, BatchSettle(h), sent' # sent
        PROVE  SentInv'
    <2>1. PICK i \in toSettle[h] :
             /\ toSettle' = [toSettle EXCEPT ![h] = @ \ {i}]
             /\ sent' = [sent EXCEPT ![req[h].items[i]] = @ + 1]
      BY <1>3 DEF BatchSettle
    <2>2. /\ i \in DOMAIN replies[h] /\ replies[h][i] = "processed" /\ pc[h] = "done"
          /\ i \in DOMAIN req[h].items
      BY <1>0, <2>1, RepliesType, RequestType DEF GoroutineInv, Processed, HandlerInv
    <2>3. PICK q \in Payments : q = req[h].items[i]
      BY <1>0, <2>2, RequestType
    <2>4. sent[q] = 0
      <3>1. SUFFICES ASSUME NEW g \in Handlers,
                            NEW j \in DOMAIN replies[g] \ toSettle[g],
                            replies[g][j] = "processed", req[g].items[j] = q
                     PROVE  FALSE
        BY DEF SentInv, IInv
      <3>2. j \in DOMAIN req[g].items
        BY <1>0, RepliesType, RequestType DEF HandlerInv
      <3>3. Inserted(g, j) /\ Inserted(h, i)
        BY <2>2, <3>1 DEF Inserted
      <3>4. g = h /\ j = i
        BY <1>0, <2>2, <2>3, <3>1, <3>2, <3>3 DEF InsertedOnce
      <3>5. QED
        BY <2>1, <3>4
    <2>5. ASSUME NEW p \in Payments
          PROVE  sent'[p] = 0 \/ (sent'[p] = 1 /\ Told(p)')
      <3>1. CASE p = q
        <4>1. sent'[p] = 1
          BY <1>0, <2>1, <2>3, <2>4, <3>1 DEF TypeOK
        <4>2. /\ replies' = replies /\ pc' = pc /\ i \notin toSettle'[h]
          BY <1>0, <1>3, <2>1 DEF BatchSettle, TypeOK
        <4>3. QED
          BY <1>0, <2>2, <2>3, <3>1, <4>1, <4>2
      <3>2. CASE p # q
        <4>1. sent'[p] = sent[p]
          BY <1>0, <2>1, <2>3, <3>2 DEF TypeOK
        <4>2. QED
          BY <1>0, <1>1, <4>1 DEF SentInv
      <3>3. QED
        BY <3>1, <3>2
    <2>6. QED
      BY <2>5 DEF SentInv
  <1>4. ASSUME NEW h \in Handlers, HandlerAct(h) PROVE UNCHANGED sent
    BY <1>4, Shape
  <1>5. QED
    BY <1>2, <1>3, <1>4, Cases DEF Restart

-----------------------------------------------------------------------------
(* The theorems. *)

LEMMA InitIInv == ASSUME Init PROVE IInv
  <1>1. TypeOK
    BY InitTypeOK
  <1>2. \A h \in Handlers : /\ pc[h] = "idle" /\ replies[h] = <<>> /\ toSettle[h] = {}
                            /\ Len(req[h].items) >= 1 /\ Len(req[h].items) \in Nat
    BY <1>1, RequestType DEF Init
  <1>3. HandlerInv /\ GoroutineInv
    BY <1>2 DEF HandlerInv, GoroutineInv, CreateSteps, BatchSteps, PastRedis, Active
  <1>4. StoredInv /\ RowIffMoved /\ CachedIsStored
    BY <1>2 DEF Init, StoredInv, RowIffMoved, CachedIsStored, Stored, Live
  <1>5. SuccessIsTrue /\ InsertedOnce
    BY <1>2 DEF SuccessIsTrue, InsertedOnce, Inserted
  <1>6. QueueInv /\ SentInv
    BY DEF Init, QueueInv, SentInv
  <1>7. QED
    BY <1>1, <1>3, <1>4, <1>5, <1>6 DEF IInv

LEMMA StepIInv == ASSUME IInv, [Next]_vars PROVE IInv'
  BY StepTypeOK, StepHandlerInv, StepGoroutineInv, StepStoredInv, StepRowIffMoved,
     StepCachedIsStored, StepSuccessIsTrue, StepInsertedOnce, StepQueueInv, StepSentInv
  DEF IInv

\* The inductive invariant: every variable has its type, every handler is at a
\* step of its endpoint, and what its step says of its payment is so.
THEOREM Invariant == Spec => []IInv
  BY InitIInv, StepIInv, PTL DEF Spec

\* Every variable of the payments has its type.
THEOREM TypeCorrect == Spec => []TypeOK
  <1>1. IInv => TypeOK
    BY DEF IInv
  <1>2. QED
    BY <1>1, Invariant, PTL

\* However requests interleave, and whatever is lost, CreateTransaction's
\* transfer and row commit together or not at all.
THEOREM RowExactlyWhenMoneyMoved == Spec => []RowIffMoved
  <1>1. IInv => RowIffMoved
    BY DEF IInv
  <1>2. QED
    BY <1>1, Invariant, PTL

\* Redis never says COMPLETED of a payment whose row is not committed.
THEOREM CacheNeverAhead == Spec => []CachedIsStored
  <1>1. IInv => CachedIsStored
    BY DEF IInv
  <1>2. QED
    BY <1>1, Invariant, PTL

\* Success, or "duplicate", is only ever told of a payment whose money has
\* moved and whose row is committed.
THEOREM SuccessNeverFalse == Spec => []SuccessIsTrue
  <1>1. IInv => SuccessIsTrue
    BY DEF IInv
  <1>2. QED
    BY <1>1, Invariant, PTL

\* However often a payment is repeated, and however often the push of it is: it
\* is sent once, or queued, and never both, and not before its money has moved.
THEOREM SettledByOneWay == Spec => []SettledOneWay
  <1>1. ASSUME IInv, NEW p \in Payments
        PROVE  LET queued == \E i \in DOMAIN queue : queue[i] = p
               IN  /\ sent[p] <= 1
                   /\ ~(queued /\ sent[p] > 0)
                   /\ queued \/ sent[p] > 0 => Stored(p) /\ moved[p] > 0
    <2>1. TypeOK /\ StoredInv /\ SuccessIsTrue /\ QueueInv /\ SentInv
      BY <1>1 DEF IInv
    <2>2. moved[p] \in Nat /\ (sent[p] = 0 \/ sent[p] = 1)
      BY <2>1 DEF TypeOK, SentInv
    <2>3. ASSUME sent[p] > 0
          PROVE  \E h \in Handlers : \E i \in DOMAIN replies[h] :
                    replies[h][i] = "processed" /\ req[h].items[i] = p
      BY <2>1, <2>2, <2>3 DEF SentInv
    <2>4. ASSUME NEW i \in DOMAIN queue, queue[i] = p
          PROVE  Stored(p) /\ ~(sent[p] > 0)
      BY <2>1, <2>3, <2>4 DEF QueueInv
    <2>5. sent[p] > 0 => Stored(p)
      BY <2>1, <2>3 DEF SuccessIsTrue
    <2>6. Stored(p) => moved[p] > 0
      BY <2>1, <2>2 DEF StoredInv
    <2>7. QED
      BY <2>2, <2>4, <2>5, <2>6
  <1>2. IInv => SettledOneWay
    BY <1>1 DEF SettledOneWay
  <1>3. QED
    BY <1>2, Invariant, PTL

\* A process that started without Redis moves no money, even when Redis is
\* back: it cannot tell a replay.
THEOREM NoRedisMovesNoMoney == Spec => NoRedisNoMoney
  <1>1. ASSUME IInv, [Next]_vars
        PROVE  (\E p \in Payments : moved'[p] > moved[p]) => client
    <2>1. SUFFICES ASSUME NEW p \in Payments, moved'[p] > moved[p] PROVE client
      OBVIOUS
    <2>2. moved'[p] # moved[p]
      BY <1>1, <2>1 DEF IInv, TypeOK
    <2>3. PICK h \in Handlers : Pay(h) \/ Transfer(h)
      BY <1>1, <2>2, NewMove
    <2>4. QED
      BY <1>1, <2>3 DEF IInv, HandlerInv, PastRedis, Pay, Transfer
  <1>2. IInv /\ [Next]_vars => [(\E p \in Payments : moved'[p] > moved[p]) => client]_vars
    BY <1>1
  <1>3. QED
    BY <1>2, Invariant, PTL DEF Spec, NoRedisNoMoney

-----------------------------------------------------------------------------
(* One request at a time, and a Redis that keeps its keys: no replay. *)

NonceSteps == {"checkNonce", "storeNonce", "signature", "pay", "doubleSpending", "transfer"}

\* The moves of a handler between the timestamp check and the transfer.
ToNonceStep(h) ==
    /\ Active(h)
    /\ UNCHANGED <<req, replies, moved, now>>
    /\ \/ pc'[h] = "checkNonce" /\ Valid(Current(h))
       \/ pc'[h] = "storeNonce" /\ pc[h] = "checkNonce" /\ ~Live(nonce[Current(h)])
       \/ /\ pc'[h] = "signature" /\ pc[h] = "storeNonce"
          /\ nonce' = [nonce EXCEPT ![Current(h)] = now + NonceTTL]
       \/ pc'[h] \in {"pay", "doubleSpending"} /\ pc[h] = "signature"
       \/ pc'[h] = "transfer" /\ pc[h] = "doubleSpending"

LEMMA OwnNonceStep ==
    ASSUME IInv, NEW h \in Handlers, HandlerStep(h), pc'[h] \in NonceSteps
    PROVE  ToNonceStep(h) \/ BatchSettle(h)
  <1> USE DEF NonceSteps, ToNonceStep, Continue, Goto, redis, database
  <1>0. /\ pc \in [Handlers -> PCs]
        /\ ~(\E outcome \in Outcomes, g \in {h} : Active(h) /\ Answer(g, outcome))
    <2>1. ASSUME NEW outcome \in Outcomes, Active(h), Answer(h, outcome) PROVE FALSE
      BY <2>1, Answered DEF IInv, HandlerInv
    <2>2. QED
      BY <2>1 DEF IInv, TypeOK
  <1> USE DEF Outcomes, Active
  <1>1. CASE Receive(h) \/ CheckIdempotency(h) \/ CheckDatabase(h) \/ CacheDuplicate(h)
    BY <1>0, <1>1 DEF Receive, CheckIdempotency, CheckDatabase, CacheDuplicate
  <1>2. CASE Validate(h)
    BY <1>0, <1>2 DEF Validate
  <1>3. CASE CheckNonce(h)
    BY <1>0, <1>3 DEF CheckNonce
  <1>4. CASE StoreNonce(h)
    BY <1>0, <1>4 DEF StoreNonce
  <1>5. CASE VerifySignature(h)
    BY <1>0, <1>5 DEF VerifySignature
  <1>6. CASE Pay(h) \/ PayFails(h) \/ CacheCompleted(h) \/ Enqueue(h)
    BY <1>0, <1>6 DEF Pay, PayFails, CacheCompleted, Enqueue
  <1>7. CASE CheckDoubleSpending(h)
    BY <1>0, <1>7 DEF CheckDoubleSpending
  <1>8. CASE Transfer(h) \/ TransferFails(h) \/ Store(h)
    BY <1>0, <1>8 DEF Transfer, TransferFails, Store
  <1>9. CASE PanicsWithoutRedis(h)
    BY <1>0, <1>9 DEF PanicsWithoutRedis
  <1>10. QED
    BY <1>1, <1>2, <1>3, <1>4, <1>5, <1>6, <1>7, <1>8, <1>9 DEF HandlerStep

LEMMA NonceStep ==
    ASSUME IInv, [Next]_vars, NEW h \in Handlers, pc'[h] \in NonceSteps
    PROVE  \/ pc'[h] = pc[h] /\ replies'[h] = replies[h]
           \/ ToNonceStep(h)
  <1>1. ASSUME NEW g \in Handlers, HandlerStep(g), g # h
        PROVE  pc'[h] = pc[h] /\ replies'[h] = replies[h]
    <2>1. HandlerAct(g) \/ BatchSettle(g)
      BY <1>1, PlainSteps DEF HandlerStep, PlainStep, HandlerAct
    <2>2. QED
      BY <1>1, <2>1, OtherHandlers DEF BatchSettle
  <1>2. ASSUME HandlerStep(h)
        PROVE  \/ pc'[h] = pc[h] /\ replies'[h] = replies[h]
               \/ ToNonceStep(h)
    BY <1>2, OwnNonceStep DEF BatchSettle
  <1>3. CASE Restart
    BY <1>3 DEF Restart, NonceSteps, Active
  <1>4. QED
    BY <1>1, <1>2, <1>3 DEF Next, RedisConnection, RedisLosesKeys, Tick, vars

LEMMA CoveredStays ==
    ASSUME IInv, SerialInv, Serial, [Next]_vars, NEW p \in Payments, Covered(p)
    PROVE  Covered(p)'
  <1>0. TypeOK /\ NonceInv
    BY DEF IInv, SerialInv
  <1>1. CASE nonce'[p] = nonce[p]
    BY <1>1 DEF Covered
  <1>2. ASSUME NEW h \in Handlers, StoreNonce(h), nonce'[p] # nonce[p]
        PROVE  Covered(p)'
    <2>1. Current(h) \in Payments
      BY <1>0, <1>2, CurrentType DEF StoreNonce, IInv, HandlerInv, Active
    <2>2. p = Current(h) /\ nonce'[p] = now + NonceTTL
      BY <1>0, <1>2, <2>1 DEF StoreNonce, TypeOK
    <2>3. Payment[p].timestamp <= now + FutureWindow
      BY <1>0, <1>2, <2>2 DEF StoreNonce, NonceInv
    <2>4. now \in Nat /\ Payment[p].timestamp \in Nat /\ NonceTTL \in Nat
      BY <1>0, PaymentType, TimesType DEF TypeOK
    <2>5. now + NonceTTL > Payment[p].timestamp + PastWindow
      BY <2>3, <2>4, TimesType DEF Serial
    <2>6. QED
      BY <2>2, <2>5 DEF Covered
  <1>3. ~RedisLosesKeys
    BY DEF Serial, RedisLosesKeys
  <1>4. QED
    BY <1>1, <1>2, <1>3 DEF Next, HandlerStep, Receive, CheckIdempotency, CheckDatabase,
       CacheDuplicate, Validate, CheckNonce, VerifySignature, Pay, PayFails, CacheCompleted,
       Enqueue, CheckDoubleSpending, Transfer, TransferFails, Store, BatchSettle,
       PanicsWithoutRedis, Restart, RedisConnection, Tick, redis, vars

LEMMA StepDisjointInv ==
    ASSUME IInv, SerialInv, Serial, [Next]_vars
    PROVE  DisjointInv'
  <1>0. DisjointInv /\ req' = req
    BY ReqConstant DEF SerialInv
  <1>1. ASSUME NEW h \in Handlers, Active(h)', ~Active(h)
        PROVE  Receive(h)
    <2>1. ASSUME NEW g \in Handlers, HandlerStep(g), g # h
          PROVE  FALSE
      <3>1. HandlerAct(g) \/ BatchSettle(g)
        BY <2>1, PlainSteps DEF HandlerStep, PlainStep, HandlerAct
      <3>2. QED
        BY <1>1, <2>1, <3>1, OtherHandlers DEF BatchSettle, Active
    <2>2. ASSUME HandlerStep(h)
          PROVE  Receive(h)
      BY <1>1, <2>2 DEF HandlerStep, CheckIdempotency, CheckDatabase, CacheDuplicate,
         Validate, CheckNonce, StoreNonce, VerifySignature, Pay, PayFails, CacheCompleted,
         Enqueue, CheckDoubleSpending, Transfer, TransferFails, Store, BatchSettle,
         PanicsWithoutRedis, Active
    <2>3. QED
      BY <1>1, <2>1, <2>2 DEF Next, Restart, RedisConnection, RedisLosesKeys, Tick, vars, Active
  <1>2. ASSUME NEW g \in Handlers, NEW h \in Handlers, Receive(h), g # h, Active(g)'
        PROVE  Items(g) \cap Items(h) = {}
    <2>1. HandlerAct(h)
      BY <1>2, PlainSteps DEF PlainStep, HandlerAct
    <2>2. Active(g)
      BY <1>2, <2>1, OtherHandlers DEF Active
    <2>3. QED
      BY <1>2, <2>2 DEF Receive, Serial
  <1>3. ASSUME NEW g \in Handlers, NEW h \in Handlers, Active(g)', Active(h)',
               Items(g) \cap Items(h) # {}
        PROVE  g = h
    <2>1. CASE Active(g) /\ Active(h)
      BY <1>0, <1>3, <2>1 DEF DisjointInv
    <2>2. CASE ~Active(h)
      <3>1. Receive(h)
        BY <1>1, <1>3, <2>2
      <3>2. g # h => Items(g) \cap Items(h) = {}
        BY <1>2, <1>3, <3>1
      <3>3. QED
        BY <1>3, <3>2
    <2>3. CASE ~Active(g)
      <3>1. Receive(g)
        BY <1>1, <1>3, <2>3
      <3>2. h # g => Items(h) \cap Items(g) = {}
        BY <1>2, <1>3, <3>1
      <3>3. QED
        BY <1>3, <3>2
    <2>4. QED
      BY <2>1, <2>2, <2>3
  <1>4. ASSUME NEW g \in Handlers PROVE Items(g)' = Items(g)
    BY <1>0 DEF Items
  <1>5. QED
    BY <1>3, <1>4 DEF DisjointInv

LEMMA NewMoveCovered ==
    ASSUME IInv, SerialInv, [Next]_vars, NEW p \in Payments, moved'[p] # moved[p]
    PROVE  Covered(p) /\ moved[p] = 0 /\ moved'[p] = 1
  <1>1. PICK h \in Handlers : /\ p = Current(h) /\ moved'[p] = moved[p] + 1
                              /\ pc[h] \in {"pay", "transfer"}
    BY NewMove DEF Pay, Transfer
  <1>2. QED
    BY <1>1 DEF SerialInv, NonceInv

LEMMA StepNonceInv ==
    ASSUME IInv, SerialInv, Serial, [Next]_vars
    PROVE  NonceInv'
  <1>0. TypeOK /\ HandlerInv /\ DisjointInv /\ NonceInv /\ req' = req
    BY ReqConstant DEF IInv, SerialInv
  <1> DEFINE Inv(h) ==
        /\ pc[h] \in {"checkNonce", "storeNonce"} =>
              /\ Payment[Current(h)].timestamp <= now + FutureWindow
              /\ Payment[Current(h)].timestamp + PastWindow >= now
        /\ pc[h] \in {"storeNonce", "signature", "pay", "doubleSpending", "transfer"} =>
              moved[Current(h)] = 0
        /\ pc[h] \in {"signature", "pay", "doubleSpending", "transfer"} =>
              Covered(Current(h))
  <1>1. ASSUME NEW h \in Handlers, pc'[h] = pc[h], replies'[h] = replies[h],
               pc'[h] \in NonceSteps
        PROVE  Inv(h)'
    <2>1. PICK p \in Payments : p = Current(h) /\ p = Current(h)' /\ p \in Items(h)
      BY <1>0, <1>1, CurrentType DEF NonceSteps, HandlerInv, Active, Current
    <2>2. Inv(h)
      BY <1>0 DEF NonceInv
    <2>3. pc[h] \in {"checkNonce", "storeNonce"} => now' = now
      BY StepCases DEF Plain, CacheDuplicate, Pay, CacheCompleted, Enqueue, Transfer,
         Store, BatchSettle, Restart, RedisConnection, RedisLosesKeys, Tick, vars
    <2>4. ASSUME moved'[p] # moved[p], pc[h] \in NonceSteps \ {"checkNonce"}
          PROVE  FALSE
      <3>1. PICK g \in Handlers : /\ Active(g) /\ p \in Items(g) /\ p = Current(g)
                                  /\ Pay(g) \/ Transfer(g)
        BY <2>4, NewMove
      <3>0. Active(h)
        BY <2>4 DEF Active, NonceSteps
      <3>2. g = h
        <4>1. p \in Items(g) \cap Items(h)
          BY <2>1, <3>1
        <4>2. QED
          BY <1>0, <3>0, <3>1, <4>1 DEF DisjointInv
      <3>3. Len(replies[h]) < Len(req[h].items)
        BY <1>0, <3>0 DEF HandlerInv
      <3>4. pc[h] = "pay" \/ pc[h] = "transfer"
        BY <3>1, <3>2 DEF Pay, Transfer
      <3>5. \/ \E step \in {"cacheCompleted", "store"} : Continue(h, step)
            \/ Answer(h, "failed")
        BY <3>1, <3>2 DEF Pay, Transfer
      <3>6. pc'[h] \in {"cacheCompleted", "store", "done", "validate"}
        <4>1. ASSUME NEW step \in {"cacheCompleted", "store"}, Continue(h, step)
              PROVE  pc'[h] = step
          BY <1>0, <4>1, Continued DEF PCs
        <4>2. ASSUME Answer(h, "failed") PROVE pc'[h] \in {"done", "validate"}
          BY <1>0, <3>3, <4>2, Answered DEF Outcomes
        <4>3. QED
          BY <3>5, <4>1, <4>2
      <3>7. QED
        BY <1>1, <3>4, <3>6
    <2>5. Covered(p) => Covered(p)'
      BY CoveredStays
    <2>6. QED
      BY <1>1, <2>1, <2>2, <2>3, <2>4, <2>5 DEF NonceSteps, Covered
  <1>2. ASSUME NEW h \in Handlers, ToNonceStep(h)
        PROVE  Inv(h)'
    <2>1. PICK p \in Payments : p = Current(h) /\ p = Current(h)'
      BY <1>0, <1>2, CurrentType DEF ToNonceStep, HandlerInv, Current
    <2>2. moved' = moved /\ now' = now
      BY <1>2 DEF ToNonceStep
    <2>3. Inv(h)
      BY <1>0 DEF NonceInv
    <2>4. /\ now \in Nat /\ moved[p] \in Nat /\ nonce[p] \in Nat
          /\ Payment[p].timestamp \in Nat
      BY <1>0, PaymentType DEF TypeOK
    <2>5. Covered(p) => Covered(p)'
      BY CoveredStays
    <2>6. CASE pc'[h] = "checkNonce" /\ Valid(p)
      BY <2>1, <2>2, <2>6 DEF Valid
    <2>7. CASE pc'[h] = "storeNonce" /\ pc[h] = "checkNonce" /\ ~Live(nonce[p])
      <3>1. Payment[p].timestamp <= now + FutureWindow /\ Payment[p].timestamp + PastWindow >= now
        BY <2>1, <2>3, <2>7
      <3>2. ~Covered(p)
        BY <2>4, <2>7, <3>1, TimesType DEF Live, Covered
      <3>3. moved[p] = 0
        BY <1>0, <2>4, <3>2 DEF NonceInv
      <3>4. QED
        BY <2>1, <2>2, <2>7, <3>1, <3>3
    <2>8. CASE /\ pc'[h] = "signature" /\ pc[h] = "storeNonce"
               /\ nonce' = [nonce EXCEPT ![p] = now + NonceTTL]
      <3>1. nonce'[p] = now + NonceTTL /\ Payment[p].timestamp <= now + FutureWindow
        BY <1>0, <2>1, <2>3, <2>8 DEF TypeOK
      <3>2. now + NonceTTL > Payment[p].timestamp + PastWindow
        BY <2>4, <3>1, TimesType DEF Serial
      <3>3. Covered(p)'
        BY <3>1, <3>2 DEF Covered
      <3>4. QED
        BY <2>1, <2>2, <2>3, <2>8, <3>3 DEF Covered
    <2>9. CASE \/ pc'[h] \in {"pay", "doubleSpending"} /\ pc[h] = "signature"
               \/ pc'[h] = "transfer" /\ pc[h] = "doubleSpending"
      BY <2>1, <2>2, <2>3, <2>5, <2>9 DEF Covered
    <2>10. QED
      BY <1>2, <2>1, <2>6, <2>7, <2>8, <2>9 DEF ToNonceStep
  <1>3. ASSUME NEW h \in Handlers PROVE Inv(h)'
    BY <1>1, <1>2, NonceStep DEF NonceSteps
  <1>4. ASSUME NEW p \in Payments, moved'[p] > 0 PROVE Covered(p)'
    <2>1. CASE moved'[p] # moved[p]
      BY <2>1, NewMoveCovered, CoveredStays
    <2>2. CASE moved'[p] = moved[p]
      BY <1>0, <1>4, <2>2, CoveredStays DEF NonceInv
    <2>3. QED
      BY <2>1, <2>2
  <1>5. QED
    BY <1>3, <1>4 DEF NonceInv

LEMMA StepSerialInv ==
    ASSUME IInv, SerialInv, Serial, [Next]_vars
    PROVE  SerialInv'
  <1>1. ASSUME NEW p \in Payments PROVE moved'[p] <= 1
    <2>1. CASE moved'[p] # moved[p]
      BY <2>1, NewMoveCovered
    <2>2. CASE moved'[p] = moved[p]
      BY <2>2 DEF SerialInv, MoneyMovesOnce
    <2>3. QED
      BY <2>1, <2>2
  <1>2. QED
    BY <1>1, StepDisjointInv, StepNonceInv DEF SerialInv, MoneyMovesOnce

\* If no two requests for a payment are in progress at once, Redis keeps its
\* keys, and a nonce outlives the window in which a timestamp is accepted (the
\* code: 10 min against 300 s and 30 s), a payment's money moves at most once,
\* however often it is sent, to either endpoint, and whatever restarts.
THEOREM NoDoubleCharge == Serial => (Spec => []MoneyMovesOnce)
  <1>1. ASSUME Init PROVE SerialInv
    BY <1>1 DEF Init, SerialInv, DisjointInv, NonceInv, MoneyMovesOnce, Active
  <1>2. SUFFICES ASSUME Serial PROVE Spec => []MoneyMovesOnce
    OBVIOUS
  <1>3. IInv /\ SerialInv /\ [Next]_vars => SerialInv'
    BY <1>2, StepSerialInv
  <1>4. SerialInv => MoneyMovesOnce
    BY DEF SerialInv
  <1>5. QED
    BY <1>1, <1>3, <1>4, Invariant, PTL DEF Spec
=============================================================================
