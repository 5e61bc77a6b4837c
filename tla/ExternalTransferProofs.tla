----------------------- MODULE ExternalTransferProofs -----------------------
(***************************************************************************)
(* Theorems about ExternalTransfer, for any set of handlers, accounts,     *)
(* transfers, fees and any size of the connection pool.                    *)
(***************************************************************************)
EXTENDS ExternalTransferInvariant, TLAPS, FiniteSetTheorems

LEMMA QuotientNat == ASSUME NEW a \in Nat, NEW b \in Nat \ {0} PROVE a \div b \in Nat
  OBVIOUS

LEMMA ProductNat == ASSUME NEW a \in Nat, NEW b \in Nat PROVE a * b \in Nat
  OBVIOUS

LEMMA RequestType ==
    ASSUME TypeOK, NEW h \in Handlers
    PROVE  /\ req[h] \in Requests /\ Ref(h) \in Refs
           /\ From(h) \in Accounts /\ From(h) # FeeAccount
           /\ Amount(h) \in Nat /\ Fee(h) \in Nat /\ Total(h) \in Nat
  <1>1. req[h] \in Requests
    BY DEF TypeOK
  <1>2. /\ Ref(h) \in Refs /\ From(h) \in Accounts /\ From(h) # FeeAccount
        /\ req[h].amount \in Nat
    BY <1>1, ExternalTransferAssumption DEF Ref, From
  <1>3. Amount(h) \in Nat
    BY <1>2, QuotientNat, ExternalTransferAssumption DEF Amount, Truncated
  <1>4. Amount(h) * FeePercent \in Nat
    BY <1>3, ProductNat, ExternalTransferAssumption
  <1>5. (Amount(h) * FeePercent) \div 100 \in Nat
    BY <1>4, QuotientNat
  <1>6. Fee(h) \in Nat
    BY <1>5, ExternalTransferAssumption DEF Fee, CalculateFee
  <1>7. QED
    BY <1>1, <1>2, <1>3, <1>6 DEF Total

LEMMA InitIInv == ASSUME Init PROVE IInv
  <1>1. TypeOK
    BY ExternalTransferAssumption DEF Init, TypeOK, PCs, Replies
  <1>2. LockInv /\ OwnerInv
    BY DEF Init, LockInv, OwnerInv, HoldsRow, Owning
  <1>3. NoOverdraft
    BY ExternalTransferAssumption DEF Init, NoOverdraft
  <1>4. SentOnce /\ SuccessIsDurable /\ CachedIsCommitted
    BY DEF Init, SentOnce, SuccessIsDurable, CachedIsCommitted, NoStatus
  <1>5. PoolInv
    <2>1. {h \in Handlers : pc[h] \in InTransaction} = {}
      BY DEF Init, InTransaction
    <2>2. Cardinality({}) = 0
      BY FS_EmptySet
    <2>3. 0 <= PoolSize
      BY ExternalTransferAssumption
    <2>4. QED
      BY <2>1, <2>2, <2>3 DEF PoolInv
  <1>6. QED
    BY <1>1, <1>2, <1>3, <1>4, <1>5 DEF IInv

-----------------------------------------------------------------------------
(* The steps of a handler, by what they change. *)

\* Steps that change neither balances nor rows nor messages.
Quiet(h) ==
    \/ Receive(h) \/ CheckIdempotency(h) \/ CheckDatabase(h) \/ Begin(h)
    \/ VerifyOwner(h) \/ Insert(h) \/ CreditFee(h) \/ CachePending(h)
    \/ StatementFails(h) \/ Lose(h)

HandlerAct(h) ==
    Quiet(h) \/ SelectSource(h) \/ Debit(h) \/ Commit(h) \/ Send(h) \/ MarkFailed(h)

LEMMA StepCases ==
    ASSUME [Next]_vars
    PROVE  \/ \E h \in Handlers : HandlerAct(h)
           \/ \E ref \in Refs : CacheExpires(ref)
           \/ UNCHANGED vars
  BY DEF Next, Proceed, HandlerAct, Quiet

\* A step of h changes the progress of h only, and no request.
LEMMA OwnStep ==
    ASSUME TypeOK, NEW h \in Handlers, HandlerAct(h)
    PROVE  /\ req' = req /\ pc[h] # "ended"
           /\ \/ \E step \in PCs : Goto(h, step)
              \/ \E outcome \in Replies : Answer(h, outcome)
  <1> USE DEF PCs, Replies, InTransaction, NoStatus
  <1>1. CASE Quiet(h)
    <2>1. CASE Receive(h) \/ Begin(h) \/ CreditFee(h) \/ CachePending(h)
      BY <2>1 DEF Receive, Begin, CreditFee, CachePending
    <2>2. CASE CheckIdempotency(h)
      BY <2>2 DEF CheckIdempotency, AnswerDuplicate
    <2>3. CASE CheckDatabase(h)
      BY <2>3 DEF CheckDatabase, AnswerDuplicate
    <2>4. CASE VerifyOwner(h) \/ Insert(h)
      BY <2>4 DEF VerifyOwner, Insert
    <2>5. CASE StatementFails(h) \/ Lose(h)
      BY <2>5 DEF StatementFails, Lose
    <2>6. QED
      BY <1>1, <2>1, <2>2, <2>3, <2>4, <2>5 DEF Quiet
  <1>2. CASE SelectSource(h) \/ Debit(h)
    BY <1>2 DEF SelectSource, Debit, RecordRejection
  <1>3. CASE Commit(h) \/ Send(h) \/ MarkFailed(h)
    BY <1>3 DEF Commit, Send, MarkFailed
  <1>4. QED
    BY <1>1, <1>2, <1>3 DEF HandlerAct

LEMMA OwnStepEffect ==
    ASSUME TypeOK, NEW h \in Handlers, HandlerAct(h)
    PROVE  /\ pc' \in [Handlers -> PCs] /\ reply' \in [Handlers -> Replies]
           /\ \A g \in Handlers \ {h} : pc'[g] = pc[g] /\ reply'[g] = reply[g]
  BY OwnStep DEF Goto, Answer, TypeOK, PCs

\* Every variable keeps its type.
LEMMA StepTypeOK == ASSUME IInv, [Next]_vars PROVE TypeOK'
  <1>0. TypeOK
    BY DEF IInv
  <1>1. ASSUME NEW h \in Handlers, HandlerAct(h) PROVE TypeOK'
    <2>0. /\ req' = req /\ pc' \in [Handlers -> PCs] /\ reply' \in [Handlers -> Replies]
          /\ Ref(h) \in Refs /\ From(h) \in Accounts /\ Fee(h) \in Nat /\ Total(h) \in Nat
      BY <1>0, <1>1, OwnStep, OwnStepEffect, RequestType
    <2> USE DEF Statuses, Rejections, NoStatus
    <2>1. CASE Quiet(h)
      <3>1. balance' = balance /\ status' = status /\ sent' = sent
        BY <2>1 DEF Quiet, Receive, CheckIdempotency, CheckDatabase, Begin, VerifyOwner,
           Insert, CreditFee, CachePending, StatementFails, Lose
      <3>2. cache' \in [Refs -> Statuses \cup {NoStatus}]
        BY <1>0, <2>0, <2>1 DEF Quiet, Receive, CheckIdempotency, CheckDatabase, Begin,
           VerifyOwner, Insert, CreditFee, CachePending, StatementFails, Lose,
           SetIdempotency, TypeOK
      <3>3. QED
        BY <1>0, <2>0, <3>1, <3>2 DEF TypeOK
    <2>2. CASE SelectSource(h) \/ Debit(h)
      BY <1>0, <2>0, <2>2 DEF SelectSource, Debit, RecordRejection, TypeOK
    <2>3. CASE Commit(h)
      BY <1>0, <2>0, <2>3, ExternalTransferAssumption DEF Commit, TypeOK
    <2>4. CASE Send(h) \/ MarkFailed(h)
      BY <1>0, <2>0, <2>4 DEF Send, SendToSettlement, MarkFailed, TypeOK
    <2>5. QED
      BY <1>1, <2>1, <2>2, <2>3, <2>4 DEF HandlerAct
  <1>2. ASSUME NEW ref \in Refs, CacheExpires(ref) PROVE TypeOK'
    BY <1>0, <1>2 DEF CacheExpires, TypeOK
  <1>3. CASE UNCHANGED vars
    BY <1>0, <1>3 DEF vars, TypeOK
  <1>4. QED
    BY <1>1, <1>2, <1>3, StepCases

\* What brings a handler to each of the steps the invariant speaks of.
LEMMA NextStep ==
    ASSUME TypeOK, NEW h \in Handlers, HandlerAct(h)
    PROVE  \/ pc'[h] \in {"idempotency", "database", "begin", "owner", "select", "ended"}
           \/ pc'[h] = "debit" /\ SelectSource(h) /\ UNCHANGED status
           \/ pc'[h] = "insert" /\ Debit(h) /\ balance[From(h)] >= Total(h) /\ UNCHANGED status
           \/ pc'[h] = "fee" /\ Insert(h) /\ NotBeingInserted(h) /\ status[Ref(h)] = NoStatus
           \/ pc'[h] = "commit" /\ CreditFee(h)
           \/ pc'[h] = "cachePending" /\ Commit(h)
           \/ pc'[h] = "send" /\ CachePending(h)
           \/ pc'[h] = "markFailed" /\ Send(h) /\ UNCHANGED sent
  <1> USE DEF Goto, Answer, TypeOK
  <1>1. CASE Receive(h) \/ Begin(h) \/ CreditFee(h) \/ CachePending(h)
    BY <1>1 DEF Receive, Begin, CreditFee, CachePending
  <1>2. CASE CheckIdempotency(h) \/ CheckDatabase(h)
    BY <1>2 DEF CheckIdempotency, CheckDatabase, AnswerDuplicate
  <1>3. CASE VerifyOwner(h)
    BY <1>3 DEF VerifyOwner
  <1>4. CASE Insert(h)
    BY <1>4 DEF Insert
  <1>5. CASE StatementFails(h) \/ Lose(h)
    BY <1>5 DEF StatementFails, Lose
  <1>6. CASE SelectSource(h)
    BY <1>6 DEF SelectSource, RecordRejection
  <1>7. CASE Debit(h)
    BY <1>7 DEF Debit, RecordRejection
  <1>8. CASE Commit(h)
    BY <1>8 DEF Commit
  <1>9. CASE Send(h) \/ MarkFailed(h)
    BY <1>9 DEF Send, MarkFailed
  <1>10. QED
    BY <1>1, <1>2, <1>3, <1>4, <1>5, <1>6, <1>7, <1>8, <1>9 DEF HandlerAct, Quiet

\* What changes the committed row of a transfer, and the messages about it.
LEMMA StatusChange ==
    ASSUME IInv, [Next]_vars, NEW ref \in Refs, status'[ref] # status[ref]
    PROVE  \E h \in Handlers :
              /\ Ref(h) = ref /\ HandlerAct(h) /\ sent' = sent
              /\ \/ /\ status[ref] = NoStatus /\ status'[ref] \in Rejections
                    /\ NotBeingInserted(h)
                    /\ pc[h] \notin Owning /\ pc'[h] = "ended"
                 \/ status'[ref] = "PENDING" /\ Commit(h)
                 \/ status'[ref] = "FAILED_SETTLEMENT_ERROR" /\ MarkFailed(h)
  <1>0. TypeOK
    BY DEF IInv
  <1>1. PICK h \in Handlers : SelectSource(h) \/ Debit(h) \/ Commit(h) \/ MarkFailed(h)
    BY StepCases DEF HandlerAct, Quiet, Receive, CheckIdempotency, CheckDatabase, Begin,
       VerifyOwner, Insert, CreditFee, CachePending, StatementFails, Lose, Send,
       CacheExpires, vars
  <1>2. Ref(h) \in Refs /\ HandlerAct(h)
    BY <1>0, <1>1, RequestType DEF HandlerAct
  <1>3. CASE SelectSource(h) \/ Debit(h)
    BY <1>0, <1>2, <1>3 DEF SelectSource, Debit, RecordRejection, Answer, TypeOK, Rejections,
       Owning
  <1>4. CASE Commit(h) \/ MarkFailed(h)
    BY <1>0, <1>2, <1>4 DEF Commit, MarkFailed, TypeOK
  <1>5. QED
    BY <1>1, <1>3, <1>4

LEMMA SentChange ==
    ASSUME IInv, [Next]_vars, NEW ref \in Refs, sent'[ref] # sent[ref]
    PROVE  \E h \in Handlers :
              /\ Ref(h) = ref /\ Send(h) /\ status' = status
              /\ sent'[ref] = sent[ref] + 1 /\ pc'[h] = "ended"
  <1>0. TypeOK
    BY DEF IInv
  <1>1. PICK h \in Handlers : Send(h)
    BY StepCases DEF HandlerAct, Quiet, Receive, CheckIdempotency, CheckDatabase, Begin,
       VerifyOwner, Insert, CreditFee, CachePending, StatementFails, Lose, SelectSource,
       Debit, Commit, MarkFailed, CacheExpires, vars
  <1>2. Ref(h) \in Refs
    BY <1>0, RequestType
  <1>3. QED
    BY <1>0, <1>1, <1>2 DEF Send, SendToSettlement, Goto, Answer, TypeOK

LEMMA BalanceChange ==
    ASSUME IInv, [Next]_vars, NEW a \in Accounts, balance'[a] # balance[a]
    PROVE  \E h \in Handlers :
              /\ Commit(h) /\ Fee(h) \in Nat /\ From(h) # FeeAccount
              /\ \/ a = From(h) /\ balance'[a] = balance[a] - Total(h)
                 \/ a = FeeAccount /\ balance'[a] = balance[a] + Fee(h)
  <1>0. TypeOK
    BY DEF IInv
  <1>1. PICK h \in Handlers : Commit(h)
    BY StepCases DEF HandlerAct, Quiet, Receive, CheckIdempotency, CheckDatabase, Begin,
       VerifyOwner, Insert, CreditFee, CachePending, StatementFails, Lose, SelectSource,
       Debit, Send, MarkFailed, CacheExpires, vars
  <1>2. From(h) \in Accounts /\ From(h) # FeeAccount /\ Fee(h) \in Nat
    BY <1>0, RequestType
  <1>3. QED
    BY <1>0, <1>1, <1>2, ExternalTransferAssumption DEF Commit, TypeOK

-----------------------------------------------------------------------------
(* The invariant is inductive. *)

LEMMA ReqConstant == ASSUME IInv, [Next]_vars PROVE req' = req
  BY StepCases, OwnStep DEF IInv, CacheExpires, vars

\* A handler is moved by its own act only.
LEMMA PcChange ==
    ASSUME IInv, [Next]_vars, NEW h \in Handlers
    PROVE  HandlerAct(h) \/ (pc'[h] = pc[h] /\ reply'[h] = reply[h])
  BY StepCases, OwnStepEffect DEF IInv, CacheExpires, vars

\* Two handlers never act in one step.
LEMMA OneActor ==
    ASSUME IInv, NEW g \in Handlers, NEW h \in Handlers, HandlerAct(g), g # h
    PROVE  pc'[h] = pc[h]
  BY OwnStepEffect DEF IInv

LEMMA StepLockInv == ASSUME IInv, [Next]_vars PROVE LockInv'
  <1>0. TypeOK /\ LockInv /\ req' = req
    BY ReqConstant DEF IInv
  <1>1. ASSUME NEW h \in Handlers, pc'[h] \in HoldsRow
        PROVE  \/ pc[h] \in HoldsRow
               \/ HandlerAct(h) /\ Unlocked(h, From(h))
    <2>1. CASE pc'[h] = pc[h]
      BY <1>1, <2>1
    <2>2. CASE HandlerAct(h)
      BY <1>0, <1>1, <2>2, NextStep
      DEF HoldsRow, SelectSource, Debit, Insert, CreditFee
    <2>3. QED
      BY <2>1, <2>2, PcChange
  <1>2. ASSUME NEW g \in Handlers, NEW h \in Handlers, pc'[g] \in HoldsRow, pc'[h] \in HoldsRow,
               From(g) = From(h), g # h
        PROVE  pc[g] \in HoldsRow
    <2>1. SUFFICES ASSUME HandlerAct(g), Unlocked(g, From(g)) PROVE FALSE
      BY <1>1, <1>2
    <2>2. pc[h] \in HoldsRow
      BY <1>2, <2>1, OneActor
    <2>3. From(g) \in Accounts /\ From(h) \in Accounts
      BY <1>0, RequestType
    <2>4. From(h) \in LockedAccounts(h)
      BY <2>2, <2>3 DEF LockedAccounts, HoldsRow
    <2>5. QED
      BY <1>2, <2>1, <2>4 DEF Unlocked
  <1>3. ASSUME NEW g \in Handlers, NEW h \in Handlers, pc'[g] \in HoldsRow, pc'[h] \in HoldsRow,
               From(g) = From(h)
        PROVE  g = h
    BY <1>0, <1>2, <1>3 DEF LockInv
  <1>4. ASSUME NEW h \in Handlers, pc'[h] \in {"insert", "fee", "commit"}
        PROVE  balance'[From(h)] >= Total(h)
    <2>1. From(h) \in Accounts /\ Total(h) \in Nat /\ balance[From(h)] \in Int
          /\ From(h) # FeeAccount
      BY <1>0, RequestType DEF TypeOK
    <2>2. balance[From(h)] >= Total(h) /\ pc[h] \in HoldsRow
      <3>1. CASE pc'[h] = pc[h]
        BY <1>0, <1>4, <3>1 DEF LockInv, HoldsRow
      <3>2. CASE HandlerAct(h)
        BY <1>0, <1>4, <3>2, NextStep DEF LockInv, Debit, Insert, CreditFee, HoldsRow
      <3>3. QED
        BY <3>1, <3>2, PcChange
    <2>3. balance'[From(h)] = balance[From(h)]
      <3>1. SUFFICES ASSUME balance'[From(h)] # balance[From(h)] PROVE FALSE
        OBVIOUS
      <3>2. PICK g \in Handlers : Commit(g) /\ From(g) = From(h)
        BY <2>1, <3>1, BalanceChange
      <3>3. g = h
        BY <1>0, <2>2, <3>2 DEF LockInv, HoldsRow, Commit
      <3>4. pc'[h] \in {"cachePending", "ended"}
        BY <1>0, <3>2, <3>3 DEF Commit, Goto, Answer, TypeOK
      <3>5. QED
        BY <1>4, <3>4
    <2>4. QED
      BY <2>2, <2>3
  <1>5. ASSUME NEW h \in Handlers
        PROVE  From(h)' = From(h) /\ Total(h)' = Total(h)
    BY <1>0 DEF From, Total, Amount, Fee
  <1>6. QED
    BY <1>3, <1>4, <1>5 DEF LockInv

LEMMA StepNoOverdraft == ASSUME IInv, [Next]_vars PROVE NoOverdraft'
  <1>0. TypeOK /\ LockInv /\ NoOverdraft
    BY DEF IInv
  <1>1. ASSUME NEW a \in Accounts PROVE balance'[a] >= 0
    <2>1. balance[a] \in Int /\ balance[a] >= 0
      BY <1>0 DEF TypeOK, NoOverdraft
    <2>2. CASE balance'[a] # balance[a]
      <3>1. PICK h \in Handlers :
               /\ Commit(h) /\ Fee(h) \in Nat
               /\ \/ a = From(h) /\ balance'[a] = balance[a] - Total(h)
                  \/ a = FeeAccount /\ balance'[a] = balance[a] + Fee(h)
        BY <2>2, BalanceChange
      <3>2. balance[From(h)] >= Total(h) /\ Total(h) \in Nat
        BY <1>0, <3>1, RequestType DEF LockInv, Commit
      <3>3. QED
        BY <2>1, <3>1, <3>2
    <2>3. QED
      BY <2>1, <2>2
  <1>2. QED
    BY <1>1 DEF NoOverdraft

LEMMA StepOwnerInv == ASSUME IInv, [Next]_vars PROVE OwnerInv'
  <1>0. TypeOK /\ OwnerInv /\ SentOnce /\ req' = req
    BY ReqConstant DEF IInv
  <1>1. ASSUME NEW h \in Handlers, pc'[h] \in Owning
        PROVE  \/ pc[h] \in Owning
               \/ /\ HandlerAct(h) /\ pc'[h] = "fee" /\ NotBeingInserted(h)
                  /\ status[Ref(h)] = NoStatus
    <2>1. CASE pc'[h] = pc[h]
      BY <1>1, <2>1
    <2>2. CASE HandlerAct(h)
      BY <1>0, <1>1, <2>2, NextStep
      DEF Owning, SelectSource, Debit, Insert, CreditFee, Commit, CachePending, Send
    <2>3. QED
      BY <2>1, <2>2, PcChange
  <1>2. ASSUME NEW g \in Handlers, NEW h \in Handlers, pc'[g] \in Owning, pc'[h] \in Owning,
               Ref(g) = Ref(h), g # h
        PROVE  pc[g] \in Owning
    <2>1. SUFFICES ASSUME HandlerAct(g), NotBeingInserted(g), status[Ref(g)] = NoStatus
                   PROVE  FALSE
      BY <1>1, <1>2
    <2>2. pc[h] \in Owning
      BY <1>2, <2>1, OneActor
    <2>3. pc[h] \in {"fee", "commit"}
      BY <1>0, <1>2, <2>1, <2>2 DEF OwnerInv, NoStatus
    <2>4. QED
      BY <1>2, <2>1, <2>3 DEF NotBeingInserted
  <1>3. ASSUME NEW g \in Handlers, NEW h \in Handlers, pc'[g] \in Owning, pc'[h] \in Owning,
               Ref(g) = Ref(h)
        PROVE  g = h
    BY <1>0, <1>2, <1>3 DEF OwnerInv
  <1>4. ASSUME NEW h \in Handlers, pc'[h] \in {"fee", "commit"}
        PROVE  status'[Ref(h)] = NoStatus
    <2>1. status[Ref(h)] = NoStatus /\ Ref(h) \in Refs
      <3>1. CASE pc[h] \in Owning
        <4>1. pc[h] \in {"fee", "commit"}
          <5>1. CASE pc'[h] = pc[h]
            BY <1>4, <5>1
          <5>2. CASE HandlerAct(h)
            BY <1>0, <1>4, <3>1, <5>2, NextStep DEF Owning, Insert, CreditFee
          <5>3. QED
            BY <5>1, <5>2, PcChange
        <4>2. QED
          BY <1>0, <4>1, RequestType DEF OwnerInv
      <3>2. QED
        BY <1>0, <1>1, <1>4, <3>1, RequestType DEF Owning
    <2>2. SUFFICES ASSUME status'[Ref(h)] # status[Ref(h)] PROVE FALSE
      BY <2>1
    <2>3. PICK g \in Handlers :
             /\ Ref(g) = Ref(h) /\ HandlerAct(g)
             /\ \/ NotBeingInserted(g) /\ pc[g] \notin Owning /\ pc'[g] = "ended"
                \/ Commit(g) \/ MarkFailed(g)
      BY <2>1, <2>2, StatusChange
    <2>4. CASE g = h
      <3>1. ~Commit(h) /\ ~MarkFailed(h)
        BY <1>0, <1>4 DEF Commit, MarkFailed, Goto, Answer, TypeOK
      <3>2. QED
        BY <1>4, <2>3, <2>4, <3>1
    <2>5. CASE g # h
      <3>1. pc[h] \in {"fee", "commit"}
        BY <1>4, <2>3, <2>5, OneActor
      <3>2. ~NotBeingInserted(g)
        BY <2>3, <2>5, <3>1 DEF NotBeingInserted
      <3>3. pc[g] \in Owning
        BY <2>3, <3>2 DEF Commit, MarkFailed, Owning
      <3>4. QED
        BY <1>0, <2>3, <2>5, <3>1, <3>3 DEF OwnerInv, Owning
    <2>6. QED
      BY <2>4, <2>5
  <1>5. ASSUME NEW h \in Handlers, pc'[h] \in Owning \ {"fee", "commit"}
        PROVE  status'[Ref(h)] = "PENDING"
    <2>1. Ref(h) \in Refs /\ pc[h] \in Owning
      BY <1>0, <1>1, <1>5, RequestType
    <2>2. CASE Commit(h)
      BY <1>0, <2>1, <2>2 DEF Commit, TypeOK
    <2>3. CASE ~Commit(h)
      <3>1. pc[h] \in Owning \ {"fee", "commit"}
        <4>1. CASE pc'[h] = pc[h]
          BY <1>5, <4>1
        <4>2. CASE HandlerAct(h)
          BY <1>0, <1>5, <2>3, <4>2, NextStep DEF Owning, CachePending, Send
        <4>3. QED
          BY <4>1, <4>2, PcChange
      <3>2. status[Ref(h)] = "PENDING"
        BY <1>0, <3>1 DEF OwnerInv
      <3>3. SUFFICES ASSUME status'[Ref(h)] # status[Ref(h)] PROVE FALSE
        BY <3>2
      <3>4. PICK g \in Handlers : Ref(g) = Ref(h) /\ (Commit(g) \/ MarkFailed(g))
        BY <2>1, <3>2, <3>3, StatusChange DEF NoStatus
      <3>5. g = h
        BY <1>0, <3>1, <3>4 DEF OwnerInv, Owning, Commit, MarkFailed
      <3>6. QED
        BY <1>0, <1>5, <2>3, <3>4, <3>5 DEF MarkFailed, Answer, TypeOK, Owning
    <2>4. QED
      BY <2>2, <2>3
  <1>6. ASSUME NEW h \in Handlers, pc'[h] \in Owning
        PROVE  sent'[Ref(h)] = 0
    <2>1. Ref(h) \in Refs /\ sent[Ref(h)] \in Nat
      BY <1>0, RequestType DEF TypeOK
    <2>2. sent[Ref(h)] = 0
      <3>1. CASE pc[h] \in Owning
        BY <1>0, <3>1 DEF OwnerInv
      <3>2. CASE status[Ref(h)] = NoStatus
        BY <1>0, <2>1, <3>2 DEF SentOnce, Debited, NoStatus
      <3>3. QED
        BY <1>1, <1>6, <3>1, <3>2
    <2>3. SUFFICES ASSUME sent'[Ref(h)] # sent[Ref(h)] PROVE FALSE
      BY <2>2
    <2>4. PICK g \in Handlers : Ref(g) = Ref(h) /\ Send(g) /\ pc'[g] = "ended"
      BY <2>1, <2>3, SentChange
    <2>5. g # h /\ HandlerAct(g)
      BY <1>6, <2>4 DEF Owning, HandlerAct
    <2>6. pc'[h] = pc[h]
      BY <2>5, OneActor
    <2>7. QED
      BY <1>0, <1>6, <2>4, <2>5, <2>6 DEF OwnerInv, Owning, Send
  <1>7. ASSUME NEW h \in Handlers PROVE Ref(h)' = Ref(h)
    BY <1>0 DEF Ref
  <1>8. QED
    BY <1>3, <1>4, <1>5, <1>6, <1>7 DEF OwnerInv

\* A debit is never taken back.
LEMMA DebitedStays ==
    ASSUME IInv, [Next]_vars, NEW ref \in Debited
    PROVE  ref \in Debited'
  <1>1. CASE status'[ref] = status[ref]
    BY <1>1 DEF Debited
  <1>2. CASE status'[ref] # status[ref]
    BY <1>2, StatusChange DEF Debited, NoStatus
  <1>3. QED
    BY <1>1, <1>2

LEMMA StepSentOnce == ASSUME IInv, [Next]_vars PROVE SentOnce'
  <1>0. TypeOK /\ OwnerInv /\ SentOnce
    BY DEF IInv
  <1>1. ASSUME NEW ref \in Refs
        PROVE  sent'[ref] <= IF ref \in Debited' THEN 1 ELSE 0
    <2>1. sent[ref] \in Nat /\ sent[ref] <= IF ref \in Debited THEN 1 ELSE 0
      BY <1>0 DEF TypeOK, SentOnce
    <2>2. CASE sent'[ref] = sent[ref]
      BY <2>1, <2>2, DebitedStays
    <2>3. CASE sent'[ref] # sent[ref]
      <3>1. PICK h \in Handlers :
               /\ Ref(h) = ref /\ Send(h) /\ status' = status /\ sent'[ref] = sent[ref] + 1
        BY <2>3, SentChange
      <3>2. sent[ref] = 0 /\ status[ref] = "PENDING"
        BY <1>0, <3>1 DEF OwnerInv, Owning, Send
      <3>3. QED
        BY <3>1, <3>2 DEF Debited
    <2>4. QED
      BY <2>2, <2>3
  <1>2. QED
    BY <1>1 DEF SentOnce

LEMMA StepSuccessIsDurable == ASSUME IInv, [Next]_vars PROVE SuccessIsDurable'
  <1>0. TypeOK /\ OwnerInv /\ SuccessIsDurable /\ CachedIsCommitted /\ req' = req
    BY ReqConstant DEF IInv
  <1>1. ASSUME NEW h \in Handlers, reply'[h] \in {"accepted", "duplicate"}
        PROVE  Ref(h) \in Debited
    <2>1. CASE reply'[h] = reply[h]
      BY <1>0, <1>1, <2>1 DEF SuccessIsDurable
    <2>2. CASE HandlerAct(h) /\ reply'[h] # reply[h]
      <3>0. Ref(h) \in Refs /\ reply \in [Handlers -> Replies]
        BY <1>0, RequestType DEF TypeOK
      <3>1. \/ Send(h)
            \/ CheckIdempotency(h) /\ cache[Ref(h)] = "PENDING"
            \/ CheckDatabase(h) /\ status[Ref(h)] = "PENDING"
        <4> USE DEF Goto, Answer, NoStatus
        <4>1. CASE CheckIdempotency(h) \/ CheckDatabase(h)
          BY <1>1, <2>2, <3>0, <4>1 DEF CheckIdempotency, CheckDatabase, AnswerDuplicate
        <4>2. CASE Receive(h) \/ Begin(h) \/ VerifyOwner(h) \/ Insert(h) \/ CreditFee(h)
          BY <1>1, <2>2, <3>0, <4>2 DEF Receive, Begin, VerifyOwner, Insert, CreditFee
        <4>3. CASE CachePending(h) \/ StatementFails(h) \/ Lose(h)
          BY <1>1, <2>2, <3>0, <4>3 DEF CachePending, StatementFails, Lose
        <4>4. CASE SelectSource(h) \/ Debit(h)
          BY <1>1, <2>2, <3>0, <4>4 DEF SelectSource, Debit, RecordRejection
        <4>5. CASE Commit(h) \/ MarkFailed(h)
          BY <1>1, <2>2, <3>0, <4>5 DEF Commit, MarkFailed
        <4>6. QED
          BY <2>2, <4>1, <4>2, <4>3, <4>4, <4>5 DEF HandlerAct, Quiet
      <3>2. Send(h) => status[Ref(h)] = "PENDING"
        BY <1>0 DEF OwnerInv, Owning, Send
      <3>3. cache[Ref(h)] = "PENDING" => status[Ref(h)] # NoStatus /\ status[Ref(h)] \notin Rejections
        BY <1>0, <3>0 DEF CachedIsCommitted, NoStatus, Rejections
      <3>4. QED
        BY <1>0, <3>0, <3>1, <3>2, <3>3 DEF Debited, TypeOK, Statuses
    <2>3. QED
      BY <2>1, <2>2, PcChange
  <1>2. ASSUME NEW h \in Handlers, reply'[h] \in {"accepted", "duplicate"}
        PROVE  Ref(h)' \in Debited'
    BY <1>0, <1>1, <1>2, DebitedStays DEF Ref
  <1>3. QED
    BY <1>2 DEF SuccessIsDurable

LEMMA StepCachedIsCommitted == ASSUME IInv, [Next]_vars PROVE CachedIsCommitted'
  <1>0. TypeOK /\ TypeOK' /\ OwnerInv /\ CachedIsCommitted
    BY StepTypeOK DEF IInv
  <1>1. ASSUME NEW ref \in Refs, status[ref] # NoStatus
        PROVE  status'[ref] # NoStatus /\ (status'[ref] \in Rejections <=> status[ref] \in Rejections)
    <2>1. CASE status'[ref] = status[ref]
      BY <1>1, <2>1
    <2>2. CASE status'[ref] # status[ref]
      <3>1. PICK h \in Handlers :
               /\ Ref(h) = ref
               /\ \/ status'[ref] = "PENDING" /\ Commit(h)
                  \/ status'[ref] = "FAILED_SETTLEMENT_ERROR" /\ MarkFailed(h)
        BY <1>1, <2>2, StatusChange
      <3>2. MarkFailed(h) /\ status[ref] = "PENDING"
        BY <1>0, <1>1, <3>1 DEF OwnerInv, Commit, MarkFailed, Owning
      <3>3. QED
        BY <3>1, <3>2 DEF Rejections, NoStatus
    <2>3. QED
      BY <2>1, <2>2
  <1>2. ASSUME NEW ref \in Refs, cache'[ref] # NoStatus, cache'[ref] # cache[ref]
        PROVE  /\ status[ref] # NoStatus
               /\ cache'[ref] \in Rejections <=> status[ref] \in Rejections
    <2>1. ASSUME NEW other \in Refs, CacheExpires(other) PROVE FALSE
      BY <1>0, <1>2, <2>1 DEF CacheExpires, TypeOK
    <2>2. PICK h \in Handlers : CheckDatabase(h) \/ CachePending(h)
      BY <1>2, <2>1, StepCases DEF HandlerAct, Quiet, Receive, CheckIdempotency, Begin,
         VerifyOwner, Insert, CreditFee, StatementFails, Lose, SelectSource,
         Debit, Commit, Send, MarkFailed, vars
    <2>3. Ref(h) \in Refs
      BY <1>0, RequestType
    <2>4. \/ status[ref] # NoStatus /\ cache'[ref] = status[ref]
          \/ status[ref] = "PENDING" /\ cache'[ref] = "PENDING"
      BY <1>0, <1>2, <2>2, <2>3
      DEF CheckDatabase, CachePending, SetIdempotency, TypeOK, OwnerInv, Owning
    <2>5. QED
      BY <2>4 DEF NoStatus, Rejections
  <1>3. ASSUME NEW ref \in Refs, cache'[ref] # NoStatus
        PROVE  /\ status'[ref] # NoStatus
               /\ cache'[ref] \in Rejections <=> status'[ref] \in Rejections
    BY <1>0, <1>1, <1>2, <1>3 DEF CachedIsCommitted
  <1>4. QED
    BY <1>3 DEF CachedIsCommitted

\* A transaction begins only when there is a connection for it.
LEMMA BeginsTransaction ==
    ASSUME TypeOK, NEW h \in Handlers, HandlerAct(h),
           pc'[h] \in InTransaction, pc[h] \notin InTransaction
    PROVE  ConnectionFree
  <1>1. pc'[h] \in {"owner", "select", "debit", "insert", "fee", "commit"}
    BY DEF InTransaction
  <1>2. CASE Quiet(h)
    BY <1>1, <1>2
    DEF Quiet, Receive, CheckIdempotency, CheckDatabase, Begin, VerifyOwner, Insert,
        CreditFee, CachePending, StatementFails, Lose, AnswerDuplicate, Answer, Goto,
        TypeOK, InTransaction
  <1>3. CASE SelectSource(h) \/ Debit(h) \/ Commit(h) \/ Send(h) \/ MarkFailed(h)
    BY <1>1, <1>3
    DEF SelectSource, Debit, Commit, Send, MarkFailed, RecordRejection, Answer, Goto,
        TypeOK, InTransaction
  <1>4. QED
    BY <1>2, <1>3 DEF HandlerAct

LEMMA StepPoolInv == ASSUME IInv, [Next]_vars PROVE PoolInv'
  <1> DEFINE open == {h \in Handlers : pc[h] \in InTransaction}
  <1>0. TypeOK /\ Cardinality(open) <= PoolSize
    BY DEF IInv, PoolInv
  <1>1. IsFiniteSet(open) /\ Cardinality(open) \in Nat /\ PoolSize \in Nat
    BY FS_Subset, FS_CardinalityType, ExternalTransferAssumption
  <1>2. CASE open' \subseteq open
    <2>1. Cardinality(open') <= Cardinality(open) /\ Cardinality(open') \in Nat
      BY <1>1, <1>2, FS_Subset, FS_CardinalityType
    <2>2. QED
      BY <1>0, <1>1, <2>1 DEF PoolInv
  <1>3. CASE ~(open' \subseteq open)
    <2>1. PICK h \in Handlers : pc'[h] \in InTransaction /\ pc[h] \notin InTransaction
      BY <1>3
    <2>2. HandlerAct(h)
      BY <2>1, PcChange
    <2>3. ConnectionFree
      BY <1>0, <2>1, <2>2, BeginsTransaction
    <2>4. open' = open \cup {h}
      BY <1>0, <2>1, <2>2, OwnStepEffect
    <2>5. Cardinality(open) < PoolSize
      BY <2>3 DEF ConnectionFree
    <2>6. h \notin open
      BY <2>1
    <2> HIDE DEF open
    <2>7. Cardinality(open') = Cardinality(open) + 1
      BY <1>1, <2>4, <2>6, FS_AddElement
    <2>8. QED
      BY <1>1, <2>5, <2>7 DEF PoolInv, open
  <1>4. QED
    BY <1>2, <1>3

LEMMA StepIInv == ASSUME IInv, [Next]_vars PROVE IInv'
  BY StepTypeOK, StepLockInv, StepOwnerInv, StepPoolInv, StepNoOverdraft, StepSentOnce,
     StepSuccessIsDurable, StepCachedIsCommitted DEF IInv

-----------------------------------------------------------------------------
(* The theorems. *)

\* The inductive invariant of the transfers: a source account is held by one
\* transaction from its balance check to the commit, and one handler at most
\* has inserted, committed or sent a transfer.
THEOREM Invariant == Spec => []IInv
  BY InitIInv, StepIInv, PTL DEF Spec

\* No account goes below zero, for amount and fee, whatever competes for it.
THEOREM NeverOverdrawn == Spec => []NoOverdraft
  <1>1. IInv => NoOverdraft
    BY DEF IInv
  <1>2. QED
    BY <1>1, Invariant, PTL

\* No transfer is sent to the settlement system twice, nor before its debit is
\* durable, however often a client retries and wherever a handler is lost.
THEOREM SentAtMostOnce == Spec => []SentOnce
  <1>1. IInv => SentOnce
    BY DEF IInv
  <1>2. QED
    BY <1>1, Invariant, PTL

\* "accepted" and "duplicate" are told only of transfers whose debit is durable.
THEOREM SuccessNeverFalse == Spec => []SuccessIsDurable
  <1>1. IInv => SuccessIsDurable
    BY DEF IInv
  <1>2. QED
    BY <1>1, Invariant, PTL

\* The idempotency key never says more than the table does.
THEOREM CacheNeverAhead == Spec => []CachedIsCommitted
  <1>1. IInv => CachedIsCommitted
    BY DEF IInv
  <1>2. QED
    BY <1>1, Invariant, PTL

-----------------------------------------------------------------------------
(* Deadlock. *)

\* A handler that is to commit waits for nobody, so one that wants the fee account
\* waits for nobody in the end; then no row is locked and nothing being inserted,
\* and what is left is the pool.
LEMMA WaitingIsForThePool == ASSUME IInv PROVE OnlyThePoolStops
  <1> DEFINE running == {h \in Handlers : pc[h] \notin {"idle", "ended"}}
  <1>1. SUFFICES ASSUME running # {}, \A h \in running : Waits(h)
                 PROVE  PoolExhausted
    BY DEF OnlyThePoolStops
  <1>2. pc \in [Handlers -> PCs] /\ TypeOK
    BY DEF IInv, TypeOK
  <1>3. \A h \in Handlers : pc[h] # "commit"
    BY <1>1 DEF Waits
  <1>4. \A h \in Handlers : pc[h] # "fee"
    <2>1. SUFFICES ASSUME NEW h \in Handlers, pc[h] = "fee" PROVE FALSE
      OBVIOUS
    <2>2. PICK g \in Handlers \ {h} : FeeAccount \in LockedAccounts(g)
      BY <1>1, <2>1 DEF Waits, Unlocked
    <2>3. From(g) # FeeAccount
      BY <1>2, RequestType
    <2>4. QED
      BY <1>3, <2>2, <2>3 DEF LockedAccounts
  <1>5. \A h \in Handlers : NotBeingInserted(h)
    BY <1>3, <1>4 DEF NotBeingInserted
  <1>6. \A h \in Handlers : pc[h] \notin {"debit", "insert"}
    BY <1>1, <1>5 DEF Waits
  <1>7. \A h \in Handlers : pc[h] # "select"
    BY <1>1, <1>3, <1>4, <1>5, <1>6 DEF Waits, Unlocked, LockedAccounts
  <1>8. {h \in Handlers : pc[h] \in InTransaction} = {h \in Handlers : pc[h] = "owner"}
    BY <1>3, <1>4, <1>6, <1>7 DEF InTransaction
  <1>9. ~ConnectionFree
    BY <1>1, <1>3, <1>4, <1>6, <1>7 DEF Waits
  <1>10. Cardinality({h \in Handlers : pc[h] = "owner"}) \in Nat /\ PoolSize \in Nat
    BY FS_Subset, FS_CardinalityType, ExternalTransferAssumption
  <1>11. QED
    BY <1>8, <1>9, <1>10 DEF IInv, PoolInv, ConnectionFree, PoolExhausted

\* Row locks, fee account and unique index never stop the transfers among
\* themselves, however many there are: if all wait, every connection is held by a
\* transaction that asks for a second one (verifyAccountOwnership,
\* transaction_service.go:1219).
THEOREM NoDeadlockButThePool == Spec => []OnlyThePoolStops
  BY Invariant, WaitingIsForThePool, PTL

-----------------------------------------------------------------------------
(* Refinement. *)

\* A commit is a withdrawal its account covers, and the fee arrives.
LEMMA CommitIsWithdrawal ==
    ASSUME IInv, NEW h \in Handlers, Commit(h)
    PROVE  AtomicTable!Next
  <1> DEFINE w == [amount |-> Amount(h), fee |-> Fee(h)]
             W == {[amount |-> Truncated(r.amount),
                    fee |-> CalculateFee(Truncated(r.amount))] : r \in Requests}
  <1>0. TypeOK /\ LockInv
    BY DEF IInv
  <1>1. /\ From(h) \in Accounts /\ FeeAccount \in Accounts /\ From(h) # FeeAccount
        /\ Amount(h) \in Nat /\ Fee(h) \in Nat /\ Total(h) = Amount(h) + Fee(h)
        /\ balance \in [Accounts -> Int]
    BY <1>0, RequestType, ExternalTransferAssumption DEF TypeOK, Total
  <1>2. w \in W
    BY <1>0, RequestType DEF Amount, Fee
  <1>3. balance[From(h)] >= Total(h)
    BY <1>0 DEF LockInv, Commit
  <1>4. balance' = [a \in Accounts |->
                       balance[a] - (IF a = From(h) THEN Total(h) ELSE 0)
                                  + (IF a \in {FeeAccount} THEN Fee(h) ELSE 0)]
    <2>1. balance' = [balance EXCEPT ![From(h)] = balance[From(h)] - Total(h),
                                     ![FeeAccount] = balance[FeeAccount] + Fee(h)]
      BY <1>1 DEF Commit
    <2>2. ASSUME NEW a \in Accounts
          PROVE  balance'[a] = balance[a] - (IF a = From(h) THEN Total(h) ELSE 0)
                                          + (IF a \in {FeeAccount} THEN Fee(h) ELSE 0)
      BY <1>1, <2>1
    <2>3. balance' = [a \in Accounts |-> balance'[a]]
      BY <1>1, <2>1
    <2>4. QED
      BY <2>2, <2>3
  <1>5. AtomicTable!Withdraw(From(h), {FeeAccount}, w)
    BY <1>1, <1>3, <1>4 DEF AtomicTable!Withdraw
  <1>6. {FeeAccount} \in {{}} \cup {{a} : a \in Accounts}
    BY <1>1
  <1> HIDE DEF w
  <1>7. QED
    BY <1>1, <1>2, <1>5, <1>6 DEF AtomicTable!Next

\* However many handlers, failures, retries and lost replies there are, the
\* accounts see whole transfers only, one at a time, each covered by its account.
THEOREM TransfersStayWhole == Spec => ImplementsAtomicAccounts
  <1>1. Init => AtomicTable!Init
    BY DEF Init, AtomicTable!Init, AtomicTable!Ledger!Init
  <1>2. ASSUME IInv, [Next]_vars PROVE [AtomicTable!Next]_balance
    <2>1. CASE \E h \in Handlers : Commit(h)
      BY <1>2, <2>1, CommitIsWithdrawal
    <2>2. CASE \A h \in Handlers : ~Commit(h)
      <3>1. \A a \in Accounts : balance'[a] = balance[a]
        BY <1>2, <2>2, BalanceChange
      <3>2. balance \in [Accounts -> Int] /\ balance' \in [Accounts -> Int]
        BY <1>2, StepTypeOK DEF IInv, TypeOK
      <3>3. QED
        BY <3>1, <3>2
    <2>3. QED
      BY <2>1, <2>2
  <1>3. QED
    BY <1>1, <1>2, Invariant, PTL DEF Spec, ImplementsAtomicAccounts, AtomicTable!Spec

-----------------------------------------------------------------------------
(* Sums. *)

\* What LedgerProofs shows of sums does not depend on the ledger: here it is one
\* without calls and accounts.
Sums == INSTANCE LedgerProofs
            WITH Txs <- {}, NoTx <- 0, Accounts <- {}, NoAccount <- 0, Idents <- {},
                 Resolve <- [i \in {} |-> 0], Rank <- [i \in {} |-> 0],
                 InitBalance <- [a \in {} |-> 0], Amounts <- {}, locked <- 0, row <- 0,
                 durable <- 0, owner <- 0, journal <- 0, states <- 0

LEMMA NoLedger == Sums!LedgerAssumption
  BY DEF Sums!LedgerAssumption

\* The sums and finite sets LedgerProofs has lemmas about are those used here.
LEMMA SameFinite == ASSUME NEW S PROVE Sums!IsFiniteSet(S) <=> IsFiniteSet(S)
  BY DEF IsFiniteSet, Sums!IsFiniteSet

LEMMA SameSum == ASSUME NEW f PROVE Sums!SumFunction(f) = SumFunction(f)
  BY DEF SumFunction, SumFunctionOnSet, FoldFunctionOnSet, MapThenFoldSet,
         Sums!SumFunction, Sums!SumFunctionOnSet, Sums!FoldFunctionOnSet,
         Sums!MapThenFoldSet

LEMMA AskedFinite == Sums!IsFiniteSet(Asked)
  <1> DEFINE f == [h \in Handlers |-> Ref(h)]
  <1>1. f \in Surjection(Handlers, Asked)
    BY DEF Surjection, Asked
  <1>2. QED
    BY <1>1, FS_Surjection, SameFinite, ExternalTransferAssumption

LEMMA Distributes ==
    ASSUME NEW p \in Nat, NEW a \in Int, NEW b \in Int
    PROVE  p * a \in Int /\ p * (a - b) = p * a - p * b
  OBVIOUS

LEMMA DivideAndRest ==
    ASSUME NEW a \in Nat, NEW p \in Nat \ {0}
    PROVE  /\ (a % p) \in Int /\ p * (a \div p) \in Int
           /\ a = p * (a \div p) + (a % p)
  OBVIOUS

\* The message of a transfer carries the amount its handler was asked for.
LEMMA MessageOfRequest ==
    ASSUME TypeOK, NEW h \in Handlers
    PROVE  MessageAmount(Ref(h)) = req[h].amount /\ req[h].amount \in Nat
  <1>1. req[h] \in Requests
    BY RequestType
  <1>2. \A r \in Requests : r.ref = Ref(h) => r = req[h]
    BY <1>1, ExternalTransferAssumption DEF Ref
  <1>3. req[h].amount \in Nat
    BY <1>1, ExternalTransferAssumption
  <1>4. QED
    BY <1>1, <1>2, <1>3 DEF MessageAmount, Ref

\* The addends of SumOfDebited.
DebitedOf(part) == [ref \in Asked |-> IF ref \in Debited THEN part[ref] ELSE 0]

LEMMA DebitedSum ==
    ASSUME NEW part \in [Asked -> Int]
    PROVE  /\ SumOfDebited(part) = SumFunction(DebitedOf(part))
           /\ DebitedOf(part) \in [Asked -> Int] /\ SumOfDebited(part) \in Int
  <1>1. SumOfDebited(part) = SumFunction(DebitedOf(part))
    BY DEF SumOfDebited, DebitedOf
  <1>2. DebitedOf(part) \in [Asked -> Int]
    BY DEF DebitedOf
  <1>3. SumFunction(DebitedOf(part)) \in Int
    BY <1>2, AskedFinite, SameSum, Sums!SumIsInt, NoLedger
  <1>4. QED
    BY <1>1, <1>2, <1>3

\* What the handlers of the model are asked for.
Amounts == [ref \in Asked |-> MessageAmount(ref)]
Fractions == [ref \in Asked |-> MessageAmount(ref) % Parts]

LEMMA PartTypes ==
    ASSUME TypeOK
    PROVE  Amounts \in [Asked -> Int] /\ Fractions \in [Asked -> Int]
  <1>1. ASSUME NEW ref \in Asked
        PROVE  MessageAmount(ref) \in Int /\ MessageAmount(ref) % Parts \in Int
    <2>1. PICK h \in Handlers : ref = Ref(h)
      BY DEF Asked
    <2>2. MessageAmount(ref) \in Nat
      BY <2>1, MessageOfRequest
    <2>3. QED
      BY <2>2, DivideAndRest, ExternalTransferAssumption
  <1>2. QED
    BY <1>1 DEF Amounts, Fractions

\* A commit adds the part of its transfer.
LEMMA DebitedSumStep ==
    ASSUME IInv, [Next]_vars, NEW h \in Handlers, Commit(h), NEW part \in [Asked -> Int]
    PROVE  SumOfDebited(part)' = SumOfDebited(part) + part[Ref(h)]
  <1>1. Asked' = Asked
    BY ReqConstant DEF Asked, Ref
  <1>2. Ref(h) \in Asked /\ Ref(h) \in Refs /\ status \in [Refs -> Statuses \cup {NoStatus}]
    BY RequestType DEF Asked, IInv, TypeOK
  <1>3. status[Ref(h)] = NoStatus /\ status' = [status EXCEPT ![Ref(h)] = "PENDING"]
    BY DEF IInv, OwnerInv, Commit
  <1>4. Ref(h) \notin Debited /\ Ref(h) \in Debited'
    BY <1>2, <1>3 DEF Debited, NoStatus
  <1>5. \A ref \in Asked \ {Ref(h)} : ref \in Debited' <=> ref \in Debited
    BY <1>2, <1>3 DEF Debited
  <1> DEFINE f == DebitedOf(part)
             g == [ref \in Asked |-> IF ref \in Debited' THEN part[ref] ELSE 0]
  <1>6. /\ f \in [Asked -> Int] /\ g \in [Asked -> Int]
        /\ f[Ref(h)] = 0 /\ g[Ref(h)] = part[Ref(h)]
        /\ \A ref \in Asked \ {Ref(h)} : g[ref] = f[ref]
    BY <1>2, <1>4, <1>5 DEF DebitedOf
  <1>7. SumOfDebited(part)' = SumFunction(g)
    BY <1>1 DEF SumOfDebited
  <1> HIDE DEF f, g
  <1>8. SumFunction(f) \in Int /\ SumFunction(g) = SumFunction(f) - f[Ref(h)] + g[Ref(h)]
    BY <1>2, <1>6, AskedFinite, SameSum, Sums!SumChange, NoLedger
  <1>9. SumFunction(f) = SumOfDebited(part)
    BY DebitedSum DEF f
  <1>10. part[Ref(h)] \in Int
    BY <1>2
  <1>11. QED
    BY <1>6, <1>7, <1>8, <1>9, <1>10

LEMMA InitSum == SumFunction(InitBalance) \in Int
  <1>1. InitBalance \in [Accounts -> Int]
    BY ExternalTransferAssumption
  <1>2. Sums!IsFiniteSet(Accounts)
    BY SameFinite, ExternalTransferAssumption
  <1>3. QED
    BY <1>1, <1>2, SameSum, Sums!SumIsInt, NoLedger

\* Balances and messages change together, by the commit of a transfer.
LEMMA MoneyAtCommit ==
    ASSUME IInv, MoneyAccountedFor, [Next]_vars, NEW h \in Handlers, Commit(h)
    PROVE  MoneyAccountedFor'
  <1> DEFINE m == req[h].amount
             a == From(h)
             b == FeeAccount
  <1>0. TypeOK
    BY DEF IInv
  <1>1. /\ a \in Accounts /\ b \in Accounts /\ a # b
        /\ Amount(h) \in Nat /\ Fee(h) \in Nat /\ Total(h) = Amount(h) + Fee(h)
        /\ balance \in [Accounts -> Int]
    BY <1>0, RequestType, ExternalTransferAssumption DEF TypeOK, Total
  <1>2. /\ m \in Nat /\ Ref(h) \in Asked
        /\ Amounts[Ref(h)] = m /\ Fractions[Ref(h)] = m % Parts
    BY <1>0, MessageOfRequest DEF Asked, Amounts, Fractions
  <1>3. SumFunction(balance) \in Int /\ SumFunction(balance') = SumFunction(balance) - Amount(h)
    <2>1. /\ balance' \in [Accounts -> Int]
          /\ balance'[a] = balance[a] - Total(h) /\ balance'[b] = balance[b] + Fee(h)
          /\ \A c \in Accounts \ {a, b} : balance'[c] = balance[c]
      BY <1>1 DEF Commit
    <2>2. Sums!IsFiniteSet(Accounts)
      BY SameFinite, ExternalTransferAssumption
    <2>3. /\ SumFunction(balance) \in Int
          /\ SumFunction(balance') = SumFunction(balance) - balance[a] - balance[b]
                                         + balance'[a] + balance'[b]
      BY <1>1, <2>1, <2>2, SameSum, Sums!SumOfTwoChanges, NoLedger
    <2>4. QED
      BY <1>1, <2>1, <2>3
  <1>4. Amounts' = Amounts /\ Fractions' = Fractions
    BY ReqConstant DEF Amounts, Fractions, Asked, Ref
  <1>5. SumOfDebited(Amounts) \in Int /\ SumOfDebited(Amounts)' = SumOfDebited(Amounts) + m
    BY <1>0, <1>2, <1>4, PartTypes, DebitedSum, DebitedSumStep
  <1>6. /\ SumOfDebited(Fractions) \in Int
        /\ SumOfDebited(Fractions)' = SumOfDebited(Fractions) + (m % Parts)
    BY <1>0, <1>2, <1>4, PartTypes, DebitedSum, DebitedSumStep
  <1>7. Parts * SumFunction(balance)' = Parts * SumFunction(balance) - Parts * Amount(h)
    BY <1>1, <1>3, Distributes, ExternalTransferAssumption
  <1>8. m = Parts * Amount(h) + (m % Parts)
    BY <1>2, DivideAndRest, ExternalTransferAssumption DEF Amount, Truncated
  <1>9. /\ Parts * SumFunction(balance) \in Int /\ Parts * Amount(h) \in Int
        /\ (m % Parts) \in Int
    BY <1>1, <1>2, <1>3, Distributes, DivideAndRest, ExternalTransferAssumption
  <1>10. Parts * SumFunction(InitBalance) \in Int
    BY InitSum, Distributes, ExternalTransferAssumption
  <1>11. Parts * SumFunction(balance) + SumOfDebited(Amounts)
            = Parts * SumFunction(InitBalance) + SumOfDebited(Fractions)
    BY DEF MoneyAccountedFor, Amounts, Fractions
  <1> HIDE DEF m
  <1>12. Parts * SumFunction(balance)' + SumOfDebited(Amounts)'
            = Parts * SumFunction(InitBalance) + SumOfDebited(Fractions)'
    BY <1>5, <1>6, <1>7, <1>8, <1>9, <1>10, <1>11
  <1>13. QED
    BY <1>12 DEF MoneyAccountedFor, Amounts, Fractions

\* No other step debits a transfer, or takes a debit back.
LEMMA OnlyCommitsDebit ==
    ASSUME IInv, [Next]_vars, \A h \in Handlers : ~Commit(h)
    PROVE  balance' = balance /\ Debited' = Debited
  <1>0. TypeOK /\ TypeOK'
    BY StepTypeOK DEF IInv
  <1>1. balance' = balance
    <2>1. \A a \in Accounts : balance'[a] = balance[a]
      BY BalanceChange
    <2>2. QED
      BY <1>0, <2>1 DEF TypeOK
  <1>2. ASSUME NEW ref \in Refs, status'[ref] # status[ref]
        PROVE  ref \in Debited' <=> ref \in Debited
    <2>1. PICK h \in Handlers :
              /\ Ref(h) = ref
              /\ \/ status[ref] = NoStatus /\ status'[ref] \in Rejections
                 \/ status'[ref] = "FAILED_SETTLEMENT_ERROR" /\ MarkFailed(h)
      BY <1>2, StatusChange
    <2>2. CASE status[ref] = NoStatus /\ status'[ref] \in Rejections
      BY <2>2 DEF Debited, NoStatus, Rejections
    <2>3. CASE status'[ref] = "FAILED_SETTLEMENT_ERROR" /\ MarkFailed(h)
      <3>1. status[ref] = "PENDING"
        BY <2>1, <2>3 DEF MarkFailed, IInv, OwnerInv, Owning
      <3>2. QED
        BY <2>3, <3>1 DEF Debited
    <2>4. QED
      BY <2>1, <2>2, <2>3
  <1>3. QED
    BY <1>1, <1>2 DEF Debited

LEMMA MoneyAtStart == ASSUME Init PROVE MoneyAccountedFor
  <1>0. TypeOK /\ balance = InitBalance
    BY InitIInv DEF IInv, Init
  <1>1. ASSUME NEW part \in [Asked -> Int] PROVE SumOfDebited(part) = 0
    <2>1. DOMAIN DebitedOf(part) = Asked /\ \A ref \in Asked : DebitedOf(part)[ref] = 0
      BY DEF Init, DebitedOf, Debited, NoStatus
    <2>2. SumFunction(DebitedOf(part)) = 0
      BY <2>1, AskedFinite, SameSum, Sums!SumOfZeros, NoLedger
    <2>3. QED
      BY <2>2, DebitedSum
  <1>2. SumOfDebited(Amounts) = 0 /\ SumOfDebited(Fractions) = 0
    BY <1>0, <1>1, PartTypes
  <1>3. QED
    BY <1>0, <1>2 DEF MoneyAccountedFor, Amounts, Fractions

LEMMA MoneyStep == ASSUME IInv, MoneyAccountedFor, [Next]_vars PROVE MoneyAccountedFor'
  <1>1. ASSUME NEW h \in Handlers, Commit(h) PROVE MoneyAccountedFor'
    BY <1>1, MoneyAtCommit
  <1>2. CASE \A h \in Handlers : ~Commit(h)
    <2>1. balance' = balance /\ Debited' = Debited /\ Asked' = Asked
      BY <1>2, OnlyCommitsDebit, ReqConstant DEF Asked, Ref
    <2>2. QED
      BY <2>1 DEF MoneyAccountedFor, SumOfDebited
  <1>3. QED
    BY <1>1, <1>2

\* No failure, retry, duplicate or lost handler loses a customer's money or makes
\* any: what the accounts no longer hold is what the messages of the debited
\* transfers promise, less exactly the fractions the debits cut off
\* (transaction_service.go:1441).
THEOREM MoneyAlwaysAccountedFor == Spec => []MoneyAccountedFor
  <1>1. Init => MoneyAccountedFor
    BY MoneyAtStart
  <1>2. IInv /\ MoneyAccountedFor /\ [Next]_vars => MoneyAccountedFor'
    BY MoneyStep
  <1>3. QED
    BY <1>1, <1>2, Invariant, PTL DEF Spec
=============================================================================
