---------------------------- MODULE LedgerProofs ----------------------------
(***************************************************************************)
(* Theorems about Ledger, for any set of calls, accounts, identifiers and  *)
(* amounts: its rows, that it implements AtomicLedger, its books, and that *)
(* calls never wait for each other in a circle where rows have one name    *)
(* each.                                                                   *)
(***************************************************************************)
EXTENDS LedgerInvariant, TLAPS, FiniteSetTheorems, WellFoundedInduction

LEMMA RunningDef ==
    Running = {"appendPending", "lockFirst", "lockSecond", "debitEntry",
               "creditEntry", "updateFrom", "updateTo", "appendSuccess",
               "commit"}
  <1>1. DOMAIN Statements = 1..9
    BY DEF Statements
  <1>2. Running = {Statements[i] : i \in 1..9}
    BY <1>1 DEF Running
  <1>3. QED
    BY <1>2 DEF Statements

LEMMA InitTypeOK == ASSUME Init PROVE TypeOK
  <1> USE LedgerAssumption DEF Init
  <1>1. pc \in [Txs -> PCs]
    BY DEF PCs
  <1>2. row \in [Accounts -> RowVersion] /\ durable \in [Accounts -> RowVersion]
    BY DEF RowVersion
  <1>3. locked \in [Txs -> [first : LockedRow, second : LockedRow]]
    BY DEF LockedRow, Unread
  <1>4. journal \in Seq(Entry) /\ states \in [Txs -> Seq({"PENDING", "SUCCESS", "FAILED"})]
    OBVIOUS
  <1>5. QED
    BY <1>1, <1>2, <1>3, <1>4 DEF TypeOK

\* The type of the values a call computes from what it has locked.
LEMMA LocalTypes ==
    ASSUME TypeOK, NEW t \in Txs
    PROVE  /\ FirstLock(t) \in Idents /\ SecondLock(t) \in Idents
           /\ FromAccount(t) \in LockedRow /\ ToAccount(t) \in LockedRow
           /\ req[t].amount \in Nat \ {0}
  BY LedgerAssumption DEF TypeOK, Requests, LockOrder, FirstLock, SecondLock, FromAccount,
     ToAccount

LEMMA LockedNumbers ==
    ASSUME TypeOK, NEW t \in Txs
    PROVE  /\ FromAccount(t).balance \in Int /\ FromAccount(t).version \in Nat
           /\ ToAccount(t).balance \in Int /\ ToAccount(t).version \in Nat
           /\ req[t].amount \in Int
  <1>1. FromAccount(t) \in LockedRow /\ ToAccount(t) \in LockedRow
        /\ req[t].amount \in Nat \ {0}
    BY LocalTypes
  <1>2. \A r \in LockedRow : r.balance \in Int /\ r.version \in Nat
    BY DEF LockedRow
  <1>3. QED
    BY <1>1, <1>2

LEMMA StepTypeOK == ASSUME IInv, [Next]_vars PROVE TypeOK'
  <1> USE DEF TypeOK, IInv
  <1>1. CASE UNCHANGED vars
    BY <1>1 DEF vars
  <1>2. ASSUME NEW t \in Txs,
               Begin(t) \/ Step(t) \/ StatementFails(t) \/ DeadlockVictim(t)
        PROVE  TypeOK'
    <2>1. CASE Begin(t)
      BY <2>1, RunningDef DEF Begin, Goto, PCs
    <2>2. CASE AppendPending(t)
      BY <2>2, RunningDef DEF AppendPending, AppendPaymentState, Goto, PCs
    <2>3. CASE LockFirst(t)
      <3>1. Read(Resolve[FirstLock(t)]) \in LockedRow
        BY <2>3, LocalTypes, LedgerAssumption
        DEF LockFirst, LockAccount, Read, LockedRow, RowVersion
      <3>2. locked' \in [Txs -> [first : LockedRow, second : LockedRow]]
        BY <2>3, <3>1 DEF LockFirst
      <3>3. QED
        BY <2>3, <3>2, RunningDef DEF LockFirst, LockAccount, Goto, PCs
    <2>4. CASE LockSecond(t)
      <3>1. Read(Resolve[SecondLock(t)]) \in LockedRow
        BY <2>4, LocalTypes, LedgerAssumption
        DEF LockSecond, LockAccount, Read, LockedRow, RowVersion
      <3>2. locked' \in [Txs -> [first : LockedRow, second : LockedRow]]
        BY <2>4, <3>1 DEF LockSecond
      <3>3. QED
        BY <2>4, <3>2, RunningDef DEF LockSecond, LockAccount, Goto, PCs
    <2>5. CASE AccountNotFound(t)
      BY <2>5, RunningDef DEF AccountNotFound, PCs
    <2>6. CASE InsufficientBalance(t)
      BY <2>6, RunningDef DEF InsufficientBalance, Goto, PCs
    <2>7. CASE DebitEntry(t)
      <3> DEFINE e == [tx |-> t, account |-> FromAccount(t).id,
                       amount |-> -req[t].amount, type |-> "DEBIT",
                       balance |-> FromAccount(t).balance - req[t].amount]
      <3>1. journal' = Append(journal, e)
        BY <2>7 DEF DebitEntry, CreateLedgerEntry
      <3>2. pc[t] \in BothHeld
        BY <2>7 DEF DebitEntry, Goto, BothHeld, FirstHeld
      <3>3. FromAccount(t).id \in Accounts /\ FromAccount(t).balance \in Int
        BY <3>2, LocalTypes
        DEF CallInv, SnapshotInv, IsLocked, FromAccount, LockedRow, BothHeld
      <3>4. e \in Entry
        BY <3>3, LocalTypes DEF Entry
      <3>5. journal' \in Seq(Entry)
        BY <3>1, <3>4
      <3>6. QED
        BY <2>7, <3>5, RunningDef DEF DebitEntry, CreateLedgerEntry, Goto, PCs
    <2>8. CASE CreditEntry(t)
      <3> DEFINE e == [tx |-> t, account |-> ToAccount(t).id,
                       amount |-> req[t].amount, type |-> "CREDIT",
                       balance |-> ToAccount(t).balance + req[t].amount]
      <3>1. journal' = Append(journal, e)
        BY <2>8 DEF CreditEntry, CreateLedgerEntry
      <3>2. pc[t] \in BothHeld
        BY <2>8 DEF CreditEntry, Goto, BothHeld, FirstHeld
      <3>3. ToAccount(t).id \in Accounts /\ ToAccount(t).balance \in Int
        BY <3>2, LocalTypes
        DEF CallInv, SnapshotInv, IsLocked, ToAccount, LockedRow, BothHeld
      <3>4. e \in Entry
        BY <3>3, LocalTypes DEF Entry
      <3>5. journal' \in Seq(Entry)
        BY <3>1, <3>4
      <3>6. QED
        BY <2>8, <3>5, RunningDef DEF CreditEntry, CreateLedgerEntry, Goto, PCs
    <2>9. CASE UpdateFrom(t)
      <3>1. [balance |-> FromAccount(t).balance - req[t].amount,
             version |-> FromAccount(t).version + 1] \in RowVersion
        <4>1. /\ FromAccount(t).balance \in Int /\ FromAccount(t).version \in Nat
              /\ req[t].amount \in Int
          BY LockedNumbers
        <4>2. /\ FromAccount(t).balance - req[t].amount \in Int
              /\ FromAccount(t).version + 1 \in Nat
          BY <4>1
        <4>3. QED
          BY <4>2 DEF RowVersion
      <3>2. row' \in [Accounts -> RowVersion]
        <4> DEFINE new == [balance |-> FromAccount(t).balance - req[t].amount,
                           version |-> FromAccount(t).version + 1]
        <4>1. row' = [row EXCEPT ![FromAccount(t).id] = new] \/ row' = row
          BY <2>9 DEF UpdateFrom, UpdateAccountBalance, NewVersion
        <4>2. new \in RowVersion /\ row \in [Accounts -> RowVersion]
          BY <3>1
        <4> HIDE DEF new
        <4>3. QED
          BY <4>1, <4>2
      <3>3. pc' \in [Txs -> PCs] /\ owner' \in [Accounts -> Txs \cup {NoTx}]
        <4>1. {"updateTo", "appendFailed"} \subseteq PCs
          BY RunningDef DEF PCs
        <4>2. /\ \/ pc' = [pc EXCEPT ![t] = "updateTo"]
                 \/ pc' = [pc EXCEPT ![t] = "appendFailed"]
              /\ owner' = [owner EXCEPT ![FromAccount(t).id] = t] \/ owner' = owner
          BY <2>9 DEF UpdateFrom, UpdateAccountBalance
        <4>3. QED
          BY <4>1, <4>2
      <3>4. QED
        BY <2>9, <3>2, <3>3 DEF UpdateFrom, UpdateAccountBalance, NewVersion
    <2>10. CASE UpdateTo(t)
      <3>1. [balance |-> ToAccount(t).balance + req[t].amount,
             version |-> ToAccount(t).version + 1] \in RowVersion
        <4>1. /\ ToAccount(t).balance \in Int /\ ToAccount(t).version \in Nat
              /\ req[t].amount \in Int
          BY LockedNumbers
        <4>2. /\ ToAccount(t).balance + req[t].amount \in Int
              /\ ToAccount(t).version + 1 \in Nat
          BY <4>1
        <4>3. QED
          BY <4>2 DEF RowVersion
      <3>2. row' \in [Accounts -> RowVersion]
        <4> DEFINE new == [balance |-> ToAccount(t).balance + req[t].amount,
                           version |-> ToAccount(t).version + 1]
        <4>1. row' = [row EXCEPT ![ToAccount(t).id] = new] \/ row' = row
          BY <2>10 DEF UpdateTo, UpdateAccountBalance, NewVersion
        <4>2. new \in RowVersion /\ row \in [Accounts -> RowVersion]
          BY <3>1
        <4> HIDE DEF new
        <4>3. QED
          BY <4>1, <4>2
      <3>3. pc' \in [Txs -> PCs] /\ owner' \in [Accounts -> Txs \cup {NoTx}]
        <4>1. {"appendSuccess", "appendFailed"} \subseteq PCs
          BY RunningDef DEF PCs
        <4>2. /\ \/ pc' = [pc EXCEPT ![t] = "appendSuccess"]
                 \/ pc' = [pc EXCEPT ![t] = "appendFailed"]
              /\ owner' = [owner EXCEPT ![ToAccount(t).id] = t] \/ owner' = owner
          BY <2>10 DEF UpdateTo, UpdateAccountBalance
        <4>3. QED
          BY <4>1, <4>2
      <3>4. QED
        BY <2>10, <3>2, <3>3 DEF UpdateTo, UpdateAccountBalance, NewVersion
    <2>11. CASE AppendSuccess(t)
      BY <2>11, RunningDef DEF AppendSuccess, AppendPaymentState, Goto, PCs
    <2>12. CASE AppendFailed(t)
      BY <2>12, RunningDef DEF AppendFailed, AppendPaymentState, Goto, PCs
    <2>13. CASE Commit(t)
      BY <2>13, RunningDef DEF Commit, Goto, PCs
    <2>14. CASE Rollback(t)
      BY <2>14, RunningDef DEF Rollback, Goto, PCs
    <2>15. CASE StatementFails(t)
      BY <2>15, RunningDef DEF StatementFails, PCs
    <2>16. CASE DeadlockVictim(t)
      BY <2>16, RunningDef DEF DeadlockVictim, PCs
    <2>17. QED
      BY <1>2, <2>1, <2>2, <2>3, <2>4, <2>5, <2>6, <2>7, <2>8, <2>9, <2>10,
         <2>11, <2>12, <2>13, <2>14, <2>15, <2>16 DEF Step
  <1>3. QED
    BY <1>1, <1>2 DEF Next

-----------------------------------------------------------------------------
(* The inductive invariant. *)

LEMMA InitIInv == ASSUME Init PROVE IInv
  <1>1. TypeOK
    BY InitTypeOK
  <1>2. NoOverdraft
    BY LedgerAssumption DEF Init, NoOverdraft
  <1>3. LockInv
    BY LedgerAssumption DEF Init, LockInv
  <1>4. ASSUME NEW t \in Txs PROVE CallInv(t)
    BY LedgerAssumption
    DEF Init, CallInv, SnapshotInv, OwnInv, WriteInv, FirstHeld, BothHeld,
        NoneWritten, BothWritten, Checked
  <1>5. QED
    BY <1>1, <1>2, <1>3, <1>4 DEF IInv

\* Whatever call t does, it leaves every other call, the rows they hold and
\* their locks alone.
Frame(t) ==
    /\ req' = req
    /\ \A u \in Txs \ {t} : pc'[u] = pc[u] /\ locked'[u] = locked[u]
    /\ \A a \in Accounts :
        /\ owner'[a] \in {owner[a], t, NoTx}
        /\ owner[a] \notin {NoTx, t} =>
            /\ owner'[a] = owner[a]
            /\ row'[a] = row[a]
            /\ durable'[a] = durable[a]

LEMMA StepFrame ==
    ASSUME IInv, NEW t \in Txs,
           Begin(t) \/ Step(t) \/ StatementFails(t) \/ DeadlockVictim(t)
    PROVE  Frame(t)
  <1> USE DEF IInv, TypeOK, Frame
  <1>1. CASE Begin(t)
    BY <1>1 DEF Begin, Goto
  <1>2. CASE AppendPending(t) \/ AppendSuccess(t) \/ AppendFailed(t)
    BY <1>2 DEF AppendPending, AppendSuccess, AppendFailed, AppendPaymentState, Goto
  <1>3. CASE LockFirst(t)
    BY <1>3 DEF LockFirst, LockAccount, Goto
  <1>4. CASE LockSecond(t)
    BY <1>4 DEF LockSecond, LockAccount, Goto
  <1>5. CASE AccountNotFound(t) \/ InsufficientBalance(t)
    BY <1>5 DEF AccountNotFound, InsufficientBalance, Goto
  <1>6. CASE DebitEntry(t) \/ CreditEntry(t)
    BY <1>6 DEF DebitEntry, CreditEntry, CreateLedgerEntry, Goto
  <1>7. CASE UpdateFrom(t)
    BY <1>7 DEF UpdateFrom, UpdateAccountBalance, NewVersion
  <1>8. CASE UpdateTo(t)
    BY <1>8 DEF UpdateTo, UpdateAccountBalance, NewVersion
  <1>9. CASE Commit(t)
    BY <1>9 DEF Commit, Goto
  <1>10. CASE Rollback(t)
    BY <1>10 DEF Rollback, Goto
  <1>11. CASE StatementFails(t) \/ DeadlockVictim(t)
    BY <1>11 DEF StatementFails, DeadlockVictim
  <1>12. QED
    BY <1>1, <1>2, <1>3, <1>4, <1>5, <1>6, <1>7, <1>8, <1>9, <1>10, <1>11
    DEF Step

\* A call keeps what it knows of the rows it holds while nobody touches them.
Untouched(u) ==
    /\ pc'[u] = pc[u] /\ locked'[u] = locked[u] /\ req'[u] = req[u]
    /\ \A a \in Accounts :
          /\ owner'[a] = u <=> owner[a] = u
          /\ owner[a] = u => row'[a] = row[a] /\ durable'[a] = durable[a]

LEMMA CallKept ==
    ASSUME IInv, NEW u \in Txs, Untouched(u)
    PROVE  CallInv(u)'
  <1>1. pc'[u] = pc[u] /\ locked'[u] = locked[u] /\ req'[u] = req[u]
    BY DEF Untouched
  <1>2. /\ FirstLock(u)' = FirstLock(u) /\ SecondLock(u)' = SecondLock(u)
        /\ FromAccount(u)' = FromAccount(u) /\ ToAccount(u)' = ToAccount(u)
    BY <1>1 DEF LockOrder, FirstLock, SecondLock, FromAccount, ToAccount
  <1>3. \A a \in Accounts : owner[a] = u =>
            owner'[a] = u /\ row'[a] = row[a] /\ durable'[a] = durable[a]
    BY DEF Untouched
  <1>4. \A a \in Accounts : owner'[a] = u => owner[a] = u
    BY DEF Untouched
  <1>5. CallInv(u)
    BY DEF IInv
  <1>6. SnapshotInv(u)'
    BY <1>1, <1>2, <1>3, <1>5 DEF CallInv, SnapshotInv, IsLocked
  <1>7. OwnInv(u)'
    BY <1>1, <1>2, <1>4, <1>5 DEF CallInv, OwnInv
  <1>8. WriteInv(u)'
    <2>1. pc[u] \in BothHeld => /\ FromAccount(u).id \in Accounts
                                /\ ToAccount(u).id \in Accounts
                                /\ owner[FromAccount(u).id] = u
                                /\ owner[ToAccount(u).id] = u
      BY <1>5 DEF CallInv, SnapshotInv, IsLocked, FromAccount, ToAccount,
                  FirstHeld, BothHeld
    <2>2. /\ pc[u] = "updateTo" => row'[FromAccount(u).id] = row[FromAccount(u).id]
          /\ pc[u] \in BothWritten =>
                /\ row'[FromAccount(u).id] = row[FromAccount(u).id]
                /\ row'[ToAccount(u).id] = row[ToAccount(u).id]
      BY <2>1, <1>3 DEF BothHeld, FirstHeld, BothWritten
    <2>3. Debited(u)' = Debited(u) /\ Credited(u)' = Credited(u)
      BY <1>1, <1>2 DEF Debited, Credited
    <2>4. QED
      BY <1>1, <1>2, <1>3, <1>4, <1>5, <2>2, <2>3 DEF CallInv, WriteInv
  <1>9. QED
    BY <1>6, <1>7, <1>8 DEF CallInv

\* So every other call keeps it.
LEMMA OtherCalls ==
    ASSUME IInv, NEW t \in Txs, Frame(t), NEW u \in Txs, u # t
    PROVE  CallInv(u)'
  <1>1. Untouched(u)
    BY LedgerAssumption DEF Frame, Untouched
  <1>2. QED
    BY <1>1, CallKept

\* The locals of call t do not change while its arguments and the rows it read
\* do not.
LEMMA LocalFrame ==
    ASSUME NEW t \in Txs, req' = req, locked' = locked
    PROVE  /\ FirstLock(t)' = FirstLock(t) /\ SecondLock(t)' = SecondLock(t)
           /\ FromAccount(t)' = FromAccount(t) /\ ToAccount(t)' = ToAccount(t)
           /\ Debited(t)' = Debited(t) /\ Credited(t)' = Credited(t)
  BY DEF LockOrder, FirstLock, SecondLock, FromAccount, ToAccount, Debited, Credited

\* The two rows a call holds once it has locked both, by their role.
LEMMA BothLocked ==
    ASSUME IInv, NEW t \in Txs, pc[t] \in BothHeld
    PROVE  /\ IsLocked(t, FromAccount(t), req[t].from)
           /\ IsLocked(t, ToAccount(t), req[t].to)
           /\ \A a \in Accounts : owner[a] = t =>
                    a \in {FromAccount(t).id, ToAccount(t).id}
  BY DEF IInv, CallInv, SnapshotInv, OwnInv, FromAccount, ToAccount, LockOrder, FirstLock,
     SecondLock, BothHeld

\* A statement that writes no row, takes no lock and reads none.
LEMMA QuietStep ==
    ASSUME IInv, TypeOK', NEW t \in Txs,
           UNCHANGED <<req, locked, row, durable, owner>>,
           pc'[t] \in PCs, \A u \in Txs \ {t} : pc'[u] = pc[u],
           \/ pc'[t] \in {"appendFailed", "rollback"}
           \/ pc[t] = "idle" /\ pc'[t] = "appendPending"
           \/ pc[t] = "appendPending" /\ pc'[t] = "lockFirst"
           \/ /\ pc[t] = "debitEntry" /\ pc'[t] = "creditEntry"
              /\ FromAccount(t).balance >= req[t].amount
           \/ pc[t] = "creditEntry" /\ pc'[t] = "updateFrom"
           \/ pc[t] = "appendSuccess" /\ pc'[t] = "commit"
    PROVE  CallInv(t)' /\ LockInv' /\ NoOverdraft'
  <1> USE DEF FirstHeld, BothHeld, NoneWritten, BothWritten, Checked
  <1>1. CallInv(t)
    BY DEF IInv
  <1>2. SnapshotInv(t)'
    BY <1>1, LocalFrame DEF CallInv, SnapshotInv, IsLocked
  <1>3. OwnInv(t)'
    BY <1>1, LocalFrame DEF CallInv, OwnInv
  <1>4. WriteInv(t)'
    BY <1>1, LocalFrame DEF CallInv, WriteInv
  <1>5. LockInv'
    <2> SUFFICES ASSUME NEW a \in Accounts
                 PROVE  /\ owner[a] # NoTx =>
                            pc'[owner[a]] \in FirstHeld \cup {"appendFailed", "rollback"}
                        /\ owner[a] = NoTx => row[a] = durable[a]
      BY DEF LockInv
    <2>1. CASE owner[a] = t
      BY <2>1, LedgerAssumption DEF IInv, LockInv
    <2>2. CASE owner[a] # t
      BY <2>2, LedgerAssumption DEF IInv, LockInv, TypeOK
    <2>3. QED
      BY <2>1, <2>2
  <1>6. NoOverdraft'
    BY DEF IInv, NoOverdraft
  <1>7. QED
    BY <1>2, <1>3, <1>4, <1>5, <1>6 DEF CallInv

LEMMA LockFirstStep ==
    ASSUME IInv, TypeOK', NEW t \in Txs, LockFirst(t), Frame(t)
    PROVE  CallInv(t)' /\ LockInv' /\ NoOverdraft'
  <1> USE DEF FirstHeld, BothHeld, NoneWritten, BothWritten, Checked
  <1> DEFINE a == Resolve[FirstLock(t)]
  <1>1. /\ a \in Accounts /\ owner[a] \in {NoTx, t} /\ pc[t] = "lockFirst"
        /\ owner' = [owner EXCEPT ![a] = t]
        /\ locked'[t].first = Read(a)
        /\ pc' = [pc EXCEPT ![t] = "lockSecond"]
        /\ UNCHANGED <<req, row, durable>>
    BY LocalTypes, LedgerAssumption
    DEF LockFirst, LockAccount, Goto, IInv, TypeOK
  <1>2. pc'[t] = "lockSecond"
    BY <1>1 DEF IInv, TypeOK
  <1>3. \A b \in Accounts : owner[b] # t
    BY <1>1, LedgerAssumption DEF IInv, LockInv
  <1>4. row[a] = durable[a]
    BY <1>1, <1>3 DEF IInv, LockInv
  <1>5. FirstLock(t)' = FirstLock(t)
    BY <1>1 DEF LockOrder, FirstLock
  <1>6. SnapshotInv(t)'
    <2>1. owner'[a] = t
      BY <1>1 DEF IInv, TypeOK
    <2>2. IsLocked(t, locked[t].first, FirstLock(t))'
      BY <1>1, <1>4, <1>5, <2>1 DEF IsLocked, Read
    <2>3. QED
      BY <1>2, <2>2 DEF SnapshotInv
  <1>7. OwnInv(t)' /\ WriteInv(t)'
    <2>1. \A b \in Accounts : owner'[b] = t => b = a
      BY <1>1, <1>3 DEF IInv, TypeOK
    <2>2. QED
      BY <1>1, <1>2, <1>4, <2>1 DEF OwnInv, WriteInv, Read
  <1>8. LockInv'
    BY <1>1, <1>2, LedgerAssumption DEF IInv, LockInv, TypeOK
  <1>9. QED
    BY <1>1, <1>6, <1>7, <1>8 DEF CallInv, IInv, NoOverdraft

LEMMA LockSecondStep ==
    ASSUME IInv, TypeOK', NEW t \in Txs, LockSecond(t), Frame(t)
    PROVE  CallInv(t)' /\ LockInv' /\ NoOverdraft'
  <1> USE DEF FirstHeld, BothHeld, NoneWritten, BothWritten, Checked
  <1> DEFINE a == Resolve[SecondLock(t)]
  <1>1. /\ a \in Accounts /\ owner[a] \in {NoTx, t} /\ pc[t] = "lockSecond"
        /\ owner' = [owner EXCEPT ![a] = t]
        /\ locked'[t].first = locked[t].first
        /\ locked'[t].second = Read(a)
        /\ pc' = [pc EXCEPT ![t] = "debitEntry"]
        /\ UNCHANGED <<req, row, durable>>
    BY LocalTypes, LedgerAssumption
    DEF LockSecond, LockAccount, Goto, IInv, TypeOK
  <1>2. pc'[t] = "debitEntry"
    BY <1>1 DEF IInv, TypeOK
  <1>3. IsLocked(t, locked[t].first, FirstLock(t))
    BY <1>1 DEF IInv, CallInv, SnapshotInv
  <1>4. row[a] = durable[a]
    BY <1>1 DEF IInv, LockInv, CallInv, WriteInv
  <1>5. FirstLock(t)' = FirstLock(t) /\ SecondLock(t)' = SecondLock(t)
    BY <1>1 DEF LockOrder, FirstLock, SecondLock
  <1>6. \A b \in Accounts : owner'[b] = t <=> (owner[b] = t \/ b = a)
    BY <1>1 DEF IInv, TypeOK
  <1>7. SnapshotInv(t)'
    <2>1. IsLocked(t, locked[t].first, FirstLock(t))'
      BY <1>1, <1>3, <1>5, <1>6 DEF IsLocked
    <2>2. IsLocked(t, locked[t].second, SecondLock(t))'
      BY <1>1, <1>4, <1>5, <1>6 DEF IsLocked, Read
    <2>3. QED
      BY <2>1, <2>2 DEF SnapshotInv
  <1>8. OwnInv(t)'
    <2>1. \A b \in Accounts : owner'[b] = t => b \in {locked[t].first.id, a}
      BY <1>1, <1>6 DEF IInv, CallInv, OwnInv
    <2>2. {FromAccount(t)'.id, ToAccount(t)'.id} = {locked[t].first.id, a}
      BY <1>1 DEF FromAccount, ToAccount, Read, LockOrder, FirstLock
    <2>3. QED
      BY <1>2, <2>1, <2>2 DEF OwnInv
  <1>9. WriteInv(t)'
    BY <1>1, <1>2, <1>4, <1>6 DEF IInv, CallInv, WriteInv
  <1>10. LockInv'
    BY <1>1, <1>2, LedgerAssumption DEF IInv, LockInv, TypeOK
  <1>11. QED
    BY <1>1, <1>7, <1>8, <1>9, <1>10 DEF CallInv, IInv, NoOverdraft

LEMMA UpdateFromStep ==
    ASSUME IInv, TypeOK', NEW t \in Txs, UpdateFrom(t), Frame(t)
    PROVE  CallInv(t)' /\ LockInv' /\ NoOverdraft'
  <1> USE DEF FirstHeld, BothHeld, NoneWritten, BothWritten, Checked
  <1> DEFINE a == FromAccount(t).id
  <1>1. pc[t] = "updateFrom" /\ UNCHANGED <<req, locked, durable>>
    BY DEF UpdateFrom, UpdateAccountBalance, NewVersion
  <1>2. IsLocked(t, FromAccount(t), req[t].from)
    BY <1>1, BothLocked
  <1>3. row[a] = durable[a]
    BY <1>1, <1>2 DEF IsLocked, IInv, CallInv, WriteInv
  <1>4. /\ pc' = [pc EXCEPT ![t] = "updateTo"]
        /\ row' = [row EXCEPT ![a] = Debited(t)]
        /\ owner' = [owner EXCEPT ![a] = t]
    BY <1>2, <1>3 DEF UpdateFrom, UpdateAccountBalance, NewVersion, IsLocked, Debited
  <1>5. pc'[t] = "updateTo"
    BY <1>4 DEF IInv, TypeOK
  <1>6. owner' = owner
    BY <1>2, <1>4 DEF IsLocked, IInv, TypeOK
  <1>7. \A b \in Accounts : b # a => row'[b] = row[b]
    BY <1>4 DEF IInv, TypeOK
  <1>8. row'[a] = Debited(t)
    BY <1>2, <1>4 DEF IsLocked, IInv, TypeOK
  <1>9. SnapshotInv(t)' /\ OwnInv(t)'
    BY <1>1, <1>5, <1>6, LocalFrame
    DEF IInv, CallInv, SnapshotInv, IsLocked, OwnInv
  <1>10. WriteInv(t)'
    BY <1>1, <1>5, <1>6, <1>7, <1>8, LocalFrame DEF IInv, CallInv, WriteInv
  <1>11. LockInv'
    BY <1>1, <1>2, <1>4, <1>5, <1>6, <1>7, LedgerAssumption
    DEF IInv, LockInv, TypeOK, IsLocked
  <1>12. QED
    BY <1>1, <1>9, <1>10, <1>11 DEF CallInv, IInv, NoOverdraft

\* A self-transfer ends here: the row's version is one ahead of the version
\* lockAccount read.
LEMMA UpdateToStep ==
    ASSUME IInv, TypeOK', NEW t \in Txs, UpdateTo(t), Frame(t)
    PROVE  CallInv(t)' /\ LockInv' /\ NoOverdraft'
  <1> USE DEF FirstHeld, BothHeld, NoneWritten, BothWritten, Checked
  <1> DEFINE a == ToAccount(t).id
             f == FromAccount(t).id
  <1>1. pc[t] = "updateTo" /\ UNCHANGED <<req, locked, durable>>
    BY DEF UpdateTo, UpdateAccountBalance, NewVersion
  <1>2. IsLocked(t, ToAccount(t), req[t].to) /\ IsLocked(t, FromAccount(t), req[t].from)
    BY <1>1, BothLocked
  <1>3. row[f] = Debited(t) /\ FromAccount(t).balance >= req[t].amount
    BY <1>1 DEF IInv, CallInv, WriteInv
  <1>4. \A b \in Accounts : owner[b] = t => b \in {a, f}
    BY <1>1, BothLocked
  <1>5. CASE f = a
    <2>1. row[a].version # ToAccount(t).version
      <3>1. ToAccount(t).version = FromAccount(t).version /\ ToAccount(t).version \in Nat
        BY <1>2, <1>5, LocalTypes DEF IsLocked, IInv, LockedRow
      <3>2. row[a].version = FromAccount(t).version + 1
        BY <1>3, <1>5 DEF Debited
      <3>3. QED
        BY <3>1, <3>2
    <2>2. pc' = [pc EXCEPT ![t] = "appendFailed"] /\ row' = row /\ owner' = owner
      BY <2>1 DEF UpdateTo, UpdateAccountBalance, NewVersion
    <2>3. pc'[t] = "appendFailed"
      BY <2>2 DEF IInv, TypeOK
    <2>4. pc'[t] \in PCs /\ \A u \in Txs \ {t} : pc'[u] = pc[u]
      BY <2>2, <2>3 DEF IInv, TypeOK, PCs
    <2>5. QED
      BY <1>1, <2>2, <2>3, <2>4, QuietStep
  <1>6. CASE f # a
    <2>1. row[a] = durable[a]
      BY <1>1, <1>2, <1>6 DEF IsLocked, IInv, CallInv, WriteInv
    <2>2. /\ pc' = [pc EXCEPT ![t] = "appendSuccess"]
          /\ row' = [row EXCEPT ![a] = Credited(t)]
          /\ owner' = [owner EXCEPT ![a] = t]
      BY <1>2, <2>1 DEF UpdateTo, UpdateAccountBalance, NewVersion, IsLocked, Credited
    <2>3. pc'[t] = "appendSuccess"
      BY <2>2 DEF IInv, TypeOK
    <2>4. owner' = owner
      BY <1>2, <2>2 DEF IsLocked, IInv, TypeOK
    <2>5. /\ \A b \in Accounts : b # a => row'[b] = row[b]
          /\ row'[a] = Credited(t)
      BY <1>2, <2>2 DEF IsLocked, IInv, TypeOK
    <2>6. SnapshotInv(t)' /\ OwnInv(t)'
      BY <1>1, <2>3, <2>4, LocalFrame
      DEF IInv, CallInv, SnapshotInv, IsLocked, OwnInv
    <2>7. row'[f] = Debited(t)
      BY <1>2, <1>3, <1>6, <2>5 DEF IsLocked
    <2>8. WriteInv(t)'
      BY <1>1, <1>3, <1>6, <2>3, <2>5, <2>7, LocalFrame DEF WriteInv
    <2>9. LockInv'
      BY <1>1, <1>2, <2>2, <2>3, <2>4, <2>5, LedgerAssumption
      DEF IInv, LockInv, TypeOK, IsLocked
    <2>10. QED
      BY <1>1, <2>6, <2>8, <2>9 DEF CallInv, IInv, NoOverdraft
  <1>7. QED
    BY <1>5, <1>6

\* The durable rows after a transfer of the amount from row f to row a.
Transferred(f, a, amount) ==
    /\ f \in Accounts /\ a \in Accounts /\ f # a
    /\ amount \in Amounts
    /\ durable[f].balance >= amount
    /\ durable' = [durable EXCEPT
            ![f] = [balance |-> durable[f].balance - amount,
                    version |-> durable[f].version + 1],
            ![a] = [balance |-> durable[a].balance + amount,
                    version |-> durable[a].version + 1]]

\* The rows a committing call holds are the two rows of its transfer.
LEMMA CommitEffect ==
    ASSUME IInv, NEW t \in Txs, Commit(t)
    PROVE  Transferred(FromAccount(t).id, ToAccount(t).id, req[t].amount)
  <1> DEFINE f == FromAccount(t).id
             a == ToAccount(t).id
  <1>1. pc[t] = "commit"
    BY DEF Commit, Goto
  <1>2. IsLocked(t, FromAccount(t), req[t].from) /\ IsLocked(t, ToAccount(t), req[t].to)
    BY <1>1, BothLocked DEF BothHeld, FirstHeld
  <1>3. \A b \in Accounts : owner[b] = t <=> b \in {a, f}
    BY <1>1, <1>2, BothLocked DEF BothHeld, FirstHeld, IsLocked
  <1>4. /\ f # a /\ row[f] = Debited(t) /\ row[a] = Credited(t)
        /\ FromAccount(t).balance >= req[t].amount
    BY <1>1 DEF IInv, CallInv, WriteInv, BothWritten, Checked
  <1>5. durable' = [b \in Accounts |-> IF b \in {a, f} THEN row[b] ELSE durable[b]]
    BY <1>3 DEF Commit
  <1>6. f \in Accounts /\ a \in Accounts /\ req[t].amount \in Amounts
    BY <1>2 DEF IsLocked, IInv, TypeOK, Requests
  <1>7. durable \in [Accounts -> RowVersion]
    BY DEF IInv, TypeOK
  <1>8. /\ row[f] = [balance |-> durable[f].balance - req[t].amount,
                     version |-> durable[f].version + 1]
        /\ row[a] = [balance |-> durable[a].balance + req[t].amount,
                     version |-> durable[a].version + 1]
        /\ durable[f].balance >= req[t].amount
    BY <1>2, <1>4 DEF IsLocked, Debited, Credited
  <1>9. QED
    BY <1>4, <1>5, <1>6, <1>7, <1>8 DEF Transferred

\* A call that ends gives back its locks, and with them nothing uncommitted.
LEMMA EndStep ==
    ASSUME IInv, TypeOK', NEW t \in Txs, Commit(t) \/ Rollback(t), Frame(t)
    PROVE  CallInv(t)' /\ LockInv' /\ NoOverdraft'
  <1> USE DEF FirstHeld, BothHeld, NoneWritten, BothWritten, Checked
  <1>1. pc'[t] \in {"committed", "rolledBack"}
    BY DEF Commit, Rollback, Goto, IInv, TypeOK
  <1>2. owner' = [a \in Accounts |-> IF owner[a] = t THEN NoTx ELSE owner[a]]
    BY DEF Commit, Rollback
  <1>3. \A a \in Accounts : owner'[a] # t
    BY <1>2, LedgerAssumption
  <1>4. CallInv(t)'
    BY <1>1, <1>3 DEF CallInv, SnapshotInv, OwnInv, WriteInv
  <1>5. LockInv'
    <2> SUFFICES ASSUME NEW a \in Accounts
                 PROVE  /\ owner'[a] # NoTx =>
                            pc'[owner'[a]] \in FirstHeld \cup {"appendFailed", "rollback"}
                        /\ owner'[a] = NoTx => row'[a] = durable'[a]
      BY DEF LockInv
    <2>1. CASE owner[a] = t
      BY <1>2, <2>1 DEF Commit, Rollback
    <2>2. CASE owner[a] = NoTx
      BY <1>2, <2>2, LedgerAssumption DEF Commit, Rollback, IInv, LockInv
    <2>3. CASE owner[a] \notin {t, NoTx}
      BY <1>2, <2>3 DEF Frame, IInv, LockInv, TypeOK
    <2>4. QED
      BY <2>1, <2>2, <2>3
  <1>6. NoOverdraft'
    <2>1. CASE Commit(t)
      <3>1. PICK f, a : Transferred(f, a, req[t].amount)
        BY <2>1, CommitEffect
      <3>2. req[t].amount \in Nat
        BY LocalTypes DEF IInv
      <3>3. \A b \in Accounts : durable[b].balance \in Int /\ durable[b].balance >= 0
        BY DEF IInv, TypeOK, RowVersion, NoOverdraft
      <3>4. durable \in [Accounts -> RowVersion]
        BY DEF IInv, TypeOK
      <3>5. /\ durable'[f].balance = durable[f].balance - req[t].amount
            /\ durable'[a].balance = durable[a].balance + req[t].amount
            /\ \A b \in Accounts \ {f, a} : durable'[b] = durable[b]
        BY <3>1, <3>4 DEF Transferred
      <3>6. f \in Accounts /\ a \in Accounts /\ durable[f].balance >= req[t].amount
        BY <3>1 DEF Transferred
      <3>7. ASSUME NEW b \in Accounts PROVE durable'[b].balance >= 0
        BY <3>2, <3>3, <3>5, <3>6
      <3>8. QED
        BY <3>7 DEF NoOverdraft
    <2>2. CASE Rollback(t)
      BY <2>2 DEF Rollback, IInv, NoOverdraft
    <2>3. QED
      BY <2>1, <2>2
  <1>7. QED
    BY <1>4, <1>5, <1>6

LEMMA OwnCall ==
    ASSUME IInv, TypeOK', NEW t \in Txs, Frame(t),
           Begin(t) \/ Step(t) \/ StatementFails(t) \/ DeadlockVictim(t)
    PROVE  CallInv(t)' /\ LockInv' /\ NoOverdraft'
  <1> USE DEF IInv, TypeOK
  <1>0. \A u \in Txs \ {t} : pc'[u] = pc[u]
    BY DEF Frame
  <1>1. pc'[t] \in PCs
    OBVIOUS
  <1>2. CASE Begin(t)
    BY <1>0, <1>1, <1>2, QuietStep DEF Begin, Goto
  <1>3. CASE AppendPending(t)
    BY <1>0, <1>1, <1>3, QuietStep DEF AppendPending, AppendPaymentState, Goto
  <1>4. CASE LockFirst(t)
    BY <1>4, LockFirstStep
  <1>5. CASE LockSecond(t)
    BY <1>5, LockSecondStep
  <1>6. CASE AccountNotFound(t) \/ InsufficientBalance(t)
    BY <1>0, <1>1, <1>6, QuietStep DEF AccountNotFound, InsufficientBalance, Goto
  <1>7. CASE DebitEntry(t)
    BY <1>0, <1>1, <1>7, QuietStep DEF DebitEntry, CreateLedgerEntry, Goto
  <1>8. CASE CreditEntry(t)
    BY <1>0, <1>1, <1>8, QuietStep DEF CreditEntry, CreateLedgerEntry, Goto
  <1>9. CASE UpdateFrom(t)
    BY <1>9, UpdateFromStep
  <1>10. CASE UpdateTo(t)
    BY <1>10, UpdateToStep
  <1>11. CASE AppendSuccess(t) \/ AppendFailed(t)
    BY <1>0, <1>1, <1>11, QuietStep
    DEF AppendSuccess, AppendFailed, AppendPaymentState, Goto
  <1>12. CASE Commit(t) \/ Rollback(t)
    BY <1>12, EndStep
  <1>13. CASE StatementFails(t) \/ DeadlockVictim(t)
    BY <1>0, <1>1, <1>13, QuietStep DEF StatementFails, DeadlockVictim
  <1>14. QED
    BY <1>2, <1>3, <1>4, <1>5, <1>6, <1>7, <1>8, <1>9, <1>10, <1>11, <1>12, <1>13
    DEF Step

LEMMA StepIInv == ASSUME IInv, [Next]_vars PROVE IInv'
  <1>1. TypeOK'
    BY StepTypeOK
  <1>2. CASE UNCHANGED vars
    <2>1. NoOverdraft' /\ LockInv'
      BY <1>2 DEF vars, IInv, NoOverdraft, LockInv
    <2>2. ASSUME NEW t \in Txs PROVE CallInv(t)'
      <3>1. CallInv(t)
        BY DEF IInv
      <3>2. SnapshotInv(t)'
        BY <1>2, <3>1, LocalFrame DEF vars, CallInv, SnapshotInv, IsLocked
      <3>3. OwnInv(t)' /\ WriteInv(t)'
        BY <1>2, <3>1, LocalFrame DEF vars, CallInv, OwnInv, WriteInv
      <3>4. QED
        BY <3>2, <3>3 DEF CallInv
    <2>3. QED
      BY <1>1, <2>1, <2>2 DEF IInv
  <1>3. ASSUME NEW t \in Txs,
               Begin(t) \/ Step(t) \/ StatementFails(t) \/ DeadlockVictim(t)
        PROVE  IInv'
    <2>1. Frame(t)
      BY <1>3, StepFrame
    <2>2. \A u \in Txs \ {t} : CallInv(u)'
      BY <1>1, <2>1, OtherCalls
    <2>3. CallInv(t)' /\ LockInv' /\ NoOverdraft'
      BY <1>1, <1>3, <2>1, OwnCall
    <2>4. QED
      BY <1>1, <2>2, <2>3 DEF IInv
  <1>4. QED
    BY <1>2, <1>3 DEF Next

\* The inductive invariant holds in every reachable state of Ledger.
THEOREM LedgerInvariance == Spec => []IInv
  BY InitIInv, StepIInv, PTL DEF Spec

\* Every variable of the model keeps its type, for any calls and accounts.
THEOREM TypeCorrectness == Spec => []TypeOK
  BY LedgerInvariance, PTL DEF IInv

\* However transfers interleave, fail or deadlock, no committed balance of
\* TransferTx is negative.
THEOREM NeverOverdrawn == Spec => []NoOverdraft
  BY LedgerInvariance, PTL DEF IInv

-----------------------------------------------------------------------------
(* Refinement. *)

\* A step that does not commit leaves the durable rows alone.
LEMMA OnlyCommitIsDurable ==
    ASSUME NEW t \in Txs, ~Commit(t),
           Begin(t) \/ Step(t) \/ StatementFails(t) \/ DeadlockVictim(t)
    PROVE  durable' = durable
  BY DEF Begin, Step, StatementFails, DeadlockVictim, AppendPending,
     AppendPaymentState, LockFirst, LockSecond, LockAccount, AccountNotFound,
     InsufficientBalance, DebitEntry, CreditEntry, CreateLedgerEntry,
     UpdateFrom, UpdateTo, UpdateAccountBalance, AppendSuccess, AppendFailed,
     Rollback

\* DoubleLedgerService implements the atomic ledger: its only durable effects
\* are whole transfers between two different accounts, each covered by what the
\* sender holds.  Its rows do the rest of the bookkeeping unseen.
THEOREM Refinement == Spec => ImplementsAtomicLedger
  <1> DEFINE bal == [a \in Accounts |-> durable[a].balance]
  <1>1. Init => Atomic!Init
    BY LedgerAssumption DEF Init, Atomic!Init
  <1>2. ASSUME IInv, [Next]_vars PROVE [Atomic!Next]_bal
    <2>1. CASE UNCHANGED vars
      BY <2>1 DEF vars
    <2>2. ASSUME NEW t \in Txs, Commit(t) PROVE Atomic!Next
      <3>1. PICK f, a : Transferred(f, a, req[t].amount)
        BY <1>2, <2>2, CommitEffect
      <3>2. durable \in [Accounts -> RowVersion]
        BY <1>2 DEF IInv, TypeOK
      <3>3. bal' = [bal EXCEPT ![f] = @ - req[t].amount, ![a] = @ + req[t].amount]
        BY <3>1, <3>2 DEF Transferred
      <3>4. f \in Accounts /\ a \in Accounts /\ req[t].amount \in Amounts
        BY <3>1 DEF Transferred
      <3>5. f # a /\ bal[f] >= req[t].amount
        BY <3>1, <3>4 DEF Transferred
      <3>6. \E from, to \in Accounts, amount \in Amounts :
                /\ from # to
                /\ bal[from] >= amount
                /\ bal' = [bal EXCEPT ![from] = @ - amount, ![to] = @ + amount]
        <4> HIDE DEF bal
        <4>1. QED
          BY <3>3, <3>4, <3>5, Zenon
      <3>7. QED
        BY <3>6 DEF Atomic!Next, Atomic!Move
    <2>3. ASSUME NEW t \in Txs, ~Commit(t),
                 Begin(t) \/ Step(t) \/ StatementFails(t) \/ DeadlockVictim(t)
          PROVE  UNCHANGED bal
      BY <2>3, OnlyCommitIsDurable
    <2>4. QED
      BY <1>2, <2>1, <2>2, <2>3 DEF Next
  <1>3. QED
    BY <1>1, <1>2, LedgerInvariance, PTL
    DEF Spec, ImplementsAtomicLedger, Atomic!Spec

-----------------------------------------------------------------------------
(* The books. *)

\* A step of call t that enters nothing and commits nothing.
Unentered(t) ==
    /\ journal' = journal
    /\ durable' = durable
    /\ pc[t] # "committed" /\ pc'[t] # "committed"

\* A step of call t that enters e.
Enters(t, e) ==
    /\ e \in Entry /\ e.tx = t
    /\ journal' = Append(journal, e)
    /\ durable' = durable
    /\ pc[t] # "committed" /\ pc'[t] # "committed"

\* Entries are never changed, only added.
LEMMA EntryAdded ==
    ASSUME TypeOK, NEW t \in Txs, NEW e, Enters(t, e)
    PROVE  /\ DOMAIN journal' = DOMAIN journal \cup {Len(journal) + 1}
           /\ Len(journal) + 1 \notin DOMAIN journal
           /\ \A i \in DOMAIN journal : journal'[i] = journal[i] /\ i < Len(journal) + 1
           /\ journal'[Len(journal) + 1] = e
           /\ Len(journal) \in Nat
  <1>1. journal \in Seq(Entry)
    BY DEF TypeOK
  <1>2. QED
    BY <1>1 DEF Enters

LEMMA EntryTypes ==
    ASSUME TypeOK, NEW i \in DOMAIN journal
    PROVE  /\ i \in Int /\ journal[i].tx \in Txs /\ journal[i].account \in Accounts
           /\ journal[i].amount \in Int /\ journal[i].balance \in Int
  <1>1. journal \in Seq(Entry)
    BY DEF TypeOK
  <1>2. i \in Int /\ journal[i] \in Entry
    BY <1>1
  <1>3. QED
    BY <1>2 DEF Entry

\* The entries each call made, and those each account shows, after such steps.
LEMMA UnenteredBooks ==
    ASSUME NEW t \in Txs, TypeOK, Frame(t), Unentered(t)
    PROVE  /\ \A u \in Txs : EntriesOf(u)' = EntriesOf(u)
           /\ \A a \in Accounts : Visible(a)' = Visible(a)
  <1>1. \A i \in DOMAIN journal : journal[i].tx \in Txs
    BY EntryTypes
  <1>2. \A i \in DOMAIN journal :
            pc'[journal[i].tx] = "committed" <=> pc[journal[i].tx] = "committed"
    BY <1>1 DEF Frame, Unentered
  <1>3. QED
    BY <1>2 DEF Unentered, EntriesOf, Visible

LEMMA EnteredBooks ==
    ASSUME NEW t \in Txs, TypeOK, Frame(t), NEW e, Enters(t, e)
    PROVE  /\ \A u \in Txs \ {t} : EntriesOf(u)' = EntriesOf(u)
           /\ EntriesOf(t)' = EntriesOf(t) \cup {Len(journal) + 1}
           /\ \A a \in Accounts : Visible(a)' = Visible(a)
  <1>1. \A i \in DOMAIN journal : journal[i].tx \in Txs
    BY EntryTypes
  <1>2. \A i \in DOMAIN journal :
            pc'[journal[i].tx] = "committed" <=> pc[journal[i].tx] = "committed"
    BY <1>1 DEF Frame, Enters
  <1>3. /\ DOMAIN journal' = DOMAIN journal \cup {Len(journal) + 1}
        /\ \A i \in DOMAIN journal : journal'[i] = journal[i]
        /\ journal'[Len(journal) + 1].tx = t
        /\ pc'[t] # "committed"
    BY EntryAdded DEF Enters
  <1>4. QED
    BY <1>2, <1>3 DEF EntriesOf, Visible

\* While no account shows anything new, and no row's committed version changes,
\* the statements stay right.
LEMMA StatementsKept ==
    ASSUME StatementChain, durable' = durable,
           \A a \in Accounts : Visible(a)' = Visible(a),
           \A i \in DOMAIN journal : journal'[i] = journal[i]
    PROVE  StatementChain'
  <1> SUFFICES ASSUME NEW a \in Accounts PROVE Chained(a)'
    BY DEF StatementChain
  <1>1. \A i \in Visible(a) : journal'[i] = journal[i]
    BY DEF Visible
  <1>2. Visible(a)' = Visible(a) /\ Chained(a)
    BY DEF StatementChain
  <1>3. \A i, j : Follows(a, i, j)' <=> Follows(a, i, j)
    BY <1>2 DEF Follows
  <1>4. QED
    BY <1>1, <1>2, <1>3 DEF Chained

\* An account that shows one more entry, the newest, whose running balance is
\* the row's new committed balance, keeps a right statement.
LEMMA StatementExtended ==
    ASSUME TypeOK, NEW a \in Accounts, Chained(a), NEW i \in Int,
           journal' = journal, Visible(a)' = Visible(a) \cup {i},
           \A k \in Visible(a) : k < i,
           journal[i].balance = durable[a].balance + journal[i].amount,
           durable'[a].balance = journal[i].balance
    PROVE  Chained(a)'
  <1> DEFINE V == Visible(a)
  <1>1. V \subseteq Int
    BY DEF TypeOK, Visible
  <1>2. i \notin V /\ Visible(a)' = V \cup {i}
    BY <1>1
  <1>3. \A x, j : Follows(a, x, j)' <=> j < x /\ \A k \in V \cup {i} : k <= j \/ k >= x
    BY <1>2 DEF Follows
  <1>4. ASSUME NEW x \in V
        PROVE  /\ (\A k \in V \cup {i} : x <= k) =>
                        journal[x].balance = InitBalance[a] + journal[x].amount
               /\ \A j \in V \cup {i} : Follows(a, x, j)' =>
                        journal[x].balance = journal[j].balance + journal[x].amount
               /\ ~\A k \in V \cup {i} : k <= x
    <2>1. x < i /\ x \in Int
      BY <1>1
    <2>2. ~\A k \in V \cup {i} : k <= x
      BY <2>1
    <2>3. ASSUME NEW j \in V \cup {i}, Follows(a, x, j)'
          PROVE  journal[x].balance = journal[j].balance + journal[x].amount
      <3>1. j < x /\ \A k \in V : k <= j \/ k >= x
        BY <1>3, <2>3
      <3>2. j \in V
        BY <2>1, <3>1
      <3>3. Follows(a, x, j)
        BY <3>1 DEF Follows
      <3>4. QED
        BY <3>2, <3>3 DEF Chained
    <2>4. (\A k \in V \cup {i} : x <= k) => \A k \in V : x <= k
      OBVIOUS
    <2>5. QED
      BY <2>2, <2>3, <2>4 DEF Chained
  <1>5. (\A k \in V \cup {i} : i <= k) =>
            journal[i].balance = InitBalance[a] + journal[i].amount
    <2>1. SUFFICES ASSUME \A k \in V \cup {i} : i <= k
                   PROVE  journal[i].balance = InitBalance[a] + journal[i].amount
      OBVIOUS
    <2>2. \A k \in V : k < i /\ i <= k /\ k \in Int
      BY <1>1, <2>1
    <2>3. V = {}
      BY <2>2
    <2>4. QED
      BY <2>3 DEF Chained
  <1>6. ASSUME NEW j \in V \cup {i}, Follows(a, i, j)'
        PROVE  journal[i].balance = journal[j].balance + journal[i].amount
    <2>1. j < i /\ \A k \in V : k <= j \/ k >= i
      BY <1>3, <1>6
    <2>2. j \in V
      BY <2>1
    <2>3. \A k \in V : k <= j
      BY <1>1, <2>1
    <2>4. QED
      BY <2>2, <2>3 DEF Chained
  <1>7. Visible(a)' # {}
    BY <1>2
  <1> HIDE DEF V
  <1>8. QED
    BY <1>2, <1>4, <1>5, <1>6, <1>7 DEF Chained

\* What one call has entered, its payment states, and the order of its entries.
CallBooks(t) == EntryInv(t) /\ StateInv(t) /\ OrderInv(t)

\* A call that has entered something holds the rows it is about.
LEMMA EntriesHeld ==
    ASSUME IInv, NEW t \in Txs, EntryInv(t), pc[t] \in Checked, NEW i \in EntriesOf(t)
    PROVE  journal[i].account \in Accounts /\ owner[journal[i].account] = t
  <1>1. IsLocked(t, FromAccount(t), req[t].from) /\ IsLocked(t, ToAccount(t), req[t].to)
    BY BothLocked DEF Checked, BothHeld, FirstHeld
  <1>2. journal[i].account \in {FromAccount(t).id, ToAccount(t).id}
    BY DEF EntryInv, IsDebit, IsCredit, Checked, BothEntered
  <1>3. QED
    BY <1>1, <1>2 DEF IsLocked

\* The books of the other calls after a step of call t: their accounts show
\* nothing new while they hold them.
LEMMA OtherBooks ==
    ASSUME IInv, NEW t \in Txs, Frame(t), NEW u \in Txs, u # t, CallBooks(u),
           EntriesOf(u)' = EntriesOf(u), states'[u] = states[u],
           \A i \in DOMAIN journal : journal'[i] = journal[i],
           \A a \in Accounts : owner[a] = u => Visible(a)' = Visible(a)
    PROVE  CallBooks(u)'
  <1>1. pc'[u] = pc[u] /\ locked'[u] = locked[u] /\ req'[u] = req[u]
    BY DEF Frame
  <1>2. FromAccount(u)' = FromAccount(u) /\ ToAccount(u)' = ToAccount(u)
    BY <1>1 DEF LockOrder, FirstLock, SecondLock, FromAccount, ToAccount
  <1>3. \A i \in EntriesOf(u) : journal'[i] = journal[i]
    BY DEF EntriesOf
  <1>4. \A i \in EntriesOf(u) : /\ IsDebit(u, i)' <=> IsDebit(u, i)
                                /\ IsCredit(u, i)' <=> IsCredit(u, i)
    BY <1>1, <1>2, <1>3 DEF IsDebit, IsCredit
  <1>5. EntryInv(u)'
    BY <1>1, <1>2, <1>4 DEF EntryInv, CallBooks
  <1>6. StateInv(u)'
    BY <1>1 DEF StateInv, CallBooks
  <1>7. OrderInv(u)'
    <2>1. SUFFICES ASSUME pc[u] \in Checked, NEW a \in Accounts, NEW i \in EntriesOf(u),
                          journal'[i].account = a, NEW k \in Visible(a)'
                   PROVE  k < i
      BY <1>1 DEF OrderInv
    <2>2. journal[i].account = a
      BY <1>3, <2>1
    <2>3. owner[a] = u
      BY <2>1, <2>2, EntriesHeld DEF CallBooks
    <2>4. k \in Visible(a)
      BY <2>3
    <2>5. QED
      BY <2>1, <2>2, <2>4 DEF OrderInv, CallBooks
  <1>8. QED
    BY <1>5, <1>6, <1>7 DEF CallBooks

\* A call that has not entered anything yet, and one that is about to roll back.
LEMMA NothingEntered ==
    ASSUME NEW t \in Txs, CallBooks(t), pc[t] \in NoneEntered, EntriesOf(t)' = EntriesOf(t),
           \/ pc'[t] = "appendPending" /\ states'[t] = <<>>
           \/ pc'[t] \in {"lockFirst", "lockSecond", "debitEntry"} /\ states'[t] = <<"PENDING">>
    PROVE  CallBooks(t)'
  BY DEF CallBooks, EntryInv, StateInv, OrderInv, NoneEntered, BothEntered, Pending,
     FirstHeld, Checked

LEMMA GivenUp ==
    ASSUME NEW t \in Txs,
           \/ pc'[t] \in {"appendFailed", "rollback"}
           \/ pc'[t] = "rolledBack" /\ states'[t] = <<>>
    PROVE  CallBooks(t)'
  BY DEF CallBooks, EntryInv, StateInv, OrderInv, NoneEntered, BothEntered, Pending,
     FirstHeld, Checked

\* A call that goes on with both entries made.
LEMMA EntriesStand ==
    ASSUME IInv, NEW t \in Txs, CallBooks(t), req' = req, locked' = locked,
           Unentered(t), EntriesOf(t)' = EntriesOf(t),
           \A a \in Accounts : Visible(a)' = Visible(a),
           pc[t] \in BothEntered,
           \/ pc'[t] \in {"updateTo", "appendSuccess"} /\ states'[t] = <<"PENDING">>
           \/ pc'[t] = "commit" /\ states'[t] = <<"PENDING", "SUCCESS">>
    PROVE  CallBooks(t)'
  <1>1. FromAccount(t)' = FromAccount(t) /\ ToAccount(t)' = ToAccount(t)
    BY LocalFrame
  <1>2. \A i \in EntriesOf(t) : /\ IsDebit(t, i)' <=> IsDebit(t, i)
                                /\ IsCredit(t, i)' <=> IsCredit(t, i)
    BY <1>1 DEF IsDebit, IsCredit, Unentered
  <1>3. EntryInv(t)'
    BY <1>2 DEF EntryInv, CallBooks, NoneEntered, BothEntered
  <1>4. StateInv(t)'
    BY DEF StateInv, Pending, FirstHeld
  <1>5. pc[t] \in Checked
    BY DEF Unentered, BothEntered, Checked
  <1>6. OrderInv(t)'
    BY <1>5 DEF OrderInv, CallBooks, Unentered
  <1>7. QED
    BY <1>3, <1>4, <1>6 DEF CallBooks

LEMMA DebitEntered ==
    ASSUME IInv, NEW t \in Txs, CallBooks(t), DebitEntry(t), Frame(t), NEW e, Enters(t, e),
           e.account = FromAccount(t).id, e.amount = -req[t].amount, e.type = "DEBIT",
           e.balance = FromAccount(t).balance - req[t].amount
    PROVE  CallBooks(t)'
  <1>0. PICK n : n = Len(journal) + 1
    OBVIOUS
  <1>1. /\ pc[t] = "debitEntry" /\ pc'[t] = "creditEntry"
        /\ UNCHANGED <<req, locked, states>>
    BY DEF DebitEntry, Goto, CreateLedgerEntry, IInv, TypeOK
  <1>2. TypeOK
    BY DEF IInv
  <1>3. EntriesOf(t)' = {n} /\ \A a \in Accounts : Visible(a)' = Visible(a)
    BY <1>0, <1>1, <1>2, EnteredBooks DEF CallBooks, EntryInv, NoneEntered
  <1>4. journal'[n] = e /\ \A i \in DOMAIN journal : i < n
    BY <1>0, <1>2, EntryAdded
  <1>5. FromAccount(t)' = FromAccount(t)
    BY <1>1, LocalFrame
  <1>6. EntryInv(t)'
    BY <1>1, <1>3, <1>4, <1>5 DEF EntryInv, IsDebit, NoneEntered, BothEntered
  <1>7. StateInv(t)'
    BY <1>1 DEF CallBooks, StateInv, Pending, FirstHeld
  <1>8. OrderInv(t)'
    BY <1>3, <1>4 DEF OrderInv, Visible
  <1>9. QED
    BY <1>6, <1>7, <1>8 DEF CallBooks

LEMMA CreditEntered ==
    ASSUME IInv, NEW t \in Txs, CallBooks(t), CreditEntry(t), Frame(t), NEW e, Enters(t, e),
           e.account = ToAccount(t).id, e.amount = req[t].amount, e.type = "CREDIT",
           e.balance = ToAccount(t).balance + req[t].amount
    PROVE  CallBooks(t)'
  <1>0. PICK n : n = Len(journal) + 1
    OBVIOUS
  <1>1. /\ pc[t] = "creditEntry" /\ pc'[t] = "updateFrom"
        /\ UNCHANGED <<req, locked, states>>
    BY DEF CreditEntry, Goto, CreateLedgerEntry, IInv, TypeOK
  <1>2. TypeOK
    BY DEF IInv
  <1>3. PICK d \in EntriesOf(t) : EntriesOf(t) = {d} /\ IsDebit(t, d)
    BY <1>1 DEF CallBooks, EntryInv
  <1>4. EntriesOf(t)' = {d, n} /\ \A a \in Accounts : Visible(a)' = Visible(a)
    BY <1>0, <1>2, <1>3, EnteredBooks
  <1>5. /\ journal'[n] = e /\ \A i \in DOMAIN journal : i < n
        /\ journal'[d] = journal[d]
    BY <1>0, <1>2, <1>3, EntryAdded DEF EntriesOf
  <1>6. FromAccount(t)' = FromAccount(t) /\ ToAccount(t)' = ToAccount(t)
    BY <1>1, LocalFrame
  <1>7. IsDebit(t, d)' /\ IsCredit(t, n)'
    BY <1>1, <1>3, <1>5, <1>6 DEF IsDebit, IsCredit
  <1>8. EntryInv(t)'
    BY <1>1, <1>4, <1>7 DEF EntryInv, NoneEntered, BothEntered
  <1>9. StateInv(t)'
    BY <1>1 DEF CallBooks, StateInv, Pending, FirstHeld, Checked
  <1>10. \A a \in Accounts : journal[d].account = a => \A k \in Visible(a) : k < d
    BY <1>1, <1>3 DEF CallBooks, OrderInv, Checked
  <1>11. \A a : \A k \in Visible(a) : k < n
    BY <1>5 DEF Visible
  <1>12. OrderInv(t)'
    BY <1>4, <1>5, <1>10, <1>11 DEF OrderInv
  <1>13. QED
    BY <1>8, <1>9, <1>12 DEF CallBooks

\* A commit shows one entry more on each of the two rows of its transfer, and
\* no entry on any other.
LEMMA CommittedBooks ==
    ASSUME IInv, TypeOK', NEW t \in Txs, CallBooks(t), Commit(t), Frame(t), StatementChain
    PROVE  /\ CallBooks(t)'
           /\ StatementChain'
           /\ \A a \in Accounts : owner[a] # t => Visible(a)' = Visible(a)
  <1>0. PICK f, a : f = FromAccount(t).id /\ a = ToAccount(t).id
    OBVIOUS
  <1>1. /\ pc[t] = "commit" /\ pc'[t] = "committed"
        /\ UNCHANGED <<req, locked, journal, states>>
    BY DEF Commit, Goto, IInv, TypeOK
  <1>2. TypeOK
    BY DEF IInv
  <1>3. IsLocked(t, FromAccount(t), req[t].from) /\ IsLocked(t, ToAccount(t), req[t].to)
    BY <1>1, BothLocked DEF BothHeld, FirstHeld
  <1>4. Transferred(f, a, req[t].amount)
    BY <1>0, CommitEffect
  <1>5. PICK d, c \in EntriesOf(t) :
            EntriesOf(t) = {d, c} /\ IsDebit(t, d) /\ IsCredit(t, c)
    BY <1>1 DEF CallBooks, EntryInv, BothEntered
  <1>6. EntriesOf(t)' = EntriesOf(t)
    BY <1>1 DEF EntriesOf
  <1>7. FromAccount(t)' = FromAccount(t) /\ ToAccount(t)' = ToAccount(t)
    BY <1>1, LocalFrame
  <1>8. EntryInv(t)'
    <2>1. IsDebit(t, d)' /\ IsCredit(t, c)'
      BY <1>1, <1>5, <1>7 DEF IsDebit, IsCredit
    <2>2. f = Resolve[req[t].from] /\ a = Resolve[req[t].to] /\ f # a
      BY <1>0, <1>3, <1>4 DEF IsLocked, Transferred
    <2>3. QED
      BY <1>0, <1>1, <1>5, <1>6, <1>7, <2>1, <2>2 DEF EntryInv, NoneEntered, BothEntered
  <1>9. StateInv(t)' /\ OrderInv(t)'
    BY <1>1 DEF CallBooks, StateInv, OrderInv, Pending, FirstHeld, Checked
  <1>10. ASSUME NEW b \in Accounts
         PROVE  Visible(b)' = Visible(b) \cup {i \in {d, c} : journal[i].account = b}
    <2>1. \A i \in DOMAIN journal : journal[i].tx \in Txs
      BY <1>2, EntryTypes
    <2>2. \A i \in DOMAIN journal : pc'[journal[i].tx] = "committed"
                <=> pc[journal[i].tx] = "committed" \/ journal[i].tx = t
      BY <1>1, <2>1 DEF Frame
    <2>3. Visible(b)' = {i \in DOMAIN journal :
                            /\ journal[i].account = b
                            /\ pc[journal[i].tx] = "committed" \/ journal[i].tx = t}
      BY <1>1, <2>2 DEF Visible
    <2>4. {d, c} = {i \in DOMAIN journal : journal[i].tx = t}
      BY <1>5 DEF EntriesOf
    <2>5. \A i : i \in {d, c} <=> i \in DOMAIN journal /\ journal[i].tx = t
      BY <2>4
    <2>6. \A i : i \in Visible(b) <=> /\ i \in DOMAIN journal /\ journal[i].account = b
                                      /\ pc[journal[i].tx] = "committed"
      BY DEF Visible
    <2>7. \A i : i \in Visible(b)' <=>
                   /\ i \in DOMAIN journal /\ journal[i].account = b
                   /\ pc[journal[i].tx] = "committed" \/ journal[i].tx = t
      BY <2>3
    <2>8. \A i : i \in Visible(b)' <=>
                   i \in Visible(b) \/ (i \in {d, c} /\ journal[i].account = b)
      BY <2>5, <2>6, <2>7, Zenon
    <2>9. QED
      BY <2>8
  <1>11. journal[d].account = f /\ journal[c].account = a
    BY <1>0, <1>5 DEF IsDebit, IsCredit
  <1>12. f \in Accounts /\ a \in Accounts /\ f # a
    BY <1>4 DEF Transferred
  <1>13. /\ Visible(f)' = Visible(f) \cup {d} /\ Visible(a)' = Visible(a) \cup {c}
         /\ \A b \in Accounts \ {f, a} : Visible(b)' = Visible(b)
    <2>1. /\ {i \in {d, c} : journal[i].account = f} = {d}
          /\ {i \in {d, c} : journal[i].account = a} = {c}
          /\ \A b \in Accounts \ {f, a} : {i \in {d, c} : journal[i].account = b} = {}
      BY <1>11, <1>12
    <2>2. Visible(f)' = Visible(f) \cup {d}
      BY <1>10, <1>12, <2>1
    <2>3. Visible(a)' = Visible(a) \cup {c}
      BY <1>10, <1>12, <2>1
    <2>4. ASSUME NEW b \in Accounts \ {f, a} PROVE Visible(b)' = Visible(b)
      <3>1. Visible(b)' = Visible(b) \cup {i \in {d, c} : journal[i].account = b}
        BY <1>10
      <3>2. QED
        BY <2>1, <3>1
    <2>5. QED
      BY <2>2, <2>3, <2>4
  <1>14. /\ \A k \in Visible(f) : k < d
         /\ \A k \in Visible(a) : k < c
    <2>1. \A i \in EntriesOf(t), k \in Visible(f) : journal[i].account = f => k < i
      BY <1>1, <1>12 DEF CallBooks, OrderInv, Checked
    <2>2. \A i \in EntriesOf(t), k \in Visible(a) : journal[i].account = a => k < i
      BY <1>1, <1>12 DEF CallBooks, OrderInv, Checked
    <2>3. QED
      BY <1>5, <1>11, <2>1, <2>2
  <1>15. d \in Int /\ c \in Int
    BY <1>2, <1>5, EntryTypes DEF EntriesOf
  <1>16. /\ durable'[f].balance = durable[f].balance - req[t].amount
         /\ durable'[a].balance = durable[a].balance + req[t].amount
         /\ \A b \in Accounts \ {f, a} : durable'[b] = durable[b]
    BY <1>2, <1>4 DEF Transferred, TypeOK
  <1>17. /\ journal[d].balance = durable[f].balance - req[t].amount
         /\ journal[d].amount = -req[t].amount
         /\ journal[c].balance = durable[a].balance + req[t].amount
         /\ journal[c].amount = req[t].amount
    BY <1>0, <1>3, <1>5 DEF IsDebit, IsCredit, IsLocked
  <1>18. durable[f].balance \in Int /\ req[t].amount \in Int
    <2>1. durable[f] \in RowVersion
      BY <1>2, <1>12 DEF TypeOK
    <2>2. req[t].amount \in Nat
      BY <1>2, LocalTypes
    <2>3. QED
      BY <2>1, <2>2 DEF RowVersion
  <1>19. Chained(f)'
    <2>1. journal[d].balance = durable[f].balance + journal[d].amount
      BY <1>17, <1>18
    <2>2. Chained(f)
      BY <1>12 DEF StatementChain
    <2>3. QED
      BY <1>1, <1>2, <1>12, <1>13, <1>14, <1>15, <1>16, <1>17, <2>1, <2>2, StatementExtended
  <1>20. Chained(a)'
    <2>1. Chained(a)
      BY <1>12 DEF StatementChain
    <2>2. QED
      BY <1>1, <1>2, <1>12, <1>13, <1>14, <1>15, <1>16, <1>17, <2>1, StatementExtended
  <1>21. ASSUME NEW b \in Accounts \ {f, a} PROVE Chained(b)'
    <2>1. Visible(b)' = Visible(b) /\ durable'[b] = durable[b] /\ Chained(b)
      BY <1>13, <1>16 DEF StatementChain
    <2>2. \A i, j : Follows(b, i, j)' <=> Follows(b, i, j)
      BY <2>1 DEF Follows
    <2>3. QED
      BY <1>1, <2>1, <2>2 DEF Chained
  <1>22. StatementChain'
    BY <1>19, <1>20, <1>21 DEF StatementChain
  <1>23. owner[f] = t /\ owner[a] = t
    BY <1>0, <1>3 DEF IsLocked
  <1>24. \A b \in Accounts : owner[b] # t => Visible(b)' = Visible(b)
    BY <1>13, <1>23
  <1>25. QED
    BY <1>8, <1>9, <1>22, <1>24 DEF CallBooks

-----------------------------------------------------------------------------
(* The invariant of the books. *)

LEMMA InitBooks == ASSUME Init PROVE BooksInv
  <1>1. DOMAIN journal = {}
    BY DEF Init
  <1>2. \A a \in Accounts : Visible(a) = {}
    BY <1>1 DEF Visible
  <1>3. \A t \in Txs : EntriesOf(t) = {}
    BY <1>1 DEF EntriesOf
  <1>4. \A t \in Txs : pc[t] = "idle" /\ states[t] = <<>>
    BY DEF Init
  <1>5. \A t \in Txs : EntryInv(t) /\ StateInv(t) /\ OrderInv(t)
    BY <1>3, <1>4
    DEF EntryInv, StateInv, OrderInv, NoneEntered, BothEntered, Pending, FirstHeld, Checked
  <1>6. \A a \in Accounts : durable[a].balance = InitBalance[a]
    BY DEF Init
  <1>7. StatementChain
    BY <1>2, <1>6 DEF StatementChain, Chained
  <1>8. QED
    BY <1>5, <1>7, InitIInv DEF BooksInv

\* Which steps enter and commit nothing.
LEMMA UnenteredSteps ==
    ASSUME TypeOK, NEW t \in Txs,
           \/ Begin(t) \/ AppendPending(t) \/ LockFirst(t) \/ LockSecond(t)
           \/ AccountNotFound(t) \/ InsufficientBalance(t) \/ UpdateFrom(t) \/ UpdateTo(t)
           \/ AppendSuccess(t) \/ AppendFailed(t) \/ Rollback(t)
           \/ StatementFails(t) \/ DeadlockVictim(t)
    PROVE  Unentered(t) /\ \A u \in Txs \ {t} : states'[u] = states[u]
  <1> USE DEF Unentered, TypeOK, Goto
  <1>1. CASE Begin(t) \/ AccountNotFound(t) \/ InsufficientBalance(t)
    BY <1>1 DEF Begin, AccountNotFound, InsufficientBalance
  <1>2. CASE AppendPending(t) \/ AppendSuccess(t) \/ AppendFailed(t)
    BY <1>2 DEF AppendPending, AppendSuccess, AppendFailed, AppendPaymentState
  <1>3. CASE LockFirst(t) \/ LockSecond(t)
    BY <1>3 DEF LockFirst, LockSecond, LockAccount
  <1>4. CASE UpdateFrom(t) \/ UpdateTo(t)
    BY <1>4 DEF UpdateFrom, UpdateTo, UpdateAccountBalance
  <1>5. CASE Rollback(t)
    BY <1>5 DEF Rollback
  <1>6. CASE StatementFails(t)
    BY <1>6, RunningDef DEF StatementFails
  <1>7. CASE DeadlockVictim(t)
    <2>1. PICK u : Waits(t, u)
      BY <1>7 DEF DeadlockVictim, Deadlocked, Circle
    <2>2. pc[t] # "committed"
      BY <2>1 DEF Waits, Wanted
    <2>3. QED
      BY <1>7, <2>2 DEF DeadlockVictim
  <1>8. QED
    BY <1>1, <1>2, <1>3, <1>4, <1>5, <1>6, <1>7

LEMMA PairAppended ==
    ASSUME NEW S, NEW a \in S, NEW b \in S
    PROVE  Append(<<a>>, b) = <<a, b>>
  <1>1. <<a>> \in Seq(S) /\ Len(<<a>>) = 1
    OBVIOUS
  <1>2. Append(<<a>>, b) = [i \in 1..2 |-> IF i = 1 THEN a ELSE b]
    BY <1>1
  <1>3. <<a, b>> = [i \in 1..2 |-> IF i = 1 THEN a ELSE b]
    OBVIOUS
  <1>4. QED
    BY <1>2, <1>3

\* The books of the call that takes such a step.
LEMMA UnenteredOwn ==
    ASSUME IInv, NEW t \in Txs, CallBooks(t), Unentered(t),
           EntriesOf(t)' = EntriesOf(t), \A a \in Accounts : Visible(a)' = Visible(a),
           \/ Begin(t) \/ AppendPending(t) \/ LockFirst(t) \/ LockSecond(t)
           \/ AccountNotFound(t) \/ InsufficientBalance(t) \/ UpdateFrom(t) \/ UpdateTo(t)
           \/ AppendSuccess(t) \/ AppendFailed(t) \/ Rollback(t)
           \/ StatementFails(t) \/ DeadlockVictim(t)
    PROVE  CallBooks(t)'
  <1> USE DEF IInv, TypeOK, Goto
  <1>1. CASE Begin(t)
    <2>1. pc[t] = "idle" /\ pc'[t] = "appendPending" /\ states'[t] = states[t]
      BY <1>1 DEF Begin
    <2>2. QED
      BY <2>1, NothingEntered DEF CallBooks, StateInv, NoneEntered
  <1>2. CASE AppendPending(t)
    <2>1. /\ pc[t] = "appendPending" /\ pc'[t] = "lockFirst"
          /\ states'[t] = Append(states[t], "PENDING")
      BY <1>2 DEF AppendPending, AppendPaymentState
    <2>2. states'[t] = <<"PENDING">>
      BY <2>1 DEF CallBooks, StateInv
    <2>3. QED
      BY <2>1, <2>2, NothingEntered DEF NoneEntered
  <1>3. CASE LockFirst(t) \/ LockSecond(t)
    <2>1. /\ pc[t] \in {"lockFirst", "lockSecond"} /\ pc'[t] \in {"lockSecond", "debitEntry"}
          /\ states'[t] = states[t]
      BY <1>3 DEF LockFirst, LockSecond, LockAccount
    <2>2. QED
      BY <2>1, NothingEntered DEF CallBooks, StateInv, NoneEntered, Pending, FirstHeld
  <1>4. CASE UpdateFrom(t)
    <2>1. /\ pc[t] = "updateFrom" /\ pc'[t] \in {"updateTo", "appendFailed"}
          /\ states' = states /\ req' = req /\ locked' = locked
      BY <1>4 DEF UpdateFrom, UpdateAccountBalance
    <2>2. states[t] = <<"PENDING">>
      BY <2>1 DEF CallBooks, StateInv, Pending, FirstHeld
    <2>3. QED
      BY <2>1, <2>2, EntriesStand, GivenUp DEF BothEntered
  <1>5. CASE UpdateTo(t)
    <2>1. /\ pc[t] = "updateTo" /\ pc'[t] \in {"appendSuccess", "appendFailed"}
          /\ states' = states /\ req' = req /\ locked' = locked
      BY <1>5 DEF UpdateTo, UpdateAccountBalance
    <2>2. states[t] = <<"PENDING">>
      BY <2>1 DEF CallBooks, StateInv, Pending, FirstHeld
    <2>3. QED
      BY <2>1, <2>2, EntriesStand, GivenUp DEF BothEntered
  <1>6. CASE AppendSuccess(t)
    <2>1. /\ pc[t] = "appendSuccess" /\ pc'[t] = "commit"
          /\ states'[t] = Append(states[t], "SUCCESS")
          /\ req' = req /\ locked' = locked
      BY <1>6 DEF AppendSuccess, AppendPaymentState
    <2>2. states[t] = <<"PENDING">>
      BY <2>1 DEF CallBooks, StateInv, Pending, FirstHeld
    <2>3. states'[t] = <<"PENDING", "SUCCESS">>
      <3>1. "PENDING" \in {"PENDING", "SUCCESS"} /\ "SUCCESS" \in {"PENDING", "SUCCESS"}
        OBVIOUS
      <3>2. Append(<<"PENDING">>, "SUCCESS") = <<"PENDING", "SUCCESS">>
        BY <3>1, PairAppended, Zenon
      <3>3. QED
        BY <2>1, <2>2, <3>2, Zenon
    <2>4. QED
      BY <2>1, <2>3, EntriesStand DEF BothEntered
  <1>7. CASE \/ AccountNotFound(t) \/ InsufficientBalance(t) \/ AppendFailed(t)
             \/ StatementFails(t) \/ DeadlockVictim(t)
    <2>1. pc'[t] \in {"appendFailed", "rollback"}
      BY <1>7 DEF AccountNotFound, InsufficientBalance, AppendFailed, StatementFails,
                  DeadlockVictim
    <2>2. QED
      BY <2>1, GivenUp
  <1>8. CASE Rollback(t)
    <2>1. pc'[t] = "rolledBack" /\ states'[t] = <<>>
      BY <1>8 DEF Rollback
    <2>2. QED
      BY <2>1, GivenUp
  <1>9. QED
    BY <1>1, <1>2, <1>3, <1>4, <1>5, <1>6, <1>7, <1>8

LEMMA StepBooks == ASSUME BooksInv, [Next]_vars PROVE BooksInv'
  <1>1. IInv /\ StatementChain /\ \A u \in Txs : CallBooks(u)
    BY DEF BooksInv, CallBooks
  <1>2. IInv'
    BY <1>1, StepIInv
  <1>3. SUFFICES StatementChain' /\ \A u \in Txs : CallBooks(u)'
    BY <1>2 DEF BooksInv, CallBooks
  <1>4. CASE UNCHANGED vars
    BY <1>1, <1>4
    DEF vars, StatementChain, Chained, Follows, Visible, CallBooks, EntryInv, StateInv,
        OrderInv, EntriesOf, IsDebit, IsCredit, LockOrder, FirstLock, SecondLock,
        FromAccount, ToAccount
  <1>5. ASSUME NEW t \in Txs,
               Begin(t) \/ Step(t) \/ StatementFails(t) \/ DeadlockVictim(t)
        PROVE  StatementChain' /\ \A u \in Txs : CallBooks(u)'
    <2>1. TypeOK /\ TypeOK' /\ Frame(t) /\ CallBooks(t)
      BY <1>1, <1>2, <1>5, StepFrame DEF IInv
    <2>2. CASE DebitEntry(t)
      <3> DEFINE d == [tx |-> t, account |-> FromAccount(t).id,
                       amount |-> -req[t].amount, type |-> "DEBIT",
                       balance |-> FromAccount(t).balance - req[t].amount]
      <3>1. PICK e : e = d
        OBVIOUS
      <3>2. pc[t] = "debitEntry" /\ pc'[t] = "creditEntry"
        BY <2>1, <2>2 DEF DebitEntry, Goto, TypeOK
      <3>3. journal' = Append(journal, e) /\ UNCHANGED <<durable, states>>
        BY <2>2, <3>1 DEF DebitEntry, CreateLedgerEntry
      <3>4. e \in Entry
        BY <1>1, <2>1, <3>1, <3>2, BothLocked, LocalTypes
        DEF Entry, IsLocked, LockedRow, BothHeld, FirstHeld
      <3>5. Enters(t, e)
        BY <3>1, <3>2, <3>3, <3>4 DEF Enters
      <3>6. CallBooks(t)'
        BY <1>1, <2>1, <2>2, <3>1, <3>5, DebitEntered
      <3>7. QED
        BY <1>1, <2>1, <3>3, <3>5, <3>6, EnteredBooks, EntryAdded, OtherBooks, StatementsKept
    <2>3. CASE CreditEntry(t)
      <3> DEFINE c == [tx |-> t, account |-> ToAccount(t).id,
                       amount |-> req[t].amount, type |-> "CREDIT",
                       balance |-> ToAccount(t).balance + req[t].amount]
      <3>1. PICK e : e = c
        OBVIOUS
      <3>2. pc[t] = "creditEntry" /\ pc'[t] = "updateFrom"
        BY <2>1, <2>3 DEF CreditEntry, Goto, TypeOK
      <3>3. journal' = Append(journal, e) /\ UNCHANGED <<durable, states>>
        BY <2>3, <3>1 DEF CreditEntry, CreateLedgerEntry
      <3>4. e \in Entry
        BY <1>1, <2>1, <3>1, <3>2, BothLocked, LocalTypes
        DEF Entry, IsLocked, LockedRow, BothHeld, FirstHeld
      <3>5. Enters(t, e)
        BY <3>1, <3>2, <3>3, <3>4 DEF Enters
      <3>6. CallBooks(t)'
        BY <1>1, <2>1, <2>3, <3>1, <3>5, CreditEntered
      <3>7. QED
        BY <1>1, <2>1, <3>3, <3>5, <3>6, EnteredBooks, EntryAdded, OtherBooks, StatementsKept
    <2>4. CASE Commit(t)
      <3>1. /\ CallBooks(t)' /\ StatementChain'
            /\ \A a \in Accounts : owner[a] # t => Visible(a)' = Visible(a)
        BY <1>1, <2>1, <2>4, CommittedBooks
      <3>2. journal' = journal /\ states' = states
        BY <2>4 DEF Commit
      <3>3. \A u \in Txs \ {t} : EntriesOf(u)' = EntriesOf(u)
        BY <3>2 DEF EntriesOf
      <3>4. QED
        BY <1>1, <2>1, <3>1, <3>2, <3>3, OtherBooks
    <2>5. CASE ~(DebitEntry(t) \/ CreditEntry(t) \/ Commit(t))
      <3>1. /\ Unentered(t) /\ \A u \in Txs \ {t} : states'[u] = states[u]
        BY <1>5, <2>1, <2>5, UnenteredSteps DEF Step
      <3>2. /\ \A u \in Txs : EntriesOf(u)' = EntriesOf(u)
            /\ \A a \in Accounts : Visible(a)' = Visible(a)
        BY <2>1, <3>1, UnenteredBooks
      <3>3. CallBooks(t)'
        BY <1>1, <1>5, <2>1, <2>5, <3>1, <3>2, UnenteredOwn DEF Step
      <3>4. \A u \in Txs \ {t} : CallBooks(u)'
        BY <1>1, <2>1, <3>1, <3>2, OtherBooks DEF Unentered
      <3>5. StatementChain'
        BY <1>1, <3>1, <3>2, StatementsKept DEF Unentered
      <3>6. QED
        BY <3>3, <3>4, <3>5
    <2>6. QED
      BY <2>2, <2>3, <2>4, <2>5
  <1>6. QED
    BY <1>4, <1>5 DEF Next

\* The invariant of the books holds in every reachable state of Ledger.
THEOREM BooksInvariance == Spec => []BooksInv
  BY InitBooks, StepBooks, PTL DEF Spec

\* Every account's visible ledger_entries, read in id order, are its history:
\* each running balance is the previous one plus the entry's amount, the last
\* one is the row's balance, however the calls of TransferTx interleave.
THEOREM StatementsAreRight == Spec => []StatementChain
  BY BooksInvariance, PTL DEF BooksInv

\* What a call has left once it is over, from its own part of the invariant.
LEMMA BothEntriesMade == ASSUME BooksInv PROVE DoubleEntry
  <1> SUFFICES ASSUME NEW t \in Txs
               PROVE  /\ pc[t] = "rolledBack" => states[t] = <<>>
                      /\ pc[t] = "committed" =>
                         /\ states[t] = <<"PENDING", "SUCCESS">>
                         /\ \E i, j \in EntriesOf(t) :
                              /\ EntriesOf(t) = {i, j}
                              /\ journal[i].account = Resolve[req[t].from]
                              /\ journal[i].amount = -req[t].amount
                              /\ journal[i].type = "DEBIT"
                              /\ journal[j].account = Resolve[req[t].to]
                              /\ journal[j].amount = req[t].amount
                              /\ journal[j].type = "CREDIT"
                              /\ journal[i].account # journal[j].account
    BY DEF DoubleEntry
  <1>1. EntryInv(t) /\ StateInv(t)
    BY DEF BooksInv
  <1>2. QED
    BY <1>1 DEF EntryInv, StateInv, IsDebit, IsCredit, BothEntered

\* TransferTx is double entry: what commits has exactly one DEBIT and one CREDIT
\* of the same amount, on the two rows its caller named, and the two payment
\* states; what rolls back has no payment state.
THEOREM CommittedIsDoubleEntry == Spec => []DoubleEntry
  BY BooksInvariance, BothEntriesMade, PTL

-----------------------------------------------------------------------------
(* Deadlock. *)

\* A non-empty set of naturals has a smallest element: one with the smallest
\* set of naturals below it.
LEMMA SmallestNumber ==
    ASSUME NEW T, T \subseteq Nat, T # {}
    PROVE  \E x \in T : \A y \in T : x <= y
  <1> DEFINE Below == {0 .. n - 1 : n \in T}
             R == StrictSubsetOrdering(Nat)
  <1>1. Below \subseteq FiniteSubsetsOf(Nat)
    <2>1. ASSUME NEW n \in T PROVE 0 .. n - 1 \in FiniteSubsetsOf(Nat)
      <3>1. n - 1 \in Int /\ 0 \in Int /\ 0 .. n - 1 \in SUBSET Nat
        OBVIOUS
      <3>2. IsFiniteSet(0 .. n - 1)
        BY <3>1, FS_Interval, Zenon
      <3>3. QED
        BY <3>1, <3>2, Zenon DEF FiniteSubsetsOf
    <2>2. QED
      BY <2>1
  <1>2. Below # {}
    OBVIOUS
  <1>3. PICK B \in Below : \A C \in Below : <<C, B>> \notin R
    <2>1. IsWellFoundedOn(R, FiniteSubsetsOf(Nat))
      BY FS_StrictSubsetOrderingWellFounded
    <2> HIDE DEF Below, R
    <2>2. QED
      BY <1>1, <1>2, <2>1, WFMin
  <1>4. PICK x \in T : B = 0 .. x - 1
    OBVIOUS
  <1>5. ASSUME NEW y \in T, y < x PROVE FALSE
    <2>1. 0 .. y - 1 \subseteq 0 .. x - 1 /\ y \in 0 .. x - 1 /\ y \notin 0 .. y - 1
      BY <1>5
    <2>2. 0 .. y - 1 \in Below /\ 0 .. y - 1 \subseteq Nat /\ 0 .. x - 1 \subseteq Nat
      OBVIOUS
    <2>3. <<0 .. y - 1, B>> \in R
      BY <2>1, <2>2, <1>4 DEF StrictSubsetOrdering
    <2>4. QED
      BY <2>2, <2>3, <1>3
  <1>6. QED
    BY <1>5

\* A call that waits and is waited for has its first row and wants its second.
LEMMA MemberOfCircle ==
    ASSUME IInv, NEW t \in Txs, NEW u \in Txs, NEW v \in Txs,
           Waits(u, t), Waits(t, v)
    PROVE  /\ pc[t] = "lockSecond"
           /\ Wanted(t) = Resolve[SecondLock(t)]
           /\ owner[Wanted(u)] = t /\ Wanted(u) \in Accounts
  <1>1. FirstLock(u) \in Idents /\ SecondLock(u) \in Idents
        /\ FromAccount(u) \in LockedRow /\ ToAccount(u) \in LockedRow
    BY LocalTypes DEF IInv
  <1>2. Wanted(u) \in Accounts /\ owner[Wanted(u)] = t
    BY <1>1, LedgerAssumption DEF Waits, Wanted, LockedRow
  <1>3. t # NoTx
    BY LedgerAssumption
  <1>4. pc[t] \in FirstHeld \cup {"appendFailed", "rollback"}
    BY <1>2, <1>3 DEF IInv, LockInv
  <1>5. pc[t] \in {"lockFirst", "lockSecond", "updateFrom", "updateTo"}
    BY DEF Waits, Wanted
  <1>6. pc[t] \in BothHeld => owner[FromAccount(t).id] = t /\ owner[ToAccount(t).id] = t
    BY DEF IInv, CallInv, SnapshotInv, IsLocked, BothHeld, FirstHeld, FromAccount, ToAccount
  <1>7. pc[t] \notin {"updateFrom", "updateTo"}
    BY <1>6 DEF Waits, Wanted, BothHeld, FirstHeld
  <1>8. QED
    BY <1>2, <1>4, <1>5, <1>7 DEF FirstHeld, Wanted

\* In a circle of calls that name each row one way, the identifier a call wants
\* is above the one that somebody else wants of it.
LEMMA RankDescends ==
    ASSUME IInv, NEW t \in Txs, NEW u \in Txs, NEW v \in Txs,
           Waits(u, t), Waits(t, v), pc[u] = "lockSecond",
           \A x \in Named(u), y \in Named(t) : Resolve[x] = Resolve[y] => x = y
    PROVE  Rank[SecondLock(u)] < Rank[SecondLock(t)]
  <1>1. /\ pc[t] = "lockSecond"
        /\ Wanted(t) = Resolve[SecondLock(t)]
        /\ owner[Wanted(u)] = t /\ Wanted(u) \in Accounts
    BY MemberOfCircle
  <1>2. Wanted(u) = Resolve[SecondLock(u)]
    BY DEF Wanted
  <1>3. locked[t].first.id = Resolve[FirstLock(t)] /\ owner[locked[t].first.id] = t
    BY <1>1 DEF IInv, CallInv, SnapshotInv, IsLocked, FirstHeld
  <1>4. Wanted(u) = locked[t].first.id
    BY <1>1 DEF IInv, CallInv, OwnInv
  <1>5. SecondLock(u) \in Named(u) /\ FirstLock(t) \in Named(t)
    BY DEF Named, SecondLock, FirstLock, LockOrder
  <1>6. SecondLock(u) = FirstLock(t)
    BY <1>2, <1>3, <1>4, <1>5
  <1>7. FirstLock(t) # SecondLock(t)
    BY <1>1, <1>3 DEF Waits
  <1>8. req[t].from \in Idents /\ req[t].to \in Idents
    BY DEF IInv, TypeOK, Requests
  <1>9. Rank[FirstLock(t)] <= Rank[SecondLock(t)]
    BY <1>8, LedgerAssumption DEF FirstLock, SecondLock, LockOrder
  <1>10. FirstLock(t) \in Idents /\ SecondLock(t) \in Idents
    BY LocalTypes DEF IInv
  <1>11. Rank[FirstLock(t)] # Rank[SecondLock(t)]
    BY <1>7, <1>10, LedgerAssumption
  <1>12. Rank[FirstLock(t)] \in Nat /\ Rank[SecondLock(t)] \in Nat
    BY <1>10, LedgerAssumption
  <1>13. QED
    BY <1>6, <1>9, <1>11, <1>12

LEMMA CircleNeedsTwoNames == ASSUME IInv PROVE DeadlockNeedsTwoNames
  <1>1. SUFFICES ASSUME NEW S \in SUBSET Txs, Circle(S),
                        \A t, u \in S : \A x \in Named(t), y \in Named(u) :
                            Resolve[x] = Resolve[y] => x = y
                 PROVE  FALSE
    BY DEF DeadlockNeedsTwoNames
  <1> DEFINE Wants == {Rank[SecondLock(t)] : t \in S}
  <1>2. \A t \in S : \E u \in S : Rank[SecondLock(u)] < Rank[SecondLock(t)]
    <2>1. SUFFICES ASSUME NEW t \in S
                   PROVE  \E u \in S : Rank[SecondLock(u)] < Rank[SecondLock(t)]
      OBVIOUS
    <2>2. PICK u \in S : Waits(u, t)
      BY <1>1 DEF Circle
    <2>3. PICK v \in S : Waits(t, v)
      BY <1>1 DEF Circle
    <2>4. PICK w \in S : Waits(w, u)
      BY <1>1 DEF Circle
    <2>5. pc[u] = "lockSecond"
      BY <2>2, <2>4, MemberOfCircle
    <2>6. Rank[SecondLock(u)] < Rank[SecondLock(t)]
      BY <1>1, <2>2, <2>3, <2>5, RankDescends
    <2>7. QED
      BY <2>6
  <1>3. Wants \subseteq Nat
    <2>1. \A t \in S : SecondLock(t) \in Idents
      BY LocalTypes DEF IInv
    <2>2. QED
      BY <2>1, LedgerAssumption
  <1>4. Wants # {}
    <2>1. PICK t : t \in S
      BY <1>1 DEF Circle
    <2>2. Rank[SecondLock(t)] \in Wants
      BY <2>1
    <2>3. QED
      BY <2>2
  <1>5. PICK least \in Wants : \A other \in Wants : least <= other
    <2> HIDE DEF Wants
    <2>1. QED
      BY <1>3, <1>4, SmallestNumber
  <1>6. PICK t \in S : least = Rank[SecondLock(t)]
    OBVIOUS
  <1>7. PICK u \in S : Rank[SecondLock(u)] < Rank[SecondLock(t)]
    BY <1>2
  <1>8. Rank[SecondLock(u)] \in Wants
    OBVIOUS
  <1>9. QED
    BY <1>3, <1>5, <1>6, <1>7, <1>8

\* The lock order of TransferTx (ledger_service.go:52-56) excludes every circle
\* of waiting calls, of any length, in which no row has two names.
THEOREM DeadlockFreedom == Spec => []DeadlockNeedsTwoNames
  BY LedgerInvariance, CircleNeedsTwoNames, PTL

-----------------------------------------------------------------------------
(* Sums. *)

\* The recursion of a sum over S, as the fold of the community modules has it.
Addends(f, g, T) ==
    IF T = {} THEN 0 ELSE f[CHOOSE x \in T : TRUE] + g[T \ {CHOOSE x \in T : TRUE}]
Folded(f, S, g) == g = [T \in SUBSET S |-> Addends(f, g, T)]

\* It has a solution: by the size of the subsets, from one to the next.
LEMMA FoldExists ==
    ASSUME NEW S, IsFiniteSet(S), NEW f
    PROVE  \E g : Folded(f, S, g)
  <1> DEFINE Level(n) == {T \in SUBSET S : Cardinality(T) <= n}
             Good(n) == \E g : g = [T \in Level(n) |-> Addends(f, g, T)]
             Bad == {n \in Nat : ~Good(n)}
  <1>1. \A T \in SUBSET S : T # {} =>
            LET rest == T \ {CHOOSE x \in T : TRUE}
            IN  rest \in SUBSET S /\ Cardinality(rest) = Cardinality(T) - 1
    BY FS_Subset, FS_RemoveElement
  <1>2. Good(0)
    <2> DEFINE g == [T \in Level(0) |-> 0]
    <2>1. \A T \in Level(0) : T = {}
      BY FS_Subset, FS_EmptySet, FS_CardinalityType
    <2>2. g = [T \in Level(0) |-> Addends(f, g, T)]
      BY <2>1 DEF Addends
    <2>3. QED
      BY <2>2
  <1>3. ASSUME NEW n \in Nat, Good(n) PROVE Good(n + 1)
    <2>1. PICK g : g = [T \in Level(n) |-> Addends(f, g, T)]
      BY <1>3
    <2> DEFINE k == [T \in Level(n + 1) |-> Addends(f, g, T)]
    <2>2. ASSUME NEW T \in Level(n + 1) PROVE k[T] = Addends(f, k, T)
      <3> DEFINE rest == T \ {CHOOSE x \in T : TRUE}
      <3>1. T # {} => rest \in Level(n) /\ rest \in Level(n + 1)
        BY <1>1, FS_Subset, FS_CardinalityType
      <3>2. T # {} => k[rest] = g[rest]
        BY <2>1, <3>1
      <3>3. QED
        BY <3>2 DEF Addends
    <2>3. k = [T \in Level(n + 1) |-> k[T]]
      OBVIOUS
    <2> HIDE DEF Level, k
    <2>4. k = [T \in Level(n + 1) |-> Addends(f, k, T)]
      BY <2>2, <2>3
    <2>5. QED
      BY <2>4
  <1> HIDE DEF Good
  <1>4. Bad = {}
    <2>1. SUFFICES ASSUME Bad # {} PROVE FALSE
      OBVIOUS
    <2>2. PICK n \in Bad : \A m \in Bad : n <= m
      BY <2>1, SmallestNumber
    <2>3. n # 0 /\ n - 1 \in Nat /\ n - 1 \notin Bad
      BY <1>2, <2>2
    <2>4. Good((n - 1) + 1)
      BY <1>3, <2>3
    <2>5. QED
      BY <2>2, <2>4
  <1>5. Good(Cardinality(S))
    BY <1>4, FS_CardinalityType
  <1>6. Level(Cardinality(S)) = SUBSET S
    BY FS_Subset, FS_CardinalityType
  <1>7. QED
    BY <1>5, <1>6 DEF Folded, Good

\* So the sum is what the recursion says.
LEMMA SumIsFolded ==
    ASSUME NEW S, IsFiniteSet(S), NEW f, DOMAIN f = S
    PROVE  \E g : Folded(f, S, g) /\ SumFunction(f) = g[S]
  <1> DEFINE g == CHOOSE g : Folded(f, S, g)
  <1>1. Folded(f, S, g)
    BY FoldExists
  <1>2. SumFunction(f) = g[S]
    BY DEF SumFunction, SumFunctionOnSet, FoldFunctionOnSet, MapThenFoldSet, Folded, Addends
  <1>3. QED
    BY <1>1, <1>2

\* A property of the subsets of a finite set holds of all of them if it holds of
\* each whose proper subsets have it: Wrong are those that do not have it.
LEMMA NoneWrong ==
    ASSUME NEW S, IsFiniteSet(S), NEW Wrong, Wrong \subseteq SUBSET S,
           \A T \in Wrong : \E U \in Wrong : U \subseteq T /\ U # T
    PROVE  Wrong = {}
  <1>1. SUFFICES ASSUME Wrong # {} PROVE FALSE
    OBVIOUS
  <1>2. IsWellFoundedOn(StrictSubsetOrdering(S), FiniteSubsetsOf(S))
    BY FS_StrictSubsetOrderingWellFounded
  <1>3. Wrong \subseteq FiniteSubsetsOf(S)
    BY FS_Subset DEF FiniteSubsetsOf
  <1>4. PICK T \in Wrong : \A U \in Wrong : <<U, T>> \notin StrictSubsetOrdering(S)
    BY <1>1, <1>2, <1>3, WFMin
  <1>5. QED
    BY <1>4 DEF StrictSubsetOrdering

\* A function that is zero everywhere adds up to zero.
LEMMA SumOfZeros ==
    ASSUME NEW S, IsFiniteSet(S), NEW f, DOMAIN f = S, \A x \in S : f[x] = 0
    PROVE  SumFunction(f) = 0
  <1>1. PICK F : Folded(f, S, F) /\ SumFunction(f) = F[S]
    BY SumIsFolded
  <1> DEFINE Wrong == {T \in SUBSET S : F[T] # 0}
  <1>2. ASSUME NEW T \in Wrong PROVE \E U \in Wrong : U \subseteq T /\ U # T
    <2>1. T # {}
      BY <1>1 DEF Folded, Addends
    <2>2. PICK x \in T : F[T] = f[x] + F[T \ {x}]
      BY <1>1, <2>1 DEF Folded, Addends
    <2>3. F[T \ {x}] # 0 /\ T \ {x} \in SUBSET S
      BY <2>2
    <2>4. QED
      BY <2>2, <2>3
  <1>3. Wrong = {}
    BY <1>2, NoneWrong
  <1>4. QED
    BY <1>1, <1>3

\* A function changed at one point adds up to a sum changed by as much.
LEMMA SumChange ==
    ASSUME NEW S, IsFiniteSet(S), NEW f \in [S -> Int], NEW h \in [S -> Int],
           NEW a \in S, \A x \in S \ {a} : h[x] = f[x]
    PROVE  SumFunction(f) \in Int /\ SumFunction(h) = SumFunction(f) - f[a] + h[a]
  <1>1. PICK F : Folded(f, S, F) /\ SumFunction(f) = F[S]
    BY SumIsFolded
  <1>2. PICK H : Folded(h, S, H) /\ SumFunction(h) = H[S]
    BY SumIsFolded
  <1> DEFINE Right(T) == /\ F[T] \in Int
                         /\ H[T] = F[T] + (IF a \in T THEN h[a] - f[a] ELSE 0)
             Wrong == {T \in SUBSET S : ~Right(T)}
  <1>3. ASSUME NEW T \in Wrong PROVE \E U \in Wrong : U \subseteq T /\ U # T
    <2>1. T # {}
      BY <1>1, <1>2 DEF Folded, Addends
    <2>2. PICK x \in T : F[T] = f[x] + F[T \ {x}] /\ H[T] = h[x] + H[T \ {x}]
      <3> DEFINE x == CHOOSE x \in T : TRUE
      <3>1. x \in T
        BY <2>1
      <3>2. F[T] = f[x] + F[T \ {x}]
        BY <1>1, <2>1 DEF Folded, Addends
      <3>3. H[T] = h[x] + H[T \ {x}]
        BY <1>2, <2>1 DEF Folded, Addends
      <3> HIDE DEF x
      <3>4. QED
        BY <3>1, <3>2, <3>3
    <2>3. ~Right(T \ {x})
      <3>1. CASE x = a
        BY <2>2, <3>1
      <3>2. CASE x # a
        BY <2>2, <3>2
      <3>3. QED
        BY <3>1, <3>2
    <2>4. QED
      BY <2>2, <2>3
  <1>4. Wrong \subseteq SUBSET S
    OBVIOUS
  <1>5. Wrong = {}
    <2> HIDE DEF Wrong
    <2>1. QED
      BY <1>3, <1>4, NoneWrong
  <1>6. Right(S)
    BY <1>5
  <1>7. QED
    BY <1>1, <1>2, <1>6

\* The same for a change at two points.
LEMMA SumOfTwoChanges ==
    ASSUME NEW S, IsFiniteSet(S), NEW f \in [S -> Int], NEW h \in [S -> Int],
           NEW a \in S, NEW b \in S, a # b, \A x \in S \ {a, b} : h[x] = f[x]
    PROVE  /\ SumFunction(f) \in Int
           /\ SumFunction(h) = SumFunction(f) - f[a] - f[b] + h[a] + h[b]
  <1> DEFINE g == [f EXCEPT ![a] = h[a]]
  <1>1. /\ g \in [S -> Int] /\ g[a] = h[a] /\ g[b] = f[b]
        /\ \A x \in S \ {a} : g[x] = f[x]
        /\ \A x \in S \ {b} : h[x] = g[x]
    OBVIOUS
  <1> HIDE DEF g
  <1>2. SumFunction(f) \in Int /\ SumFunction(g) = SumFunction(f) - f[a] + g[a]
    BY <1>1, SumChange
  <1>3. SumFunction(g) \in Int /\ SumFunction(h) = SumFunction(g) - g[b] + h[b]
    BY <1>1, SumChange
  <1>4. QED
    BY <1>1, <1>2, <1>3

LEMMA SumIsInt ==
    ASSUME NEW S, IsFiniteSet(S), NEW f \in [S -> Int]
    PROVE  SumFunction(f) \in Int
  <1>1. CASE S = {}
    BY <1>1, SumOfZeros
  <1>2. CASE S # {}
    BY <1>2, SumChange
  <1>3. QED
    BY <1>1, <1>2

\* Committed balances add up to what they did at the start.
TotalKept ==
    SumFunction([a \in Accounts |-> durable[a].balance]) = SumFunction(InitBalance)

LEMMA StepTotal ==
    ASSUME IsFiniteSet(Accounts), IInv, TotalKept, [Next]_vars
    PROVE  TotalKept'
  <1> DEFINE bal == [a \in Accounts |-> durable[a].balance]
  <1>1. durable \in [Accounts -> RowVersion]
    BY DEF IInv, TypeOK
  <1>2. bal \in [Accounts -> Int]
    BY <1>1 DEF RowVersion
  <1>3. ASSUME NEW t \in Txs, Commit(t) PROVE TotalKept'
    <2>1. PICK f, a : Transferred(f, a, req[t].amount)
      BY <1>3, CommitEffect
    <2>2. f \in Accounts /\ a \in Accounts /\ f # a
      BY <2>1 DEF Transferred
    <2>3. req[t].amount \in Int
      BY LocalTypes DEF IInv
    <2>4. /\ bal' \in [Accounts -> Int] /\ bal'[f] + bal'[a] = bal[f] + bal[a]
          /\ \A b \in Accounts \ {f, a} : bal'[b] = bal[b]
      BY <1>1, <1>2, <2>1, <2>2, <2>3 DEF Transferred
    <2> HIDE DEF bal
    <2>5. SumFunction(bal') = SumFunction(bal)
      BY <1>2, <2>2, <2>4, SumOfTwoChanges
    <2>6. QED
      BY <2>5 DEF TotalKept, bal
  <1>4. CASE durable' = durable
    BY <1>4 DEF TotalKept
  <1>5. QED
    BY <1>3, <1>4, OnlyCommitIsDurable DEF Next, vars

\* Calls of ExecuteTransfer make no money and lose none: at every moment, however
\* calls interleave, fail or roll back, what one committed balance lost another got.
THEOREM MoneyIsKept == IsFiniteSet(Accounts) => (Spec => []TotalKept)
  <1> SUFFICES ASSUME IsFiniteSet(Accounts) PROVE Spec => []TotalKept
    OBVIOUS
  <1>1. Init => TotalKept
    <2> SUFFICES ASSUME Init PROVE TotalKept
      OBVIOUS
    <2>1. [a \in Accounts |-> durable[a].balance] = InitBalance
      BY LedgerAssumption DEF Init
    <2>2. QED
      BY <2>1 DEF TotalKept
  <1>2. IInv /\ TotalKept /\ [Next]_vars => TotalKept'
    BY StepTotal
  <1>3. QED
    BY <1>1, <1>2, LedgerInvariance, PTL DEF Spec
=============================================================================
