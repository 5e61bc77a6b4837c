------------------------ MODULE SharedAccountsProofs ------------------------
(***************************************************************************)
(* Theorems about card payments and external transfers on one table.  Of   *)
(* an external transfer the calls of Ledger see only the commit: take its  *)
(* locks and its uncommitted versions away, and every other step of it is  *)
(* a stutter of Ledger, so that the lemmas of LedgerProofs hold of what is *)
(* left.                                                                   *)
(***************************************************************************)
EXTENDS SharedAccounts, TLAPS

\* The table as the calls would see it without open external transfers.
CallOwner == [a \in Accounts |-> IF owner[a] \in Exts THEN NoTx ELSE owner[a]]
CallRow == [a \in Accounts |-> IF owner[a] \in Exts THEN durable[a] ELSE row[a]]

Calls == INSTANCE LedgerProofs WITH owner <- CallOwner, row <- CallRow

Steps == {"idle", "select", "debit", "fee", "commit", "committed", "refused", "rolledBack"}

SharedTypeOK ==
    /\ owner \in [Accounts -> Everyone \cup {NoTx}]
    /\ row \in [Accounts -> RowVersion]
    /\ step \in [Exts -> Steps]
    /\ transfer \in [Exts -> ExtRequests]
    /\ feeRow \in Accounts \cup {NoAccount}

\* The version of row a that transfer x commits: its total is gone if a is the
\* source, its fee has arrived if a is the fee account it credits.
Paid(x, a) ==
    [balance |-> durable[a].balance - (IF a = Source(x) THEN Total(x) ELSE 0)
                                    + (IF CreditsFee(x) /\ a = feeRow THEN transfer[x].fee ELSE 0),
     version |-> durable[a].version]

Holds(x) == {a \in Accounts : owner[a] = x}

\* A transfer holds its source from the SELECT on, and in the end the fee
\* account; their newest versions are its own, and the source has covered it.
ExtInv(x) ==
    /\ step[x] \notin {"debit", "fee", "commit"} => Holds(x) = {}
    /\ step[x] \in {"debit", "fee"} => Holds(x) = {Source(x)}
    /\ step[x] = "debit" => row[Source(x)] = durable[Source(x)]
    /\ step[x] = "fee" =>
          row[Source(x)] = [balance |-> durable[Source(x)].balance - Total(x),
                            version |-> durable[Source(x)].version]
    /\ step[x] = "commit" =>
          /\ Holds(x) = {Source(x)} \cup {a \in {feeRow} : CreditsFee(x)}
          /\ \A a \in Holds(x) : row[a] = Paid(x, a)
    /\ step[x] \in {"fee", "commit"} => durable[Source(x)].balance >= Total(x)

SharedInv == SharedTypeOK /\ Calls!IInv /\ \A x \in Exts : ExtInv(x)

-----------------------------------------------------------------------------
(* What the calls see. *)

\* An unlocked row, or one that a call holds, is seen as it is.
LEMMA SeenAsIs ==
    ASSUME SharedTypeOK, NEW a \in Accounts, owner[a] \notin Exts
    PROVE  CallOwner[a] = owner[a] /\ CallRow[a] = row[a]
  BY DEF CallOwner, CallRow

LEMMA HeldByCall ==
    ASSUME SharedTypeOK, NEW a \in Accounts, NEW t \in Txs
    PROVE  CallOwner[a] = t <=> owner[a] = t
  BY LedgerAssumption, SharedAccountsAssumption DEF CallOwner

\* The local values of a call, and its identifiers, do not depend on the table.
LEMMA SameLocals ==
    ASSUME NEW t \in Txs
    PROVE  /\ Calls!FirstLock(t) = FirstLock(t) /\ Calls!SecondLock(t) = SecondLock(t)
           /\ Calls!FromAccount(t) = FromAccount(t) /\ Calls!ToAccount(t) = ToAccount(t)
           /\ Calls!Wanted(t) = Wanted(t)
  BY DEF Calls!LockOrder, Calls!FirstLock, Calls!SecondLock, Calls!FromAccount,
     Calls!ToAccount, Calls!Wanted, LockOrder, FirstLock, SecondLock, FromAccount,
     ToAccount, Wanted

\* A step that changes no lock, no version and nothing durable.
LEMMA QuietProjection ==
    ASSUME UNCHANGED <<owner, row, durable>>
    PROVE  UNCHANGED <<CallOwner, CallRow, durable>>
  BY DEF CallOwner, CallRow

LEMMA LockProjection ==
    ASSUME SharedTypeOK, NEW t \in Txs, NEW ident \in Idents, LockAccount(t, ident)
    PROVE  /\ Calls!LockAccount(t, ident)
           /\ Calls!Read(Resolve[ident]) = Read(Resolve[ident])
  <1> DEFINE r == Resolve[ident]
  <1>1. /\ r \in Accounts /\ owner[r] \in {NoTx, t} /\ owner' = [owner EXCEPT ![r] = t]
        /\ UNCHANGED <<req, row, durable, journal, states>>
    BY LedgerAssumption DEF LockAccount
  <1>2. t \notin Exts /\ NoTx \notin Exts
    BY SharedAccountsAssumption
  <1>3. CallOwner[r] = owner[r] /\ CallRow[r] = row[r]
    BY <1>1, <1>2, SeenAsIs
  <1>4. CallOwner' = [CallOwner EXCEPT ![r] = t]
    BY <1>1, <1>2 DEF CallOwner, SharedTypeOK
  <1>5. CallRow' = CallRow
    BY <1>1, <1>2 DEF CallRow, SharedTypeOK
  <1>6. QED
    BY <1>1, <1>3, <1>4, <1>5 DEF LockAccount, Calls!LockAccount, Read, Calls!Read

\* A call that is about to update its rows holds both.
LEMMA HoldsBoth ==
    ASSUME SharedTypeOK, Calls!IInv, NEW t \in Txs, pc[t] \in Calls!BothHeld
    PROVE  /\ FromAccount(t).id \in Accounts /\ owner[FromAccount(t).id] = t
           /\ ToAccount(t).id \in Accounts /\ owner[ToAccount(t).id] = t
  <1>1. /\ Calls!IsLocked(t, Calls!FromAccount(t), req[t].from)
        /\ Calls!IsLocked(t, Calls!ToAccount(t), req[t].to)
    BY Calls!BothLocked, LedgerAssumption
  <1>2. QED
    BY <1>1, SameLocals, HeldByCall DEF Calls!IsLocked

LEMMA UpdateProjection ==
    ASSUME SharedTypeOK, NEW t \in Txs, NEW account, NEW balance, NEW here, NEW next,
           account.id \in Accounts, owner[account.id] = t,
           UpdateAccountBalance(t, account, balance, here, next)
    PROVE  Calls!UpdateAccountBalance(t, account, balance, here, next)
  <1>1. t \notin Exts /\ NoTx \notin Exts
    BY SharedAccountsAssumption
  <1>2. CallOwner[account.id] = t /\ CallRow[account.id] = row[account.id]
    BY <1>1, SeenAsIs
  <1> DEFINE new == [balance |-> balance, version |-> account.version + 1]
  <1>3. CASE /\ row[account.id].version = account.version
             /\ row' = NewVersion(account, balance)
             /\ owner' = [owner EXCEPT ![account.id] = t]
    <2>1. row' = [row EXCEPT ![account.id] = new]
      BY <1>3 DEF NewVersion
    <2>2. durable' = durable
      BY DEF UpdateAccountBalance
    <2> HIDE DEF new
    <2>3. CallRow' = [CallRow EXCEPT ![account.id] = new]
      BY <1>1, <1>3, <2>1, <2>2 DEF CallRow, SharedTypeOK
    <2>4. CallOwner' = [CallOwner EXCEPT ![account.id] = t]
      BY <1>1, <1>3 DEF CallOwner, SharedTypeOK
    <2>5. CallRow' = Calls!NewVersion(account, balance)
      BY <2>3 DEF Calls!NewVersion, new
    <2>6. pc' = [pc EXCEPT ![t] = next] \/ row[account.id].version # account.version
      BY DEF UpdateAccountBalance
    <2>7. QED
      BY <1>2, <1>3, <2>4, <2>5, <2>6 DEF UpdateAccountBalance, Calls!UpdateAccountBalance
  <1>4. CASE /\ row[account.id].version # account.version
             /\ UNCHANGED <<row, owner>>
    BY <1>2, <1>4, QuietProjection DEF UpdateAccountBalance, Calls!UpdateAccountBalance
  <1>5. QED
    BY <1>3, <1>4 DEF UpdateAccountBalance

\* The end of a call: it gives back its locks, with its versions or without.
LEMMA EndProjection ==
    ASSUME SharedTypeOK, NEW t \in Txs, Commit(t) \/ Rollback(t)
    PROVE  Calls!Commit(t) \/ Calls!Rollback(t)
  <1>1. t \notin Exts /\ NoTx \notin Exts
    BY SharedAccountsAssumption
  <1>2. \A a \in Accounts : /\ CallOwner[a] = t <=> owner[a] = t
                            /\ owner[a] = t => CallRow[a] = row[a]
    BY <1>1, HeldByCall, SeenAsIs
  <1>3. CallOwner' = [a \in Accounts |-> IF CallOwner[a] = t THEN NoTx ELSE CallOwner[a]]
    <2>1. owner' = [a \in Accounts |-> IF owner[a] = t THEN NoTx ELSE owner[a]]
      BY DEF Commit, Rollback
    <2>2. QED
      BY <1>1, <2>1 DEF CallOwner
  <1>4. CASE Commit(t)
    <2>1. durable' = [a \in Accounts |-> IF CallOwner[a] = t THEN CallRow[a] ELSE durable[a]]
      BY <1>2, <1>4 DEF Commit
    <2>2. CallRow' = CallRow
      BY <1>1, <1>4 DEF CallRow, Commit
    <2>3. QED
      BY <1>3, <1>4, <2>1, <2>2 DEF Commit, Calls!Commit, Goto, Calls!Goto
  <1>5. CASE Rollback(t)
    <2>1. CallRow' = [a \in Accounts |-> IF CallOwner[a] = t THEN durable[a] ELSE CallRow[a]]
      BY <1>1, <1>5 DEF CallRow, CallOwner, Rollback
    <2>2. QED
      BY <1>3, <1>5, <2>1 DEF Rollback, Calls!Rollback, Goto, Calls!Goto
  <1>6. QED
    BY <1>4, <1>5

\* Every statement of a call is one of Ledger on what the call sees.
LEMMA StepProjection ==
    ASSUME SharedTypeOK, Calls!IInv, NEW t \in Txs, Step(t)
    PROVE  Calls!Step(t)
  <1>0. FirstLock(t) \in Idents /\ SecondLock(t) \in Idents
    BY SameLocals, Calls!LocalTypes, LedgerAssumption DEF Calls!IInv
  <1>1. CASE AppendPending(t) \/ AppendSuccess(t) \/ AppendFailed(t)
    BY <1>1, QuietProjection
    DEF AppendPending, AppendSuccess, AppendFailed, AppendPaymentState, Goto, Calls!Step,
        Calls!AppendPending, Calls!AppendSuccess, Calls!AppendFailed,
        Calls!AppendPaymentState, Calls!Goto
  <1>2. CASE LockFirst(t)
    BY <1>0, <1>2, SameLocals, LockProjection
    DEF LockFirst, Goto, Calls!Step, Calls!LockFirst, Calls!Goto
  <1>3. CASE LockSecond(t)
    BY <1>0, <1>3, SameLocals, LockProjection
    DEF LockSecond, Goto, Calls!Step, Calls!LockSecond, Calls!Goto
  <1>4. CASE AccountNotFound(t) \/ InsufficientBalance(t)
    BY <1>4, SameLocals, QuietProjection
    DEF AccountNotFound, InsufficientBalance, Goto, Calls!Step, Calls!AccountNotFound,
        Calls!InsufficientBalance, Calls!Goto
  <1>5. CASE DebitEntry(t) \/ CreditEntry(t)
    BY <1>5, SameLocals, QuietProjection
    DEF DebitEntry, CreditEntry, CreateLedgerEntry, Goto, Calls!Step, Calls!DebitEntry,
        Calls!CreditEntry, Calls!CreateLedgerEntry, Calls!Goto
  <1>6. CASE UpdateFrom(t)
    <2>1. pc[t] \in Calls!BothHeld
      BY <1>6 DEF UpdateFrom, UpdateAccountBalance, Calls!BothHeld, Calls!FirstHeld
    <2>2. Calls!UpdateFrom(t)
      BY <1>6, <2>1, HoldsBoth, SameLocals, UpdateProjection DEF UpdateFrom, Calls!UpdateFrom
    <2>3. QED
      BY <2>2 DEF Calls!Step
  <1>7. CASE UpdateTo(t)
    <2>1. pc[t] \in Calls!BothHeld
      BY <1>7 DEF UpdateTo, UpdateAccountBalance, Calls!BothHeld, Calls!FirstHeld
    <2>2. Calls!UpdateTo(t)
      BY <1>7, <2>1, HoldsBoth, SameLocals, UpdateProjection DEF UpdateTo, Calls!UpdateTo
    <2>3. QED
      BY <2>2 DEF Calls!Step
  <1>8. CASE Commit(t) \/ Rollback(t)
    BY <1>8, EndProjection DEF Calls!Step
  <1>9. QED
    BY <1>1, <1>2, <1>3, <1>4, <1>5, <1>6, <1>7, <1>8 DEF Step

-----------------------------------------------------------------------------
(* A step of one payment. *)

\* A step of payment y leaves alone what other payments have locked.
OnlyRowsOf(y) ==
    \A a \in Accounts :
        /\ owner[a] \notin {NoTx, y} => /\ owner'[a] = owner[a] /\ row'[a] = row[a]
                                        /\ durable'[a] = durable[a]
        /\ owner'[a] \in {owner[a], y, NoTx}

LEMMA OthersKept ==
    ASSUME SharedTypeOK, NEW x \in Exts, NEW y \in Everyone, y # x, OnlyRowsOf(y),
           ExtInv(x), step'[x] = step[x], UNCHANGED <<transfer, feeRow>>
    PROVE  ExtInv(x)'
  <1>1. x # NoTx /\ Source(x)' = Source(x) /\ Total(x)' = Total(x) /\ CreditsFee(x)' = CreditsFee(x)
    BY SharedAccountsAssumption DEF Source, Total, CreditsFee
  <1>2. \A a \in Accounts : owner[a] = x => /\ owner'[a] = x /\ row'[a] = row[a]
                                            /\ durable'[a] = durable[a]
    BY <1>1 DEF OnlyRowsOf
  <1>3. Holds(x)' = Holds(x)
    BY <1>1, <1>2 DEF Holds, OnlyRowsOf
  <1>4. \A a \in Holds(x) : /\ row'[a] = row[a] /\ durable'[a] = durable[a]
                            /\ Paid(x, a)' = Paid(x, a)
    BY <1>1, <1>2 DEF Holds, Paid
  <1>5. step[x] \in {"debit", "fee", "commit"} => Source(x) \in Holds(x)
    BY DEF ExtInv
  <1> HIDE DEF Holds, Paid, Source, Total, CreditsFee
  <1>6. QED
    BY <1>1, <1>3, <1>4, <1>5 DEF ExtInv

\* A call writes the rows it holds, and locks rows nobody holds.
LEMMA CallFrame ==
    ASSUME SharedTypeOK, Calls!IInv, NEW t \in Txs, Begin(t) \/ Step(t) \/ StatementFails(t)
    PROVE  /\ OnlyRowsOf(t)
           /\ owner' \in [Accounts -> Everyone \cup {NoTx}]
           /\ row' = [a \in Accounts |-> row'[a]]
  <1>1. CASE UNCHANGED <<owner, row, durable>>
    BY <1>1 DEF OnlyRowsOf, SharedTypeOK
  <1>2. CASE LockFirst(t) \/ LockSecond(t)
    <2>1. PICK ident \in Idents : LockAccount(t, ident)
      BY <1>2, SameLocals, Calls!LocalTypes, LedgerAssumption DEF LockFirst, LockSecond, Calls!IInv
    <2>2. QED
      BY <2>1, LedgerAssumption DEF LockAccount, OnlyRowsOf, SharedTypeOK, Everyone
  <1>3. CASE UpdateFrom(t) \/ UpdateTo(t)
    <2>1. pc[t] \in Calls!BothHeld
      BY <1>3 DEF UpdateFrom, UpdateTo, UpdateAccountBalance, Calls!BothHeld, Calls!FirstHeld
    <2>2. PICK r \in Accounts :
             /\ owner[r] = t /\ durable' = durable
             /\ \/ UNCHANGED <<row, owner>>
                \/ /\ \E v : row' = [row EXCEPT ![r] = v]
                   /\ owner' = [owner EXCEPT ![r] = t]
      BY <1>3, <2>1, HoldsBoth DEF UpdateFrom, UpdateTo, UpdateAccountBalance, NewVersion
    <2>3. QED
      BY <2>2 DEF OnlyRowsOf, SharedTypeOK, Everyone
  <1>4. CASE Commit(t) \/ Rollback(t)
    <2>1. CASE Commit(t)
      BY <2>1 DEF Commit, OnlyRowsOf, SharedTypeOK, Everyone
    <2>2. CASE Rollback(t)
      BY <2>2 DEF Rollback, OnlyRowsOf, SharedTypeOK, Everyone
    <2>3. QED
      BY <1>4, <2>1, <2>2
  <1>5. QED
    BY <1>1, <1>2, <1>3, <1>4
    DEF Begin, StatementFails, Step, AppendPending, AccountNotFound, InsufficientBalance,
        DebitEntry, CreditEntry, CreateLedgerEntry, AppendSuccess, AppendFailed,
        AppendPaymentState

LEMMA CallStep ==
    ASSUME SharedInv, NEW t \in Txs, UNCHANGED external,
           Begin(t) \/ Step(t) \/ StatementFails(t)
    PROVE  SharedInv'
  <1>0. SharedTypeOK /\ Calls!IInv /\ t \notin Exts /\ NoTx \notin Exts
    BY SharedAccountsAssumption DEF SharedInv
  <1>1. Calls!Next
    <2>1. CASE Step(t)
      BY <1>0, <2>1, StepProjection DEF Calls!Next
    <2>2. CASE Begin(t) \/ StatementFails(t)
      BY <2>2, QuietProjection
      DEF Begin, StatementFails, Goto, Running, Statements, Calls!Next, Calls!Begin,
          Calls!StatementFails, Calls!Goto, Calls!Running, Calls!Statements
    <2>3. QED
      BY <2>1, <2>2
  <1>2. Calls!IInv'
    BY <1>0, <1>1, Calls!StepIInv, LedgerAssumption
  <1>3. /\ OnlyRowsOf(t) /\ owner' \in [Accounts -> Everyone \cup {NoTx}]
        /\ row' = [a \in Accounts |-> row'[a]]
    BY <1>0, CallFrame
  <1>4. SharedTypeOK'
    <2>1. \A a \in Accounts : row'[a] \in RowVersion
      <3> SUFFICES ASSUME NEW a \in Accounts PROVE row'[a] \in RowVersion
        OBVIOUS
      <3>1. CASE owner[a] \in Exts
        BY <1>0, <1>3, <3>1 DEF OnlyRowsOf, SharedTypeOK
      <3>2. CASE owner[a] \notin Exts
        <4>1. owner'[a] \notin Exts
          BY <1>0, <1>3, <3>2 DEF OnlyRowsOf
        <4>2. CallRow'[a] = row'[a]
          BY <4>1 DEF CallRow
        <4>3. CallRow'[a] \in RowVersion
          BY <1>2 DEF Calls!IInv, Calls!TypeOK, Calls!RowVersion, RowVersion
        <4>4. QED
          BY <4>2, <4>3
      <3>3. QED
        BY <3>1, <3>2
    <2>2. QED
      BY <1>0, <1>3, <2>1 DEF SharedTypeOK, external
  <1>5. ASSUME NEW x \in Exts PROVE ExtInv(x)'
    BY <1>0, <1>3, OthersKept DEF SharedInv, Everyone, external
  <1>6. QED
    BY <1>2, <1>4, <1>5 DEF SharedInv

-----------------------------------------------------------------------------
(* The invariant. *)

LEMMA InitShared == ASSUME SharedInit PROVE SharedInv
  <1>0. NoTx \notin Exts
    BY SharedAccountsAssumption
  <1>1. CallOwner = owner /\ CallRow = row
    <2>1. row \in [Accounts -> {durable[a] : a \in Accounts}] /\ owner = [a \in Accounts |-> NoTx]
      BY DEF SharedInit, Init
    <2>2. QED
      BY <1>0, <2>1 DEF CallOwner, CallRow
  <1>2. Calls!Init
    BY <1>1 DEF SharedInit, Init, Requests, Unread, Calls!Init, Calls!Requests, Calls!Unread
  <1>3. Calls!IInv
    BY <1>2, Calls!InitIInv, LedgerAssumption
  <1>4. SharedTypeOK
    BY SharedAccountsAssumption, LedgerAssumption
    DEF SharedInit, Init, SharedTypeOK, RowVersion, Steps
  <1>5. ASSUME NEW x \in Exts PROVE ExtInv(x)
    BY <1>0 DEF SharedInit, Init, ExtInv, Holds
  <1>6. QED
    BY <1>3, <1>4, <1>5 DEF SharedInv

\* What an external transfer finds about the rows.
LEMMA Unlocked ==
    ASSUME SharedInv, NEW a \in Accounts, owner[a] = NoTx
    PROVE  row[a] = durable[a]
  <1>1. CallOwner[a] = NoTx /\ CallRow[a] = row[a]
    BY SharedAccountsAssumption DEF CallOwner, CallRow
  <1>2. QED
    BY <1>1 DEF SharedInv, Calls!IInv, Calls!LockInv

LEMMA ExtTypes ==
    ASSUME SharedInv, NEW x \in Exts
    PROVE  /\ transfer[x].amount \in Nat \ {0} /\ transfer[x].fee \in Nat /\ Total(x) \in Nat
           /\ Source(x) \in Accounts \cup {NoAccount}
           /\ \A a \in Accounts : row[a] \in RowVersion /\ durable[a] \in RowVersion
  <1>1. transfer[x] \in [from : Idents, amount : Nat \ {0}, fee : Nat]
    BY SharedAccountsAssumption DEF SharedInv, SharedTypeOK
  <1>2. durable \in [Accounts -> RowVersion]
    BY DEF SharedInv, Calls!IInv, Calls!TypeOK, Calls!RowVersion, RowVersion
  <1>3. QED
    BY <1>1, <1>2, LedgerAssumption DEF Total, Source, SharedInv, SharedTypeOK

\* Nothing an external transfer does before its commit is seen by the calls.
LEMMA NotSeen ==
    ASSUME SharedInv, UNCHANGED <<pc, req, locked, journal, states>>,
           NEW x \in Exts, OnlyRowsOf(x), durable' = durable,
           \A a \in Accounts : /\ owner[a] = NoTx /\ owner'[a] = NoTx => row'[a] = row[a]
                               /\ owner[a] = x /\ owner'[a] = NoTx => row'[a] = durable[a]
    PROVE  Calls!IInv'
  <1>0. NoTx \notin Exts
    BY SharedAccountsAssumption
  <1>1. ASSUME NEW a \in Accounts
        PROVE  CallOwner'[a] = CallOwner[a] /\ CallRow'[a] = CallRow[a]
    <2>1. CASE owner[a] \notin {NoTx, x}
      BY <2>1 DEF OnlyRowsOf, CallOwner, CallRow
    <2>2. CASE owner[a] = NoTx
      BY <1>0, <2>2, Unlocked DEF OnlyRowsOf, CallOwner, CallRow
    <2>3. CASE owner[a] = x
      BY <1>0, <2>3 DEF OnlyRowsOf, CallOwner, CallRow
    <2>4. QED
      BY <2>1, <2>2, <2>3
  <1>2. CallOwner' = CallOwner /\ CallRow' = CallRow
    BY <1>1 DEF CallOwner, CallRow
  <1>3. Calls!vars' = Calls!vars
    BY <1>2 DEF Calls!vars
  <1>4. QED
    BY <1>3, Calls!StepIInv, LedgerAssumption DEF SharedInv

-----------------------------------------------------------------------------
(* The steps of an external transfer. *)

LEMMA BeginExternalStep ==
    ASSUME SharedInv, NEW x \in Exts, BeginExternal(x)
    PROVE  OnlyRowsOf(x) /\ SharedTypeOK' /\ Calls!IInv' /\ ExtInv(x)'
  <1>1. step[x] = "idle" /\ step'[x] = "select" /\ UNCHANGED <<owner, row, durable>>
    BY DEF BeginExternal, Advance, SharedInv, SharedTypeOK
  <1>2. OnlyRowsOf(x)
    BY <1>1 DEF OnlyRowsOf
  <1>3. SharedTypeOK'
    BY DEF BeginExternal, Advance, SharedInv, SharedTypeOK, Steps
  <1>4. Calls!IInv'
    BY <1>1, <1>2, NotSeen, SharedAccountsAssumption DEF BeginExternal, Advance, SharedInv, SharedTypeOK
  <1>5. ExtInv(x)'
    BY <1>1 DEF SharedInv, ExtInv, Holds
  <1>6. QED
    BY <1>2, <1>3, <1>4, <1>5

LEMMA SelectStep ==
    ASSUME SharedInv, NEW x \in Exts, SelectSource(x)
    PROVE  OnlyRowsOf(x) /\ SharedTypeOK' /\ Calls!IInv' /\ ExtInv(x)'
  <1> DEFINE s == Source(x)
  <1>0. x # NoTx
    BY SharedAccountsAssumption
  <1>1. /\ step[x] = "select" /\ step' = [step EXCEPT ![x] = "debit"]
        /\ UNCHANGED <<transfer, feeRow, pc, req, locked, journal, states, row, durable>>
        /\ s \in Accounts /\ owner[s] \in {NoTx, x} /\ owner' = [owner EXCEPT ![s] = x]
    BY ExtTypes DEF SelectSource, Advance, Lock
  <1>2. owner \in [Accounts -> Everyone \cup {NoTx}] /\ step \in [Exts -> Steps]
    BY DEF SharedInv, SharedTypeOK
  <1>3. Holds(x) = {}
    BY <1>1 DEF SharedInv, ExtInv
  <1>4. OnlyRowsOf(x)
    BY <1>1, <1>2 DEF OnlyRowsOf
  <1>5. SharedTypeOK'
    BY <1>1, <1>2 DEF SharedInv, SharedTypeOK, Steps, Everyone
  <1>6. Calls!IInv'
    BY <1>0, <1>1, <1>2, <1>3, <1>4, NotSeen DEF Holds
  <1>7. ExtInv(x)'
    <2>1. Source(x)' = s /\ step'[x] = "debit"
      BY <1>1, <1>2 DEF Source
    <2>2. Holds(x)' = {s}
      BY <1>1, <1>2, <1>3 DEF Holds
    <2>3. row'[s] = durable'[s]
      BY <1>1, <1>3, Unlocked DEF Holds
    <2>4. QED
      BY <2>1, <2>2, <2>3 DEF ExtInv
  <1>8. QED
    BY <1>4, <1>5, <1>6, <1>7

\* The rows of a transfer that gives them back without having written.
LEMMA RefuseStep ==
    ASSUME SharedInv, NEW x \in Exts, Refuse(x)
    PROVE  OnlyRowsOf(x) /\ SharedTypeOK' /\ Calls!IInv' /\ ExtInv(x)'
  <1>0. x # NoTx
    BY SharedAccountsAssumption
  <1>1. /\ step[x] \in {"select", "debit"} /\ step' = [step EXCEPT ![x] = "refused"]
        /\ UNCHANGED <<transfer, feeRow, pc, req, locked, journal, states, row, durable>>
        /\ owner' = [a \in Accounts |-> IF owner[a] = x THEN NoTx ELSE owner[a]]
    BY DEF Refuse, Advance, Release
  <1>2. owner \in [Accounts -> Everyone \cup {NoTx}] /\ step \in [Exts -> Steps]
    BY DEF SharedInv, SharedTypeOK
  <1>3. \A a \in Accounts : owner[a] = x => row[a] = durable[a]
    BY <1>1 DEF SharedInv, ExtInv, Holds
  <1>4. OnlyRowsOf(x)
    BY <1>1, <1>2 DEF OnlyRowsOf
  <1>5. SharedTypeOK'
    BY <1>1, <1>2 DEF SharedInv, SharedTypeOK, Steps, Everyone
  <1>6. Calls!IInv'
    BY <1>1, <1>3, <1>4, NotSeen
  <1>7. ExtInv(x)'
    BY <1>0, <1>1, <1>2 DEF ExtInv, Holds
  <1>8. QED
    BY <1>4, <1>5, <1>6, <1>7

LEMMA DebitStep ==
    ASSUME SharedInv, NEW x \in Exts, DebitSource(x)
    PROVE  OnlyRowsOf(x) /\ SharedTypeOK' /\ Calls!IInv' /\ ExtInv(x)'
  <1> DEFINE s == Source(x)
  <1>0. x # NoTx
    BY SharedAccountsAssumption
  <1>1. /\ step[x] = "debit" /\ step' = [step EXCEPT ![x] = "fee"]
        /\ UNCHANGED <<transfer, feeRow, pc, req, locked, journal, states, durable, owner>>
        /\ row[s].balance >= Total(x)
        /\ row' = [row EXCEPT ![s] = [row[s] EXCEPT !.balance = row[s].balance - Total(x)]]
    BY DEF DebitSource, Advance
  <1>2. owner \in [Accounts -> Everyone \cup {NoTx}] /\ step \in [Exts -> Steps]
    BY DEF SharedInv, SharedTypeOK
  <1>3. Holds(x) = {s} /\ row[s] = durable[s]
    BY <1>1 DEF SharedInv, ExtInv
  <1>4. /\ s \in Accounts /\ owner[s] = x
        /\ row \in [Accounts -> RowVersion] /\ Total(x) \in Nat
    BY <1>3, ExtTypes DEF Holds, SharedInv, SharedTypeOK
  <1>5. row' = [row EXCEPT ![s] = [balance |-> durable[s].balance - Total(x),
                                   version |-> durable[s].version]]
    <2>1. [row[s] EXCEPT !.balance = row[s].balance - Total(x)]
            = [balance |-> row[s].balance - Total(x), version |-> row[s].version]
      BY <1>4 DEF RowVersion
    <2>2. QED
      BY <1>1, <1>3, <2>1
  <1>6. OnlyRowsOf(x)
    BY <1>0, <1>1, <1>4 DEF OnlyRowsOf
  <1>7. SharedTypeOK'
    <2>1. durable[s].balance - Total(x) \in Int /\ durable[s].version \in Nat
      BY <1>3, <1>4 DEF RowVersion
    <2>2. row' \in [Accounts -> RowVersion]
      BY <1>4, <1>5, <2>1 DEF RowVersion
    <2>3. QED
      BY <1>1, <1>2, <2>2 DEF SharedInv, SharedTypeOK, Steps
  <1>8. Calls!IInv'
    BY <1>0, <1>1, <1>4, <1>6, NotSeen
  <1>9. ExtInv(x)'
    <2>1. Source(x)' = s /\ Total(x)' = Total(x) /\ step'[x] = "fee" /\ Holds(x)' = Holds(x)
      BY <1>1, <1>2 DEF Source, Total, Holds
    <2>2. row'[s] = [balance |-> durable[s].balance - Total(x), version |-> durable[s].version]
      BY <1>4, <1>5
    <2>3. durable'[s].balance >= Total(x)
      BY <1>1, <1>3
    <2>4. QED
      BY <1>1, <1>3, <2>1, <2>2, <2>3 DEF ExtInv
  <1>10. QED
    BY <1>6, <1>7, <1>8, <1>9

LEMMA CreditStep ==
    ASSUME SharedInv, NEW x \in Exts, CreditFee(x)
    PROVE  OnlyRowsOf(x) /\ SharedTypeOK' /\ Calls!IInv' /\ ExtInv(x)'
  <1> DEFINE s == Source(x)
             fee == transfer[x].fee
  <1>0. x # NoTx
    BY SharedAccountsAssumption
  <1>1. /\ step[x] = "fee" /\ step' = [step EXCEPT ![x] = "commit"]
        /\ UNCHANGED <<transfer, feeRow, pc, req, locked, journal, states, durable>>
    BY DEF CreditFee, Advance
  <1>2. /\ owner \in [Accounts -> Everyone \cup {NoTx}] /\ step \in [Exts -> Steps]
        /\ row \in [Accounts -> RowVersion] /\ feeRow \in Accounts \cup {NoAccount}
    BY DEF SharedInv, SharedTypeOK
  <1>3. /\ Holds(x) = {s} /\ durable[s].balance >= Total(x)
        /\ row[s] = [balance |-> durable[s].balance - Total(x), version |-> durable[s].version]
    BY <1>1 DEF SharedInv, ExtInv
  <1>4. /\ s \in Accounts /\ owner[s] = x /\ Total(x) \in Nat /\ fee \in Nat
        /\ \A a \in Accounts : row[a] \in RowVersion /\ durable[a] \in RowVersion
    BY <1>3, ExtTypes DEF Holds
  <1>5. /\ Source(x)' = s /\ Total(x)' = Total(x) /\ CreditsFee(x)' = CreditsFee(x)
        /\ \A a \in Accounts : Paid(x, a)' = Paid(x, a)
        /\ step'[x] = "commit"
    BY <1>1, <1>2 DEF Source, Total, CreditsFee, Paid
  <1>6. CASE ~CreditsFee(x)
    <2>1. UNCHANGED <<row, owner>>
      BY <1>6 DEF CreditFee
    <2>2. OnlyRowsOf(x)
      BY <1>1, <2>1 DEF OnlyRowsOf
    <2>3. SharedTypeOK'
      BY <1>1, <1>2, <2>1 DEF SharedInv, SharedTypeOK, Steps
    <2>4. Calls!IInv'
      BY <1>0, <1>1, <2>1, <2>2, <1>2, NotSeen
    <2>5. Holds(x)' = {s} \cup {a \in {feeRow} : CreditsFee(x)}
      BY <1>3, <1>6, <2>1 DEF Holds
    <2>6. row'[s] = Paid(x, s)
      BY <1>3, <1>4, <1>6, <2>1 DEF Paid, RowVersion
    <2>7. ExtInv(x)'
      BY <1>1, <1>3, <1>4, <1>5, <1>6, <2>5, <2>6 DEF ExtInv
    <2>8. QED
      BY <2>2, <2>3, <2>4, <2>7
  <1>7. CASE CreditsFee(x)
    <2>1. /\ feeRow \in Accounts /\ owner[feeRow] \in {NoTx, x}
          /\ owner' = [owner EXCEPT ![feeRow] = x]
          /\ row' = [row EXCEPT ![feeRow] = [row[feeRow] EXCEPT !.balance = row[feeRow].balance + fee]]
      BY <1>2, <1>7 DEF CreditFee, CreditsFee, Lock
    <2>2. row' = [row EXCEPT ![feeRow] = [balance |-> row[feeRow].balance + fee,
                                          version |-> row[feeRow].version]]
      <3>1. [row[feeRow] EXCEPT !.balance = row[feeRow].balance + fee]
              = [balance |-> row[feeRow].balance + fee, version |-> row[feeRow].version]
        BY <1>4, <2>1 DEF RowVersion
      <3>2. QED
        BY <2>1, <3>1
    <2>3. OnlyRowsOf(x)
      BY <1>0, <1>1, <1>2, <2>1, <2>2 DEF OnlyRowsOf
    <2>4. SharedTypeOK'
      <3>1. row[feeRow].balance + fee \in Int /\ row[feeRow].version \in Nat
        BY <1>4, <2>1 DEF RowVersion
      <3>2. row' \in [Accounts -> RowVersion]
        BY <1>2, <2>2, <3>1 DEF RowVersion
      <3>3. owner' \in [Accounts -> Everyone \cup {NoTx}]
        BY <1>2, <2>1 DEF Everyone
      <3>4. QED
        BY <1>1, <1>2, <3>2, <3>3 DEF SharedInv, SharedTypeOK, Steps
    <2>5. \A a \in Accounts : /\ owner'[a] = NoTx => row'[a] = row[a]
                              /\ ~(owner[a] = x /\ owner'[a] = NoTx)
      BY <1>0, <1>2, <2>1, <2>2
    <2>6. Calls!IInv'
      BY <1>1, <2>3, <2>5, NotSeen
    <2>7. Holds(x)' = {s} \cup {a \in {feeRow} : CreditsFee(x)}
      <3>1. \A a \in Accounts : owner'[a] = x <=> owner[a] = x \/ a = feeRow
        BY <1>2, <2>1
      <3>2. QED
        BY <1>3, <1>7, <2>1, <3>1 DEF Holds
    <2>8. ASSUME NEW a \in {s, feeRow} PROVE row'[a] = Paid(x, a)
      <3>1. feeRow # s => row[feeRow] = durable[feeRow]
        BY <1>3, <2>1, Unlocked DEF Holds
      <3>2. CASE feeRow = s
        BY <1>2, <1>3, <1>4, <1>7, <2>1, <2>2, <3>2 DEF Paid, RowVersion
      <3>3. CASE feeRow # s /\ a = feeRow
        BY <1>2, <1>4, <1>7, <2>1, <2>2, <3>1, <3>3 DEF Paid, RowVersion
      <3>4. CASE feeRow # s /\ a = s
        BY <1>2, <1>3, <1>4, <1>7, <2>1, <2>2, <3>4 DEF Paid, RowVersion
      <3>5. QED
        BY <3>2, <3>3, <3>4
    <2>9. ExtInv(x)'
      <3>1. \A a \in Holds(x)' : row'[a] = Paid(x, a)'
        BY <1>4, <1>5, <2>1, <2>7, <2>8
      <3>2. durable'[s].balance >= Total(x)
        BY <1>1, <1>3
      <3>3. QED
        BY <1>1, <1>5, <2>7, <3>1, <3>2 DEF ExtInv
    <2>10. QED
      BY <2>3, <2>4, <2>6, <2>9
  <1>8. QED
    BY <1>6, <1>7

LEMMA RollbackExternalStep ==
    ASSUME SharedInv, NEW x \in Exts, RollbackExternal(x)
    PROVE  OnlyRowsOf(x) /\ SharedTypeOK' /\ Calls!IInv' /\ ExtInv(x)'
  <1>0. x # NoTx
    BY SharedAccountsAssumption
  <1>1. /\ step' = [step EXCEPT ![x] = "rolledBack"]
        /\ UNCHANGED <<transfer, feeRow, pc, req, locked, journal, states, durable>>
        /\ owner' = [a \in Accounts |-> IF owner[a] = x THEN NoTx ELSE owner[a]]
        /\ row' = [a \in Accounts |-> IF owner[a] = x THEN durable[a] ELSE row[a]]
    BY DEF RollbackExternal, Advance, Release
  <1>2. /\ owner \in [Accounts -> Everyone \cup {NoTx}] /\ step \in [Exts -> Steps]
        /\ row \in [Accounts -> RowVersion]
    BY DEF SharedInv, SharedTypeOK
  <1>3. OnlyRowsOf(x)
    BY <1>0, <1>1, <1>2 DEF OnlyRowsOf
  <1>4. SharedTypeOK'
    <2>1. \A a \in Accounts : durable[a] \in RowVersion
      BY ExtTypes
    <2>2. QED
      BY <1>1, <1>2, <2>1 DEF SharedInv, SharedTypeOK, Steps, Everyone
  <1>5. Calls!IInv'
    BY <1>0, <1>1, <1>3, NotSeen
  <1>6. ExtInv(x)'
    BY <1>0, <1>1, <1>2 DEF ExtInv, Holds
  <1>7. QED
    BY <1>3, <1>4, <1>5, <1>6

\* The commit is the one step the calls see: versions of rows none of them holds
\* become durable.
LEMMA CommitSeen ==
    ASSUME SharedInv, NEW x \in Exts, CommitExternal(x)
    PROVE  Calls!IInv'
  <1>0. x # NoTx /\ x \notin Txs /\ NoTx \notin Exts
    BY SharedAccountsAssumption
  <1>1. /\ step[x] = "commit"
        /\ UNCHANGED <<transfer, feeRow, pc, req, locked, journal, states, row>>
        /\ owner' = [a \in Accounts |-> IF owner[a] = x THEN NoTx ELSE owner[a]]
        /\ durable' = [a \in Accounts |-> IF owner[a] = x THEN row[a] ELSE durable[a]]
    BY DEF CommitExternal, Advance, Release
  <1>2. Calls!IInv /\ owner \in [Accounts -> Everyone \cup {NoTx}]
    BY DEF SharedInv, SharedTypeOK
  <1>3. CallOwner' = CallOwner
    BY <1>0, <1>1 DEF CallOwner
  <1>4. ASSUME NEW a \in Accounts
        PROVE  /\ CallOwner[a] # NoTx => CallRow'[a] = CallRow[a] /\ durable'[a] = durable[a]
               /\ CallOwner[a] = NoTx => CallRow'[a] = durable'[a]
    <2>1. CASE owner[a] = x
      BY <1>0, <1>1, <2>1 DEF CallOwner, CallRow
    <2>2. CASE owner[a] # x /\ owner[a] \in Exts
      BY <1>0, <1>1, <2>2 DEF CallOwner, CallRow
    <2>3. CASE owner[a] \notin Exts
      BY <1>0, <1>1, <2>3, Unlocked DEF CallOwner, CallRow
    <2>4. QED
      BY <2>1, <2>2, <2>3
  <1>5. durable' \in [Accounts -> RowVersion] /\ CallRow' \in [Accounts -> RowVersion]
    <2>1. durable' \in [Accounts -> RowVersion]
      BY <1>1, ExtTypes
    <2>2. QED
      BY <1>1, <2>1, ExtTypes DEF CallRow
  <1>6. Calls!TypeOK'
    BY <1>1, <1>2, <1>3, <1>5
    DEF Calls!IInv, Calls!TypeOK, Calls!RowVersion, RowVersion, Calls!PCs, Calls!Running,
        Calls!Statements, Calls!Requests, Calls!LockedRow, Calls!Entry
  <1>7. Calls!NoOverdraft'
    <2>1. SUFFICES ASSUME NEW a \in Accounts PROVE durable'[a].balance >= 0
      BY DEF Calls!NoOverdraft
    <2>2. durable[a].balance >= 0
      BY <1>2 DEF Calls!IInv, Calls!NoOverdraft
    <2>3. CASE owner[a] = x
      <3>1. row[a] = Paid(x, a) /\ durable[Source(x)].balance >= Total(x)
        BY <1>1, <2>3 DEF SharedInv, ExtInv, Holds
      <3>2. Paid(x, a).balance >= 0
        BY <2>2, <3>1, ExtTypes DEF Paid, RowVersion
      <3>3. QED
        BY <1>1, <2>3, <3>1, <3>2
    <2>4. QED
      BY <1>1, <2>2, <2>3
  <1>8. Calls!LockInv'
    BY <1>1, <1>2, <1>3, <1>4 DEF Calls!IInv, Calls!LockInv
  <1>9. ASSUME NEW t \in Txs PROVE Calls!CallInv(t)'
    <2>1. Calls!Untouched(t)
      BY <1>1, <1>3, <1>4, LedgerAssumption DEF Calls!Untouched
    <2>2. QED
      BY <1>2, <2>1, Calls!CallKept, LedgerAssumption
  <1>10. QED
    BY <1>6, <1>7, <1>8, <1>9 DEF Calls!IInv

LEMMA CommitExternalStep ==
    ASSUME SharedInv, NEW x \in Exts, CommitExternal(x)
    PROVE  OnlyRowsOf(x) /\ SharedTypeOK' /\ Calls!IInv' /\ ExtInv(x)'
  <1>0. x # NoTx
    BY SharedAccountsAssumption
  <1>1. /\ step' = [step EXCEPT ![x] = "committed"]
        /\ UNCHANGED <<transfer, feeRow, row>>
        /\ owner' = [a \in Accounts |-> IF owner[a] = x THEN NoTx ELSE owner[a]]
        /\ durable' = [a \in Accounts |-> IF owner[a] = x THEN row[a] ELSE durable[a]]
    BY DEF CommitExternal, Advance, Release
  <1>2. owner \in [Accounts -> Everyone \cup {NoTx}] /\ step \in [Exts -> Steps]
    BY DEF SharedInv, SharedTypeOK
  <1>3. OnlyRowsOf(x)
    BY <1>0, <1>1, <1>2 DEF OnlyRowsOf
  <1>4. SharedTypeOK'
    BY <1>1, <1>2 DEF SharedInv, SharedTypeOK, Steps, Everyone
  <1>5. ExtInv(x)'
    BY <1>0, <1>1, <1>2 DEF ExtInv, Holds
  <1>6. QED
    BY <1>3, <1>4, <1>5, CommitSeen

LEMMA ExternalSteps ==
    ASSUME SharedInv, NEW x \in Exts,
           BeginExternal(x) \/ ExternalStep(x) \/ RollbackExternal(x)
    PROVE  SharedInv'
  <1>1. OnlyRowsOf(x) /\ SharedTypeOK' /\ Calls!IInv' /\ ExtInv(x)'
    BY BeginExternalStep, SelectStep, RefuseStep, DebitStep, CreditStep, CommitExternalStep,
       RollbackExternalStep DEF ExternalStep
  <1>2. /\ \A y \in Exts \ {x} : step'[y] = step[y]
        /\ UNCHANGED <<transfer, feeRow>>
    BY DEF BeginExternal, ExternalStep, RollbackExternal, SelectSource, Refuse, DebitSource,
       CreditFee, CommitExternal, Advance, SharedInv, SharedTypeOK
  <1>3. ASSUME NEW y \in Exts, y # x PROVE ExtInv(y)'
    BY <1>1, <1>2, <1>3, OthersKept DEF SharedInv, Everyone
  <1>4. QED
    BY <1>1, <1>3 DEF SharedInv

\* A call the deadlock detector picks waits for a lock.
LEMMA VictimFails ==
    ASSUME SharedInv, NEW x \in Txs, Victim(x)
    PROVE  StatementFails(x) /\ UNCHANGED external
  <1>1. x \notin Exts
    BY SharedAccountsAssumption
  <1>2. PICK y : WaitsFor(x, y)
    BY DEF Victim, WaitingCircle
  <1>3. pc[x] \in {"lockFirst", "lockSecond", "updateFrom", "updateTo"}
    BY <1>2 DEF WaitsFor, WantedRow, Wanted
  <1>4. pc[x] \in Running
    BY <1>3 DEF Running, Statements
  <1>5. QED
    BY <1>1, <1>4 DEF Victim, StatementFails

LEMMA SharedStep == ASSUME SharedInv, [SharedNext]_allVars PROVE SharedInv'
  <1>1. CASE UNCHANGED allVars
    <2>1. UNCHANGED <<CallOwner, CallRow, durable>>
      BY <1>1, QuietProjection DEF allVars, vars
    <2>2. Calls!vars' = Calls!vars
      BY <1>1, <2>1 DEF allVars, vars, Calls!vars
    <2>3. Calls!IInv'
      BY <2>2, Calls!StepIInv, LedgerAssumption DEF SharedInv
    <2>4. QED
      BY <1>1, <2>3 DEF allVars, vars, external, SharedInv, SharedTypeOK, ExtInv, Holds, Paid,
         Source, Total, CreditsFee
  <1>2. ASSUME NEW t \in Txs, CardStep(t) \/ ((Begin(t) \/ StatementFails(t)) /\ UNCHANGED external)
        PROVE  SharedInv'
    BY <1>2, CallStep DEF CardStep
  <1>3. ASSUME NEW x \in Exts, BeginExternal(x) \/ ExternalStep(x) \/ RollbackExternal(x)
        PROVE  SharedInv'
    BY <1>3, ExternalSteps
  <1>4. ASSUME NEW x \in Everyone, Victim(x) PROVE SharedInv'
    <2>1. CASE x \in Txs
      BY <1>4, <2>1, VictimFails, CallStep
    <2>2. CASE x \in Exts
      <3>1. x \notin Txs
        BY <2>2, SharedAccountsAssumption
      <3>2. QED
        BY <1>4, <2>2, <3>1, ExternalSteps DEF Victim
    <2>3. QED
      BY <1>4, <2>1, <2>2 DEF Everyone
  <1>5. QED
    BY <1>1, <1>2, <1>3, <1>4 DEF SharedNext

\* What the invariant says holds whatever calls and external transfers race.
THEOREM SharedInvariance == SharedSpec => []SharedInv
  BY InitShared, SharedStep, PTL DEF SharedSpec

-----------------------------------------------------------------------------
(* Refinement: what becomes durable. *)

LEMMA OnlyCommitsAreDurable ==
    ASSUME SharedInv, SharedNext, \A t \in Txs : ~Commit(t), \A x \in Exts : ~CommitExternal(x)
    PROVE  durable' = durable
  <1>1. ASSUME NEW t \in Txs, CardStep(t) \/ Begin(t) \/ StatementFails(t)
        PROVE  durable' = durable
    BY <1>1
    DEF CardStep, Begin, Step, StatementFails, AppendPending, AppendPaymentState, LockFirst,
        LockSecond, LockAccount, AccountNotFound, InsufficientBalance, DebitEntry, CreditEntry,
        CreateLedgerEntry, UpdateFrom, UpdateTo, UpdateAccountBalance, AppendSuccess,
        AppendFailed, Rollback
  <1>2. ASSUME NEW x \in Exts, BeginExternal(x) \/ ExternalStep(x) \/ RollbackExternal(x)
        PROVE  durable' = durable
    BY <1>2 DEF BeginExternal, ExternalStep, SelectSource, Refuse, DebitSource, CreditFee,
       RollbackExternal
  <1>3. ASSUME NEW x \in Everyone, Victim(x)
        PROVE  durable' = durable
    BY <1>3 DEF Victim, RollbackExternal
  <1>4. QED
    BY <1>1, <1>2, <1>3 DEF SharedNext

\* A call's commit is a whole transfer, external transfers or not.
LEMMA CommitMoves ==
    ASSUME SharedInv, NEW t \in Txs, Commit(t)
    PROVE  \E from, to \in Accounts, amount \in Amounts :
              /\ from # to
              /\ durable[from].balance >= amount
              /\ \A a \in Accounts : durable'[a].balance =
                    CASE a = from -> durable[a].balance - amount
                      [] a = to   -> durable[a].balance + amount
                      [] OTHER    -> durable[a].balance
  <1>1. SharedTypeOK /\ Calls!IInv
    BY DEF SharedInv
  <1>2. Calls!Commit(t)
    <2>1. pc[t] = "commit"
      BY DEF Commit, Goto
    <2>2. QED
      BY <1>1, <2>1, EndProjection DEF Calls!Rollback, Calls!Goto
  <1>3. PICK f, a : Calls!Transferred(f, a, req[t].amount)
    BY <1>1, <1>2, Calls!CommitEffect, LedgerAssumption
  <1> DEFINE n == req[t].amount
  <1>4. f \in Accounts /\ a \in Accounts /\ n \in Amounts /\ f # a /\ durable[f].balance >= n
    BY <1>3 DEF Calls!Transferred
  <1>5. \A b \in Accounts : durable'[b].balance =
              CASE b = f -> durable[b].balance - n
                [] b = a -> durable[b].balance + n
                [] OTHER -> durable[b].balance
    <2>1. durable \in [Accounts -> RowVersion]
      BY <1>1 DEF Calls!IInv, Calls!TypeOK, Calls!RowVersion, RowVersion
    <2>2. QED
      BY <1>3, <1>4, <2>1 DEF Calls!Transferred
  <1> HIDE DEF n
  <1>6. QED
    BY <1>4, <1>5

\* An external transfer's commit is a withdrawal its source covers: the fee goes
\* to the fee account, or, if that is not there, to nobody.
LEMMA CommitWithdraws ==
    ASSUME SharedInv, NEW x \in Exts, CommitExternal(x)
    PROVE  /\ Source(x) \in Accounts /\ durable[Source(x)].balance >= Total(x)
           /\ \A a \in Accounts : durable'[a].balance =
                 durable[a].balance
                    - (IF a = Source(x) THEN Total(x) ELSE 0)
                    + (IF a \in {b \in {feeRow} : CreditsFee(x)} THEN transfer[x].fee ELSE 0)
           /\ CreditsFee(x) => feeRow \in Accounts
  <1>1. /\ step[x] = "commit"
        /\ durable' = [a \in Accounts |-> IF owner[a] = x THEN row[a] ELSE durable[a]]
    BY DEF CommitExternal, Advance
  <1>2. /\ Holds(x) = {Source(x)} \cup {a \in {feeRow} : CreditsFee(x)}
        /\ \A a \in Holds(x) : row[a] = Paid(x, a)
        /\ durable[Source(x)].balance >= Total(x)
    BY <1>1 DEF SharedInv, ExtInv
  <1>3. Source(x) \in Accounts /\ (CreditsFee(x) => feeRow \in Accounts)
    BY <1>2 DEF Holds
  <1>4. ASSUME NEW a \in Accounts
        PROVE  durable'[a].balance =
                 durable[a].balance
                    - (IF a = Source(x) THEN Total(x) ELSE 0)
                    + (IF a \in {b \in {feeRow} : CreditsFee(x)} THEN transfer[x].fee ELSE 0)
    <2>1. CASE owner[a] = x
      <3>1. durable'[a] = Paid(x, a)
        BY <1>1, <1>2, <2>1 DEF Holds
      <3>2. QED
        BY <3>1 DEF Paid
    <2>2. CASE owner[a] # x
      <3>1. durable'[a] = durable[a] /\ durable[a].balance \in Int
        BY <1>1, <2>2, ExtTypes DEF RowVersion
      <3>2. a # Source(x) /\ a \notin {b \in {feeRow} : CreditsFee(x)}
        BY <1>2, <2>2 DEF Holds
      <3>3. QED
        BY <3>1, <3>2
    <2>3. QED
      BY <2>1, <2>2
  <1>5. QED
    BY <1>2, <1>3, <1>4

\* Card payments and external transfers that race on one table leave it as one
\* payment after the other would, each covered by its account, although an
\* external transfer does not count versions and the fee goes around the ledger.
THEOREM PaymentsStayWhole == SharedSpec => ImplementsAtomicAccounts
  <1> DEFINE bal == [a \in Accounts |-> durable[a].balance]
  <1>1. SharedInit => AtomicTable!Init
    BY LedgerAssumption DEF SharedInit, Init, AtomicTable!Init, AtomicTable!Ledger!Init
  <1>2. ASSUME SharedInv, [SharedNext]_allVars PROVE [AtomicTable!Next]_bal
    <2>0. \A a \in Accounts : durable[a].balance \in Int
      <3>1. durable \in [Accounts -> RowVersion]
        BY <1>2 DEF SharedInv, Calls!IInv, Calls!TypeOK, Calls!RowVersion, RowVersion
      <3>2. QED
        BY <3>1 DEF RowVersion
    <2>1. CASE UNCHANGED allVars
      BY <2>1 DEF allVars, vars
    <2>2. ASSUME NEW t \in Txs, Commit(t) PROVE AtomicTable!Next
      <3>1. PICK from \in Accounts, to \in Accounts, amount \in Amounts :
              /\ from # to
              /\ durable[from].balance >= amount
              /\ \A a \in Accounts : durable'[a].balance =
                    CASE a = from -> durable[a].balance - amount
                      [] a = to   -> durable[a].balance + amount
                      [] OTHER    -> durable[a].balance
        BY <1>2, <2>2, CommitMoves
      <3>2. bal' = [bal EXCEPT ![from] = @ - amount, ![to] = @ + amount]
        BY <3>1
      <3>3. bal[from] >= amount
        BY <3>1
      <3>4. AtomicTable!Ledger!Move(from, to, amount)
        BY <3>1, <3>2, <3>3 DEF AtomicTable!Ledger!Move
      <3>5. QED
        BY <3>4 DEF AtomicTable!Next, AtomicTable!Ledger!Next
    <2>3. ASSUME NEW x \in Exts, CommitExternal(x) PROVE AtomicTable!Next
      <3> DEFINE fees == {b \in {feeRow} : CreditsFee(x)}
                 w == [amount |-> transfer[x].amount, fee |-> transfer[x].fee]
      <3>1. /\ Source(x) \in Accounts /\ durable[Source(x)].balance >= Total(x)
            /\ \A a \in Accounts : durable'[a].balance =
                 durable[a].balance - (IF a = Source(x) THEN Total(x) ELSE 0)
                                    + (IF a \in fees THEN transfer[x].fee ELSE 0)
            /\ CreditsFee(x) => feeRow \in Accounts
        BY <1>2, <2>3, CommitWithdraws
      <3>2. fees \in {{}} \cup {{a} : a \in Accounts}
        BY <3>1
      <3>3. w \in {[amount |-> r.amount, fee |-> r.fee] : r \in ExtRequests}
        BY <1>2 DEF SharedInv, SharedTypeOK
      <3>4. w.amount + w.fee = Total(x) /\ w.fee = transfer[x].fee
        BY DEF Total
      <3>5. /\ bal[Source(x)] >= Total(x)
            /\ bal' = [a \in Accounts |-> bal[a] - (IF a = Source(x) THEN Total(x) ELSE 0)
                                                 + (IF a \in fees THEN transfer[x].fee ELSE 0)]
        BY <3>1
      <3>6. Source(x) \in Accounts
        BY <3>1
      <3> HIDE DEF fees, w, bal
      <3>7. /\ bal[Source(x)] >= w.amount + w.fee
            /\ bal' = [a \in Accounts |->
                          bal[a] - (IF a = Source(x) THEN w.amount + w.fee ELSE 0)
                                 + (IF a \in fees THEN w.fee ELSE 0)]
        BY <3>4, <3>5
      <3>8. \E from \in Accounts, v \in {[amount |-> r.amount, fee |-> r.fee] : r \in ExtRequests} :
              \E to \in {{}} \cup {{a} : a \in Accounts} :
                /\ bal[from] >= v.amount + v.fee
                /\ bal' = [a \in Accounts |->
                              bal[a] - (IF a = from THEN v.amount + v.fee ELSE 0)
                                     + (IF a \in to THEN v.fee ELSE 0)]
        BY <3>2, <3>3, <3>6, <3>7, Zenon
      <3>9. QED
        BY <3>8 DEF bal, AtomicTable!Next, AtomicTable!Withdraw
    <2>4. CASE SharedNext /\ (\A t \in Txs : ~Commit(t)) /\ (\A x \in Exts : ~CommitExternal(x))
      BY <1>2, <2>4, OnlyCommitsAreDurable
    <2>5. QED
      BY <1>2, <2>1, <2>2, <2>3, <2>4
  <1>3. QED
    BY <1>1, <1>2, SharedInvariance, PTL
    DEF SharedSpec, ImplementsAtomicAccounts, AtomicTable!Spec

-----------------------------------------------------------------------------
(* Deadlock. *)

\* Nobody waits for a row that is not there.
LEMMA WantedIsRow ==
    ASSUME SharedInv, NEW x \in Everyone, NEW y, WaitsFor(x, y)
    PROVE  WantedRow(x) \in Accounts /\ owner[WantedRow(x)] = y /\ x # y
  <1>1. CASE x \in Txs
    <2>1. /\ FirstLock(x) \in Idents /\ SecondLock(x) \in Idents
          /\ FromAccount(x) \in Calls!LockedRow /\ ToAccount(x) \in Calls!LockedRow
      BY <1>1, SameLocals, Calls!LocalTypes, LedgerAssumption DEF SharedInv, Calls!IInv
    <2>2. QED
      BY <1>1, <2>1, LedgerAssumption DEF WaitsFor, WantedRow, Wanted, Calls!LockedRow
  <1>2. CASE x \in Exts
    <2>1. x \notin Txs
      BY <1>2, SharedAccountsAssumption
    <2>2. Source(x) \in Accounts \cup {NoAccount} /\ feeRow \in Accounts \cup {NoAccount}
      BY <1>2, ExtTypes DEF SharedInv, SharedTypeOK
    <2>3. QED
      BY <2>1, <2>2 DEF WaitsFor, WantedRow
  <1>3. QED
    BY <1>1, <1>2 DEF Everyone

\* An external transfer that waits and is waited for has its source and wants
\* the fee account.
LEMMA ExtOfCircle ==
    ASSUME SharedInv, NEW x \in Exts, NEW u \in Everyone, NEW y,
           WaitsFor(u, x), WaitsFor(x, y)
    PROVE  /\ step[x] = "fee" /\ feeRow \in Accounts
           /\ owner[feeRow] = y /\ x # y /\ Source(x) # feeRow
  <1>1. x \notin Txs /\ x \in Everyone
    BY SharedAccountsAssumption DEF Everyone
  <1>2. WantedRow(u) \in Holds(x)
    BY WantedIsRow DEF Holds
  <1>3. step[x] \in {"debit", "fee", "commit"}
    BY <1>2 DEF SharedInv, ExtInv
  <1>4. step[x] = "fee" /\ WantedRow(x) = feeRow
    BY <1>1, <1>3 DEF WaitsFor, WantedRow
  <1>5. feeRow \in Accounts /\ owner[feeRow] = y /\ x # y
    BY <1>1, <1>4, WantedIsRow
  <1>6. Holds(x) = {Source(x)}
    BY <1>4 DEF SharedInv, ExtInv
  <1>7. QED
    BY <1>4, <1>5, <1>6 DEF Holds

\* A call that waits has locked no row but those it names.
LEMMA WaitingNames ==
    ASSUME SharedInv, NEW t \in Txs, NEW y, WaitsFor(t, y),
           NEW a \in Accounts, owner[a] = t
    PROVE  a \in RowsNamed(t)
  <1>1. Calls!IInv /\ SharedTypeOK /\ t # NoTx
    BY LedgerAssumption DEF SharedInv
  <1>2. CallOwner[a] = t
    BY <1>1, HeldByCall
  <1>3. pc[t] \in {"lockFirst", "lockSecond", "updateFrom", "updateTo"}
    BY DEF WaitsFor, WantedRow, Wanted
  <1>4. pc[t] \in Calls!FirstHeld
    BY <1>1, <1>2, <1>3 DEF Calls!IInv, Calls!LockInv, Calls!FirstHeld
  <1>5. CASE pc[t] = "lockSecond"
    <2>1. a = Resolve[FirstLock(t)]
      BY <1>1, <1>2, <1>4, <1>5, SameLocals
      DEF Calls!IInv, Calls!CallInv, Calls!OwnInv, Calls!SnapshotInv, Calls!IsLocked
    <2>2. FirstLock(t) \in Named(t)
      BY DEF FirstLock, LockOrder, Named
    <2>3. QED
      BY <2>1, <2>2 DEF RowsNamed
  <1>6. CASE pc[t] # "lockSecond"
    <2>1. pc[t] \in Calls!BothHeld
      BY <1>4, <1>6 DEF Calls!BothHeld
    <2>2. a \in {Resolve[req[t].from], Resolve[req[t].to]}
      BY <1>1, <1>2, <2>1, Calls!BothLocked, LedgerAssumption DEF Calls!IsLocked
    <2>3. QED
      BY <2>2 DEF RowsNamed, Named
  <1>7. QED
    BY <1>5, <1>6

LEMMA CircleOfBoth == ASSUME SharedInv PROVE CircleNeedsNamesOrFee
  <1>1. SUFFICES ASSUME NEW S \in SUBSET Everyone, WaitingCircle(S)
                 PROVE  \/ \E t, u \in S \cap Txs : \E i \in Named(t), j \in Named(u) :
                              i # j /\ Resolve[i] = Resolve[j]
                        \/ \E x \in S \cap Exts, t \in S \cap Txs :
                              /\ step[x] = "fee" /\ Source(x) # feeRow
                              /\ owner[feeRow] = t /\ feeRow \in RowsNamed(t)
    BY DEF CircleNeedsNamesOrFee
  <1>2. CASE S \cap Exts = {}
    <2>1. S \in SUBSET Txs
      BY <1>2 DEF Everyone
    <2>2. ASSUME NEW u \in S, NEW v \in S, WaitsFor(u, v) PROVE Calls!Waits(u, v)
      <3>1. WantedRow(u) \in Accounts /\ owner[WantedRow(u)] = v /\ u # v
        BY <2>2, WantedIsRow
      <3>2. WantedRow(u) = Calls!Wanted(u)
        BY <2>1, SameLocals DEF WantedRow
      <3>3. CallOwner[WantedRow(u)] = v
        BY <2>1, <3>1, HeldByCall DEF SharedInv
      <3>4. QED
        BY <3>1, <3>2, <3>3, LedgerAssumption DEF Calls!Waits
    <2>3. Calls!Circle(S)
      BY <1>1, <2>2 DEF WaitingCircle, Calls!Circle
    <2>4. Calls!DeadlockNeedsTwoNames
      BY Calls!CircleNeedsTwoNames, LedgerAssumption DEF SharedInv
    <2>5. PICK t \in S, u \in S : \E i \in Calls!Named(t), j \in Calls!Named(u) :
              i # j /\ Resolve[i] = Resolve[j]
      BY <2>1, <2>3, <2>4 DEF Calls!DeadlockNeedsTwoNames
    <2>6. QED
      BY <2>1, <2>5 DEF Named, Calls!Named
  <1>3. CASE S \cap Exts # {}
    <2>1. PICK x \in S : x \in Exts
      BY <1>3
    <2>2. PICK u \in S, y \in S : WaitsFor(u, x) /\ WaitsFor(x, y)
      BY <1>1 DEF WaitingCircle
    <2>3. PICK z \in S : WaitsFor(y, z)
      BY <1>1 DEF WaitingCircle
    <2>4. /\ step[x] = "fee" /\ feeRow \in Accounts
          /\ owner[feeRow] = y /\ Source(x) # feeRow
      BY <2>1, <2>2, ExtOfCircle
    <2>5. y \in Txs
      <3>1. SUFFICES ASSUME y \in Exts PROVE FALSE
        BY DEF Everyone
      <3>2. owner[feeRow] = z /\ y # z
        BY <2>2, <2>3, <3>1, <2>1, ExtOfCircle DEF Everyone
      <3>3. QED
        BY <2>4, <3>2
    <2>6. feeRow \in RowsNamed(y)
      BY <2>3, <2>4, <2>5, WaitingNames
    <2>7. QED
      BY <2>1, <2>4, <2>5, <2>6
  <1>4. QED
    BY <1>2, <1>3

\* What is left of the lock order (ledger_service.go:52-56) when external
\* transfers lock rows of their own: a circle of waiting payments, of any length,
\* needs a row with two names, or an external transfer on its way to the fee
\* account (transaction_service.go:1534) and a call that has locked it.
THEOREM SharedDeadlock == SharedSpec => []CircleNeedsNamesOrFee
  BY SharedInvariance, CircleOfBoth, PTL

-----------------------------------------------------------------------------
(* Sums. *)

\* The sums and finite sets LedgerProofs has lemmas about are those used here.
LEMMA SameFinite == ASSUME NEW S PROVE Calls!IsFiniteSet(S) <=> IsFiniteSet(S)
  BY DEF IsFiniteSet, Calls!IsFiniteSet

LEMMA SameSum == ASSUME NEW f PROVE Calls!SumFunction(f) = SumFunction(f)
  BY DEF SumFunction, SumFunctionOnSet, FoldFunctionOnSet, MapThenFoldSet,
         Calls!SumFunction, Calls!SumFunctionOnSet, Calls!FoldFunctionOnSet,
         Calls!MapThenFoldSet

\* The committed balances, and what transfers have taken out of the table.
Committed == [a \in Accounts |-> durable[a].balance]
Gone == [x \in Exts |-> Left(x)]

LEMMA SumTypes ==
    ASSUME SharedInv
    PROVE  /\ Calls!IsFiniteSet(Accounts) /\ Calls!IsFiniteSet(Exts)
           /\ Committed \in [Accounts -> Int] /\ Gone \in [Exts -> Int]
           /\ SumFunction(Committed) \in Int /\ SumFunction(Gone) \in Int
  <1>1. Calls!IsFiniteSet(Accounts) /\ Calls!IsFiniteSet(Exts)
    BY SameFinite, SharedAccountsAssumption
  <1>2. durable \in [Accounts -> RowVersion]
    BY DEF SharedInv, Calls!IInv, Calls!TypeOK, Calls!RowVersion, RowVersion
  <1>3. Committed \in [Accounts -> Int]
    BY <1>2 DEF Committed, RowVersion
  <1>4. Gone \in [Exts -> Int]
    BY ExtTypes DEF Gone, Left
  <1>5. QED
    BY <1>1, <1>3, <1>4, SameSum, Calls!SumIsInt, LedgerAssumption

\* At the start nothing has left.
LEMMA BooksAtStart == ASSUME SharedInit PROVE BooksBalance
  <1>1. Committed = InitBalance
    BY LedgerAssumption DEF SharedInit, Init, Committed
  <1>2. DOMAIN Gone = Exts /\ \A x \in Exts : Gone[x] = 0
    BY DEF SharedInit, Gone, Left
  <1>3. SumFunction(Gone) = 0
    BY <1>2, SameSum, SameFinite, SharedAccountsAssumption, Calls!SumOfZeros, LedgerAssumption
  <1>4. SumFunction(Committed) \in Int
    BY InitShared, SumTypes
  <1>5. QED
    BY <1>1, <1>3, <1>4 DEF BooksBalance, Committed, Gone

\* A call moves money from one account to another.
LEMMA BooksAfterCall ==
    ASSUME SharedInv, BooksBalance, NEW t \in Txs, Commit(t), Gone' = Gone
    PROVE  BooksBalance'
  <1>1. PICK f \in Accounts, b \in Accounts, n \in Amounts :
              /\ f # b
              /\ \A a \in Accounts : durable'[a].balance =
                    CASE a = f -> durable[a].balance - n
                      [] a = b -> durable[a].balance + n
                      [] OTHER -> durable[a].balance
    BY CommitMoves
  <1>2. n \in Int
    BY LedgerAssumption
  <1>3. /\ Committed' \in [Accounts -> Int]
        /\ Committed'[f] = Committed[f] - n /\ Committed'[b] = Committed[b] + n
        /\ \A a \in Accounts \ {f, b} : Committed'[a] = Committed[a]
    BY <1>1, <1>2, SumTypes DEF Committed
  <1>4. SumFunction(Committed') = SumFunction(Committed)
    <2>1. SumFunction(Committed') = SumFunction(Committed) - Committed[f] - Committed[b]
                                       + Committed'[f] + Committed'[b]
      BY <1>1, <1>3, SumTypes, SameSum, Calls!SumOfTwoChanges, LedgerAssumption
    <2>2. QED
      BY <1>2, <1>3, <2>1, SumTypes
  <1>5. QED
    BY <1>4 DEF BooksBalance, Committed, Gone

\* An external transfer takes out of the table what it has then taken out.
LEMMA BooksAfterTransfer ==
    ASSUME SharedInv, BooksBalance, NEW x \in Exts, CommitExternal(x)
    PROVE  BooksBalance'
  <1> DEFINE s == Source(x)
             fee == transfer[x].fee
             out == IF CreditsFee(x) THEN Total(x) - fee ELSE Total(x)
  <1>1. /\ s \in Accounts /\ (CreditsFee(x) => feeRow \in Accounts)
        /\ \A a \in Accounts : durable'[a].balance =
               durable[a].balance
                  - (IF a = s THEN Total(x) ELSE 0)
                  + (IF a \in {b \in {feeRow} : CreditsFee(x)} THEN fee ELSE 0)
    BY CommitWithdraws
  <1>2. /\ transfer[x].amount \in Int /\ fee \in Nat /\ Total(x) \in Int /\ out \in Int
        /\ Total(x) = transfer[x].amount + fee
    BY ExtTypes DEF Total
  <1>3. /\ step \in [Exts -> Steps] /\ step[x] = "commit"
        /\ step' = [step EXCEPT ![x] = "committed"] /\ UNCHANGED <<transfer, feeRow>>
    BY DEF CommitExternal, Advance, SharedInv, SharedTypeOK
  <1>4. SumFunction(Gone') = SumFunction(Gone) + out
    <2>1. feeRow = NoAccount => ~CreditsFee(x)
      BY DEF CreditsFee
    <2>2. feeRow # NoAccount /\ ~CreditsFee(x) => fee = 0
      BY <1>2 DEF CreditsFee
    <2>3. CreditsFee(x) => feeRow # NoAccount
      BY DEF CreditsFee
    <2>4. Gone[x] = 0 /\ Gone'[x] = out
      BY <1>2, <1>3, <2>1, <2>2, <2>3 DEF Gone, Left, Total
    <2>5. \A y \in Exts \ {x} : Gone'[y] = Gone[y]
      BY <1>3 DEF Gone, Left, Total
    <2>6. Gone' \in [Exts -> Int]
      <3>1. DOMAIN Gone' = Exts /\ \A y \in Exts : Gone'[y] \in Int
        BY <1>2, <2>4, <2>5, SumTypes
        DEF Gone
      <3>2. QED
        BY <3>1 DEF Gone
    <2>7. QED
      BY <1>2, <2>4, <2>5, <2>6, SumTypes, SameSum, Calls!SumChange, LedgerAssumption
  <1>5. SumFunction(Committed') = SumFunction(Committed) - out
    <2>0. \A a \in Accounts : durable[a].balance \in Int
      BY ExtTypes DEF RowVersion
    <2>1. CASE CreditsFee(x) /\ s # feeRow
      <3>1. /\ Committed' \in [Accounts -> Int] /\ feeRow \in Accounts
            /\ Committed'[s] = Committed[s] - Total(x)
            /\ Committed'[feeRow] = Committed[feeRow] + fee
            /\ \A a \in Accounts \ {s, feeRow} : Committed'[a] = Committed[a]
        BY <1>1, <1>2, <2>0, <2>1 DEF Committed
      <3>2. SumFunction(Committed') = SumFunction(Committed) - Committed[s] - Committed[feeRow]
                                         + Committed'[s] + Committed'[feeRow]
        BY <1>1, <2>1, <3>1, SumTypes, SameSum, Calls!SumOfTwoChanges, LedgerAssumption
      <3>3. QED
        BY <1>1, <1>2, <2>1, <3>1, <3>2, SumTypes
    <2>2. CASE ~(CreditsFee(x) /\ s # feeRow)
      <3>1. /\ Committed' \in [Accounts -> Int]
            /\ Committed'[s] = Committed[s] - out
            /\ \A a \in Accounts \ {s} : Committed'[a] = Committed[a]
        BY <1>1, <1>2, <2>0, <2>2 DEF Committed
      <3>2. SumFunction(Committed') = SumFunction(Committed) - Committed[s] + Committed'[s]
        BY <1>1, <3>1, SumTypes, SameSum, Calls!SumChange, LedgerAssumption
      <3>3. QED
        BY <1>1, <1>2, <3>1, <3>2, SumTypes
    <2>3. QED
      BY <2>1, <2>2
  <1>6. QED
    BY <1>2, <1>4, <1>5, SumTypes DEF BooksBalance, Committed, Gone

\* No other step changes what is committed or has left.
LEMMA OnlyCommitsLeave ==
    ASSUME SharedInv, SharedNext, \A x \in Exts : ~CommitExternal(x)
    PROVE  Gone' = Gone
  <1>1. ASSUME NEW x \in Exts, BeginExternal(x) \/ ExternalStep(x) \/ RollbackExternal(x)
        PROVE  Gone' = Gone
    <2>1. PICK from \in Steps \ {"committed"}, to \in Steps \ {"committed"} : Advance(x, from, to)
      BY <1>1
      DEF BeginExternal, ExternalStep, SelectSource, Refuse, DebitSource, CreditFee,
          RollbackExternal, Steps
    <2>2. step \in [Exts -> Steps]
      BY DEF SharedInv, SharedTypeOK
    <2>3. \A y \in Exts : step'[y] = "committed" <=> step[y] = "committed"
      BY <2>1, <2>2 DEF Advance
    <2>4. QED
      BY <2>1, <2>3 DEF Advance, Gone, Left, Total
  <1>2. CASE UNCHANGED external
    BY <1>2 DEF external, Gone, Left, Total
  <1>3. QED
    BY <1>1, <1>2 DEF SharedNext, CardStep, Victim, Everyone

LEMMA BooksStep == ASSUME SharedInv, BooksBalance, [SharedNext]_allVars PROVE BooksBalance'
  <1>1. CASE UNCHANGED allVars
    BY <1>1 DEF allVars, vars, external, BooksBalance, Left, Total
  <1>2. ASSUME NEW x \in Exts, CommitExternal(x) PROVE BooksBalance'
    BY <1>2, BooksAfterTransfer
  <1>3. CASE SharedNext /\ \A x \in Exts : ~CommitExternal(x)
    <2>1. Gone' = Gone
      BY <1>3, OnlyCommitsLeave
    <2>2. ASSUME NEW t \in Txs, Commit(t) PROVE BooksBalance'
      BY <2>1, <2>2, BooksAfterCall
    <2>3. CASE \A t \in Txs : ~Commit(t)
      <3>1. durable' = durable
        BY <1>3, <2>3, OnlyCommitsAreDurable
      <3>2. QED
        BY <2>1, <3>1 DEF BooksBalance, Gone
    <2>4. QED
      BY <2>2, <2>3
  <1>4. QED
    BY <1>1, <1>2, <1>3

\* Whatever calls and external transfers do to each other's rows, no money is lost
\* or made: what the accounts no longer hold is what committed transfers took out,
\* their fees only if the configured fee account does not exist
\* (transaction_service.go:1532-1543).
THEOREM BooksAlwaysBalance == SharedSpec => []BooksBalance
  <1>1. SharedInit => BooksBalance
    BY BooksAtStart
  <1>2. SharedInv /\ BooksBalance /\ [SharedNext]_allVars => BooksBalance'
    BY BooksStep
  <1>3. QED
    BY <1>1, <1>2, SharedInvariance, PTL DEF SharedSpec
=============================================================================
