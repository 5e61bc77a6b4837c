------------------------------- MODULE Ledger -------------------------------
(***************************************************************************)
(* DoubleLedgerService (internal/services/ledger_service.go): concurrent   *)
(* calls of Transfer, each one a database transaction, at the granularity  *)
(* of their SQL statements.                                                *)
(*                                                                         *)
(* Postgres is modelled by what the service relies on.  `row' holds the    *)
(* newest version of each accounts row, `durable' the last committed one   *)
(* and `owner' the transaction that holds its row lock (SELECT ... FOR     *)
(* UPDATE, or an UPDATE).  Table ledger_entries is `journal': its index is *)
(* the SERIAL id, given at the INSERT and not given back by a rollback, so *)
(* entries of transactions that rolled back stay as dead tuples nobody     *)
(* sees.  payment_states is `states', seen once its transaction commits.   *)
(*                                                                         *)
(* A definition whose name ends in _Something stands before the one it is  *)
(* a mutant of: the same code with one plausible mistake in it.  Nothing   *)
(* uses it; the properties are known to notice it.                         *)
(***************************************************************************)
EXTENDS Integers, Sequences, FiniteSets

CONSTANTS
    Txs,          \* calls of Transfer, each with its own transaction id
    NoTx,         \* "no transaction"
    Accounts,     \* rows of table accounts, by primary key
    NoAccount,    \* "no row"
    Idents,       \* identifier strings callers pass: card, account or row ids
    Resolve,      \* the row an identifier finds, or NoAccount
    Rank,         \* the order Go's > gives the identifier strings
    InitBalance,  \* balances at the start
    Amounts       \* amounts callers pass (both callers have refused <= 0)

ASSUME LedgerAssumption ==
    /\ NoTx \notin Txs
    /\ NoAccount \notin Accounts
    /\ Resolve \in [Idents -> Accounts \cup {NoAccount}]
    /\ Rank \in [Idents -> Nat]
    /\ \A x, y \in Idents : Rank[x] = Rank[y] => x = y
    /\ InitBalance \in [Accounts -> Nat]
    /\ Amounts \subseteq Nat \ {0}

VARIABLES
    pc,        \* the next statement of each call
    req,       \* its arguments
    locked,    \* what lockAccount returned to it, in locking order
    row,       \* newest version of each accounts row
    durable,   \* committed version of each accounts row
    owner,     \* holder of each row lock
    journal,   \* ledger_entries in id order, dead tuples included
    states     \* payment_states rows inserted by each call's transaction

vars == <<pc, req, locked, row, durable, owner, journal, states>>

Requests == [from : Idents, to : Idents, amount : Amounts]

\* The statements of Transfer and TransferTx, in program order.
Statements == <<"appendPending", "lockFirst", "lockSecond", "debitEntry",
                "creditEntry", "updateFrom", "updateTo", "appendSuccess",
                "commit">>
Running == {Statements[i] : i \in DOMAIN Statements}
PCs == Running \cup {"idle", "appendFailed", "rollback", "committed",
                     "rolledBack"}

Unread == [id |-> NoAccount, balance |-> 0, version |-> 0]

-----------------------------------------------------------------------------
(* Local values of a call. *)

\* The two identifiers in the order their rows are locked: by string, and
\* (a mutant) as the caller gave them.
LockOrder_AsGiven(t) == <<req[t].from, req[t].to>>

LockOrder(t) == IF Rank[req[t].from] > Rank[req[t].to]
                THEN <<req[t].to, req[t].from>>
                ELSE <<req[t].from, req[t].to>>
FirstLock(t) == LockOrder(t)[1]
SecondLock(t) == LockOrder(t)[2]

\* The locked rows, put back into sender and receiver.
FromAccount(t) == IF FirstLock(t) # req[t].from THEN locked[t].second
                                                ELSE locked[t].first
ToAccount(t) == IF FirstLock(t) # req[t].from THEN locked[t].first
                                              ELSE locked[t].second

\* The row a call's next statement has to lock or already holds.
Wanted(t) == CASE pc[t] = "lockFirst"  -> Resolve[FirstLock(t)]
               [] pc[t] = "lockSecond" -> Resolve[SecondLock(t)]
               [] pc[t] = "updateFrom" -> FromAccount(t).id
               [] pc[t] = "updateTo"   -> ToAccount(t).id
               [] OTHER                -> NoAccount

\* A call waits for another one that holds the lock of its wanted row.
Waits(t, u) == /\ Wanted(t) # NoAccount
               /\ owner[Wanted(t)] = u
               /\ u # t

\* The calls of S wait for each other in circles of the wait-for graph.
Circle(S) ==
    /\ S # {}
    /\ \A u \in S : \E v \in S : Waits(u, v)
    /\ \A v \in S : \E u \in S : Waits(u, v)

Deadlocked(t) == \E S \in SUBSET Txs : t \in S /\ Circle(S)

-----------------------------------------------------------------------------
Init ==
    /\ pc = [t \in Txs |-> "idle"]
    /\ req \in [Txs -> Requests]
    /\ locked = [t \in Txs |-> [first |-> Unread, second |-> Unread]]
    /\ durable = [a \in Accounts |-> [balance |-> InitBalance[a], version |-> 1]]
    /\ row = durable
    /\ owner = [a \in Accounts |-> NoTx]
    /\ journal = <<>>
    /\ states = [t \in Txs |-> <<>>]

Goto(t, from, to) == pc[t] = from /\ pc' = [pc EXCEPT ![t] = to]

Begin(t) ==
    /\ Goto(t, "idle", "appendPending")
    /\ UNCHANGED <<req, locked, row, durable, owner, journal, states>>

AppendPaymentState(t, state) ==
    /\ states' = [states EXCEPT ![t] = Append(@, state)]
    /\ UNCHANGED <<req, locked, row, durable, owner, journal>>

AppendPending(t) ==
    /\ Goto(t, "appendPending", "lockFirst")
    /\ AppendPaymentState(t, "PENDING")

\* lockAccount: SELECT ... FOR UPDATE waits for the row's lock and takes it ...
LockAccount_NoForUpdate(t, ident) ==
    /\ Resolve[ident] # NoAccount
    /\ UNCHANGED <<req, row, durable, owner, journal, states>>

LockAccount(t, ident) ==
    /\ Resolve[ident] # NoAccount
    /\ owner[Resolve[ident]] \in {NoTx, t}
    /\ owner' = [owner EXCEPT ![Resolve[ident]] = t]
    /\ UNCHANGED <<req, row, durable, journal, states>>

\* ... and returns the newest version of the row.
Read(a) == [id |-> a, balance |-> row[a].balance, version |-> row[a].version]

LockFirst(t) ==
    /\ Goto(t, "lockFirst", "lockSecond")
    /\ LockAccount(t, FirstLock(t))
    /\ locked' = [locked EXCEPT ![t].first = Read(Resolve[FirstLock(t)])]

LockSecond(t) ==
    /\ Goto(t, "lockSecond", "debitEntry")
    /\ LockAccount(t, SecondLock(t))
    /\ locked' = [locked EXCEPT ![t].second = Read(Resolve[SecondLock(t)])]

\* lockAccount finds no row: sql.ErrNoRows.
AccountNotFound(t) ==
    /\ pc[t] \in {"lockFirst", "lockSecond"}
    /\ Wanted(t) = NoAccount
    /\ pc' = [pc EXCEPT ![t] = "appendFailed"]
    /\ UNCHANGED <<req, locked, row, durable, owner, journal, states>>

InsufficientBalance(t) ==
    /\ Goto(t, "debitEntry", "appendFailed")
    /\ FromAccount(t).balance < req[t].amount
    /\ UNCHANGED <<req, locked, row, durable, owner, journal, states>>

CreateLedgerEntry(t, account, amount, type, balance) ==
    /\ journal' = Append(journal, [tx |-> t, account |-> account,
                                   amount |-> amount, type |-> type,
                                   balance |-> balance])
    /\ UNCHANGED <<req, locked, row, durable, owner, states>>

DebitEntry_OldBalance(t) ==
    /\ Goto(t, "debitEntry", "creditEntry")
    /\ FromAccount(t).balance >= req[t].amount
    /\ CreateLedgerEntry(t, FromAccount(t).id, -req[t].amount, "DEBIT",
                         FromAccount(t).balance)

DebitEntry(t) ==
    /\ Goto(t, "debitEntry", "creditEntry")
    /\ FromAccount(t).balance >= req[t].amount
    /\ CreateLedgerEntry(t, FromAccount(t).id, -req[t].amount, "DEBIT",
                         FromAccount(t).balance - req[t].amount)

CreditEntry_OnSender(t) ==
    /\ Goto(t, "creditEntry", "updateFrom")
    /\ CreateLedgerEntry(t, FromAccount(t).id, req[t].amount, "CREDIT",
                         FromAccount(t).balance + req[t].amount)

CreditEntry(t) ==
    /\ Goto(t, "creditEntry", "updateFrom")
    /\ CreateLedgerEntry(t, ToAccount(t).id, req[t].amount, "CREDIT",
                         ToAccount(t).balance + req[t].amount)

\* UPDATE ... WHERE id = $3 AND version = $4.  Zero rows affected is the
\* "optimistic lock failed" error.
NewVersion(account, newBalance) ==
    [row EXCEPT ![account.id] = [balance |-> newBalance,
                                 version |-> account.version + 1]]

UpdateAccountBalance_ZeroRowsOK(t, account, newBalance, here, next) ==
    /\ pc[t] = here
    /\ owner[account.id] \in {NoTx, t}
    /\ pc' = [pc EXCEPT ![t] = next]
    /\ \/ /\ row[account.id].version = account.version
          /\ row' = NewVersion(account, newBalance)
          /\ owner' = [owner EXCEPT ![account.id] = t]
       \/ /\ row[account.id].version # account.version
          /\ UNCHANGED <<row, owner>>
    /\ UNCHANGED <<req, locked, durable, journal, states>>

UpdateAccountBalance(t, account, newBalance, here, next) ==
    /\ pc[t] = here
    /\ owner[account.id] \in {NoTx, t}
    /\ \/ /\ row[account.id].version = account.version
          /\ pc' = [pc EXCEPT ![t] = next]
          /\ row' = NewVersion(account, newBalance)
          /\ owner' = [owner EXCEPT ![account.id] = t]
       \/ /\ row[account.id].version # account.version
          /\ pc' = [pc EXCEPT ![t] = "appendFailed"]
          /\ UNCHANGED <<row, owner>>
    /\ UNCHANGED <<req, locked, durable, journal, states>>

UpdateFrom(t) ==
    UpdateAccountBalance(t, FromAccount(t),
                         FromAccount(t).balance - req[t].amount,
                         "updateFrom", "updateTo")

UpdateTo(t) ==
    UpdateAccountBalance(t, ToAccount(t),
                         ToAccount(t).balance + req[t].amount,
                         "updateTo", "appendSuccess")

AppendSuccess(t) ==
    /\ Goto(t, "appendSuccess", "commit")
    /\ AppendPaymentState(t, "SUCCESS")

\* The state FAILED is written inside the transaction that is about to roll
\* back.
AppendFailed(t) ==
    /\ Goto(t, "appendFailed", "rollback")
    /\ AppendPaymentState(t, "FAILED")

Commit(t) ==
    /\ Goto(t, "commit", "committed")
    /\ durable' = [a \in Accounts |-> IF owner[a] = t THEN row[a] ELSE durable[a]]
    /\ owner' = [a \in Accounts |-> IF owner[a] = t THEN NoTx ELSE owner[a]]
    /\ UNCHANGED <<req, locked, row, journal, states>>

\* The deferred tx.Rollback(), and what Postgres does by itself when the
\* connection or the server process is lost.
Rollback_NeverSent(t) ==
    /\ Goto(t, "rollback", "rolledBack")
    /\ UNCHANGED <<req, locked, row, durable, owner, journal, states>>

Rollback(t) ==
    /\ Goto(t, "rollback", "rolledBack")
    /\ row' = [a \in Accounts |-> IF owner[a] = t THEN durable[a] ELSE row[a]]
    /\ owner' = [a \in Accounts |-> IF owner[a] = t THEN NoTx ELSE owner[a]]
    /\ states' = [states EXCEPT ![t] = <<>>]
    /\ UNCHANGED <<req, locked, durable, journal>>

\* Any statement may fail: constraint, missing table, lost connection, crash
\* of the server.  Postgres refuses the later INSERT of FAILED in a
\* transaction a statement has aborted, so nothing but the rollback is left.
StatementFails(t) ==
    /\ pc[t] \in Running
    /\ pc' = [pc EXCEPT ![t] = "rollback"]
    /\ UNCHANGED <<req, locked, row, durable, owner, journal, states>>

\* Postgres's deadlock detector fails the statement of one waiting call.
DeadlockVictim(t) ==
    /\ Deadlocked(t)
    /\ pc' = [pc EXCEPT ![t] = "rollback"]
    /\ UNCHANGED <<req, locked, row, durable, owner, journal, states>>

\* The call's own progress: the statements of Transfer in order.
Step(t) ==
    \/ AppendPending(t) \/ LockFirst(t) \/ LockSecond(t) \/ AccountNotFound(t)
    \/ InsufficientBalance(t) \/ DebitEntry(t) \/ CreditEntry(t)
    \/ UpdateFrom(t) \/ UpdateTo(t) \/ AppendSuccess(t) \/ AppendFailed(t)
    \/ Commit(t) \/ Rollback(t)

Next == \E t \in Txs :
            Begin(t) \/ Step(t) \/ StatementFails(t) \/ DeadlockVictim(t)

Spec == Init /\ [][Next]_vars

\* A running call goes on (goroutine and connection are scheduled), and the
\* deadlock detector runs deadlock_timeout after a wait began.  Nothing says
\* that a statement ever fails, or that a call ever begins.
Fairness == \A t \in Txs : WF_vars(Step(t)) /\ WF_vars(DeadlockVictim(t))

FairSpec == Spec /\ Fairness

-----------------------------------------------------------------------------
(* Properties. *)

RowVersion == [balance : Int, version : Nat]
LockedRow == [id : Accounts \cup {NoAccount}, balance : Int, version : Nat]
Entry == [tx : Txs, account : Accounts, amount : Int,
          type : {"DEBIT", "CREDIT"}, balance : Int]

\* Every variable has its type.
TypeOK ==
    /\ pc \in [Txs -> PCs]
    /\ req \in [Txs -> Requests]
    /\ locked \in [Txs -> [first : LockedRow, second : LockedRow]]
    /\ row \in [Accounts -> RowVersion]
    /\ durable \in [Accounts -> RowVersion]
    /\ owner \in [Accounts -> Txs \cup {NoTx}]
    /\ journal \in Seq(Entry)
    /\ states \in [Txs -> Seq({"PENDING", "SUCCESS", "FAILED"})]

\* No committed balance is ever negative, whatever transfers race: the balance
\* TransferTx compares with the amount is still the balance it debits.
NoOverdraft == \A a \in Accounts : durable[a].balance >= 0

Done(t) == pc[t] \in {"committed", "rolledBack"}

\* The ledger_entries rows of account a that other connections can see.
Visible(a) == {i \in DOMAIN journal : /\ journal[i].account = a
                                      /\ pc[journal[i].tx] = "committed"}

\* i comes right after j among the visible entries of a.
Follows(a, i, j) == /\ j < i
                    /\ \A k \in Visible(a) : k <= j \/ k >= i

\* The running balances of account a's visible entries in id order.
Chained(a) ==
    /\ Visible(a) = {} => durable[a].balance = InitBalance[a]
    /\ \A i \in Visible(a) :
        /\ (\A k \in Visible(a) : i <= k) =>
                journal[i].balance = InitBalance[a] + journal[i].amount
        /\ \A j \in Visible(a) : Follows(a, i, j) =>
                journal[i].balance = journal[j].balance + journal[i].amount
        /\ (\A k \in Visible(a) : k <= i) => durable[a].balance = journal[i].balance

\* The account statement, read in id order, is right at every moment: each
\* entry's running balance is the previous one plus its own amount, the first
\* starts from the opening balance, and the last one is the balance of the row.
\* Ids are given at the INSERT, balances become durable at the COMMIT.
StatementChain == \A a \in Accounts : Chained(a)

EntriesOf(t) == {i \in DOMAIN journal : journal[i].tx = t}

\* Double entry: a call that committed left one DEBIT of its amount on the row
\* its sender identifier names, one CREDIT of the same amount on the different
\* row its receiver identifier names, and the payment states PENDING, SUCCESS;
\* a call that rolled back left no payment state.
DoubleEntry ==
    \A t \in Txs :
        /\ pc[t] = "rolledBack" => states[t] = <<>>
        /\ pc[t] = "committed" =>
            /\ states[t] = <<"PENDING", "SUCCESS">>
            /\ \E i, j \in EntriesOf(t) :
                /\ EntriesOf(t) = {i, j}
                /\ journal[i].account = Resolve[req[t].from]
                /\ journal[i].amount = -req[t].amount
                /\ journal[i].type = "DEBIT"
                /\ journal[j].account = Resolve[req[t].to]
                /\ journal[j].amount = req[t].amount
                /\ journal[j].type = "CREDIT"
                /\ journal[i].account # journal[j].account

\* The comment at ledger_service.go:52 ("Lock accounts in consistent order to
\* prevent deadlocks") is half of it: calls wait for each other in a circle only
\* if two of them, or one of them, name one row by two different identifiers.
Named(t) == {req[t].from, req[t].to}

DeadlockNeedsTwoNames ==
    \A S \in SUBSET Txs : Circle(S) =>
        \E t, u \in S : \E x \in Named(t), y \in Named(u) :
            x # y /\ Resolve[x] = Resolve[y]

\* Every call that began comes to its end: committed or rolled back, no lock
\* held for ever, whoever it had to wait for.
EveryCallEnds == \A t \in Txs : (pc[t] # "idle") ~> Done(t)

\* The service implements AtomicLedger: what is committed changes by whole
\* transfers between different accounts, each covered by the sender's balance.
Atomic == INSTANCE AtomicLedger
              WITH balance <- [a \in Accounts |-> durable[a].balance]

ImplementsAtomicLedger == Atomic!Spec
=============================================================================
