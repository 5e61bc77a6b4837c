-------------------------- MODULE LedgerInvariant ---------------------------
(***************************************************************************)
(* The inductive invariant behind the theorems of LedgerProofs.  TLC       *)
(* checks it as an invariant before it is proved.                          *)
(***************************************************************************)
EXTENDS Ledger

\* The statements before which a call has locked its first, and its second row.
FirstHeld == {"lockSecond", "debitEntry", "creditEntry", "updateFrom",
              "updateTo", "appendSuccess", "commit"}
BothHeld == FirstHeld \ {"lockSecond"}

\* The statements before which a call has changed no row, one row, both rows.
NoneWritten == {"lockSecond", "debitEntry", "creditEntry", "updateFrom"}
BothWritten == {"appendSuccess", "commit"}

\* The statements after the check of the sender's balance.
Checked == {"creditEntry", "updateFrom", "updateTo", "appendSuccess", "commit"}

\* Only a call that is under way holds a lock, and a row nobody has locked has
\* no uncommitted version.
LockInv ==
    \A a \in Accounts :
        /\ owner[a] # NoTx =>
            pc[owner[a]] \in FirstHeld \cup {"appendFailed", "rollback"}
        /\ owner[a] = NoTx => row[a] = durable[a]

\* What lockAccount returned is the locked row, and stays the committed version
\* of it for as long as the call holds the lock.
IsLocked(t, l, ident) ==
    /\ l.id \in Accounts
    /\ l.id = Resolve[ident]
    /\ owner[l.id] = t
    /\ l.balance = durable[l.id].balance
    /\ l.version = durable[l.id].version

SnapshotInv(t) ==
    /\ pc[t] \in FirstHeld => IsLocked(t, locked[t].first, FirstLock(t))
    /\ pc[t] \in BothHeld => IsLocked(t, locked[t].second, SecondLock(t))

\* A call holds no other row.
OwnInv(t) ==
    \A a \in Accounts : owner[a] = t =>
        /\ pc[t] = "lockSecond" => a = locked[t].first.id
        /\ pc[t] \in BothHeld => a \in {FromAccount(t).id, ToAccount(t).id}

\* A row version after the transfer's UPDATE of it.
Debited(t) == [balance |-> FromAccount(t).balance - req[t].amount,
               version |-> FromAccount(t).version + 1]
Credited(t) == [balance |-> ToAccount(t).balance + req[t].amount,
                version |-> ToAccount(t).version + 1]

\* The newest version of a row a call holds is the committed one until the
\* call's own UPDATEs, which are those of its transfer.
WriteInv(t) ==
    /\ \A a \in Accounts : owner[a] = t =>
        /\ pc[t] \in NoneWritten => row[a] = durable[a]
        /\ pc[t] = "updateTo" /\ a # FromAccount(t).id => row[a] = durable[a]
    /\ pc[t] \in Checked => FromAccount(t).balance >= req[t].amount
    /\ pc[t] = "updateTo" => row[FromAccount(t).id] = Debited(t)
    /\ pc[t] \in BothWritten =>
        /\ FromAccount(t).id # ToAccount(t).id
        /\ row[FromAccount(t).id] = Debited(t)
        /\ row[ToAccount(t).id] = Credited(t)

CallInv(t) == SnapshotInv(t) /\ OwnInv(t) /\ WriteInv(t)

IInv ==
    /\ TypeOK
    /\ NoOverdraft
    /\ LockInv
    /\ \A t \in Txs : CallInv(t)
-----------------------------------------------------------------------------
(* The books: what a call has entered into them. *)

\* Entry i is the debit, or the credit, of call t.
IsDebit(t, i) ==
    /\ journal[i].account = FromAccount(t).id
    /\ journal[i].amount = -req[t].amount /\ journal[i].type = "DEBIT"
    /\ journal[i].balance = FromAccount(t).balance - req[t].amount

IsCredit(t, i) ==
    /\ journal[i].account = ToAccount(t).id
    /\ journal[i].amount = req[t].amount /\ journal[i].type = "CREDIT"
    /\ journal[i].balance = ToAccount(t).balance + req[t].amount

NoneEntered == {"idle", "appendPending", "lockFirst", "lockSecond", "debitEntry"}
BothEntered == {"updateFrom", "updateTo", "appendSuccess", "commit", "committed"}

EntryInv(t) ==
    /\ pc[t] \in NoneEntered => EntriesOf(t) = {}
    /\ pc[t] = "creditEntry" => \E i \in EntriesOf(t) : EntriesOf(t) = {i} /\ IsDebit(t, i)
    /\ pc[t] \in BothEntered =>
          \E i, j \in EntriesOf(t) : EntriesOf(t) = {i, j} /\ IsDebit(t, i) /\ IsCredit(t, j)
    /\ pc[t] = "committed" =>
          /\ FromAccount(t).id = Resolve[req[t].from] /\ ToAccount(t).id = Resolve[req[t].to]
          /\ FromAccount(t).id # ToAccount(t).id

\* The statements after the one that inserted PENDING.
Pending == (FirstHeld \cup {"lockFirst"}) \ {"commit"}

StateInv(t) ==
    /\ pc[t] \in {"idle", "appendPending", "rolledBack"} => states[t] = <<>>
    /\ pc[t] \in Pending => states[t] = <<"PENDING">>
    /\ pc[t] \in {"commit", "committed"} => states[t] = <<"PENDING", "SUCCESS">>

\* What others have committed to an account comes before what the holder of its
\* lock has entered.
OrderInv(t) ==
    pc[t] \in Checked =>
        \A a \in Accounts : \A i \in EntriesOf(t), k \in Visible(a) :
            journal[i].account = a => k < i

BooksInv == /\ IInv /\ StatementChain
            /\ \A t \in Txs : EntryInv(t) /\ StateInv(t) /\ OrderInv(t)
=============================================================================
