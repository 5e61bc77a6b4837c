--------------------------- MODULE SharedAccounts ---------------------------
(***************************************************************************)
(* The two kinds of payment on one table: card payments, which go through  *)
(* the statements of module Ledger, and ExternalBankTransfer               *)
(* (internal/services/transaction_service.go), which debits the same rows  *)
(* with SQL of its own.  It takes the row lock as the ledger does, but it  *)
(* neither checks nor increments the version, writes no ledger entry, and  *)
(* locks the fee account last, outside the ledger's lock order.            *)
(*                                                                         *)
(* An external transfer is followed from its BEGIN to the end of its       *)
(* transaction; module ExternalTransfer has the rest of the handler.       *)
(***************************************************************************)
EXTENDS Ledger, Functions

CONSTANTS
    Exts,           \* external transfers, each one a database transaction
    ExtRequests,    \* their requests: account named, amount, fee
    FeeRows         \* what SYSTEM_FEE_ACCOUNT may name: a row, or NoAccount

ASSUME SharedAccountsAssumption ==
    /\ IsFiniteSet(Exts) /\ IsFiniteSet(Accounts)
    /\ Exts \cap Txs = {} /\ NoTx \notin Exts
    /\ ExtRequests \subseteq [from : Idents, amount : Nat \ {0}, fee : Nat]
    /\ FeeRows \subseteq Accounts \cup {NoAccount}

VARIABLES
    step,        \* the next statement of each external transfer
    transfer,    \* its request
    feeRow       \* the row the configured fee account names

external == <<step, transfer, feeRow>>
allVars == <<vars, external>>

Everyone == Txs \cup Exts
Total(x) == transfer[x].amount + transfer[x].fee
Source(x) == Resolve[transfer[x].from]

SharedInit ==
    /\ Init
    /\ step = [x \in Exts |-> "idle"]
    /\ transfer \in [Exts -> ExtRequests]
    /\ feeRow \in FeeRows

-----------------------------------------------------------------------------
(* The external transfer. *)

Advance(x, from, to) ==
    /\ step[x] = from
    /\ step' = [step EXCEPT ![x] = to]
    /\ UNCHANGED <<transfer, feeRow, pc, req, locked, journal, states>>

Lock(x, a) ==
    /\ owner[a] \in {NoTx, x}
    /\ owner' = [owner EXCEPT ![a] = x]

Release(x) == owner' = [a \in Accounts |-> IF owner[a] = x THEN NoTx ELSE owner[a]]

BeginExternal(x) ==
    /\ Advance(x, "idle", "select")
    /\ UNCHANGED <<row, durable, owner>>

\* SELECT balance ... FOR UPDATE.
SelectSource(x) ==
    /\ Advance(x, "select", "debit")
    /\ Source(x) # NoAccount
    /\ Lock(x, Source(x))
    /\ UNCHANGED <<row, durable>>

\* No such account, or too little on it: a FAILED_* row is committed, and with
\* it the locks go.
Refuse(x) ==
    /\ \/ Advance(x, "select", "refused") /\ Source(x) = NoAccount
       \/ Advance(x, "debit", "refused") /\ row[Source(x)].balance < Total(x)
    /\ Release(x)
    /\ UNCHANGED <<row, durable>>

\* UPDATE ... SET balance = balance - $1 WHERE balance >= $1.
DebitSource_AmountChecked(x) ==
    /\ Advance(x, "debit", "fee")
    /\ row[Source(x)].balance >= transfer[x].amount
    /\ row' = [row EXCEPT ![Source(x)].balance = @ - Total(x)]
    /\ UNCHANGED <<durable, owner>>

DebitSource(x) ==
    /\ Advance(x, "debit", "fee")
    /\ row[Source(x)].balance >= Total(x)
    /\ row' = [row EXCEPT ![Source(x)].balance = @ - Total(x)]
    /\ UNCHANGED <<durable, owner>>

\* UPDATE of the fee account, if there is a fee.  An account that is not there
\* is no error: the statement changes no row and the fee is nobody's.
CreditsFee(x) == transfer[x].fee > 0 /\ feeRow # NoAccount

CreditFee(x) ==
    /\ Advance(x, "fee", "commit")
    /\ \/ /\ CreditsFee(x)
          /\ Lock(x, feeRow)
          /\ row' = [row EXCEPT ![feeRow].balance = @ + transfer[x].fee]
       \/ ~CreditsFee(x) /\ UNCHANGED <<row, owner>>
    /\ UNCHANGED durable

CommitExternal(x) ==
    /\ Advance(x, "commit", "committed")
    /\ durable' = [a \in Accounts |-> IF owner[a] = x THEN row[a] ELSE durable[a]]
    /\ Release(x)
    /\ UNCHANGED row

\* A statement fails, or the server stops: rolled back.
RollbackExternal(x) ==
    /\ \E s \in {"select", "debit", "fee", "commit"} : Advance(x, s, "rolledBack")
    /\ row' = [a \in Accounts |-> IF owner[a] = x THEN durable[a] ELSE row[a]]
    /\ Release(x)
    /\ UNCHANGED durable

ExternalStep(x) == SelectSource(x) \/ Refuse(x) \/ DebitSource(x) \/ CreditFee(x)
                   \/ CommitExternal(x)

-----------------------------------------------------------------------------
(* Both together. *)

WantedRow(x) ==
    IF x \in Txs THEN Wanted(x)
    ELSE CASE step[x] = "select" -> Source(x)
           [] step[x] = "fee" /\ CreditsFee(x) -> feeRow
           [] OTHER -> NoAccount

WaitsFor(x, y) ==
    /\ WantedRow(x) # NoAccount
    /\ owner[WantedRow(x)] = y
    /\ x # y

\* Payments that wait for each other in circles.
WaitingCircle(S) ==
    /\ S # {}
    /\ \A x \in S : \E y \in S : WaitsFor(x, y)
    /\ \A y \in S : \E x \in S : WaitsFor(x, y)

\* Postgres's deadlock detector fails a statement of one of them.
Victim(x) ==
    /\ \E S \in SUBSET Everyone : x \in S /\ WaitingCircle(S)
    /\ \/ /\ x \in Txs
          /\ pc' = [pc EXCEPT ![x] = "rollback"]
          /\ UNCHANGED <<req, locked, row, durable, owner, journal, states, external>>
       \/ x \in Exts /\ RollbackExternal(x)

CardStep(t) == Step(t) /\ UNCHANGED external

SharedNext ==
    \/ \E t \in Txs : \/ CardStep(t)
                      \/ (Begin(t) \/ StatementFails(t)) /\ UNCHANGED external
    \/ \E x \in Exts : BeginExternal(x) \/ ExternalStep(x) \/ RollbackExternal(x)
    \/ \E x \in Everyone : Victim(x)

SharedSpec == SharedInit /\ [][SharedNext]_allVars

-----------------------------------------------------------------------------
(* Properties. *)

\* The names a card payment gives to rows; an external transfer gives one, and
\* finds the fee account by its account id.
RowsNamed(t) == {Resolve[i] : i \in Named(t)}

\* The comment at ledger_service.go:52, for both kinds of payment: payments wait
\* for each other in a circle only if a row goes by two names among them, or an
\* external transfer of the circle, with its source locked, wants the fee account
\* and a card payment of the circle, to or from the fee account, has locked that.
CircleNeedsNamesOrFee ==
    \A S \in SUBSET Everyone : WaitingCircle(S) =>
        \/ \E t, u \in S \cap Txs : \E i \in Named(t), j \in Named(u) :
              i # j /\ Resolve[i] = Resolve[j]
        \/ \E x \in S \cap Exts, t \in S \cap Txs :
              /\ step[x] = "fee" /\ Source(x) # feeRow
              /\ owner[feeRow] = t /\ feeRow \in RowsNamed(t)

\* Whatever payments of the two kinds do to each other: what has left the
\* accounts is the amounts of the committed transfers, and their fees if the fee
\* account is missing ("Credit fee to system account",
\* transaction_service.go:1532, then credits nobody).
Left(x) == IF step[x] # "committed" THEN 0
           ELSE IF feeRow = NoAccount THEN Total(x) ELSE transfer[x].amount

BooksBalance ==
    SumFunction([a \in Accounts |-> durable[a].balance])
        + SumFunction([x \in Exts |-> Left(x)])
    = SumFunction(InitBalance)

\* Although an external transfer leaves the version the ledger's UPDATEs check
\* as it is, and writes what the ledger does not know of, the two together look
\* like one payment after the other, each covered by its account.
AtomicTable == INSTANCE AtomicAccounts
                   WITH balance <- [a \in Accounts |-> durable[a].balance],
                        Withdrawals <- {[amount |-> r.amount, fee |-> r.fee] :
                                           r \in ExtRequests}

ImplementsAtomicAccounts == AtomicTable!Spec
=============================================================================
