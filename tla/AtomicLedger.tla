---------------------------- MODULE AtomicLedger ----------------------------
(***************************************************************************)
(* What DoubleLedgerService promises to its callers: the accounts' durable *)
(* balances change only by whole transfers, one at a time, between two     *)
(* different accounts, and never by more than the sender holds.  Nothing   *)
(* of locks, versions, statements or rollbacks is visible here.  Module    *)
(* Ledger is shown to implement it.                                        *)
(***************************************************************************)
EXTENDS Integers

CONSTANTS Accounts,      \* the rows of table accounts
          InitBalance,   \* their balances when the system starts
          Amounts        \* the amounts transfers may carry

VARIABLE balance

Init == balance = InitBalance

\* The effect of a committed transfer (TransferTx as one step).
Move(from, to, amount) ==
    /\ from # to
    /\ balance[from] >= amount
    /\ balance' = [balance EXCEPT ![from] = @ - amount, ![to] = @ + amount]

Next == \E from, to \in Accounts, amount \in Amounts : Move(from, to, amount)

Spec == Init /\ [][Next]_balance
=============================================================================
