--------------------------- MODULE AtomicAccounts ---------------------------
(***************************************************************************)
(* What the table accounts promises to everybody who pays from it: durable *)
(* balances change by whole card payments (module AtomicLedger) and whole  *)
(* transfers to other banks, one at a time, each covered by the balance of *)
(* the account it debits.  Modules SharedAccounts and ExternalTransfer are *)
(* shown to implement it.                                                  *)
(***************************************************************************)
EXTENDS Integers

CONSTANTS Accounts, InitBalance, Amounts,    \* see AtomicLedger
          Withdrawals    \* what transfers to other banks take: amount and fee

VARIABLE balance

Ledger == INSTANCE AtomicLedger

Init == Ledger!Init

\* The effect of a committed ExternalBankTransfer: amount and fee leave the
\* account and the fee arrives at the fee account, if there is one.
Withdraw(from, feeAccounts, w) ==
    LET total == w.amount + w.fee
    IN  /\ balance[from] >= total
        /\ balance' = [a \in Accounts |->
                          balance[a] - (IF a = from THEN total ELSE 0)
                                     + (IF a \in feeAccounts THEN w.fee ELSE 0)]

Next ==
    \/ Ledger!Next
    \/ \E from \in Accounts, w \in Withdrawals :
          \E feeAccounts \in {{}} \cup {{a} : a \in Accounts} :
             Withdraw(from, feeAccounts, w)

Spec == Init /\ [][Next]_balance
=============================================================================
