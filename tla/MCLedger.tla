------------------------------ MODULE MCLedger ------------------------------
(***************************************************************************)
(* Instances of Ledger for TLC.  Identifiers are numbers: their own value  *)
(* is their rank in the string order.                                      *)
(***************************************************************************)
EXTENDS LedgerInvariant, TLC

CONSTANTS acc1, acc2

IdentityRank == [i \in Idents |-> i]

\* Two rows, each with its account id and its card id, the string order of the
\* card ids opposite to the one of the account ids; 5 names nothing.
TwoNames == [i \in 1..5 |-> CASE i \in {1, 4} -> acc1
                              [] i \in {2, 3} -> acc2
                              [] OTHER -> NoAccount]

TwoBalances == acc1 :> 2 @@ acc2 :> 1
=============================================================================
