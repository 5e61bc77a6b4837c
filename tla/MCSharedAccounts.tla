-------------------------- MODULE MCSharedAccounts --------------------------
(***************************************************************************)
(* Instances of SharedAccounts for TLC.  Identifiers are numbers, as in    *)
(* MCLedger.                                                               *)
(***************************************************************************)
EXTENDS SharedAccounts, TLC

CONSTANTS alice, fees

IdentityRank == [i \in Idents |-> i]

\* 1 and 3 are alice's account id and card id, 2 the fee account; 4 is nothing.
Names == [i \in 1..4 |-> CASE i \in {1, 3} -> alice
                           [] i = 2 -> fees
                           [] OTHER -> NoAccount]

\* Enough on alice's account for one payment and one transfer, or two payments.
Balances == alice :> 3 @@ fees :> 1

Transfers == {[from |-> 1, amount |-> 1, fee |-> 1],
              [from |-> 2, amount |-> 1, fee |-> 0],
              [from |-> 4, amount |-> 1, fee |-> 1]}

\* Card payments from and to names that find nothing are MCLedger's.
MCInit ==
    /\ SharedInit
    /\ \A t \in Txs : 4 \notin Named(t)

MCSpec == MCInit /\ [][SharedNext]_allVars

TxSymmetry == Permutations(Txs)
=============================================================================
