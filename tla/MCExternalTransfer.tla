------------------------- MODULE MCExternalTransfer -------------------------
(***************************************************************************)
(* Instances of ExternalTransfer for TLC.  Requests count in halves and    *)
(* the fee is 50% and 1: alice can pay transfer t1 (3.5, of which the      *)
(* ledger takes 3, + 2) or t2 (4 + 3), not both.                           *)
(***************************************************************************)
EXTENDS ExternalTransferInvariant, TLC

CONSTANTS h1, h2, h3, t1, t2, t3, t4, alice, bob, fees

Transfer(ref, from, amount, owned) ==
    [ref |-> ref, from |-> from, amount |-> amount, owned |-> owned]

\* Two transfers compete for one account, a third comes from a blocked one, a
\* fourth is of somebody else's account.
Competing == {Transfer(t1, alice, 7, TRUE), Transfer(t2, alice, 8, TRUE)}
FourTransfers == Competing \cup {Transfer(t3, bob, 6, TRUE),
                                 Transfer(t4, alice, 6, FALSE)}

Balances == (alice :> 10) @@ (bob :> 6) @@ (fees :> 0)
=============================================================================
