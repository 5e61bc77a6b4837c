----------------------------- MODULE MCPayments -----------------------------
(***************************************************************************)
(* Instances of Payments for TLC.  A unit of time is about 150 s: the past *)
(* window is 2 of them, the nonce lives 4, and the 30 s of the future      *)
(* window count as one.                                                    *)
(***************************************************************************)
EXTENDS PaymentsInvariant, TLC

CONSTANTS p1, p2, p3, p4, card, shop

Signed(amount, debit, counter, timestamp, defect) ==
    [from |-> card, to |-> shop, amount |-> amount, debit |-> debit,
     counter |-> counter, timestamp |-> timestamp, defect |-> defect]

\* The card holds enough for both payments once, or for the first one twice.
Balances == card :> 3 @@ shop :> 0

\* p1 is dated ahead of the server's clock and p2 is the card's second payment;
\* p3 is somebody else's card and p4 carries a wrong signature.
FourPayments ==
    p1 :> Signed(1, TRUE, 1, 1, "none") @@ p2 :> Signed(2, FALSE, 2, 0, "none") @@
    p3 :> Signed(1, TRUE, 1, 0, "owner") @@ p4 :> Signed(1, FALSE, 3, 0, "signature")

Create(p) == [endpoint |-> "create", items |-> <<p>>]
Batch(items) == [endpoint |-> "batch", items |-> items]

CreateRequests == {Create(p1), Create(p2), Create(p3)}
BatchRequests == {Batch(<<p1>>), Batch(<<p2, p1>>), Batch(<<p1, p1>>),
                  Batch(<<p4, p1>>)}
AllRequests == {Create(p1)} \cup BatchRequests

HandlerSymmetry == Permutations(Handlers)
=============================================================================
