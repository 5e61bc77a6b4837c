--------------------------- MODULE MCOneTimeTokens ---------------------------
(***************************************************************************)
(* Instances of OneTimeTokens for TLC: a QR code, and a BVN with two OTPs. *)
(***************************************************************************)
EXTENDS OneTimeTokensInvariant, TLC

CONSTANTS h1, h2, h3, h4, qr, bvn, payment, otp1, otp2

QRRequests == [op : {"issue", "redeem"}, key : {qr}, secret : {payment}]
AllRequests ==
    QRRequests \cup [op : {"issue", "redeem"}, key : {bvn}, secret : {otp1, otp2}]

\* 5 minutes and 10 minutes.
TwoTTLs == (qr :> 1) @@ (bvn :> 2)

HandlerSymmetry == Permutations(Handlers)
=============================================================================
