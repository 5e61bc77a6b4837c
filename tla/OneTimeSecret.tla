---------------------------- MODULE OneTimeSecret ----------------------------
(***************************************************************************)
(* What a QR code or an OTP promises: a secret stands from its issue until *)
(* it is redeemed, replaced by the next one under its key, or lapses, and  *)
(* only a secret that stands is redeemed.  A server that started without   *)
(* its store has no secrets to compare with, and lets those of some keys   *)
(* pass unseen.  Redis, commands and handlers are not visible here.        *)
(* Module OneTimeTokens is shown to implement it.                          *)
(***************************************************************************)
EXTENDS Integers

CONSTANTS Keys, Secrets, None,
    PassUnseen    \* keys whose secrets a server without a store accepts

VARIABLES
    standing,    \* the secret that can be redeemed under each key, or None
    redeemed,    \* how often each secret of each key was redeemed
    hasStore     \* does the running server have its store

Init ==
    /\ standing = [k \in Keys |-> None]
    /\ redeemed = [k \in Keys |-> [s \in Secrets |-> 0]]
    /\ hasStore \in BOOLEAN

Issue(k, s) ==
    /\ hasStore
    /\ standing' = [standing EXCEPT ![k] = s]
    /\ UNCHANGED <<redeemed, hasStore>>

Count(k, s) == redeemed' = [redeemed EXCEPT ![k][s] = @ + 1]

\* A redeemed secret stands no longer, unless it could not be struck out.
Redeem(k, s, struckOut) ==
    /\ hasStore
    /\ standing[k] = s
    /\ Count(k, s)
    /\ standing' = IF struckOut THEN [standing EXCEPT ![k] = None] ELSE standing
    /\ UNCHANGED hasStore

Pass(k, s) ==
    /\ ~hasStore
    /\ k \in PassUnseen
    /\ Count(k, s)
    /\ UNCHANGED <<standing, hasStore>>

Lapse(lapsed) ==
    /\ standing' = [k \in Keys |-> IF k \in lapsed THEN None ELSE standing[k]]
    /\ UNCHANGED <<redeemed, hasStore>>

Restart ==
    /\ hasStore' \in BOOLEAN
    /\ UNCHANGED <<standing, redeemed>>

Next ==
    \/ \E k \in Keys, s \in Secrets :
          \/ Issue(k, s) \/ Pass(k, s)
          \/ \E struckOut \in BOOLEAN : Redeem(k, s, struckOut)
    \/ \E lapsed \in SUBSET Keys : Lapse(lapsed)
    \/ Restart

Spec == Init /\ [][Next]_<<standing, redeemed, hasStore>>
=============================================================================
