----------------------- MODULE OneTimeTokensInvariant -----------------------
(***************************************************************************)
(* The inductive invariant behind the theorems of OneTimeTokensProofs.     *)
(* TLC checks it as an invariant before it is proved.                      *)
(***************************************************************************)
EXTENDS OneTimeTokens

\* A handler answers at its end; it has heard from Redis once it has sent its GET,
\* and one that is to delete a secret has Redis.
ReplyInv ==
    \A h \in Handlers : /\ pc[h] # "ended" => reply[h] = None
                        /\ pc[h] \in {"idle", "set", "get"} => ~heard[h]
                        /\ pc[h] = "del" => client

\* What is stored under a key was issued under it.
SourceInv ==
    \A k \in Keys : store[k] # NoSecret =>
        \E r \in Requests : r.key = k /\ r.secret = store[k].value

\* The following hold while requests about one key do not overlap.

AloneInv ==
    \A g, h \in Handlers : Active(g) /\ Active(h) /\ Key(g) = Key(h) => g = h

\* The store holds the latest secret until it is spent.
StandsInv ==
    \A k \in Keys : store[k] = IF latest[k].spent THEN NoSecret ELSE latest[k].entry

\* A handler that is about to delete a secret has it before it.
HeldInv ==
    \A h \in Handlers : pc[h] = "del" => Live(Key(h)) /\ store[Key(h)].value = Secret(h)

SerialInv == AloneInv /\ StandsInv /\ HeldInv

IInv == TypeOK /\ ReplyInv /\ SourceInv /\ (~Overlap => SerialInv)
=============================================================================
