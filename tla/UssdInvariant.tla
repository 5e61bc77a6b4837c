---------------------------- MODULE UssdInvariant ----------------------------
(***************************************************************************)
(* The inductive invariant behind the theorems of UssdProofs.  TLC checks  *)
(* it as an invariant before it is proved.                                 *)
(***************************************************************************)
EXTENDS Ussd

Generating == {"rate", "insert", "increment"}
Validating == {"lock", "consume"}

\* A handler runs the program of its request.
ProgramInv ==
    \A h \in Handlers : /\ pc[h] \in Generating => IsGenerate(h)
                        /\ pc[h] \in Validating => ~IsGenerate(h)

\* Handler h has stored its code, if it ever will.
Inserted(h) == pc[h] \in {"increment", "ended"}

\* Every row is the only one of the handler that inserted it, and expires when
\* that handler said.
RowInv ==
    \A c \in Codes : Exists(c) =>
        /\ Inserted(rows[c].id)
        /\ rows[c].expires = StoredTime(made[rows[c].id] + CodeTimeout)
        /\ \A d \in Codes : rows[d].id = rows[c].id => d = c

\* What a handler has locked is an unused code in its time, and nobody else's.
ConsumeInv ==
    \A h \in Handlers : pc[h] = "consume" =>
        LET c == req[h].code
        IN  /\ Exists(c) /\ ~rows[c].used /\ ~Expired(c)
            /\ \A g \in Handlers : pc[g] = "consume" /\ req[g].code = c => g = h

\* The row a payment came from is used, or gone for ever.
GotInv ==
    \A h \in Handlers : got[h] # Nobody =>
        /\ pc[h] = "ended"
        /\ Inserted(got[h])
        /\ \A c \in Codes : rows[c].id = got[h] => rows[c].used

CodeInv == TypeOK /\ ProgramInv /\ RowInv /\ ConsumeInv /\ GotInv /\ SingleUse

-----------------------------------------------------------------------------
(* The rate limit, while no user has two codes generated at once. *)

\* A user has one code on its way, and the counter is below the limit for it.
AloneInv ==
    \A h \in Handlers : pc[h] \in Generating =>
        /\ \A g \in Handlers : pc[g] \in Generating /\ req[g].user = req[h].user => g = h
        /\ pc[h] # "rate" => Count(req[h].user) < MaxGeneration

\* A code is made and counted at one time, which is not to come.
MadeInv ==
    \A h \in Handlers : /\ made[h] <= now
                        /\ pc[h] = "increment" => made[h] = now
                        /\ h \in counted => pc[h] = "ended" /\ IsGenerate(h)

\* The counter lives as long as any code it has counted is in the window, and
\* is no smaller than their number.
WindowInv ==
    \A u \in Users :
        /\ \A h \in counted : req[h].user = u => made[h] + Window <= limit[u].expires
        /\ Cardinality(MadeIn(u, now)) <= Count(u)

RateInv == AloneInv /\ MadeInv /\ WindowInv /\ WithinLimit

IInv == CodeInv /\ (~Overlap => RateInv)
=============================================================================
