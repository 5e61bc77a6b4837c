---------------------------- MODULE OneTimeTokens ----------------------------
(***************************************************************************)
(* The two short-lived secrets kept in Redis: payment QR codes             *)
(* (internal/services/qr_service.go) and the OTPs of a BVN check           *)
(* (ValidateBVN and VerifyOTP of internal/services/auth_service.go).       *)
(*                                                                         *)
(* Both are issued by a SET with a time to live and redeemed by a GET      *)
(* followed by a DEL.  A QR code is its own key and is drawn anew for each *)
(* issue; the OTPs of one BVN share a key, and a later one replaces an     *)
(* earlier one.  A process whose InitRedis found no Redis (redis.go:28) has *)
(* a nil client for its whole life: the QR code service does not look, the *)
(* OTP handlers do (auth_service.go:321, :368) and go on without.          *)
(*                                                                         *)
(* go-redis sends a command again whose reply does not come: any command   *)
(* may have taken effect although it is reported as failed.  A repeated    *)
(* SET or DEL in one request about a key does what one does.               *)
(* Definitions named X_Something are mutants of X.                         *)
(***************************************************************************)
EXTENDS Integers, FiniteSets

CONSTANTS
    Handlers,    \* request handlers, one per request
    Keys,        \* Redis keys: QR codes, BVNs
    QRCodes,     \* those that are QR codes
    Secrets,     \* OTPs, and the content of a QR code
    Requests,    \* requests clients may send
    TTL,         \* time to live of each key: 5 min and 10 min
    MaxTime,     \* bound on the clock, for TLC
    Overlap      \* may two requests about one key be in progress at once

None == "none"

\* An issue carries the secret that will be drawn for it.
ASSUME OneTimeTokensAssumption ==
    /\ IsFiniteSet(Handlers) /\ QRCodes \subseteq Keys
    /\ TTL \in [Keys -> Nat \ {0}] /\ MaxTime \in Nat
    /\ Overlap \in BOOLEAN
    /\ None \notin Secrets
    /\ Requests \subseteq [op : {"issue", "redeem"}, key : Keys, secret : Secrets]
    /\ \A r, q \in Requests : r.key = q.key /\ r.key \in QRCodes => r.secret = q.secret

VARIABLES
    pc,        \* the next step of each handler
    req,       \* its request
    reply,     \* what it answered
    heard,     \* history: did Redis answer the handler's GET
    store,     \* the value and the expiry time of each key
    latest,    \* history: the last secret stored under each key, and whether it
               \* is spent: redeemed, and the DEL took effect
    client,    \* does the running process have a Redis client, or nil
    now

vars == <<pc, req, reply, heard, store, latest, client, now>>

Replies == {None, "issued", "redeemed", "refused", "error"}
PCs == {"idle", "set", "get", "del", "ended"}

NoSecret == [value |-> None, expires |-> 0]
Live(k) == store[k].expires > now
Key(h) == req[h].key
Secret(h) == req[h].secret
IsQR(h) == Key(h) \in QRCodes
Active(h) == pc[h] \notin {"idle", "ended"}

Goto(h, step) == pc' = [pc EXCEPT ![h] = step] /\ UNCHANGED reply
Answer(h, outcome) ==
    /\ reply' = [reply EXCEPT ![h] = outcome]
    /\ pc' = [pc EXCEPT ![h] = "ended"]

-----------------------------------------------------------------------------
Init ==
    /\ pc = [h \in Handlers |-> "idle"]
    /\ req \in [Handlers -> Requests]
    /\ reply = [h \in Handlers |-> None]
    /\ heard = [h \in Handlers |-> FALSE]
    /\ store = [k \in Keys |-> NoSecret]
    /\ latest = [k \in Keys |-> [entry |-> NoSecret, spent |-> FALSE]]
    /\ client \in BOOLEAN
    /\ now = 0

Receive(h) ==
    /\ pc[h] = "idle"
    /\ Overlap \/ \A g \in Handlers : Active(g) => Key(g) # Key(h)
    /\ Goto(h, IF req[h].op = "issue" THEN "set" ELSE "get")
    /\ UNCHANGED <<req, heard, store, latest, client, now>>

\* SET with a time to live.
Set_Expired(h) ==
    LET entry == [value |-> Secret(h), expires |-> now + TTL[Key(h)]]
    IN  /\ store' = [store EXCEPT ![Key(h)] = [entry EXCEPT !.expires = now]]
        /\ latest' = [latest EXCEPT ![Key(h)] = [entry |-> entry, spent |-> FALSE]]

Set(h) ==
    LET entry == [value |-> Secret(h), expires |-> now + TTL[Key(h)]]
    IN  /\ store' = [store EXCEPT ![Key(h)] = entry]
        /\ latest' = [latest EXCEPT ![Key(h)] = [entry |-> entry, spent |-> FALSE]]

\* The nonce of a QR code makes its key new.
Fresh(h) == latest[Key(h)].entry = NoSecret

\* "error": the SET, or after it the picture, failed; or it panicked on the nil
\* client and middleware.Recoverer answered 500.
GenerateQRCode(h) ==
    /\ pc[h] = "set" /\ IsQR(h)
    /\ \/ client /\ Fresh(h) /\ Set(h) /\ (Answer(h, "issued") \/ Answer(h, "error"))
       \/ UNCHANGED <<store, latest>> /\ Answer(h, "error")
    /\ UNCHANGED <<req, heard, client, now>>

\* Without a client the OTP is sent and stored nowhere.
ValidateBVN(h) ==
    /\ pc[h] = "set" /\ ~IsQR(h)
    /\ \/ client /\ Set(h) /\ (Answer(h, "issued") \/ Answer(h, "error"))
       \/ client /\ UNCHANGED <<store, latest>> /\ Answer(h, "error")
       \/ ~client /\ UNCHANGED <<store, latest>> /\ Answer(h, "issued")
    /\ UNCHANGED <<req, heard, client, now>>

Hears(h) == heard' = [heard EXCEPT ![h] = TRUE]

\* GET: "invalid or expired QR code" is one answer, a Redis error (or the nil
\* client's panic) another one.
ProcessQRCode(h) ==
    /\ pc[h] = "get" /\ IsQR(h)
    /\ \/ client /\ Hears(h) /\ Live(Key(h)) /\ Goto(h, "del")
       \/ client /\ Hears(h) /\ ~Live(Key(h)) /\ Answer(h, "refused")
       \/ UNCHANGED heard /\ Answer(h, "error")
    /\ UNCHANGED <<req, store, latest, client, now>>

\* GET and comparison: a Redis error is answered "Invalid or expired OTP" too,
\* and without a client every OTP is answered "OTP Verified Successfully".
Matches(h) == Live(Key(h)) /\ store[Key(h)].value = Secret(h)

VerifyOTP_ErrorIgnored(h) ==
    /\ pc[h] = "get" /\ ~IsQR(h)
    /\ \/ client /\ Hears(h) /\ Matches(h) /\ Goto(h, "del")
       \/ client /\ Hears(h) /\ ~Matches(h) /\ Answer(h, "refused")
       \/ client /\ UNCHANGED heard /\ Goto(h, "del")
       \/ ~client /\ UNCHANGED heard /\ Answer(h, "redeemed")
    /\ UNCHANGED <<req, store, latest, client, now>>

VerifyOTP(h) ==
    /\ pc[h] = "get" /\ ~IsQR(h)
    /\ \/ client /\ Hears(h) /\ Matches(h) /\ Goto(h, "del")
       \/ client /\ Hears(h) /\ ~Matches(h) /\ Answer(h, "refused")
       \/ client /\ UNCHANGED heard /\ Answer(h, "refused")
       \/ ~client /\ UNCHANGED heard /\ Answer(h, "redeemed")
    /\ UNCHANGED <<req, store, latest, client, now>>

\* ... then both DEL the key, whatever it holds by now.  The error is ignored;
\* the process may end between the DEL and the answer.
Spend(h) ==
    latest' = [latest EXCEPT ![Key(h)].spent = @ \/ latest[Key(h)].entry.value = Secret(h)]

Delete_Never(h) ==
    /\ pc[h] = "del"
    /\ \/ UNCHANGED store /\ Spend(h) /\ (Answer(h, "redeemed") \/ Answer(h, None))
       \/ UNCHANGED <<store, latest>> /\ Answer(h, "redeemed")
    /\ UNCHANGED <<req, heard, client, now>>

Delete(h) ==
    /\ pc[h] = "del"
    /\ \/ /\ store' = [store EXCEPT ![Key(h)] = NoSecret]
          /\ Spend(h)
          /\ Answer(h, "redeemed") \/ Answer(h, None)
       \/ UNCHANGED <<store, latest>> /\ Answer(h, "redeemed")
    /\ UNCHANGED <<req, heard, client, now>>

\* The process ends under its handlers and is started again; InitRedis pings
\* once, for the whole life of the new one.
Restart ==
    /\ pc' = [h \in Handlers |-> IF Active(h) THEN "ended" ELSE pc[h]]
    /\ client' \in BOOLEAN
    /\ UNCHANGED <<req, reply, heard, store, latest, now>>

\* Time passes; the unit is long compared with a request.
Tick ==
    /\ now < MaxTime
    /\ \A h \in Handlers : pc[h] # "del"
    /\ now' = now + 1
    /\ UNCHANGED <<pc, req, reply, heard, store, latest, client>>

HandlerStep(h) ==
    \/ Receive(h) \/ GenerateQRCode(h) \/ ValidateBVN(h)
    \/ ProcessQRCode(h) \/ VerifyOTP(h) \/ Delete(h)

Next == (\E h \in Handlers : HandlerStep(h)) \/ Restart \/ Tick

Spec == Init /\ [][Next]_vars

-----------------------------------------------------------------------------
(* Properties. *)

Entry == [value : Secrets \cup {None}, expires : Nat]

\* Every variable has its type.
TypeOK ==
    /\ pc \in [Handlers -> PCs]
    /\ req \in [Handlers -> Requests]
    /\ reply \in [Handlers -> Replies]
    /\ heard \in [Handlers -> BOOLEAN]
    /\ store \in [Keys -> Entry]
    /\ latest \in [Keys -> [entry : Entry, spent : BOOLEAN]]
    /\ client \in BOOLEAN
    /\ now \in Nat

Redeems(h) == reply[h] # "redeemed" /\ reply'[h] = "redeemed"
IsLatest(h) == latest[Key(h)].entry.value = Secret(h) /\ latest[Key(h)].entry.expires > now

\* docs/QR_CODE_FEATURE.md:110, "One-time use only (deleted after processing)":
\* a secret that was redeemed and deleted is not redeemed again before it is
\* issued again.
RedeemedOnce ==
    [][\A h \in Handlers : Redeems(h) /\ IsLatest(h) => ~latest[Key(h)].spent]_vars

\* While requests about one key do not overlap, QR codes and OTPs are one-time
\* secrets: each is redeemed only between its issue and its end, the next one
\* under its key, or the DEL of its first redemption; one whose DEL failed
\* (qr_service.go:81) stands on, but not longer than it lives.  A process
\* without Redis redeems no QR code, and every OTP it is shown.
RedeemersOf(k, s) == {h \in Handlers : /\ reply[h] = "redeemed"
                                       /\ Key(h) = k /\ Secret(h) = s}
RedeemedUnder(k) == [s \in Secrets |-> Cardinality(RedeemersOf(k, s))]

Promise == INSTANCE OneTimeSecret
    WITH standing <- [k \in Keys |-> IF Live(k) /\ ~latest[k].spent
                                     THEN store[k].value ELSE None],
         redeemed <- [k \in Keys |-> RedeemedUnder(k)],
         hasStore <- client,
         PassUnseen <- Keys \ QRCodes

ImplementsOneTimeSecret == Promise!Spec

\* auth_service.go:348 and qr_service.go:70, "invalid or expired" is why one is
\* refused: where Redis answered the GET, the latest secret it stored, unexpired
\* and not redeemed, is not refused.  (Where it did not, VerifyOTP gives the same
\* answer whatever the OTP is, auth_service.go:371.)
RefusedIsInvalid ==
    [][\A h \in Handlers : pc[h] = "get" /\ reply'[h] = "refused" /\ heard'[h] =>
          ~IsLatest(h) \/ latest[Key(h)].spent]_vars
=============================================================================
