-------------------------------- MODULE Ussd --------------------------------
(***************************************************************************)
(* USSDService (internal/services/ussd_service.go) behind USSDHandler      *)
(* (internal/handlers/ussd_handler.go): generating and consuming one-time  *)
(* payment codes.  The codes are rows of ussd_codes, the rate limit is a   *)
(* Redis counter per user.                                                 *)
(*                                                                         *)
(* The clock counts units that are long compared with a request.           *)
(* Definitions named X_Something are mutants of X.                         *)
(***************************************************************************)
EXTENDS Integers, FiniteSets

CONSTANTS
    Handlers,       \* request handlers, one per request
    Users, Codes,   \* a code stands for its hash too
    Requests,       \* requests clients may send
    CodeTimeout,    \* USSD_CODE_TIMEOUT
    MaxGeneration,  \* USSD_MAX_GEN_PER_USER
    Window,         \* USSD_RATE_LIMIT_WINDOW
    IncrAttempts,   \* times go-redis sends a command (MaxRetries 3, so 4)
    Retention,      \* 24 h, how long used codes are kept
    ZoneOffset,     \* the server's time zone: its local time minus UTC
    MaxTime,        \* bound on the clock, for TLC
    Overlap,        \* may one user have two codes generated at the same time
    CleanupRuns     \* does anything call CleanupExpiredCodes (the program: no)

Nobody == "nobody"
ASSUME UssdAssumption ==
    /\ IsFiniteSet(Handlers) /\ Nobody \notin Handlers
    /\ Requests \subseteq
          [op : {"generate"}, user : Users, type : {"PUSH", "PULL"}]
              \cup [op : {"validate"}, code : Codes]
    /\ CodeTimeout \in Nat /\ MaxGeneration \in Nat /\ Window \in Nat \ {0}
    /\ IncrAttempts \in Nat \ {0}
    /\ Retention \in Nat /\ ZoneOffset \in Int /\ MaxTime \in Nat
    /\ Overlap \in BOOLEAN /\ CleanupRuns \in BOOLEAN

VARIABLES
    pc,        \* the next step of each handler
    req,       \* its request
    reply,     \* what it answered
    got,       \* transaction_id of the row it consumed
    made,      \* when the code it generated was stored, 0 if none
    counted,   \* handlers whose code was counted in limit
    rows,      \* table ussd_codes: the row of each code, if there is one
    limit,     \* Redis counter of each user, and when it expires
    now

vars == <<pc, req, reply, got, made, counted, rows, limit, now>>

Replies == {"none", "code", "consumed", "limited", "invalid", "used", "expired", "error"}
PCs == {"idle", "rate", "insert", "increment", "lock", "consume", "ended"}

\* transaction_id is a random name of its own for each row: here, the handler
\* that inserted it.
NoRow == [id |-> Nobody]
Row == [id : Handlers, type : {"PUSH", "PULL"}, expires : Int,
        used : BOOLEAN, usedAt : Nat]

Exists(c) == rows[c].id # Nobody
Expired(c) == now > rows[c].expires
IsGenerate(h) == req[h].op = "generate"
Active(h) == pc[h] \notin {"idle", "ended"}

Goto(h, step) == pc' = [pc EXCEPT ![h] = step] /\ UNCHANGED reply
Answer(h, outcome) ==
    /\ reply' = [reply EXCEPT ![h] = outcome]
    /\ pc' = [pc EXCEPT ![h] = "ended"]

-----------------------------------------------------------------------------
Init ==
    /\ pc = [h \in Handlers |-> "idle"]
    /\ req \in [Handlers -> Requests]
    /\ reply = [h \in Handlers |-> "none"]
    /\ got = [h \in Handlers |-> Nobody]
    /\ made = [h \in Handlers |-> 0]
    /\ counted = {}
    /\ rows = [c \in Codes |-> NoRow]
    /\ limit = [u \in Users |-> [count |-> 0, expires |-> 0]]
    /\ now = 1

Receive(h) ==
    /\ pc[h] = "idle"
    /\ IsGenerate(h) /\ ~Overlap =>
          \A g \in Handlers : Active(g) /\ IsGenerate(g) => req[g].user # req[h].user
    /\ Goto(h, IF IsGenerate(h) THEN "rate" ELSE "lock")
    /\ UNCHANGED <<req, got, made, counted, rows, limit, now>>

Count(u) == IF limit[u].expires > now THEN limit[u].count ELSE 0

\* checkRateLimit: GET.
CheckRateLimit_OffByOne(h) ==
    /\ pc[h] = "rate"
    /\ \/ Count(req[h].user) > MaxGeneration /\ Answer(h, "limited")
       \/ Count(req[h].user) <= MaxGeneration /\ Goto(h, "insert")
    /\ UNCHANGED <<req, got, made, counted, rows, limit, now>>

CheckRateLimit(h) ==
    /\ pc[h] = "rate"
    /\ \/ Count(req[h].user) >= MaxGeneration /\ Answer(h, "limited")
       \/ Count(req[h].user) < MaxGeneration /\ Goto(h, "insert")
       \/ Answer(h, "error")
    /\ UNCHANGED <<req, got, made, counted, rows, limit, now>>

\* expires_at is a TIMESTAMP without time zone: Postgres drops the offset that
\* the driver sends, and the driver reads the column back as UTC.
StoredTime(t) == t + ZoneOffset

\* A random code is inserted; code_hash is UNIQUE.
InsertCode_TypeLeftOut(h) ==
    /\ pc[h] = "insert"
    /\ \E c \in Codes :
          /\ ~Exists(c)
          /\ rows' = [rows EXCEPT ![c] =
                [id |-> h, type |-> "", used |-> FALSE, usedAt |-> 0,
                 expires |-> StoredTime(now + CodeTimeout)]]
          /\ made' = [made EXCEPT ![h] = now]
          /\ Goto(h, "increment")
    /\ UNCHANGED <<req, got, counted, limit, now>>

InsertCode(h) ==
    /\ pc[h] = "insert"
    /\ \/ \E c \in Codes :
             /\ ~Exists(c)
             /\ rows' = [rows EXCEPT ![c] =
                   [id |-> h, type |-> req[h].type, used |-> FALSE, usedAt |-> 0,
                    expires |-> StoredTime(now + CodeTimeout)]]
             /\ made' = [made EXCEPT ![h] = now]
             /\ Goto(h, "increment")
       \/ Answer(h, "error") /\ UNCHANGED <<rows, made>>
    /\ UNCHANGED <<req, got, counted, limit, now>>

\* incrementRateLimit: INCR and EXPIRE in one pipeline, errors ignored.  It is
\* sent again where no reply to it comes, whether it took effect or not.
IncrementRateLimit(h) ==
    LET u == req[h].user
    IN  /\ pc[h] = "increment"
        /\ \/ /\ \E n \in 1..IncrAttempts :
                    limit' = [limit EXCEPT ![u] = [count |-> Count(u) + n,
                                                   expires |-> now + Window]]
              /\ counted' = counted \cup {h}
           \/ UNCHANGED <<limit, counted>>
        /\ Answer(h, "code")
        /\ UNCHANGED <<req, got, made, rows, now>>

\* The type USSDHandler.ValidateCode expects of every code.
ExpectedType == "PULL"
Locked(c) == \E h \in Handlers : pc[h] = "consume" /\ req[h].code = c

\* ValidateAndConsume: SELECT ... FOR UPDATE and the three refusals.
Found(c) == Exists(c) /\ rows[c].type = ExpectedType

Check_NoExpiry(h, c) ==
    \/ ~Found(c) /\ Answer(h, "invalid")
    \/ Found(c) /\ rows[c].used /\ Answer(h, "used")
    \/ Found(c) /\ ~rows[c].used /\ Goto(h, "consume")

Check(h, c) ==
    \/ ~Found(c) /\ Answer(h, "invalid")
    \/ Found(c) /\ rows[c].used /\ Answer(h, "used")
    \/ Found(c) /\ ~rows[c].used /\ Expired(c) /\ Answer(h, "expired")
    \/ Found(c) /\ ~rows[c].used /\ ~Expired(c) /\ Goto(h, "consume")

LockCode_NoForUpdate(h) ==
    /\ pc[h] = "lock"
    /\ Check(h, req[h].code)
    /\ UNCHANGED <<req, got, made, counted, rows, limit, now>>

LockCode(h) ==
    /\ pc[h] = "lock"
    /\ ~Locked(req[h].code)
    /\ Check(h, req[h].code)
    /\ UNCHANGED <<req, got, made, counted, rows, limit, now>>

\* UPDATE ... used = true, and COMMIT: it may take effect unacknowledged.
Consume(h) ==
    LET c == req[h].code
    IN  /\ pc[h] = "consume"
        /\ rows' = [rows EXCEPT ![c].used = TRUE, ![c].usedAt = now]
        /\ \/ Answer(h, "consumed") /\ got' = [got EXCEPT ![h] = rows[c].id]
           \/ Answer(h, "error") /\ UNCHANGED got
        /\ UNCHANGED <<req, made, counted, limit, now>>

\* A statement of the transaction fails and it is rolled back.
ValidateFails(h) ==
    /\ pc[h] \in {"lock", "consume"}
    /\ Answer(h, "error")
    /\ UNCHANGED <<req, got, made, counted, rows, limit, now>>

\* The server stops, or the client goes away and its context is cancelled.
Lose(h) ==
    /\ Active(h)
    /\ Answer(h, "none")
    /\ UNCHANGED <<req, got, made, counted, rows, limit, now>>

\* CleanupExpiredCodes: one DELETE, in which Postgres drops the offset of both
\* sides of each comparison.
Deletable(c) ==
    /\ Exists(c)
    /\ \/ rows[c].expires < StoredTime(now)
       \/ rows[c].used /\ rows[c].usedAt < now - Retention

CleanupExpiredCodes ==
    /\ CleanupRuns
    /\ \E c \in Codes : Deletable(c)
    /\ \A c \in Codes : Deletable(c) => ~Locked(c)
    /\ rows' = [c \in Codes |-> IF Deletable(c) THEN NoRow ELSE rows[c]]
    /\ UNCHANGED <<pc, req, reply, got, made, counted, limit, now>>

\* Time passes, but not while a row is locked, nor between the INSERT of a code
\* and its being counted.
Tick ==
    /\ now < MaxTime
    /\ \A h \in Handlers : pc[h] \notin {"consume", "increment"}
    /\ now' = now + 1
    /\ UNCHANGED <<pc, req, reply, got, made, counted, rows, limit>>

Proceed(h) ==
    \/ CheckRateLimit(h) \/ InsertCode(h) \/ IncrementRateLimit(h)
    \/ LockCode(h) \/ Consume(h) \/ ValidateFails(h)

Next == \/ \E h \in Handlers : Receive(h) \/ Proceed(h) \/ Lose(h)
        \/ CleanupExpiredCodes \/ Tick

Spec == Init /\ [][Next]_vars

-----------------------------------------------------------------------------
(* Properties. *)

\* Every variable has its type.
TypeOK ==
    /\ pc \in [Handlers -> PCs]
    /\ req \in [Handlers -> Requests]
    /\ reply \in [Handlers -> Replies]
    /\ got \in [Handlers -> Handlers \cup {Nobody}]
    /\ made \in [Handlers -> Nat]
    /\ counted \subseteq Handlers
    /\ rows \in [Codes -> Row \cup {NoRow}]
    /\ limit \in [Users -> [count : Nat, expires : Nat]]
    /\ now \in Nat

\* docs/USSD_TECHNICAL_FLOW.md:132-142, "Single-Use Enforcement": however many
\* requests present a code, one of them gets the payment.
SingleUse ==
    \A g, h \in Handlers : g # h /\ got[g] # Nobody => got[g] # got[h]

\* docs/USSD_TECHNICAL_FLOW.md:153, "Default: 5 minutes": a code is consumed no
\* later than its timeout after it was made.
ConsumedInTime ==
    [][\A h \in Handlers : got'[h] # got[h] => now <= made[got'[h]] + CodeTimeout]_vars

\* The codes of a user that were stored, and counted, in the window that ends at
\* time t.
MadeIn(u, t) == {h \in counted : /\ req[h].user = u
                                 /\ made[h] > t - Window /\ made[h] <= t}

\* docs/USSD_TECHNICAL_FLOW.md:168, "5 codes per user per hour": of the codes
\* that Redis counted, never more than the limit in any window.
WithinLimit ==
    \A h \in counted : Cardinality(MadeIn(req[h].user, made[h])) <= MaxGeneration
=============================================================================
