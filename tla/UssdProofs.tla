----------------------------- MODULE UssdProofs -----------------------------
(***************************************************************************)
(* Theorems about Ussd, for any requests, users, codes, limits and times.  *)
(***************************************************************************)
EXTENDS UssdInvariant, FiniteSetTheorems, TLAPS

LEMMA RequestTypes ==
    ASSUME TypeOK, NEW h \in Handlers
    PROVE  /\ IsGenerate(h) => req[h].user \in Users /\ req[h].type \in {"PUSH", "PULL"}
           /\ ~IsGenerate(h) => req[h].code \in Codes
  BY UssdAssumption DEF TypeOK, IsGenerate

LEMMA InitCodeInv == ASSUME Init PROVE CodeInv
  <1>1. TypeOK
    BY UssdAssumption DEF Init, TypeOK, PCs, Replies, Row, NoRow
  <1>2. ProgramInv /\ ConsumeInv
    BY DEF Init, ProgramInv, ConsumeInv, Generating, Validating
  <1>3. RowInv
    BY DEF Init, RowInv, Exists, NoRow
  <1>4. GotInv /\ SingleUse
    BY DEF Init, GotInv, SingleUse
  <1>5. QED
    BY <1>1, <1>2, <1>3, <1>4 DEF CodeInv

-----------------------------------------------------------------------------
(* What one step of a handler can be, as far as the invariants see it. *)

Moves(h, here, next) ==
    /\ pc[h] \in here
    /\ pc' = [pc EXCEPT ![h] = next]
    /\ req' = req /\ now' = now

\* The handler ends with nothing stored, counted or consumed.
Ends(h) ==
    /\ Moves(h, Generating \cup Validating, "ended")
    /\ UNCHANGED <<got, made, counted, rows, limit>>

Starts(h) ==
    /\ Moves(h, {"idle"}, IF IsGenerate(h) THEN "rate" ELSE "lock")
    /\ IsGenerate(h) /\ ~Overlap =>
          \A g \in Handlers : pc[g] \in Generating => req[g].user # req[h].user
    /\ UNCHANGED <<got, made, counted, rows, limit>>

PassesRate(h) ==
    /\ Moves(h, {"rate"}, "insert")
    /\ Count(req[h].user) < MaxGeneration
    /\ UNCHANGED <<got, made, counted, rows, limit>>

Stores(h, c) ==
    /\ Moves(h, {"insert"}, "increment")
    /\ c \in Codes /\ ~Exists(c)
    /\ rows' = [rows EXCEPT ![c] =
          [id |-> h, type |-> req[h].type, used |-> FALSE, usedAt |-> 0,
           expires |-> StoredTime(now + CodeTimeout)]]
    /\ made' = [made EXCEPT ![h] = now]
    /\ UNCHANGED <<got, counted, limit>>

Counts(h) ==
    LET u == req[h].user
    IN  /\ Moves(h, {"increment"}, "ended")
        /\ \E n \in 1..IncrAttempts :
              limit' = [limit EXCEPT ![u] = [count |-> Count(u) + n, expires |-> now + Window]]
        /\ counted' = counted \cup {h}
        /\ UNCHANGED <<got, made, rows>>

Locks(h) ==
    LET c == req[h].code
    IN  /\ Moves(h, {"lock"}, "consume")
        /\ ~Locked(c) /\ Exists(c) /\ ~rows[c].used /\ ~Expired(c)
        /\ UNCHANGED <<got, made, counted, rows, limit>>

Consumes(h) ==
    LET c == req[h].code
    IN  /\ Moves(h, {"consume"}, "ended")
        /\ rows' = [rows EXCEPT ![c].used = TRUE, ![c].usedAt = now]
        /\ got' \in {got, [got EXCEPT ![h] = rows[c].id]}
        /\ UNCHANGED <<made, counted, limit>>

HandlerAct(h) ==
    \/ Ends(h) \/ Starts(h) \/ PassesRate(h) \/ Counts(h) \/ Locks(h) \/ Consumes(h)
    \/ \E c \in Codes : Stores(h, c)

LEMMA HandlerSteps ==
    ASSUME TypeOK, ProgramInv, NEW h \in Handlers, Receive(h) \/ Proceed(h) \/ Lose(h)
    PROVE  HandlerAct(h) /\ reply' \in [Handlers -> Replies]
  <1> USE DEF HandlerAct, Moves, Goto, Answer, Generating, Validating, TypeOK, Replies
  <1>1. CASE Receive(h)
    <2>1. Starts(h)
      BY <1>1 DEF Receive, Starts, Active, ProgramInv
    <2>2. QED
      BY <1>1, <2>1 DEF Receive
  <1>2. CASE CheckRateLimit(h)
    <2>1. Ends(h) \/ PassesRate(h)
      BY <1>2 DEF CheckRateLimit, Ends, PassesRate
    <2>2. QED
      BY <1>2, <2>1 DEF CheckRateLimit
  <1>3. CASE InsertCode(h)
    <2>1. Ends(h) \/ \E c \in Codes : Stores(h, c)
      BY <1>3 DEF InsertCode, Ends, Stores
    <2>2. QED
      BY <1>3, <2>1 DEF InsertCode
  <1>4. CASE IncrementRateLimit(h)
    <2>1. Ends(h) \/ Counts(h)
      BY <1>4 DEF IncrementRateLimit, Ends, Counts
    <2>2. QED
      BY <1>4, <2>1 DEF IncrementRateLimit
  <1>5. CASE LockCode(h)
    <2>1. Ends(h) \/ Locks(h)
      BY <1>5 DEF LockCode, Check, Found, Ends, Locks
    <2>2. QED
      BY <1>5, <2>1 DEF LockCode, Check
  <1>6. CASE Consume(h)
    <2>1. Consumes(h)
      BY <1>6 DEF Consume, Consumes
    <2>2. QED
      BY <1>6, <2>1 DEF Consume
  <1>7. CASE ValidateFails(h)
    <2>1. Ends(h)
      BY <1>7 DEF ValidateFails, Ends
    <2>2. QED
      BY <1>7, <2>1 DEF ValidateFails
  <1>8. CASE Lose(h)
    <2>1. Ends(h)
      BY <1>8 DEF Lose, Active, Ends, PCs
    <2>2. QED
      BY <1>8, <2>1 DEF Lose
  <1>9. QED
    BY <1>1, <1>2, <1>3, <1>4, <1>5, <1>6, <1>7, <1>8 DEF Proceed

\* Only the handler that steps moves, and it moves forward.
LEMMA Forward ==
    ASSUME TypeOK, NEW h \in Handlers, HandlerAct(h)
    PROVE  /\ req' = req /\ now' = now
           /\ pc[h] # "ended" /\ pc'[h] \in PCs
           /\ \A g \in Handlers \ {h} : pc'[g] = pc[g]
           /\ \A g \in Handlers : Inserted(g) => Inserted(g)'
  BY DEF HandlerAct, Ends, Starts, PassesRate, Counts, Locks, Consumes, Stores, Moves,
         Generating, Validating, Inserted, TypeOK, PCs

\* The row a handler has stored.
LEMMA Stored ==
    ASSUME TypeOK, ProgramInv, NEW h \in Handlers, NEW c \in Codes, Stores(h, c)
    PROVE  /\ rows'[c] \in Row /\ rows'[c].id = h
           /\ rows'[c].expires = StoredTime(now + CodeTimeout)
           /\ made'[h] = now
           /\ \A d \in Codes \ {c} : rows'[d] = rows[d]
           /\ \A g \in Handlers \ {h} : made'[g] = made[g]
           /\ pc[h] = "insert" /\ pc'[h] = "increment" /\ IsGenerate(h)
  <1>1. pc[h] = "insert" /\ pc'[h] = "increment" /\ IsGenerate(h)
    BY DEF Stores, Moves, ProgramInv, Generating, TypeOK
  <1>2. req[h].type \in {"PUSH", "PULL"}
    BY <1>1, RequestTypes
  <1>3. StoredTime(now + CodeTimeout) \in Int
    BY UssdAssumption DEF StoredTime, TypeOK
  <1>4. QED
    BY <1>1, <1>2, <1>3 DEF Stores, TypeOK, Row

\* The row a handler has consumed.
LEMMA Consumed ==
    ASSUME TypeOK, ProgramInv, ConsumeInv, NEW h \in Handlers, Consumes(h)
    PROVE  /\ req[h].code \in Codes /\ Exists(req[h].code) /\ ~rows[req[h].code].used
           /\ rows[req[h].code] \in Row /\ rows'[req[h].code] \in Row
           /\ rows'[req[h].code].id = rows[req[h].code].id
           /\ rows'[req[h].code].expires = rows[req[h].code].expires
           /\ rows'[req[h].code].used
           /\ \A d \in Codes \ {req[h].code} : rows'[d] = rows[d]
           /\ pc[h] = "consume" /\ pc'[h] = "ended"
  <1>1. pc[h] = "consume" /\ pc'[h] = "ended"
    BY DEF Consumes, Moves, TypeOK
  <1>2. req[h].code \in Codes
    BY <1>1, RequestTypes DEF ProgramInv, Validating
  <1>3. Exists(req[h].code) /\ ~rows[req[h].code].used
    BY <1>1 DEF ConsumeInv
  <1>4. rows[req[h].code] \in Row
    BY <1>2, <1>3 DEF TypeOK, Exists, NoRow
  <1>5. PICK c : c = req[h].code
    OBVIOUS
  <1>6. rows' = [rows EXCEPT ![c] = [@ EXCEPT !.used = TRUE, !.usedAt = now]]
    BY <1>5 DEF Consumes
  <1>7. /\ rows'[c] = [rows[c] EXCEPT !.used = TRUE, !.usedAt = now]
        /\ \A d \in Codes \ {c} : rows'[d] = rows[d]
    BY <1>2, <1>5, <1>6 DEF TypeOK
  <1>8. /\ rows'[c] \in Row /\ rows'[c].id = rows[c].id
        /\ rows'[c].expires = rows[c].expires /\ rows'[c].used
    BY <1>4, <1>5, <1>7 DEF Row, TypeOK
  <1>9. QED
    BY <1>1, <1>2, <1>3, <1>4, <1>5, <1>7, <1>8

-----------------------------------------------------------------------------
(* The invariant of the codes. *)

LEMMA StepTypeOK == ASSUME CodeInv, [Next]_vars PROVE TypeOK'
  <1> USE DEF CodeInv
  <1>1. CASE UNCHANGED vars
    BY <1>1 DEF vars, TypeOK
  <1>2. CASE CleanupExpiredCodes \/ Tick
    BY <1>2 DEF CleanupExpiredCodes, Tick, TypeOK
  <1>3. ASSUME NEW h \in Handlers, Receive(h) \/ Proceed(h) \/ Lose(h) PROVE TypeOK'
    <2>1. HandlerAct(h) /\ reply' \in [Handlers -> Replies]
      BY <1>3, HandlerSteps
    <2>2. pc' \in [Handlers -> PCs] /\ req' = req /\ now' = now
      <3>1. pc' = [pc EXCEPT ![h] = pc'[h]]
        BY <2>1 DEF HandlerAct, Ends, Starts, PassesRate, Counts, Locks, Consumes, Stores,
                    Moves, TypeOK
      <3>2. QED
        BY <2>1, <3>1, Forward DEF TypeOK
    <2>3. CASE Ends(h) \/ Starts(h) \/ PassesRate(h) \/ Locks(h)
      BY <2>1, <2>2, <2>3 DEF Ends, Starts, PassesRate, Locks, TypeOK
    <2>4. CASE Counts(h)
      <3>1. req[h].user \in Users
        BY <2>4, RequestTypes DEF Counts, Moves, ProgramInv, Generating
      <3>2. /\ \A n \in 1..IncrAttempts : Count(req[h].user) + n \in Nat
            /\ now + Window \in Nat
        BY <3>1, UssdAssumption DEF TypeOK, Count
      <3>3. limit' \in [Users -> [count : Nat, expires : Nat]]
        BY <2>4, <3>1, <3>2 DEF Counts, TypeOK
      <3>4. QED
        BY <2>1, <2>2, <2>4, <3>3 DEF Counts, TypeOK
    <2>5. CASE Consumes(h)
      <3>1. rows'[req[h].code] \in Row
        BY <2>5, Consumed
      <3>2. rows' \in [Codes -> Row \cup {NoRow}]
        BY <2>5, <3>1 DEF Consumes, TypeOK
      <3>3. rows[req[h].code].id \in Handlers
        BY <2>5, Consumed DEF Row
      <3>4. got' \in [Handlers -> Handlers \cup {Nobody}]
        BY <2>5, <3>3 DEF Consumes, TypeOK
      <3>5. QED
        BY <2>1, <2>2, <2>5, <3>2, <3>4 DEF Consumes, TypeOK
    <2>6. ASSUME NEW c \in Codes, Stores(h, c) PROVE TypeOK'
      <3>1. rows' \in [Codes -> Row \cup {NoRow}]
        BY <2>6, Stored DEF Stores, TypeOK
      <3>2. made' \in [Handlers -> Nat]
        BY <2>6 DEF Stores, TypeOK
      <3>3. QED
        BY <2>1, <2>2, <2>6, <3>1, <3>2 DEF Stores, TypeOK
    <2>7. QED
      BY <2>1, <2>3, <2>4, <2>5, <2>6 DEF HandlerAct
  <1>4. QED
    BY <1>1, <1>2, <1>3 DEF Next

LEMMA ActProgram ==
    ASSUME TypeOK, ProgramInv, NEW h \in Handlers, HandlerAct(h)
    PROVE  ProgramInv'
  <1>1. req' = req /\ \A g \in Handlers \ {h} : pc'[g] = pc[g]
    BY Forward
  <1>2. /\ pc'[h] \in Generating => IsGenerate(h)
        /\ pc'[h] \in Validating => ~IsGenerate(h)
    BY DEF HandlerAct, Ends, Starts, PassesRate, Counts, Locks, Consumes, Stores, Moves,
           Generating, Validating, ProgramInv, TypeOK
  <1>3. QED
    BY <1>1, <1>2 DEF ProgramInv, IsGenerate

\* Rows that keep their handler and their time, or disappear.
LEMMA RowsKept ==
    ASSUME TypeOK, RowInv, made' = made,
           \A g \in Handlers : Inserted(g) => Inserted(g)',
           \A c \in Codes : \/ rows'[c].id = Nobody
                            \/ /\ rows'[c].id = rows[c].id
                               /\ rows'[c].expires = rows[c].expires
    PROVE  RowInv'
  <1>1. \A c \in Codes : Exists(c) => rows[c].id \in Handlers
    BY DEF TypeOK, Exists, Row, NoRow
  <1> SUFFICES ASSUME NEW c \in Codes, Exists(c)'
               PROVE  /\ Inserted(rows[c].id)'
                      /\ rows'[c].expires = StoredTime(made'[rows'[c].id] + CodeTimeout)
                      /\ \A d \in Codes : rows'[d].id = rows'[c].id => d = c
    BY DEF RowInv, StoredTime
  <1>2. rows'[c].id = rows[c].id /\ rows'[c].expires = rows[c].expires /\ Exists(c)
    BY DEF Exists
  <1>3. Inserted(rows[c].id)'
    BY <1>1, <1>2 DEF RowInv, Inserted
  <1>4. \A d \in Codes : rows'[d].id = rows[c].id => d = c
    BY <1>2 DEF RowInv, Exists
  <1>5. QED
    BY <1>2, <1>3, <1>4 DEF RowInv

LEMMA ActRows ==
    ASSUME TypeOK, ProgramInv, RowInv, ConsumeInv, NEW h \in Handlers, HandlerAct(h)
    PROVE  RowInv'
  <1>1. \A g \in Handlers : Inserted(g) => Inserted(g)'
    BY Forward
  <1>2. CASE Ends(h) \/ Starts(h) \/ PassesRate(h) \/ Locks(h) \/ Counts(h)
    BY <1>1, <1>2, RowsKept DEF Ends, Starts, PassesRate, Locks, Counts
  <1>3. CASE Consumes(h)
    <2>1. \A c \in Codes : rows'[c].id = rows[c].id /\ rows'[c].expires = rows[c].expires
      BY <1>3, Consumed
    <2>2. QED
      BY <1>1, <1>3, <2>1, RowsKept DEF Consumes
  <1>4. ASSUME NEW c \in Codes, Stores(h, c) PROVE RowInv'
    <2>1. /\ rows'[c].id = h /\ rows'[c].expires = StoredTime(now + CodeTimeout)
          /\ made'[h] = now
          /\ \A d \in Codes \ {c} : rows'[d] = rows[d]
          /\ \A g \in Handlers \ {h} : made'[g] = made[g]
          /\ pc[h] = "insert" /\ pc'[h] = "increment"
      BY <1>4, Stored
    <2>2. \A d \in Codes : rows[d].id # h
      <3>1. ~Inserted(h) /\ h # Nobody
        BY <2>1, UssdAssumption DEF Inserted
      <3>2. QED
        BY <3>1 DEF RowInv, Exists
    <2>3. \A d \in Codes \ {c} : Exists(d) => rows[d].id \in Handlers \ {h}
      BY <2>2 DEF TypeOK, Exists, Row, NoRow
    <2>4. SUFFICES ASSUME NEW d \in Codes, Exists(d)'
                   PROVE  /\ pc'[rows'[d].id] \in {"increment", "ended"}
                          /\ rows'[d].expires = StoredTime(made'[rows'[d].id] + CodeTimeout)
                          /\ \A e \in Codes : rows'[e].id = rows'[d].id => e = d
      BY DEF RowInv, StoredTime, Inserted
    <2>5. CASE d = c
      BY <2>1, <2>2, <2>5
    <2>6. CASE d # c
      <3>1. rows'[d] = rows[d] /\ Exists(d) /\ rows[d].id \in Handlers \ {h}
        BY <2>1, <2>3, <2>6, <2>4 DEF Exists
      <3>2. Inserted(rows[d].id)'
        BY <1>1, <3>1 DEF RowInv, Inserted
      <3>3. rows[d].expires = StoredTime(made[rows[d].id] + CodeTimeout)
        BY <3>1 DEF RowInv
      <3>4. \A e \in Codes : rows'[e].id = rows[d].id => e = d
        BY <2>1, <3>1 DEF RowInv
      <3>5. QED
        BY <2>1, <3>1, <3>2, <3>3, <3>4 DEF Inserted
    <2>7. QED
      BY <2>5, <2>6
  <1>5. QED
    BY <1>2, <1>3, <1>4 DEF HandlerAct

LEMMA ActConsume ==
    ASSUME TypeOK, ProgramInv, RowInv, ConsumeInv, NEW h \in Handlers, HandlerAct(h)
    PROVE  ConsumeInv'
  <1>1. req' = req /\ now' = now /\ \A g \in Handlers \ {h} : pc'[g] = pc[g]
    BY Forward
  <1>2. \A g \in Handlers : pc[g] = "consume" => req[g].code \in Codes
    BY RequestTypes DEF ProgramInv, Validating
  <1>3. CASE Ends(h) \/ Starts(h) \/ PassesRate(h) \/ Counts(h)
    <2>1. pc'[h] # "consume" /\ rows' = rows
      BY <1>3 DEF Ends, Starts, PassesRate, Counts, Moves, TypeOK
    <2>2. QED
      BY <1>1, <2>1 DEF ConsumeInv, Exists, Expired
  <1>4. CASE Locks(h)
    <2>1. /\ rows' = rows /\ pc'[h] = "consume"
          /\ \A g \in Handlers : pc[g] = "consume" => req[g].code # req[h].code
      BY <1>4 DEF Locks, Moves, Locked, TypeOK
    <2>2. /\ Exists(req[h].code) /\ ~rows[req[h].code].used /\ ~Expired(req[h].code)
      BY <1>4 DEF Locks
    <2>3. QED
      BY <1>1, <2>1, <2>2 DEF ConsumeInv, Exists, Expired
  <1>5. CASE Consumes(h)
    <2>1. pc[h] = "consume" /\ pc'[h] = "ended"
      BY <1>5, Consumed
    <2>2. \A g \in Handlers \ {h} : pc[g] = "consume" =>
              req[g].code # req[h].code /\ rows'[req[g].code] = rows[req[g].code]
      BY <1>2, <1>5, <2>1, Consumed DEF ConsumeInv
    <2>3. QED
      BY <1>1, <2>1, <2>2 DEF ConsumeInv, Exists, Expired
  <1>6. ASSUME NEW c \in Codes, Stores(h, c) PROVE ConsumeInv'
    <2>1. pc'[h] = "increment" /\ \A d \in Codes \ {c} : rows'[d] = rows[d]
      BY <1>6, Stored
    <2>2. \A g \in Handlers : pc[g] = "consume" => rows'[req[g].code] = rows[req[g].code]
      BY <1>2, <1>6, <2>1 DEF ConsumeInv, Stores
    <2>3. QED
      BY <1>1, <2>1, <2>2 DEF ConsumeInv, Exists, Expired
  <1>7. QED
    BY <1>3, <1>4, <1>5, <1>6 DEF HandlerAct

LEMMA ActGot ==
    ASSUME CodeInv, NEW h \in Handlers, HandlerAct(h)
    PROVE  GotInv' /\ SingleUse'
  <1> USE DEF CodeInv
  <1>1. /\ \A g \in Handlers \ {h} : pc'[g] = pc[g]
        /\ pc[h] # "ended"
        /\ \A g \in Handlers : Inserted(g) => Inserted(g)'
    BY Forward
  <1>2. \A g \in Handlers : got[g] # Nobody => g # h /\ got[g] \in Handlers
    BY <1>1 DEF GotInv, TypeOK
  <1>3. CASE Ends(h) \/ Starts(h) \/ PassesRate(h) \/ Locks(h) \/ Counts(h)
    <2>1. got' = got /\ rows' = rows
      BY <1>3 DEF Ends, Starts, PassesRate, Locks, Counts
    <2>2. QED
      BY <1>1, <1>2, <2>1 DEF GotInv, SingleUse, Inserted
  <1>4. CASE Consumes(h)
    <2>1. PICK c : c = req[h].code
      OBVIOUS
    <2>2. /\ c \in Codes /\ Exists(c) /\ ~rows[c].used /\ rows[c].id \in Handlers
          /\ rows'[c].id = rows[c].id /\ rows'[c].used
          /\ \A d \in Codes \ {c} : rows'[d] = rows[d]
          /\ pc'[h] = "ended"
      BY <1>4, <2>1, Consumed DEF Row
    <2>3. /\ got'[h] \in {got[h], rows[c].id}
          /\ \A g \in Handlers \ {h} : got'[g] = got[g]
      BY <1>4, <2>1 DEF Consumes, TypeOK
    <2>4. got[h] = Nobody
      BY <1>2
    <2>5. Inserted(rows[c].id)' /\ \A d \in Codes : rows[d].id = rows[c].id => d = c
      BY <1>1, <2>2 DEF RowInv, Inserted
    <2>6. GotInv'
      <3>1. SUFFICES ASSUME NEW g \in Handlers, got'[g] # Nobody
                     PROVE  /\ pc'[g] = "ended"
                            /\ pc'[got'[g]] \in {"increment", "ended"}
                            /\ \A d \in Codes : rows'[d].id = got'[g] => rows'[d].used
        BY DEF GotInv, Inserted
      <3>2. CASE g = h
        <4>1. got'[g] = rows[c].id
          BY <2>3, <2>4, <3>1, <3>2
        <4>2. QED
          BY <2>2, <2>5, <3>2, <4>1 DEF Inserted
      <3>3. CASE g # h
        <4>1. got'[g] = got[g] /\ pc'[g] = pc[g] /\ got[g] \in Handlers
          BY <1>1, <1>2, <2>3, <3>1, <3>3
        <4>2. \A d \in Codes : rows'[d].id = got[g] => rows'[d].used
          BY <2>2, <3>1, <4>1 DEF GotInv
        <4>3. QED
          BY <1>1, <3>1, <4>1, <4>2 DEF GotInv, Inserted
      <3>4. QED
        BY <3>2, <3>3
    <2>7. \A g \in Handlers : got[g] # rows[c].id
      BY <2>2 DEF GotInv, Exists
    <2>8. SingleUse'
      BY <2>3, <2>4, <2>7 DEF SingleUse
    <2>9. QED
      BY <2>6, <2>8
  <1>5. ASSUME NEW c \in Codes, Stores(h, c) PROVE GotInv' /\ SingleUse'
    <2>1. /\ rows'[c].id = h /\ pc[h] = "insert" /\ got' = got
          /\ \A d \in Codes \ {c} : rows'[d] = rows[d]
      BY <1>5, Stored DEF Stores
    <2>2. ~Inserted(h)
      BY <2>1 DEF Inserted
    <2>3. \A g \in Handlers : got[g] # Nobody => got[g] # h
      BY <2>2 DEF GotInv
    <2>4. \A g \in Handlers : got[g] # Nobody =>
              \A d \in Codes : rows'[d].id = got[g] => rows'[d].used
      BY <2>1, <2>3 DEF GotInv
    <2>5. QED
      BY <1>1, <1>2, <2>1, <2>4 DEF GotInv, SingleUse, Inserted
  <1>6. QED
    BY <1>3, <1>4, <1>5 DEF HandlerAct

\* Cleanup deletes no row that is being consumed, and time stands still for it.
LEMMA OtherCodes ==
    ASSUME CodeInv, CleanupExpiredCodes \/ Tick \/ UNCHANGED vars
    PROVE  ProgramInv' /\ RowInv' /\ ConsumeInv' /\ GotInv' /\ SingleUse'
  <1> USE DEF CodeInv
  <1>1. UNCHANGED <<pc, req, got, made>>
    BY DEF CleanupExpiredCodes, Tick, vars
  <1>2. \A g \in Handlers : Inserted(g) => Inserted(g)'
    BY <1>1 DEF Inserted
  <1>3. ProgramInv' /\ SingleUse'
    BY <1>1 DEF ProgramInv, SingleUse, IsGenerate
  <1>4. \A c \in Codes : rows'[c] = rows[c] \/ rows'[c] = NoRow
    BY DEF CleanupExpiredCodes, Tick, vars
  <1>5. RowInv'
    BY <1>1, <1>2, <1>4, RowsKept DEF NoRow
  <1>6. GotInv'
    <2>1. \A g \in Handlers : got[g] # Nobody => got[g] \in Handlers
      BY DEF TypeOK
    <2>2. \A g \in Handlers : got[g] # Nobody =>
              \A d \in Codes : rows'[d].id = got[g] => rows'[d].used
      BY <1>4 DEF GotInv, NoRow
    <2>3. QED
      BY <1>1, <2>2 DEF GotInv, Inserted
  <1>7. ConsumeInv'
    <2>1. SUFFICES ASSUME NEW h \in Handlers, pc[h] = "consume"
                   PROVE  rows'[req[h].code] = rows[req[h].code] /\ now' = now
      BY <1>1 DEF ConsumeInv, Exists, Expired
    <2>2. req[h].code \in Codes
      BY <2>1, RequestTypes DEF ProgramInv, Validating
    <2>3. Locked(req[h].code)
      BY <2>1 DEF Locked
    <2>4. QED
      BY <2>1, <2>2, <2>3 DEF CleanupExpiredCodes, Tick, vars
  <1>8. QED
    BY <1>3, <1>5, <1>6, <1>7

LEMMA StepCodeInv == ASSUME CodeInv, [Next]_vars PROVE CodeInv'
  <1>1. TypeOK'
    BY StepTypeOK
  <1>2. ASSUME NEW h \in Handlers, Receive(h) \/ Proceed(h) \/ Lose(h) PROVE CodeInv'
    <2>1. HandlerAct(h)
      BY <1>2, HandlerSteps DEF CodeInv
    <2>2. QED
      BY <1>1, <2>1, ActProgram, ActRows, ActConsume, ActGot DEF CodeInv
  <1>3. QED
    BY <1>1, <1>2, OtherCodes DEF CodeInv, Next

\* The invariant of the codes holds in every reachable state of Ussd.
THEOREM CodeInvariant == Spec => []CodeInv
  BY InitCodeInv, StepCodeInv, PTL DEF Spec

\* However many requests present one code, and whenever codes are cleaned up, one
\* of them gets the payment (docs/USSD_TECHNICAL_FLOW.md:132-142).
THEOREM OnePaymentPerCode == Spec => []SingleUse
  BY CodeInvariant, PTL DEF CodeInv

\* Where the server's local time is not ahead of UTC, a code is consumed no later
\* than its timeout after it was made.  East of it the stored expiry is late by
\* the offset.
THEOREM NeverConsumedLate == ZoneOffset <= 0 => (Spec => ConsumedInTime)
  <1> SUFFICES ASSUME ZoneOffset <= 0 PROVE Spec => ConsumedInTime
    OBVIOUS
  <1> DEFINE InTime == \A h \in Handlers :
                          got'[h] # got[h] => now <= made[got'[h]] + CodeTimeout
  <1>1. ASSUME CodeInv, [Next]_vars PROVE [InTime]_vars
    <2>1. SUFFICES ASSUME NEW h \in Handlers, got'[h] # got[h]
                   PROVE  now <= made[got'[h]] + CodeTimeout
      OBVIOUS
    <2>2. PICK g \in Handlers : Receive(g) \/ Proceed(g) \/ Lose(g)
      BY <1>1, <2>1 DEF Next, vars, CleanupExpiredCodes, Tick
    <2>3. HandlerAct(g)
      BY <1>1, <2>2, HandlerSteps DEF CodeInv
    <2>4. Consumes(g)
      BY <2>1, <2>3 DEF HandlerAct, Ends, Starts, PassesRate, Locks, Counts, Stores
    <2>5. PICK c : c = req[g].code
      OBVIOUS
    <2>6. /\ c \in Codes /\ Exists(c) /\ rows[c] \in Row /\ pc[g] = "consume"
      BY <1>1, <2>4, <2>5, Consumed DEF CodeInv
    <2>7. got'[h] = rows[c].id
      BY <1>1, <2>1, <2>4, <2>5 DEF Consumes, CodeInv, TypeOK
    <2>8. rows[c].expires = made[rows[c].id] + CodeTimeout + ZoneOffset
      BY <1>1, <2>6 DEF CodeInv, RowInv, StoredTime
    <2>9. ~(now > rows[c].expires)
      BY <1>1, <2>5, <2>6 DEF CodeInv, ConsumeInv, Expired
    <2>10. made[rows[c].id] \in Nat /\ now \in Nat
      BY <1>1, <2>6 DEF CodeInv, TypeOK, Row
    <2>11. QED
      BY <2>7, <2>8, <2>9, <2>10, UssdAssumption
  <1>2. QED
    BY <1>1, CodeInvariant, PTL DEF Spec, ConsumedInTime

-----------------------------------------------------------------------------
(* The rate limit. *)

LEMMA CountType ==
    ASSUME TypeOK, NEW u \in Users
    PROVE  Count(u) \in Nat /\ limit[u].expires \in Nat /\ limit[u].count \in Nat
  BY DEF TypeOK, Count

LEMMA MadeInFinite ==
    ASSUME TypeOK, NEW u, NEW t
    PROVE  IsFiniteSet(MadeIn(u, t)) /\ Cardinality(MadeIn(u, t)) \in Nat
  <1>1. MadeIn(u, t) \subseteq Handlers
    BY DEF MadeIn, TypeOK
  <1>2. QED
    BY <1>1, UssdAssumption, FS_Subset, FS_CardinalityType

LEMMA InitRateInv == ASSUME Init PROVE RateInv
  <1>1. counted = {} /\ \A h \in Handlers : pc[h] = "idle" /\ made[h] = 0
    BY DEF Init
  <1>2. AloneInv /\ MadeInv /\ WithinLimit
    BY <1>1 DEF Init, AloneInv, MadeInv, WithinLimit, Generating
  <1>3. WindowInv
    <2>1. \A u \in Users : MadeIn(u, now) = {} /\ Count(u) = 0
      BY <1>1 DEF Init, MadeIn, Count
    <2>2. QED
      BY <1>1, <2>1, FS_EmptySet DEF WindowInv
  <1>4. QED
    BY <1>2, <1>3 DEF RateInv

\* A step that makes and counts no code leaves the windows alone.
LEMMA WindowsKept ==
    ASSUME RateInv, UNCHANGED <<req, made, counted, limit, now>>
    PROVE  WindowInv' /\ WithinLimit'
  <1>1. \A u, t : MadeIn(u, t)' = MadeIn(u, t)
    BY DEF MadeIn
  <1>2. WindowInv'
    BY <1>1 DEF RateInv, WindowInv, Count
  <1>3. WithinLimit'
    BY <1>1 DEF RateInv, WithinLimit
  <1>4. QED
    BY <1>2, <1>3

LEMMA ActAlone ==
    ASSUME ~Overlap, TypeOK, ProgramInv, RateInv, NEW h \in Handlers, HandlerAct(h)
    PROVE  AloneInv'
  <1>1. req' = req /\ now' = now /\ \A g \in Handlers \ {h} : pc'[g] = pc[g]
    BY Forward
  <1>2. CASE Counts(h)
    <2>1. pc[h] = "increment" /\ pc'[h] = "ended"
      BY <1>2 DEF Counts, Moves, TypeOK
    <2>2. \A u \in Users \ {req[h].user} : Count(u)' = Count(u)
      BY <1>1, <1>2 DEF Counts, Count, TypeOK
    <2>3. \A g \in Handlers \ {h} : pc[g] \in Generating =>
              req[g].user # req[h].user /\ req[g].user \in Users
      BY <2>1, RequestTypes DEF RateInv, AloneInv, Generating, ProgramInv
    <2>4. QED
      BY <1>1, <2>1, <2>2, <2>3 DEF RateInv, AloneInv, Generating
  <1>3. CASE ~Counts(h)
    <2>1. \A u : Count(u)' = Count(u)
      BY <1>1, <1>3 DEF HandlerAct, Ends, Starts, PassesRate, Locks, Consumes, Stores, Count
    <2>2. CASE Starts(h)
      <3>1. pc'[h] \in {"rate", "lock"} /\ (pc'[h] = "rate" => IsGenerate(h))
        BY <2>2 DEF Starts, Moves, TypeOK
      <3>2. pc'[h] = "rate" =>
                \A g \in Handlers \ {h} : pc[g] \in Generating => req[g].user # req[h].user
        BY <2>2, <3>1 DEF Starts
      <3>3. QED
        BY <1>1, <2>1, <3>1, <3>2 DEF RateInv, AloneInv, Generating
    <2>3. CASE ~Starts(h)
      <3>1. pc'[h] \in Generating =>
                /\ pc[h] \in Generating
                /\ pc'[h] # "rate" /\ Count(req[h].user) < MaxGeneration
        BY <1>3, <2>3
        DEF HandlerAct, Ends, PassesRate, Locks, Consumes, Stores, Moves, Generating,
            RateInv, AloneInv, TypeOK
      <3>2. QED
        BY <1>1, <2>1, <3>1 DEF RateInv, AloneInv
    <2>4. QED
      BY <2>2, <2>3
  <1>4. QED
    BY <1>2, <1>3

LEMMA ActMade ==
    ASSUME TypeOK, ProgramInv, RateInv, NEW h \in Handlers, HandlerAct(h)
    PROVE  MadeInv'
  <1>1. /\ req' = req /\ now' = now /\ pc[h] # "ended"
        /\ \A g \in Handlers \ {h} : pc'[g] = pc[g]
    BY Forward
  <1>2. CASE Counts(h)
    <2>1. pc[h] = "increment" /\ pc'[h] = "ended" /\ made' = made /\ counted' = counted \cup {h}
      BY <1>2 DEF Counts, Moves, TypeOK
    <2>2. QED
      BY <1>1, <2>1 DEF RateInv, MadeInv, ProgramInv, Generating, IsGenerate
  <1>3. ASSUME NEW c \in Codes, Stores(h, c) PROVE MadeInv'
    <2>1. /\ pc'[h] = "increment" /\ made'[h] = now /\ counted' = counted
          /\ \A g \in Handlers \ {h} : made'[g] = made[g]
      BY <1>3, Stored DEF Stores
    <2>2. h \notin counted
      BY <1>1 DEF RateInv, MadeInv
    <2>3. now <= now
      BY DEF TypeOK
    <2>4. QED
      BY <1>1, <2>1, <2>2, <2>3 DEF RateInv, MadeInv, IsGenerate
  <1>4. CASE Ends(h) \/ Starts(h) \/ PassesRate(h) \/ Locks(h) \/ Consumes(h)
    <2>1. pc'[h] # "increment" /\ made' = made /\ counted' = counted
      BY <1>4 DEF Ends, Starts, PassesRate, Locks, Consumes, Moves, TypeOK
    <2>2. h \notin counted
      BY <1>1 DEF RateInv, MadeInv
    <2>3. QED
      BY <1>1, <2>1, <2>2 DEF RateInv, MadeInv, IsGenerate
  <1>5. QED
    BY <1>2, <1>3, <1>4 DEF HandlerAct

\* The code that is counted is the newest of its user, and the counter was below
\* the limit for it.
LEMMA CountedWindow ==
    ASSUME ~Overlap, TypeOK, ProgramInv, RateInv, NEW h \in Handlers, Counts(h)
    PROVE  WindowInv' /\ WithinLimit'
  <1>1. PICK u : u = req[h].user
    OBVIOUS
  <1>2. /\ pc[h] = "increment" /\ made[h] = now
        /\ UNCHANGED <<req, made, now>> /\ counted' = counted \cup {h}
    BY DEF Counts, Moves, RateInv, MadeInv
  <1>3. PICK n \in 1..IncrAttempts :
            limit' = [limit EXCEPT ![u] = [count |-> Count(u) + n, expires |-> now + Window]]
    BY <1>1 DEF Counts
  <1>4. u \in Users /\ Count(u) < MaxGeneration
    BY <1>1, <1>2, RequestTypes DEF ProgramInv, RateInv, AloneInv, Generating
  <1>5. Count(u) \in Nat /\ now \in Nat /\ Window \in Nat \ {0} /\ MaxGeneration \in Nat
    BY <1>4, CountType, UssdAssumption DEF TypeOK
  <1>6. /\ limit'[u].count = Count(u) + n /\ limit'[u].expires = now + Window
        /\ \A v \in Users \ {u} : limit'[v] = limit[v]
    BY <1>4, <1>3 DEF TypeOK
  <1>7. /\ Count(u)' = Count(u) + n
        /\ \A v \in Users \ {u} : Count(v)' = Count(v)
    BY <1>2, <1>5, <1>6 DEF Count
  <1>8. /\ \A v, t : v # u => MadeIn(v, t)' = MadeIn(v, t)
        /\ \A t \in Int : t < now => MadeIn(u, t)' = MadeIn(u, t)
        /\ MadeIn(u, now)' = MadeIn(u, now) \cup {h}
    <2>1. \A t \in Int : t < now => ~(now <= t)
      BY <1>5
    <2>2. now > now - Window /\ now <= now
      BY <1>5
    <2>3. QED
      BY <1>1, <1>2, <2>1, <2>2 DEF MadeIn
  <1>9. Cardinality(MadeIn(u, now)') <= Count(u) + 1
    <2>1. /\ IsFiniteSet(MadeIn(u, now)) /\ Cardinality(MadeIn(u, now)) \in Nat
      BY MadeInFinite
    <2>2. Cardinality(MadeIn(u, now)) <= Count(u)
      BY <1>4 DEF RateInv, WindowInv
    <2>3. Cardinality(MadeIn(u, now) \cup {h}) \in
              {Cardinality(MadeIn(u, now)), Cardinality(MadeIn(u, now)) + 1}
      BY <2>1, FS_AddElement
    <2>4. QED
      BY <1>5, <1>8, <2>1, <2>2, <2>3
  <1>10. \A g \in counted : req[g].user = u => made[g] + Window <= now + Window
    BY <1>5 DEF RateInv, MadeInv, TypeOK
  <1>11. WindowInv'
    <2>1. SUFFICES ASSUME NEW v \in Users
                   PROVE  /\ \A g \in counted \cup {h} : req[g].user = v =>
                                  made[g] + Window <= limit'[v].expires
                          /\ Cardinality(MadeIn(v, now)') <= Count(v)'
      BY <1>2 DEF WindowInv, MadeIn
    <2>2. CASE v = u
      <3>1. /\ \A g \in counted \cup {h} : req[g].user = u =>
                   made[g] + Window <= limit'[u].expires
        BY <1>2, <1>5, <1>6, <1>10
      <3>2. Cardinality(MadeIn(u, now)') \in Nat
        <4>1. IsFiniteSet(MadeIn(u, now) \cup {h})
          BY MadeInFinite, FS_AddElement
        <4>2. QED
          BY <1>8, <4>1, FS_CardinalityType
      <3>3. Cardinality(MadeIn(u, now)') <= Count(u)'
        BY <1>5, <1>7, <1>9, <3>2
      <3>4. QED
        BY <2>2, <3>1, <3>3
    <2>3. CASE v # u
      <3>1. MadeIn(v, now)' = MadeIn(v, now)
        BY <1>1, <1>2, <2>3 DEF MadeIn
      <3>2. \A g \in counted \cup {h} : req[g].user = v => g \in counted
        BY <1>1, <2>3
      <3>3. QED
        BY <1>6, <1>7, <2>3, <3>1, <3>2 DEF RateInv, WindowInv
    <2>4. QED
      BY <2>2, <2>3
  <1>12. WithinLimit'
    <2>1. SUFFICES ASSUME NEW g \in counted \cup {h}, NEW v, v = req[g].user,
                          NEW t, t = made[g]
                   PROVE  Cardinality(MadeIn(v, t)') <= MaxGeneration
      BY <1>2 DEF WithinLimit, MadeIn
    <2>2. CASE v = u /\ t = now
      <3>1. MadeIn(u, now)' = MadeIn(v, t)'
        BY <1>2, <2>2 DEF MadeIn
      <3>2. Cardinality(MadeIn(u, now)') \in Nat
        <4>1. IsFiniteSet(MadeIn(u, now) \cup {h})
          BY MadeInFinite, FS_AddElement
        <4>2. QED
          BY <1>8, <4>1, FS_CardinalityType
      <3>3. QED
        BY <1>4, <1>5, <1>9, <3>1, <3>2
    <2>3. CASE ~(v = u /\ t = now)
      <3>1. g \in counted
        BY <1>1, <1>2, <2>1, <2>3
      <3>2. t \in Nat /\ t <= now
        BY <2>1, <3>1 DEF RateInv, MadeInv, TypeOK
      <3>3. MadeIn(v, t)' = MadeIn(v, t)
        BY <1>5, <1>8, <2>3, <3>2
      <3>4. QED
        BY <2>1, <3>1, <3>3 DEF RateInv, WithinLimit
    <2>4. QED
      BY <2>2, <2>3
  <1>13. QED
    BY <1>11, <1>12

\* A code that is stored is not counted yet.
LEMMA StoredWindow ==
    ASSUME TypeOK, ProgramInv, RateInv, NEW h \in Handlers, NEW c \in Codes, Stores(h, c)
    PROVE  WindowInv' /\ WithinLimit'
  <1>1. /\ pc[h] = "insert" /\ UNCHANGED <<req, counted, limit, now>>
        /\ \A g \in Handlers \ {h} : made'[g] = made[g]
    BY Stored DEF Stores, Moves
  <1>2. \A g \in counted : made'[g] = made[g]
    BY <1>1 DEF RateInv, MadeInv, TypeOK
  <1>3. \A u, t : MadeIn(u, t)' = MadeIn(u, t)
    BY <1>1, <1>2 DEF MadeIn
  <1>4. WindowInv'
    BY <1>1, <1>2, <1>3 DEF RateInv, WindowInv, Count
  <1>5. WithinLimit'
    BY <1>1, <1>2, <1>3 DEF RateInv, WithinLimit
  <1>6. QED
    BY <1>4, <1>5

\* As time passes, codes leave the window, and the counter expires after the last
\* of them.
LEMMA TickWindow ==
    ASSUME TypeOK, ProgramInv, RateInv, Tick
    PROVE  RateInv'
  <1>1. /\ UNCHANGED <<pc, req, made, counted, limit>> /\ now' = now + 1
        /\ \A h \in Handlers : pc[h] # "increment"
    BY DEF Tick
  <1>2. now \in Nat /\ Window \in Nat \ {0} /\ MaxGeneration \in Nat
    BY UssdAssumption DEF TypeOK
  <1>3. \A h \in Handlers : made[h] \in Nat /\ made[h] <= now
    BY DEF RateInv, MadeInv, TypeOK
  <1>4. counted \subseteq Handlers
    BY DEF TypeOK
  <1>5. ASSUME NEW u \in Users PROVE Count(u)' \in {Count(u), 0}
    BY <1>1, <1>2, <1>5, CountType DEF Count
  <1>6. AloneInv'
    <2>1. \A h \in Handlers : pc[h] \in Generating => req[h].user \in Users
      BY RequestTypes DEF ProgramInv
    <2>2. \A u \in Users : Count(u) < MaxGeneration => Count(u)' < MaxGeneration
      BY <1>2, <1>5, CountType
    <2>3. QED
      BY <1>1, <2>1, <2>2 DEF RateInv, AloneInv
  <1>7. MadeInv'
    BY <1>1, <1>2, <1>3 DEF RateInv, MadeInv, IsGenerate
  <1>8. WindowInv'
    <2>1. SUFFICES ASSUME NEW u \in Users
                   PROVE  Cardinality(MadeIn(u, now)') <= Count(u)'
      BY <1>1 DEF RateInv, WindowInv
    <2>2. PICK n : n = now + 1 /\ n = now'
      BY <1>1
    <2>3. MadeIn(u, now)' = {h \in counted : /\ req[h].user = u
                                             /\ made[h] > n - Window /\ made[h] <= n}
      BY <1>1, <2>2 DEF MadeIn
    <2>4. MadeIn(u, now)' \subseteq MadeIn(u, now)
      <3>1. \A h \in counted : made[h] > n - Window => made[h] > now - Window
        BY <1>2, <1>3, <1>4, <2>2
      <3>2. QED
        BY <1>3, <1>4, <2>3, <3>1 DEF MadeIn
    <2>5. limit[u].expires \in Nat /\ Count(u) \in Nat
      BY CountType
    <2>6. CASE limit[u].expires > now + 1
      <3>1. Count(u)' = Count(u)
        BY <1>1, <1>2, <2>5, <2>6 DEF Count
      <3>2. Cardinality(MadeIn(u, now)) <= Count(u)
        BY DEF RateInv, WindowInv
      <3>3. /\ IsFiniteSet(MadeIn(u, now)) /\ Cardinality(MadeIn(u, now)) \in Nat
        BY MadeInFinite
      <3>4. /\ Cardinality(MadeIn(u, now)') <= Cardinality(MadeIn(u, now))
            /\ Cardinality(MadeIn(u, now)') \in Nat
        BY <2>4, <3>3, FS_Subset, FS_CardinalityType
      <3>5. QED
        BY <2>5, <3>1, <3>2, <3>3, <3>4
    <2>7. CASE ~(limit[u].expires > now + 1)
      <3>1. \A h \in counted : req[h].user = u => made[h] + Window <= limit[u].expires
        BY DEF RateInv, WindowInv
      <3>2. \A h \in counted : req[h].user = u => ~(made[h] > n - Window)
        BY <1>2, <1>3, <1>4, <2>2, <2>5, <2>7, <3>1
      <3>3. MadeIn(u, now)' = {}
        BY <2>3, <3>2
      <3>4. Count(u)' = 0
        BY <1>1, <2>7 DEF Count
      <3>5. QED
        BY <3>3, <3>4, FS_EmptySet
    <2>8. QED
      BY <2>6, <2>7
  <1>9. WithinLimit'
    <2>1. \A u, t : MadeIn(u, t)' = MadeIn(u, t)
      BY <1>1 DEF MadeIn
    <2>2. QED
      BY <1>1, <2>1 DEF RateInv, WithinLimit
  <1>10. QED
    BY <1>6, <1>7, <1>8, <1>9 DEF RateInv

LEMMA StepRateInv == ASSUME ~Overlap, CodeInv, RateInv, [Next]_vars PROVE RateInv'
  <1> USE DEF CodeInv
  <1>1. CASE UNCHANGED vars \/ CleanupExpiredCodes
    <2>1. UNCHANGED <<pc, req, made, counted, limit, now>>
      BY <1>1 DEF vars, CleanupExpiredCodes
    <2>2. AloneInv' /\ MadeInv'
      BY <2>1 DEF RateInv, AloneInv, MadeInv, Count, IsGenerate
    <2>3. QED
      BY <2>1, <2>2, WindowsKept DEF RateInv
  <1>2. CASE Tick
    BY <1>2, TickWindow
  <1>3. ASSUME NEW h \in Handlers, Receive(h) \/ Proceed(h) \/ Lose(h) PROVE RateInv'
    <2>1. HandlerAct(h)
      BY <1>3, HandlerSteps
    <2>2. AloneInv' /\ MadeInv'
      BY <2>1, ActAlone, ActMade
    <2>3. WindowInv' /\ WithinLimit'
      <3>1. CASE Counts(h)
        BY <3>1, CountedWindow
      <3>2. ASSUME NEW c \in Codes, Stores(h, c) PROVE WindowInv' /\ WithinLimit'
        BY <3>2, StoredWindow
      <3>3. CASE Ends(h) \/ Starts(h) \/ PassesRate(h) \/ Locks(h) \/ Consumes(h)
        BY <3>3, WindowsKept DEF Ends, Starts, PassesRate, Locks, Consumes, Moves
      <3>4. QED
        BY <2>1, <3>1, <3>2, <3>3 DEF HandlerAct
    <2>4. QED
      BY <2>2, <2>3 DEF RateInv
  <1>4. QED
    BY <1>1, <1>2, <1>3 DEF Next

\* The inductive invariant that the run checks, in every reachable state.
THEOREM Invariant == Spec => []IInv
  <1>1. Init => IInv
    BY InitCodeInv, InitRateInv DEF IInv
  <1>2. IInv /\ [Next]_vars => IInv'
    BY StepCodeInv, StepRateInv DEF IInv
  <1>3. QED
    BY <1>1, <1>2, PTL DEF Spec

\* While no user has two codes generated at the same time, no more of the user's
\* codes than the limit were made, and counted, in any window
\* (docs/USSD_TECHNICAL_FLOW.md:168), though the counter is read before the code
\* is made and raised after it, and lives on with every code.
THEOREM RateLimitHolds == ~Overlap => (Spec => []WithinLimit)
  <1> SUFFICES ASSUME ~Overlap PROVE Spec => []WithinLimit
    OBVIOUS
  <1>1. IInv => WithinLimit
    BY DEF IInv, RateInv
  <1>2. QED
    BY <1>1, Invariant, PTL
=============================================================================
