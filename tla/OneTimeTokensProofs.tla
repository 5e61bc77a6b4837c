------------------------- MODULE OneTimeTokensProofs -------------------------
(***************************************************************************)
(* Theorems about OneTimeTokens, for any requests, keys, secrets and times *)
(* to live.                                                                *)
(***************************************************************************)
EXTENDS OneTimeTokensInvariant, FiniteSetTheorems, TLAPS

LEMMA RequestTypes ==
    ASSUME TypeOK, NEW h \in Handlers
    PROVE  Key(h) \in Keys /\ Secret(h) \in Secrets /\ req[h] \in Requests /\ Secret(h) # None
  BY OneTimeTokensAssumption DEF TypeOK, Key, Secret

LEMMA InitIInv == ASSUME Init PROVE IInv
  <1>1. TypeOK
    BY OneTimeTokensAssumption DEF Init, TypeOK, PCs, Replies, NoSecret, Entry
  <1>2. ReplyInv /\ SourceInv
    BY DEF Init, ReplyInv, SourceInv
  <1>3. AloneInv /\ StandsInv /\ HeldInv
    BY DEF Init, AloneInv, Active, StandsInv, HeldInv
  <1>4. QED
    BY <1>1, <1>2, <1>3 DEF IInv, SerialInv

-----------------------------------------------------------------------------
(* What one step of a handler can be. *)

\* Handler h moves from a statement to the next one, with an answer or without.
Moves(h, from, next, outcome) ==
    /\ pc[h] \in from /\ pc'[h] = next
    /\ reply'[h] = outcome
    /\ \A g \in Handlers \ {h} : pc'[g] = pc[g] /\ reply'[g] = reply[g]
    /\ req' = req /\ now' = now /\ client' = client

\* Redis answered the GET of h.
Asks(h) ==
    /\ heard'[h] = TRUE
    /\ \A g \in Handlers \ {h} : heard'[g] = heard[g]

Found(h) == Live(Key(h)) /\ (~IsQR(h) => store[Key(h)].value = Secret(h))

Starts(h) ==
    /\ \E next \in {"set", "get"} : Moves(h, {"idle"}, next, None)
    /\ Overlap \/ \A g \in Handlers : Active(g) => Key(g) # Key(h)
    /\ UNCHANGED <<heard, store, latest>>

EndsWithout(h) ==
    /\ \E outcome \in {"issued", "error"} : Moves(h, {"set", "get"}, "ended", outcome)
    /\ UNCHANGED <<heard, store, latest>>

Refuses(h) ==
    /\ Moves(h, {"get"}, "ended", "refused")
    /\ ~Found(h)
    /\ Asks(h)
    /\ UNCHANGED <<store, latest>>

RefusesUnheard(h) ==
    /\ Moves(h, {"get"}, "ended", "refused")
    /\ UNCHANGED <<heard, store, latest>>

Reads(h) ==
    /\ Moves(h, {"get"}, "del", None)
    /\ client /\ Found(h)
    /\ Asks(h)
    /\ UNCHANGED <<store, latest>>

Stores(h) ==
    /\ \E outcome \in {"issued", "error"} : Moves(h, {"set"}, "ended", outcome)
    /\ client /\ Set(h)
    /\ UNCHANGED heard

Deletes(h) ==
    /\ \E outcome \in {"redeemed", None} : Moves(h, {"del"}, "ended", outcome)
    /\ store' = [store EXCEPT ![Key(h)] = NoSecret] /\ Spend(h)
    /\ UNCHANGED heard

Leaves(h) ==
    /\ Moves(h, {"del"}, "ended", "redeemed")
    /\ UNCHANGED <<heard, store, latest>>

Passes(h) ==
    /\ Moves(h, {"get"}, "ended", "redeemed")
    /\ ~client /\ ~IsQR(h)
    /\ UNCHANGED <<heard, store, latest>>

Unseen(h) ==
    Starts(h) \/ EndsWithout(h) \/ Refuses(h) \/ RefusesUnheard(h) \/ Reads(h)
HandlerAct(h) == Unseen(h) \/ Stores(h) \/ Deletes(h) \/ Leaves(h) \/ Passes(h)

LEMMA HandlerSteps ==
    ASSUME TypeOK, ReplyInv, NEW h \in Handlers, HandlerStep(h)
    PROVE  /\ HandlerAct(h)
           /\ pc' \in [Handlers -> PCs] /\ reply' \in [Handlers -> Replies]
           /\ heard' \in [Handlers -> BOOLEAN]
  <1> USE DEF TypeOK, ReplyInv, HandlerAct, Unseen, Moves, Goto, Answer
  <1>1. CASE Receive(h)
    <2>1. Starts(h)
      BY <1>1 DEF Receive, Starts
    <2>2. QED
      BY <1>1, <2>1 DEF Receive, PCs
  <1>2. CASE GenerateQRCode(h)
    <2>1. Stores(h) \/ EndsWithout(h)
      BY <1>2 DEF GenerateQRCode, Stores, EndsWithout
    <2>2. QED
      BY <1>2, <2>1 DEF GenerateQRCode, PCs, Replies
  <1>3. CASE ValidateBVN(h)
    <2>1. Stores(h) \/ EndsWithout(h)
      BY <1>3 DEF ValidateBVN, Stores, EndsWithout
    <2>2. QED
      BY <1>3, <2>1 DEF ValidateBVN, PCs, Replies
  <1>4. CASE ProcessQRCode(h)
    <2>1. Reads(h) \/ Refuses(h) \/ EndsWithout(h)
      BY <1>4 DEF ProcessQRCode, Hears, Asks, Found, Reads, Refuses, EndsWithout
    <2>2. QED
      BY <1>4, <2>1 DEF ProcessQRCode, Hears, PCs, Replies
  <1>5. CASE VerifyOTP(h)
    <2>1. Reads(h) \/ Refuses(h) \/ RefusesUnheard(h) \/ Passes(h)
      BY <1>5 DEF VerifyOTP, Hears, Asks, Found, Matches, Reads, Refuses, RefusesUnheard,
                  Passes
    <2>2. QED
      BY <1>5, <2>1 DEF VerifyOTP, Hears, PCs, Replies
  <1>6. CASE Delete(h)
    <2>1. Deletes(h) \/ Leaves(h)
      BY <1>6 DEF Delete, Deletes, Leaves
    <2>2. QED
      BY <1>6, <2>1 DEF Delete, PCs, Replies
  <1>7. QED
    BY <1>1, <1>2, <1>3, <1>4, <1>5, <1>6 DEF HandlerStep

\* The statements before and after: a handler answers once, at its end.
LEMMA Moved ==
    ASSUME NEW h \in Handlers, HandlerAct(h)
    PROVE  /\ req' = req /\ now' = now /\ client' = client
           /\ pc[h] # "ended"
           /\ pc'[h] # "ended" => reply'[h] = None
           /\ \A g \in Handlers \ {h} :
                 pc'[g] = pc[g] /\ reply'[g] = reply[g] /\ heard'[g] = heard[g]
  BY DEF HandlerAct, Unseen, Starts, EndsWithout, Refuses, RefusesUnheard, Reads, Stores,
         Deletes, Leaves, Passes, Moves, Asks

LEMMA StepReplyInv ==
    ASSUME ReplyInv, NEW h \in Handlers, HandlerAct(h)
    PROVE  ReplyInv'
  <1>1. /\ pc'[h] \in {"idle", "set", "get"} => ~heard'[h]
        /\ pc'[h] = "del" => client'
    BY DEF ReplyInv, HandlerAct, Unseen, Starts, EndsWithout, Refuses, RefusesUnheard,
           Reads, Stores, Deletes, Leaves, Passes, Moves, Asks
  <1>2. QED
    BY <1>1, Moved DEF ReplyInv

\* What a start finds of the old process: requests that ended without an answer.
LEMMA Restarted ==
    ASSUME TypeOK, Restart
    PROVE  /\ pc' \in [Handlers -> PCs] /\ client' \in BOOLEAN
           /\ UNCHANGED <<req, reply, heard, store, latest, now>>
           /\ \A h \in Handlers : ~Active(h)'
           /\ \A h \in Handlers : pc'[h] \in {"idle", "ended"}
           /\ \A h \in Handlers : pc'[h] = "idle" => pc[h] = "idle"
  BY DEF Restart, TypeOK, PCs, Active

\* What a SET stores.
LEMMA Stored ==
    ASSUME TypeOK, NEW h \in Handlers, Stores(h)
    PROVE  /\ store'[Key(h)] \in Entry /\ store'[Key(h)].value = Secret(h)
           /\ store'[Key(h)].expires > now /\ store'[Key(h)] = latest'[Key(h)].entry
           /\ latest'[Key(h)].spent = FALSE
           /\ \A k \in Keys \ {Key(h)} : store'[k] = store[k] /\ latest'[k] = latest[k]
  <1>1. Key(h) \in Keys /\ Secret(h) \in Secrets
    BY RequestTypes
  <1>2. now \in Nat /\ TTL[Key(h)] \in Nat \ {0}
    BY <1>1, OneTimeTokensAssumption DEF TypeOK
  <1>3. now + TTL[Key(h)] \in Nat /\ now + TTL[Key(h)] > now
    BY <1>2
  <1>4. QED
    BY <1>1, <1>3 DEF Stores, Set, TypeOK, Entry

LEMMA StepAlways ==
    ASSUME TypeOK, ReplyInv, SourceInv, [Next]_vars
    PROVE  TypeOK' /\ ReplyInv' /\ SourceInv'
  <1>1. CASE UNCHANGED vars \/ Tick
    BY <1>1 DEF vars, Tick, TypeOK, ReplyInv, SourceInv
  <1>0. CASE Restart
    BY <1>0, Restarted DEF TypeOK, ReplyInv, SourceInv
  <1>2. ASSUME NEW h \in Handlers, HandlerStep(h)
        PROVE  TypeOK' /\ ReplyInv' /\ SourceInv'
    <2>1. /\ HandlerAct(h)
          /\ pc' \in [Handlers -> PCs] /\ reply' \in [Handlers -> Replies]
          /\ heard' \in [Handlers -> BOOLEAN]
      BY <1>2, HandlerSteps
    <2>2. req' = req /\ now' = now /\ client' = client /\ ReplyInv'
      BY <2>1, Moved, StepReplyInv
    <2>3. Key(h) \in Keys /\ req[h] \in Requests
      BY RequestTypes
    <2>4. CASE Unseen(h) \/ Leaves(h) \/ Passes(h)
      <3>1. store' = store /\ latest' = latest
        BY <2>4 DEF Unseen, Starts, EndsWithout, Refuses, RefusesUnheard, Reads, Leaves,
                    Passes
      <3>2. QED
        BY <2>1, <2>2, <3>1 DEF TypeOK, SourceInv
    <2>5. CASE Stores(h)
      <3>1. store' \in [Keys -> Entry] /\ latest' \in [Keys -> [entry : Entry, spent : BOOLEAN]]
        <4>1. [entry |-> store'[Key(h)], spent |-> FALSE] \in [entry : Entry, spent : BOOLEAN]
          BY <2>5, Stored
        <4>2. QED
          BY <2>3, <2>5, <4>1, Stored DEF Stores, Set, TypeOK
      <3>2. SourceInv'
        <4>1. req[h].key = Key(h) /\ req[h].secret = store'[Key(h)].value
          BY <2>5, Stored DEF Key, Secret
        <4>2. \A k \in Keys \ {Key(h)} : store'[k] = store[k]
          BY <2>5, Stored
        <4>3. QED
          BY <2>3, <4>1, <4>2 DEF SourceInv
      <3>3. QED
        BY <2>1, <2>2, <3>1, <3>2 DEF TypeOK
    <2>6. CASE Deletes(h)
      <3>1. NoSecret \in Entry
        BY DEF NoSecret, Entry
      <3>2. store' \in [Keys -> Entry]
        BY <2>6, <3>1 DEF Deletes, TypeOK
      <3>3. latest' \in [Keys -> [entry : Entry, spent : BOOLEAN]]
        <4>1. (latest[Key(h)].spent \/ latest[Key(h)].entry.value = Secret(h)) \in BOOLEAN
          OBVIOUS
        <4>2. PICK b \in BOOLEAN : latest' = [latest EXCEPT ![Key(h)].spent = b]
          BY <2>6, <4>1, Zenon DEF Deletes, Spend
        <4>3. QED
          BY <2>3, <4>2 DEF TypeOK
      <3>4. SourceInv'
        BY <2>6 DEF Deletes, SourceInv, TypeOK
      <3>5. QED
        BY <2>1, <2>2, <3>2, <3>3, <3>4 DEF TypeOK
    <2>7. QED
      BY <2>1, <2>4, <2>5, <2>6 DEF HandlerAct
  <1>3. QED
    BY <1>0, <1>1, <1>2 DEF Next

-----------------------------------------------------------------------------
(* One request at a time about each key. *)

\* What a handler deletes is the latest secret, which is spent by that.
LEMMA Deleted ==
    ASSUME TypeOK, SerialInv, NEW h \in Handlers, Deletes(h)
    PROVE  /\ store'[Key(h)] = NoSecret /\ latest'[Key(h)].spent = TRUE
           /\ \A k \in Keys \ {Key(h)} : store'[k] = store[k] /\ latest'[k] = latest[k]
  <1>1. pc[h] = "del" /\ Key(h) \in Keys /\ now \in Nat
    BY RequestTypes DEF Deletes, Moves, TypeOK
  <1>2. Live(Key(h)) /\ store[Key(h)].value = Secret(h)
    BY <1>1 DEF SerialInv, HeldInv
  <1>3. store[Key(h)] # NoSecret
    BY <1>1, <1>2 DEF Live, NoSecret
  <1>4. store[Key(h)] = latest[Key(h)].entry
    BY <1>1, <1>3 DEF SerialInv, StandsInv
  <1>5. latest[Key(h)].entry.value = Secret(h)
    BY <1>2, <1>4
  <1>6. /\ latest'[Key(h)] = [latest[Key(h)] EXCEPT
                !.spent = @ \/ latest[Key(h)].entry.value = Secret(h)]
        /\ \A k \in Keys \ {Key(h)} : latest'[k] = latest[k]
    BY <1>1 DEF Deletes, Spend, TypeOK
  <1>7. latest[Key(h)] \in [entry : Entry, spent : BOOLEAN]
    BY <1>1 DEF TypeOK
  <1>8. latest'[Key(h)].spent = TRUE
    BY <1>5, <1>6, <1>7
  <1>9. QED
    BY <1>1, <1>6, <1>8 DEF Deletes, TypeOK

LEMMA StepSerial ==
    ASSUME ~Overlap, TypeOK, ReplyInv, SourceInv, SerialInv, [Next]_vars
    PROVE  SerialInv'
  <1> USE DEF SerialInv
  <1>1. CASE UNCHANGED vars
    BY <1>1 DEF vars, AloneInv, Active, Key, StandsInv, HeldInv, Live, Secret
  <1>2. CASE Tick
    BY <1>2 DEF Tick, AloneInv, Active, Key, StandsInv, HeldInv
  <1>0. CASE Restart
    <2>1. StandsInv' /\ HeldInv'
      BY <1>0, Restarted DEF StandsInv, HeldInv
    <2>2. AloneInv'
      BY <1>0, Restarted DEF AloneInv
    <2>3. QED
      BY <2>1, <2>2
  <1>3. ASSUME NEW h \in Handlers, HandlerStep(h)
        PROVE  SerialInv'
    <2>1. HandlerAct(h)
      BY <1>3, HandlerSteps
    <2>2. /\ req' = req /\ now' = now
          /\ \A g \in Handlers \ {h} : pc'[g] = pc[g]
          /\ \A g \in Handlers : Key(g)' = Key(g) /\ Secret(g)' = Secret(g)
      BY <2>1, Moved DEF Key, Secret
    <2>3. AloneInv'
      <3>1. Active(h)' =>
                Active(h) \/ \A g \in Handlers : Active(g) => Key(g) # Key(h)
        BY <2>1 DEF HandlerAct, Unseen, Starts, EndsWithout, Refuses, RefusesUnheard,
                    Reads, Stores, Deletes, Leaves, Passes, Moves, Active
      <3>2. \A g \in Handlers \ {h} : Active(g)' <=> Active(g)
        BY <2>2 DEF Active
      <3>3. QED
        BY <2>2, <3>1, <3>2 DEF AloneInv
    <2>4. \A g \in Handlers \ {h} : pc[g] = "del" /\ Active(h) => Key(g) # Key(h)
      BY DEF AloneInv, Active
    <2>5. Key(h) \in Keys /\ \A g \in Handlers : Key(g) \in Keys
      BY RequestTypes
    <2>6. CASE Unseen(h) \/ Leaves(h) \/ Passes(h)
      <3>1. store' = store /\ latest' = latest
        BY <2>6 DEF Unseen, Starts, EndsWithout, Refuses, RefusesUnheard, Reads, Leaves,
                    Passes
      <3>2. pc'[h] = "del" => Found(h)
        BY <2>6 DEF Unseen, Starts, EndsWithout, Refuses, RefusesUnheard, Reads, Leaves,
                    Passes, Moves
      <3>3. Found(h) => Live(Key(h)) /\ store[Key(h)].value = Secret(h)
        <4>1. SUFFICES ASSUME Found(h), Key(h) \in QRCodes
                       PROVE  store[Key(h)].value = Secret(h)
          BY DEF Found, IsQR
        <4>2. store[Key(h)] # NoSecret
          BY <4>1 DEF Found, Live, NoSecret, TypeOK
        <4>3. PICK r \in Requests : r.key = Key(h) /\ r.secret = store[Key(h)].value
          BY <2>5, <4>2 DEF SourceInv
        <4>4. req[h] \in Requests /\ req[h].key = Key(h) /\ req[h].secret = Secret(h)
          BY RequestTypes DEF Key, Secret
        <4>5. QED
          BY <4>1, <4>3, <4>4, OneTimeTokensAssumption
      <3>4. HeldInv'
        BY <2>2, <3>1, <3>2, <3>3 DEF HeldInv, Live
      <3>5. QED
        BY <2>3, <3>1, <3>4 DEF StandsInv
    <2>7. CASE Stores(h)
      <3>1. StandsInv'
        BY <2>7, Stored DEF StandsInv
      <3>2. pc'[h] # "del" /\ Active(h)
        BY <2>7 DEF Stores, Moves, Active
      <3>3. HeldInv'
        <4>1. \A k \in Keys \ {Key(h)} : store'[k] = store[k]
          BY <2>7, Stored
        <4>2. \A g \in Handlers : pc'[g] = "del" =>
                  pc[g] = "del" /\ store'[Key(g)] = store[Key(g)]
          BY <2>2, <2>4, <2>5, <3>2, <4>1
        <4>3. QED
          BY <2>2, <4>2 DEF HeldInv, Live
      <3>4. QED
        BY <2>3, <3>1, <3>3
    <2>8. CASE Deletes(h)
      <3>1. StandsInv'
        BY <2>8, Deleted DEF StandsInv
      <3>2. pc'[h] # "del" /\ Active(h)
        BY <2>8 DEF Deletes, Moves, Active
      <3>3. HeldInv'
        <4>1. \A k \in Keys \ {Key(h)} : store'[k] = store[k]
          BY <2>8, Deleted
        <4>2. \A g \in Handlers : pc'[g] = "del" =>
                  pc[g] = "del" /\ store'[Key(g)] = store[Key(g)]
          BY <2>2, <2>4, <2>5, <3>2, <4>1
        <4>3. QED
          BY <2>2, <4>2 DEF HeldInv, Live
      <3>4. QED
        BY <2>3, <3>1, <3>3
    <2>9. QED
      BY <2>1, <2>6, <2>7, <2>8 DEF HandlerAct
  <1>4. QED
    BY <1>0, <1>1, <1>2, <1>3 DEF Next

\* The inductive invariant that the run checks, in every reachable state.
THEOREM Invariant == Spec => []IInv
  <1>1. IInv /\ [Next]_vars => IInv'
    BY StepAlways, StepSerial DEF IInv
  <1>2. QED
    BY <1>1, InitIInv, PTL DEF Spec

\* Every variable keeps its type, whether requests overlap or not.
THEOREM TypeCorrect == Spec => []TypeOK
  BY Invariant, PTL DEF IInv

\* While requests about one key do not overlap, the latest secret that was stored,
\* unexpired and not redeemed, is never refused by a request that Redis answered
\* ("Invalid or expired OTP", auth_service.go:348).
THEOREM ValidIsNotRefused == ~Overlap => (Spec => RefusedIsInvalid)
  <1> SUFFICES ASSUME ~Overlap PROVE Spec => RefusedIsInvalid
    OBVIOUS
  <1> DEFINE Right == \A h \in Handlers : pc[h] = "get" /\ reply'[h] = "refused" /\ heard'[h] =>
                          ~IsLatest(h) \/ latest[Key(h)].spent
  <1>1. ASSUME IInv, [Next]_vars PROVE Right
    <2>1. SUFFICES ASSUME NEW h \in Handlers, pc[h] = "get", reply'[h] = "refused",
                          heard'[h], IsLatest(h), ~latest[Key(h)].spent
                   PROVE  FALSE
      OBVIOUS
    <2>2. reply[h] = None /\ ~heard[h]
      BY <1>1, <2>1 DEF IInv, ReplyInv
    <2>3. reply'[h] # reply[h]
      BY <2>1, <2>2 DEF None
    <2>4. PICK g \in Handlers : HandlerAct(g)
      BY <1>1, <2>3, HandlerSteps DEF Next, vars, Tick, Restart, IInv
    <2>5. g = h
      BY <2>3, <2>4, Moved
    <2>6. Refuses(h)
      BY <2>1, <2>2, <2>4, <2>5 DEF HandlerAct, Unseen, Starts, EndsWithout, Refuses,
            RefusesUnheard, Reads, Stores, Deletes, Leaves, Passes, Moves, None
    <2>7. ~Found(h)
      BY <2>6 DEF Refuses
    <2>8. store[Key(h)] = latest[Key(h)].entry
      BY <1>1, <2>1, RequestTypes DEF IInv, SerialInv, StandsInv
    <2>9. QED
      BY <2>1, <2>7, <2>8 DEF Found, IsLatest, Live
  <1>2. QED
    BY <1>1, Invariant, PTL DEF Spec, RefusedIsInvalid

-----------------------------------------------------------------------------
(* Refinement. *)

Standing(k) == IF Live(k) /\ ~latest[k].spent THEN store[k].value ELSE None

\* A step that redeems nothing leaves the redemptions alone, and one that touches
\* neither store nor time leaves what stands alone.
LEMMA NothingRedeemed ==
    ASSUME NEW h \in Handlers, HandlerAct(h), reply[h] = None, reply'[h] # "redeemed"
    PROVE  \A k, s : RedeemersOf(k, s)' = RedeemersOf(k, s)
  BY Moved DEF RedeemersOf, Key, Secret, None

LEMMA SameStanding ==
    ASSUME UNCHANGED <<store, latest, now>>
    PROVE  \A k \in Keys : Standing(k)' = Standing(k)
  BY DEF Standing, Live

\* A redemption counts once, for the secret it redeems.
LEMMA OneRedeemed ==
    ASSUME TypeOK, NEW h \in Handlers, HandlerAct(h), reply[h] = None, reply'[h] = "redeemed"
    PROVE  \A k \in Keys, s \in Secrets :
              Cardinality(RedeemersOf(k, s)') =
                  IF k = Key(h) /\ s = Secret(h) THEN Cardinality(RedeemersOf(k, s)) + 1
                                                 ELSE Cardinality(RedeemersOf(k, s))
  <1> TAKE k \in Keys, s \in Secrets
  <1>1. RedeemersOf(k, s)' = IF k = Key(h) /\ s = Secret(h)
                             THEN RedeemersOf(k, s) \cup {h} ELSE RedeemersOf(k, s)
    BY Moved DEF RedeemersOf, Key, Secret
  <1>2. h \notin RedeemersOf(k, s)
    BY DEF RedeemersOf, None
  <1>3. IsFiniteSet(RedeemersOf(k, s))
    <2>1. RedeemersOf(k, s) \subseteq Handlers
      BY DEF RedeemersOf
    <2>2. QED
      BY <2>1, OneTimeTokensAssumption, FS_Subset
  <1>4. QED
    BY <1>1, <1>2, <1>3, FS_AddElement

\* QR codes and OTPs are one-time secrets while requests about one key do not
\* overlap: each is redeemed only while it stands, from its issue until it is
\* redeemed and deleted, replaced or expired; but a process without Redis accepts
\* every OTP.
THEOREM OneTimeSecrets == ~Overlap => (Spec => ImplementsOneTimeSecret)
  <1> SUFFICES ASSUME ~Overlap PROVE Spec => ImplementsOneTimeSecret
    OBVIOUS
  <1> DEFINE standing == [k \in Keys |-> IF Live(k) /\ ~latest[k].spent
                                         THEN store[k].value ELSE None]
             redeemed == [k \in Keys |-> RedeemedUnder(k)]
  <1>1. Init => Promise!Init
    <2>1. SUFFICES ASSUME Init PROVE Promise!Init
      OBVIOUS
    <2>2. \A k \in Keys : ~Live(k)
      BY <2>1 DEF Init, Live, NoSecret
    <2>3. \A k, s : RedeemersOf(k, s) = {}
      BY <2>1 DEF Init, RedeemersOf, None
    <2>4. \A k : RedeemedUnder(k) = [s \in Secrets |-> 0]
      BY <2>3, FS_EmptySet DEF RedeemedUnder
    <2>5. QED
      BY <2>1, <2>2, <2>4 DEF Init, Promise!Init
  <1>2. ASSUME IInv, [Next]_vars PROVE [Promise!Next]_<<standing, redeemed, client>>
    <2>1. CASE UNCHANGED vars
      <3>1. UNCHANGED <<standing, redeemed, client>>
        BY <2>1 DEF vars, Live, RedeemedUnder, RedeemersOf, Key, Secret
      <3>2. QED
        BY <3>1
    <2>2. CASE Tick
      <3>1. PICK lapsed \in SUBSET Keys :
                lapsed = {k \in Keys : Live(k) /\ ~Live(k)'}
        OBVIOUS
      <3>2. UNCHANGED <<store, latest, reply, req, client>> /\ now' = now + 1 /\ now \in Nat
        BY <1>2, <2>2 DEF Tick, IInv, TypeOK
      <3>3. \A k \in Keys : Live(k)' => Live(k)
        BY <1>2, <3>2 DEF Live, IInv, TypeOK, Entry
      <3>4. standing' = [k \in Keys |-> IF k \in lapsed THEN None ELSE standing[k]]
        BY <3>1, <3>2, <3>3
      <3>5. redeemed' = redeemed
        BY <3>2 DEF RedeemedUnder, RedeemersOf, Key, Secret
      <3>6. QED
        BY <3>2, <3>4, <3>5 DEF Promise!Next, Promise!Lapse
    <2>5. CASE Restart
      <3>1. UNCHANGED <<store, latest, reply, req, now>> /\ client' \in BOOLEAN
        BY <1>2, <2>5, Restarted DEF IInv
      <3>2. standing' = standing
        BY <3>1 DEF Live
      <3>3. redeemed' = redeemed
        BY <3>1 DEF RedeemedUnder, RedeemersOf, Key, Secret
      <3>4. QED
        BY <3>1, <3>2, <3>3 DEF Promise!Next, Promise!Restart
    <2>3. ASSUME NEW h \in Handlers, HandlerStep(h)
          PROVE  [Promise!Next]_<<standing, redeemed, client>>
      <3>1. /\ HandlerAct(h) /\ reply[h] = None /\ TypeOK /\ SerialInv
            /\ client' = client /\ now' = now
            /\ pc[h] = "del" => client
        BY <1>2, <2>3, HandlerSteps, Moved DEF IInv, ReplyInv
      <3>2. PICK key \in Keys, secret \in Secrets : key = Key(h) /\ secret = Secret(h)
        BY <3>1, RequestTypes
      <3>3. standing = [k \in Keys |-> Standing(k)]
        BY DEF Standing
      <3>4. standing' = [k \in Keys |-> Standing(k)']
        BY DEF Standing
      <3>5. redeemed = [k \in Keys |-> [s \in Secrets |-> Cardinality(RedeemersOf(k, s))]]
        BY DEF RedeemedUnder
      <3>6. redeemed' = [k \in Keys |-> [s \in Secrets |-> Cardinality(RedeemersOf(k, s)')]]
        BY DEF RedeemedUnder
      <3> HIDE DEF standing, redeemed
      <3>7. CASE Unseen(h)
        <4>1. reply'[h] # "redeemed" /\ UNCHANGED <<store, latest, now>>
          BY <3>1, <3>7 DEF Unseen, Starts, EndsWithout, Refuses, RefusesUnheard, Reads,
                          Moves, None
        <4>2. standing' = standing
          BY <3>3, <3>4, <4>1, SameStanding
        <4>3. redeemed' = redeemed
          BY <3>1, <3>5, <3>6, <4>1, NothingRedeemed
        <4>4. QED
          BY <3>1, <4>2, <4>3
      <3>8. CASE Stores(h)
        <4>1. reply'[h] # "redeemed" /\ now' = now /\ client
          BY <3>8 DEF Stores, Moves
        <4>2. redeemed' = redeemed
          BY <3>1, <3>5, <3>6, <4>1, NothingRedeemed
        <4>3. /\ Standing(key)' = secret
              /\ \A k \in Keys \ {key} : Standing(k)' = Standing(k)
          BY <3>2, <3>1, <3>8, <4>1, Stored DEF Standing, Live
        <4>4. standing' = [standing EXCEPT ![key] = secret]
          BY <3>3, <3>4, <4>3
        <4>5. Promise!Issue(key, secret)
          BY <3>1, <4>1, <4>2, <4>4 DEF Promise!Issue, standing, redeemed
        <4>6. QED
          BY <4>5 DEF Promise!Next
      <3>9. reply'[h] = "redeemed" =>
                redeemed' = [redeemed EXCEPT ![key][secret] = @ + 1]
        <4>1. reply'[h] = "redeemed" => \A k \in Keys, s \in Secrets :
                  Cardinality(RedeemersOf(k, s)') =
                      IF k = key /\ s = secret THEN Cardinality(RedeemersOf(k, s)) + 1
                                               ELSE Cardinality(RedeemersOf(k, s))
          BY <3>2, <3>1, OneRedeemed
        <4>2. QED
          BY <3>5, <3>6, <4>1
      <3>10. CASE Deletes(h) \/ Leaves(h)
        <4>1. pc[h] = "del"
          BY <3>10 DEF Deletes, Leaves, Moves
        <4>2. Live(Key(h)) /\ store[Key(h)].value = Secret(h)
          BY <3>1, <4>1 DEF SerialInv, HeldInv
        <4>3. ~latest[Key(h)].spent
          BY <3>2, <3>1, <4>2 DEF SerialInv, StandsInv, Live, NoSecret, TypeOK
        <4>4. standing[key] = secret
          BY <3>2, <3>3, <4>2, <4>3 DEF Standing
        <4>5. CASE Deletes(h)
          <5>1. /\ Standing(key)' = None
                /\ \A k \in Keys \ {key} : Standing(k)' = Standing(k)
            BY <3>2, <3>1, <4>1, <4>5, Deleted DEF Standing, Live
          <5>2. standing' = [standing EXCEPT ![key] = None]
            BY <3>3, <3>4, <5>1
          <5>3. CASE reply'[h] = "redeemed"
            <6>1. Promise!Redeem(key, secret, TRUE)
              BY <3>1, <3>9, <4>1, <4>4, <5>2, <5>3
              DEF Promise!Redeem, Promise!Count, standing, redeemed
            <6>2. QED
              BY <6>1 DEF Promise!Next
          <5>4. CASE reply'[h] # "redeemed"
            <6>1. redeemed' = redeemed
              BY <3>1, <3>5, <3>6, <5>4, NothingRedeemed
            <6>2. standing' = [k \in Keys |-> IF k \in {key} THEN None ELSE standing[k]]
              BY <3>3, <5>2
            <6>3. Promise!Lapse({key})
              BY <3>1, <6>1, <6>2 DEF Promise!Lapse, standing, redeemed
            <6>4. QED
              BY <3>2, <6>3 DEF Promise!Next
          <5>5. QED
            BY <5>3, <5>4
        <4>6. CASE Leaves(h)
          <5>1. standing' = standing /\ reply'[h] = "redeemed"
            BY <3>3, <3>4, <3>1, <4>6, SameStanding DEF Leaves, Moves
          <5>2. Promise!Redeem(key, secret, FALSE)
            BY <3>1, <3>9, <4>1, <4>4, <5>1
            DEF Promise!Redeem, Promise!Count, standing, redeemed
          <5>3. QED
            BY <5>2 DEF Promise!Next
        <4>7. QED
          BY <3>10, <4>5, <4>6
      <3>11. CASE Passes(h)
        <4>1. reply'[h] = "redeemed" /\ ~client /\ key \in Keys \ QRCodes
          BY <3>2, <3>11 DEF Passes, Moves, IsQR
        <4>2. standing' = standing
          BY <3>3, <3>4, <3>1, <3>11, SameStanding DEF Passes
        <4>3. Promise!Pass(key, secret)
          BY <3>1, <3>9, <4>1, <4>2 DEF Promise!Pass, Promise!Count, standing, redeemed
        <4>4. QED
          BY <4>3 DEF Promise!Next
      <3>12. QED
        BY <3>1, <3>7, <3>8, <3>10, <3>11 DEF HandlerAct
    <2>4. QED
      BY <1>2, <2>1, <2>2, <2>3, <2>5 DEF Next
  <1>3. QED
    BY <1>1, <1>2, Invariant, PTL DEF Spec, ImplementsOneTimeSecret, Promise!Spec
=============================================================================
