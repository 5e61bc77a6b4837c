---------------------------- MODULE SessionsProofs ----------------------------
(***************************************************************************)
(* Theorems about Sessions, for any set of handlers, people, requests and  *)
(* account ids, any start of the id sequence and any life of a token.      *)
(***************************************************************************)
EXTENDS SessionsInvariant, FiniteSetTheorems, TLAPS

HandlerAct(h) ==
    \/ Receive(h) \/ InsertUser(h) \/ InsertAccount(h) \/ CommitUser(h)
    \/ Password(h) \/ Issue(h) \/ Revoke(h) \/ CheckBlacklist(h)
    \/ ValidateToken(h) \/ GetUserAccount(h) \/ Lose(h)

LEMMA StepCases ==
    ASSUME [Next]_vars
    PROVE  (\E h \in Handlers : HandlerAct(h)) \/ Tick \/ UNCHANGED vars
  BY DEF Next, HandlerAct

LEMMA RequestType ==
    ASSUME TypeOK, NEW h \in Handlers
    PROVE  /\ req[h].op \in {"register", "login", "logout", "use"}
           /\ req[h].op \in {"register", "login"} => Person(h) \in People
  BY SessionsAssumption DEF TypeOK, Person

-----------------------------------------------------------------------------
(* The sequence of user ids. *)

DrewSet == {h \in Handlers : Drew(h)}

LEMMA DrewCounted ==
    ASSUME NEW S \in SUBSET Handlers
    PROVE  IsFiniteSet(S) /\ Cardinality(S) \in Nat /\ Cardinality(S) <= Cardinality(Handlers)
           /\ Cardinality(Handlers) \in Nat
  BY FS_Subset, FS_CardinalityType, SessionsAssumption

\* A drawn id is the next one of the sequence, and has not been used.
LEMMA DrawnId ==
    ASSUME IInv, NEW h \in Handlers, InsertUser(h)
    PROVE  /\ lastId' = lastId + 1 /\ lastId \in Nat /\ lastId' \in UserIds
           /\ \E n \in LastIds : /\ n <= lastId' /\ n \in Nat
                                 /\ lastId' <= n + Cardinality({g \in Handlers : Drew(g)'})
  <1> DEFINE S == {g \in Handlers : Drew(g)}
             T == {g \in Handlers : Drew(g)'}
  <1>0. TypeOK /\ HandlerInv /\ pc[h] = "user" /\ lastId' = lastId + 1 /\ req' = req
    BY DEF InsertUser, IInv
  <1>1. PICK n \in LastIds : n <= lastId /\ lastId <= n + Cardinality(S)
    BY DEF IInv, SequenceInv
  <1>2. n \in Nat /\ lastId \in Nat
    <2>1. LastIds \subseteq Nat
      BY SessionsAssumption
    <2>2. Cardinality(Handlers) \in Nat
      BY DrewCounted
    <2>3. UserIds \subseteq Nat
      BY <2>1, <2>2 DEF UserIds
    <2>4. QED
      BY <1>0, <2>1, <2>3 DEF TypeOK
  <1>3. h \notin S
    BY <1>0 DEF Drew
  <1>4. pc' = [pc EXCEPT ![h] = pc'[h]] /\ pc'[h] \in {"account", "ended"}
    BY <1>0 DEF InsertUser, Goto, Answer, TypeOK
  <1>5. T = S \cup {h}
    BY <1>0, <1>4 DEF Drew, HandlerInv, TypeOK
  <1>6. Cardinality(T) = Cardinality(S) + 1 /\ Cardinality(S) \in Nat
    BY <1>3, <1>5, DrewCounted, FS_AddElement
  <1>7. Cardinality(T) <= Cardinality(Handlers) /\ Cardinality(Handlers) \in Nat
    BY DrewCounted
  <1> HIDE DEF S, T
  <1>8. n <= lastId' /\ lastId' <= n + Cardinality(T) /\ lastId' >= n + 1
    BY <1>0, <1>1, <1>2, <1>6
  <1>9. lastId' \in n + 1 .. n + Cardinality(Handlers)
    BY <1>0, <1>2, <1>7, <1>8, DrewCounted DEF T
  <1>10. lastId' \in UserIds
    BY <1>9 DEF UserIds
  <1>11. QED
    BY <1>0, <1>2, <1>8, <1>10 DEF T

\* The other steps draw none.
LEMMA SequenceStays ==
    ASSUME IInv, [Next]_vars, ~(\E h \in Handlers : InsertUser(h))
    PROVE  lastId' = lastId /\ \A g \in Handlers : Drew(g) => Drew(g)'
  <1>0. TypeOK
    BY DEF IInv
  <1> USE DEF Goto, Answer, TypeOK, Drew, database, history
  <1>1. ASSUME NEW h \in Handlers, Receive(h) \/ InsertAccount(h) \/ CommitUser(h)
        PROVE  lastId' = lastId /\ \A g \in Handlers : Drew(g) => Drew(g)'
    BY <1>0, <1>1 DEF Receive, InsertAccount, CommitUser
  <1>2. ASSUME NEW h \in Handlers, Password(h) \/ Issue(h) \/ Revoke(h)
        PROVE  lastId' = lastId /\ \A g \in Handlers : Drew(g) => Drew(g)'
    BY <1>0, <1>2 DEF Password, Issue, Revoke
  <1>3. ASSUME NEW h \in Handlers, CheckBlacklist(h) \/ ValidateToken(h)
        PROVE  lastId' = lastId /\ \A g \in Handlers : Drew(g) => Drew(g)'
    BY <1>0, <1>3 DEF CheckBlacklist, ValidateToken
  <1>4. ASSUME NEW h \in Handlers, GetUserAccount(h) \/ Lose(h)
        PROVE  lastId' = lastId /\ \A g \in Handlers : Drew(g) => Drew(g)'
    BY <1>0, <1>4 DEF GetUserAccount, Lose
  <1>5. CASE Tick \/ UNCHANGED vars
    BY <1>5 DEF Tick, vars
  <1>6. QED
    BY <1>1, <1>2, <1>3, <1>4, <1>5, StepCases DEF HandlerAct

-----------------------------------------------------------------------------
(* A step of a handler changes the record of that handler only. *)

\* What a handler keeps to itself.
Local(h) == <<pc[h], reply[h], form[h], token[h], profile[h]>>

LEMMA OwnStep ==
    ASSUME TypeOK, NEW h \in Handlers, HandlerAct(h)
    PROVE  /\ req' = req /\ now' = now
           /\ pc' \in [Handlers -> PCs] /\ reply' \in [Handlers -> Replies]
           /\ \A g \in Handlers \ {h} : UNCHANGED Local(g)
  <1> USE DEF Goto, Answer, TypeOK, PCs, Replies, Local, database, history
  <1>1. CASE Receive(h)
    BY <1>1 DEF Receive
  <1>2. CASE InsertUser(h)
    BY <1>2 DEF InsertUser
  <1>3. CASE InsertAccount(h) \/ CommitUser(h)
    BY <1>3 DEF InsertAccount, CommitUser
  <1>4. CASE Password(h)
    BY <1>4 DEF Password
  <1>5. CASE Issue(h)
    BY <1>5 DEF Issue
  <1>6. CASE Revoke(h)
    BY <1>6 DEF Revoke
  <1>7. CASE CheckBlacklist(h)
    BY <1>7 DEF CheckBlacklist
  <1>8. CASE ValidateToken(h)
    BY <1>8 DEF ValidateToken
  <1>9. CASE GetUserAccount(h)
    BY <1>9 DEF GetUserAccount
  <1>10. CASE Lose(h)
    BY <1>10 DEF Lose
  <1>11. QED
    BY <1>1, <1>2, <1>3, <1>4, <1>5, <1>6, <1>7, <1>8, <1>9, <1>10 DEF HandlerAct

\* The token a handler sends is one of Tokens.
NewToken(h) == [user |-> form[h].id, person |-> Person(h), expires |-> now + Life]

LEMMA IssuedToken ==
    ASSUME IInv, NEW h \in Handlers, Issue(h)
    PROVE  /\ NewToken(h) \in Tokens
           /\ issued' = issued \cup {NewToken(h)} /\ token' = [token EXCEPT ![h] = NewToken(h)]
           /\ \E u \in users : u.id = NewToken(h).user /\ u.person = NewToken(h).person
  <1>1. PICK u \in users : u.id = form[h].id /\ u.person = Person(h)
    BY DEF Issue, IInv, IdentityInv
  <1>2. form[h].id \in UserIds /\ Person(h) \in People
    BY <1>1 DEF IInv, TypeOK
  <1>3. now + Life \in 1..MaxTime + Life
    BY SessionsAssumption DEF IInv, TypeOK, SequenceInv
  <1>4. QED
    BY <1>1, <1>2, <1>3 DEF Issue, NewToken, Tokens

LEMMA StepTypeOK == ASSUME IInv, [Next]_vars PROVE TypeOK'
  <1>0. TypeOK /\ HandlerInv
    BY DEF IInv
  <1>1. ASSUME NEW h \in Handlers, HandlerAct(h) PROVE TypeOK'
    <2>0. /\ req' = req /\ now' = now
          /\ pc' \in [Handlers -> PCs] /\ reply' \in [Handlers -> Replies]
      BY <1>0, <1>1, OwnStep
    <2>1. CASE Receive(h)
      <3>1. CASE UNCHANGED <<token, late>>
        BY <1>0, <2>0, <2>1, <3>1 DEF TypeOK, Receive, database
      <3>2. CASE ~UNCHANGED <<token, late>>
        <4>1. PICK t \in issued : /\ token' = [token EXCEPT ![h] = t]
                                  /\ late' = IF t \in loggedOut THEN late \cup {h} ELSE late
          BY <2>1, <3>2 DEF Receive
        <4>2. token' \in [Handlers -> Tokens \cup {NoToken}] /\ late' \subseteq Handlers
          BY <1>0, <4>1 DEF TypeOK
        <4>3. QED
          BY <1>0, <2>0, <2>1, <4>2 DEF TypeOK, Receive, database
      <3>3. QED
        BY <3>1, <3>2
    <2>2. CASE InsertUser(h)
      <3>1. form' \in [Handlers -> [id : {0} \cup UserIds, account : AccountIds \cup {NoAccount}]]
        BY <1>0, <2>2, DrawnId DEF TypeOK, InsertUser
      <3>2. lastId' \in UserIds
        BY <2>2, DrawnId
      <3>3. QED
        BY <1>0, <2>0, <2>2, <3>1, <3>2 DEF TypeOK, InsertUser, history
    <2>3. CASE InsertAccount(h)
      BY <1>0, <2>0, <2>3 DEF TypeOK, InsertAccount, database, history
    <2>4. CASE CommitUser(h)
      <3>1. /\ Person(h) \in People /\ form[h].id \in UserIds /\ form[h].account \in AccountIds
        BY <1>0, <2>4, RequestType
        DEF CommitUser, IInv, HandlerInv, RegistrationInv, Inserting
      <3>2. NewUser(h) \in [person : People, id : UserIds, account : AccountIds]
        BY <3>1 DEF NewUser
      <3>3. QED
        BY <1>0, <2>0, <2>4, <3>1, <3>2 DEF TypeOK, CommitUser, history
    <2>5. CASE Password(h)
      <3>1. form' \in [Handlers -> [id : {0} \cup UserIds, account : AccountIds \cup {NoAccount}]]
        <4>1. CASE form' = form
          BY <1>0, <4>1 DEF TypeOK
        <4>2. ASSUME NEW u \in users, form' = [form EXCEPT ![h].id = u.id]
              PROVE  <3>1
          BY <1>0, <4>2 DEF TypeOK
        <4>3. QED
          BY <2>5, <4>1, <4>2 DEF Password
      <3>2. QED
        BY <1>0, <2>0, <2>5, <3>1 DEF TypeOK, Password, database, history
    <2>6. CASE Issue(h)
      <3>1. token' \in [Handlers -> Tokens \cup {NoToken}] /\ issued' \subseteq Tokens
        BY <1>0, <2>6, IssuedToken DEF TypeOK
      <3>2. issued \subseteq issued'
        BY <2>6, IssuedToken
      <3>3. QED
        BY <1>0, <2>0, <2>6, <3>1, <3>2 DEF TypeOK, Issue, database
    <2>7. CASE Revoke(h)
      <3>1. token[h] \in issued /\ token[h] \in Tokens
        BY <1>0, <2>7 DEF Revoke, HandlerInv, TypeOK
      <3>2. now + Life \in Nat
        BY <1>0, SessionsAssumption DEF TypeOK
      <3>3. blacklist' \in [Tokens -> Nat] /\ loggedOut' \subseteq issued
        BY <1>0, <2>7, <3>1, <3>2 DEF TypeOK, Revoke
      <3>4. QED
        BY <1>0, <2>0, <2>7, <3>3 DEF TypeOK, Revoke, database
    <2>8. CASE CheckBlacklist(h)
      BY <1>0, <2>0, <2>8 DEF TypeOK, CheckBlacklist, database
    <2>9. CASE ValidateToken(h) \/ Lose(h)
      BY <1>0, <2>0, <2>9 DEF TypeOK, ValidateToken, Lose, database, history
    <2>10. CASE GetUserAccount(h)
      BY <1>0, <2>0, <2>10 DEF TypeOK, GetUserAccount, database, history
    <2>11. QED
      BY <1>1, <2>1, <2>2, <2>3, <2>4, <2>5, <2>6, <2>7, <2>8, <2>9, <2>10 DEF HandlerAct
  <1>2. CASE Tick
    BY <1>0, <1>2 DEF TypeOK, Tick, database, history
  <1>3. CASE UNCHANGED vars
    BY <1>0, <1>3 DEF TypeOK, vars, database, history
  <1>4. QED
    BY <1>1, <1>2, <1>3, StepCases

-----------------------------------------------------------------------------
(* The invariant is inductive. *)

\* What is shared only grows, and rows are inserted by CommitUser alone.
LEMMA SharedGrows ==
    ASSUME IInv, [Next]_vars
    PROVE  /\ issued \subseteq issued' /\ loggedOut \subseteq loggedOut'
           /\ late \subseteq late' /\ blind \subseteq blind'
           /\ now' >= now /\ lastId' >= lastId /\ lastId \in Nat /\ req' = req
           /\ (users' = users /\ accounts' = accounts) \/ \E h \in Handlers : CommitUser(h)
  <1>0. TypeOK /\ now \in Nat
    BY DEF IInv, TypeOK
  <1>1. lastId \in Nat
    <2>1. LastIds \subseteq Nat /\ Cardinality(Handlers) \in Nat
      BY SessionsAssumption, DrewCounted
    <2>2. QED
      BY <1>0, <2>1 DEF TypeOK, UserIds
  <1> USE DEF database, history
  <1>2. ASSUME NEW h \in Handlers, Receive(h) PROVE late \subseteq late'
    BY <1>2 DEF Receive
  <1>3. ASSUME NEW h \in Handlers, InsertUser(h) PROVE lastId' = lastId + 1
    BY <1>3 DEF InsertUser
  <1>4. QED
    BY <1>0, <1>1, <1>2, <1>3, StepCases
    DEF HandlerAct, Receive, InsertUser, InsertAccount, CommitUser, Password, Issue, Revoke,
        CheckBlacklist, ValidateToken, GetUserAccount, Lose, Tick, vars

LEMMA StepSequenceInv == ASSUME IInv, [Next]_vars PROVE SequenceInv'
  <1>0. TypeOK /\ SequenceInv /\ RegistrationInv
    BY DEF IInv
  <1> DEFINE S == {h \in Handlers : Drew(h)}
             T == {h \in Handlers : Drew(h)'}
  <1>1. \E n \in LastIds : n <= lastId' /\ lastId' <= n + Cardinality(T)
    <2>1. CASE \E h \in Handlers : InsertUser(h)
      BY <2>1, DrawnId
    <2>2. CASE ~(\E h \in Handlers : InsertUser(h))
      <3>1. lastId' = lastId /\ S \subseteq T
        BY <2>2, SequenceStays
      <3>2. Cardinality(S) <= Cardinality(T) /\ Cardinality(S) \in Nat /\ Cardinality(T) \in Nat
        BY <3>1, DrewCounted, FS_Subset
      <3>3. PICK n \in LastIds : n <= lastId /\ lastId <= n + Cardinality(S)
        BY <1>0 DEF SequenceInv
      <3>4. n \in Nat /\ lastId \in Nat
        BY SharedGrows, SessionsAssumption
      <3> HIDE DEF S, T
      <3>5. lastId' <= n + Cardinality(T)
        BY <3>1, <3>2, <3>3, <3>4
      <3>6. QED
        BY <3>1, <3>3, <3>5
    <2>3. QED
      BY <2>1, <2>2
  <1>2. ASSUME NEW u \in users' PROVE u.id <= lastId'
    <2>1. CASE u \in users
      <3>1. u.id \in Nat
        <4>1. LastIds \subseteq Nat /\ Cardinality(Handlers) \in Nat
          BY SessionsAssumption, DrewCounted
        <4>2. QED
          BY <1>0, <2>1, <4>1 DEF TypeOK, UserIds
      <3>2. u.id <= lastId /\ lastId' \in Int
        BY <1>0, <2>1, StepTypeOK, SharedGrows, SequenceStays, DrawnId DEF SequenceInv
      <3>3. QED
        BY <3>1, <3>2, SharedGrows
    <2>2. CASE u \notin users
      <3>1. PICK h \in Handlers : CommitUser(h)
        BY <2>2, SharedGrows
      <3>2. u = NewUser(h) /\ lastId' = lastId /\ Inserting(h)
        BY <2>2, <3>1 DEF CommitUser, Inserting
      <3>3. QED
        BY <1>0, <3>2 DEF RegistrationInv, NewUser
    <2>3. QED
      BY <2>1, <2>2
  <1>3. now' <= MaxTime
    <2>1. CASE Tick
      BY <1>0, <2>1, SessionsAssumption DEF Tick, TypeOK
    <2>2. CASE now' = now
      BY <1>0, <2>2 DEF SequenceInv
    <2>3. QED
      BY <1>0, <2>1, <2>2, StepCases, OwnStep DEF vars
  <1>4. QED
    BY <1>1, <1>2, <1>3 DEF SequenceInv

LEMMA StepHandlerInv == ASSUME IInv, [Next]_vars PROVE HandlerInv'
  <1>0. TypeOK /\ HandlerInv /\ req' = req /\ issued \subseteq issued'
    BY SharedGrows DEF IInv
  <1> DEFINE Inv(h) ==
        /\ pc[h] \in {"user", "account", "commit"} => req[h].op = "register"
        /\ pc[h] = "password" => req[h].op = "login"
        /\ pc[h] = "issue" => req[h].op \in {"register", "login"}
        /\ pc[h] = "revoke" => req[h].op = "logout"
        /\ pc[h] \in {"blacklist", "validate", "serve"} => req[h].op = "use"
        /\ pc[h] \in {"revoke", "blacklist", "validate", "serve"} => token[h] \in issued
        /\ reply[h] = "profile" => pc[h] = "ended" /\ req[h].op = "use"
  <1>1. ASSUME NEW h \in Handlers, UNCHANGED Local(h) PROVE Inv(h)'
    BY <1>0, <1>1 DEF HandlerInv, Local
  <1>2. ASSUME NEW h \in Handlers, HandlerAct(h) PROVE Inv(h)'
    <2>0. Inv(h)
      BY <1>0 DEF HandlerInv
    <2> USE DEF Goto, Answer, TypeOK
    <2>1. CASE Receive(h)
      BY <1>0, <2>0, <2>1 DEF Receive
    <2>2. CASE InsertUser(h) \/ InsertAccount(h) \/ CommitUser(h)
      BY <1>0, <2>0, <2>2 DEF InsertUser, InsertAccount, CommitUser
    <2>3. CASE Password(h) \/ Issue(h) \/ Revoke(h)
      BY <1>0, <2>0, <2>3 DEF Password, Issue, Revoke
    <2>4. CASE CheckBlacklist(h) \/ ValidateToken(h)
      BY <1>0, <2>0, <2>4 DEF CheckBlacklist, ValidateToken
    <2>5. CASE GetUserAccount(h) \/ Lose(h)
      BY <1>0, <2>0, <2>5 DEF GetUserAccount, Lose
    <2>6. QED
      BY <1>2, <2>1, <2>2, <2>3, <2>4, <2>5 DEF HandlerAct
  <1>3. ASSUME NEW h \in Handlers PROVE HandlerAct(h) \/ UNCHANGED Local(h)
    BY <1>0, StepCases, OwnStep DEF Local, Tick, vars
  <1>4. QED
    BY <1>1, <1>2, <1>3 DEF HandlerInv
\* A registration whose rows are open after a step had them open before, or
\* has just inserted its user; the rows are as they were.
LEMMA OpenRegistration ==
    ASSUME IInv, [Next]_vars, NEW h \in Handlers, Inserting(h)', ~InsertUser(h)
    PROVE  /\ Inserting(h) /\ form'[h] = form[h] /\ ~CommitUser(h)
           /\ pc'[h] = "commit" => pc[h] = "commit" \/ form[h].account \notin accounts
  <1>0. TypeOK
    BY DEF IInv
  <1> USE DEF Goto, Answer, Inserting, TypeOK
  <1>1. ASSUME HandlerAct(h) PROVE InsertAccount(h)
    BY <1>0, <1>1
    DEF HandlerAct, Receive, CommitUser, Password, Issue, Revoke, CheckBlacklist,
        ValidateToken, GetUserAccount, Lose
  <1>2. CASE HandlerAct(h)
    BY <1>0, <1>1, <1>2 DEF InsertAccount, CommitUser
  <1>3. CASE UNCHANGED Local(h)
    BY <1>0, <1>3 DEF Local, CommitUser
  <1>4. QED
    BY <1>0, <1>2, <1>3, StepCases, OwnStep DEF Tick, vars, Local

LEMMA StepRegistrationInv == ASSUME IInv, [Next]_vars PROVE RegistrationInv'
  <1>0. TypeOK /\ RegistrationInv /\ SequenceInv /\ req' = req /\ lastId' >= lastId /\ lastId \in Nat
    BY SharedGrows DEF IInv
  <1>1. ASSUME NEW h \in Handlers, InsertUser(h), Inserting(h)'
        PROVE  /\ form'[h].id = lastId + 1 /\ form'[h].account \in AccountIds
               /\ pc'[h] = "account" /\ users' = users /\ accounts' = accounts
               /\ \A u \in users : /\ Email[u.person] # Email[Person(h)]
                                   /\ u.account # form'[h].account
               /\ \A g \in Handlers : Inserting(g) => ~Clashes(g, h, form'[h].account)
    BY <1>0, <1>1 DEF InsertUser, Goto, Answer, Inserting, TypeOK, Person
  <1>2. ASSUME NEW h \in Handlers, InsertUser(h), NEW u \in users
        PROVE  u.id # lastId + 1
    <2>1. u.id <= lastId
      BY <1>0 DEF SequenceInv
    <2>2. QED
      BY <1>0, <2>1
  <1>3. ASSUME NEW h \in Handlers, Inserting(h)'
        PROVE  /\ form'[h].account \in AccountIds /\ form'[h].id \in UserIds
               /\ form'[h].id <= lastId'
               /\ \A u \in users' : /\ Email[u.person] # Email[Person(h)]
                                    /\ u.account # form'[h].account /\ u.id # form'[h].id
               /\ pc'[h] = "commit" => form'[h].account \notin accounts'
    <2>1. CASE InsertUser(h)
      <3>1. lastId' \in UserIds /\ lastId' = lastId + 1
        BY <2>1, DrawnId
      <3>2. QED
        BY <1>0, <1>1, <1>2, <1>3, <2>1, <3>1
    <2>2. CASE ~InsertUser(h)
      <3>1. /\ Inserting(h) /\ form'[h] = form[h] /\ ~CommitUser(h)
            /\ pc'[h] = "commit" => pc[h] = "commit" \/ form[h].account \notin accounts
        BY <1>3, <2>2, OpenRegistration
      <3>2. form[h].account \in AccountIds /\ form[h].id \in UserIds /\ form[h].id <= lastId'
        <4>1. form[h].id \in Nat
          <5>1. LastIds \subseteq Nat /\ Cardinality(Handlers) \in Nat
            BY SessionsAssumption, DrewCounted
          <5>2. form[h].id \in UserIds
            BY <1>0, <3>1 DEF RegistrationInv
          <5>3. QED
            BY <5>1, <5>2 DEF UserIds
        <4>2. form[h].id <= lastId /\ lastId' \in Int
          BY <1>0, <3>1, SequenceStays, DrawnId DEF RegistrationInv
        <4>3. QED
          BY <1>0, <3>1, <4>1, <4>2 DEF RegistrationInv
      <3>3. CASE users' = users /\ accounts' = accounts
        BY <1>0, <3>1, <3>2, <3>3 DEF RegistrationInv
      <3>4. ASSUME NEW g \in Handlers, CommitUser(g)
            PROVE  /\ \A u \in users' : /\ Email[u.person] # Email[Person(h)]
                                        /\ u.account # form[h].account /\ u.id # form[h].id
                   /\ pc'[h] = "commit" => form[h].account \notin accounts'
        <4>1. g # h /\ Inserting(g)
          BY <3>1, <3>4 DEF CommitUser, Inserting
        <4>2. ~Clashes(g, h, form[h].account) /\ form[g].id # form[h].id
          BY <1>0, <3>1, <4>1 DEF RegistrationInv
        <4>3. users' \subseteq users \cup {NewUser(g)}
              /\ accounts' \subseteq accounts \cup {form[g].account}
          BY <3>4 DEF CommitUser
        <4>4. QED
          BY <1>0, <3>1, <4>2, <4>3 DEF RegistrationInv, Clashes, NewUser
      <3>5. QED
        BY <3>1, <3>2, <3>3, <3>4, SharedGrows
    <2>3. QED
      BY <2>1, <2>2
  <1>4. ASSUME NEW g \in Handlers, NEW h \in Handlers, Inserting(g)', Inserting(h)', g # h,
               ~InsertUser(g)
        PROVE  /\ Email[Person(g)] # Email[Person(h)] /\ form'[g].account # form'[h].account
               /\ form'[g].id # form'[h].id
    <2>1. Inserting(g) /\ form'[g] = form[g]
      BY <1>4, OpenRegistration
    <2>2. form[g].id <= lastId
      BY <1>0, <2>1 DEF RegistrationInv
    <2>3. CASE InsertUser(h)
      <3>1. form[g].id # lastId + 1
        BY <1>0, <2>2
      <3>2. QED
        BY <1>1, <1>4, <2>1, <2>3, <3>1 DEF Clashes
    <2>4. CASE ~InsertUser(h)
      BY <1>0, <1>4, <2>1, <2>4, OpenRegistration DEF RegistrationInv, Clashes
    <2>5. QED
      BY <2>3, <2>4
  <1>5. ASSUME NEW g \in Handlers, NEW h \in Handlers, g # h, InsertUser(g)
        PROVE  ~InsertUser(h)
    <2>1. HandlerAct(g) /\ pc[h] = pc'[h]
      BY <1>0, <1>5, OwnStep DEF HandlerAct, Local
    <2>2. QED
      BY <1>0, <1>5, <2>1 DEF InsertUser, Goto, Answer, TypeOK
  <1>6. ASSUME NEW h \in Handlers PROVE Person(h)' = Person(h)
    BY <1>0 DEF Person
  <1>7. ASSUME NEW g \in Handlers, NEW h \in Handlers, Inserting(g)', Inserting(h)', g # h
        PROVE  ~Clashes(g, h, form[h].account)' /\ form'[g].id # form'[h].id
    BY <1>4, <1>5, <1>6, <1>7 DEF Clashes
  <1>8. QED
    BY <1>3, <1>6, <1>7 DEF RegistrationInv
LEMMA StepAccountOfEachUser == ASSUME IInv, [Next]_vars PROVE AccountOfEachUser'
  <1>0. AccountOfEachUser /\ RegistrationInv
    BY DEF IInv
  <1>1. CASE users' = users /\ accounts' = accounts
    BY <1>0, <1>1 DEF AccountOfEachUser
  <1>2. ASSUME NEW h \in Handlers, CommitUser(h), users' = users \cup {NewUser(h)},
               accounts' = accounts \cup {form[h].account}
        PROVE  AccountOfEachUser'
    <2>1. \A u \in users : /\ Email[u.person] # Email[Person(h)]
                           /\ u.account # form[h].account
      BY <1>0, <1>2 DEF RegistrationInv, CommitUser, Inserting
    <2>2. NewUser(h).person = Person(h) /\ NewUser(h).account = form[h].account
      BY DEF NewUser
    <2>3. QED
      BY <1>0, <1>2, <2>1, <2>2 DEF AccountOfEachUser
  <1>3. QED
    BY <1>1, <1>2, SharedGrows DEF CommitUser

LEMMA StepIdentityInv == ASSUME IInv, [Next]_vars PROVE IdentityInv'
  <1>0. TypeOK /\ IdentityInv /\ RegistrationInv /\ req' = req
    BY SharedGrows DEF IInv
  <1>1. users \subseteq users' /\ \A u, v \in users' : u.id = v.id => u = v
    <2>1. CASE users' = users
      BY <1>0, <2>1 DEF IdentityInv
    <2>2. ASSUME NEW h \in Handlers, CommitUser(h), users' = users \cup {NewUser(h)}
          PROVE  <1>1
      <3>1. \A u \in users : u.id # NewUser(h).id
        BY <1>0, <2>2 DEF RegistrationInv, CommitUser, Inserting, NewUser
      <3>2. QED
        BY <1>0, <2>2, <3>1 DEF IdentityInv
    <2>3. QED
      BY <2>1, <2>2, SharedGrows DEF CommitUser
  <1>2. ASSUME NEW h \in Handlers, pc'[h] = "issue"
        PROVE  \E u \in users' : u.id = form'[h].id /\ u.person = Person(h)
    <2> USE DEF Goto, Answer, TypeOK
    <2>1. CASE pc[h] = "issue" /\ form'[h] = form[h]
      BY <1>0, <1>1, <2>1 DEF IdentityInv
    <2>2. CASE CommitUser(h)
      <3>1. NewUser(h) \in users' /\ form' = form
        BY <1>0, <1>2, <2>2 DEF CommitUser
      <3>2. QED
        BY <3>1 DEF NewUser
    <2>3. CASE Password(h)
      <3>1. PICK u \in users : u.person = Person(h) /\ form' = [form EXCEPT ![h].id = u.id]
        BY <1>0, <1>2, <2>3 DEF Password
      <3>2. form'[h].id = u.id
        BY <1>0, <3>1
      <3>3. QED
        BY <1>1, <3>1, <3>2
    <2>4. CASE HandlerAct(h) /\ ~CommitUser(h) /\ ~Password(h)
      BY <1>0, <1>2, <2>4
      DEF HandlerAct, Receive, InsertUser, InsertAccount, Issue, Revoke, CheckBlacklist,
          ValidateToken, GetUserAccount, Lose
    <2>5. CASE UNCHANGED Local(h)
      BY <1>2, <2>1, <2>5 DEF Local
    <2>6. QED
      BY <1>0, <2>2, <2>3, <2>4, <2>5, StepCases, OwnStep DEF Tick, vars, Local
  <1>3. ASSUME NEW t \in issued' PROVE \E u \in users' : u.id = t.user /\ u.person = t.person
    <2>1. CASE t \in issued
      BY <1>0, <1>1, <2>1 DEF IdentityInv
    <2>2. CASE t \notin issued
      <3>1. PICK h \in Handlers : Issue(h)
        BY <2>2, StepCases
        DEF HandlerAct, Receive, InsertUser, InsertAccount, CommitUser, Password, Revoke,
            CheckBlacklist, ValidateToken, GetUserAccount, Lose, Tick, vars, history
      <3>2. t = NewToken(h)
        BY <2>2, <3>1, IssuedToken
      <3>3. QED
        BY <1>1, <3>1, <3>2, IssuedToken
    <2>3. QED
      BY <2>1, <2>2
  <1>4. \A h \in Handlers : Person(h)' = Person(h)
    BY <1>0 DEF Person
  <1>5. QED
    BY <1>1, <1>2, <1>3, <1>4 DEF IdentityInv

\* Expiry times, and the entries of the blacklist.
LEMMA TokenTimes ==
    ASSUME TypeOK
    PROVE  /\ now \in Nat /\ Life \in Nat
           /\ \A t \in issued : t.expires \in Nat /\ blacklist[t] \in Nat
  <1>1. \A t \in Tokens : t.expires \in Nat
    BY SessionsAssumption DEF Tokens
  <1>2. QED
    BY <1>1, SessionsAssumption DEF TypeOK

LEMMA StepBlacklist ==
    ASSUME IInv, [Next]_vars
    PROVE  /\ \A t \in issued' : t.expires <= now' + Life
           /\ \A t \in loggedOut' : blacklist'[t] >= t.expires
  <1>0. TypeOK /\ BlacklistInv /\ HandlerInv /\ now' >= now
    BY SharedGrows DEF IInv
  <1>1. now \in Nat /\ Life \in Nat /\ now' \in Nat
        /\ \A t \in issued : t.expires \in Nat /\ blacklist[t] \in Nat
    <2>1. TypeOK'
      BY StepTypeOK
    <2>2. QED
      BY <1>0, <2>1, TokenTimes DEF TypeOK
  <1>2. ASSUME NEW t \in issued' PROVE t.expires <= now' + Life
    <2>1. CASE t \in issued
      <3>1. t.expires <= now + Life
        BY <1>0, <2>1 DEF BlacklistInv
      <3>2. QED
        BY <1>0, <1>1, <2>1, <3>1
    <2>2. CASE t \notin issued
      <3>1. PICK h \in Handlers : Issue(h)
        BY <2>2, StepCases
        DEF HandlerAct, Receive, InsertUser, InsertAccount, CommitUser, Password, Revoke,
            CheckBlacklist, ValidateToken, GetUserAccount, Lose, Tick, vars, history
      <3>2. t = NewToken(h) /\ now' = now
        BY <2>2, <3>1, IssuedToken DEF Issue
      <3>3. QED
        BY <1>1, <3>2 DEF NewToken
    <2>3. QED
      BY <2>1, <2>2
  <1>3. ASSUME NEW t \in loggedOut' PROVE blacklist'[t] >= t.expires
    <2>1. CASE blacklist' = blacklist /\ loggedOut' = loggedOut
      BY <1>0, <1>3, <2>1 DEF BlacklistInv
    <2>2. ASSUME NEW h \in Handlers, Revoke(h),
                 blacklist' = [blacklist EXCEPT ![token[h]] = now + Life],
                 loggedOut' = loggedOut \cup {token[h]}
          PROVE  blacklist'[t] >= t.expires
      <3>1. token[h] \in issued /\ token[h] \in Tokens
        BY <1>0, <2>2 DEF HandlerInv, Revoke, TypeOK
      <3>2. CASE t = token[h]
        <4>1. blacklist'[t] = now + Life /\ t.expires <= now + Life
          BY <1>0, <2>2, <3>1, <3>2 DEF TypeOK, BlacklistInv
        <4>2. QED
          BY <1>1, <3>1, <3>2, <4>1
      <3>3. CASE t # token[h]
        <4>1. t \in loggedOut /\ blacklist'[t] = blacklist[t]
          BY <1>0, <1>3, <2>2, <3>3 DEF TypeOK
        <4>2. QED
          BY <1>0, <4>1 DEF BlacklistInv
      <3>4. QED
        BY <3>2, <3>3
    <2>3. CASE ~(\E h \in Handlers : Revoke(h))
      <3>1. blacklist' = blacklist /\ loggedOut' = loggedOut
        BY <2>3, StepCases
        DEF HandlerAct, Receive, InsertUser, InsertAccount, CommitUser, Password, Issue,
            CheckBlacklist, ValidateToken, GetUserAccount, Lose, Tick, vars, history
      <3>2. QED
        BY <2>1, <3>1
    <2>4. QED
      BY <2>1, <2>2, <2>3 DEF Revoke
  <1>4. QED
    BY <1>2, <1>3

\* A request that came after the logout has the token that was logged out, and
\* unless Redis failed under it does not get past the middleware.
LateOk(h) ==
    /\ h \in late => pc[h] # "idle" /\ req[h].op \in {"logout", "use"} /\ token[h] \in loggedOut
    /\ h \in late \ blind =>
          /\ pc[h] # "serve" /\ reply[h] # "profile"
          /\ pc[h] = "validate" => token[h].expires <= now

LEMMA StepLate ==
    ASSUME IInv, [Next]_vars, NEW h \in Handlers
    PROVE  LateOk(h)'
  <1>0. TypeOK /\ HandlerInv /\ BlacklistInv /\ LateOk(h)
        /\ req' = req /\ loggedOut \subseteq loggedOut'
    BY SharedGrows DEF IInv, BlacklistInv, LogoutIsFinal, LateOk
  <1>1. CASE HandlerAct(h)
    <2> USE DEF Goto, Answer, TypeOK, database, history
    <2>1. CASE Receive(h)
      BY <1>0, <2>1 DEF Receive, LateOk, HandlerInv
    <2>2. CASE InsertUser(h) \/ InsertAccount(h) \/ CommitUser(h) \/ Password(h)
      BY <1>0, <2>2 DEF InsertUser, InsertAccount, CommitUser, Password, LateOk
    <2>3. CASE Issue(h)
      BY <1>0, <2>3 DEF Issue, LateOk, HandlerInv
    <2>4. CASE Revoke(h)
      BY <1>0, <2>4 DEF Revoke, LateOk
    <2>5. CASE CheckBlacklist(h)
      <3>1. CASE h \in late' \ blind'
        <4>1. /\ h \in late \ blind /\ token' = token /\ now' = now
              /\ \/ pc'[h] = "ended" /\ reply'[h] = "revoked"
                 \/ pc'[h] = "validate" /\ reply'[h] = reply[h] /\ blacklist[token[h]] <= now
          BY <1>0, <2>5, <3>1 DEF CheckBlacklist
        <4>2. token[h] \in loggedOut /\ loggedOut \subseteq issued
          BY <1>0, <4>1 DEF LateOk
        <4>3. blacklist[token[h]] >= token[h].expires
          BY <1>0, <4>2 DEF BlacklistInv
        <4>4. pc'[h] = "validate" => token[h].expires <= now
          <5>1. now \in Nat /\ token[h].expires \in Nat /\ blacklist[token[h]] \in Nat
            BY <1>0, <4>2, TokenTimes
          <5>2. QED
            BY <4>1, <4>3, <5>1
        <4>5. QED
          BY <1>0, <3>1, <4>1, <4>2, <4>4 DEF LateOk
      <3>2. CASE h \notin late' \ blind'
        BY <1>0, <2>5, <3>2 DEF CheckBlacklist, LateOk
      <3>3. QED
        BY <3>1, <3>2
    <2>6. CASE ValidateToken(h)
      <3>1. h \in late => token[h].expires \in Nat /\ now \in Nat
        BY <1>0, TokenTimes DEF LateOk
      <3>2. QED
        BY <1>0, <2>6, <3>1 DEF ValidateToken, LateOk
    <2>7. CASE GetUserAccount(h) \/ Lose(h)
      BY <1>0, <2>7 DEF GetUserAccount, Lose, LateOk
    <2>8. QED
      BY <1>1, <2>1, <2>2, <2>3, <2>4, <2>5, <2>6, <2>7 DEF HandlerAct
  <1>2. ASSUME NEW g \in Handlers \ {h}, HandlerAct(g) PROVE LateOk(h)'
    <2>1. UNCHANGED Local(h) /\ now' = now
      BY <1>0, <1>2, OwnStep
    <2>2. (h \in late' <=> h \in late) /\ (h \in blind' <=> h \in blind)
      BY <1>2
      DEF HandlerAct, Receive, InsertUser, InsertAccount, CommitUser, Password, Issue, Revoke,
          CheckBlacklist, ValidateToken, GetUserAccount, Lose, history
    <2>3. QED
      BY <1>0, <2>1, <2>2 DEF LateOk, Local
  <1>3. CASE Tick
    <2>1. h \in late => token[h].expires \in Nat /\ now \in Nat
      BY <1>0, TokenTimes DEF LateOk, TypeOK
    <2>2. QED
      BY <1>0, <1>3, <2>1 DEF Tick, LateOk, history
  <1>4. CASE UNCHANGED vars
    BY <1>0, <1>4 DEF LateOk, vars, history
  <1>5. QED
    BY <1>1, <1>2, <1>3, <1>4, StepCases

LEMMA StepBlacklistInv == ASSUME IInv, [Next]_vars PROVE BlacklistInv' /\ LogoutIsFinal'
  <1>1. late' \subseteq Handlers
    BY StepTypeOK DEF TypeOK
  <1>2. \A h \in Handlers : LateOk(h)'
    BY StepLate
  <1>3. QED
    BY <1>1, <1>2, StepBlacklist DEF BlacklistInv, LogoutIsFinal, LateOk

LEMMA StepProfileIsOwn == ASSUME IInv, [Next]_vars PROVE ProfileIsOwn'
  <1>0. TypeOK /\ HandlerInv /\ IdentityInv /\ ProfileIsOwn
    BY DEF IInv
  <1>1. ASSUME NEW h \in Handlers, HandlerAct(h), reply'[h] = "profile"
        PROVE  profile'[h] = token'[h].person
    <2> USE DEF Goto, Answer, TypeOK, database, history
    <2>1. CASE GetUserAccount(h)
      <3>1. PICK u \in users : u.id \in ReadAs(token[h].user)
                               /\ profile' = [profile EXCEPT ![h] = u.person]
        BY <1>0, <1>1, <2>1 DEF GetUserAccount
      <3>2. token[h] \in issued /\ token' = token
        BY <1>0, <2>1 DEF GetUserAccount, HandlerInv
      <3>3. PICK v \in users : v.id = token[h].user /\ v.person = token[h].person
        BY <1>0, <3>2 DEF IdentityInv
      <3>4. u = v
        BY <1>0, <3>1, <3>3 DEF IdentityInv, ReadAs
      <3>5. QED
        BY <1>0, <3>1, <3>2, <3>3, <3>4
    <2>2. CASE ~GetUserAccount(h)
      BY <1>0, <1>1, <2>2
      DEF HandlerAct, Receive, InsertUser, InsertAccount, CommitUser, Password, Issue, Revoke,
          CheckBlacklist, ValidateToken, Lose, HandlerInv
    <2>3. QED
      BY <2>1, <2>2
  <1>2. ASSUME NEW h \in Handlers, UNCHANGED Local(h), reply'[h] = "profile"
        PROVE  profile'[h] = token'[h].person
    BY <1>0, <1>2 DEF ProfileIsOwn, Local
  <1>3. ASSUME NEW h \in Handlers PROVE HandlerAct(h) \/ UNCHANGED Local(h)
    BY <1>0, StepCases, OwnStep DEF Local, Tick, vars
  <1>4. QED
    BY <1>1, <1>2, <1>3 DEF ProfileIsOwn

LEMMA InitIInv == ASSUME Init PROVE IInv
  <1> USE SessionsAssumption DEF Init
  <1>1. TypeOK
    <2>1. 0 \in Nat
      OBVIOUS
    <2>2. QED
      BY <2>1 DEF TypeOK, PCs, Replies, NoForm
  <1>2. SequenceInv
    <2>1. lastId \in LastIds /\ lastId \in Nat
      OBVIOUS
    <2>2. {h \in Handlers : Drew(h)} = {}
      BY DEF Drew
    <2>3. Cardinality({h \in Handlers : Drew(h)}) = 0
      BY <2>2, FS_EmptySet
    <2>4. lastId <= lastId /\ lastId <= lastId + Cardinality({h \in Handlers : Drew(h)})
      BY <2>1, <2>3
    <2>5. \E n \in LastIds : n <= lastId /\ lastId <= n + Cardinality({h \in Handlers : Drew(h)})
      BY <2>1, <2>4, Zenon
    <2>6. now <= MaxTime /\ users = {}
      OBVIOUS
    <2>7. QED
      BY <2>5, <2>6, Zenon DEF SequenceInv
  <1>3. HandlerInv /\ RegistrationInv
    BY DEF HandlerInv, RegistrationInv, Inserting
  <1>4. IdentityInv /\ BlacklistInv
    BY DEF IdentityInv, BlacklistInv
  <1>5. AccountOfEachUser /\ LogoutIsFinal /\ ProfileIsOwn
    BY DEF AccountOfEachUser, LogoutIsFinal, ProfileIsOwn
  <1>6. QED
    BY <1>1, <1>2, <1>3, <1>4, <1>5 DEF IInv

LEMMA StepIInv == ASSUME IInv, [Next]_vars PROVE IInv'
  BY StepTypeOK, StepSequenceInv, StepHandlerInv, StepRegistrationInv, StepIdentityInv,
     StepBlacklistInv, StepAccountOfEachUser, StepProfileIsOwn DEF IInv

-----------------------------------------------------------------------------
(* Theorems. *)

\* The inductive invariant holds, and with it every variable has its type: the
\* user ids a sequence gives out while the handlers run stay among UserIds.
THEOREM Invariant == Spec => []IInv
  BY InitIInv, StepIInv, PTL DEF Spec

\* Registrations may overlap, fail at each of their statements or lose the
\* answer of COMMIT: a user has an account of their own, and no account is left
\* without its user (Register, auth_service.go).
THEOREM OneAccountPerUser == Spec => []AccountOfEachUser
  <1>1. IInv => AccountOfEachUser
    BY DEF IInv
  <1>2. QED
    BY Invariant, <1>1, PTL

\* A request that comes with a token whose logout was answered is never served,
\* if Redis took the one's SET and answers the other's EXISTS (Logout in
\* auth_service.go and AuthMiddleware in auth.go).
THEOREM LoggedOutStaysOut == Spec => []LogoutIsFinal
  <1>1. IInv => LogoutIsFinal
    BY DEF IInv
  <1>2. QED
    BY Invariant, <1>1, PTL

\* Whoever asks with the token they were sent is shown their own profile, for
\* any overlap of registrations and logins and any user id (GetUserAccount).
THEOREM OwnProfileOnly == Spec => []ProfileIsOwn
  <1>1. IInv => ProfileIsOwn
    BY DEF IInv
  <1>2. QED
    BY Invariant, <1>1, PTL
=============================================================================
