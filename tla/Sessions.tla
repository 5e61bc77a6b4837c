------------------------------- MODULE Sessions -------------------------------
(***************************************************************************)
(* Registering, logging in and out (AuthService in                         *)
(* internal/services/auth_service.go) and the check of the token that      *)
(* guards the other endpoints (internal/middleware/auth.go), of which      *)
(* GetUserAccount is followed to its answer.                               *)
(*                                                                         *)
(* A person stands for what a registration form says of one: an email      *)
(* address and a password of their own, and a phone number others may have *)
(* too.  A token is what is signed in it, so two tokens of one user and    *)
(* one second are equal; `person' notes whom it was sent to.               *)
(* Definitions named X_Something are mutants of X.                         *)
(***************************************************************************)
EXTENDS Integers, FiniteSets

CONSTANTS
    Handlers,      \* request handlers, one per request
    People,        \* people who register, each with a password of their own
    Phone, Email,  \* what they give as phone number and email address
    AccountIds,    \* 10-digit account ids
    Requests,      \* requests clients may send
    LastIds,       \* how far the sequence of user ids may have come
    Million,       \* smallest user id that fmt prints with an exponent
    Life,          \* jwt.expiry_hours, in units of the clock
    MaxTime        \* bound on the clock, for TLC

ASSUME SessionsAssumption ==
    /\ IsFiniteSet(Handlers)
    /\ DOMAIN Phone = People /\ DOMAIN Email = People
    /\ Requests \subseteq
          [op : {"register", "login"}, person : People] \cup [op : {"logout", "use"}]
    /\ IsFiniteSet(LastIds) /\ LastIds \subseteq Nat
    /\ Million \in Nat /\ Life \in Nat \ {0} /\ MaxTime \in Nat

VARIABLES
    pc,         \* the next step of each handler
    req,        \* its request
    form,       \* user id and account id of the rows it inserted, or found
    token,      \* the token it was sent, or sends
    reply,      \* what it answered
    profile,    \* the user whose profile it answered with
    users,      \* committed rows of users, with the account each names
    accounts,   \* committed rows of accounts
    lastId,     \* sequence of users.id, which no rollback gives back
    issued,     \* tokens sent to clients
    blacklist,  \* when the Redis key of each revoked token expires
    loggedOut,  \* tokens that were blacklisted, and the logout answered
    late,       \* handlers whose request came after such an answer
    blind,      \* handlers that Redis could not tell whether the token is revoked
    now

database == <<users, accounts, lastId>>
history == <<issued, loggedOut, late, blind>>
vars == <<pc, req, form, token, reply, profile, database, blacklist, history, now>>

UserIds == UNION {n + 1 .. n + Cardinality(Handlers) : n \in LastIds}
Tokens == [user : UserIds, person : People, expires : 1..MaxTime + Life]
NoToken == [user |-> 0, person |-> "none", expires |-> 0]
NoAccount == "none"
NoForm == [id |-> 0, account |-> NoAccount]
Nobody == "none"
Replies == {"none", "token", "conflict", "credentials", "error", "bye", "revoked",
            "expired", "profile"}
PCs == {"idle", "user", "account", "commit", "password", "issue", "revoke",
        "blacklist", "validate", "serve", "ended"}

Person(h) == req[h].person
Active(h) == pc[h] \notin {"idle", "ended"}
Goto(h, step) == pc' = [pc EXCEPT ![h] = step] /\ UNCHANGED reply
Answer(h, outcome) ==
    /\ reply' = [reply EXCEPT ![h] = outcome]
    /\ pc' = [pc EXCEPT ![h] = "ended"]

Init ==
    /\ pc = [h \in Handlers |-> "idle"]
    /\ req \in [Handlers -> Requests]
    /\ form = [h \in Handlers |-> NoForm]
    /\ token = [h \in Handlers |-> NoToken]
    /\ reply = [h \in Handlers |-> "none"]
    /\ profile = [h \in Handlers |-> Nobody] /\ lastId \in LastIds
    /\ users = {} /\ accounts = {} /\ issued = {} /\ loggedOut = {}
    /\ late = {} /\ blind = {}
    /\ blacklist = [t \in Tokens |-> 0]
    /\ now = 0

-----------------------------------------------------------------------------
\* A request arrives; one that carries a token carries one a client was sent.
Receive(h) ==
    /\ pc[h] = "idle"
    /\ \/ req[h].op = "register" /\ Goto(h, "user") /\ UNCHANGED <<token, late>>
       \/ req[h].op = "login" /\ Goto(h, "password") /\ UNCHANGED <<token, late>>
       \/ /\ req[h].op \in {"logout", "use"}
          /\ \E t \in issued :
                /\ token' = [token EXCEPT ![h] = t]
                /\ late' = IF t \in loggedOut THEN late \cup {h} ELSE late
          /\ Goto(h, IF req[h].op = "logout" THEN "revoke" ELSE "blacklist")
    /\ UNCHANGED <<req, form, profile, database, issued, blacklist, loggedOut, blind, now>>

(* Register. *)

\* Registrations whose uncommitted users row others wait for, if it clashes.
Clashes(g, h, id) == Email[Person(g)] = Email[Person(h)] \/ form[g].account = id
Inserting(h) == pc[h] \in {"account", "commit"}

\* INSERT INTO users ... RETURNING id: email and account_id are UNIQUE.  Whatever
\* the error, the reply is "Email Already Exists".
InsertUser(h) ==
    /\ pc[h] = "user"
    /\ lastId' = lastId + 1
    /\ \/ /\ \E id \in AccountIds :
                /\ \A g \in Handlers : Inserting(g) => ~Clashes(g, h, id)
                /\ \A u \in users : Email[u.person] # Email[Person(h)] /\ u.account # id
                /\ form' = [form EXCEPT ![h] = [id |-> lastId', account |-> id]]
          /\ Goto(h, "account")
       \/ Answer(h, "conflict") /\ UNCHANGED form
    /\ UNCHANGED <<req, token, profile, users, accounts, blacklist, history, now>>

\* INSERT INTO accounts, or its error, which rolls the users row back.
NewUser(h) == [person |-> Person(h), id |-> form[h].id, account |-> form[h].account]

InsertAccount_ErrorIgnored(h) ==
    /\ pc[h] = "account"
    /\ users' = users \cup {NewUser(h)}
    /\ Answer(h, "error")
    /\ UNCHANGED <<req, form, token, profile, accounts, lastId, blacklist, history, now>>

InsertAccount(h) ==
    /\ pc[h] = "account"
    /\ \/ form[h].account \notin accounts /\ Goto(h, "commit")
       \/ Answer(h, "error")
    /\ UNCHANGED <<req, form, token, profile, database, blacklist, history, now>>

\* COMMIT: both rows or none, acknowledged or not.
CommitUser(h) ==
    /\ pc[h] = "commit"
    /\ \/ /\ users' = users \cup {NewUser(h)}
          /\ accounts' = accounts \cup {form[h].account}
          /\ Goto(h, "issue") \/ Answer(h, "error")
       \/ UNCHANGED <<users, accounts>> /\ Answer(h, "error")
    /\ UNCHANGED <<req, form, token, profile, lastId, blacklist, history, now>>

(* Login. *)

\* SELECT ... WHERE phone_number: the first row that comes, if there are more.
\* "Invalid credentials" answers the row of another, no row, and an error of the
\* database.
Password(h) ==
    LET Found == {u \in users : Phone[u.person] = Phone[Person(h)]}
    IN  /\ pc[h] = "password"
        /\ \/ \E u \in Found : /\ u.person = Person(h)
                               /\ form' = [form EXCEPT ![h].id = u.id]
                               /\ Goto(h, "issue")
           \/ Answer(h, "credentials") /\ UNCHANGED form
        /\ UNCHANGED <<req, token, profile, database, blacklist, history, now>>

\* generateJWT.  The token is a function of user and second.
Issue_NoLife(h) ==
    LET t == [user |-> form[h].id, person |-> Person(h), expires |-> now]
    IN  /\ pc[h] = "issue"
        /\ token' = [token EXCEPT ![h] = t]
        /\ issued' = issued \cup {t}
        /\ Answer(h, "token")
        /\ UNCHANGED <<req, form, profile, database, blacklist, loggedOut, late, blind, now>>

Issue_ForLastUser(h) ==
    LET t == [user |-> lastId, person |-> Person(h), expires |-> now + Life]
    IN  /\ pc[h] = "issue"
        /\ token' = [token EXCEPT ![h] = t]
        /\ issued' = issued \cup {t}
        /\ Answer(h, "token")
        /\ UNCHANGED <<req, form, profile, database, blacklist, loggedOut, late, blind, now>>

Issue(h) ==
    LET t == [user |-> form[h].id, person |-> Person(h), expires |-> now + Life]
    IN  /\ pc[h] = "issue"
        /\ token' = [token EXCEPT ![h] = t]
        /\ issued' = issued \cup {t}
        /\ Answer(h, "token")
        /\ UNCHANGED <<req, form, profile, database, blacklist, loggedOut, late, blind, now>>

(* Logout: no check of the token; an error of Redis is only logged. *)

Revoke(h) ==
    /\ pc[h] = "revoke"
    /\ \/ /\ blacklist' = [blacklist EXCEPT ![token[h]] = now + Life]
          /\ loggedOut' = loggedOut \cup {token[h]}
       \/ UNCHANGED <<blacklist, loggedOut>>
    /\ Answer(h, "bye")
    /\ UNCHANGED <<req, form, token, profile, database, issued, late, blind, now>>

(* AuthMiddleware. *)

\* EXISTS blacklist:token; an error reads as "not there".
CheckBlacklist(h) ==
    /\ pc[h] = "blacklist"
    /\ \/ blacklist[token[h]] > now /\ Answer(h, "revoked") /\ UNCHANGED blind
       \/ blacklist[token[h]] <= now /\ Goto(h, "validate") /\ UNCHANGED blind
       \/ Goto(h, "validate") /\ blind' = blind \cup {h}
    /\ UNCHANGED <<req, form, token, profile, database, blacklist, issued, loggedOut, late, now>>

\* validateToken.  The signature is right: the token was issued.
ValidateToken_NoExpiry(h) ==
    /\ pc[h] = "validate"
    /\ Goto(h, "serve")
    /\ UNCHANGED <<req, form, token, profile, database, blacklist, history, now>>

ValidateToken(h) ==
    /\ pc[h] = "validate"
    /\ IF token[h].expires > now THEN Goto(h, "serve") ELSE Answer(h, "expired")
    /\ UNCHANGED <<req, form, token, profile, database, blacklist, history, now>>

(* GetUserAccount, one of the endpoints behind the middleware. *)

\* The user ids that the context's userID can stand for: the JSON number of the
\* claim is a float64, and "%v" of a large one ("1e+06") is no integer to SQL.
ReadAs(id) == {i \in UserIds : i = id /\ i < Million}

GetUserAccount(h) ==
    /\ pc[h] = "serve"
    /\ \/ /\ \E u \in users : /\ u.id \in ReadAs(token[h].user)
                              /\ profile' = [profile EXCEPT ![h] = u.person]
          /\ Answer(h, "profile")
       \/ Answer(h, "error") /\ UNCHANGED profile
    /\ UNCHANGED <<req, form, token, database, blacklist, history, now>>

\* The server stops under the handler.
Lose(h) ==
    /\ Active(h)
    /\ Answer(h, "none")
    /\ UNCHANGED <<req, form, token, profile, database, blacklist, history, now>>

Tick ==
    /\ now < MaxTime /\ now' = now + 1
    /\ UNCHANGED <<pc, req, form, token, reply, profile, database, blacklist, history>>

Next == \/ \E h \in Handlers :
              \/ Receive(h) \/ InsertUser(h) \/ InsertAccount(h) \/ CommitUser(h)
              \/ Password(h) \/ Issue(h) \/ Revoke(h) \/ CheckBlacklist(h)
              \/ ValidateToken(h) \/ GetUserAccount(h) \/ Lose(h)
        \/ Tick

Spec == Init /\ [][Next]_vars

-----------------------------------------------------------------------------
(* Properties. *)

\* Every variable has its type.
TypeOK ==
    /\ pc \in [Handlers -> PCs]
    /\ req \in [Handlers -> Requests]
    /\ form \in [Handlers -> [id : {0} \cup UserIds, account : AccountIds \cup {NoAccount}]]
    /\ token \in [Handlers -> Tokens \cup {NoToken}]
    /\ reply \in [Handlers -> Replies]
    /\ profile \in [Handlers -> People \cup {Nobody}] /\ lastId \in LastIds \cup UserIds
    /\ users \subseteq [person : People, id : UserIds, account : AccountIds]
    /\ accounts \subseteq AccountIds
    /\ issued \subseteq Tokens /\ loggedOut \subseteq issued
    /\ blacklist \in [Tokens -> Nat]
    /\ late \subseteq Handlers /\ blind \subseteq Handlers
    /\ now \in Nat

\* auth_service.go:266, "Logout user and blacklist token": a request that comes
\* with a token whose logout was answered is refused, until the token's end and
\* after it, when nothing in Redis remembers the token; this if Redis took the
\* one's SET and answers the other's EXISTS.
LogoutIsFinal == \A h \in late \ blind : reply[h] # "profile"

\* Whoever registers or logs in, and then asks with the token they were sent, is
\* shown their own profile, although registrations overlap, phone numbers are
\* shared and the id goes through a float and back to an integer.
ProfileIsOwn ==
    \A h \in Handlers : reply[h] = "profile" => profile[h] = token[h].person

\* A registration leaves the user and the account, or neither: no user is left
\* without an account, and no account belongs to two users.
AccountOfEachUser ==
    /\ \A u \in users : u.account \in accounts
    /\ \A u, v \in users : u # v => u.account # v.account /\ Email[u.person] # Email[v.person]
    /\ \A id \in accounts : \E u \in users : u.account = id
=============================================================================
