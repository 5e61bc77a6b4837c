-------------------------- MODULE SessionsInvariant --------------------------
(***************************************************************************)
(* The inductive invariant of Sessions, from which SessionsProofs derives  *)
(* its safety properties.                                                  *)
(***************************************************************************)
EXTENDS Sessions

\* Every registration draws one user id, so the ids stay among UserIds.
Drew(h) == req[h].op = "register" /\ pc[h] \notin {"idle", "user"}

SequenceInv ==
    /\ \E n \in LastIds : n <= lastId /\ lastId <= n + Cardinality({h \in Handlers : Drew(h)})
    /\ \A u \in users : u.id <= lastId
    /\ now <= MaxTime

\* A handler is at a step of its endpoint, and only there has a token or a form.
HandlerInv ==
    \A h \in Handlers :
        /\ pc[h] \in {"user", "account", "commit"} => req[h].op = "register"
        /\ pc[h] = "password" => req[h].op = "login"
        /\ pc[h] = "issue" => req[h].op \in {"register", "login"}
        /\ pc[h] = "revoke" => req[h].op = "logout"
        /\ pc[h] \in {"blacklist", "validate", "serve"} => req[h].op = "use"
        /\ pc[h] \in {"revoke", "blacklist", "validate", "serve"} => token[h] \in issued
        /\ reply[h] = "profile" => pc[h] = "ended" /\ req[h].op = "use"

\* The rows an open registration is about to commit clash with no other's.
RegistrationInv ==
    /\ \A h \in Handlers : Inserting(h) =>
          /\ form[h].account \in AccountIds /\ form[h].id \in UserIds /\ form[h].id <= lastId
          /\ \A u \in users : /\ Email[u.person] # Email[Person(h)]
                              /\ u.account # form[h].account /\ u.id # form[h].id
          /\ pc[h] = "commit" => form[h].account \notin accounts
    /\ \A g, h \in Handlers : Inserting(g) /\ Inserting(h) /\ g # h =>
          ~Clashes(g, h, form[h].account) /\ form[g].id # form[h].id

\* Each user id stands for one person, and tokens are issued to that person.
IdentityInv ==
    /\ \A u, v \in users : u.id = v.id => u = v
    /\ \A h \in Handlers : pc[h] = "issue" =>
          \E u \in users : u.id = form[h].id /\ u.person = Person(h)
    /\ \A t \in issued : \E u \in users : u.id = t.user /\ u.person = t.person

\* A blacklist entry outlives its token, so whoever comes later is refused: by
\* Redis, or once Redis has forgotten the token, by its expiry.
BlacklistInv ==
    /\ \A t \in issued : t.expires <= now + Life
    /\ \A t \in loggedOut : blacklist[t] >= t.expires
    /\ \A h \in late : pc[h] # "idle" /\ req[h].op \in {"logout", "use"} /\ token[h] \in loggedOut
    /\ \A h \in late \ blind :
          /\ pc[h] # "serve"
          /\ pc[h] = "validate" => token[h].expires <= now

IInv == /\ TypeOK /\ SequenceInv /\ HandlerInv /\ RegistrationInv /\ IdentityInv
        /\ BlacklistInv /\ AccountOfEachUser /\ LogoutIsFinal /\ ProfileIsOwn
=============================================================================
