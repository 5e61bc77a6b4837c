------------------------------ MODULE MCSessions ------------------------------
(***************************************************************************)
(* Instance of Sessions for TLC: ann and ben share a phone, ann registers  *)
(* a second time under another name with the same email address.           *)
(***************************************************************************)
EXTENDS SessionsInvariant, TLC

CONSTANTS h1, h2, h3

PhoneOf == "ann" :> "phone1" @@ "ben" :> "phone1" @@ "ann2" :> "phone2"
EmailOf == "ann" :> "mail1" @@ "ben" :> "mail2" @@ "ann2" :> "mail1"

AllRequests == [op : {"register"}, person : People]
                  \cup [op : {"login"}, person : {"ann"}]
                  \cup [op : {"logout", "use"}]

HandlerSymmetry == Permutations(Handlers)
=============================================================================
