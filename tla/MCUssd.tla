------------------------------- MODULE MCUssd -------------------------------
(***************************************************************************)
(* Instance of Ussd for TLC.                                               *)
(***************************************************************************)
EXTENDS UssdInvariant, TLC

CONSTANTS h1, h2, h3, h4, ann, c1, c2, c3

\* One user generates codes of both types; one code is presented.
OneUser == [op : {"generate"}, user : {ann}, type : {"PUSH", "PULL"}]
              \cup [op : {"validate"}, code : {c1}]

HandlerSymmetry == Permutations(Handlers)
=============================================================================
