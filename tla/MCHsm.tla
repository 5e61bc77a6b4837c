-------------------------------- MODULE MCHsm --------------------------------
(***************************************************************************)
(* Instances of Hsm for TLC.                                               *)
(***************************************************************************)
EXTENDS HsmInvariant

CONSTANTS derived1, derived2
=============================================================================
