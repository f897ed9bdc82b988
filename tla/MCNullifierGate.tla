-------------------------- MODULE MCNullifierGate --------------------------
(***************************************************************************)
(* Instances of NullifierGate for TLC.                                     *)
(***************************************************************************)
EXTENDS NullifierGate
=============================================================================
