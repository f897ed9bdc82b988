--------------------------- MODULE MCServerMirror ---------------------------
(***************************************************************************)
(* Instances of ServerMirror for TLC.                                      *)
(***************************************************************************)
EXTENDS ServerMirror, TLC
=============================================================================
