------------------------------ MODULE MCBridge ------------------------------
(***************************************************************************)
(* Small instances of module Bridge for TLC.                               *)
(***************************************************************************)
EXTENDS Bridge, TLC

Symmetry == Permutations(Session) \cup Permutations(ClientId)
=============================================================================
