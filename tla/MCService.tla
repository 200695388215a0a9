----------------------------- MODULE MCService ------------------------------
(***************************************************************************)
(* Small instances of module Service for TLC.                              *)
(***************************************************************************)
EXTENDS ServiceRefinement
=============================================================================
