------------------------------ MODULE MCEngine ------------------------------
(***************************************************************************)
(* Small instances of module Engine for TLC.                               *)
(***************************************************************************)
EXTENDS EngineRefinement, TLC

\* Sessions and client ids are interchangeable: no action or invariant names
\* one of them.
Symmetry == Permutations(Session) \cup Permutations(ClientId)
=============================================================================
