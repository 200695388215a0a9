------------------------------- MODULE MCFiles --------------------------------
(***************************************************************************)
(* Small instances of module Files for TLC.                                *)
(***************************************************************************)
EXTENDS FilesRefinement, TLC

\* Processes are interchangeable.
Symmetry == Permutations(Process)
=============================================================================
