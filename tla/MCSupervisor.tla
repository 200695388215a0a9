---------------------------- MODULE MCSupervisor ------------------------------
(***************************************************************************)
(* Small instances of module Supervisor for TLC.                           *)
(***************************************************************************)
EXTENDS SupervisorRefinement
=============================================================================
