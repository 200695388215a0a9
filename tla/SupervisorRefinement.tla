------------------------- MODULE SupervisorRefinement -------------------------
(***************************************************************************)
(* Module Supervisor, one service process from the inside, implements the  *)
(* life-cycle of module Lifecycle that the others see.                     *)
(***************************************************************************)
EXTENDS Supervisor

\* Engine.Shutdown ends a start-up that never listened, or follows the server's.
Phase ==
  CASE at \in {"starting", "probing", "listening"} -> "starting"
    [] at = "tunnelling" -> "listening"
    [] at \in {"awaiting", "publishing"} -> "connecting"
    [] at = "serving" -> "serving"
    [] at \in {"stopping-tunnel", "reaping-tunnel", "stopping-server"} -> "closing"
    [] at \in {"terminating", "closing", "waiting", "killed"} ->
         IF server = "none" THEN "starting" ELSE "closing"
    [] at = "removing" -> "down"

L == INSTANCE Lifecycle WITH
  phase <- Phase, listening <- server = "up", tunnelUp <- Lives(cloudflared)

\* Run and shutdown, with all their failures, timers and done channels, look from
\* the outside like the process that the commands of module Service deal with: the
\* link goes out only behind a tunnel and a listener, and whichever way Run takes to
\* its return, both have been taken down.
RunKeepsLifecycle == L!Spec
=============================================================================
