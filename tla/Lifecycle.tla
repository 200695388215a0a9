------------------------------ MODULE Lifecycle -------------------------------
(***************************************************************************)
(* One service process as everybody else sees it: whether it listens,      *)
(* whether its cloudflared runs, whether its link is out, and what of that *)
(* is left when it has ended.  Module Supervisor implements it from the    *)
(* inside, and every process of module Service implements it among the     *)
(* commands: what the latter takes for granted is what the former does.    *)
(***************************************************************************)
VARIABLES
  phase,      \* how far the process is
  listening,  \* it holds the address
  tunnelUp    \* its cloudflared runs

vars == <<phase, listening, tunnelUp>>

Init == phase = "starting" /\ listening = FALSE /\ tunnelUp = FALSE

Listen ==
  /\ phase = "starting" /\ phase' = "listening"
  /\ listening' = TRUE
  /\ UNCHANGED tunnelUp

\* cloudflared comes up behind an address that has been listened on.
StartTunnel ==
  /\ phase = "listening" /\ phase' = "connecting"
  /\ tunnelUp' = TRUE
  /\ UNCHANGED listening

\* The link goes out when the tunnel has been up.
Publish ==
  /\ phase = "connecting" /\ phase' = "serving"
  /\ UNCHANGED <<listening, tunnelUp>>

\* A step of start-up fails, or the service is told to end, or has to.
Close ==
  /\ phase \in {"listening", "connecting", "serving"} /\ phase' = "closing"
  /\ UNCHANGED <<listening, tunnelUp>>

\* It is down, and has taken everything down with it.
Return ==
  /\ phase \in {"starting", "closing"} /\ phase' = "down"
  /\ listening' = FALSE /\ tunnelUp' = FALSE

\* Either part may end before the rest.
TunnelEnds == tunnelUp /\ tunnelUp' = FALSE /\ UNCHANGED <<phase, listening>>

ListenerCloses == listening /\ listening' = FALSE /\ UNCHANGED <<phase, tunnelUp>>

\* A stop that has waited long enough kills what has no tunnel any more.
ForceKill ==
  /\ ~tunnelUp /\ UNCHANGED tunnelUp
  /\ phase' = "down" /\ listening' = FALSE

\* Only a process that somebody else kills leaves its cloudflared up.
Crash ==
  /\ phase' = "killed" /\ listening' = FALSE
  /\ UNCHANGED tunnelUp

Next ==
  \/ Listen \/ StartTunnel \/ Publish \/ Close \/ Return
  \/ TunnelEnds \/ ListenerCloses \/ ForceKill \/ Crash

Spec == Init /\ [][Next]_vars
=============================================================================
