-------------------------- MODULE ServiceRefinement ---------------------------
(***************************************************************************)
(* Every service process of module Service has the life-cycle of module    *)
(* Lifecycle.                                                              *)
(***************************************************************************)
EXTENDS Service

Phase(p) ==
  CASE run[p] \in {"unborn", "spawned", "read", "recorded", "started"} -> "starting"
    [] run[p] \in {"awaiting", "tunnelled"} -> "connecting"
    [] run[p] \in {"published", "serving"} -> "serving"
    [] run[p] \in {"listening", "closing", "killed"} -> run[p]
    [] OTHER -> "down"

L(p) == INSTANCE Lifecycle WITH
  phase <- Phase(p), listening <- port = p, tunnelUp <- p \in tunnelUp

\* Whatever commands and processes do to each other, with start-ups that fail,
\* crashes, SIGTERM and SIGKILL, each process of Run comes up and goes down by the
\* life-cycle; in particular one that ends otherwise than by a kill from outside
\* leaves neither its tunnel nor the address behind, and takes down no other's.
ProcessesKeepLifecycle ==
  /\ \A p \in Process : L(p)!Init
  /\ [][\A p \in Process : [L(p)!Next]_(L(p)!vars)]_vars
=============================================================================
