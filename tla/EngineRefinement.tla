-------------------------- MODULE EngineRefinement ---------------------------
(***************************************************************************)
(* The engine implements what module Queries promises.                     *)
(*                                                                         *)
(* What a client is owed is read off KataGo's own backlog as soon as       *)
(* KataGo has read the query, not off the count that the engine keeps; and *)
(* an answer is about the query that KataGo was really answering, not the  *)
(* one that the table names.                                               *)
(***************************************************************************)
EXTENDS Engine

Owed(id) == IF id \in DOMAIN work THEN work[id].left ELSE routes[id].remaining

Asked ==
  [q \in {<<routes[id].session, routes[id].orig>> : id \in DOMAIN routes} |->
     Owed(byUser[q[1]][q[2]])]

Answer ==
  IF reply = None THEN None
  ELSE [to |-> <<reply.session, reply.orig>>,
        about |-> <<reply.asker, reply.about>>]

Q == INSTANCE Queries WITH
       asked <- Asked,
       over <- {s \in Session : Over(s)},
       answer <- Answer

\* "Results are mapped back to the originating ID before they reach the
\* client": every step of the engine is a step of the promise or changes
\* nothing that a client sees.  An id is taken until its last result and no
\* longer, each answer goes to the query it is about, and a session takes
\* none but its own queries along when it ends.
KeepsPromise == Q!Spec
=============================================================================
