------------------------------- MODULE Queries --------------------------------
(***************************************************************************)
(* What the bridge promises its clients, seen from their side of the       *)
(* WebSocket (docs/PROTOCOL.md): a query gets the results it asked for,    *)
(* under its own id, until the last one, an error, or the end of its       *)
(* session; then its id can be used again.  No table, lock, pipe or        *)
(* internal id appears here.  Module EngineRefinement shows that the       *)
(* engine implements it.                                                   *)
(***************************************************************************)
EXTENDS Integers, Functions

CONSTANTS
  Session,   \* identities of the client sessions
  ClientId,  \* query ids that clients choose
  MaxTurns,  \* bound: turns of one analysis query
  None       \* no answer under way

VARIABLES
  asked,   \* <<session, client id>> -> results that the client is still owed
  over,    \* sessions that have ended
  answer   \* the answer on its way: to which query, about which query

vars == <<asked, over, answer>>

Query == Session \X ClientId

Init ==
  /\ asked = [q \in {} |-> 0]
  /\ over = {}
  /\ answer = None

Forget(gone) == asked' = Restrict(asked, DOMAIN asked \ gone)

\* An answer about q goes to q, and to no other query.
Send(q) ==
  /\ answer = None
  /\ answer' = [to |-> q, about |-> q]

\* A query is accepted, unless its id is in use.
Ask(q, n) ==
  /\ q[1] \notin over
  /\ q \notin DOMAIN asked
  /\ asked' = [p \in DOMAIN asked \cup {q} |-> IF p = q THEN n ELSE asked[p]]
  /\ UNCHANGED <<over, answer>>

\* It was accepted and could not be passed on: its session ends.
Withdraw(q) ==
  /\ q \in DOMAIN asked
  /\ Forget({q})
  /\ UNCHANGED <<over, answer>>

Partial(q) ==
  /\ q \in DOMAIN asked
  /\ Send(q)
  /\ UNCHANGED <<asked, over>>

\* A result: the query is active until the last one, and no longer.
Result(q) ==
  /\ q \in DOMAIN asked
  /\ IF asked[q] = 1 THEN Forget({q})
     ELSE asked' = [asked EXCEPT ![q] = @ - 1]
  /\ Send(q)
  /\ UNCHANGED over

Error(q) ==
  /\ q \in DOMAIN asked
  /\ Forget({q})
  /\ Send(q)
  /\ UNCHANGED over

Delivered ==
  /\ answer # None
  /\ answer' = None
  /\ UNCHANGED <<asked, over>>

\* A session ends and takes all its queries with it.
End(s) ==
  /\ s \notin over
  /\ over' = over \cup {s}
  /\ Forget({s} \X ClientId)
  /\ UNCHANGED answer

Next ==
  \/ \E q \in Query :
       \/ \E n \in 1..MaxTurns : Ask(q, n)
       \/ Withdraw(q) \/ Partial(q) \/ Result(q) \/ Error(q)
  \/ Delivered
  \/ \E s \in Session : End(s)

Spec == Init /\ [][Next]_vars
=============================================================================
