------------------------------- MODULE Engine -------------------------------
(***************************************************************************)
(* internal/bridge/engine.go: the object that multiplexes the queries of   *)
(* client sessions onto one KataGo analysis process.                       *)
(*                                                                         *)
(* Three kinds of goroutine run here:                                      *)
(*   - one per session (server.websocket): it calls Submit for each line   *)
(*     its client sends and CancelSession once, when it is over;           *)
(*   - readStdout, which dispatches every line KataGo prints;              *)
(*   - Main (service.Run), which calls Shutdown once.                      *)
(*                                                                         *)
(* A section under routeMu is one step.  writeMu is held across a blocking *)
(* write to KataGo's stdin pipe, so it is a variable and a write takes     *)
(* two steps.  A Send to a client is left open: it ends, with or without   *)
(* an error, at any later step (module Bridge says when).                  *)
(***************************************************************************)
EXTENDS Integers, Sequences, FiniteSets, Functions

CONSTANTS
  Session,      \* identities of the client sessions, each used once
  ClientId,     \* query ids that clients choose
  Main,         \* the goroutine that calls Shutdown
  None,         \* no goroutine, no line, no reply
  MaxTurns,     \* bound: turns of one analysis query
  MaxSeq,       \* bound: no query is submitted once seq has reached it
  PipeCapacity, \* lines that fit in KataGo's stdin pipe
  Warnings      \* whether KataGo warns about queries it goes on to answer

ASSUME EngineAssumption ==
  /\ MaxTurns \in Nat \ {0}
  /\ MaxSeq \in Nat
  /\ PipeCapacity \in Nat \ {0}
  /\ Warnings \in BOOLEAN
  /\ Main \notin Session
  /\ None \notin Session \cup {Main}

VARIABLES
  routes,    \* internal id -> route
  byUser,    \* session -> (client id -> internal id)
  seq,       \* the last internal id given out
  pc,        \* where each session's goroutine is
  todo,      \* what CancelSession still has to terminate
  line,      \* the line each goroutine has passed to writeJSON
  writeMu,   \* the goroutine that holds writeMu
  stdinOpen, \* e.stdin # nil
  reply,     \* the reply that dispatch is handing to a Sender
  shutdown,  \* where Shutdown is
  pipe,      \* the lines in the stdin pipe
  katago,    \* the process: running, exited, or reaped by cmd.Wait
  work       \* internal id -> what KataGo has yet to answer about it

tables  == <<routes, byUser, seq>>
callers == <<pc, todo>>
process == <<pipe, katago, work>>
vars == <<routes, byUser, seq, pc, todo, line, writeMu, stdinOpen, reply,
          shutdown, pipe, katago, work>>

-----------------------------------------------------------------------------
(* Data.                                                                   *)

Goroutine == Session \cup {Main}

\* "analyze" stands for a query without an action, "control" for
\* query_version, query_models and clear_cache.
Kind == {"analyze", "terminate", "terminate_all", "control"}

\* A line to KataGo.  asker and orig identify the query the line is about;
\* they are None for the lines the bridge writes on its own account.
Line == [kind : Kind, id : Nat, target : Nat, turns : Nat \ {0},
         asker : Session \cup {None}, orig : ClientId \cup {None}]

Route == [session : Session, orig : ClientId, remaining : Int, action : Kind]

\* What KataGo has yet to say about a line it has read: "left" finals, after
\* a warning or an error if "first" says so.  "told": terminate has reached it.
Job == [kind : Kind, left : Nat \ {0}, told : BOOLEAN,
        first : {"result", "error", "warning"},
        asker : Session \cup {None}, orig : ClientId \cup {None}]

Reply == [session : Session, orig : ClientId,
          asker : Session \cup {None}, about : ClientId \cup {None}]

EmptyMap == [x \in {} |-> x]

Put(f, k, v) == [x \in DOMAIN f \cup {k} |-> IF x = k THEN v ELSE f[x]]

Delete(f, S) == Restrict(f, DOMAIN f \ S)

UserRoutes(s) == IF s \in DOMAIN byUser THEN byUser[s] ELSE EmptyMap

\* byUser without the entry (s, o), and without s when nothing is left of it.
DropUser(s, o) ==
  IF s \notin DOMAIN byUser THEN byUser
  ELSE LET rest == Delete(byUser[s], {o})
       IN  IF DOMAIN rest = {} THEN Delete(byUser, {s})
           ELSE Put(byUser, s, rest)

ActionLine(kind, target) ==
  [kind |-> kind, id |-> seq + 1, target |-> target, turns |-> 1,
   asker |-> None, orig |-> None]

\* Mutant: analyzeTurns is overlooked.
ExpectedFinals_OnePerQuery(kind, turns) == 1

\* expectedFinals: one final for an action, one per analysed turn otherwise.
ExpectedFinals(kind, turns) == IF kind = "analyze" THEN turns ELSE 1

\* "No line" is no line, and "no reply" no reply.
ASSUME NoneAssumption == None \notin Line /\ None \notin Reply

-----------------------------------------------------------------------------
(* The state after Start: the probe took id 1 and its entry is gone.       *)

Init ==
  /\ routes = EmptyMap
  /\ byUser = EmptyMap
  /\ seq = 1
  /\ pc = [s \in Session |-> "idle"]
  /\ todo = [s \in Session |-> {}]
  /\ line = [g \in Goroutine |-> None]
  /\ writeMu = None
  /\ stdinOpen = TRUE
  /\ reply = None
  /\ shutdown = "none"
  /\ pipe = <<>>
  /\ katago = "running"
  /\ work = EmptyMap

-----------------------------------------------------------------------------
(* Submit, up to the write of the query.                                   *)

\* validateQuery fails, or the id is already active: a protocol error.
SubmitRefused(s) ==
  /\ pc[s] = "idle"
  /\ pc' = [pc EXCEPT ![s] = "refusing"]
  /\ UNCHANGED <<tables, todo, line, writeMu, stdinOpen, reply, shutdown,
                 process>>

\* A terminate without a target, or with one that is not active.  The id has
\* been taken and the session's map made before this is found out.
SubmitBadTerminate(s, o) ==
  /\ pc[s] = "idle"
  /\ seq < MaxSeq
  /\ o \notin DOMAIN UserRoutes(s)
  /\ byUser' = Put(byUser, s, UserRoutes(s))
  /\ seq' = seq + 1
  /\ pc' = [pc EXCEPT ![s] = "refusing"]
  /\ UNCHANGED <<routes, todo, line, writeMu, stdinOpen, reply, shutdown,
                 process>>

\* Mutant: the id is taken without seq.Add, so the next query takes it again.
Register_ReusesId(s, o, kind, turns, target) ==
  /\ pc[s] = "idle"
  /\ seq < MaxSeq
  /\ o \notin DOMAIN UserRoutes(s)
  /\ LET id == seq + 1
     IN  /\ routes' = Put(routes, id,
                          [session |-> s, orig |-> o, action |-> kind,
                           remaining |-> ExpectedFinals(kind, turns)])
         /\ byUser' = Put(byUser, s, Put(UserRoutes(s), o, id))
         /\ line' = [line EXCEPT ![s] =
                       [kind |-> kind, id |-> id, target |-> target,
                        turns |-> turns, asker |-> s, orig |-> o]]
  /\ pc' = [pc EXCEPT ![s] = "submitting"]
  /\ UNCHANGED <<seq, todo, writeMu, stdinOpen, reply, shutdown, process>>

\* The query is entered in both tables and passed to writeJSON.
Register(s, o, kind, turns, target) ==
  /\ pc[s] = "idle"
  /\ seq < MaxSeq
  /\ o \notin DOMAIN UserRoutes(s)
  /\ LET id == seq + 1
     IN  /\ seq' = id
         /\ routes' = Put(routes, id,
                          [session |-> s, orig |-> o, action |-> kind,
                           remaining |-> ExpectedFinals(kind, turns)])
         /\ byUser' = Put(byUser, s, Put(UserRoutes(s), o, id))
         /\ line' = [line EXCEPT ![s] =
                       [kind |-> kind, id |-> id, target |-> target,
                        turns |-> turns, asker |-> s, orig |-> o]]
  /\ pc' = [pc EXCEPT ![s] = "submitting"]
  /\ UNCHANGED <<todo, writeMu, stdinOpen, reply, shutdown, process>>

SubmitAnalysis(s, o) ==
  \E turns \in 1..MaxTurns : Register(s, o, "analyze", turns, 0)

\* Mutant: terminateId is looked up among the queries of every session.
SubmitTerminate_AnySession(s, o) ==
  \E t \in DOMAIN byUser : \E q \in DOMAIN byUser[t] :
    Register(s, o, "terminate", 1, byUser[t][q])

SubmitTerminate(s, o) ==
  \E q \in DOMAIN UserRoutes(s) :
    Register(s, o, "terminate", 1, UserRoutes(s)[q])

SubmitAction(s, o) ==
  \E kind \in {"terminate_all", "control"} : Register(s, o, kind, 1, 0)

\* sendProtocolError returns; an error ends the session's read loop.
RefusalSent(s) ==
  /\ pc[s] = "refusing"
  /\ \E next \in {"idle", "failed"} : pc' = [pc EXCEPT ![s] = next]
  /\ UNCHANGED <<tables, todo, line, writeMu, stdinOpen, reply, shutdown,
                 process>>

-----------------------------------------------------------------------------
(* writeJSON, on behalf of goroutine g, and what its caller does next.     *)

Lock(g) ==
  /\ line[g] # None
  /\ g \in Session => pc[g] # "unrouting"
  /\ writeMu = None
  /\ writeMu' = g
  /\ UNCHANGED <<tables, callers, line, stdinOpen, reply, shutdown, process>>

\* The part of pc and shutdown that a return from writeJSON changes.
\* A Submit that failed keeps its line until removeRoute is through.
Return(g, ok) ==
  IF g = Main
  THEN /\ shutdown' = "closing"
       /\ line' = [line EXCEPT ![Main] = None]
       /\ UNCHANGED pc
  ELSE /\ \/ /\ pc[g] = "submitting"
             /\ pc' = [pc EXCEPT ![g] = IF ok THEN "idle" ELSE "unrouting"]
             /\ line' = IF ok THEN [line EXCEPT ![g] = None] ELSE line
          \/ /\ pc[g] = "cancelling"
             /\ line' = [line EXCEPT ![g] = None]
             /\ UNCHANGED pc
       /\ UNCHANGED shutdown

\* The pipe takes the line; until it has room the writer waits, with writeMu.
Write(g) ==
  /\ writeMu = g
  /\ stdinOpen
  /\ katago = "running"
  /\ Len(pipe) < PipeCapacity
  /\ pipe' = Append(pipe, line[g])
  /\ writeMu' = None
  /\ Return(g, TRUE)
  /\ UNCHANGED <<tables, todo, stdinOpen, reply, katago, work>>

\* Mutant: the error return does not unlock writeMu.
WriteFails_KeepsLock(g) ==
  /\ writeMu = g
  /\ line[g] # None
  /\ ~stdinOpen \/ katago # "running"
  /\ Return(g, FALSE)
  /\ UNCHANGED <<tables, todo, writeMu, stdinOpen, reply, process>>

\* stdin is nil, or nobody reads the pipe any more.
WriteFails(g) ==
  /\ writeMu = g
  /\ ~stdinOpen \/ katago # "running"
  /\ writeMu' = None
  /\ Return(g, FALSE)
  /\ UNCHANGED <<tables, todo, stdinOpen, reply, process>>

\* removeRoute after a failed write, then Submit returns the error.
RemoveRoute(s) ==
  /\ pc[s] = "unrouting"
  /\ IF line[s].id \in DOMAIN routes
     THEN /\ routes' = Delete(routes, {line[s].id})
          /\ byUser' = DropUser(s, line[s].orig)
     ELSE UNCHANGED <<routes, byUser>>
  /\ line' = [line EXCEPT ![s] = None]
  /\ pc' = [pc EXCEPT ![s] = "failed"]
  /\ UNCHANGED <<seq, todo, writeMu, stdinOpen, reply, shutdown, process>>

-----------------------------------------------------------------------------
(* CancelSession.                                                          *)

\* Mutant: the routes are looked up after they have been deleted.
Analyses_TooLate(s) == {}

\* The analyses that CancelSession collects while it empties the tables.
Analyses(s) ==
  {id \in {UserRoutes(s)[o] : o \in DOMAIN UserRoutes(s)} :
     id \in DOMAIN routes /\ routes[id].action = "analyze"}

\* Mutant: the session's own map is left behind.
CancelSession_KeepsUser(s) ==
  /\ pc[s] \in {"idle", "failed"}
  /\ todo' = [todo EXCEPT ![s] = Analyses(s)]
  /\ routes' = Delete(routes,
                      {UserRoutes(s)[o] : o \in DOMAIN UserRoutes(s)})
  /\ pc' = [pc EXCEPT ![s] = "cancelling"]
  /\ UNCHANGED <<byUser, seq, line, writeMu, stdinOpen, reply, shutdown,
                 process>>

\* The session ended, because its client left or a Submit failed.
CancelSession(s) ==
  /\ pc[s] \in {"idle", "failed"}
  /\ todo' = [todo EXCEPT ![s] = Analyses(s)]
  /\ routes' = Delete(routes,
                      {UserRoutes(s)[o] : o \in DOMAIN UserRoutes(s)})
  /\ byUser' = Delete(byUser, {s})
  /\ pc' = [pc EXCEPT ![s] = "cancelling"]
  /\ UNCHANGED <<seq, line, writeMu, stdinOpen, reply, shutdown, process>>

\* One round of its loop, in the order in which the map was walked (any).
CancelNext(s) ==
  /\ pc[s] = "cancelling"
  /\ line[s] = None
  /\ \E id \in todo[s] :
       /\ line' = [line EXCEPT ![s] = ActionLine("terminate", id)]
       /\ todo' = [todo EXCEPT ![s] = @ \ {id}]
  /\ seq' = seq + 1
  /\ UNCHANGED <<routes, byUser, pc, writeMu, stdinOpen, reply, shutdown,
                 process>>

CancelReturns(s) ==
  /\ pc[s] = "cancelling"
  /\ line[s] = None
  /\ todo[s] = {}
  /\ pc' = [pc EXCEPT ![s] = "gone"]
  /\ UNCHANGED <<tables, todo, line, writeMu, stdinOpen, reply, shutdown,
                 process>>

-----------------------------------------------------------------------------
(* dispatch: one line of KataGo's output.  KataGo may hold any line back,  *)
(* so the line is printed, buffered and read in this one step.             *)

\* Mutant: the reply to an action does not complete its route.
ShouldComplete_CountsOnly(r, said) ==
  \/ said = "error"
  \/ /\ r.action = "analyze"
     /\ said \in {"final", "warning"}
     /\ r.remaining - 1 <= 0

\* shouldComplete, for what it decides, given the remaining finals after it.
ShouldComplete(r, said) ==
  \/ said = "error"
  \/ r.action # "analyze"
  \/ said \in {"final", "warning"} /\ r.remaining - 1 <= 0

\* Mutant: isDuringSearch is not looked at before the count.
Counted_During(r, said) ==
  IF r.action = "analyze" THEN [r EXCEPT !.remaining = @ - 1] ELSE r

\* shouldComplete, for its side effect on remainingFinals.
Counted(r, said) ==
  IF r.action = "analyze" /\ said \in {"final", "warning"}
  THEN [r EXCEPT !.remaining = @ - 1]
  ELSE r

\* The section under routeMu: look the route up, rewrite the reply for its
\* session, and drop the route if the reply completes it.
Dispatch(id, said) ==
  /\ reply = None
  /\ IF id \notin DOMAIN routes
     THEN UNCHANGED <<routes, byUser, reply>>
     ELSE LET r == routes[id]
          IN  /\ reply' = [session |-> r.session, orig |-> r.orig,
                           asker |-> work[id].asker, about |-> work[id].orig]
              /\ IF ShouldComplete(r, said)
                 THEN /\ routes' = Delete(routes, {id})
                      /\ byUser' = DropUser(r.session, r.orig)
                 ELSE /\ routes' = Put(routes, id, Counted(r, said))
                      /\ UNCHANGED byUser
  /\ UNCHANGED <<seq, callers, line, writeMu, stdinOpen, shutdown, pipe,
                 katago>>

\* Sender.Send returns; its error is only logged.
DispatchSent ==
  /\ reply # None
  /\ reply' = None
  /\ UNCHANGED <<tables, callers, line, writeMu, stdinOpen, shutdown, process>>

-----------------------------------------------------------------------------
(* The KataGo process (external): it reads its stdin line by line, answers *)
(* every line it has read under the id of that line, and may exit.         *)

Told(w, ids) == [id \in DOMAIN w |-> [w[id] EXCEPT !.told = @ \/ id \in ids]]

ReadLine ==
  /\ katago = "running"
  /\ pipe # <<>>
  /\ pipe' = Tail(pipe)
  /\ LET l == Head(pipe)
         w == CASE l.kind = "terminate" -> Told(work, {l.target})
                [] l.kind = "terminate_all" -> Told(work, DOMAIN work)
                [] OTHER -> work
     IN  \E first \in {"result", "error"} \cup
                      IF Warnings /\ l.kind = "analyze" THEN {"warning"}
                      ELSE {} :
           work' = Put(w, l.id,
                       [kind |-> l.kind, told |-> FALSE, first |-> first,
                        left |-> l.turns,
                        asker |-> l.asker, orig |-> l.orig])
  /\ UNCHANGED <<tables, callers, line, writeMu, stdinOpen, reply, shutdown,
                 katago>>

\* A partial result of a search (reportDuringSearchEvery).
PrintDuring(id) ==
  /\ id \in DOMAIN work
  /\ work[id].kind = "analyze"
  /\ work[id].first = "result"
  /\ UNCHANGED work
  /\ Dispatch(id, "during")

\* The result of one turn, or the acknowledgement of an action.
PrintFinal(id) ==
  /\ id \in DOMAIN work
  /\ work[id].first = "result"
  /\ work' = IF work[id].left = 1 THEN Delete(work, {id})
             ELSE [work EXCEPT ![id].left = @ - 1]
  /\ Dispatch(id, "final")

\* The query is refused as a whole.
PrintError(id) ==
  /\ id \in DOMAIN work
  /\ work[id].first = "error"
  /\ work' = Delete(work, {id})
  /\ Dispatch(id, "error")

\* A remark about a query that will be answered all the same.
PrintWarning(id) ==
  /\ id \in DOMAIN work
  /\ work[id].first = "warning"
  /\ work' = [work EXCEPT ![id].first = "result"]
  /\ Dispatch(id, "warning")

\* It finishes after end of file, crashes, or is killed with its context.
Exit ==
  /\ katago = "running"
  /\ katago' = "exited"
  /\ pipe' = <<>>
  /\ UNCHANGED <<tables, callers, line, writeMu, stdinOpen, reply, shutdown,
                 work>>

\* cmd.Wait closes the pipes and done is closed; what readStdout has buffered
\* by then is still dispatched.
Reap ==
  /\ katago = "exited"
  /\ katago' = "reaped"
  /\ UNCHANGED <<tables, callers, line, writeMu, stdinOpen, reply, shutdown,
                 pipe, work>>

\* Scan fails and readStdout returns: what KataGo has not said, or Wait has
\* closed the pipe on, will not be dispatched.
StdoutEnds ==
  /\ katago # "running"
  /\ reply = None
  /\ work # EmptyMap
  /\ work' = EmptyMap
  /\ UNCHANGED <<tables, callers, line, writeMu, stdinOpen, reply, shutdown,
                 pipe, katago>>

-----------------------------------------------------------------------------
(* Shutdown.                                                               *)

ShutdownBegin ==
  /\ shutdown = "none"
  /\ shutdown' = "terminating"
  /\ line' = [line EXCEPT ![Main] = ActionLine("terminate_all", 0)]
  /\ seq' = seq + 1
  /\ UNCHANGED <<routes, byUser, callers, writeMu, stdinOpen, reply, process>>

\* Under writeMu: close stdin and forget it.
ShutdownClose ==
  /\ shutdown = "closing"
  /\ writeMu = None
  /\ stdinOpen' = FALSE
  /\ shutdown' = "waiting"
  /\ UNCHANGED <<tables, callers, line, writeMu, reply, process>>

\* ShutdownTimeout or the caller's deadline: the process group is killed, and
\* after the former Shutdown waits on.
ShutdownKill ==
  /\ shutdown = "waiting"
  /\ \E next \in {"killed", "returned"} : shutdown' = next
  /\ IF katago = "running" THEN katago' = "exited" /\ pipe' = <<>>
     ELSE UNCHANGED <<katago, pipe>>
  /\ UNCHANGED <<tables, callers, line, writeMu, stdinOpen, reply, work>>

\* done is ready, or, once the process is killed, the deadline passes.
ShutdownReturn ==
  /\ \/ shutdown = "waiting" /\ katago = "reaped"
     \/ shutdown = "killed"
  /\ shutdown' = "returned"
  /\ UNCHANGED <<tables, callers, line, writeMu, stdinOpen, reply, process>>

-----------------------------------------------------------------------------

Submit(s) ==
  \/ SubmitRefused(s)
  \/ RefusalSent(s)
  \/ RemoveRoute(s)
  \/ \E o \in ClientId :
       \/ SubmitBadTerminate(s, o)
       \/ SubmitAnalysis(s, o)
       \/ SubmitTerminate(s, o)
       \/ SubmitAction(s, o)

Cancel(s) == CancelSession(s) \/ CancelNext(s) \/ CancelReturns(s)

WriteJSON(g) == Lock(g) \/ Write(g) \/ WriteFails(g)

KataGoPrints(id) ==
  PrintDuring(id) \/ PrintFinal(id) \/ PrintError(id) \/ PrintWarning(id)

Shutdown == ShutdownBegin \/ ShutdownClose \/ ShutdownKill \/ ShutdownReturn

\* The service has ended: nothing is left to run.
Finished ==
  /\ shutdown = "returned"
  /\ katago = "reaped"
  /\ reply = None
  /\ \A s \in Session : pc[s] = "gone"
  /\ UNCHANGED vars

Next ==
  \/ \E s \in Session : Submit(s) \/ Cancel(s)
  \/ \E g \in Goroutine : WriteJSON(g)
  \/ \E id \in DOMAIN work : KataGoPrints(id)
  \/ DispatchSent
  \/ ReadLine \/ Exit \/ Reap \/ StdoutEnds
  \/ Shutdown
  \/ Finished

Spec == Init /\ [][Next]_vars

-----------------------------------------------------------------------------
(* Safety.                                                                 *)

\* The tables under routeMu.
TablesTypeOK ==
  /\ seq \in Nat
  /\ DOMAIN routes \subseteq 1..seq
  /\ \A id \in DOMAIN routes : routes[id] \in Route
  /\ DOMAIN byUser \subseteq Session
  /\ \A s \in DOMAIN byUser :
       /\ DOMAIN byUser[s] \subseteq ClientId
       /\ \A o \in DOMAIN byUser[s] : byUser[s][o] \in 1..seq

\* The goroutines and what they share apart from the tables.
GoroutinesTypeOK ==
  /\ pc \in [Session -> {"idle", "refusing", "submitting", "unrouting",
                         "failed", "cancelling", "gone"}]
  /\ todo \in [Session -> SUBSET (1..seq)]
  /\ line \in [Goroutine -> Line \cup {None}]
  /\ writeMu \in Goroutine \cup {None}
  /\ stdinOpen \in BOOLEAN
  /\ reply \in Reply \cup {None}
  /\ shutdown \in {"none", "terminating", "closing", "waiting", "killed",
                   "returned"}

\* KataGo and the pipe to it.
ProcessTypeOK ==
  /\ pipe \in Seq(Line)
  /\ katago \in {"running", "exited", "reaped"}
  /\ DOMAIN work \subseteq 1..seq
  /\ \A id \in DOMAIN work : work[id] \in Job

\* Every variable keeps its type: the tables and maps are functions with the
\* expected entries, and every goroutine is at a place its code has.
TypeOK == TablesTypeOK /\ GoroutinesTypeOK /\ ProcessTypeOK

Over(s) == pc[s] \in {"cancelling", "gone"}

\* The two tables are each other's inverse whatever Submit, dispatch,
\* removeRoute and CancelSession interleave, and a session that is over has
\* no entry left in either (nor an empty map of its own).
TablesAgree ==
  /\ \A id \in DOMAIN routes :
       LET r == routes[id]
       IN  /\ r.session \in DOMAIN byUser
           /\ r.orig \in DOMAIN byUser[r.session]
           /\ byUser[r.session][r.orig] = id
  /\ \A s \in DOMAIN byUser :
       /\ ~Over(s)
       /\ \A o \in DOMAIN byUser[s] :
            LET id == byUser[s][o]
            IN  /\ id \in DOMAIN routes
                /\ routes[id].session = s
                /\ routes[id].orig = o

\* "Results are mapped back to the originating ID": what dispatch hands to a
\* session is about the very query of that session whose id it carries.
RepliesGoHome ==
  reply # None => reply.asker = reply.session /\ reply.about = reply.orig

\* Lines that carry a query KataGo has not read yet.
Unread ==
  {line[s] : s \in {t \in Session : pc[t] \in {"submitting", "unrouting"}}}
    \cup Range(pipe)

\* remainingFinals is what KataGo still owes, so that a route is not kept
\* after the last result: its id would be refused for ever.
RouteCountsFinals ==
  katago = "running" =>
    \A id \in DOMAIN routes :
      \/ id \in DOMAIN work /\ routes[id].remaining = work[id].left
      \/ \E l \in Unread : l.id = id /\ routes[id].remaining = l.turns

\* Whatever KataGo adds, a route never waits for more than KataGo still owes:
\* a count that went wrong upwards would have the id refused for ever.
RoutesCanEnd ==
  katago = "running" =>
    \A id \in DOMAIN routes :
      \/ id \in DOMAIN work /\ routes[id].remaining \in 1..work[id].left
      \/ \E l \in Unread : l.id = id /\ routes[id].remaining \in 1..l.turns

\* Nor is it dropped before the last result: while its session lives, a query
\* that KataGo has yet to answer has the route its answers go by.
ResultsHaveRoutes ==
  \A id \in DOMAIN work :
    work[id].asker # None /\ ~Over(work[id].asker) => id \in DOMAIN routes

\* A terminate for id is on its way: not written yet, or in the pipe behind i.
TerminateComing(s, id, i) ==
  \/ id \in todo[s]
  \/ line[s] # None /\ line[s].kind = "terminate" /\ line[s].target = id
  \/ \E j \in i + 1..Len(pipe) :
       pipe[j].kind = "terminate" /\ pipe[j].target = id

\* "Disconnecting a client sends termination requests for its active
\* analyses": of a session that is over, KataGo works on no analysis unless it
\* has been told to stop or a terminate follows the query down the pipe.
CancelReachesWork ==
  katago = "running" /\ stdinOpen =>
    \A s \in {t \in Session : Over(t)} :
      /\ \A id \in DOMAIN work :
           /\ work[id].kind = "analyze"
           /\ work[id].asker = s
           /\ ~work[id].told
           => TerminateComing(s, id, 0)
      /\ \A i \in 1..Len(pipe) :
           pipe[i].kind = "analyze" /\ pipe[i].asker = s
             => TerminateComing(s, pipe[i].id, i)

-----------------------------------------------------------------------------
(* Action properties.                                                      *)

\* A terminate stops a query of the session that sent it, or, sent by
\* CancelSession, of a session that is over; never another session's query.
StopsOwnWorkOnly ==
  [][\A id \in DOMAIN work \cap DOMAIN work' :
       work'[id].told /\ ~work[id].told =>
         \/ Head(pipe).kind = "terminate_all"
         \/ Head(pipe).asker = work[id].asker
         \/ Head(pipe).asker = None /\ Over(work[id].asker)]_vars

-----------------------------------------------------------------------------
(* Liveness.  The Go scheduler runs every goroutine and sync.Mutex starves *)
(* none of those that wait for it; a Send returns; KataGo reads its stdin  *)
(* and finishes every search.  Nothing makes it exit, and nothing makes    *)
(* clients send queries or leave.                                          *)

\* What a session's goroutine does by itself, the waits for writeMu and for
\* the pipe apart.
Runs(s) ==
  \/ RefusalSent(s) \/ RemoveRoute(s)
  \/ pc[s] = "failed" /\ CancelSession(s)
  \/ CancelNext(s) \/ CancelReturns(s)

Fairness ==
  /\ \A s \in Session : WF_vars(Runs(s))
  /\ \A g \in Goroutine : SF_vars(Lock(g)) /\ WF_vars(Write(g) \/ WriteFails(g))
  /\ \A id \in 1..MaxSeq : SF_vars(id \in DOMAIN work /\ (PrintFinal(id)
                                   \/ PrintError(id) \/ PrintWarning(id)))
  /\ WF_vars(DispatchSent)
  /\ WF_vars(ReadLine)
  /\ WF_vars(Reap)
  /\ SF_vars(ShutdownClose)
  /\ WF_vars(ShutdownKill \/ ShutdownReturn)

LiveSpec == Spec /\ Fairness

\* Every query that is entered leaves the table again, so that its client id
\* can be used once more, unless KataGo exits.
EveryQueryEnds ==
  \A id \in 1..MaxSeq :
    id \in DOMAIN routes ~> id \notin DOMAIN routes \/ katago # "running"

\* CancelSession returns, whoever competes with it for writeMu and the pipe:
\* the handler gives the engine up only then.
CancelEnds ==
  \A s \in Session : pc[s] = "cancelling" ~> pc[s] = "gone"

\* Shutdown returns.
ShutdownEnds == shutdown = "terminating" ~> shutdown = "returned"
=============================================================================
