------------------------------- MODULE Bridge -------------------------------
(***************************************************************************)
(* internal/bridge/server.go on top of module Engine: the WebSocket        *)
(* handler, which lets one client at a time use the engine, and            *)
(* websocketSender, through which both the handler (protocol errors) and   *)
(* dispatch (results) write to that client.                                *)
(*                                                                         *)
(* Every step is a step of Engine, a step of the handler between two of    *)
(* them, or a step of a client (external).  A request that does not carry  *)
(* the token is answered 404 before any of this and leaves no trace.       *)
(***************************************************************************)
EXTENDS Engine

CONSTANTS
  MaxBatch,  \* bound: lines in one WebSocket message
  Stops      \* whether KataGo exits and the service stops in this instance

ASSUME BridgeAssumption == MaxBatch \in Nat \ {0} /\ Stops \in BOOLEAN

VARIABLES
  activeSession, \* the session that owns the engine
  handler,       \* where each websocket handler is
  batch,         \* lines of the message just read, still to be submitted
  conn,          \* each connection, as the server can find it
  sendMu,        \* who holds each websocketSender's writeMu
  late           \* dispatch's 10 s passed before it got that mutex

serverVars == <<activeSession, handler, batch, conn, sendMu, late>>
bridgeVars == <<vars, serverVars>>

BridgeInit ==
  /\ Init
  /\ activeSession = None
  /\ handler = [s \in Session |-> "none"]
  /\ batch = [s \in Session |-> 0]
  /\ conn = [s \in Session |-> "none"]
  /\ sendMu = [s \in Session |-> "free"]
  /\ late = FALSE

-----------------------------------------------------------------------------
(* Clients (external).  One that stalls keeps its connection and may go on *)
(* sending, but reads nothing, so that a write to it blocks.               *)

ClientStalls(s) ==
  /\ conn[s] = "open"
  /\ conn' = [conn EXCEPT ![s] = "stalled"]
  /\ UNCHANGED <<vars, activeSession, handler, batch, sendMu, late>>

ClientResumes(s) ==
  /\ conn[s] = "stalled"
  /\ conn' = [conn EXCEPT ![s] = "open"]
  /\ UNCHANGED <<vars, activeSession, handler, batch, sendMu, late>>

ClientLeaves(s) ==
  /\ conn[s] \in {"open", "stalled"}
  /\ conn' = [conn EXCEPT ![s] = "closed"]
  /\ UNCHANGED <<vars, activeSession, handler, batch, sendMu, late>>

-----------------------------------------------------------------------------
(* The handler.                                                            *)

\* The token is right and the handshake succeeds.
Accept(s) ==
  /\ handler[s] = "none"
  /\ handler' = [handler EXCEPT ![s] = "accepted"]
  /\ conn' = [conn EXCEPT ![s] = "open"]
  /\ UNCHANGED <<vars, activeSession, batch, sendMu, late>>

\* claimSession, and the Close with StatusTryAgainLater when it fails.
ClaimSession(s) ==
  /\ handler[s] = "accepted"
  /\ IF activeSession = None
     THEN /\ activeSession' = s
          /\ handler' = [handler EXCEPT ![s] = "serving"]
          /\ UNCHANGED conn
     ELSE /\ handler' = [handler EXCEPT ![s] = "done"]
          /\ conn' = [conn EXCEPT ![s] = "closed"]
          /\ UNCHANGED activeSession
  /\ UNCHANGED <<vars, batch, sendMu, late>>

InReadLoop(s) == handler[s] = "serving" /\ pc[s] = "idle"

\* connection.Read returns a message of one or more lines.
ReadMessage(s) ==
  /\ InReadLoop(s)
  /\ batch[s] = 0
  /\ conn[s] \in {"open", "stalled"}
  /\ \E n \in 1..MaxBatch : batch' = [batch EXCEPT ![s] = n]
  /\ UNCHANGED <<vars, activeSession, handler, conn, sendMu, late>>

\* The next line of the message goes to Submit, be the client still there
\* or not.
SubmitLine(s) ==
  /\ InReadLoop(s)
  /\ batch[s] > 0
  /\ batch' = [batch EXCEPT ![s] = @ - 1]
  /\ \/ SubmitRefused(s)
     \/ \E o \in ClientId : \/ SubmitBadTerminate(s, o)
                            \/ SubmitAnalysis(s, o)
                            \/ SubmitTerminate(s, o)
                            \/ SubmitAction(s, o)
  /\ UNCHANGED <<activeSession, handler, conn, sendMu, late>>

\* connection.Read fails, or Submit has: the deferred function starts.
EndSession(s) ==
  /\ handler[s] = "serving"
  /\ \/ pc[s] = "idle" /\ batch[s] = 0 /\ conn[s] = "closed"
     \/ pc[s] = "failed"
  /\ batch' = [batch EXCEPT ![s] = 0]
  /\ CancelSession(s)
  /\ UNCHANGED <<activeSession, handler, conn, sendMu, late>>

\* Mutant: the engine is handed over before the old queries are cancelled.
ReleaseSession_First(s) ==
  /\ handler[s] = "serving"
  /\ pc[s] \in {"cancelling", "gone"}
  /\ handler' = [handler EXCEPT ![s] = "closing"]
  /\ activeSession' = None
  /\ UNCHANGED <<vars, batch, conn, sendMu, late>>

\* Mutant: releaseSession compares the wrong way round.
ReleaseSession_Others(s) ==
  /\ handler[s] = "serving"
  /\ pc[s] = "gone"
  /\ handler' = [handler EXCEPT ![s] = "closing"]
  /\ activeSession' = IF activeSession # s THEN None ELSE activeSession
  /\ UNCHANGED <<vars, batch, conn, sendMu, late>>

\* releaseSession, once CancelSession has returned.
ReleaseSession(s) ==
  /\ handler[s] = "serving"
  /\ pc[s] = "gone"
  /\ handler' = [handler EXCEPT ![s] = "closing"]
  /\ activeSession' = IF activeSession = s THEN None ELSE activeSession
  /\ UNCHANGED <<vars, batch, conn, sendMu, late>>

CloseConnection(s) ==
  /\ handler[s] = "closing"
  /\ handler' = [handler EXCEPT ![s] = "done"]
  /\ conn' = [conn EXCEPT ![s] = "closed"]
  /\ UNCHANGED <<vars, activeSession, batch, sendMu, late>>

-----------------------------------------------------------------------------
(* websocketSender.Send.  Its mutex knows no context, and the context of   *)
(* the handler's own sends has no deadline.                                *)

SendLock(s, who) ==
  /\ sendMu[s] = "free"
  /\ \/ who = "handler" /\ pc[s] = "refusing"
     \/ who = "reader" /\ reply # None /\ reply.session = s
  /\ sendMu' = [sendMu EXCEPT ![s] = who]
  /\ UNCHANGED <<vars, activeSession, handler, batch, conn, late>>

\* A protocol error is written, or the connection turns out to be gone.
SendRefusal(s) ==
  /\ sendMu[s] = "handler"
  /\ conn[s] # "stalled"
  /\ sendMu' = [sendMu EXCEPT ![s] = "free"]
  /\ RefusalSent(s)
  /\ pc'[s] = IF conn[s] = "open" THEN "idle" ELSE "failed"
  /\ UNCHANGED <<activeSession, handler, batch, conn, late>>

\* Mutant: Send returns without unlocking.
SendReply_KeepsLock(s) ==
  /\ sendMu[s] = "reader"
  /\ ~late
  /\ conn[s] # "stalled"
  /\ DispatchSent
  /\ UNCHANGED <<activeSession, handler, batch, conn, sendMu, late>>

\* A result is written, or the connection turns out to be gone.
SendReply(s) ==
  /\ sendMu[s] = "reader"
  /\ ~late
  /\ conn[s] # "stalled"
  /\ sendMu' = [sendMu EXCEPT ![s] = "free"]
  /\ DispatchSent
  /\ UNCHANGED <<activeSession, handler, batch, conn, late>>

\* Mutant: a result, too, is written without a deadline.
SendTimesOut_Never(s) == sendMu[s] = "none" /\ UNCHANGED bridgeVars

\* The 10 s pass during the write: the library closes the connection.
SendTimesOut(s) ==
  /\ sendMu[s] = "reader"
  /\ ~late
  /\ conn[s] = "stalled"
  /\ sendMu' = [sendMu EXCEPT ![s] = "free"]
  /\ conn' = [conn EXCEPT ![s] = "closed"]
  /\ DispatchSent
  /\ UNCHANGED <<activeSession, handler, batch, late>>

\* The 10 s pass while the handler's own send keeps the mutex ...
Expires(s) ==
  /\ reply # None /\ reply.session = s
  /\ sendMu[s] = "handler"
  /\ ~late
  /\ late' = TRUE
  /\ UNCHANGED <<vars, activeSession, handler, batch, conn, sendMu>>

\* ... and the result is dropped when its turn comes, with or without the
\* connection.
SendTooLate(s) ==
  /\ sendMu[s] = "reader"
  /\ late
  /\ late' = FALSE
  /\ sendMu' = [sendMu EXCEPT ![s] = "free"]
  /\ \E c \in {conn[s], "closed"} : conn' = [conn EXCEPT ![s] = c]
  /\ DispatchSent
  /\ UNCHANGED <<activeSession, handler, batch>>

-----------------------------------------------------------------------------

Client(s) == ClientStalls(s) \/ ClientResumes(s) \/ ClientLeaves(s)

Handler(s) ==
  \/ Accept(s) \/ ClaimSession(s) \/ ReadMessage(s) \/ SubmitLine(s)
  \/ EndSession(s) \/ ReleaseSession(s) \/ CloseConnection(s)

Send(s) ==
  \/ \E who \in {"handler", "reader"} : SendLock(s, who)
  \/ SendRefusal(s) \/ SendReply(s) \/ SendTimesOut(s)
  \/ Expires(s) \/ SendTooLate(s)

\* The steps of Engine that neither the handler nor a Send takes part in.
EngineStep ==
  /\ \/ \E s \in Session : RemoveRoute(s) \/ CancelNext(s) \/ CancelReturns(s)
     \/ \E g \in Goroutine : WriteJSON(g)
     \/ \E id \in DOMAIN work : KataGoPrints(id)
     \/ ReadLine
     \/ Stops /\ (Exit \/ Shutdown)
     \/ Reap \/ StdoutEnds
  /\ UNCHANGED serverVars

\* Every client has been served, or nothing runs any more.
AllServed ==
  /\ \A s \in Session : handler[s] = "done" /\ sendMu[s] = "free"
  /\ reply = None
  /\ UNCHANGED bridgeVars

BridgeNext ==
  \/ \E s \in Session : Client(s) \/ Handler(s) \/ Send(s)
  \/ EngineStep
  \/ AllServed

BridgeSpec == BridgeInit /\ [][BridgeNext]_bridgeVars

-----------------------------------------------------------------------------
(* Safety.                                                                 *)

\* Every variable of the server keeps its type, and a mutex holder is at the
\* place where it holds the mutex.
BridgeTypeOK ==
  /\ TypeOK
  /\ activeSession \in Session \cup {None}
  /\ handler \in [Session -> {"none", "accepted", "serving", "closing", "done"}]
  /\ batch \in [Session -> 0..MaxBatch]
  /\ conn \in [Session -> {"none", "open", "stalled", "closed"}]
  /\ sendMu \in [Session -> {"free", "handler", "reader"}]
  /\ late \in BOOLEAN
  /\ \A s \in Session :
       /\ sendMu[s] = "handler" => pc[s] = "refusing"
       /\ sendMu[s] = "reader" => reply # None /\ reply.session = s

\* "Only one WebSocket client can own the engine at a time": whoever has an
\* entry in the tables, a line to write or a terminate to send is the active
\* session, and so is whoever is being served.
OneOwner ==
  /\ \A id \in DOMAIN routes : routes[id].session = activeSession
  /\ \A s \in Session :
       s \in DOMAIN byUser \/ line[s] # None \/ todo[s] # {}
         \/ handler[s] = "serving"
       => s = activeSession

\* The terminate for id comes before any line of session s.
TerminateBefore(s, id, i) ==
  \E j \in i + 1..Len(pipe) :
    /\ pipe[j].kind = "terminate" /\ pipe[j].target = id
    /\ \A k \in 1..j : pipe[k].asker # s

\* A reconnecting client does not share the engine with its predecessor: when
\* a session owns the engine, KataGo has been told to stop every analysis of
\* any other session, or will read the terminate before the owner's first
\* query.
HandoffClean ==
  katago = "running" /\ stdinOpen /\ activeSession # None =>
    /\ \A id \in DOMAIN work :
         /\ work[id].kind = "analyze"
         /\ work[id].asker # activeSession
         /\ ~work[id].told
         => TerminateBefore(activeSession, id, 0)
    /\ \A i \in 1..Len(pipe) :
         pipe[i].kind = "analyze" /\ pipe[i].asker # activeSession
           => TerminateBefore(activeSession, pipe[i].id, i)

-----------------------------------------------------------------------------
(* Liveness: the fairness of module Engine, a Send as above, and a handler *)
(* that runs.  A client owes nothing: it may stall for ever.               *)

\* What a handler does by itself, its sends and its waits in writeJSON apart.
HandlerRuns(s) ==
  \/ ClaimSession(s) \/ SubmitLine(s) \/ EndSession(s) \/ ReleaseSession(s)
  \/ CloseConnection(s)
  \/ EngineStep /\ (RemoveRoute(s) \/ CancelNext(s) \/ CancelReturns(s))

BridgeFairness ==
  /\ \A s \in Session :
       /\ WF_bridgeVars(HandlerRuns(s))
       /\ SF_bridgeVars(SendLock(s, "handler") \/ SendRefusal(s))
       /\ SF_bridgeVars(SendLock(s, "reader") \/ SendReply(s))
       /\ WF_bridgeVars(SendTimesOut(s) \/ SendTooLate(s))
  /\ \A g \in Goroutine :
       /\ SF_bridgeVars(EngineStep /\ Lock(g))
       /\ WF_bridgeVars(EngineStep /\ (Write(g) \/ WriteFails(g)))
  /\ WF_bridgeVars(EngineStep /\ ReadLine)

BridgeLiveSpec == BridgeSpec /\ BridgeFairness

\* When the client that owns the engine is gone the engine is given up, so
\* that the next client is not turned away for ever.
SlotIsFreed ==
  \A s \in Session :
    activeSession = s /\ conn[s] = "closed" ~> activeSession # s

\* Only a client that stalls for ever while it is being sent a protocol error
\* keeps the one goroutine that reads KataGo's output: that send has no
\* deadline, and the reader waits behind its mutex.  Any other reply is sent or
\* given up, be its client open, stalled or gone.
ReaderGoesOn ==
  \/ []<>(reply = None)
  \/ <>[](\E s \in Session : sendMu[s] = "handler" /\ conn[s] = "stalled")
=============================================================================
