---------------------------- MODULE BridgeProofs ----------------------------
(***************************************************************************)
(* Proofs about module Bridge, for any sets of sessions and client ids and *)
(* any bounds: the bridge implements module Engine, so what is proved of   *)
(* the engine holds of it, one session owns the engine, and it takes it    *)
(* over clean.                                                             *)
(***************************************************************************)
EXTENDS Bridge, EngineCountProofs

-----------------------------------------------------------------------------
(* The bridge implements the engine.                                       *)

\* Each step of a handler, a Send or a client is a step of the engine or
\* leaves the engine alone.
LEMMA StepImplementsEngine == [BridgeNext]_bridgeVars => [Next]_vars
<1> SUFFICES ASSUME BridgeNext PROVE [Next]_vars
  BY DEF bridgeVars
<1>1. CASE \E s \in Session : Client(s)
  BY <1>1 DEF Client, ClientStalls, ClientResumes, ClientLeaves
<1>2. ASSUME NEW s \in Session, Handler(s) PROVE [Next]_vars
  <2>1. CASE SubmitLine(s)
    BY <2>1 DEF SubmitLine, Next, Submit
  <2>2. CASE EndSession(s)
    BY <2>2 DEF EndSession, Next, Cancel
  <2>3. CASE Accept(s) \/ ClaimSession(s) \/ ReadMessage(s)
              \/ ReleaseSession(s) \/ CloseConnection(s)
    BY <2>3 DEF Accept, ClaimSession, ReadMessage, ReleaseSession,
                CloseConnection
  <2> QED
    BY <1>2, <2>1, <2>2, <2>3 DEF Handler
<1>3. ASSUME NEW s \in Session, Send(s) PROVE [Next]_vars
  <2>1. CASE SendRefusal(s)
    BY <2>1 DEF SendRefusal, Next, Submit
  <2>2. CASE SendReply(s) \/ SendTimesOut(s) \/ SendTooLate(s)
    BY <2>2 DEF SendReply, SendTimesOut, SendTooLate, Next
  <2>3. CASE Expires(s) \/ \E who \in {"handler", "reader"} : SendLock(s, who)
    BY <2>3 DEF Expires, SendLock
  <2> QED
    BY <1>3, <2>1, <2>2, <2>3 DEF Send
<1>4. CASE EngineStep
  BY <1>4 DEF EngineStep, Next, Submit, Cancel
<1>5. CASE AllServed
  BY <1>5 DEF AllServed, bridgeVars
<1> QED
  BY <1>1, <1>2, <1>3, <1>4, <1>5 DEF BridgeNext

\* The bridge implements the engine: what its handlers and senders do is
\* what module Engine leaves open.
THEOREM BridgeImplementsEngine == BridgeSpec => Spec
<1>1. BridgeInit => Init
  BY DEF BridgeInit
<1> QED
  BY <1>1, StepImplementsEngine, PTL DEF BridgeSpec, Spec

-----------------------------------------------------------------------------
(* One session owns the engine.                                            *)

\* The session whose handler serves is the active one; every other session
\* is at rest, with nothing in the tables.
OwnerInv ==
  \A s \in Session :
    /\ handler[s] = "serving" <=> s = activeSession
    /\ handler[s] # "serving" =>
         pc[s] \in {"idle", "gone"} /\ s \notin DOMAIN byUser
    /\ pc[s] # "cancelling" => todo[s] = {}

BInv == IInv /\ BridgeTypeOK /\ OwnerInv

\* The server starts in the invariant.
LEMMA InitBInv == BridgeInit => BInv
<1> SUFFICES ASSUME BridgeInit PROVE BInv
  OBVIOUS
<1>1. IInv
  BY InitIInv DEF BridgeInit
<1>2. BridgeTypeOK
  <2>1. TypeOK
    BY <1>1 DEF IInv
  <2>2. batch \in [Session -> 0..MaxBatch]
    BY BridgeAssumption DEF BridgeInit
  <2>3. /\ activeSession = None
        /\ handler = [t \in Session |-> "none"]
        /\ conn = [t \in Session |-> "none"]
        /\ sendMu = [t \in Session |-> "free"]
        /\ late = FALSE
    BY DEF BridgeInit
  <2> QED
    BY <2>1, <2>2, <2>3 DEF BridgeTypeOK
<1>3. OwnerInv
  BY EngineAssumption DEF BridgeInit, OwnerInv, Init, EmptyMap
<1> QED
  BY <1>1, <1>2, <1>3 DEF BInv

\* What every step of the engine does to the goroutines of sessions at rest,
\* and to the reply that a Send may be busy with.
EngineFrame ==
  /\ \A s \in Session :
       /\ pc[s] \in {"idle", "gone"} => pc'[s] = pc[s]
       /\ pc[s] = "refusing" => pc'[s] = pc[s]
       /\ todo'[s] \subseteq todo[s]
       /\ pc'[s] = "cancelling" => pc[s] = "cancelling"
       /\ pc[s] = "cancelling" /\ pc'[s] # "cancelling" => todo'[s] = {}
  /\ DOMAIN byUser' \subseteq DOMAIN byUser
  /\ reply # None => reply' = reply

\* Every step of the engine that the handlers have no part in is such a step.
LEMMA EngineStepFrame == IInv /\ EngineStep => EngineFrame
<1> SUFFICES ASSUME IInv, EngineStep PROVE EngineFrame
  OBVIOUS
<1>0. /\ GoroutinesTypeOK /\ LineInv
  BY DEF IInv, TypeOK
<1>1. ASSUME NEW s \in Session, RemoveRoute(s) PROVE EngineFrame
  BY <1>0, <1>1 DEF RemoveRoute, EngineFrame, DropUser, Delete, Restrict, Put,
                    GoroutinesTypeOK, process
<1>2. ASSUME NEW s \in Session, CancelNext(s) \/ CancelReturns(s)
      PROVE EngineFrame
  BY <1>0, <1>2 DEF CancelNext, CancelReturns, EngineFrame, GoroutinesTypeOK,
                    process, tables
<1>3. ASSUME NEW g \in Goroutine, WriteJSON(g) PROVE EngineFrame
  <2>1. CASE Lock(g)
    BY <2>1 DEF Lock, EngineFrame, tables, callers
  <2>2. ASSUME NEW ok \in BOOLEAN, Return(g, ok),
               UNCHANGED <<tables, todo, reply>>
        PROVE  EngineFrame
    BY <1>0, <2>2 DEF Return, EngineFrame, tables, GoroutinesTypeOK
  <2>3. CASE Write(g)
    BY <2>2, <2>3 DEF Write
  <2>4. CASE WriteFails(g)
    BY <2>2, <2>4 DEF WriteFails
  <2> QED
    BY <1>3, <2>1, <2>3, <2>4 DEF WriteJSON
<1>4. ASSUME NEW id, NEW said, Dispatch(id, said) PROVE EngineFrame
  BY <1>4 DEF Dispatch, EngineFrame, callers, DropUser, Delete, Restrict, Put
<1>5. ASSUME NEW id \in DOMAIN work, KataGoPrints(id) PROVE EngineFrame
  BY <1>4, <1>5 DEF KataGoPrints, PrintDuring, PrintFinal, PrintError,
                    PrintWarning
<1>6. CASE ReadLine \/ Exit \/ Reap \/ StdoutEnds
  BY <1>6 DEF ReadLine, Exit, Reap, StdoutEnds, EngineFrame, tables, callers
<1>7. CASE Shutdown
  BY <1>7 DEF Shutdown, ShutdownBegin, ShutdownClose, ShutdownKill,
              ShutdownReturn, EngineFrame, tables, callers
<1> QED
  BY <1>1, <1>2, <1>3, <1>5, <1>6, <1>7 DEF EngineStep

\* The invariant under the steps of a client, ...
LEMMA ClientBInv ==
  ASSUME BInv, TypeOK', NEW s \in Session, Client(s)
  PROVE  BridgeTypeOK' /\ OwnerInv'
<1> USE DEF BInv
<1>1. UNCHANGED <<vars, activeSession, handler, batch, sendMu, late>>
      /\ \E c \in {"open", "stalled", "closed"} : conn' = [conn EXCEPT ![s] = c]
  BY DEF Client, ClientStalls, ClientResumes, ClientLeaves
<1>2. BridgeTypeOK'
  BY <1>1 DEF BridgeTypeOK, vars
<1>3. OwnerInv'
  BY <1>1 DEF OwnerInv, vars
<1> QED
  BY <1>2, <1>3

\* ... of a handler, ...
LEMMA HandlerBInv ==
  ASSUME BInv, TypeOK', NEW s \in Session, Handler(s)
  PROVE  BridgeTypeOK' /\ OwnerInv'
<1> USE DEF BInv
<1>0. /\ GoroutinesTypeOK /\ GoroutinesTypeOK' /\ LineInv /\ TablesAgree
      /\ BridgeTypeOK /\ OwnerInv
  BY DEF IInv, TypeOK
<1>1. CASE Accept(s)
  BY <1>0, <1>1 DEF Accept, BridgeTypeOK, OwnerInv, vars
<1>2. CASE ClaimSession(s)
  BY <1>0, <1>2, EngineAssumption DEF ClaimSession, BridgeTypeOK, OwnerInv, vars
<1>3. CASE ReadMessage(s)
  BY <1>0, <1>3, BridgeAssumption DEF ReadMessage, BridgeTypeOK, OwnerInv, vars
<1>4. CASE SubmitLine(s)
  <2>1. /\ handler[s] = "serving" /\ pc[s] = "idle"
        /\ batch' = [batch EXCEPT ![s] = @ - 1] /\ batch[s] > 0
        /\ UNCHANGED <<activeSession, handler, conn, sendMu, late>>
    BY <1>4 DEF SubmitLine, InReadLoop
  <2>2. /\ \E p \in {"refusing", "submitting"} : pc' = [pc EXCEPT ![s] = p]
        /\ DOMAIN byUser' \subseteq DOMAIN byUser \cup {s}
        /\ UNCHANGED <<todo, reply>>
    BY <1>4 DEF SubmitLine, SubmitRefused, SubmitBadTerminate, SubmitAnalysis,
                SubmitTerminate, SubmitAction, Register, Put, tables
  <2>3. BridgeTypeOK'
    BY <1>0, <2>1, <2>2, BridgeAssumption DEF BridgeTypeOK, GoroutinesTypeOK
  <2>4. OwnerInv'
    BY <1>0, <2>1, <2>2 DEF OwnerInv, GoroutinesTypeOK
  <2> QED
    BY <2>3, <2>4
<1>5. CASE EndSession(s)
  <2>1. /\ handler[s] = "serving" /\ pc[s] \in {"idle", "failed"}
        /\ batch' = [batch EXCEPT ![s] = 0]
        /\ UNCHANGED <<activeSession, handler, conn, sendMu, late>>
    BY <1>5 DEF EndSession
  <2>2. /\ pc' = [pc EXCEPT ![s] = "cancelling"]
        /\ DOMAIN byUser' \subseteq DOMAIN byUser
        /\ \A t \in Session \ {s} : todo'[t] = todo[t]
        /\ UNCHANGED reply
    BY <1>0, <1>5 DEF EndSession, CancelSession, Delete, Restrict,
                      GoroutinesTypeOK
  <2>3. BridgeTypeOK'
    BY <1>0, <2>1, <2>2, BridgeAssumption DEF BridgeTypeOK, GoroutinesTypeOK
  <2>4. OwnerInv'
    BY <1>0, <2>1, <2>2 DEF OwnerInv, GoroutinesTypeOK
  <2> QED
    BY <2>3, <2>4
<1>6. CASE ReleaseSession(s)
  <2>1. s \notin DOMAIN byUser
    BY <1>0, <1>6 DEF ReleaseSession, TablesAgree, Over
  <2>2. activeSession = s /\ pc[s] = "gone"
    BY <1>0, <1>6 DEF ReleaseSession, OwnerInv
  <2>3. BridgeTypeOK'
    BY <1>0, <1>6 DEF ReleaseSession, BridgeTypeOK, vars
  <2>4. OwnerInv'
    BY <1>0, <1>6, <2>1, <2>2, EngineAssumption
       DEF ReleaseSession, OwnerInv, BridgeTypeOK, vars
  <2> QED
    BY <2>3, <2>4
<1>7. CASE CloseConnection(s)
  BY <1>0, <1>7 DEF CloseConnection, BridgeTypeOK, OwnerInv, vars
<1> QED
  BY <1>1, <1>2, <1>3, <1>4, <1>5, <1>6, <1>7 DEF Handler

\* ... of a Send, ...
LEMMA SendBInv ==
  ASSUME BInv, TypeOK', NEW s \in Session, Send(s)
  PROVE  BridgeTypeOK' /\ OwnerInv'
<1> USE DEF BInv
<1>0. GoroutinesTypeOK /\ BridgeTypeOK /\ OwnerInv
  BY DEF IInv, TypeOK
<1>1. ASSUME NEW who \in {"handler", "reader"}, SendLock(s, who)
      PROVE  BridgeTypeOK' /\ OwnerInv'
  BY <1>0, <1>1 DEF SendLock, BridgeTypeOK, OwnerInv, vars
<1>2. CASE SendRefusal(s)
  <2>1. /\ handler[s] = "serving" /\ pc[s] = "refusing"
        /\ \E p \in {"idle", "failed"} : pc' = [pc EXCEPT ![s] = p]
        /\ sendMu' = [sendMu EXCEPT ![s] = "free"]
        /\ UNCHANGED <<byUser, todo, reply, activeSession, handler, batch, conn,
                       late>>
    BY <1>0, <1>2 DEF SendRefusal, RefusalSent, OwnerInv, tables
  <2>2. BridgeTypeOK'
    BY <1>0, <2>1 DEF BridgeTypeOK, GoroutinesTypeOK
  <2>3. OwnerInv'
    BY <1>0, <2>1 DEF OwnerInv, GoroutinesTypeOK
  <2> QED
    BY <2>2, <2>3
<1>3. CASE SendReply(s) \/ SendTimesOut(s) \/ SendTooLate(s)
  <2>0. DispatchSent
    BY <1>3 DEF SendReply, SendTimesOut, SendTooLate
  <2>1. /\ sendMu[s] = "reader"
        /\ sendMu' = [sendMu EXCEPT ![s] = "free"]
        /\ conn' \in [Session -> {"none", "open", "stalled", "closed"}]
        /\ late' \in BOOLEAN
        /\ UNCHANGED <<pc, byUser, todo, activeSession, handler, batch>>
    <3>1. UNCHANGED <<pc, byUser, todo>>
      BY <2>0 DEF DispatchSent, tables, callers
    <3>2. CASE SendReply(s)
      BY <1>0, <3>1, <3>2 DEF SendReply, BridgeTypeOK
    <3>3. CASE SendTimesOut(s)
      BY <1>0, <3>1, <3>3 DEF SendTimesOut, BridgeTypeOK
    <3>4. CASE SendTooLate(s)
      <4>1. conn[s] \in {"none", "open", "stalled", "closed"}
        BY <1>0 DEF BridgeTypeOK
      <4>2. PICK c \in {conn[s], "closed"} : conn' = [conn EXCEPT ![s] = c]
        BY <3>4 DEF SendTooLate
      <4>3. conn' \in [Session -> {"none", "open", "stalled", "closed"}]
        BY <1>0, <4>1, <4>2 DEF BridgeTypeOK
      <4> QED
        BY <3>1, <3>4, <4>3 DEF SendTooLate
    <3> QED
      BY <1>3, <3>2, <3>3, <3>4
  <2>2. \A t \in Session \ {s} : sendMu[t] # "reader"
    BY <1>0, <2>1 DEF BridgeTypeOK
  <2>3. BridgeTypeOK'
    BY <1>0, <2>1, <2>2 DEF BridgeTypeOK
  <2>4. OwnerInv'
    BY <1>0, <2>1 DEF OwnerInv
  <2> QED
    BY <2>3, <2>4
<1>4. CASE Expires(s)
  BY <1>0, <1>4 DEF Expires, BridgeTypeOK, OwnerInv, vars
<1> QED
  BY <1>1, <1>2, <1>3, <1>4 DEF Send

\* ... and of the engine between them.
LEMMA EngineStepBInv ==
  ASSUME BInv, TypeOK', EngineStep
  PROVE  BridgeTypeOK' /\ OwnerInv'
<1> USE DEF BInv
<1>1. EngineFrame
  BY EngineStepFrame
<1>2. UNCHANGED serverVars
  BY DEF EngineStep
<1>3. BridgeTypeOK'
  BY <1>1, <1>2 DEF BridgeTypeOK, EngineFrame, serverVars
<1>4. OwnerInv'
  BY <1>1, <1>2 DEF OwnerInv, EngineFrame, serverVars
<1> QED
  BY <1>3, <1>4

\* Every step of the bridge keeps the invariant.
LEMMA NextBInv == BInv /\ [BridgeNext]_bridgeVars => BInv'
<1> SUFFICES ASSUME BInv, [BridgeNext]_bridgeVars PROVE BInv'
  OBVIOUS
<1>1. IInv' /\ TypeOK'
  BY StepImplementsEngine, NextIInv DEF BInv, IInv
<1>2. CASE UNCHANGED bridgeVars
  BY <1>1, <1>2 DEF BInv, BridgeTypeOK, OwnerInv, bridgeVars, serverVars, vars
<1>3. CASE BridgeNext
  <2>1. CASE AllServed
    BY <1>2, <2>1 DEF AllServed
  <2> QED
    BY <1>1, <1>3, <2>1, ClientBInv, HandlerBInv, SendBInv, EngineStepBInv
       DEF BridgeNext, BInv
<1> QED
  BY <1>2, <1>3

\* The inductive invariant holds in every reachable state of the bridge.
THEOREM BridgeInvariant == BridgeSpec => []BInv
BY InitBInv, NextBInv, PTL DEF BridgeSpec

\* Type correctness of the server, and that whoever holds a sender's mutex is
\* at the place where it holds it.
THEOREM BridgeTypeCorrect == BridgeSpec => []BridgeTypeOK
<1>1. BInv => BridgeTypeOK
  BY DEF BInv
<1> QED
  BY <1>1, BridgeInvariant, PTL

\* Only one WebSocket client owns the engine at a time, down to the last entry
\* in the tables and the last line to be written for it.
THEOREM OneClientOwnsTheEngine == BridgeSpec => []OneOwner
<1>1. BInv => OneOwner
  <2> SUFFICES ASSUME BInv PROVE OneOwner
    OBVIOUS
  <2> USE DEF BInv, IInv
  <2>1. ASSUME NEW s \in Session,
               s \in DOMAIN byUser \/ line[s] # None \/ todo[s] # {}
                 \/ handler[s] = "serving"
        PROVE  s = activeSession
    BY <2>1 DEF OwnerInv, LineInv
  <2>2. ASSUME NEW id \in DOMAIN routes PROVE routes[id].session = activeSession
    BY <2>1 DEF TablesAgree, TypeOK, TablesTypeOK
  <2> QED
    BY <2>1, <2>2 DEF OneOwner
<1> QED
  BY <1>1, BridgeInvariant, PTL

\* Through the implementation, what dispatch hands to a client of the bridge is
\* the answer to the query of that client whose id it carries.
THEOREM BridgeIsolatesSessions == BridgeSpec => []RepliesGoHome
BY BridgeImplementsEngine, SessionsAreIsolated, PTL

-----------------------------------------------------------------------------
(* A session takes over an engine that its predecessors have left.         *)

\* Who is not served yet has no line in the pipe.
Unserved(s) == handler[s] \in {"none", "accepted"}

FreshInv ==
  \A s \in Session : Unserved(s) => \A i \in 1..Len(pipe) : pipe[i].asker # s

HInv == FreshInv /\ HandoffClean

\* Nothing is in the pipe at first.
LEMMA InitHInv == BridgeInit => HInv
BY DEF BridgeInit, Init, HInv, FreshInv, HandoffClean, EmptyMap

\* Steps that leave the pipe alone, begin no work and give the engine to
\* nobody else.
LEMMA HandoffFrame ==
  ASSUME HInv, katago' = "running" => katago = "running",
         stdinOpen' => stdinOpen, pipe' = pipe,
         \A id \in DOMAIN work' : /\ id \in DOMAIN work
                                  /\ work'[id].kind = work[id].kind
                                  /\ work'[id].asker = work[id].asker
                                  /\ work'[id].told = work[id].told,
         activeSession' \in {activeSession, None},
         \A s \in Session : Unserved(s)' => Unserved(s)
  PROVE  HInv'
<1>1. FreshInv'
  BY DEF HInv, FreshInv
<1>2. \A s, id, i : TerminateBefore(s, id, i) => TerminateBefore(s, id, i)'
  BY DEF TerminateBefore
<1>3. HandoffClean'
  BY <1>2 DEF HInv, HandoffClean
<1> QED
  BY <1>1, <1>3 DEF HInv

\* When the engine is claimed, the terminates of every session that used it
\* are in the pipe, and nothing of the new session is.
LEMMA ClaimHInv ==
  ASSUME Warnings = FALSE, BInv, CInv, RInv, HInv, NEW s \in Session,
         ClaimSession(s)
  PROVE  HInv'
<1> USE DEF BInv
<1>0. GoroutinesTypeOK /\ LineInv /\ TablesAgree /\ ProcessTypeOK
  BY DEF IInv, TypeOK
<1>1. /\ handler[s] = "accepted" /\ UNCHANGED <<pipe, work, katago, stdinOpen>>
      /\ \A t \in Session : Unserved(t)' => Unserved(t)
  BY DEF ClaimSession, vars, BridgeTypeOK, Unserved
<1>2. CASE activeSession # None
  BY <1>1, <1>2, HandoffFrame DEF ClaimSession
<1>3. CASE activeSession = None
  <2>1. activeSession' = s
    BY <1>3 DEF ClaimSession
  <2>2. \A i \in 1..Len(pipe) : pipe[i].asker # s
    BY <1>1 DEF HInv, FreshInv, Unserved
  <2>3. ASSUME NEW t \in Session
        PROVE  /\ pc[t] \in {"idle", "gone"} /\ t \notin DOMAIN byUser
               /\ todo[t] = {} /\ line[t] = None
    <3>1. handler[t] # "serving"
      BY <1>3, EngineAssumption DEF OwnerInv
    <3> QED
      BY <1>0, <3>1 DEF OwnerInv, LineInv
  <2>4. ASSUME NEW t, t # None, t \in Session \cup {None}, NEW id, NEW n,
               NEW o, Counts(id, "analyze", n, t), Fits(id, t, o)
        PROVE  Over(t)
    <3>1. SUFFICES ASSUME ~Over(t) PROVE FALSE
      OBVIOUS
    <3>2. id \in DOMAIN routes /\ routes[id].session = t
      BY <2>4, <3>1 DEF Counts, Fits
    <3> QED
      BY <1>0, <2>3, <2>4, <3>2 DEF TablesAgree
  <2>5. ASSUME NEW t \in Session, NEW id, NEW i \in Nat,
               TerminateComing(t, id, i)
        PROVE  TerminateBefore(s, id, i)
    <3>1. PICK j \in i + 1..Len(pipe) :
            pipe[j].kind = "terminate" /\ pipe[j].target = id
      BY <2>3, <2>5 DEF TerminateComing
    <3> QED
      BY <2>2, <3>1 DEF TerminateBefore
  <2>6. ASSUME katago = "running", stdinOpen, NEW id \in DOMAIN work,
               work[id].kind = "analyze", ~work[id].told
        PROVE  TerminateBefore(s, id, 0)
    <3>1. work[id].asker \in Session /\ Over(work[id].asker)
      <4>1. work[id].asker \in Session \cup {None} /\ work[id].asker # None
        BY <1>0, <2>6 DEF ProcessTypeOK, Job, RInv, AskInv
      <4>2. /\ Counts(id, "analyze", work[id].left, work[id].asker)
            /\ Fits(id, work[id].asker, work[id].orig)
        BY <2>6 DEF CInv, CountInv, IInv, HomeInv
      <4> QED
        BY <2>4, <4>1, <4>2
    <3>2. TerminateComing(work[id].asker, id, 0)
      BY <2>6, <3>1 DEF RInv, CancelReachesWork
    <3> QED
      BY <2>5, <3>1, <3>2
  <2>7. ASSUME katago = "running", stdinOpen, NEW i \in 1..Len(pipe),
               pipe[i].kind = "analyze"
        PROVE  TerminateBefore(s, pipe[i].id, i)
    <3>1. pipe[i].asker \in Session /\ Over(pipe[i].asker)
      <4>0. pipe[i] \in Line
        BY <1>0 DEF ProcessTypeOK
      <4>1. pipe[i].asker \in Session \cup {None} /\ pipe[i].asker # None
        BY <2>7, <4>0 DEF Line, RInv, AskInv
      <4>2. /\ Counts(pipe[i].id, "analyze", pipe[i].turns, pipe[i].asker)
            /\ Fits(pipe[i].id, pipe[i].asker, pipe[i].orig)
        BY <2>7 DEF CInv, CountInv, IInv, HomeInv
      <4> QED
        BY <2>4, <4>1, <4>2
    <3>2. TerminateComing(pipe[i].asker, pipe[i].id, i)
      BY <2>7, <3>1 DEF RInv, CancelReachesWork
    <3> QED
      BY <2>5, <3>1, <3>2
  <2>8. HandoffClean'
    <3>1. \A id, i : TerminateBefore(s, id, i) => TerminateBefore(s, id, i)'
      BY <1>1 DEF TerminateBefore
    <3> QED
      BY <1>1, <2>1, <2>6, <2>7, <3>1 DEF HandoffClean
  <2>9. FreshInv'
    BY <1>1 DEF HInv, FreshInv
  <2> QED
    BY <2>8, <2>9 DEF HInv
<1> QED
  BY <1>2, <1>3

\* A line is written behind all terminates, and by the owner.
LEMMA WriteHInv ==
  ASSUME BInv, RInv, HInv, NEW g \in Goroutine, Write(g), UNCHANGED serverVars
  PROVE  HInv'
<1> USE DEF BInv
<1>0. GoroutinesTypeOK /\ LineInv /\ pipe \in Seq(Line)
  BY DEF IInv, TypeOK, ProcessTypeOK
<1>1. /\ line[g] # None /\ line[g] \in Line
      /\ pipe' = Append(pipe, line[g])
      /\ UNCHANGED <<work, katago, stdinOpen, activeSession, handler>>
  BY <1>0, EngineAssumption
     DEF Write, LineInv, GoroutinesTypeOK, Goroutine, tables, serverVars
<1>2. line[g].asker # None =>
        line[g].asker = activeSession /\ handler[line[g].asker] = "serving"
  <2>1. SUFFICES ASSUME line[g].asker # None
                 PROVE  line[g].asker = activeSession
                        /\ handler[line[g].asker] = "serving"
    OBVIOUS
  <2>2. /\ g \in Session /\ pc[g] \in {"submitting", "unrouting"}
        /\ line[g].asker = g
    BY <1>0, <1>1, <2>1 DEF RInv, AskInv, LineInv
  <2> QED
    BY <2>2 DEF OwnerInv
<1>3. /\ Len(pipe') = Len(pipe) + 1 /\ Len(pipe) \in Nat
      /\ pipe'[Len(pipe) + 1] = line[g]
      /\ \A i \in 1..Len(pipe) : i \in 1..Len(pipe') /\ pipe'[i] = pipe[i]
      /\ \A i \in 1..Len(pipe') :
           \/ i = Len(pipe) + 1
           \/ i \in 1..Len(pipe) /\ pipe'[i] = pipe[i]
  BY <1>0, <1>1
<1>4. FreshInv'
  BY <1>1, <1>2, <1>3, EngineAssumption DEF HInv, FreshInv, Unserved
<1>5. ASSUME NEW s, NEW id, NEW i \in Nat, TerminateBefore(s, id, i)
      PROVE  TerminateBefore(s, id, i)'
  <2>1. PICK j \in i + 1..Len(pipe) :
          /\ pipe[j].kind = "terminate" /\ pipe[j].target = id
          /\ \A k \in 1..j : pipe[k].asker # s
    BY <1>5 DEF TerminateBefore
  <2>2. /\ j \in i + 1..Len(pipe')
        /\ \A k \in 1..j : pipe'[k] = pipe[k]
        /\ j \in 1..j
    BY <1>3
  <2> QED
    BY <2>1, <2>2 DEF TerminateBefore
<1>6. HandoffClean'
  <2> SUFFICES ASSUME katago = "running", stdinOpen, activeSession # None
               PROVE  /\ \A id \in DOMAIN work :
                           /\ work[id].kind = "analyze"
                           /\ work[id].asker # activeSession
                           /\ ~work[id].told
                           => TerminateBefore(activeSession, id, 0)'
                      /\ \A i \in 1..Len(pipe') :
                           /\ pipe'[i].kind = "analyze"
                           /\ pipe'[i].asker # activeSession
                           => TerminateBefore(activeSession, pipe[i].id, i)'
    BY <1>1 DEF HandoffClean
  <2>1. ASSUME NEW id \in DOMAIN work, work[id].kind = "analyze",
               work[id].asker # activeSession, ~work[id].told
        PROVE  TerminateBefore(activeSession, id, 0)'
    <3>1. PICK a : a = activeSession /\ a = activeSession'
      BY <1>1
    <3>2. TerminateBefore(a, id, 0)
      BY <2>1, <3>1 DEF HInv, HandoffClean
    <3>3. TerminateBefore(a, id, 0)'
      BY <1>5, <3>2
    <3> QED
      BY <3>1, <3>3
  <2>2. ASSUME NEW i \in 1..Len(pipe'), pipe'[i].kind = "analyze",
               pipe'[i].asker # activeSession
        PROVE  TerminateBefore(activeSession, pipe[i].id, i)'
    <3>1. i \in 1..Len(pipe) /\ pipe'[i] = pipe[i]
      BY <1>1, <1>2, <1>3, <2>2 DEF RInv, AskInv
    <3>2. PICK a, id : /\ a = activeSession /\ a = activeSession'
                       /\ id = pipe[i].id /\ id = pipe'[i].id
      BY <1>1, <3>1
    <3>3. TerminateBefore(a, id, i)
      BY <2>2, <3>1, <3>2 DEF HInv, HandoffClean
    <3>4. TerminateBefore(a, id, i)'
      BY <1>5, <3>3
    <3> QED
      BY <3>2, <3>4
  <2> QED
    BY <2>1, <2>2
<1> QED
  BY <1>4, <1>6 DEF HInv


\* What KataGo reads it reads in the order of the pipe.
LEMMA ReadLineHInv ==
  ASSUME BInv, HInv, ReadLine, UNCHANGED serverVars
  PROVE  HInv'
<1> USE DEF BInv
<1> DEFINE l == pipe[1]
<1>0. pipe \in Seq(Line)
  BY DEF IInv, TypeOK, ProcessTypeOK
<1>1. /\ pipe # <<>> /\ pipe' = Tail(pipe)
      /\ UNCHANGED <<katago, stdinOpen, activeSession, handler>>
  BY DEF ReadLine, serverVars
<1>2. /\ 1 \in 1..Len(pipe)
      /\ \A i \in 1..Len(pipe') : i + 1 \in 1..Len(pipe)
                                  /\ pipe'[i] = pipe[i + 1]
  BY ReadLineMoves
<1>3. /\ DOMAIN work' = DOMAIN work \cup {l.id}
      /\ work'[l.id].kind = l.kind /\ work'[l.id].asker = l.asker
      /\ \A i \in DOMAIN work \ {l.id} :
           /\ work'[i].kind = work[i].kind /\ work'[i].asker = work[i].asker
           /\ work[i].told => work'[i].told
           /\ l.kind = "terminate" /\ l.target = i => work'[i].told
  BY ReadLineMoves
<1>4. FreshInv'
  BY <1>1, <1>2 DEF HInv, FreshInv, Unserved
<1>5. ASSUME NEW s, NEW id, NEW i \in Nat, TerminateBefore(s, id, i + 1)
      PROVE  TerminateBefore(s, id, i)'
  <2>1. PICK j \in i + 2..Len(pipe) :
          /\ pipe[j].kind = "terminate" /\ pipe[j].target = id
          /\ \A k \in 1..j : pipe[k].asker # s
    BY <1>5 DEF TerminateBefore
  <2>2. j - 1 \in i + 1..Len(pipe') /\ pipe'[j - 1] = pipe[j]
    BY <1>0, <1>1
  <2>3. ASSUME NEW k \in 1..j - 1
        PROVE  pipe'[k].asker # s
    <3>1. k + 1 \in 1..j /\ pipe'[k] = pipe[k + 1]
      BY <1>0, <1>1
    <3> QED
      BY <2>1, <3>1
  <2> QED
    BY <2>1, <2>2, <2>3 DEF TerminateBefore
<1>6. ASSUME NEW s, NEW id, TerminateBefore(s, id, 0),
             ~(l.kind = "terminate" /\ l.target = id)
      PROVE  TerminateBefore(s, id, 0)'
  <2>1. TerminateBefore(s, id, 0 + 1)
    BY <1>0, <1>6 DEF TerminateBefore
  <2> QED
    BY <1>5, <2>1
<1>7. HandoffClean'
  <2>1. PICK a : a = activeSession /\ a = activeSession'
    BY <1>1
  <2> SUFFICES ASSUME katago = "running", stdinOpen, a # None
               PROVE  /\ \A id \in DOMAIN work' :
                           /\ work'[id].kind = "analyze"
                           /\ work'[id].asker # a
                           /\ ~work'[id].told
                           => TerminateBefore(a, id, 0)'
                      /\ \A i \in 1..Len(pipe') :
                           /\ pipe'[i].kind = "analyze"
                           /\ pipe'[i].asker # a
                           => TerminateBefore(a, pipe[i].id, i)'
    BY <1>1, <2>1 DEF HandoffClean
  <2>2. ASSUME NEW i \in 1..Len(pipe), pipe[i].kind = "analyze",
               pipe[i].asker # a
        PROVE  TerminateBefore(a, pipe[i].id, i)
    BY <2>1, <2>2 DEF HInv, HandoffClean
  <2>3. ASSUME NEW id \in DOMAIN work', work'[id].kind = "analyze",
               work'[id].asker # a, ~work'[id].told
        PROVE  TerminateBefore(a, id, 0)'
    <3>1. CASE id = l.id
      <4>1. TerminateBefore(a, id, 0 + 1)
        BY <1>2, <1>3, <2>2, <2>3, <3>1
      <4> QED
        BY <1>5, <4>1
    <3>2. CASE id # l.id
      <4>1. TerminateBefore(a, id, 0)
        BY <1>3, <2>1, <2>3, <3>2 DEF HInv, HandoffClean
      <4> QED
        BY <1>3, <1>6, <2>3, <3>2, <4>1
    <3> QED
      BY <3>1, <3>2
  <2>4. ASSUME NEW i \in 1..Len(pipe'), pipe'[i].kind = "analyze",
               pipe'[i].asker # a
        PROVE  TerminateBefore(a, pipe[i].id, i)'
    <3>1. PICK id : id = pipe'[i].id /\ id = pipe[i + 1].id
      BY <1>2
    <3>2. TerminateBefore(a, id, i + 1)
      BY <1>2, <2>2, <2>4, <3>1
    <3>3. TerminateBefore(a, id, i)'
      BY <1>5, <3>2
    <3> QED
      BY <3>1, <3>3
  <2> QED
    BY <2>3, <2>4
<1> QED
  BY <1>4, <1>7 DEF HInv

\* The other steps of the engine between those of the handlers.
LEMMA EngineStepHInv ==
  ASSUME BInv, RInv, HInv, EngineStep
  PROVE  HInv'
<1> USE DEF BInv
<1>0. UNCHANGED serverVars
  BY DEF EngineStep
<1>1. ASSUME katago' = "running" => katago = "running",
             stdinOpen' => stdinOpen, pipe' = pipe,
             \A id \in DOMAIN work' : /\ id \in DOMAIN work
                                      /\ work'[id].kind = work[id].kind
                                      /\ work'[id].asker = work[id].asker
                                      /\ work'[id].told = work[id].told
      PROVE  HInv'
  BY <1>0, <1>1, HandoffFrame DEF serverVars, Unserved
<1>2. ASSUME NEW s \in Session,
             RemoveRoute(s) \/ CancelNext(s) \/ CancelReturns(s)
      PROVE  HInv'
  BY <1>1, <1>2 DEF RemoveRoute, CancelNext, CancelReturns, process
<1>3. ASSUME NEW g \in Goroutine, WriteJSON(g) PROVE HInv'
  BY <1>0, <1>1, <1>3, WriteHInv DEF WriteJSON, Lock, WriteFails, process
<1>4. ASSUME NEW id \in DOMAIN work, KataGoPrints(id) PROVE HInv'
  <2>1. UNCHANGED <<pipe, katago, stdinOpen>>
    BY <1>4 DEF KataGoPrints, PrintDuring, PrintFinal, PrintError,
                PrintWarning, Dispatch
  <2>2. \A i \in DOMAIN work' :
          /\ i \in DOMAIN work
          /\ work'[i].kind = work[i].kind
          /\ work'[i].asker = work[i].asker
          /\ work'[i].told = work[i].told
    <3>1. work[id] \in Job
      BY DEF IInv, TypeOK, ProcessTypeOK
    <3>2. CASE work' = Delete(work, {id}) \/ work' = work
      BY <3>2 DEF Delete, Restrict
    <3>3. CASE \/ work' = [work EXCEPT ![id].left = @ - 1]
               \/ work' = [work EXCEPT ![id].first = "result"]
      BY <3>1, <3>3 DEF Job
    <3> QED
      BY <1>4, <3>2, <3>3 DEF KataGoPrints, PrintDuring, PrintFinal,
                              PrintError, PrintWarning
  <2> QED
    BY <1>1, <2>1, <2>2
<1>5. CASE Exit \/ Reap \/ StdoutEnds \/ ShutdownClose \/ ShutdownKill
  <2>1. /\ ~stdinOpen' \/ katago' # "running"
        /\ pipe' = pipe \/ pipe' = <<>>
    BY <1>5 DEF Exit, Reap, StdoutEnds, ShutdownClose, ShutdownKill, process
  <2> QED
    BY <1>0, <2>1 DEF HInv, HandoffClean, FreshInv, Unserved, serverVars
<1>6. CASE ShutdownBegin \/ ShutdownReturn
  BY <1>1, <1>6 DEF ShutdownBegin, ShutdownReturn, process
<1> QED
  BY <1>0, <1>2, <1>3, <1>4, <1>5, <1>6, ReadLineHInv DEF EngineStep, Shutdown

\* Every step of the bridge.
LEMMA NextHInv ==
  ASSUME Warnings = FALSE, BInv, CInv, RInv, HInv, [BridgeNext]_bridgeVars
  PROVE  HInv'
<1> USE DEF BInv
<1>1. ASSUME UNCHANGED <<pipe, katago, work>>, stdinOpen' = stdinOpen,
             activeSession' \in {activeSession, None},
             \A s \in Session : Unserved(s)' => Unserved(s)
      PROVE  HInv'
  BY <1>1, HandoffFrame
<1>2. CASE UNCHANGED bridgeVars
  BY <1>1, <1>2 DEF bridgeVars, serverVars, vars, Unserved
<1>3. ASSUME NEW s \in Session, Client(s) PROVE HInv'
  BY <1>1, <1>3 DEF Client, ClientStalls, ClientResumes, ClientLeaves, vars,
                    Unserved
<1>4. ASSUME NEW s \in Session, Handler(s) PROVE HInv'
  <2>0. handler \in [Session -> {"none", "accepted", "serving", "closing",
                                 "done"}]
    BY DEF BridgeTypeOK
  <2>1. CASE Accept(s)
    BY <1>1, <2>0, <2>1 DEF Accept, vars, Unserved
  <2>2. CASE ReadMessage(s)
    BY <1>1, <2>2 DEF ReadMessage, vars, Unserved
  <2>3. CASE SubmitLine(s)
    <3>1. UNCHANGED <<pipe, katago, work, stdinOpen, activeSession, handler>>
      BY <2>3 DEF SubmitLine, SubmitRefused, SubmitBadTerminate,
                  SubmitAnalysis, SubmitTerminate, SubmitAction, Register,
                  process
    <3> QED
      BY <1>1, <3>1 DEF Unserved
  <2>4. CASE EndSession(s)
    BY <1>1, <2>4 DEF EndSession, CancelSession, process, Unserved
  <2>5. CASE ReleaseSession(s) \/ CloseConnection(s)
    BY <1>1, <2>0, <2>5 DEF ReleaseSession, CloseConnection, vars, Unserved
  <2> QED
    BY <1>4, <2>1, <2>2, <2>3, <2>4, <2>5, ClaimHInv DEF Handler
<1>5. ASSUME NEW s \in Session, Send(s) PROVE HInv'
  <2>1. UNCHANGED <<pipe, katago, work, stdinOpen, activeSession, handler>>
    BY <1>5 DEF Send, SendLock, SendRefusal, SendReply, SendTimesOut, Expires,
                SendTooLate, RefusalSent, DispatchSent, vars, process
  <2> QED
    BY <1>1, <2>1 DEF Unserved
<1> QED
  BY <1>2, <1>3, <1>4, <1>5, EngineStepHInv DEF BridgeNext, AllServed

\* A reconnecting client gets an engine that works for nobody else, or has
\* been told to stop before it reads the client's first line: of any number of
\* sessions, at any length of the pipe.
THEOREM HandoffIsClean ==
  ASSUME Warnings = FALSE
  PROVE  BridgeSpec => []HandoffClean
<1>1. BridgeInit => HInv
  BY InitHInv
<1>2. BInv /\ CInv /\ RInv /\ HInv /\ [BridgeNext]_bridgeVars => HInv'
  BY NextHInv
<1>3. HInv => HandoffClean
  BY DEF HInv
<1>4. BridgeSpec => [](CInv /\ RInv)
  BY BridgeImplementsEngine, CountsAndTerminates, PTL
<1> QED
  BY <1>1, <1>2, <1>3, <1>4, BridgeInvariant, PTL DEF BridgeSpec
=============================================================================
