----------------------- MODULE EngineRefinementProofs ------------------------
(***************************************************************************)
(* Proofs that the engine, and with it the bridge, implements what module  *)
(* Queries promises, as long as KataGo sends no warnings.                  *)
(***************************************************************************)
EXTENDS EngineRefinement, EngineCountProofs, BridgeProofs

-----------------------------------------------------------------------------
(* What the mapping looks like in a reachable state.                       *)

Pair(id) == <<routes[id].session, routes[id].orig>>

\* A client is owed what the engine counts, and no two routes are one query.
AskedIsRemaining ==
  /\ DOMAIN Asked = {Pair(id) : id \in DOMAIN routes}
  /\ \A id \in DOMAIN routes :
       /\ Pair(id) \in Session \X ClientId
       /\ ~Over(routes[id].session)
       /\ Asked[Pair(id)] = routes[id].remaining
       /\ \A j \in DOMAIN routes : Pair(j) = Pair(id) => j = id

\* The count is exact, so both ways of reading it agree.
LEMMA AskedFacts ==
  ASSUME Warnings = FALSE, IInv, CInv
  PROVE  AskedIsRemaining
<1>1. DOMAIN Asked = {Pair(id) : id \in DOMAIN routes}
  BY DEF Asked, Pair
<1>2. ASSUME NEW id \in DOMAIN routes
      PROVE  /\ Pair(id) \in Session \X ClientId
             /\ ~Over(routes[id].session)
             /\ Asked[Pair(id)] = routes[id].remaining
             /\ \A j \in DOMAIN routes : Pair(j) = Pair(id) => j = id
  <2>1. /\ routes[id].session \in Session /\ routes[id].orig \in ClientId
        /\ \A j \in DOMAIN routes : byUser[routes[j].session][routes[j].orig] = j
        /\ routes[id].session \in DOMAIN byUser
    BY DEF IInv, TypeOK, TablesTypeOK, Route, TablesAgree
  <2>2. ~Over(routes[id].session)
    BY <2>1 DEF IInv, TablesAgree
  <2>3. Asked[Pair(id)] = Owed(byUser[Pair(id)[1]][Pair(id)[2]])
    BY DEF Asked, Pair
  <2>4. byUser[Pair(id)[1]][Pair(id)[2]] = id
    BY <2>1 DEF Pair
  <2>5. Owed(id) = routes[id].remaining
    BY RouteCounts DEF Owed, CInv
  <2>6. ASSUME NEW j \in DOMAIN routes, Pair(j) = Pair(id) PROVE j = id
    BY <2>1, <2>6 DEF Pair
  <2> QED
    BY <2>1, <2>2, <2>3, <2>4, <2>5, <2>6 DEF Pair
<1> QED
  BY <1>1, <1>2 DEF AskedIsRemaining

\* Two descriptions of what is asked after a step are one.
LEMMA AskedEquals ==
  ASSUME AskedIsRemaining', NEW f, f = [q \in DOMAIN f |-> f[q]],
         DOMAIN f = {Pair(id)' : id \in DOMAIN routes'},
         \A id \in DOMAIN routes' : f[Pair(id)'] = routes'[id].remaining
  PROVE  Asked' = f
<1>1. DOMAIN Asked' = DOMAIN f
  BY DEF AskedIsRemaining
<1>2. ASSUME NEW q \in DOMAIN f PROVE Asked'[q] = f[q]
  <2>1. PICK id \in DOMAIN routes' : q = Pair(id)'
    OBVIOUS
  <2> QED
    BY <2>1 DEF AskedIsRemaining
<1>3. Asked' = [q \in DOMAIN Asked' |-> Asked'[q]]
  BY DEF Asked
<1> QED
  BY <1>1, <1>2, <1>3

\* A step that keeps the routes, the reply and who is over is invisible.
LEMMA Invisible ==
  ASSUME AskedIsRemaining, AskedIsRemaining', UNCHANGED <<routes, reply>>,
         \A s \in Session : Over(s)' <=> Over(s)
  PROVE  UNCHANGED Q!vars
<1>1. Asked = [q \in DOMAIN Asked |-> Asked[q]]
  BY DEF Asked
<1>2. Asked' = Asked
  BY <1>1, AskedEquals DEF AskedIsRemaining, Pair
<1>3. Answer' = Answer
  BY DEF Answer
<1>4. {s \in Session : Over(s)}' = {s \in Session : Over(s)}
  OBVIOUS
<1> QED
  BY <1>2, <1>3, <1>4 DEF Q!vars

\* A step that takes one route away forgets its query.
LEMMA Forgotten ==
  ASSUME AskedIsRemaining, AskedIsRemaining', NEW id \in DOMAIN routes,
         routes' = Delete(routes, {id})
  PROVE  Q!Forget({Pair(id)})
<1> DEFINE f == Restrict(Asked, DOMAIN Asked \ {Pair(id)})
<1>1. /\ DOMAIN f = DOMAIN Asked \ {Pair(id)}
      /\ f = [q \in DOMAIN f |-> f[q]]
      /\ \A q \in DOMAIN f : f[q] = Asked[q]
  BY DEF Restrict
<1>2. /\ DOMAIN routes' = DOMAIN routes \ {id}
      /\ \A j \in DOMAIN routes' : routes'[j] = routes[j] /\ Pair(j)' = Pair(j)
  BY DEF Delete, Restrict, Pair
<1> HIDE DEF f
<1>3. ASSUME NEW j \in DOMAIN routes'
      PROVE  /\ Pair(j) \in DOMAIN f
             /\ f[Pair(j)] = routes'[j].remaining
  <2>1. j \in DOMAIN routes /\ j # id
    BY <1>2
  <2>2. Pair(j) # Pair(id) /\ Pair(j) \in DOMAIN Asked
    BY <2>1 DEF AskedIsRemaining
  <2> QED
    BY <1>1, <1>2, <2>1, <2>2 DEF AskedIsRemaining
<1>4. ASSUME NEW q \in DOMAIN f
      PROVE  \E j \in DOMAIN routes' : q = Pair(j)
  <2>1. PICK j \in DOMAIN routes : q = Pair(j)
    BY <1>1 DEF AskedIsRemaining
  <2> QED
    BY <1>1, <1>2, <2>1
<1>5. DOMAIN f = {Pair(j)' : j \in DOMAIN routes'}
  BY <1>2, <1>3, <1>4
<1>6. \A j \in DOMAIN routes' : f[Pair(j)'] = routes'[j].remaining
  BY <1>2, <1>3
<1>7. Asked' = f
  BY <1>1, <1>5, <1>6, AskedEquals
<1> QED
  BY <1>7 DEF f, Q!Forget, Q!Restrict, Restrict

-----------------------------------------------------------------------------
(* The steps that a client can see.                                        *)

\* An accepted query is asked.
LEMMA RegisterAsks ==
  ASSUME IInv, AskedIsRemaining, AskedIsRemaining',
         NEW s \in Session, NEW o \in ClientId, NEW kind,
         NEW turns \in 1..MaxTurns, NEW target,
         Register(s, o, kind, turns, target)
  PROVE  Q!Next
<1> DEFINE n == ExpectedFinals(kind, turns)
<1> DEFINE q == <<s, o>>
<1> DEFINE f == [p \in DOMAIN Asked \cup {q} |-> IF p = q THEN n ELSE Asked[p]]
<1>0. n \in 1..MaxTurns
  BY EngineAssumption DEF ExpectedFinals
<1>1. PICK id : id = seq + 1 /\ id \notin DOMAIN routes
  BY DEF IInv, TypeOK, TablesTypeOK
<1>2. /\ DOMAIN routes' = DOMAIN routes \cup {id}
      /\ \A j \in DOMAIN routes : routes'[j] = routes[j] /\ Pair(j)' = Pair(j)
      /\ Pair(id)' = q /\ routes'[id].remaining = n
  BY <1>1 DEF Register, Put, Pair
<1>3. q \notin DOMAIN Asked
  <2>1. ASSUME NEW j \in DOMAIN routes PROVE Pair(j) # q
    <3>1. id # j /\ id \in DOMAIN routes' /\ j \in DOMAIN routes'
      BY <1>1, <1>2
    <3>2. Pair(j)' # Pair(id)'
      BY <3>1 DEF AskedIsRemaining
    <3> QED
      BY <1>2, <3>2
  <2> QED
    BY <2>1 DEF AskedIsRemaining
<1>4. Asked' = f
  <2>1. f = [p \in DOMAIN f |-> f[p]]
    OBVIOUS
  <2>2. DOMAIN f = {Pair(j)' : j \in DOMAIN routes'}
    BY <1>2 DEF AskedIsRemaining
  <2>3. \A j \in DOMAIN routes' : f[Pair(j)'] = routes'[j].remaining
    BY <1>2, <1>3 DEF AskedIsRemaining
  <2> HIDE DEF f
  <2> QED
    BY <2>1, <2>2, <2>3, AskedEquals
<1>5. s \notin {t \in Session : Over(t)}
  BY DEF Register, Over
<1>6. {t \in Session : Over(t)}' = {t \in Session : Over(t)}
  BY DEF Register, Over, IInv, TypeOK, GoroutinesTypeOK
<1>7. Answer' = Answer
  BY DEF Register, Answer
<1>8. q[1] = s /\ q \in Session \X ClientId
  OBVIOUS
<1> HIDE DEF q, n
<1>9. Q!Ask(q, n)
  BY <1>3, <1>4, <1>5, <1>6, <1>7, <1>8 DEF Q!Ask
<1> QED
  BY <1>0, <1>8, <1>9 DEF Q!Next, Q!Query

\* A query whose write failed is withdrawn.
LEMMA RemoveRouteWithdraws ==
  ASSUME IInv, AskedIsRemaining, AskedIsRemaining',
         NEW s \in Session, RemoveRoute(s)
  PROVE  [Q!Next]_(Q!vars)
<1>1. PICK id : id = line[s].id
  OBVIOUS
<1>2. \A t \in Session : Over(t)' <=> Over(t)
  BY DEF RemoveRoute, Over, IInv, TypeOK, GoroutinesTypeOK
<1>3. reply' = reply /\ Answer' = Answer
  BY DEF RemoveRoute, Answer
<1>4. CASE id \notin DOMAIN routes
  <2>1. routes' = routes
    BY <1>1, <1>4 DEF RemoveRoute
  <2> QED
    BY <1>2, <1>3, <2>1, Invisible
<1>5. CASE id \in DOMAIN routes
  <2>1. routes' = Delete(routes, {id})
    BY <1>1, <1>5 DEF RemoveRoute
  <2>2. Q!Forget({Pair(id)})
    BY <1>5, <2>1, Forgotten
  <2>3. Pair(id) \in DOMAIN Asked /\ Pair(id) \in Session \X ClientId
    BY <1>5 DEF AskedIsRemaining
  <2>4. {t \in Session : Over(t)}' = {t \in Session : Over(t)}
    BY <1>2
  <2>5. Q!Withdraw(Pair(id))
    BY <1>3, <2>2, <2>3, <2>4 DEF Q!Withdraw
  <2> QED
    BY <2>3, <2>5 DEF Q!Next, Q!Query
<1> QED
  BY <1>4, <1>5

\* The end of a session.
LEMMA CancelSessionEnds ==
  ASSUME IInv, AskedIsRemaining, AskedIsRemaining',
         NEW s \in Session, CancelSession(s)
  PROVE  Q!Next
<1> DEFINE gone == {s} \X ClientId
<1> DEFINE f == Restrict(Asked, DOMAIN Asked \ gone)
<1>1. /\ DOMAIN f = DOMAIN Asked \ gone
      /\ f = [q \in DOMAIN f |-> f[q]]
      /\ \A q \in DOMAIN f : f[q] = Asked[q]
  BY DEF Restrict
<1>2. ASSUME NEW id \in DOMAIN routes
      PROVE  /\ id \in {UserRoutes(s)[o] : o \in DOMAIN UserRoutes(s)}
                  <=> routes[id].session = s
             /\ Pair(id) \in gone <=> routes[id].session = s
  <2>1. /\ routes[id].session \in DOMAIN byUser
        /\ routes[id].orig \in DOMAIN byUser[routes[id].session]
        /\ byUser[routes[id].session][routes[id].orig] = id
        /\ routes[id].orig \in ClientId
    BY DEF IInv, TypeOK, TablesTypeOK, Route, TablesAgree
  <2>2. ASSUME NEW o \in DOMAIN UserRoutes(s), UserRoutes(s)[o] = id
        PROVE  routes[id].session = s
    BY <2>2 DEF UserRoutes, EmptyMap, IInv, TablesAgree
  <2> QED
    BY <2>1, <2>2 DEF UserRoutes, Pair
<1>3. /\ DOMAIN routes' = {id \in DOMAIN routes : routes[id].session # s}
      /\ \A id \in DOMAIN routes' :
           routes'[id] = routes[id] /\ Pair(id)' = Pair(id)
  BY <1>2 DEF CancelSession, Delete, Restrict, Pair
<1> HIDE DEF f, gone
<1>4. DOMAIN f = {Pair(id)' : id \in DOMAIN routes'}
  BY <1>1, <1>2, <1>3 DEF AskedIsRemaining
<1>5. ASSUME NEW id \in DOMAIN routes'
      PROVE  f[Pair(id)'] = routes'[id].remaining
  <2>1. id \in DOMAIN routes /\ Pair(id)' \in DOMAIN f
    BY <1>3, <1>4
  <2> QED
    BY <1>1, <1>3, <2>1 DEF AskedIsRemaining
<1>6. Asked' = f
  BY <1>1, <1>4, <1>5, AskedEquals
<1>7. Answer' = Answer
  BY DEF CancelSession, Answer
<1>8. /\ s \notin {t \in Session : Over(t)}
      /\ {t \in Session : Over(t)}' = {t \in Session : Over(t)} \cup {s}
  BY DEF CancelSession, Over, IInv, TypeOK, GoroutinesTypeOK
<1>9. Q!End(s)
  BY <1>6, <1>7, <1>8 DEF Q!End, Q!Forget, Q!Restrict, Restrict, f, gone
<1> QED
  BY <1>9 DEF Q!Next

\* What KataGo prints is an answer to the query it is about, and completes it
\* when it is the last; without a route it is invisible.
LEMMA KataGoPrintsAnswers ==
  ASSUME Warnings = FALSE, IInv, CInv, AskedIsRemaining, AskedIsRemaining',
         NEW id \in DOMAIN work, KataGoPrints(id)
  PROVE  [Q!Next]_(Q!vars)
<1>0. /\ work[id] \in Job /\ work[id].first # "warning"
      /\ work[id].kind # "analyze" => work[id].left = 1
  BY DEF IInv, TypeOK, ProcessTypeOK, CInv, OneAnswer
<1>1. PICK said \in {"during", "final", "error"} :
        /\ Dispatch(id, said)
        /\ said = "during" => work[id].kind = "analyze"
  BY <1>0 DEF KataGoPrints, PrintDuring, PrintFinal, PrintError, PrintWarning
<1>2. {t \in Session : Over(t)}' = {t \in Session : Over(t)}
  BY <1>1 DEF Dispatch, callers, Over
<1>3. CASE id \notin DOMAIN routes
  <2>1. UNCHANGED <<routes, reply, pc>>
    BY <1>1, <1>3 DEF Dispatch, callers
  <2>2. \A s \in Session : Over(s)' <=> Over(s)
    BY <2>1 DEF Over
  <2> QED
    BY <2>1, <2>2, Invisible
<1>4. CASE id \in DOMAIN routes
  <2>0. PICK r : r = routes[id]
    OBVIOUS
  <2>1. /\ r \in Route /\ r.action = work[id].kind
        /\ r.remaining = work[id].left
    BY <1>4, <2>0, RouteCounts DEF CInv
  <2>2. /\ Pair(id) \in DOMAIN Asked /\ Pair(id) \in Session \X ClientId
        /\ Asked[Pair(id)] = r.remaining /\ Pair(id) = <<r.session, r.orig>>
    BY <1>4, <2>0 DEF AskedIsRemaining, Pair
  <2>3. r.session = work[id].asker /\ r.orig = work[id].orig
    BY <1>4, <2>0 DEF IInv, HomeInv, Fits
  <2>4. /\ reply = None
        /\ reply' = [session |-> r.session, orig |-> r.orig,
                     asker |-> work[id].asker, about |-> work[id].orig]
        /\ IF ShouldComplete(r, said) THEN routes' = Delete(routes, {id})
           ELSE routes' = Put(routes, id, Counted(r, said))
    BY <1>1, <1>4, <2>0 DEF Dispatch
  <2>5. reply' \in Reply
    BY <1>0, <2>1, <2>4 DEF Route, Job, Reply
  <2>6. Q!Send(Pair(id))
    BY <2>2, <2>3, <2>4, <2>5, NoneAssumption DEF Answer, Q!Send
  <2>7. CASE ShouldComplete(r, said)
    <3>1. Q!Forget({Pair(id)})
      BY <1>4, <2>4, <2>7, Forgotten
    <3>2. CASE said = "error"
      BY <1>2, <2>2, <2>6, <3>1, <3>2 DEF Q!Error, Q!Next, Q!Query
    <3>3. CASE said # "error"
      <4>1. r.remaining = 1 /\ said = "final"
        BY <1>0, <1>1, <2>1, <2>7, <3>3 DEF ShouldComplete, Job
      <4>2. Q!Result(Pair(id))
        BY <1>2, <2>2, <2>6, <3>1, <4>1 DEF Q!Result
      <4> QED
        BY <2>2, <4>2 DEF Q!Next, Q!Query
    <3> QED
      BY <3>2, <3>3
  <2>8. CASE ~ShouldComplete(r, said)
    <3>1. /\ DOMAIN routes' = DOMAIN routes
          /\ routes'[id] = Counted(r, said)
          /\ \A j \in DOMAIN routes \ {id} : routes'[j] = routes[j]
      BY <1>4, <2>4, <2>8 DEF Put
    <3>2. /\ r.action = "analyze" /\ said \in {"during", "final"}
          /\ Counted(r, said).session = r.session
          /\ Counted(r, said).orig = r.orig
          /\ said = "during" => Counted(r, said).remaining = r.remaining
          /\ said = "final" => Counted(r, said).remaining = r.remaining - 1
      BY <1>1, <2>1, <2>8 DEF ShouldComplete, Counted, Route
    <3>3. \A j \in DOMAIN routes' : Pair(j)' = Pair(j)
      BY <2>0, <3>1, <3>2 DEF Pair
    <3>4. Asked = [q \in DOMAIN Asked |-> Asked[q]]
      BY DEF Asked
    <3>5. CASE said = "during"
      <4>1. \A j \in DOMAIN routes' : Asked[Pair(j)'] = routes'[j].remaining
        BY <2>0, <3>1, <3>2, <3>3, <3>5 DEF AskedIsRemaining
      <4>2. DOMAIN Asked = {Pair(j)' : j \in DOMAIN routes'}
        BY <3>1, <3>3 DEF AskedIsRemaining
      <4>3. Asked' = Asked
        BY <3>4, <4>1, <4>2, AskedEquals
      <4>4. Q!Partial(Pair(id))
        BY <1>2, <2>2, <2>6, <4>3 DEF Q!Partial
      <4> QED
        BY <2>2, <4>4 DEF Q!Next, Q!Query
    <3>6. CASE said = "final"
      <4> DEFINE f == [Asked EXCEPT ![Pair(id)] = @ - 1]
      <4>1. /\ DOMAIN f = DOMAIN Asked
            /\ f = [q \in DOMAIN f |-> f[q]]
            /\ f[Pair(id)] = r.remaining - 1
            /\ \A q \in DOMAIN f \ {Pair(id)} : f[q] = Asked[q]
        BY <2>2, <3>4
      <4> HIDE DEF f
      <4>2. DOMAIN f = {Pair(j)' : j \in DOMAIN routes'}
        BY <3>1, <3>3, <4>1 DEF AskedIsRemaining
      <4>3. ASSUME NEW j \in DOMAIN routes'
            PROVE  f[Pair(j)'] = routes'[j].remaining
        <5>1. CASE j = id
          BY <2>0, <3>1, <3>2, <3>3, <3>6, <4>1, <5>1
        <5>2. CASE j # id
          <6>1. Pair(j) # Pair(id) /\ Pair(j) \in DOMAIN Asked
            BY <1>4, <3>1, <5>2 DEF AskedIsRemaining
          <6> QED
            BY <3>1, <3>3, <4>1, <5>2, <6>1 DEF AskedIsRemaining
        <5> QED
          BY <5>1, <5>2
      <4>4. Asked' = f
        BY <4>1, <4>2, <4>3, AskedEquals
      <4>5. Asked[Pair(id)] # 1
        BY <2>1, <2>2, <2>8, <3>2, <3>6 DEF ShouldComplete, Route
      <4>6. Q!Result(Pair(id))
        BY <1>2, <2>2, <2>6, <4>4, <4>5 DEF Q!Result, f
      <4> QED
        BY <2>2, <4>6 DEF Q!Next, Q!Query
    <3> QED
      BY <3>2, <3>5, <3>6
  <2> QED
    BY <2>7, <2>8
<1> QED
  BY <1>3, <1>4

-----------------------------------------------------------------------------
(* Every step.                                                             *)

\* A step of the engine is a step of the promise or invisible.
LEMMA StepKeepsPromise ==
  ASSUME Warnings = FALSE, IInv, CInv, AskedIsRemaining, AskedIsRemaining',
         [Next]_vars
  PROVE  [Q!Next]_(Q!vars)
<1>0. GoroutinesTypeOK
  BY DEF IInv, TypeOK
<1>1. CASE UNCHANGED vars
  <2>1. \A s \in Session : Over(s)' <=> Over(s)
    BY <1>1 DEF vars, Over
  <2> QED
    BY <1>1, <2>1, Invisible DEF vars
<1>2. ASSUME NEW s \in Session, Submit(s) PROVE [Q!Next]_(Q!vars)
  <2>1. CASE SubmitRefused(s) \/ RefusalSent(s)
               \/ \E o \in ClientId : SubmitBadTerminate(s, o)
    <3>1. \A t \in Session : Over(t)' <=> Over(t)
      BY <1>0, <2>1 DEF SubmitRefused, RefusalSent, SubmitBadTerminate, Over,
                        GoroutinesTypeOK
    <3>2. UNCHANGED <<routes, reply>>
      BY <2>1 DEF SubmitRefused, RefusalSent, SubmitBadTerminate, tables
    <3> QED
      BY <3>1, <3>2, Invisible
  <2>2. CASE RemoveRoute(s)
    BY <2>2, RemoveRouteWithdraws
  <2>3. ASSUME NEW o \in ClientId, SubmitAnalysis(s, o) PROVE Q!Next
    <3>1. PICK turns \in 1..MaxTurns : Register(s, o, "analyze", turns, 0)
      BY <2>3 DEF SubmitAnalysis
    <3> QED
      BY <3>1, RegisterAsks
  <2>4. 1 \in 1..MaxTurns
    BY EngineAssumption
  <2>5. ASSUME NEW o \in ClientId, SubmitTerminate(s, o) PROVE Q!Next
    <3>1. PICK q \in DOMAIN UserRoutes(s) :
            Register(s, o, "terminate", 1, UserRoutes(s)[q])
      BY <2>5 DEF SubmitTerminate
    <3> QED
      BY <2>4, <3>1, RegisterAsks
  <2>6. ASSUME NEW o \in ClientId, SubmitAction(s, o) PROVE Q!Next
    <3>1. PICK kind \in {"terminate_all", "control"} :
            Register(s, o, kind, 1, 0)
      BY <2>6 DEF SubmitAction
    <3> QED
      BY <2>4, <3>1, RegisterAsks
  <2> QED
    BY <1>2, <2>1, <2>2, <2>3, <2>5, <2>6 DEF Submit
<1>3. ASSUME NEW s \in Session, Cancel(s) PROVE [Q!Next]_(Q!vars)
  <2>1. CASE CancelSession(s)
    BY <2>1, CancelSessionEnds
  <2>2. CASE CancelNext(s) \/ CancelReturns(s)
    <3>1. \A t \in Session : Over(t)' <=> Over(t)
      BY <1>0, <2>2 DEF CancelNext, CancelReturns, Over, GoroutinesTypeOK
    <3>2. UNCHANGED <<routes, reply>>
      BY <2>2 DEF CancelNext, CancelReturns, tables
    <3> QED
      BY <3>1, <3>2, Invisible
  <2> QED
    BY <1>3, <2>1, <2>2 DEF Cancel
<1>4. ASSUME NEW g \in Goroutine, WriteJSON(g) PROVE [Q!Next]_(Q!vars)
  <2>1. UNCHANGED <<routes, reply>>
    BY <1>4 DEF WriteJSON, Lock, Write, WriteFails, tables
  <2>2. UNCHANGED pc \/ \E ok : Return(g, ok)
    BY <1>4 DEF WriteJSON, Lock, Write, WriteFails, callers
  <2>3. \A t \in Session : Over(t)' <=> Over(t)
    BY <1>0, <1>4, <2>2 DEF Return, Over, GoroutinesTypeOK, Goroutine
  <2> QED
    BY <2>1, <2>3, Invisible
<1>5. ASSUME NEW id \in DOMAIN work, KataGoPrints(id) PROVE [Q!Next]_(Q!vars)
  BY <1>5, KataGoPrintsAnswers
<1>6. CASE DispatchSent
  <2>1. UNCHANGED <<routes, pc>> /\ reply' = None
    BY <1>6 DEF DispatchSent, tables, callers
  <2>2. /\ Asked = [q \in DOMAIN Asked |-> Asked[q]]
        /\ {t \in Session : Over(t)}' = {t \in Session : Over(t)}
    BY <2>1 DEF Asked, Over
  <2>3. Asked' = Asked
    BY <2>1, <2>2, AskedEquals DEF AskedIsRemaining, Pair
  <2>4. Answer' = None
    BY <2>1 DEF Answer
  <2> QED
    BY <2>2, <2>3, <2>4 DEF Q!Next, Q!Delivered, Q!vars
<1>7. CASE ReadLine \/ Exit \/ Reap \/ StdoutEnds \/ Shutdown \/ Finished
  <2>1. UNCHANGED <<routes, reply, pc>>
    BY <1>7 DEF ReadLine, Exit, Reap, StdoutEnds, Shutdown, ShutdownBegin,
                ShutdownClose, ShutdownKill, ShutdownReturn, Finished, tables,
                callers, vars
  <2>2. \A t \in Session : Over(t)' <=> Over(t)
    BY <2>1 DEF Over
  <2> QED
    BY <2>1, <2>2, Invisible
<1> QED
  BY <1>1, <1>2, <1>3, <1>4, <1>5, <1>6, <1>7 DEF Next

\* At first nothing is asked.
LEMMA InitKeepsPromise == Init => Q!Init
<1> SUFFICES ASSUME Init PROVE Q!Init
  OBVIOUS
<1>1. Asked = [q \in {} |-> 0]
  BY DEF Init, Asked, EmptyMap
<1>2. {s \in Session : Over(s)} = {} /\ Answer = None
  BY DEF Init, Over, Answer
<1> QED
  BY <1>1, <1>2 DEF Q!Init

\* The engine gives every query the results it asked for, under its own id,
\* until the last one, an error or the end of its session, and then takes the
\* id again, whatever its goroutines interleave and however often writes fail.
THEOREM EngineKeepsPromise ==
  ASSUME Warnings = FALSE
  PROVE  Spec => KeepsPromise
<1>1. Init => CInv
  BY InitCInv
<1>2. IInv /\ CInv /\ [Next]_vars => CInv'
  BY NextCInv
<1>3. IInv /\ CInv => AskedIsRemaining
  BY AskedFacts
<1>4. /\ IInv /\ CInv /\ AskedIsRemaining /\ AskedIsRemaining'
      /\ [Next]_vars
      => [Q!Next]_(Q!vars)
  BY StepKeepsPromise
<1>5. Init => Q!Init
  BY InitKeepsPromise
<1> QED
  BY <1>1, <1>2, <1>3, <1>4, <1>5, Invariant, PTL
     DEF Spec, KeepsPromise, Q!Spec

\* And so does the bridge: what its handlers and senders do in between, and
\* when its clients stall or leave, breaks no promise.
THEOREM BridgeKeepsPromise ==
  ASSUME Warnings = FALSE
  PROVE  BridgeSpec => KeepsPromise
BY EngineKeepsPromise, BridgeImplementsEngine
=============================================================================
