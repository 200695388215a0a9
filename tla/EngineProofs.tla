---------------------------- MODULE EngineProofs ----------------------------
(***************************************************************************)
(* Proofs about module Engine, for any sets of sessions and client ids and *)
(* any bounds.                                                             *)
(***************************************************************************)
EXTENDS Engine, SequenceTheorems, TLAPS

-----------------------------------------------------------------------------
(* The inductive invariant.                                                *)

\* A goroutine inside writeJSON has a line, and only such a goroutine has.
LineInv ==
  /\ \A s \in Session :
       /\ pc[s] \in {"submitting", "unrouting"} =>
            line[s] # None /\ line[s].asker = s
       /\ line[s] # None => pc[s] \in {"submitting", "unrouting", "cancelling"}
  /\ line[Main] # None => shutdown = "terminating"
  /\ writeMu # None => line[writeMu] # None
  /\ writeMu \in Session => pc[writeMu] \in {"submitting", "cancelling"}

\* The id of a line is given out, and the route it has, if any, is that of
\* the query the line is about.
Fits(id, asker, orig) ==
  /\ id \in 1..seq
  /\ id \in DOMAIN routes =>
       routes[id].session = asker /\ routes[id].orig = orig

\* Every line on its way to KataGo, and everything KataGo has to answer, fits.
HomeInv ==
  /\ \A g \in Goroutine :
       line[g] # None => Fits(line[g].id, line[g].asker, line[g].orig)
  /\ \A i \in 1..Len(pipe) : Fits(pipe[i].id, pipe[i].asker, pipe[i].orig)
  /\ \A id \in DOMAIN work : Fits(id, work[id].asker, work[id].orig)

IInv == TypeOK /\ LineInv /\ TablesAgree /\ HomeInv /\ RepliesGoHome

-----------------------------------------------------------------------------

\* The state after Start satisfies the invariant.
LEMMA InitIInv == Init => IInv
<1> SUFFICES ASSUME Init PROVE IInv
  OBVIOUS
<1> USE EngineAssumption DEF Init, EmptyMap
<1>1. TypeOK
  BY DEF TypeOK, TablesTypeOK, GoroutinesTypeOK, ProcessTypeOK, Goroutine
<1>2. LineInv
  BY DEF LineInv, Goroutine
<1>3. TablesAgree
  BY DEF TablesAgree
<1>4. HomeInv
  BY DEF HomeInv, Goroutine
<1>5. RepliesGoHome
  BY DEF RepliesGoHome
<1> QED
  BY <1>1, <1>2, <1>3, <1>4, <1>5 DEF IInv

-----------------------------------------------------------------------------
(* What the actions share.                                                 *)

\* Fits outlives every step that gives out new ids only and changes neither
\* the session nor the client id of a route.
LEMMA FitsStable ==
  ASSUME TablesTypeOK, seq' \in Nat, seq <= seq',
         \A i \in DOMAIN routes' :
           i \in 1..seq => /\ i \in DOMAIN routes
                           /\ routes'[i].session = routes[i].session
                           /\ routes'[i].orig = routes[i].orig
  PROVE  \A i, asker, orig : Fits(i, asker, orig) => Fits(i, asker, orig)'
BY DEF TablesTypeOK, Fits

\* The tables stay well formed when a step leaves them alone and no session
\* becomes over.
LEMMA TablesFrame ==
  ASSUME TablesTypeOK, TablesAgree, UNCHANGED tables,
         \A s \in Session : Over(s)' => Over(s)
  PROVE  TablesTypeOK' /\ TablesAgree'
BY DEF TablesTypeOK, TablesAgree, tables

\* Dropping one route from both tables keeps them inverse: dispatch and
\* removeRoute do it alike.
LEMMA DropRoute ==
  ASSUME TablesTypeOK, TablesAgree, NEW id \in DOMAIN routes,
         routes' = Delete(routes, {id}),
         byUser' = DropUser(routes[id].session, routes[id].orig),
         seq' = seq, \A s \in Session : Over(s)' => Over(s)
  PROVE  TablesTypeOK' /\ TablesAgree'
<1>0. PICK s, o : s = routes[id].session /\ o = routes[id].orig
  OBVIOUS
<1>1. /\ s \in DOMAIN byUser /\ o \in DOMAIN byUser[s] /\ byUser[s][o] = id
  BY <1>0 DEF TablesAgree
<1>2. /\ DOMAIN routes' = DOMAIN routes \ {id}
      /\ \A i \in DOMAIN routes' : routes'[i] = routes[i]
  BY DEF Delete, Restrict

\* Either way byUser loses the entry (s, o) and nothing else.
<1>3. /\ DOMAIN byUser' \subseteq DOMAIN byUser
      /\ \A t \in DOMAIN byUser' :
           DOMAIN byUser'[t] = DOMAIN byUser[t] \ (IF t = s THEN {o} ELSE {})
      /\ \A t \in DOMAIN byUser' : \A p \in DOMAIN byUser'[t] :
           byUser'[t][p] = byUser[t][p]
      /\ \A t \in DOMAIN byUser :
           t # s \/ DOMAIN byUser[t] # {o} => t \in DOMAIN byUser'
  <2> DEFINE rest == Delete(byUser[s], {o})
  <2>1. /\ DOMAIN rest = DOMAIN byUser[s] \ {o}
        /\ \A q \in DOMAIN rest : rest[q] = byUser[s][q]
    BY DEF Delete, Restrict
  <2>2. byUser' = IF DOMAIN rest = {} THEN Delete(byUser, {s})
                  ELSE Put(byUser, s, rest)
    BY <1>0, <1>1 DEF DropUser
  <2> HIDE DEF rest
  <2>3. CASE DOMAIN rest = {}
    BY <1>1, <2>1, <2>2, <2>3 DEF Delete, Restrict
  <2>4. CASE DOMAIN rest # {}
    BY <1>1, <2>1, <2>2, <2>4 DEF Put
  <2> QED
    BY <2>3, <2>4
<1>4. TablesTypeOK'
  <2>1. ASSUME NEW t \in DOMAIN byUser'
        PROVE  /\ t \in Session
               /\ DOMAIN byUser'[t] \subseteq ClientId
               /\ \A p \in DOMAIN byUser'[t] : byUser'[t][p] \in 1..seq
    <3>1. t \in DOMAIN byUser /\ DOMAIN byUser'[t] \subseteq DOMAIN byUser[t]
      BY <1>3
    <3> QED
      BY <1>3, <3>1 DEF TablesTypeOK
  <2>2. \A i \in DOMAIN routes' : i \in 1..seq /\ routes'[i] \in Route
    BY <1>2 DEF TablesTypeOK
  <2>3. seq' \in Nat
    BY DEF TablesTypeOK
  <2> QED
    BY <2>1, <2>2, <2>3 DEF TablesTypeOK
<1>5. ASSUME NEW i \in DOMAIN routes'
      PROVE  /\ routes'[i].session \in DOMAIN byUser'
             /\ routes'[i].orig \in DOMAIN byUser'[routes'[i].session]
             /\ byUser'[routes'[i].session][routes'[i].orig] = i
  <2>1. i \in DOMAIN routes /\ i # id /\ routes'[i] = routes[i]
    BY <1>2
  <2>2. /\ routes[i].session \in DOMAIN byUser
        /\ routes[i].orig \in DOMAIN byUser[routes[i].session]
        /\ byUser[routes[i].session][routes[i].orig] = i
    BY <2>1 DEF TablesAgree
  <2>3. routes[i].session # s \/ routes[i].orig # o
    BY <1>1, <2>1, <2>2
  <2>4. routes[i].session \in DOMAIN byUser'
    BY <1>3, <2>2, <2>3
  <2>5. routes[i].orig \in DOMAIN byUser'[routes[i].session]
    BY <1>3, <2>2, <2>3, <2>4
  <2> QED
    BY <1>3, <2>1, <2>2, <2>4, <2>5
<1>6. ASSUME NEW t \in DOMAIN byUser'
      PROVE  /\ ~Over(t)'
             /\ \A p \in DOMAIN byUser'[t] :
                  /\ byUser'[t][p] \in DOMAIN routes'
                  /\ routes'[byUser'[t][p]].session = t
                  /\ routes'[byUser'[t][p]].orig = p
  <2>1. t \in DOMAIN byUser /\ t \in Session /\ ~Over(t)
    BY <1>3 DEF TablesTypeOK, TablesAgree
  <2>2. ASSUME NEW p \in DOMAIN byUser'[t]
        PROVE  /\ byUser'[t][p] \in DOMAIN routes'
               /\ routes'[byUser'[t][p]].session = t
               /\ routes'[byUser'[t][p]].orig = p
    <3>1. /\ p \in DOMAIN byUser[t] /\ byUser'[t][p] = byUser[t][p]
          /\ (t # s \/ p # o)
      BY <1>3
    <3>2. /\ byUser[t][p] \in DOMAIN routes
          /\ routes[byUser[t][p]].session = t
          /\ routes[byUser[t][p]].orig = p
      BY <2>1, <3>1 DEF TablesAgree
    <3>3. byUser[t][p] # id
      BY <1>0, <3>1, <3>2
    <3> QED
      BY <1>2, <3>1, <3>2, <3>3
  <2> QED
    BY <2>1, <2>2
<1> QED
  BY <1>4, <1>5, <1>6 DEF TablesAgree

-----------------------------------------------------------------------------
(* Submit.                                                                 *)

\* Entering a query in both tables under a fresh id keeps the invariant.
LEMMA RegisterIInv ==
  ASSUME IInv, NEW s \in Session, NEW o \in ClientId,
         NEW kind \in Kind, NEW turns \in Nat \ {0}, NEW target \in Nat,
         Register(s, o, kind, turns, target)
  PROVE  IInv'
<1> USE EngineAssumption, NoneAssumption
<1> DEFINE id == seq + 1
<1> DEFINE r == [session |-> s, orig |-> o, action |-> kind,
                 remaining |-> ExpectedFinals(kind, turns)]
<1> DEFINE l == [kind |-> kind, id |-> id, target |-> target,
                 turns |-> turns, asker |-> s, orig |-> o]
<1>a. /\ seq' = id
      /\ routes' = Put(routes, id, r)
      /\ byUser' = Put(byUser, s, Put(UserRoutes(s), o, id))
      /\ line' = [line EXCEPT ![s] = l]
      /\ pc' = [pc EXCEPT ![s] = "submitting"]
      /\ pc[s] = "idle"
      /\ o \notin DOMAIN UserRoutes(s)
      /\ UNCHANGED <<todo, writeMu, stdinOpen, reply, shutdown, pipe, katago, work>>
  BY DEF Register, process
<1>b. r \in Route /\ l \in Line /\ l # None
  BY DEF Route, Line, ExpectedFinals, IInv, TypeOK, TablesTypeOK
<1> HIDE DEF r, l
<1>1. TablesTypeOK'
  BY <1>a, <1>b DEF IInv, TypeOK, TablesTypeOK, Put, UserRoutes, EmptyMap
<1>2. GoroutinesTypeOK'
  <2>1. 1..seq \subseteq 1..seq'
    BY <1>a DEF IInv, TypeOK, TablesTypeOK
  <2>2. todo' \in [Session -> SUBSET (1..seq')]
    BY <1>a, <2>1 DEF IInv, TypeOK, GoroutinesTypeOK
  <2> QED
    BY <1>a, <1>b, <2>2 DEF IInv, TypeOK, GoroutinesTypeOK, Goroutine
<1>3. ProcessTypeOK'
  BY <1>a DEF IInv, TypeOK, TablesTypeOK, ProcessTypeOK
<1>4. LineInv'
  <2>1. line'[s] # None /\ line'[s].asker = s
    BY <1>a, <1>b DEF IInv, TypeOK, GoroutinesTypeOK, Goroutine, l
  <2> QED
    BY <1>a, <2>1 DEF IInv, TypeOK, GoroutinesTypeOK, LineInv, Goroutine
<1>5. TablesAgree'
  BY <1>a DEF IInv, TypeOK, TablesTypeOK, GoroutinesTypeOK, TablesAgree, Put, UserRoutes, EmptyMap, Over, r
<1>6. HomeInv'
  <2>1. \A i, asker, orig : Fits(i, asker, orig) => Fits(i, asker, orig)'
    BY <1>a DEF IInv, TypeOK, TablesTypeOK, Fits, Put
  <2>2. line'[s] = l
    BY <1>a DEF IInv, TypeOK, GoroutinesTypeOK, Goroutine
  <2>3. Fits(line[s].id, line[s].asker, line[s].orig)'
    BY <1>a, <2>2 DEF IInv, TypeOK, TablesTypeOK, Fits, Put, r, l
  <2>4. ASSUME NEW g \in Goroutine, line'[g] # None
        PROVE  Fits(line[g].id, line[g].asker, line[g].orig)'
    <3>1. CASE g = s
      BY <2>3, <3>1
    <3>2. CASE g # s
      BY <1>a, <2>1, <2>4, <3>2 DEF IInv, TypeOK, GoroutinesTypeOK, HomeInv
    <3> QED
      BY <3>1, <3>2
  <2>5. \A i \in 1..Len(pipe') : Fits(pipe[i].id, pipe[i].asker, pipe[i].orig)'
    BY <1>a, <2>1 DEF IInv, HomeInv
  <2>6. \A i \in DOMAIN work' : Fits(i, work[i].asker, work[i].orig)'
    BY <1>a, <2>1 DEF IInv, HomeInv
  <2> QED
    BY <2>4, <2>5, <2>6 DEF HomeInv
<1>7. RepliesGoHome'
  BY <1>a DEF IInv, RepliesGoHome
<1> QED
  BY <1>1, <1>2, <1>3, <1>4, <1>5, <1>6, <1>7 DEF IInv, TypeOK

\* A terminate without an active target uses up an id and touches no route.
LEMMA SubmitBadTerminateIInv ==
  ASSUME IInv, NEW s \in Session, NEW o \in ClientId, SubmitBadTerminate(s, o)
  PROVE  IInv'
<1>a. /\ byUser' = Put(byUser, s, UserRoutes(s))
      /\ seq' = seq + 1
      /\ pc' = [pc EXCEPT ![s] = "refusing"]
      /\ pc[s] = "idle"
      /\ UNCHANGED <<routes, todo, line, writeMu, stdinOpen, reply, shutdown,
                     pipe, katago, work>>
  BY DEF SubmitBadTerminate, process
<1>b. seq \in Nat /\ seq' \in Nat /\ seq <= seq' /\ 1..seq \subseteq 1..seq'
  BY <1>a DEF IInv, TypeOK, TablesTypeOK
<1>c. \A i, asker, orig : Fits(i, asker, orig) => Fits(i, asker, orig)'
  BY <1>a, <1>b DEF Fits
<1>1. TablesTypeOK'
  BY <1>a, <1>b DEF IInv, TypeOK, TablesTypeOK, Put, UserRoutes, EmptyMap
<1>2. GoroutinesTypeOK'
  BY <1>a, <1>b DEF IInv, TypeOK, GoroutinesTypeOK
<1>3. ProcessTypeOK'
  BY <1>a, <1>b DEF IInv, TypeOK, ProcessTypeOK
<1>4. LineInv'
  BY <1>a DEF IInv, TypeOK, GoroutinesTypeOK, LineInv
<1>5. TablesAgree'
  BY <1>a DEF IInv, TypeOK, TablesTypeOK, GoroutinesTypeOK, TablesAgree, Put,
              UserRoutes, EmptyMap, Over
<1>6. HomeInv'
  BY <1>a, <1>c DEF IInv, HomeInv
<1>7. RepliesGoHome'
  BY <1>a DEF IInv, RepliesGoHome
<1> QED
  BY <1>1, <1>2, <1>3, <1>4, <1>5, <1>6, <1>7 DEF IInv, TypeOK

\* A protocol error and its Send touch nothing but the goroutine's place.
LEMMA RefusalIInv ==
  ASSUME IInv, NEW s \in Session, SubmitRefused(s) \/ RefusalSent(s)
  PROVE  IInv'
<1>a. /\ pc[s] \in {"idle", "refusing"}
      /\ \E next \in {"idle", "refusing", "failed"} :
           pc' = [pc EXCEPT ![s] = next]
      /\ UNCHANGED <<routes, byUser, seq, todo, line, writeMu, stdinOpen,
                     reply, shutdown, pipe, katago, work>>
  BY DEF SubmitRefused, RefusalSent, tables, process
<1>1. GoroutinesTypeOK' /\ ProcessTypeOK'
  BY <1>a DEF IInv, TypeOK, GoroutinesTypeOK, ProcessTypeOK
<1>2. TablesTypeOK' /\ TablesAgree'
  <2>1. \A t \in Session : Over(t)' => Over(t)
    BY <1>a DEF IInv, TypeOK, GoroutinesTypeOK, Over
  <2> QED
    BY <1>a, <2>1, TablesFrame DEF IInv, TypeOK, tables
<1>3. LineInv'
  BY <1>a DEF IInv, TypeOK, GoroutinesTypeOK, LineInv
<1>4. HomeInv' /\ RepliesGoHome'
  BY <1>a DEF IInv, HomeInv, RepliesGoHome, Fits
<1> QED
  BY <1>1, <1>2, <1>3, <1>4 DEF IInv, TypeOK

\* removeRoute drops an entry from both tables or from neither.
LEMMA RemoveRouteIInv ==
  ASSUME IInv, NEW s \in Session, RemoveRoute(s)
  PROVE  IInv'
<1>a. /\ pc[s] = "unrouting"
      /\ line' = [line EXCEPT ![s] = None]
      /\ pc' = [pc EXCEPT ![s] = "failed"]
      /\ UNCHANGED <<seq, todo, writeMu, stdinOpen, reply, shutdown, pipe,
                     katago, work>>
  BY DEF RemoveRoute, process
<1>b. Fits(line[s].id, line[s].asker, line[s].orig)
  BY <1>a DEF IInv, LineInv, HomeInv, Goroutine
<1>c. line[s].asker = s
  BY <1>a DEF IInv, LineInv
<1>1. /\ TablesTypeOK' /\ TablesAgree'
      /\ \A i \in DOMAIN routes' : i \in DOMAIN routes /\ routes'[i] = routes[i]
  <2>1. CASE line[s].id \in DOMAIN routes
    <3>1. /\ routes' = Delete(routes, {line[s].id})
          /\ byUser' = DropUser(s, line[s].orig)
      BY <2>1 DEF RemoveRoute
    <3>2. /\ routes[line[s].id].session = s
          /\ routes[line[s].id].orig = line[s].orig
      BY <1>b, <1>c, <2>1 DEF Fits
    <3>3. \A i \in DOMAIN routes' : i \in DOMAIN routes /\ routes'[i] = routes[i]
      BY <3>1 DEF Delete, Restrict
    <3>4. \A t \in Session : Over(t)' => Over(t)
      BY <1>a DEF IInv, TypeOK, GoroutinesTypeOK, Over
    <3>5. TablesTypeOK' /\ TablesAgree'
      BY <1>a, <2>1, <3>1, <3>2, <3>4, DropRoute DEF IInv, TypeOK
    <3> QED
      BY <3>3, <3>5
  <2>2. CASE line[s].id \notin DOMAIN routes
    <3>1. UNCHANGED tables
      BY <1>a, <2>2 DEF RemoveRoute, tables
    <3>2. \A t \in Session : Over(t)' => Over(t)
      BY <1>a DEF IInv, TypeOK, GoroutinesTypeOK, Over
    <3> QED
      BY <3>1, <3>2, TablesFrame DEF IInv, TypeOK, tables
  <2> QED
    BY <2>1, <2>2
<1>2. GoroutinesTypeOK' /\ ProcessTypeOK'
  BY <1>a DEF IInv, TypeOK, GoroutinesTypeOK, ProcessTypeOK, Goroutine
<1>3. LineInv'
  BY <1>a, EngineAssumption DEF IInv, TypeOK, GoroutinesTypeOK, LineInv, Goroutine
<1>4. \A i, asker, orig : Fits(i, asker, orig) => Fits(i, asker, orig)'
  BY <1>a, <1>1 DEF Fits
<1>5. HomeInv' /\ RepliesGoHome'
  BY <1>a, <1>4 DEF IInv, TypeOK, GoroutinesTypeOK, HomeInv, RepliesGoHome
<1> QED
  BY <1>1, <1>2, <1>3, <1>5 DEF IInv, TypeOK

-----------------------------------------------------------------------------
(* writeJSON.                                                              *)

\* Taking writeMu changes nothing the invariant speaks of but its holder.
LEMMA LockIInv ==
  ASSUME IInv, NEW g \in Goroutine, Lock(g)
  PROVE  IInv'
<1>a. /\ line[g] # None
      /\ g \in Session => pc[g] # "unrouting"
      /\ writeMu' = g
      /\ UNCHANGED <<routes, byUser, seq, pc, todo, line, stdinOpen, reply,
                     shutdown, pipe, katago, work>>
  BY DEF Lock, tables, callers, process
<1>1. TypeOK'
  BY <1>a DEF IInv, TypeOK, TablesTypeOK, GoroutinesTypeOK, ProcessTypeOK
<1>2. LineInv'
  BY <1>a DEF IInv, LineInv
<1>3. TablesAgree'
  BY <1>a DEF IInv, TablesAgree, Over
<1>4. HomeInv' /\ RepliesGoHome'
  BY <1>a DEF IInv, HomeInv, RepliesGoHome, Fits
<1> QED
  BY <1>1, <1>2, <1>3, <1>4 DEF IInv

\* What a return from writeJSON leaves behind, whether the write went well or
\* not.
LEMMA ReturnIInv ==
  ASSUME IInv, NEW g \in Goroutine, NEW ok \in BOOLEAN,
         writeMu = g, writeMu' = None, Return(g, ok),
         UNCHANGED <<routes, byUser, seq, todo, stdinOpen, reply>>
  PROVE  /\ TablesTypeOK' /\ GoroutinesTypeOK'
         /\ LineInv' /\ TablesAgree' /\ RepliesGoHome'
         /\ \A h \in Goroutine : line'[h] # None => line'[h] = line[h]
         /\ \A i, asker, orig : Fits(i, asker, orig) => Fits(i, asker, orig)'
<1> USE EngineAssumption
<1>1. CASE g = Main
  <2>1. /\ shutdown' = "closing"
        /\ line' = [line EXCEPT ![Main] = None]
        /\ UNCHANGED pc
    BY <1>1 DEF Return
  <2>2. TablesTypeOK' /\ GoroutinesTypeOK' /\ TablesAgree' /\ RepliesGoHome'
    BY <2>1 DEF IInv, TypeOK, TablesTypeOK, GoroutinesTypeOK, TablesAgree,
                RepliesGoHome, Over, Goroutine
  <2>3. LineInv'
    BY <2>1 DEF IInv, TypeOK, GoroutinesTypeOK, LineInv, Goroutine
  <2> QED
    BY <2>1, <2>2, <2>3 DEF IInv, TypeOK, GoroutinesTypeOK, Fits, Goroutine
<1>2. CASE g # Main
  <2>1. g \in Session /\ UNCHANGED shutdown
    BY <1>2 DEF Return, Goroutine
  <2>2. \/ /\ pc[g] = "submitting"
           /\ \/ pc' = [pc EXCEPT ![g] = "idle"]
                 /\ line' = [line EXCEPT ![g] = None]
              \/ pc' = [pc EXCEPT ![g] = "unrouting"] /\ line' = line
        \/ /\ pc[g] = "cancelling"
           /\ pc' = pc
           /\ line' = [line EXCEPT ![g] = None]
    BY <1>2 DEF Return
  <2>3. GoroutinesTypeOK'
    BY <2>1, <2>2 DEF IInv, TypeOK, GoroutinesTypeOK, Goroutine
  <2>4. TablesTypeOK' /\ TablesAgree'
    <3>1. \A t \in Session : Over(t)' => Over(t)
      BY <2>1, <2>2 DEF IInv, TypeOK, GoroutinesTypeOK, Over
    <3> QED
      BY <3>1, TablesFrame DEF IInv, TypeOK, tables
  <2>5. LineInv'
    BY <2>1, <2>2 DEF IInv, TypeOK, GoroutinesTypeOK, LineInv, Goroutine
  <2> QED
    BY <2>1, <2>2, <2>3, <2>4, <2>5
       DEF IInv, TypeOK, GoroutinesTypeOK, Fits, Goroutine, RepliesGoHome
<1> QED
  BY <1>1, <1>2

\* A line that moves into the pipe keeps its id and its query.
LEMMA WriteIInv ==
  ASSUME IInv, NEW g \in Goroutine, Write(g)
  PROVE  IInv'
<1>a. /\ writeMu = g /\ writeMu' = None /\ Return(g, TRUE)
      /\ pipe' = Append(pipe, line[g])
      /\ UNCHANGED <<routes, byUser, seq, todo, stdinOpen, reply, katago, work>>
  BY DEF Write, tables
<1>b. line[g] \in Line /\ Fits(line[g].id, line[g].asker, line[g].orig)
  BY <1>a, EngineAssumption
     DEF IInv, TypeOK, GoroutinesTypeOK, LineInv, HomeInv, Goroutine
<1>1. /\ TablesTypeOK' /\ GoroutinesTypeOK'
      /\ LineInv' /\ TablesAgree' /\ RepliesGoHome'
      /\ \A h \in Goroutine : line'[h] # None => line'[h] = line[h]
      /\ \A i, asker, orig : Fits(i, asker, orig) => Fits(i, asker, orig)'
  BY <1>a, ReturnIInv
<1>2. /\ pipe' \in Seq(Line)
      /\ \A i \in 1..Len(pipe') :
           pipe'[i] = line[g] \/ (i \in 1..Len(pipe) /\ pipe'[i] = pipe[i])
  BY <1>a, <1>b DEF IInv, TypeOK, ProcessTypeOK
<1>3. ProcessTypeOK'
  BY <1>a, <1>2 DEF IInv, TypeOK, ProcessTypeOK
<1>4. HomeInv'
  <2>1. ASSUME NEW i \in 1..Len(pipe')
        PROVE  Fits(pipe[i].id, pipe[i].asker, pipe[i].orig)'
    <3>1. Fits(pipe'[i].id, pipe'[i].asker, pipe'[i].orig)
      BY <1>b, <1>2 DEF IInv, HomeInv
    <3> QED
      BY <1>1, <3>1
  <2> QED
    BY <1>a, <1>1, <2>1 DEF IInv, HomeInv
<1> QED
  BY <1>1, <1>3, <1>4 DEF IInv, TypeOK

\* A failed write leaves line, tables and pipe consistent for removeRoute.
LEMMA WriteFailsIInv ==
  ASSUME IInv, NEW g \in Goroutine, WriteFails(g)
  PROVE  IInv'
<1>a. /\ writeMu = g /\ writeMu' = None /\ Return(g, FALSE)
      /\ UNCHANGED <<routes, byUser, seq, todo, stdinOpen, reply, pipe, katago,
                     work>>
  BY DEF WriteFails, tables, process
<1>1. /\ TablesTypeOK' /\ GoroutinesTypeOK'
      /\ LineInv' /\ TablesAgree' /\ RepliesGoHome'
      /\ \A h \in Goroutine : line'[h] # None => line'[h] = line[h]
      /\ \A i, asker, orig : Fits(i, asker, orig) => Fits(i, asker, orig)'
  BY <1>a, ReturnIInv
<1>2. ProcessTypeOK' /\ HomeInv'
  BY <1>a, <1>1 DEF IInv, TypeOK, ProcessTypeOK, HomeInv
<1> QED
  BY <1>1, <1>2 DEF IInv, TypeOK

-----------------------------------------------------------------------------
(* CancelSession.                                                          *)

\* CancelSession empties both tables of its session and of no other.
LEMMA CancelSessionIInv ==
  ASSUME IInv, NEW s \in Session, CancelSession(s)
  PROVE  IInv'
<1> DEFINE mine == {UserRoutes(s)[o] : o \in DOMAIN UserRoutes(s)}
<1>a. /\ pc[s] \in {"idle", "failed"}
      /\ todo' = [todo EXCEPT ![s] = Analyses(s)]
      /\ routes' = Delete(routes, mine)
      /\ byUser' = Delete(byUser, {s})
      /\ pc' = [pc EXCEPT ![s] = "cancelling"]
      /\ UNCHANGED <<seq, line, writeMu, stdinOpen, reply, shutdown, pipe,
                     katago, work>>
  BY DEF CancelSession, process
<1>b. /\ DOMAIN routes' = DOMAIN routes \ mine
      /\ \A i \in DOMAIN routes' : routes'[i] = routes[i]
      /\ DOMAIN byUser' = DOMAIN byUser \ {s}
      /\ \A t \in DOMAIN byUser' : byUser'[t] = byUser[t]
  BY <1>a DEF Delete, Restrict
<1>c. \A i \in DOMAIN routes : i \in mine <=> routes[i].session = s
  <2>1. ASSUME NEW i \in DOMAIN routes, routes[i].session = s
        PROVE  i \in mine
    <3>1. s \in DOMAIN byUser /\ routes[i].orig \in DOMAIN byUser[s]
          /\ byUser[s][routes[i].orig] = i
      BY <2>1 DEF IInv, TablesAgree
    <3> QED
      BY <3>1 DEF UserRoutes
  <2>2. ASSUME NEW o \in DOMAIN UserRoutes(s)
        PROVE  routes[UserRoutes(s)[o]].session = s
    BY <2>2 DEF IInv, TablesAgree, UserRoutes, EmptyMap
  <2> QED
    BY <2>1, <2>2
<1>1. TablesTypeOK'
  BY <1>a, <1>b DEF IInv, TypeOK, TablesTypeOK
<1>2. GoroutinesTypeOK'
  <2>1. Analyses(s) \in SUBSET (1..seq)
    BY DEF IInv, TypeOK, TablesTypeOK, Analyses
  <2> QED
    BY <1>a, <2>1 DEF IInv, TypeOK, GoroutinesTypeOK
<1>3. ProcessTypeOK'
  BY <1>a DEF IInv, TypeOK, ProcessTypeOK
<1>4. LineInv'
  BY <1>a DEF IInv, TypeOK, GoroutinesTypeOK, LineInv
<1>5. TablesAgree'
  <2>1. \A t \in Session : t # s /\ Over(t)' => Over(t)
    BY <1>a DEF IInv, TypeOK, GoroutinesTypeOK, Over
  <2> QED
    BY <1>b, <1>c, <2>1 DEF IInv, TypeOK, TablesTypeOK, TablesAgree
<1>6. \A i, asker, orig : Fits(i, asker, orig) => Fits(i, asker, orig)'
  BY <1>a, <1>b DEF Fits
<1>7. HomeInv' /\ RepliesGoHome'
  BY <1>a, <1>6 DEF IInv, HomeInv, RepliesGoHome
<1> QED
  BY <1>1, <1>2, <1>3, <1>4, <1>5, <1>7 DEF IInv, TypeOK

\* A goroutine takes up a line of the bridge's own, with the next id.
LEMMA ActionLineIInv ==
  ASSUME IInv, NEW g \in Goroutine, NEW kind \in Kind, NEW target \in Nat,
         line[g] = None, line' = [line EXCEPT ![g] = ActionLine(kind, target)],
         seq' = seq + 1, UNCHANGED <<routes, byUser, pipe, katago, work>>
  PROVE  /\ TablesTypeOK' /\ ProcessTypeOK' /\ HomeInv'
         /\ line' \in [Goroutine -> Line \cup {None}] /\ line'[g] # None
         /\ 1..seq \subseteq 1..seq'
<1> DEFINE l == ActionLine(kind, target)
<1>1. seq \in Nat /\ seq' \in Nat /\ seq <= seq' /\ 1..seq \subseteq 1..seq'
      /\ seq' \in 1..seq' /\ seq' \notin 1..seq
  BY DEF IInv, TypeOK, TablesTypeOK
<1>2. l \in Line /\ l.id = seq' /\ l.asker = None /\ l.orig = None /\ l # None
  BY <1>1, NoneAssumption DEF ActionLine, Line
<1>3. /\ line' \in [Goroutine -> Line \cup {None}]
      /\ line'[g] = l
      /\ \A h \in Goroutine \ {g} : line'[h] = line[h]
  <2> HIDE DEF l
  <2> QED
    BY <1>2 DEF IInv, TypeOK, GoroutinesTypeOK, l
<1>4. \A i, asker, orig : Fits(i, asker, orig) => Fits(i, asker, orig)'
  BY <1>1 DEF Fits
<1>5. Fits(line[g].id, line[g].asker, line[g].orig)'
  BY <1>1, <1>2, <1>3 DEF IInv, TypeOK, TablesTypeOK, Fits
<1>6. HomeInv'
  BY <1>3, <1>4, <1>5 DEF IInv, HomeInv
<1>7. TablesTypeOK' /\ ProcessTypeOK'
  BY <1>1 DEF IInv, TypeOK, TablesTypeOK, ProcessTypeOK
<1> QED
  BY <1>1, <1>2, <1>3, <1>6, <1>7

\* A terminate of CancelSession goes out under a fresh id of no query.
LEMMA CancelNextIInv ==
  ASSUME IInv, NEW s \in Session, CancelNext(s)
  PROVE  IInv'
<1>1. PICK id \in todo[s] :
        /\ line' = [line EXCEPT ![s] = ActionLine("terminate", id)]
        /\ todo' = [todo EXCEPT ![s] = @ \ {id}]
  BY DEF CancelNext
<1>2. /\ pc[s] = "cancelling" /\ line[s] = None /\ seq' = seq + 1
      /\ UNCHANGED <<routes, byUser, pc, writeMu, stdinOpen, reply, shutdown,
                     pipe, katago, work>>
  BY DEF CancelNext, process
<1>3. id \in Nat
  BY DEF IInv, TypeOK, TablesTypeOK, GoroutinesTypeOK
<1>4. /\ TablesTypeOK' /\ ProcessTypeOK' /\ HomeInv'
      /\ line' \in [Goroutine -> Line \cup {None}] /\ line'[s] # None
      /\ 1..seq \subseteq 1..seq'
  BY <1>1, <1>2, <1>3, ActionLineIInv DEF Goroutine, Kind
<1>5. GoroutinesTypeOK'
  <2>1. todo' \in [Session -> SUBSET (1..seq')]
    BY <1>1, <1>4 DEF IInv, TypeOK, GoroutinesTypeOK
  <2> QED
    BY <1>2, <1>4, <2>1 DEF IInv, TypeOK, GoroutinesTypeOK
<1>6. LineInv'
  BY <1>1, <1>2, <1>4, EngineAssumption
     DEF IInv, TypeOK, GoroutinesTypeOK, LineInv, Goroutine
<1>7. TablesAgree' /\ RepliesGoHome'
  BY <1>2 DEF IInv, TablesAgree, RepliesGoHome, Over
<1> QED
  BY <1>4, <1>5, <1>6, <1>7 DEF IInv, TypeOK

\* CancelSession returns without touching the tables.
LEMMA CancelReturnsIInv ==
  ASSUME IInv, NEW s \in Session, CancelReturns(s)
  PROVE  IInv'
<1>a. /\ pc[s] = "cancelling" /\ line[s] = None
      /\ pc' = [pc EXCEPT ![s] = "gone"]
      /\ UNCHANGED <<routes, byUser, seq, todo, line, writeMu, stdinOpen,
                     reply, shutdown, pipe, katago, work>>
  BY DEF CancelReturns, tables, process
<1>1. GoroutinesTypeOK' /\ ProcessTypeOK'
  BY <1>a DEF IInv, TypeOK, GoroutinesTypeOK, ProcessTypeOK
<1>2. TablesTypeOK' /\ TablesAgree'
  <2>1. \A t \in Session : Over(t)' => Over(t)
    BY <1>a DEF IInv, TypeOK, GoroutinesTypeOK, Over
  <2> QED
    BY <1>a, <2>1, TablesFrame DEF IInv, TypeOK, tables
<1>3. LineInv'
  BY <1>a, EngineAssumption DEF IInv, TypeOK, GoroutinesTypeOK, LineInv, Goroutine
<1>4. HomeInv' /\ RepliesGoHome'
  BY <1>a DEF IInv, HomeInv, RepliesGoHome, Fits
<1> QED
  BY <1>1, <1>2, <1>3, <1>4 DEF IInv, TypeOK

-----------------------------------------------------------------------------
(* dispatch.                                                               *)

\* Whatever KataGo says about id, and whatever of it is left to say after it.
LEMMA DispatchIInv ==
  ASSUME IInv, NEW id \in DOMAIN work, NEW said, Dispatch(id, said),
         DOMAIN work' \subseteq DOMAIN work,
         \A i \in DOMAIN work' : /\ work'[i] \in Job
                                 /\ work'[i].asker = work[i].asker
                                 /\ work'[i].orig = work[i].orig
  PROVE  IInv'
<1>a. UNCHANGED <<seq, pc, todo, line, writeMu, stdinOpen, shutdown, pipe, katago>>
  BY DEF Dispatch, callers
<1>b. Fits(id, work[id].asker, work[id].orig)
  BY DEF IInv, HomeInv
<1>1. /\ TablesTypeOK' /\ TablesAgree'
      /\ reply' \in Reply \cup {None} /\ RepliesGoHome'
      /\ \A i \in DOMAIN routes' : /\ i \in DOMAIN routes
                                   /\ routes'[i].session = routes[i].session
                                   /\ routes'[i].orig = routes[i].orig
  <2>1. CASE id \notin DOMAIN routes
    <3>1. UNCHANGED <<routes, byUser, reply>>
      BY <2>1 DEF Dispatch
    <3> QED
      BY <1>a, <3>1, TablesFrame
         DEF IInv, TypeOK, GoroutinesTypeOK, RepliesGoHome, tables, Over
  <2>2. CASE id \in DOMAIN routes
    <3> DEFINE r == routes[id]
    <3>1. reply' = [session |-> r.session, orig |-> r.orig,
                    asker |-> work[id].asker, about |-> work[id].orig]
      BY <2>2 DEF Dispatch
    <3>2. r \in Route /\ work[id] \in Job
      BY <2>2 DEF IInv, TypeOK, TablesTypeOK, ProcessTypeOK
    <3>3. reply' \in Reply
      BY <3>1, <3>2 DEF Reply, Route, Job
    <3>4. RepliesGoHome'
      BY <1>b, <2>2, <3>1 DEF Fits, RepliesGoHome
    <3>5. CASE ShouldComplete(r, said)
      <4>1. /\ routes' = Delete(routes, {id})
            /\ byUser' = DropUser(r.session, r.orig)
        BY <2>2, <3>5 DEF Dispatch
      <4>2. TablesTypeOK' /\ TablesAgree'
        BY <1>a, <2>2, <4>1, DropRoute DEF IInv, TypeOK, Over
      <4> QED
        BY <3>3, <3>4, <4>1, <4>2 DEF Delete, Restrict
    <3>6. CASE ~ShouldComplete(r, said)
      <4>1. routes' = Put(routes, id, Counted(r, said)) /\ UNCHANGED byUser
        BY <2>2, <3>6 DEF Dispatch
      <4>2. /\ Counted(r, said) \in Route
            /\ Counted(r, said).session = r.session
            /\ Counted(r, said).orig = r.orig
        BY <3>2 DEF Counted, Route
      <4>3. /\ DOMAIN routes' = DOMAIN routes
            /\ \A i \in DOMAIN routes' : /\ routes'[i] \in Route
                                         /\ routes'[i].session = routes[i].session
                                         /\ routes'[i].orig = routes[i].orig
        BY <2>2, <4>1, <4>2 DEF Put, IInv, TypeOK, TablesTypeOK
      <4>4. TablesTypeOK' /\ TablesAgree'
        BY <1>a, <4>1, <4>3 DEF IInv, TypeOK, TablesTypeOK, TablesAgree, Over
      <4> QED
        BY <3>3, <3>4, <4>3, <4>4
    <3> QED
      BY <3>5, <3>6
  <2> QED
    BY <2>1, <2>2
<1>2. GoroutinesTypeOK'
  BY <1>a, <1>1 DEF IInv, TypeOK, GoroutinesTypeOK
<1>3. ProcessTypeOK'
  BY <1>a DEF IInv, TypeOK, ProcessTypeOK
<1>4. LineInv'
  BY <1>a DEF IInv, LineInv
<1>5. \A i, asker, orig : Fits(i, asker, orig) => Fits(i, asker, orig)'
  BY <1>a, <1>1 DEF Fits
<1>6. HomeInv'
  BY <1>a, <1>5 DEF IInv, HomeInv
<1> QED
  BY <1>1, <1>2, <1>3, <1>4, <1>6 DEF IInv, TypeOK

\* Every line KataGo prints is dispatched under the invariant.
LEMMA KataGoPrintsIInv ==
  ASSUME IInv, NEW id \in DOMAIN work, KataGoPrints(id)
  PROVE  IInv'
<1>0. work[id] \in Job
  BY DEF IInv, TypeOK, ProcessTypeOK
<1>1. CASE PrintDuring(id)
  BY <1>1, DispatchIInv DEF PrintDuring, IInv, TypeOK, ProcessTypeOK
<1>2. CASE PrintFinal(id)
  <2>1. Dispatch(id, "final")
    BY <1>2 DEF PrintFinal
  <2>2. CASE work[id].left = 1
    BY <1>2, <2>1, <2>2, DispatchIInv
       DEF PrintFinal, Delete, Restrict, IInv, TypeOK, ProcessTypeOK
  <2>3. CASE work[id].left # 1
    <3>1. work' = [work EXCEPT ![id].left = @ - 1]
      BY <1>2, <2>3 DEF PrintFinal
    <3>2. /\ [work[id] EXCEPT !.left = @ - 1] \in Job
          /\ [work[id] EXCEPT !.left = @ - 1].asker = work[id].asker
          /\ [work[id] EXCEPT !.left = @ - 1].orig = work[id].orig
      BY <1>0, <2>3 DEF Job
    <3>3. /\ DOMAIN work' = DOMAIN work
          /\ \A i \in DOMAIN work' : /\ work'[i] \in Job
                                     /\ work'[i].asker = work[i].asker
                                     /\ work'[i].orig = work[i].orig
      BY <3>1, <3>2 DEF IInv, TypeOK, ProcessTypeOK
    <3> QED
      BY <2>1, <3>3, DispatchIInv
  <2> QED
    BY <2>2, <2>3
<1>3. CASE PrintError(id)
  BY <1>3, DispatchIInv
     DEF PrintError, Delete, Restrict, IInv, TypeOK, ProcessTypeOK
<1>4. CASE PrintWarning(id)
  <2>1. Dispatch(id, "warning") /\ work' = [work EXCEPT ![id].first = "result"]
    BY <1>4 DEF PrintWarning
  <2>2. /\ [work[id] EXCEPT !.first = "result"] \in Job
        /\ [work[id] EXCEPT !.first = "result"].asker = work[id].asker
        /\ [work[id] EXCEPT !.first = "result"].orig = work[id].orig
    BY <1>0 DEF Job
  <2>3. /\ DOMAIN work' = DOMAIN work
        /\ \A i \in DOMAIN work' : /\ work'[i] \in Job
                                   /\ work'[i].asker = work[i].asker
                                   /\ work'[i].orig = work[i].orig
    BY <2>1, <2>2 DEF IInv, TypeOK, ProcessTypeOK
  <2> QED
    BY <2>1, <2>3, DispatchIInv
<1> QED
  BY <1>1, <1>2, <1>3, <1>4 DEF KataGoPrints

\* A Send that returns takes the reply away and nothing else.
LEMMA DispatchSentIInv == IInv /\ DispatchSent => IInv'
<1> SUFFICES ASSUME IInv, DispatchSent PROVE IInv'
  OBVIOUS
<1>a. /\ reply' = None
      /\ UNCHANGED <<routes, byUser, seq, pc, todo, line, writeMu, stdinOpen,
                     shutdown, pipe, katago, work>>
  BY DEF DispatchSent, tables, callers, process
<1>1. TypeOK'
  BY <1>a DEF IInv, TypeOK, TablesTypeOK, GoroutinesTypeOK, ProcessTypeOK
<1>2. LineInv' /\ TablesAgree' /\ HomeInv' /\ RepliesGoHome'
  BY <1>a DEF IInv, LineInv, TablesAgree, HomeInv, RepliesGoHome, Over, Fits
<1> QED
  BY <1>1, <1>2 DEF IInv

-----------------------------------------------------------------------------
(* The process and Shutdown.                                               *)

\* KataGo's reading a line moves its query from the pipe to the work.
LEMMA ReadLineIInv == IInv /\ ReadLine => IInv'
<1> SUFFICES ASSUME IInv, ReadLine PROVE IInv'
  OBVIOUS
<1> DEFINE l == Head(pipe)
<1> DEFINE w == CASE l.kind = "terminate" -> Told(work, {l.target})
                  [] l.kind = "terminate_all" -> Told(work, DOMAIN work)
                  [] OTHER -> work
<1>a. /\ pipe # <<>> /\ pipe' = Tail(pipe)
      /\ UNCHANGED <<routes, byUser, seq, pc, todo, line, writeMu, stdinOpen,
                     reply, shutdown, katago>>
  BY DEF ReadLine, tables, callers
<1>b. PICK first \in {"result", "error", "warning"} :
        work' = Put(w, l.id, [kind |-> l.kind, told |-> FALSE, first |-> first,
                              left |-> l.turns, asker |-> l.asker,
                              orig |-> l.orig])
  BY DEF ReadLine
<1>c. l \in Line /\ Fits(l.id, l.asker, l.orig)
  <2>1. pipe \in Seq(Line) /\ 1 \in 1..Len(pipe) /\ Head(pipe) = pipe[1]
    BY <1>a DEF IInv, TypeOK, ProcessTypeOK
  <2> QED
    BY <2>1, HeadTailProperties DEF IInv, HomeInv
<1>d. /\ Tail(pipe) \in Seq(Line)
      /\ \A i \in 1..Len(Tail(pipe)) :
           i + 1 \in 1..Len(pipe) /\ Tail(pipe)[i] = pipe[i + 1]
  BY <1>a, HeadTailProperties DEF IInv, TypeOK, ProcessTypeOK
<1>e. /\ DOMAIN w = DOMAIN work
      /\ \A i \in DOMAIN w : /\ w[i] \in Job
                             /\ w[i].asker = work[i].asker
                             /\ w[i].orig = work[i].orig
  <2>1. ASSUME NEW ids
        PROVE  /\ DOMAIN Told(work, ids) = DOMAIN work
               /\ \A i \in DOMAIN work :
                    /\ Told(work, ids)[i] \in Job
                    /\ Told(work, ids)[i].asker = work[i].asker
                    /\ Told(work, ids)[i].orig = work[i].orig
    <3>1. ASSUME NEW i \in DOMAIN work
          PROVE  /\ [work[i] EXCEPT !.told = @ \/ i \in ids] \in Job
                 /\ [work[i] EXCEPT !.told = @ \/ i \in ids].asker = work[i].asker
                 /\ [work[i] EXCEPT !.told = @ \/ i \in ids].orig = work[i].orig
      BY DEF IInv, TypeOK, ProcessTypeOK, Job
    <3> QED
      BY <3>1 DEF Told
  <2>2. \A i \in DOMAIN work : work[i] \in Job
    BY DEF IInv, TypeOK, ProcessTypeOK
  <2> QED
    BY <2>1, <2>2
<1> HIDE DEF w, l
<1>1. TablesTypeOK' /\ GoroutinesTypeOK'
  BY <1>a DEF IInv, TypeOK, TablesTypeOK, GoroutinesTypeOK
<1>2. ProcessTypeOK'
  <2>1. [kind |-> l.kind, told |-> FALSE, first |-> first, left |-> l.turns,
         asker |-> l.asker, orig |-> l.orig] \in Job
    BY <1>c DEF Line, Job
  <2>2. l.id \in 1..seq
    BY <1>c DEF Fits
  <2> QED
    BY <1>a, <1>b, <1>d, <1>e, <2>1, <2>2 DEF IInv, TypeOK, ProcessTypeOK, Put
<1>3. LineInv' /\ TablesAgree' /\ RepliesGoHome'
  BY <1>a DEF IInv, LineInv, TablesAgree, RepliesGoHome, Over
<1>4. HomeInv'
  <2>1. \A i, asker, orig : Fits(i, asker, orig) => Fits(i, asker, orig)'
    BY <1>a DEF Fits
  <2>2. \A i \in DOMAIN work' : Fits(i, work[i].asker, work[i].orig)'
    BY <1>b, <1>c, <1>e, <2>1 DEF IInv, HomeInv, Put
  <2>3. \A i \in 1..Len(pipe') : Fits(pipe[i].id, pipe[i].asker, pipe[i].orig)'
    BY <1>a, <1>d, <2>1 DEF IInv, HomeInv
  <2> QED
    BY <1>a, <2>1, <2>2, <2>3 DEF IInv, HomeInv
<1> QED
  BY <1>1, <1>2, <1>3, <1>4 DEF IInv, TypeOK

\* The process ends, and Shutdown kills it or finds it ended: the pipe and
\* the work may be gone, the rest does not depend on it.
LEMMA ProcessEndsIInv ==
  ASSUME IInv, Exit \/ Reap \/ StdoutEnds \/ ShutdownKill \/ ShutdownReturn
  PROVE  IInv'
<1>a. /\ UNCHANGED <<routes, byUser, seq, pc, todo, line, writeMu, stdinOpen,
                     reply>>
      /\ pipe' = <<>> \/ pipe' = pipe
      /\ work' = EmptyMap \/ work' = work
      /\ katago' \in {katago, "exited", "reaped"}
  BY DEF Exit, Reap, StdoutEnds, ShutdownKill, ShutdownReturn, tables, callers,
         process
<1>b. \/ shutdown' = shutdown
      \/ shutdown # "terminating" /\ shutdown' \in {"killed", "returned"}
  BY DEF Exit, Reap, StdoutEnds, ShutdownKill, ShutdownReturn
<1>1. TablesTypeOK' /\ GoroutinesTypeOK'
  BY <1>a, <1>b DEF IInv, TypeOK, TablesTypeOK, GoroutinesTypeOK
<1>2. ProcessTypeOK'
  BY <1>a, EmptySeq DEF IInv, TypeOK, ProcessTypeOK, EmptyMap
<1>3. LineInv'
  BY <1>a, <1>b DEF IInv, LineInv
<1>4. TablesAgree' /\ RepliesGoHome'
  BY <1>a DEF IInv, TablesAgree, RepliesGoHome, Over
<1>5. HomeInv'
  BY <1>a DEF IInv, HomeInv, Fits, EmptyMap
<1> QED
  BY <1>1, <1>2, <1>3, <1>4, <1>5 DEF IInv, TypeOK

\* The terminate_all of Shutdown goes out under a fresh id of no query.
LEMMA ShutdownBeginIInv == IInv /\ ShutdownBegin => IInv'
<1> SUFFICES ASSUME IInv, ShutdownBegin PROVE IInv'
  OBVIOUS
<1>a. /\ shutdown = "none" /\ shutdown' = "terminating"
      /\ line' = [line EXCEPT ![Main] = ActionLine("terminate_all", 0)]
      /\ seq' = seq + 1
      /\ UNCHANGED <<routes, byUser, pc, todo, writeMu, stdinOpen, reply, pipe,
                     katago, work>>
  BY DEF ShutdownBegin, callers, process
<1>b. line[Main] = None
  BY <1>a DEF IInv, LineInv
<1>1. /\ TablesTypeOK' /\ ProcessTypeOK' /\ HomeInv'
      /\ line' \in [Goroutine -> Line \cup {None}] /\ line'[Main] # None
      /\ 1..seq \subseteq 1..seq'
  BY <1>a, <1>b, ActionLineIInv DEF Goroutine, Kind
<1>2. GoroutinesTypeOK'
  BY <1>a, <1>1 DEF IInv, TypeOK, GoroutinesTypeOK
<1>3. LineInv'
  BY <1>a, <1>1, EngineAssumption
     DEF IInv, TypeOK, GoroutinesTypeOK, LineInv, Goroutine
<1>4. TablesAgree' /\ RepliesGoHome'
  BY <1>a DEF IInv, TablesAgree, RepliesGoHome, Over
<1> QED
  BY <1>1, <1>2, <1>3, <1>4 DEF IInv, TypeOK

\* Closing stdin touches no table.
LEMMA ShutdownCloseIInv == IInv /\ ShutdownClose => IInv'
<1> SUFFICES ASSUME IInv, ShutdownClose PROVE IInv'
  OBVIOUS
<1>a. /\ shutdown = "closing" /\ shutdown' = "waiting" /\ stdinOpen' = FALSE
      /\ UNCHANGED <<routes, byUser, seq, pc, todo, line, writeMu, reply, pipe,
                     katago, work>>
  BY DEF ShutdownClose, tables, callers, process
<1>1. TypeOK'
  BY <1>a DEF IInv, TypeOK, TablesTypeOK, GoroutinesTypeOK, ProcessTypeOK
<1>2. LineInv'
  BY <1>a DEF IInv, LineInv
<1>3. TablesAgree' /\ HomeInv' /\ RepliesGoHome'
  BY <1>a DEF IInv, TablesAgree, HomeInv, RepliesGoHome, Over, Fits
<1> QED
  BY <1>1, <1>2, <1>3 DEF IInv

-----------------------------------------------------------------------------
(* The step and the theorems.                                              *)

\* Every step of Submit keeps the invariant.
LEMMA SubmitIInv ==
  ASSUME IInv, NEW s \in Session, Submit(s)
  PROVE  IInv'
<1>1. CASE SubmitRefused(s) \/ RefusalSent(s)
  BY <1>1, RefusalIInv
<1>2. CASE RemoveRoute(s)
  BY <1>2, RemoveRouteIInv
<1>3. ASSUME NEW o \in ClientId, SubmitBadTerminate(s, o) PROVE IInv'
  BY <1>3, SubmitBadTerminateIInv
<1>4. ASSUME NEW o \in ClientId, SubmitAnalysis(s, o) PROVE IInv'
  BY <1>4, RegisterIInv, EngineAssumption DEF SubmitAnalysis, Kind
<1>5. ASSUME NEW o \in ClientId, SubmitTerminate(s, o) PROVE IInv'
  <2>1. PICK q \in DOMAIN UserRoutes(s) :
          Register(s, o, "terminate", 1, UserRoutes(s)[q])
    BY <1>5 DEF SubmitTerminate
  <2>2. UserRoutes(s)[q] \in Nat
    BY DEF IInv, TypeOK, TablesTypeOK, UserRoutes, EmptyMap
  <2> QED
    BY <2>1, <2>2, RegisterIInv DEF Kind
<1>6. ASSUME NEW o \in ClientId, SubmitAction(s, o) PROVE IInv'
  BY <1>6, RegisterIInv DEF SubmitAction, Kind
<1> QED
  BY <1>1, <1>2, <1>3, <1>4, <1>5, <1>6 DEF Submit

\* Every step keeps the invariant.
LEMMA NextIInv == IInv /\ [Next]_vars => IInv'
<1> SUFFICES ASSUME IInv, [Next]_vars PROVE IInv'
  OBVIOUS
<1>1. CASE UNCHANGED vars
  BY <1>1 DEF vars, IInv, TypeOK, TablesTypeOK, GoroutinesTypeOK, ProcessTypeOK,
              LineInv, TablesAgree, HomeInv, RepliesGoHome, Over, Fits
<1>2. ASSUME NEW s \in Session, Submit(s) \/ Cancel(s) PROVE IInv'
  BY <1>2, SubmitIInv, CancelSessionIInv, CancelNextIInv, CancelReturnsIInv
     DEF Cancel
<1>3. ASSUME NEW g \in Goroutine, WriteJSON(g) PROVE IInv'
  BY <1>3, LockIInv, WriteIInv, WriteFailsIInv DEF WriteJSON
<1>4. ASSUME NEW id \in DOMAIN work, KataGoPrints(id) PROVE IInv'
  BY <1>4, KataGoPrintsIInv
<1>5. CASE DispatchSent \/ ReadLine \/ Exit \/ Reap \/ StdoutEnds
  BY <1>5, DispatchSentIInv, ReadLineIInv, ProcessEndsIInv
<1>6. CASE Shutdown
  BY <1>6, ShutdownBeginIInv, ShutdownCloseIInv, ProcessEndsIInv DEF Shutdown
<1>7. CASE Finished
  BY <1>1, <1>7 DEF Finished
<1> QED
  BY <1>1, <1>2, <1>3, <1>4, <1>5, <1>6, <1>7 DEF Next

\* The inductive invariant holds in every reachable state.
THEOREM Invariant == Spec => []IInv
BY InitIInv, NextIInv, PTL DEF Spec

\* Type correctness of the engine's tables, goroutines and process.
THEOREM TypeCorrect == Spec => []TypeOK
<1>1. IInv => TypeOK
  BY DEF IInv
<1> QED
  BY <1>1, Invariant, PTL

\* routes and byUser stay inverse to each other, and a session whose
\* CancelSession has begun is in neither, in every interleaving.
THEOREM TablesStayInverse == Spec => []TablesAgree
<1>1. IInv => TablesAgree
  BY DEF IInv
<1> QED
  BY <1>1, Invariant, PTL

\* No reply goes to a session, or under a client id, that did not ask for it.
THEOREM SessionsAreIsolated == Spec => []RepliesGoHome
<1>1. IInv => RepliesGoHome
  BY DEF IInv
<1> QED
  BY <1>1, Invariant, PTL

-----------------------------------------------------------------------------
(* Whose work a terminate stops: how a query travels, from a goroutine's   *)
(* line to the pipe to KataGo.                                             *)

\* A line is new, under a fresh id, or was there before; what is in the pipe
\* was there before or was somebody's line; what KataGo works on it did so
\* before or has just read.
Travel ==
  /\ seq <= seq' /\ seq' \in Nat
  /\ \A g \in Goroutine :
       line'[g] # None =>
         \/ line'[g] = line[g]
         \/ line'[g].id = seq + 1 /\ line[g] = None
  /\ \A i \in 1..Len(pipe') :
       \/ \E j \in 1..Len(pipe) : pipe'[i] = pipe[j]
       \/ \E g \in Goroutine : line[g] # None /\ pipe'[i] = line[g]
  /\ \A id \in DOMAIN work' :
       \/ id \in DOMAIN work /\ work'[id].asker = work[id].asker
       \/ \E j \in 1..Len(pipe) : pipe[j].id = id
                                  /\ work'[id].asker = pipe[j].asker

\* The part of Travel that concerns pipe and work, for steps that touch
\* neither.
LEMMA StillTravels ==
  ASSUME IInv, UNCHANGED <<pipe, work>>, seq' = seq \/ seq' = seq + 1,
         \A g \in Goroutine : line'[g] # None =>
           \/ line'[g] = line[g]
           \/ line'[g].id = seq + 1 /\ line[g] = None
  PROVE  Travel
BY DEF IInv, TypeOK, TablesTypeOK, Travel

\* Submit, but for its write.
LEMMA SubmitTravels ==
  ASSUME IInv, NEW s \in Session, Submit(s)
  PROVE  Travel
<1>0. GoroutinesTypeOK /\ LineInv
  BY DEF IInv, TypeOK
<1>1. ASSUME NEW o, NEW kind, NEW turns, NEW target,
             Register(s, o, kind, turns, target)
      PROVE  Travel
  <2>1. /\ pc[s] = "idle" /\ seq' = seq + 1
        /\ UNCHANGED <<pipe, work>>
        /\ \A g \in Goroutine \ {s} : line'[g] = line[g]
        /\ line'[s].id = seq + 1
    BY <1>0, <1>1 DEF Register, process, GoroutinesTypeOK, Goroutine
  <2>2. line[s] = None
    BY <1>0, <2>1 DEF LineInv
  <2> QED
    BY <2>1, <2>2, StillTravels
<1>2. CASE SubmitRefused(s) \/ RefusalSent(s)
  BY <1>2, StillTravels DEF SubmitRefused, RefusalSent, tables, process
<1>3. CASE RemoveRoute(s)
  <2>1. \A g \in Goroutine : line'[g] # None => line'[g] = line[g]
    BY <1>0, <1>3 DEF RemoveRoute, GoroutinesTypeOK
  <2> QED
    BY <1>3, <2>1, StillTravels DEF RemoveRoute, process
<1>4. ASSUME NEW o, SubmitBadTerminate(s, o) PROVE Travel
  BY <1>4, StillTravels DEF SubmitBadTerminate, process
<1> QED
  BY <1>1, <1>2, <1>3, <1>4 DEF Submit, SubmitAnalysis, SubmitTerminate,
                                SubmitAction

\* CancelSession, but for its writes.
LEMMA CancelTravels ==
  ASSUME IInv, NEW s \in Session, Cancel(s)
  PROVE  Travel
<1>0. GoroutinesTypeOK
  BY DEF IInv, TypeOK
<1>1. CASE CancelSession(s) \/ CancelReturns(s)
  BY <1>1, StillTravels DEF CancelSession, CancelReturns, process, tables
<1>2. CASE CancelNext(s)
  <2>1. /\ line[s] = None /\ seq' = seq + 1
        /\ \A g \in Goroutine \ {s} : line'[g] = line[g]
        /\ line'[s].id = seq + 1
        /\ UNCHANGED <<pipe, work>>
    BY <1>0, <1>2 DEF CancelNext, ActionLine, process, GoroutinesTypeOK,
                      Goroutine
  <2> QED
    BY <2>1, StillTravels
<1> QED
  BY <1>1, <1>2 DEF Cancel

\* A write that succeeds moves the line into the pipe; one that fails leaves
\* it where it is or drops it.
LEMMA WriteTravels ==
  ASSUME IInv, NEW g \in Goroutine, WriteJSON(g)
  PROVE  Travel
<1>0. GoroutinesTypeOK /\ ProcessTypeOK /\ LineInv /\ seq \in Nat
  BY DEF IInv, TypeOK, TablesTypeOK
<1>1. CASE Lock(g)
  BY <1>1, StillTravels DEF Lock, tables, process
<1>2. ASSUME NEW ok \in BOOLEAN, Return(g, ok)
      PROVE  \A h \in Goroutine : line'[h] # None => line'[h] = line[h]
  BY <1>0, <1>2 DEF Return, GoroutinesTypeOK
<1>3. CASE WriteFails(g)
  BY <1>2, <1>3, StillTravels DEF WriteFails, tables, process
<1>4. CASE Write(g)
  <2>1. /\ line[g] # None /\ line[g] \in Line
        /\ pipe' = Append(pipe, line[g]) /\ pipe \in Seq(Line)
        /\ UNCHANGED <<seq, work>>
    BY <1>0, <1>4, EngineAssumption
       DEF Write, LineInv, GoroutinesTypeOK, ProcessTypeOK, Goroutine, tables
  <2>2. \A i \in 1..Len(pipe') :
          \/ pipe'[i] = line[g]
          \/ i \in 1..Len(pipe) /\ pipe'[i] = pipe[i]
    BY <2>1
  <2>3. \A h \in Goroutine : line'[h] # None => line'[h] = line[h]
    BY <1>2, <1>4 DEF Write
  <2> QED
    BY <1>0, <2>1, <2>2, <2>3 DEF Travel
<1> QED
  BY <1>1, <1>3, <1>4 DEF WriteJSON

\* Printing finishes work and begins none.
LEMMA KataGoPrintsTravels ==
  ASSUME IInv, NEW id \in DOMAIN work, KataGoPrints(id)
  PROVE  Travel
<1>0. ProcessTypeOK /\ seq \in Nat
  BY DEF IInv, TypeOK, TablesTypeOK
<1>1. UNCHANGED <<seq, line, pipe>>
  BY DEF KataGoPrints, PrintDuring, PrintFinal, PrintError, PrintWarning,
         Dispatch
<1>2. \A i \in DOMAIN work' :
        i \in DOMAIN work /\ work'[i].asker = work[i].asker
  <2>1. work[id] \in Job
    BY <1>0 DEF ProcessTypeOK
  <2>2. CASE work' = Delete(work, {id}) \/ work' = work
    BY <2>2 DEF Delete, Restrict
  <2>3. CASE \/ work' = [work EXCEPT ![id].left = @ - 1]
             \/ work' = [work EXCEPT ![id].first = "result"]
    BY <2>1, <2>3 DEF Job
  <2> QED
    BY <2>2, <2>3 DEF KataGoPrints, PrintDuring, PrintFinal, PrintError,
                      PrintWarning
<1> QED
  BY <1>0, <1>1, <1>2 DEF Travel

\* Reading takes the first line of the pipe to KataGo.
LEMMA ReadLineTravels == IInv /\ ReadLine => Travel
<1> SUFFICES ASSUME IInv, ReadLine PROVE Travel
  OBVIOUS
<1>0. pipe \in Seq(Line) /\ seq \in Nat
  BY DEF IInv, TypeOK, TablesTypeOK, ProcessTypeOK
<1>1. /\ pipe # <<>> /\ pipe' = Tail(pipe)
      /\ UNCHANGED <<seq, line>>
  BY DEF ReadLine, tables
<1>2. /\ 1 \in 1..Len(pipe) /\ Head(pipe) = pipe[1]
      /\ \A i \in 1..Len(pipe') : i + 1 \in 1..Len(pipe)
                                  /\ pipe'[i] = pipe[i + 1]
  BY <1>0, <1>1
<1>3. \A i \in DOMAIN work' :
        \/ i = Head(pipe).id /\ work'[i].asker = Head(pipe).asker
        \/ i \in DOMAIN work /\ work'[i].asker = work[i].asker
  BY DEF ReadLine, Put, Told
<1> QED
  BY <1>0, <1>1, <1>2, <1>3 DEF Travel

\* Every step of the engine.
LEMMA NextTravels == IInv /\ [Next]_vars => Travel
<1> SUFFICES ASSUME IInv, [Next]_vars PROVE Travel
  OBVIOUS
<1>1. CASE UNCHANGED vars
  BY <1>1, StillTravels DEF vars
<1>2. CASE DispatchSent
  BY <1>2, StillTravels DEF DispatchSent, tables, process
<1>3. CASE Exit \/ Reap \/ StdoutEnds
  <2>0. ProcessTypeOK /\ seq \in Nat
    BY DEF IInv, TypeOK, TablesTypeOK
  <2>1. /\ UNCHANGED <<seq, line>>
        /\ pipe' = pipe \/ pipe' = <<>>
        /\ work' = work \/ work' = EmptyMap
    BY <1>3 DEF Exit, Reap, StdoutEnds, tables
  <2>2. DOMAIN EmptyMap = {}
    BY DEF EmptyMap
  <2> QED
    BY <2>0, <2>1, <2>2 DEF Travel
<1>4. CASE ShutdownBegin
  <2>1. /\ line[Main] = None /\ seq' = seq + 1
        /\ \A g \in Goroutine \ {Main} : line'[g] = line[g]
        /\ line'[Main].id = seq + 1
        /\ UNCHANGED <<pipe, work>>
    BY <1>4 DEF ShutdownBegin, ActionLine, process, IInv, LineInv, TypeOK,
                GoroutinesTypeOK, Goroutine
  <2> QED
    BY <2>1, StillTravels
<1>5. CASE ShutdownClose \/ ShutdownReturn
  BY <1>5, StillTravels DEF ShutdownClose, ShutdownReturn, tables, process
<1>6. CASE ShutdownKill
  <2>0. ProcessTypeOK /\ seq \in Nat
    BY DEF IInv, TypeOK, TablesTypeOK
  <2>1. UNCHANGED <<seq, line, work>> /\ (pipe' = pipe \/ pipe' = <<>>)
    BY <1>6 DEF ShutdownKill, tables
  <2> QED
    BY <2>0, <2>1 DEF Travel
<1> QED
  BY <1>1, <1>2, <1>3, <1>4, <1>5, <1>6, SubmitTravels, CancelTravels,
     WriteTravels, KataGoPrintsTravels, ReadLineTravels
     DEF Next, Shutdown, Finished

-----------------------------------------------------------------------------
(* Whose query an internal id is.                                          *)

\* Wherever the id t occurs, it is that of a query of session a.
Owned(t, a) ==
  /\ t \in 1..seq
  /\ \A g \in Goroutine : line[g] # None /\ line[g].id = t => line[g].asker = a
  /\ \A i \in 1..Len(pipe) : pipe[i].id = t => pipe[i].asker = a
  /\ \A id \in DOMAIN work : id = t => work[id].asker = a

\* An id keeps its owner.
LEMMA OwnedStable ==
  ASSUME IInv, [Next]_vars, NEW t, NEW a, Owned(t, a)
  PROVE  Owned(t, a)'
<1>0. Travel /\ seq \in Nat
  BY NextTravels DEF IInv, TypeOK, TablesTypeOK
<1>1. (t \in 1..seq)' /\ t # seq + 1
  BY <1>0 DEF Owned, Travel
<1>2. ASSUME NEW g \in Goroutine, line'[g] # None, line'[g].id = t
      PROVE  line'[g].asker = a
  BY <1>0, <1>1, <1>2 DEF Owned, Travel
<1>3. ASSUME NEW i \in 1..Len(pipe'), pipe'[i].id = t
      PROVE  pipe'[i].asker = a
  BY <1>0, <1>3 DEF Owned, Travel
<1>4. ASSUME NEW id \in DOMAIN work', id = t
      PROVE  work'[id].asker = a
  BY <1>0, <1>4 DEF Owned, Travel
<1> QED
  BY <1>1, <1>2, <1>3, <1>4 DEF Owned

\* The session of a route owns its id.
LEMMA RoutesAreOwned ==
  ASSUME IInv, NEW id \in DOMAIN routes
  PROVE  Owned(id, routes[id].session)
<1>1. id \in 1..seq
  BY DEF IInv, TypeOK, TablesTypeOK
<1> QED
  BY <1>1 DEF Owned, IInv, HomeInv, Fits

\* A session that is over stays over.
LEMMA OverStable ==
  ASSUME IInv, [Next]_vars, NEW s \in Session, Over(s)
  PROVE  Over(s)'
<1>0. GoroutinesTypeOK /\ LineInv
  BY DEF IInv, TypeOK
<1>1. CASE UNCHANGED vars
  BY <1>1 DEF vars, Over
<1>2. ASSUME NEW t \in Session, Submit(t) PROVE Over(s)'
  <2>1. pc[t] \in {"idle", "refusing", "unrouting"}
        /\ \E p : pc' = [pc EXCEPT ![t] = p]
    BY <1>2 DEF Submit, SubmitRefused, RefusalSent, RemoveRoute,
                SubmitBadTerminate, SubmitAnalysis, SubmitTerminate,
                SubmitAction, Register
  <2> QED
    BY <1>0, <2>1 DEF Over, GoroutinesTypeOK
<1>3. ASSUME NEW t \in Session, Cancel(t) PROVE Over(s)'
  BY <1>0, <1>3 DEF Cancel, CancelSession, CancelNext, CancelReturns, Over,
                    GoroutinesTypeOK
<1>4. ASSUME NEW g \in Goroutine, WriteJSON(g) PROVE Over(s)'
  <2>1. ASSUME NEW ok \in BOOLEAN, Return(g, ok) PROVE Over(s)'
    BY <1>0, <2>1 DEF Return, Over, GoroutinesTypeOK
  <2> QED
    BY <1>4, <2>1 DEF WriteJSON, Lock, Write, WriteFails, callers, Over
<1>5. ASSUME NEW id, NEW said, Dispatch(id, said) PROVE Over(s)'
  BY <1>5 DEF Dispatch, callers, Over
<1>6. ASSUME NEW id \in DOMAIN work, KataGoPrints(id) PROVE Over(s)'
  BY <1>5, <1>6 DEF KataGoPrints, PrintDuring, PrintFinal, PrintError,
                    PrintWarning
<1>7. CASE DispatchSent \/ ReadLine \/ Exit \/ Reap \/ StdoutEnds
  BY <1>7 DEF DispatchSent, ReadLine, Exit, Reap, StdoutEnds, callers, Over
<1>8. CASE Shutdown
  BY <1>8 DEF Shutdown, ShutdownBegin, ShutdownClose, ShutdownKill,
              ShutdownReturn, callers, Over
<1> QED
  BY <1>1, <1>2, <1>3, <1>4, <1>6, <1>7, <1>8 DEF Next, Finished

-----------------------------------------------------------------------------
(* What a terminate names.                                                 *)

\* A terminate names a query of the session that asked for it, or, sent by
\* CancelSession, of a session that is over.
Names(l) ==
  l.kind = "terminate" =>
    \E a \in Session :
      /\ Owned(l.target, a)
      /\ l.asker = a \/ (l.asker = None /\ Over(a))

TermInv ==
  /\ \A g \in Goroutine : line[g] # None => Names(line[g])
  /\ \A i \in 1..Len(pipe) : Names(pipe[i])
  /\ \A s \in Session : \A t \in todo[s] : Owned(t, s) /\ Over(s)

\* What a line names does not change under way.
LEMMA NamesStable ==
  ASSUME IInv, [Next]_vars, NEW l, Names(l)
  PROVE  l.kind = "terminate" =>
           \E a \in Session :
             /\ Owned(l.target, a)'
             /\ l.asker = a \/ (l.asker = None /\ Over(a)')
<1> SUFFICES ASSUME l.kind = "terminate"
             PROVE  \E a \in Session :
                      /\ Owned(l.target, a)'
                      /\ l.asker = a \/ (l.asker = None /\ Over(a)')
  OBVIOUS
<1>1. PICK a \in Session : /\ Owned(l.target, a)
                           /\ l.asker = a \/ (l.asker = None /\ Over(a))
  BY DEF Names
<1>2. Owned(l.target, a)'
  BY <1>1, OwnedStable
<1>3. Over(a) => Over(a)'
  BY OverStable
<1> QED
  BY <1>1, <1>2, <1>3

\* There is nothing to terminate at first.
LEMMA InitTermInv == Init => TermInv
BY EngineAssumption DEF Init, TermInv, Goroutine

\* A line that appears names a query of its session or none, and so does a
\* query that CancelSession still has to terminate.
Fresh ==
  /\ \A g \in Goroutine :
       line'[g] # None => line'[g] = line[g] \/ Names(line[g])'
  /\ \A s \in Session : \A t \in todo'[s] :
       t \in todo[s] \/ (Owned(t, s) /\ Over(s)')

\* Most steps bring up no line.
LEMMA NothingFresh ==
  ASSUME todo' = todo,
         \A g \in Goroutine : line'[g] # None => line'[g] = line[g]
  PROVE  Fresh
BY DEF Fresh

\* A terminate of a session's own names a query of its own.
LEMMA RegisterFresh ==
  ASSUME IInv, [Next]_vars, NEW s \in Session, NEW o, NEW kind, NEW turns,
         NEW target, Register(s, o, kind, turns, target),
         kind = "terminate" =>
           \E q \in DOMAIN UserRoutes(s) : target = UserRoutes(s)[q]
  PROVE  Fresh
<1>0. GoroutinesTypeOK
  BY DEF IInv, TypeOK
<1>1. /\ todo' = todo
      /\ \A g \in Goroutine \ {s} : line'[g] = line[g]
      /\ line'[s].kind = kind /\ line'[s].target = target
      /\ line'[s].asker = s
  BY <1>0 DEF Register, GoroutinesTypeOK, Goroutine
<1>2. ASSUME kind = "terminate" PROVE Owned(target, s)'
  <2>1. PICK q \in DOMAIN UserRoutes(s) : target = UserRoutes(s)[q]
    BY <1>2
  <2>2. s \in DOMAIN byUser /\ q \in DOMAIN byUser[s] /\ target = byUser[s][q]
    BY <2>1 DEF UserRoutes, EmptyMap
  <2>3. target \in DOMAIN routes /\ routes[target].session = s
    BY <2>2 DEF IInv, TablesAgree
  <2> QED
    BY <2>3, RoutesAreOwned, OwnedStable
<1>3. Names(line[s])'
  BY <1>1, <1>2 DEF Names
<1> QED
  BY <1>1, <1>3 DEF Fresh

\* So do the terminates of CancelSession.
LEMMA CancelFresh ==
  ASSUME IInv, TermInv, [Next]_vars, NEW s \in Session, Cancel(s)
  PROVE  Fresh
<1>0. GoroutinesTypeOK
  BY DEF IInv, TypeOK
<1>1. CASE CancelSession(s)
  <2>1. /\ todo' = [todo EXCEPT ![s] = Analyses(s)]
        /\ pc' = [pc EXCEPT ![s] = "cancelling"]
        /\ line' = line
    BY <1>1 DEF CancelSession
  <2>2. ASSUME NEW t \in Analyses(s) PROVE Owned(t, s)
    <3>1. t \in DOMAIN routes
      BY DEF Analyses
    <3>2. PICK q \in DOMAIN UserRoutes(s) : t = UserRoutes(s)[q]
      BY DEF Analyses
    <3>3. s \in DOMAIN byUser /\ q \in DOMAIN byUser[s] /\ t = byUser[s][q]
      BY <3>2 DEF UserRoutes, EmptyMap
    <3>4. routes[t].session = s
      BY <3>3 DEF IInv, TablesAgree
    <3> QED
      BY <3>1, <3>4, RoutesAreOwned
  <2>3. Over(s)'
    BY <1>0, <2>1 DEF Over, GoroutinesTypeOK
  <2>4. todo'[s] = Analyses(s) /\ \A t \in Session \ {s} : todo'[t] = todo[t]
    BY <1>0, <2>1 DEF GoroutinesTypeOK
  <2> QED
    BY <2>1, <2>2, <2>3, <2>4 DEF Fresh
<1>2. CASE CancelNext(s)
  <2>1. PICK t \in todo[s] : /\ line' = [line EXCEPT ![s] =
                                           ActionLine("terminate", t)]
                             /\ todo' = [todo EXCEPT ![s] = @ \ {t}]
    BY <1>2 DEF CancelNext
  <2>2. /\ \A g \in Goroutine \ {s} : line'[g] = line[g]
        /\ line'[s].target = t /\ line'[s].asker = None
    BY <1>0, <2>1 DEF ActionLine, GoroutinesTypeOK, Goroutine
  <2>3. Owned(t, s)' /\ Over(s)'
    BY OwnedStable, OverStable DEF TermInv
  <2>4. Names(line[s])'
    BY <2>2, <2>3 DEF Names
  <2>5. \A u \in Session : todo'[u] \subseteq todo[u]
    BY <1>0, <2>1 DEF GoroutinesTypeOK
  <2> QED
    BY <2>2, <2>4, <2>5 DEF Fresh
<1>3. CASE CancelReturns(s)
  BY <1>3, NothingFresh DEF CancelReturns
<1> QED
  BY <1>1, <1>2, <1>3 DEF Cancel

\* Every step of the engine.
LEMMA NextFresh == IInv /\ TermInv /\ [Next]_vars => Fresh
<1> SUFFICES ASSUME IInv, TermInv, [Next]_vars PROVE Fresh
  OBVIOUS
<1>0. GoroutinesTypeOK
  BY DEF IInv, TypeOK
<1>1. CASE UNCHANGED vars
  BY <1>1, NothingFresh DEF vars
<1>2. ASSUME NEW s \in Session, Submit(s) PROVE Fresh
  <2>1. CASE SubmitRefused(s) \/ RefusalSent(s)
              \/ \E o \in ClientId : SubmitBadTerminate(s, o)
    BY <2>1, NothingFresh DEF SubmitRefused, RefusalSent, SubmitBadTerminate
  <2>2. CASE RemoveRoute(s)
    <3>1. todo' = todo /\ line' = [line EXCEPT ![s] = None]
      BY <2>2 DEF RemoveRoute
    <3> QED
      BY <1>0, <3>1, NothingFresh DEF GoroutinesTypeOK
  <2>3. ASSUME NEW o \in ClientId, SubmitAnalysis(s, o) PROVE Fresh
    BY <2>3, RegisterFresh DEF SubmitAnalysis
  <2>4. ASSUME NEW o \in ClientId, SubmitTerminate(s, o) PROVE Fresh
    BY <2>4, RegisterFresh DEF SubmitTerminate
  <2>5. ASSUME NEW o \in ClientId, SubmitAction(s, o) PROVE Fresh
    BY <2>5, RegisterFresh DEF SubmitAction
  <2> QED
    BY <1>2, <2>1, <2>2, <2>3, <2>4, <2>5 DEF Submit
<1>3. ASSUME NEW g \in Goroutine, WriteJSON(g) PROVE Fresh
  <2>1. ASSUME NEW ok \in BOOLEAN, Return(g, ok), todo' = todo PROVE Fresh
    <3>1. \A h \in Goroutine : line'[h] # None => line'[h] = line[h]
      BY <1>0, <2>1 DEF Return, GoroutinesTypeOK
    <3> QED
      BY <2>1, <3>1, NothingFresh
  <2>2. CASE Lock(g)
    BY <2>2, NothingFresh DEF Lock, callers
  <2> QED
    BY <1>3, <2>1, <2>2 DEF WriteJSON, Write, WriteFails
<1>4. ASSUME NEW id, NEW said, Dispatch(id, said) PROVE Fresh
  BY <1>4, NothingFresh DEF Dispatch, callers
<1>5. ASSUME NEW id \in DOMAIN work, KataGoPrints(id) PROVE Fresh
  BY <1>4, <1>5 DEF KataGoPrints, PrintDuring, PrintFinal, PrintError,
                    PrintWarning
<1>6. CASE DispatchSent \/ ReadLine \/ Exit \/ Reap \/ StdoutEnds
  BY <1>6, NothingFresh DEF DispatchSent, ReadLine, Exit, Reap, StdoutEnds,
                             callers
<1>7. CASE ShutdownBegin
  <2>1. /\ todo' = todo
        /\ \A g \in Goroutine \ {Main} : line'[g] = line[g]
        /\ line'[Main].kind = "terminate_all"
    BY <1>0, <1>7 DEF ShutdownBegin, ActionLine, callers, GoroutinesTypeOK,
                      Goroutine
  <2>2. Names(line[Main])'
    BY <2>1 DEF Names
  <2> QED
    BY <2>1, <2>2 DEF Fresh
<1>8. CASE ShutdownClose \/ ShutdownKill \/ ShutdownReturn
  BY <1>8, NothingFresh DEF ShutdownClose, ShutdownKill, ShutdownReturn, callers
<1> QED
  BY <1>1, <1>2, <1>3, <1>5, <1>6, <1>7, <1>8, CancelFresh
     DEF Next, Shutdown, Finished

\* Every step keeps what the terminates name.
LEMMA NextTermInv == IInv /\ TermInv /\ [Next]_vars => TermInv'
<1> SUFFICES ASSUME IInv, TermInv, [Next]_vars PROVE TermInv'
  OBVIOUS
<1>0. Travel /\ Fresh
  BY NextTravels, NextFresh
<1>1. ASSUME NEW g \in Goroutine, line'[g] # None PROVE Names(line[g])'
  <2>1. CASE line'[g] = line[g]
    <3>1. Names(line[g])
      BY <1>1, <2>1 DEF TermInv
    <3> QED
      BY <2>1, <3>1, NamesStable DEF Names
  <2> QED
    BY <1>0, <1>1, <2>1 DEF Fresh
<1>2. ASSUME NEW i \in 1..Len(pipe') PROVE Names(pipe[i])'
  <2>1. PICK l : pipe'[i] = l /\ Names(l)
    BY <1>0, <1>2 DEF Travel, TermInv
  <2> QED
    BY <2>1, NamesStable DEF Names
<1>3. ASSUME NEW s \in Session, NEW t \in todo'[s]
      PROVE  Owned(t, s)' /\ Over(s)'
  BY <1>0, OwnedStable, OverStable DEF Fresh, TermInv
<1> QED
  BY <1>1, <1>2, <1>3 DEF TermInv

\* A terminate stops a query of the session that sent it or, sent by
\* CancelSession, of a session that is over, for any number of sessions.
THEOREM TerminatesStayHome == Spec => StopsOwnWorkOnly
<1> DEFINE Stop(id) == \/ Head(pipe).kind = "terminate_all"
                       \/ Head(pipe).asker = work[id].asker
                       \/ Head(pipe).asker = None /\ Over(work[id].asker)
<1>1. IInv /\ TermInv /\ [Next]_vars =>
        [\A id \in DOMAIN work \cap DOMAIN work' :
           work'[id].told /\ ~work[id].told => Stop(id)]_vars
  <2> SUFFICES ASSUME IInv, TermInv, Next,
                      NEW id \in DOMAIN work \cap DOMAIN work',
                      work'[id].told, ~work[id].told
               PROVE  Stop(id)
    OBVIOUS
  <2> HIDE DEF Stop
  <2>0. /\ pipe \in Seq(Line) /\ work[id] \in Job
        /\ \A i \in DOMAIN work : work[i] \in Job
    BY DEF IInv, TypeOK, ProcessTypeOK
  <2>1. CASE work' = work
    BY <2>1
  <2>2. ASSUME NEW i \in DOMAIN work, KataGoPrints(i) PROVE FALSE
    <3>1. CASE work' = work \/ work' = Delete(work, {i})
      BY <3>1 DEF Delete, Restrict
    <3>2. CASE work' = [work EXCEPT ![i].left = @ - 1]
      BY <2>0, <3>2 DEF Job
    <3>3. CASE work' = [work EXCEPT ![i].first = "result"]
      BY <2>0, <3>3 DEF Job
    <3> QED
      BY <2>2, <3>1, <3>2, <3>3 DEF KataGoPrints, PrintDuring, PrintFinal,
                              PrintError, PrintWarning
  <2>3. CASE ReadLine
    <3> DEFINE l == Head(pipe)
    <3>1. l = pipe[1] /\ 1 \in 1..Len(pipe)
      BY <2>0, <2>3 DEF ReadLine
    <3>2. Names(l)
      BY <3>1 DEF TermInv
    <3>3. l.kind = "terminate_all" \/ (l.kind = "terminate" /\ id = l.target)
      <4> HIDE DEF l
      <4>1. CASE l.kind \notin {"terminate", "terminate_all"}
        BY <2>3, <4>1 DEF ReadLine, Put, l
      <4>2. CASE l.kind = "terminate" /\ id # l.target
        BY <2>0, <2>3, <4>2 DEF ReadLine, Put, Told, Job, l
      <4> QED
        BY <4>1, <4>2
    <3> QED
      BY <3>2, <3>3 DEF Names, Owned, Stop
  <2>4. CASE StdoutEnds
    BY <2>4 DEF StdoutEnds, EmptyMap
  <2>5. ASSUME NEW s \in Session, Submit(s) PROVE work' = work
    BY <2>5 DEF Submit, SubmitRefused, RefusalSent, RemoveRoute,
                SubmitBadTerminate, SubmitAnalysis, SubmitTerminate,
                SubmitAction, Register, process
  <2>6. ASSUME NEW s \in Session, Cancel(s) PROVE work' = work
    BY <2>6 DEF Cancel, CancelSession, CancelNext, CancelReturns, process
  <2>7. ASSUME NEW g \in Goroutine, WriteJSON(g) PROVE work' = work
    BY <2>7 DEF WriteJSON, Lock, Write, WriteFails, process
  <2>8. CASE DispatchSent \/ Exit \/ Reap \/ Shutdown \/ Finished
    BY <2>1, <2>8 DEF DispatchSent, Exit, Reap, Shutdown, ShutdownBegin,
                      ShutdownClose, ShutdownKill, ShutdownReturn, Finished,
                      vars, process
  <2> QED
    BY <2>1, <2>2, <2>3, <2>4, <2>5, <2>6, <2>7, <2>8 DEF Next
<1> QED
  BY <1>1, Invariant, InitTermInv, NextTermInv, PTL DEF Spec, StopsOwnWorkOnly
=============================================================================
