------------------------- MODULE EngineCountProofs --------------------------
(***************************************************************************)
(* Proofs that remainingFinals is never too high (no route outlives its    *)
(* last result), that it is right as long as KataGo sends no warnings (nor *)
(* is a route gone before its last result), and that CancelSession then    *)
(* reaches everything its session began.                                   *)
(***************************************************************************)
EXTENDS EngineProofs

-----------------------------------------------------------------------------
(* The inductive invariant.                                                *)

\* An internal id is in one place: in one goroutine's line, at one place of
\* the pipe, or with KataGo.
UniqueInv ==
  /\ \A g, h \in Goroutine :
       line[g] # None /\ line[h] # None /\ g # h => line[g].id # line[h].id
  /\ \A g \in Goroutine : line[g] # None =>
       /\ line[g].id \notin DOMAIN work
       /\ \A i \in 1..Len(pipe) : pipe[i].id # line[g].id
  /\ \A i \in 1..Len(pipe) :
       /\ pipe[i].id \notin DOMAIN work
       /\ \A j \in 1..Len(pipe) : i # j => pipe[i].id # pipe[j].id

\* The route of query id of session a, unless a is over, expects no more than
\* n results; and it exists and expects n unless warnings use them up.
Counts(id, kind, n, a) ==
  a \in Session /\ ~Over(a) =>
    /\ id \in DOMAIN routes => /\ routes[id].action = kind
                               /\ routes[id].remaining \in 1..n
    /\ ~Warnings => id \in DOMAIN routes /\ routes[id].remaining = n

\* So it is for every query on its way or at work.
CountInv ==
  /\ \A g \in Goroutine : line[g] # None =>
       Counts(line[g].id, line[g].kind, line[g].turns, line[g].asker)
  /\ \A i \in 1..Len(pipe) :
       Counts(pipe[i].id, pipe[i].kind, pipe[i].turns, pipe[i].asker)
  /\ \A id \in DOMAIN work :
       Counts(id, work[id].kind, work[id].left, work[id].asker)

\* Actions are answered once, and warnings come only where there are some.
OneAnswer ==
  /\ \A g \in Goroutine :
       line[g] # None /\ line[g].kind # "analyze" => line[g].turns = 1
  /\ \A i \in 1..Len(pipe) : pipe[i].kind # "analyze" => pipe[i].turns = 1
  /\ \A id \in DOMAIN work :
       /\ ~Warnings => work[id].first # "warning"
       /\ work[id].kind # "analyze" => work[id].left = 1

\* Every route belongs to a query that is still on its way or at work.
Onward ==
  katago = "running" => \A id \in DOMAIN routes :
    \/ id \in DOMAIN work
    \/ \E i \in 1..Len(pipe) : pipe[i].id = id
    \/ \E s \in Session : /\ pc[s] \in {"submitting", "unrouting"}
                          /\ line[s].id = id

CInv == UniqueInv /\ CountInv /\ OneAnswer /\ Onward

\* There is nothing to count at first.
LEMMA InitCInv == Init => CInv
BY EngineAssumption DEF Init, CInv, UniqueInv, CountInv, OneAnswer, Onward,
                        Goroutine, EmptyMap

-----------------------------------------------------------------------------
(* What the actions share.                                                 *)

\* A count that the step leaves alone, or whose session it ends, stays right.
LEMMA CountsStable ==
  ASSUME IInv, [Next]_vars, NEW id, NEW kind, NEW n, NEW a,
         Counts(id, kind, n, a),
         id \in DOMAIN routes \cup DOMAIN routes' =>
           \/ /\ id \in DOMAIN routes /\ id \in DOMAIN routes'
              /\ routes'[id] = routes[id]
           \/ a \in Session /\ Over(a)'
  PROVE  Counts(id, kind, n, a)'
BY OverStable DEF Counts

\* A query that has a route is one of the session of that route, which lives.
LEMMA RoutesLive ==
  ASSUME IInv, NEW id \in DOMAIN routes, NEW asker, NEW orig,
         Fits(id, asker, orig)
  PROVE  asker \in Session /\ ~Over(asker) /\ routes[id].session = asker
<1>1. routes[id].session = asker
  BY DEF Fits
<1>2. routes[id].session \in DOMAIN byUser
  BY DEF IInv, TablesAgree
<1> QED
  BY <1>1, <1>2 DEF IInv, TypeOK, TablesTypeOK, TablesAgree

\* Steps that only take lines away, and not those that still need a route.
LEMMA LinesShrink ==
  ASSUME IInv, CInv, [Next]_vars, UNCHANGED <<routes, pipe, work, katago>>,
         \A g \in Goroutine : line'[g] # None => line'[g] = line[g],
         \A s \in Session : pc[s] \in {"submitting", "unrouting"} =>
           pc'[s] \in {"submitting", "unrouting"} /\ line'[s] = line[s]
  PROVE  CInv'
<1>1. UniqueInv'
  BY DEF CInv, UniqueInv
<1>2. CountInv'
  <2>1. ASSUME NEW id, NEW kind, NEW n, NEW a, Counts(id, kind, n, a)
        PROVE  Counts(id, kind, n, a)'
    BY <2>1, CountsStable
  <2> QED
    BY <2>1 DEF CInv, CountInv
<1>3. OneAnswer'
  BY DEF CInv, OneAnswer
<1>4. Onward'
  BY DEF CInv, Onward
<1> QED
  BY <1>1, <1>2, <1>3, <1>4 DEF CInv

\* A line with a fresh id is the only one with it.
LEMMA FreshUnique ==
  ASSUME IInv, UniqueInv, NEW g \in Goroutine, NEW l, l.id = seq + 1,
         line' = [line EXCEPT ![g] = l], UNCHANGED <<pipe, work>>
  PROVE  UniqueInv'
<1>0. /\ line'[g] = l /\ \A h \in Goroutine \ {g} : line'[h] = line[h]
      /\ seq \in Nat
  BY DEF IInv, TypeOK, TablesTypeOK, GoroutinesTypeOK
<1>1. /\ \A h \in Goroutine : line[h] # None => line[h].id # seq + 1
      /\ \A i \in 1..Len(pipe) : pipe[i].id # seq + 1
      /\ seq + 1 \notin DOMAIN work
  BY <1>0 DEF IInv, HomeInv, Fits
<1> QED
  BY <1>0, <1>1 DEF UniqueInv

-----------------------------------------------------------------------------
(* Submit and CancelSession, but for their writes.                         *)

\* The route that is entered expects what KataGo will owe.
LEMMA RegisterCInv ==
  ASSUME IInv, CInv, [Next]_vars, NEW s \in Session, NEW o, NEW kind,
         NEW turns \in Nat \ {0}, NEW target,
         Register(s, o, kind, turns, target), kind # "analyze" => turns = 1
  PROVE  CInv'
<1> DEFINE id == seq + 1
<1> DEFINE l == [kind |-> kind, id |-> id, target |-> target,
                 turns |-> turns, asker |-> s, orig |-> o]
<1>0. GoroutinesTypeOK /\ LineInv /\ s \in Goroutine
  BY DEF IInv, TypeOK, Goroutine
<1>1. /\ line' = [line EXCEPT ![s] = l]
      /\ pc[s] = "idle" /\ pc' = [pc EXCEPT ![s] = "submitting"]
      /\ UNCHANGED <<pipe, work, katago>>
  BY DEF Register, process
<1>2. /\ DOMAIN routes' = DOMAIN routes \cup {id}
      /\ \A i \in DOMAIN routes \ {id} : routes'[i] = routes[i]
      /\ routes'[id].action = kind /\ routes'[id].remaining = turns
  BY DEF Register, Put, ExpectedFinals
<1>3. id \notin DOMAIN routes
  BY DEF IInv, TypeOK, TablesTypeOK
<1>4. /\ line'[s] = l /\ l.id = id /\ l.kind = kind /\ l.turns = turns
      /\ l.asker = s /\ line[s] = None
      /\ \A g \in Goroutine \ {s} : line'[g] = line[g]
  BY <1>0, <1>1 DEF GoroutinesTypeOK, LineInv, IInv
<1> HIDE DEF l
<1>5. UniqueInv'
  BY <1>0, <1>1, <1>4, FreshUnique DEF CInv
<1>6. CountInv'
  <2>1. ASSUME NEW i, NEW k, NEW n, NEW a, NEW b,
               Counts(i, k, n, a), Fits(i, a, b)
        PROVE  Counts(i, k, n, a)'
    <3>1. i # id
      BY <2>1 DEF Fits, IInv, TypeOK, TablesTypeOK
    <3> QED
      BY <1>2, <2>1, <3>1, CountsStable
  <2>2. ASSUME NEW g \in Goroutine, line'[g] # None
        PROVE  Counts(line[g].id, line[g].kind, line[g].turns, line[g].asker)'
    <3>1. CASE g = s
      <4>1. ASSUME NEW i, i = id PROVE Counts(i, kind, turns, s)'
        BY <1>2, <4>1 DEF Counts
      <4> QED
        BY <1>4, <3>1, <4>1
    <3>2. CASE g # s
      BY <1>4, <2>1, <2>2, <3>2 DEF CInv, CountInv, IInv, HomeInv
    <3> QED
      BY <3>1, <3>2
  <2> QED
    BY <1>1, <2>1, <2>2 DEF CInv, CountInv, IInv, HomeInv
<1>7. OneAnswer'
  BY <1>1, <1>4 DEF CInv, OneAnswer
<1>8. Onward'
  <2>1. \A t \in Session : pc[t] \in {"submitting", "unrouting"} =>
          pc'[t] = pc[t] /\ line'[t] = line[t]
    BY <1>0, <1>1, <1>4 DEF GoroutinesTypeOK, Goroutine
  <2>2. pc'[s] = "submitting" /\ line'[s].id = id
    BY <1>0, <1>1, <1>4 DEF GoroutinesTypeOK
  <2> QED
    BY <1>1, <1>2, <2>1, <2>2 DEF CInv, Onward
<1> QED
  BY <1>5, <1>6, <1>7, <1>8 DEF CInv

\* removeRoute removes the route of a query KataGo has not got, and no other.
LEMMA RemoveRouteCInv ==
  ASSUME IInv, CInv, [Next]_vars, NEW s \in Session, RemoveRoute(s)
  PROVE  CInv'
<1>0. GoroutinesTypeOK /\ LineInv /\ s \in Goroutine
  BY DEF IInv, TypeOK, Goroutine
<1>1. /\ pc[s] = "unrouting" /\ pc' = [pc EXCEPT ![s] = "failed"]
      /\ line' = [line EXCEPT ![s] = None]
      /\ UNCHANGED <<pipe, work, katago>>
  BY DEF RemoveRoute, process
<1>2. /\ DOMAIN routes' = DOMAIN routes \ {line[s].id}
      /\ \A i \in DOMAIN routes' : routes'[i] = routes[i]
  BY DEF RemoveRoute, Delete, Restrict
<1>3. /\ line[s] # None /\ line'[s] = None
      /\ \A g \in Goroutine \ {s} : line'[g] = line[g]
  BY <1>0, <1>1 DEF GoroutinesTypeOK, LineInv
<1>4. UniqueInv'
  BY <1>1, <1>3 DEF CInv, UniqueInv
<1>5. CountInv'
  <2>1. ASSUME NEW i, NEW k, NEW n, NEW a, Counts(i, k, n, a), i # line[s].id
        PROVE  Counts(i, k, n, a)'
    BY <1>2, <2>1, CountsStable
  <2>2. ASSUME NEW g \in Goroutine, line'[g] # None
        PROVE  Counts(line[g].id, line[g].kind, line[g].turns, line[g].asker)'
    <3>1. line'[g] = line[g] /\ line[g].id # line[s].id
      BY <1>0, <1>3, <2>2 DEF CInv, UniqueInv
    <3> QED
      BY <2>1, <2>2, <3>1 DEF CInv, CountInv
  <2>3. ASSUME NEW i \in 1..Len(pipe')
        PROVE  Counts(pipe[i].id, pipe[i].kind, pipe[i].turns, pipe[i].asker)'
    <3>1. pipe'[i] = pipe[i] /\ i \in 1..Len(pipe) /\ pipe[i].id # line[s].id
      BY <1>0, <1>1, <1>3 DEF CInv, UniqueInv
    <3> QED
      BY <2>1, <3>1 DEF CInv, CountInv
  <2>4. ASSUME NEW i \in DOMAIN work'
        PROVE  Counts(i, work[i].kind, work[i].left, work[i].asker)'
    <3>1. work' = work /\ i # line[s].id
      BY <1>0, <1>1, <1>3 DEF CInv, UniqueInv
    <3> QED
      BY <2>1, <3>1 DEF CInv, CountInv
  <2> QED
    BY <2>2, <2>3, <2>4 DEF CountInv
<1>6. OneAnswer'
  BY <1>1, <1>3 DEF CInv, OneAnswer
<1>7. Onward'
  <2>1. \A t \in Session \ {s} : pc'[t] = pc[t] /\ line'[t] = line[t]
    BY <1>0, <1>1, <1>3 DEF GoroutinesTypeOK, Goroutine
  <2> QED
    BY <1>1, <1>2, <2>1 DEF CInv, Onward
<1> QED
  BY <1>4, <1>5, <1>6, <1>7 DEF CInv

\* CancelSession removes routes of a session that is over from here on.
LEMMA CancelSessionCInv ==
  ASSUME IInv, CInv, [Next]_vars, NEW s \in Session, CancelSession(s)
  PROVE  CInv'
<1>0. GoroutinesTypeOK
  BY DEF IInv, TypeOK
<1>1. /\ pc[s] \in {"idle", "failed"} /\ pc' = [pc EXCEPT ![s] = "cancelling"]
      /\ UNCHANGED <<line, pipe, work, katago>>
  BY DEF CancelSession, process
<1>2. /\ DOMAIN routes' \subseteq DOMAIN routes
      /\ \A i \in DOMAIN routes' : routes'[i] = routes[i]
      /\ \A i \in DOMAIN routes \ DOMAIN routes' : routes[i].session = s
  <2>1. \A o \in DOMAIN UserRoutes(s) : routes[UserRoutes(s)[o]].session = s
    BY DEF UserRoutes, EmptyMap, IInv, TablesAgree
  <2> QED
    BY <2>1 DEF CancelSession, Delete, Restrict
<1>3. Over(s)'
  BY <1>0, <1>1 DEF Over, GoroutinesTypeOK
<1>4. ASSUME NEW i, NEW k, NEW n, NEW a, NEW o,
             Counts(i, k, n, a), Fits(i, a, o)
      PROVE  Counts(i, k, n, a)'
  <2>1. i \in DOMAIN routes => i \in DOMAIN routes' \/ a = s
    BY <1>2, <1>4 DEF Fits
  <2> QED
    BY <1>2, <1>3, <1>4, <2>1, CountsStable
<1>5. UniqueInv' /\ OneAnswer'
  BY <1>1 DEF CInv, UniqueInv, OneAnswer
<1>6. CountInv'
  BY <1>1, <1>4 DEF CInv, CountInv, IInv, HomeInv
<1>7. Onward'
  <2>1. \A t \in Session : pc[t] \in {"submitting", "unrouting"} =>
          pc'[t] = pc[t]
    BY <1>0, <1>1 DEF GoroutinesTypeOK
  <2> QED
    BY <1>1, <1>2, <2>1 DEF CInv, Onward
<1> QED
  BY <1>5, <1>6, <1>7 DEF CInv

\* The lines that the bridge writes on its own account have no route.
LEMMA ActionLineCInv ==
  ASSUME IInv, CInv, [Next]_vars, NEW g \in Goroutine, NEW kind, NEW target,
         line[g] = None, line' = [line EXCEPT ![g] = ActionLine(kind, target)],
         UNCHANGED <<routes, pc, pipe, work, katago>>
  PROVE  CInv'
<1> DEFINE l == ActionLine(kind, target)
<1>1. /\ line'[g] = l /\ \A h \in Goroutine \ {g} : line'[h] = line[h]
      /\ l.id = seq + 1 /\ l.asker = None /\ l.turns = 1
  BY DEF ActionLine, IInv, TypeOK, GoroutinesTypeOK
<1> HIDE DEF l
<1>2. UniqueInv'
  BY <1>1, FreshUnique DEF CInv, l
<1>3. CountInv'
  <2>1. ASSUME NEW i, NEW k, NEW n, NEW a, Counts(i, k, n, a)
        PROVE  Counts(i, k, n, a)'
    BY <2>1, CountsStable
  <2>2. Counts(line[g].id, line[g].kind, line[g].turns, line[g].asker)'
    BY <1>1, EngineAssumption DEF Counts
  <2> QED
    BY <1>1, <2>1, <2>2 DEF CInv, CountInv
<1>4. OneAnswer'
  BY <1>1 DEF CInv, OneAnswer
<1>5. Onward'
  <2>1. \A t \in Session : pc[t] \in {"submitting", "unrouting"} =>
          line'[t] = line[t]
    BY <1>1 DEF IInv, LineInv, Goroutine
  <2> QED
    BY <2>1 DEF CInv, Onward
<1> QED
  BY <1>2, <1>3, <1>4, <1>5 DEF CInv

-----------------------------------------------------------------------------
(* writeJSON.                                                              *)

\* A line that is written goes on in the pipe, under the same count.
LEMMA WriteCInv ==
  ASSUME IInv, CInv, [Next]_vars, NEW g \in Goroutine, Write(g)
  PROVE  CInv'
<1>0. GoroutinesTypeOK /\ LineInv /\ pipe \in Seq(Line)
  BY DEF IInv, TypeOK, ProcessTypeOK
<1>1. /\ line[g] # None /\ line[g] \in Line
      /\ pipe' = Append(pipe, line[g])
      /\ UNCHANGED <<routes, work, katago>>
  BY <1>0, EngineAssumption
     DEF Write, LineInv, GoroutinesTypeOK, Goroutine, tables
<1>2. /\ line'[g] = None /\ \A h \in Goroutine \ {g} : line'[h] = line[h]
      /\ \A s \in Session \ {g} : pc'[s] = pc[s]
  BY <1>0, EngineAssumption
     DEF Write, Return, GoroutinesTypeOK, Goroutine
<1>3. /\ Len(pipe') = Len(pipe) + 1
      /\ pipe'[Len(pipe) + 1] = line[g]
      /\ \A i \in 1..Len(pipe) : i \in 1..Len(pipe') /\ pipe'[i] = pipe[i]
      /\ \A i \in 1..Len(pipe') :
           \/ i = Len(pipe) + 1
           \/ i \in 1..Len(pipe) /\ pipe'[i] = pipe[i]
  BY <1>0, <1>1
<1>4. UniqueInv'
  <2>1. ASSUME NEW h \in Goroutine, line'[h] # None
        PROVE  /\ line'[h] = line[h] /\ h # g /\ line[h].id # line[g].id
               /\ \A i \in 1..Len(pipe') : pipe'[i].id # line[h].id
               /\ line[h].id \notin DOMAIN work
    <3>1. line'[h] = line[h] /\ h # g /\ line[h].id # line[g].id
      BY <1>1, <1>2, <2>1 DEF CInv, UniqueInv
    <3> QED
      BY <1>1, <1>3, <2>1, <3>1 DEF CInv, UniqueInv
  <2>2. \A h, k \in Goroutine :
          line'[h] # None /\ line'[k] # None /\ h # k
            => line'[h].id # line'[k].id
    BY <2>1 DEF CInv, UniqueInv
  <2>3. ASSUME NEW i \in 1..Len(pipe'), NEW j \in 1..Len(pipe'), i # j
        PROVE  pipe'[i].id # pipe'[j].id
    BY <1>0, <1>1, <1>3, <2>3 DEF CInv, UniqueInv
  <2>4. \A i \in 1..Len(pipe') : pipe'[i].id \notin DOMAIN work'
    BY <1>0, <1>1, <1>3 DEF CInv, UniqueInv
  <2> QED
    BY <1>1, <2>1, <2>2, <2>3, <2>4 DEF UniqueInv
<1>5. CountInv'
  <2>1. ASSUME NEW i, NEW k, NEW n, NEW a, Counts(i, k, n, a)
        PROVE  Counts(i, k, n, a)'
    BY <1>1, <2>1, CountsStable
  <2>2. ASSUME NEW h \in Goroutine, line'[h] # None
        PROVE  Counts(line[h].id, line[h].kind, line[h].turns, line[h].asker)'
    <3>1. line'[h] = line[h]
      BY <1>2, <2>2
    <3> QED
      BY <2>1, <2>2, <3>1 DEF CInv, CountInv
  <2>3. ASSUME NEW i \in 1..Len(pipe')
        PROVE  Counts(pipe[i].id, pipe[i].kind, pipe[i].turns, pipe[i].asker)'
    <3>1. PICK l : /\ pipe'[i] = l
                   /\ Counts(l.id, l.kind, l.turns, l.asker)
      BY <1>1, <1>3 DEF CInv, CountInv
    <3> QED
      BY <2>1, <3>1
  <2> QED
    BY <1>1, <2>1, <2>2, <2>3 DEF CInv, CountInv
<1>6. OneAnswer'
  BY <1>1, <1>2, <1>3 DEF CInv, OneAnswer
<1>7. Onward'
  <2>1. SUFFICES ASSUME katago' = "running", NEW id \in DOMAIN routes',
                        id \notin DOMAIN work',
                        ~\E i \in 1..Len(pipe') : pipe'[i].id = id
                 PROVE  \E s \in Session : /\ pc'[s] \in {"submitting", "unrouting"}
                                           /\ line'[s].id = id
    BY DEF Onward
  <2>2. PICK s \in Session : /\ pc[s] \in {"submitting", "unrouting"}
                             /\ line[s].id = id
    BY <1>1, <1>3, <2>1 DEF CInv, Onward
  <2>3. s # g
    <3>1. Len(pipe) + 1 \in 1..Len(pipe')
      BY <1>0, <1>3
    <3> QED
      BY <1>3, <2>1, <2>2, <3>1
  <2> QED
    BY <1>2, <2>2, <2>3 DEF Goroutine
<1> QED
  BY <1>4, <1>5, <1>6, <1>7 DEF CInv

\* A line that cannot be written is given up or kept for removeRoute.
LEMMA WriteFailsCInv ==
  ASSUME IInv, CInv, [Next]_vars, NEW g \in Goroutine, WriteFails(g)
  PROVE  CInv'
<1>0. GoroutinesTypeOK /\ LineInv
  BY DEF IInv, TypeOK
<1>1. UNCHANGED <<routes, pipe, work, katago>> /\ Return(g, FALSE)
  BY DEF WriteFails, tables, process
<1>2. \A h \in Goroutine : line'[h] # None => line'[h] = line[h]
  BY <1>0, <1>1 DEF Return, GoroutinesTypeOK
<1>3. \A s \in Session : pc[s] \in {"submitting", "unrouting"} =>
        pc'[s] \in {"submitting", "unrouting"} /\ line'[s] = line[s]
  BY <1>0, <1>1, EngineAssumption DEF Return, GoroutinesTypeOK, Goroutine
<1> QED
  BY <1>1, <1>2, <1>3, LinesShrink

-----------------------------------------------------------------------------
(* KataGo.                                                                 *)

\* What it reads is what it owes.
LEMMA ReadLineCInv ==
  ASSUME IInv, CInv, [Next]_vars, ReadLine
  PROVE  CInv'
<1> DEFINE l == Head(pipe)
<1>0. pipe \in Seq(Line) /\ \A i \in DOMAIN work : work[i] \in Job
  BY DEF IInv, TypeOK, ProcessTypeOK
<1>1. /\ pipe # <<>> /\ pipe' = Tail(pipe)
      /\ UNCHANGED <<routes, pc, line, katago>>
  BY DEF ReadLine, tables, callers
<1>2. /\ l = pipe[1] /\ 1 \in 1..Len(pipe)
      /\ \A i \in 1..Len(pipe') : i + 1 \in 2..Len(pipe) /\ i + 1 \in 1..Len(pipe)
                                  /\ pipe'[i] = pipe[i + 1]
      /\ \A i \in 1..Len(pipe) : i = 1 \/ (i - 1 \in 1..Len(pipe')
                                             /\ pipe[i] = pipe'[i - 1])
  BY <1>0, <1>1
<1>3. /\ DOMAIN work' = DOMAIN work \cup {l.id}
      /\ work'[l.id].kind = l.kind /\ work'[l.id].left = l.turns
      /\ work'[l.id].asker = l.asker
      /\ ~Warnings => work'[l.id].first # "warning"
      /\ \A i \in DOMAIN work \ {l.id} :
           /\ work'[i].kind = work[i].kind /\ work'[i].left = work[i].left
           /\ work'[i].asker = work[i].asker /\ work'[i].first = work[i].first
  <2> DEFINE w == CASE l.kind = "terminate" -> Told(work, {l.target})
                    [] l.kind = "terminate_all" -> Told(work, DOMAIN work)
                    [] OTHER -> work
  <2>1. PICK first \in {"result", "error"} \cup
                      IF Warnings /\ l.kind = "analyze" THEN {"warning"}
                      ELSE {} :
          work' = Put(w, l.id, [kind |-> l.kind, told |-> FALSE,
                                first |-> first, left |-> l.turns,
                                asker |-> l.asker, orig |-> l.orig])
    BY DEF ReadLine
  <2>2. ASSUME NEW ids
        PROVE  /\ DOMAIN Told(work, ids) = DOMAIN work
               /\ \A i \in DOMAIN work :
                    /\ Told(work, ids)[i].kind = work[i].kind
                    /\ Told(work, ids)[i].left = work[i].left
                    /\ Told(work, ids)[i].asker = work[i].asker
                    /\ Told(work, ids)[i].first = work[i].first
    BY <1>0 DEF Told, Job
  <2>3. /\ DOMAIN w = DOMAIN work
        /\ \A i \in DOMAIN work :
             /\ w[i].kind = work[i].kind /\ w[i].left = work[i].left
             /\ w[i].asker = work[i].asker /\ w[i].first = work[i].first
    BY <2>2
  <2> HIDE DEF w, l
  <2> QED
    BY <2>1, <2>3 DEF Put
<1> HIDE DEF l
<1>4. UniqueInv'
  <2>1. /\ \A i \in 1..Len(pipe') : pipe'[i].id # l.id
        /\ \A g \in Goroutine : line[g] # None => line[g].id # l.id
    BY <1>2, <1>0 DEF CInv, UniqueInv
  <2>2. ASSUME NEW i \in 1..Len(pipe'), NEW j \in 1..Len(pipe'), i # j
        PROVE  pipe'[i].id # pipe'[j].id
    <3>1. i + 1 # j + 1
      BY <2>2
    <3>2. /\ i + 1 \in 1..Len(pipe) /\ pipe'[i] = pipe[i + 1]
          /\ j + 1 \in 1..Len(pipe) /\ pipe'[j] = pipe[j + 1]
      BY <1>2
    <3> QED
      BY <3>1, <3>2 DEF CInv, UniqueInv
  <2>3. ASSUME NEW i \in 1..Len(pipe') PROVE pipe'[i].id \notin DOMAIN work'
    BY <1>2, <1>3, <2>1 DEF CInv, UniqueInv
  <2>4. ASSUME NEW g \in Goroutine, line'[g] # None
        PROVE  /\ line'[g].id \notin DOMAIN work'
               /\ \A i \in 1..Len(pipe') : pipe'[i].id # line'[g].id
    BY <1>1, <1>2, <1>3, <2>1, <2>4 DEF CInv, UniqueInv
  <2>5. \A g, h \in Goroutine :
          line'[g] # None /\ line'[h] # None /\ g # h => line'[g].id # line'[h].id
    BY <1>1 DEF CInv, UniqueInv
  <2> QED
    BY <2>2, <2>3, <2>4, <2>5 DEF UniqueInv
<1>5. CountInv'
  <2>1. ASSUME NEW i, NEW k, NEW n, NEW a, Counts(i, k, n, a)
        PROVE  Counts(i, k, n, a)'
    BY <1>1, <2>1, CountsStable
  <2>2. ASSUME NEW i \in 1..Len(pipe')
        PROVE  Counts(pipe[i].id, pipe[i].kind, pipe[i].turns, pipe[i].asker)'
    BY <1>2, <2>1 DEF CInv, CountInv
  <2>3. ASSUME NEW i \in DOMAIN work'
        PROVE  Counts(i, work[i].kind, work[i].left, work[i].asker)'
    <3>1. PICK k, n, a : /\ k = work'[i].kind /\ n = work'[i].left
                         /\ a = work'[i].asker /\ Counts(i, k, n, a)
      BY <1>2, <1>3 DEF CInv, CountInv
    <3> QED
      BY <2>1, <3>1
  <2>4. ASSUME NEW g \in Goroutine, line'[g] # None
        PROVE  Counts(line[g].id, line[g].kind, line[g].turns, line[g].asker)'
    BY <1>1, <2>1, <2>4 DEF CInv, CountInv
  <2> QED
    BY <2>2, <2>3, <2>4 DEF CountInv
<1>6. OneAnswer'
  BY <1>1, <1>2, <1>3 DEF CInv, OneAnswer
<1>7. Onward'
  <2>1. SUFFICES ASSUME katago' = "running", NEW id \in DOMAIN routes',
                        id \notin DOMAIN work'
                 PROVE  \/ \E i \in 1..Len(pipe') : pipe'[i].id = id
                        \/ \E s \in Session :
                             /\ pc'[s] \in {"submitting", "unrouting"}
                             /\ line'[s].id = id
    BY DEF Onward
  <2>2. id # l.id /\ id \notin DOMAIN work
    BY <1>3, <2>1
  <2>3. ASSUME NEW i \in 1..Len(pipe), pipe[i].id = id
        PROVE  \E j \in 1..Len(pipe') : pipe'[j].id = id
    BY <1>2, <2>2, <2>3
  <2> QED
    BY <1>1, <2>1, <2>2, <2>3 DEF CInv, Onward
<1> QED
  BY <1>4, <1>5, <1>6, <1>7 DEF CInv

\* A route that KataGo answers expects what KataGo still owes.
LEMMA RouteCounts ==
  ASSUME IInv, CountInv, NEW id \in DOMAIN work, id \in DOMAIN routes
  PROVE  /\ routes[id] \in Route
         /\ routes[id].action = work[id].kind
         /\ routes[id].remaining \in 1..work[id].left
         /\ ~Warnings => routes[id].remaining = work[id].left
<1>1. Fits(id, work[id].asker, work[id].orig)
  BY DEF IInv, HomeInv
<1>2. Counts(id, work[id].kind, work[id].left, work[id].asker)
  BY DEF CountInv
<1> QED
  BY <1>1, <1>2, RoutesLive DEF Counts, IInv, TypeOK, TablesTypeOK

\* Answers to id keep the counts when its route goes no later than its work
\* and is counted down with it.
LEMMA AnswerCInv ==
  ASSUME IInv, CInv, [Next]_vars, NEW id \in DOMAIN work,
         UNCHANGED <<pc, line, pipe, katago>>,
         DOMAIN routes' \subseteq DOMAIN routes,
         \A i \in DOMAIN routes \ {id} :
           i \in DOMAIN routes' /\ routes'[i] = routes[i],
         DOMAIN work' = DOMAIN work \/ DOMAIN work' = DOMAIN work \ {id},
         \A i \in DOMAIN work' \ {id} : work'[i] = work[i],
         id \notin DOMAIN work' => id \notin DOMAIN routes',
         id \in DOMAIN work' =>
           /\ work'[id].asker = work[id].asker
           /\ ~Warnings => work'[id].first # "warning"
           /\ work'[id].kind # "analyze" => work'[id].left = 1
           /\ id \in DOMAIN routes' =>
                /\ routes'[id].action = work'[id].kind
                /\ routes'[id].remaining \in 1..work'[id].left
           /\ ~Warnings /\ id \in DOMAIN routes =>
                /\ id \in DOMAIN routes'
                /\ routes'[id].remaining = work'[id].left
  PROVE  CInv'
<1>1. UniqueInv'
  BY DEF CInv, UniqueInv
<1>2. CountInv'
  <2>1. ASSUME NEW i, NEW k, NEW n, NEW a, Counts(i, k, n, a), i # id
        PROVE  Counts(i, k, n, a)'
    BY <2>1, CountsStable
  <2>2. ASSUME NEW g \in Goroutine, line'[g] # None
        PROVE  Counts(line[g].id, line[g].kind, line[g].turns, line[g].asker)'
    <3>1. line'[g] = line[g] /\ line[g].id # id
      BY <2>2 DEF CInv, UniqueInv
    <3> QED
      BY <2>1, <2>2, <3>1 DEF CInv, CountInv
  <2>3. ASSUME NEW i \in 1..Len(pipe')
        PROVE  Counts(pipe[i].id, pipe[i].kind, pipe[i].turns, pipe[i].asker)'
    <3>1. i \in 1..Len(pipe) /\ pipe'[i] = pipe[i] /\ pipe[i].id # id
      BY DEF CInv, UniqueInv
    <3> QED
      BY <2>1, <3>1 DEF CInv, CountInv
  <2>4. ASSUME NEW i \in DOMAIN work'
        PROVE  Counts(i, work[i].kind, work[i].left, work[i].asker)'
    <3>1. CASE i # id
      BY <2>1, <2>4, <3>1 DEF CInv, CountInv
    <3>2. CASE i = id
      <4>1. PICK a : /\ a = work[id].asker
                     /\ Counts(id, work[id].kind, work[id].left, a)
        BY DEF CInv, CountInv
      <4>2. ~Warnings /\ a \in Session /\ ~Over(a)' => id \in DOMAIN routes
        BY <4>1, OverStable DEF Counts
      <4> QED
        BY <2>4, <3>2, <4>1, <4>2 DEF Counts
    <3> QED
      BY <3>1, <3>2
  <2> QED
    BY <2>2, <2>3, <2>4 DEF CountInv
<1>3. OneAnswer'
  BY DEF CInv, OneAnswer
<1>4. Onward'
  BY DEF CInv, Onward
<1> QED
  BY <1>1, <1>2, <1>3, <1>4 DEF CInv

\* dispatch takes a route away with the last answer KataGo owes, and counts
\* down with each one before.
LEMMA KataGoPrintsCInv ==
  ASSUME IInv, CInv, [Next]_vars, NEW id \in DOMAIN work, KataGoPrints(id)
  PROVE  CInv'
<1>0. /\ work[id] \in Job
      /\ ~Warnings => work[id].first # "warning"
      /\ work[id].kind # "analyze" => work[id].left = 1
  BY DEF IInv, TypeOK, ProcessTypeOK, CInv, OneAnswer
<1>1. id \in DOMAIN routes => /\ routes[id] \in Route
                              /\ routes[id].action = work[id].kind
                              /\ routes[id].remaining \in 1..work[id].left
                              /\ ~Warnings =>
                                   routes[id].remaining = work[id].left
  BY RouteCounts DEF CInv
<1>2. ASSUME NEW said, Dispatch(id, said)
      PROVE  /\ UNCHANGED <<pc, line, pipe, katago>>
             /\ DOMAIN routes' \subseteq DOMAIN routes
             /\ \A i \in DOMAIN routes \ {id} :
                  i \in DOMAIN routes' /\ routes'[i] = routes[i]
             /\ id \in DOMAIN routes /\ ShouldComplete(routes[id], said) =>
                  id \notin DOMAIN routes'
             /\ id \in DOMAIN routes /\ ~ShouldComplete(routes[id], said) =>
                  /\ id \in DOMAIN routes'
                  /\ routes'[id] = Counted(routes[id], said)
  BY <1>2 DEF Dispatch, Delete, Restrict, Put, callers
<1>3. CASE PrintDuring(id)
  <2>1. work' = work /\ work[id].kind = "analyze" /\ Dispatch(id, "during")
    BY <1>3 DEF PrintDuring
  <2>2. id \in DOMAIN routes => id \in DOMAIN routes' /\ routes'[id] = routes[id]
    BY <1>1, <1>2, <2>1 DEF ShouldComplete, Counted
  <2> QED
    BY <1>0, <1>1, <1>2, <2>1, <2>2, AnswerCInv
<1>4. CASE PrintError(id)
  <2>1. work' = Delete(work, {id}) /\ Dispatch(id, "error")
    BY <1>4 DEF PrintError
  <2>2. id \notin DOMAIN routes'
    BY <1>2, <2>1 DEF ShouldComplete
  <2>3. /\ DOMAIN work' = DOMAIN work \ {id}
        /\ \A i \in DOMAIN work' \ {id} : work'[i] = work[i]
    BY <2>1 DEF Delete, Restrict
  <2> QED
    BY <1>2, <2>1, <2>2, <2>3, AnswerCInv
<1>5. CASE PrintFinal(id) /\ work[id].left = 1
  <2>1. work' = Delete(work, {id}) /\ Dispatch(id, "final")
    BY <1>5 DEF PrintFinal
  <2>2. id \notin DOMAIN routes'
    BY <1>1, <1>2, <1>5, <2>1 DEF ShouldComplete
  <2>3. /\ DOMAIN work' = DOMAIN work \ {id}
        /\ \A i \in DOMAIN work' \ {id} : work'[i] = work[i]
    BY <2>1 DEF Delete, Restrict
  <2> QED
    BY <1>2, <2>1, <2>2, <2>3, AnswerCInv
<1>6. CASE PrintFinal(id) /\ work[id].left # 1
  <2>1. /\ work' = [work EXCEPT ![id].left = @ - 1] /\ Dispatch(id, "final")
        /\ work[id].kind = "analyze"
    BY <1>0, <1>6 DEF PrintFinal
  <2>2. /\ DOMAIN work' = DOMAIN work
        /\ \A i \in DOMAIN work' \ {id} : work'[i] = work[i]
        /\ work'[id].left = work[id].left - 1
        /\ work'[id].kind = "analyze" /\ work'[id].asker = work[id].asker
        /\ ~Warnings => work'[id].first # "warning"
    BY <1>0, <2>1 DEF Job
  <2>3. CASE id \in DOMAIN routes /\ ShouldComplete(routes[id], "final")
    <3>1. Warnings /\ id \notin DOMAIN routes'
      BY <1>0, <1>1, <1>2, <1>6, <2>1, <2>3, EngineAssumption
         DEF ShouldComplete, Job
    <3> QED
      BY <1>2, <2>1, <2>2, <3>1, AnswerCInv
  <2>4. CASE id \in DOMAIN routes /\ ~ShouldComplete(routes[id], "final")
    <3>1. /\ id \in DOMAIN routes'
          /\ routes'[id].action = "analyze"
          /\ routes'[id].remaining = routes[id].remaining - 1
          /\ routes[id].remaining # 1
      BY <1>1, <1>2, <2>1, <2>4 DEF ShouldComplete, Counted, Route
    <3>2. /\ routes'[id].remaining \in 1..work'[id].left
          /\ ~Warnings => routes'[id].remaining = work'[id].left
      BY <1>0, <1>1, <2>2, <2>4, <3>1 DEF Job
    <3> QED
      BY <1>2, <2>1, <2>2, <3>1, <3>2, AnswerCInv
  <2>5. CASE id \notin DOMAIN routes
    BY <1>2, <2>1, <2>2, <2>5, AnswerCInv
  <2> QED
    BY <2>3, <2>4, <2>5
<1>7. CASE PrintWarning(id)
  <2>1. /\ work' = [work EXCEPT ![id].first = "result"]
        /\ Dispatch(id, "warning") /\ Warnings
    BY <1>0, <1>7, EngineAssumption DEF PrintWarning
  <2>2. /\ DOMAIN work' = DOMAIN work
        /\ \A i \in DOMAIN work' \ {id} : work'[i] = work[i]
        /\ work'[id].left = work[id].left /\ work'[id].kind = work[id].kind
        /\ work'[id].asker = work[id].asker
    BY <1>0, <2>1 DEF Job
  <2>3. ASSUME id \in DOMAIN routes'
        PROVE  /\ routes'[id].action = work[id].kind
               /\ routes'[id].remaining \in 1..work[id].left
    <3>1. /\ id \in DOMAIN routes /\ ~ShouldComplete(routes[id], "warning")
          /\ routes'[id] = Counted(routes[id], "warning")
      BY <1>2, <2>1, <2>3
    <3>2. /\ routes[id].action = "analyze" /\ routes[id].remaining # 1
          /\ routes'[id].action = "analyze"
          /\ routes'[id].remaining = routes[id].remaining - 1
      BY <1>1, <3>1 DEF ShouldComplete, Counted, Route
    <3> QED
      BY <1>0, <1>1, <3>1, <3>2 DEF Job
  <2> QED
    BY <1>0, <1>2, <2>1, <2>2, <2>3, AnswerCInv
<1> QED
  BY <1>3, <1>4, <1>5, <1>6, <1>7 DEF KataGoPrints

\* After its end there is nothing to count.
LEMMA ProcessEndsCInv ==
  ASSUME IInv, CInv, [Next]_vars, UNCHANGED <<routes, line>>,
         pipe' = pipe \/ pipe' = <<>>, work' = work \/ work' = EmptyMap,
         katago' # "running"
  PROVE  CInv'
<1>1. /\ \A i \in 1..Len(pipe') : i \in 1..Len(pipe) /\ pipe'[i] = pipe[i]
      /\ \A i \in DOMAIN work' : i \in DOMAIN work /\ work'[i] = work[i]
  BY DEF EmptyMap
<1>2. UniqueInv'
  BY <1>1 DEF CInv, UniqueInv
<1>3. CountInv'
  <2>1. ASSUME NEW id, NEW kind, NEW n, NEW a, Counts(id, kind, n, a)
        PROVE  Counts(id, kind, n, a)'
    BY <2>1, CountsStable
  <2> QED
    BY <1>1, <2>1 DEF CInv, CountInv
<1>4. OneAnswer'
  BY <1>1 DEF CInv, OneAnswer
<1>5. Onward'
  BY DEF Onward
<1> QED
  BY <1>2, <1>3, <1>4, <1>5 DEF CInv

-----------------------------------------------------------------------------

\* Every step of the engine keeps the counts.
LEMMA NextCInv ==
  ASSUME IInv, CInv, [Next]_vars
  PROVE  CInv'
<1>0. GoroutinesTypeOK /\ LineInv /\ TablesTypeOK /\ TablesAgree
  BY DEF IInv, TypeOK
<1>1. CASE UNCHANGED vars
  BY <1>1, LinesShrink DEF vars
<1>2. ASSUME NEW s \in Session, Submit(s) PROVE CInv'
  <2>1. CASE SubmitRefused(s) \/ RefusalSent(s)
              \/ \E o \in ClientId : SubmitBadTerminate(s, o)
    <3>1. /\ UNCHANGED <<routes, line, pipe, work, katago>>
          /\ pc[s] \in {"idle", "refusing"} /\ \E p : pc' = [pc EXCEPT ![s] = p]
      BY <2>1 DEF SubmitRefused, RefusalSent, SubmitBadTerminate, tables, process
    <3>2. \A t \in Session : pc[t] \in {"submitting", "unrouting"} =>
            pc'[t] \in {"submitting", "unrouting"}
      BY <1>0, <3>1 DEF GoroutinesTypeOK
    <3> QED
      BY <3>1, <3>2, LinesShrink
  <2>2. ASSUME NEW o \in ClientId,
               SubmitAnalysis(s, o) \/ SubmitTerminate(s, o) \/ SubmitAction(s, o)
        PROVE  CInv'
    BY <2>2, RegisterCInv, EngineAssumption
       DEF SubmitAnalysis, SubmitTerminate, SubmitAction
  <2> QED
    BY <1>2, <2>1, <2>2, RemoveRouteCInv DEF Submit
<1>3. ASSUME NEW s \in Session, Cancel(s) PROVE CInv'
  <2>1. CASE CancelNext(s)
    <3>1. PICK id \in todo[s] :
            line' = [line EXCEPT ![s] = ActionLine("terminate", id)]
      BY <2>1 DEF CancelNext
    <3>2. line[s] = None /\ UNCHANGED <<routes, pc, pipe, work, katago>>
      BY <2>1 DEF CancelNext, process
    <3> QED
      BY <3>1, <3>2, ActionLineCInv DEF Goroutine
  <2>2. CASE CancelReturns(s)
    <3>1. /\ UNCHANGED <<routes, line, pipe, work, katago>>
          /\ pc[s] = "cancelling" /\ pc' = [pc EXCEPT ![s] = "gone"]
      BY <2>2 DEF CancelReturns, tables, process
    <3>2. \A t \in Session : pc[t] \in {"submitting", "unrouting"} =>
            pc'[t] \in {"submitting", "unrouting"}
      BY <1>0, <3>1 DEF GoroutinesTypeOK
    <3> QED
      BY <3>1, <3>2, LinesShrink
  <2> QED
    BY <1>3, <2>1, <2>2, CancelSessionCInv DEF Cancel
<1>4. ASSUME NEW g \in Goroutine, WriteJSON(g) PROVE CInv'
  <2>1. CASE Lock(g)
    BY <2>1, LinesShrink DEF Lock, tables, callers, process
  <2> QED
    BY <1>4, <2>1, WriteCInv, WriteFailsCInv DEF WriteJSON
<1>5. CASE DispatchSent \/ ShutdownClose \/ ShutdownReturn
  BY <1>5, LinesShrink DEF DispatchSent, ShutdownClose, ShutdownReturn, tables,
                           callers, process
<1>6. CASE Exit \/ Reap \/ StdoutEnds
  BY <1>6, ProcessEndsCInv DEF Exit, Reap, StdoutEnds, tables
<1>7. CASE ShutdownBegin
  <2>1. line[Main] = None
    BY <1>0, <1>7 DEF ShutdownBegin, LineInv
  <2> QED
    BY <1>7, <2>1, ActionLineCInv DEF ShutdownBegin, callers, process, Goroutine
<1>8. CASE ShutdownKill
  <2>1. CASE katago = "running"
    BY <1>8, <2>1, ProcessEndsCInv DEF ShutdownKill, tables
  <2>2. CASE katago # "running"
    BY <1>8, <2>2, ProcessEndsCInv DEF ShutdownKill, tables
  <2> QED
    BY <2>1, <2>2
<1> QED
  BY <1>1, <1>2, <1>3, <1>4, <1>5, <1>6, <1>7, <1>8, KataGoPrintsCInv,
     ReadLineCInv DEF Next, Shutdown, Finished

\* The route id waits for what line l asks for.
Expects(id, l) ==
  /\ l.id = id
  /\ routes[id].remaining \in 1..l.turns
  /\ ~Warnings => routes[id].remaining = l.turns

\* A query whose line KataGo has not read still expects what the line asks for.
LEMMA UnreadCounts ==
  ASSUME IInv, CInv, katago = "running", NEW id \in DOMAIN routes,
         id \notin DOMAIN work
  PROVE  \E l \in Unread : Expects(id, l)
<1>1. ASSUME NEW i \in 1..Len(pipe), pipe[i].id = id
      PROVE  pipe[i] \in Unread /\ Expects(id, pipe[i])
  <2>1. /\ Fits(id, pipe[i].asker, pipe[i].orig)
        /\ Counts(id, pipe[i].kind, pipe[i].turns, pipe[i].asker)
    BY <1>1 DEF IInv, HomeInv, CInv, CountInv
  <2>2. pipe \in Seq(Line)
    BY DEF IInv, TypeOK, ProcessTypeOK
  <2>3. pipe[i] \in Unread
    BY <2>2 DEF Unread, Range
  <2> QED
    BY <1>1, <2>1, <2>3, RoutesLive DEF Counts, Expects
<1>2. ASSUME NEW s \in Session, pc[s] \in {"submitting", "unrouting"},
             line[s].id = id
      PROVE  line[s] \in Unread /\ Expects(id, line[s])
  <2>1. line[s] # None
    BY <1>2 DEF IInv, LineInv
  <2>2. /\ Fits(id, line[s].asker, line[s].orig)
        /\ Counts(id, line[s].kind, line[s].turns, line[s].asker)
    BY <1>2, <2>1 DEF IInv, HomeInv, CInv, CountInv, Goroutine
  <2> QED
    BY <1>2, <2>2, RoutesLive DEF Counts, Expects, Unread
<1> QED
  BY <1>1, <1>2 DEF CInv, Onward

\* Whether or not KataGo warns, no route waits for more than KataGo owes: every
\* id that is taken is given back by what KataGo has still to say, if not
\* before.
THEOREM NoRouteIsLeftOver == Spec => []RoutesCanEnd
<1>1. Init => CInv
  BY InitCInv
<1>2. IInv /\ CInv /\ [Next]_vars => CInv'
  BY NextCInv
<1>3. IInv /\ CInv => RoutesCanEnd
  <2> SUFFICES ASSUME IInv, CInv, katago = "running", NEW id \in DOMAIN routes,
                      id \in DOMAIN work => routes[id].remaining \notin 1..work[id].left
               PROVE  \E l \in Unread :
                        l.id = id /\ routes[id].remaining \in 1..l.turns
    BY DEF RoutesCanEnd
  <2>1. id \notin DOMAIN work
    BY RouteCounts DEF CInv
  <2>2. PICK l \in Unread : Expects(id, l)
    BY <2>1, UnreadCounts
  <2> QED
    BY <2>2 DEF Expects
<1> QED
  BY <1>1, <1>2, <1>3, Invariant, PTL DEF Spec

\* remainingFinals is what KataGo still owes, for any number of sessions that
\* submit, reuse ids, fail to write and leave, as long as KataGo sends no
\* warnings.
THEOREM RemainingFinalsExact ==
  ASSUME Warnings = FALSE
  PROVE  Spec => []RouteCountsFinals
<1>1. Init => CInv
  BY InitCInv
<1>2. IInv /\ CInv /\ [Next]_vars => CInv'
  BY NextCInv
<1>3. IInv /\ CInv => RouteCountsFinals
  <2> SUFFICES ASSUME IInv, CInv, katago = "running", NEW id \in DOMAIN routes,
                      id \in DOMAIN work => routes[id].remaining # work[id].left
               PROVE  \E l \in Unread :
                        l.id = id /\ routes[id].remaining = l.turns
    BY DEF RouteCountsFinals
  <2>1. id \notin DOMAIN work
    BY RouteCounts DEF CInv
  <2>2. PICK l \in Unread : Expects(id, l)
    BY <2>1, UnreadCounts
  <2> QED
    BY <2>2 DEF Expects
<1> QED
  BY <1>1, <1>2, <1>3, Invariant, PTL DEF Spec

\* No result is without its route while its session lives, under the same
\* condition.
THEOREM NoResultIsDropped ==
  ASSUME Warnings = FALSE
  PROVE  Spec => []ResultsHaveRoutes
<1>1. Init => CInv
  BY InitCInv
<1>2. IInv /\ CInv /\ [Next]_vars => CInv'
  BY NextCInv
<1>3. IInv /\ CInv => ResultsHaveRoutes
  BY DEF IInv, TypeOK, ProcessTypeOK, Job, CInv, CountInv, Counts,
         ResultsHaveRoutes
<1> QED
  BY <1>1, <1>2, <1>3, Invariant, PTL DEF Spec

-----------------------------------------------------------------------------
(* CancelSession reaches the work: how a terminate follows its query.      *)

\* Only a session's own Submit writes lines on its behalf, and every analysis
\* is some session's.
AskInv ==
  /\ \A g \in Goroutine : line[g] # None =>
       /\ line[g].asker # None =>
            g \in Session /\ pc[g] \in {"submitting", "unrouting"}
       /\ line[g].kind = "analyze" => line[g].asker # None
  /\ \A i \in 1..Len(pipe) : pipe[i].kind = "analyze" => pipe[i].asker # None
  /\ \A id \in DOMAIN work : work[id].kind = "analyze" => work[id].asker # None

RInv == AskInv /\ CancelReachesWork

\* There is nobody to cancel at first.
LEMMA InitRInv == Init => RInv
BY EngineAssumption DEF Init, RInv, AskInv, CancelReachesWork, Over, Goroutine,
                        EmptyMap

\* Steps that bring up no line keep AskInv.
LEMMA AskFrame ==
  ASSUME AskInv,
         \A g \in Goroutine : line'[g] # None =>
           /\ line'[g] = line[g]
           /\ g \in Session /\ pc[g] \in {"submitting", "unrouting"} =>
                pc'[g] \in {"submitting", "unrouting"},
         \A i \in 1..Len(pipe') :
           \/ \E j \in 1..Len(pipe) : pipe'[i] = pipe[j]
           \/ \E g \in Goroutine : line[g] # None /\ pipe'[i] = line[g],
         \A id \in DOMAIN work' :
           \/ /\ id \in DOMAIN work
              /\ work'[id].kind = work[id].kind
              /\ work'[id].asker = work[id].asker
           \/ \E j \in 1..Len(pipe) : /\ work'[id].kind = pipe[j].kind
                                      /\ work'[id].asker = pipe[j].asker
  PROVE  AskInv'
<1>1. ASSUME NEW g \in Goroutine, line'[g] # None
      PROVE  /\ line'[g].asker # None =>
                  g \in Session /\ pc'[g] \in {"submitting", "unrouting"}
             /\ line'[g].kind = "analyze" => line'[g].asker # None
  BY <1>1 DEF AskInv
<1>2. ASSUME NEW i \in 1..Len(pipe'), pipe'[i].kind = "analyze"
      PROVE  pipe'[i].asker # None
  BY <1>2 DEF AskInv
<1>3. ASSUME NEW id \in DOMAIN work', work'[id].kind = "analyze"
      PROVE  work'[id].asker # None
  BY <1>3 DEF AskInv
<1> QED
  BY <1>1, <1>2, <1>3 DEF AskInv

\* Neither process nor stdin comes back, so a terminate that is coming keeps
\* coming as long as it matters.
LEMMA ReachFrame ==
  ASSUME RInv, katago' = "running" => katago = "running",
         stdinOpen' => stdinOpen, pipe' = pipe,
         \A id \in DOMAIN work' : /\ id \in DOMAIN work
                                  /\ work'[id].kind = work[id].kind
                                  /\ work'[id].asker = work[id].asker
                                  /\ work'[id].told = work[id].told,
         \A s \in Session : Over(s)' =>
           Over(s) /\ todo'[s] = todo[s] /\ line'[s] = line[s]
  PROVE  CancelReachesWork'
<1> SUFFICES ASSUME katago' = "running", stdinOpen', NEW s \in Session, Over(s)'
             PROVE  /\ \A id \in DOMAIN work' :
                         /\ work'[id].kind = "analyze"
                         /\ work'[id].asker = s
                         /\ ~work'[id].told
                         => TerminateComing(s, id, 0)'
                    /\ \A i \in 1..Len(pipe') :
                         pipe'[i].kind = "analyze" /\ pipe'[i].asker = s
                           => TerminateComing(s, pipe[i].id, i)'
  BY DEF CancelReachesWork
<1>1. \A id, i : TerminateComing(s, id, i) => TerminateComing(s, id, i)'
  BY DEF TerminateComing
<1> QED
  BY <1>1 DEF RInv, CancelReachesWork

\* Submit, but for its write: it is not for sessions that are over.
LEMMA SubmitRInv ==
  ASSUME IInv, RInv, NEW s \in Session, Submit(s)
  PROVE  RInv'
<1>0. GoroutinesTypeOK /\ LineInv
  BY DEF IInv, TypeOK
<1> DEFINE Own ==
      /\ pc[s] \in {"idle", "refusing", "unrouting"}
      /\ \E p \in {"idle", "refusing", "submitting", "failed"} :
           pc' = [pc EXCEPT ![s] = p]
      /\ UNCHANGED <<todo, pipe, katago, work, stdinOpen>>
      /\ \A g \in Goroutine \ {s} : line'[g] = line[g]
      /\ line'[s] # None /\ line'[s] # line[s] =>
           line'[s].asker = s /\ pc'[s] = "submitting"
      /\ line'[s] # None /\ line'[s] = line[s] => pc[s] # "unrouting"
<1>1. Own
  <2>1. ASSUME NEW o, NEW kind, NEW turns, NEW target,
               Register(s, o, kind, turns, target)
        PROVE  Own
    <3>1. line'[s].asker = s
      BY <1>0, <2>1 DEF Register, GoroutinesTypeOK, Goroutine
    <3> QED
      BY <1>0, <2>1, <3>1 DEF Register, process, GoroutinesTypeOK
  <2>2. CASE SubmitRefused(s) \/ RefusalSent(s)
    BY <1>0, <2>2 DEF SubmitRefused, RefusalSent, tables, process,
                      GoroutinesTypeOK
  <2>3. CASE RemoveRoute(s)
    BY <1>0, <2>3 DEF RemoveRoute, process, GoroutinesTypeOK, Goroutine
  <2>4. ASSUME NEW o, SubmitBadTerminate(s, o) PROVE Own
    BY <1>0, <2>4 DEF SubmitBadTerminate, process, GoroutinesTypeOK
  <2> QED
    BY <2>1, <2>2, <2>3, <2>4 DEF Submit, SubmitAnalysis, SubmitTerminate,
                                  SubmitAction
<1>2. CancelReachesWork'
  <2>1. \A t \in Session : Over(t)' => t # s /\ Over(t)
    BY <1>0, <1>1 DEF Over, GoroutinesTypeOK
  <2> QED
    BY <1>1, <2>1, ReachFrame DEF Goroutine
<1>3. AskInv'
  <2>1. \A t \in Session \ {s} : pc'[t] = pc[t]
    BY <1>0, <1>1 DEF GoroutinesTypeOK
  <2>2. ASSUME NEW g \in Goroutine, line'[g] # None
        PROVE  /\ line'[g].asker # None =>
                    g \in Session /\ pc'[g] \in {"submitting", "unrouting"}
               /\ line'[g].kind = "analyze" => line'[g].asker # None
    <3>1. CASE g = s
      BY <1>0, <1>1, <2>2, <3>1, EngineAssumption DEF LineInv, RInv, AskInv
    <3>2. CASE g # s
      BY <1>1, <2>1, <2>2, <3>2 DEF RInv, AskInv
    <3> QED
      BY <3>1, <3>2
  <2> QED
    BY <1>1, <2>2 DEF RInv, AskInv
<1> QED
  BY <1>2, <1>3 DEF RInv

\* CancelSession collects every analysis of its session that KataGo has or
\* will get: each has its route, because the counts are right.
LEMMA CancelSessionRInv ==
  ASSUME Warnings = FALSE, IInv, CInv, RInv, NEW s \in Session,
         CancelSession(s)
  PROVE  RInv'
<1>0. GoroutinesTypeOK /\ LineInv /\ TablesAgree
  BY DEF IInv, TypeOK
<1>1. /\ pc[s] \in {"idle", "failed"} /\ pc' = [pc EXCEPT ![s] = "cancelling"]
      /\ todo' = [todo EXCEPT ![s] = Analyses(s)]
      /\ UNCHANGED <<line, pipe, katago, work, stdinOpen>>
  BY DEF CancelSession, process
<1>2. line[s] = None /\ ~Over(s)
  BY <1>0, <1>1 DEF LineInv, Over
<1>3. ASSUME NEW id, NEW n, NEW o, Counts(id, "analyze", n, s), Fits(id, s, o)
      PROVE  id \in todo'[s]
  <2>1. /\ id \in DOMAIN routes /\ routes[id].action = "analyze"
        /\ routes[id].session = s
    BY <1>2, <1>3 DEF Counts, Fits
  <2>2. /\ s \in DOMAIN byUser /\ routes[id].orig \in DOMAIN byUser[s]
        /\ byUser[s][routes[id].orig] = id
    BY <1>0, <2>1 DEF TablesAgree
  <2> QED
    BY <1>0, <1>1, <2>1, <2>2 DEF Analyses, UserRoutes, GoroutinesTypeOK
<1>4. CancelReachesWork'
  <2> SUFFICES ASSUME katago' = "running", stdinOpen', NEW t \in Session, Over(t)'
               PROVE  /\ \A id \in DOMAIN work' :
                           /\ work'[id].kind = "analyze"
                           /\ work'[id].asker = t
                           /\ ~work'[id].told
                           => TerminateComing(t, id, 0)'
                      /\ \A i \in 1..Len(pipe') :
                           pipe'[i].kind = "analyze" /\ pipe'[i].asker = t
                             => TerminateComing(t, pipe[i].id, i)'
    BY DEF CancelReachesWork
  <2>1. CASE t = s
    <3>1. ASSUME NEW id \in DOMAIN work, work[id].kind = "analyze",
                 work[id].asker = s
          PROVE  id \in todo'[s]
      BY <1>3, <3>1 DEF CInv, CountInv, IInv, HomeInv
    <3>2. ASSUME NEW i \in 1..Len(pipe), pipe[i].kind = "analyze",
                 pipe[i].asker = s
          PROVE  pipe[i].id \in todo'[s]
      BY <1>3, <3>2 DEF CInv, CountInv, IInv, HomeInv
    <3> QED
      BY <1>1, <2>1, <3>1, <3>2 DEF TerminateComing
  <2>2. CASE t # s
    <3>1. Over(t) /\ todo'[t] = todo[t]
      BY <1>0, <1>1, <2>2 DEF Over, GoroutinesTypeOK
    <3>2. \A id, i : TerminateComing(t, id, i) => TerminateComing(t, id, i)'
      BY <1>1, <3>1 DEF TerminateComing
    <3> QED
      BY <1>1, <3>1, <3>2 DEF RInv, CancelReachesWork
  <2> QED
    BY <2>1, <2>2
<1>5. AskInv'
  <2>1. \A t \in Session : pc[t] \in {"submitting", "unrouting"} =>
          pc'[t] = pc[t]
    BY <1>0, <1>1 DEF GoroutinesTypeOK
  <2> QED
    BY <1>1, <2>1 DEF RInv, AskInv
<1> QED
  BY <1>4, <1>5 DEF RInv

\* What leaves todo is in the line next.
LEMMA CancelNextRInv ==
  ASSUME IInv, RInv, NEW s \in Session, CancelNext(s)
  PROVE  RInv'
<1>0. GoroutinesTypeOK /\ seq \in Nat
  BY DEF IInv, TypeOK, TablesTypeOK
<1>1. PICK x \in todo[s] :
        /\ line' = [line EXCEPT ![s] = ActionLine("terminate", x)]
        /\ todo' = [todo EXCEPT ![s] = @ \ {x}]
  BY DEF CancelNext
<1>2. /\ line[s] = None
      /\ UNCHANGED <<pc, pipe, katago, work, stdinOpen>>
  BY DEF CancelNext, process
<1>3. /\ line'[s] = ActionLine("terminate", x)
      /\ \A g \in Goroutine \ {s} : line'[g] = line[g]
      /\ todo'[s] = todo[s] \ {x}
      /\ \A t \in Session \ {s} : todo'[t] = todo[t]
  BY <1>0, <1>1 DEF GoroutinesTypeOK, Goroutine
<1>4. /\ line'[s] # None
      /\ line'[s].kind = "terminate" /\ line'[s].target = x
      /\ line'[s].asker = None
  <2>1. ActionLine("terminate", x) \in Line
    BY <1>0, <1>1 DEF ActionLine, Line, Kind, GoroutinesTypeOK
  <2> QED
    BY <1>3, <2>1, NoneAssumption DEF ActionLine
<1>5. \A t \in Session : \A id, i :
        TerminateComing(t, id, i) => TerminateComing(t, id, i)'
  BY <1>2, <1>3, <1>4 DEF TerminateComing, Goroutine
<1>6. CancelReachesWork'
  BY <1>2, <1>5 DEF RInv, CancelReachesWork, Over
<1>7. AskInv'
  BY <1>2, <1>3, <1>4 DEF RInv, AskInv
<1> QED
  BY <1>6, <1>7 DEF RInv


\* A line that is written goes on behind every query in the pipe.
LEMMA WriteRInv ==
  ASSUME IInv, RInv, NEW g \in Goroutine, Write(g)
  PROVE  RInv'
<1>0. GoroutinesTypeOK /\ LineInv /\ pipe \in Seq(Line)
  BY DEF IInv, TypeOK, ProcessTypeOK
<1>1. /\ line[g] # None /\ line[g] \in Line
      /\ pipe' = Append(pipe, line[g])
      /\ UNCHANGED <<todo, work, katago, stdinOpen>>
  BY <1>0, EngineAssumption
     DEF Write, LineInv, GoroutinesTypeOK, Goroutine, tables
<1>2. /\ line'[g] = None /\ \A h \in Goroutine \ {g} : line'[h] = line[h]
      /\ \A s \in Session \ {g} : pc'[s] = pc[s]
      /\ \A s \in Session : Over(s)' => Over(s)
  BY <1>0, EngineAssumption
     DEF Write, Return, GoroutinesTypeOK, Goroutine, Over
<1>3. /\ Len(pipe') = Len(pipe) + 1 /\ Len(pipe) \in Nat
      /\ pipe'[Len(pipe) + 1] = line[g]
      /\ \A i \in 1..Len(pipe) : i \in 1..Len(pipe') /\ pipe'[i] = pipe[i]
      /\ \A i \in 1..Len(pipe') :
           \/ i = Len(pipe) + 1
           \/ i \in 1..Len(pipe) /\ pipe'[i] = pipe[i]
  BY <1>0, <1>1
<1>4. ASSUME NEW s \in Session, NEW id, NEW i \in 0..Len(pipe),
             TerminateComing(s, id, i)
      PROVE  TerminateComing(s, id, i)'
  <2>1. CASE id \in todo[s]
    BY <1>1, <2>1 DEF TerminateComing
  <2>2. CASE line[s] # None /\ line[s].kind = "terminate" /\ line[s].target = id
    <3>1. CASE s = g
      <4>1. Len(pipe) + 1 \in i + 1..Len(pipe')
        BY <1>3
      <4> QED
        BY <1>3, <2>2, <3>1, <4>1 DEF TerminateComing
    <3>2. CASE s # g
      BY <1>2, <2>2, <3>2 DEF TerminateComing, Goroutine
    <3> QED
      BY <3>1, <3>2
  <2>3. ASSUME NEW j \in i + 1..Len(pipe),
               pipe[j].kind = "terminate", pipe[j].target = id
        PROVE  TerminateComing(s, id, i)'
    <3>1. j \in i + 1..Len(pipe') /\ pipe'[j] = pipe[j]
      BY <1>3
    <3> QED
      BY <2>3, <3>1 DEF TerminateComing
  <2> QED
    BY <1>4, <2>1, <2>2, <2>3 DEF TerminateComing
<1>5. CancelReachesWork'
  <2> SUFFICES ASSUME katago = "running", stdinOpen, NEW s \in Session, Over(s)'
               PROVE  /\ \A id \in DOMAIN work :
                           /\ work[id].kind = "analyze"
                           /\ work[id].asker = s
                           /\ ~work[id].told
                           => TerminateComing(s, id, 0)'
                      /\ \A i \in 1..Len(pipe') :
                           pipe'[i].kind = "analyze" /\ pipe'[i].asker = s
                             => TerminateComing(s, pipe[i].id, i)'
    BY <1>1 DEF CancelReachesWork
  <2>1. Over(s)
    BY <1>2
  <2>2. ASSUME NEW id \in DOMAIN work, work[id].kind = "analyze",
               work[id].asker = s, ~work[id].told
        PROVE  TerminateComing(s, id, 0)'
    <3>1. TerminateComing(s, id, 0)
      BY <2>1, <2>2 DEF RInv, CancelReachesWork
    <3> QED
      BY <1>3, <1>4, <3>1
  <2>3. ASSUME NEW i \in 1..Len(pipe'), pipe'[i].kind = "analyze",
               pipe'[i].asker = s
        PROVE  TerminateComing(s, pipe[i].id, i)'
    <3>1. i # Len(pipe) + 1
      <4>1. SUFFICES ASSUME line[g].asker = s PROVE FALSE
        BY <1>3, <2>3
      <4>2. g \in Session /\ pc[g] \in {"submitting", "unrouting"} /\ g = s
        BY <1>0, <1>1, <4>1, EngineAssumption DEF RInv, AskInv, LineInv
      <4> QED
        BY <2>1, <4>2 DEF Over
    <3>2. i \in 1..Len(pipe) /\ pipe'[i] = pipe[i]
      BY <1>3, <3>1
    <3>3. TerminateComing(s, pipe[i].id, i)
      BY <2>1, <2>3, <3>2 DEF RInv, CancelReachesWork
    <3>4. PICK id : id = pipe[i].id /\ id = pipe'[i].id
      BY <3>2
    <3>5. TerminateComing(s, id, i)'
      BY <1>3, <1>4, <3>2, <3>3, <3>4
    <3> QED
      BY <3>4, <3>5
  <2> QED
    BY <2>2, <2>3
<1>6. AskInv'
  BY <1>1, <1>2, <1>3, AskFrame DEF RInv
<1> QED
  BY <1>5, <1>6 DEF RInv

\* Reading moves the first line of the pipe to KataGo and the others up; a
\* terminate tells its target.
LEMMA ReadLineMoves ==
  ASSUME IInv, ReadLine
  PROVE  /\ pipe # <<>> /\ pipe' = Tail(pipe)
         /\ 1 \in 1..Len(pipe)
         /\ \A i \in 1..Len(pipe') : i + 1 \in 1..Len(pipe)
                                     /\ pipe'[i] = pipe[i + 1]
         /\ \A i \in 1..Len(pipe) : i = 1 \/ (i - 1 \in 1..Len(pipe')
                                                /\ pipe[i] = pipe'[i - 1])
         /\ DOMAIN work' = DOMAIN work \cup {pipe[1].id}
         /\ work'[pipe[1].id].kind = pipe[1].kind
         /\ work'[pipe[1].id].asker = pipe[1].asker
         /\ \A i \in DOMAIN work \ {pipe[1].id} :
              /\ work'[i].kind = work[i].kind /\ work'[i].asker = work[i].asker
              /\ work[i].told => work'[i].told
              /\ pipe[1].kind = "terminate" /\ pipe[1].target = i =>
                   work'[i].told
<1> DEFINE l == Head(pipe)
<1>0. pipe \in Seq(Line) /\ \A i \in DOMAIN work : work[i] \in Job
  BY DEF IInv, TypeOK, ProcessTypeOK
<1>1. /\ pipe # <<>> /\ pipe' = Tail(pipe)
  BY DEF ReadLine
<1>2. /\ l = pipe[1] /\ 1 \in 1..Len(pipe)
      /\ \A i \in 1..Len(pipe') : i + 1 \in 1..Len(pipe)
                                  /\ pipe'[i] = pipe[i + 1]
      /\ \A i \in 1..Len(pipe) : i = 1 \/ (i - 1 \in 1..Len(pipe')
                                             /\ pipe[i] = pipe'[i - 1])
  BY <1>0, <1>1
<1>3. /\ DOMAIN work' = DOMAIN work \cup {l.id}
      /\ work'[l.id].kind = l.kind /\ work'[l.id].asker = l.asker
      /\ \A i \in DOMAIN work \ {l.id} :
           /\ work'[i].kind = work[i].kind /\ work'[i].asker = work[i].asker
           /\ work[i].told => work'[i].told
           /\ l.kind = "terminate" /\ l.target = i => work'[i].told
  <2> DEFINE w == CASE l.kind = "terminate" -> Told(work, {l.target})
                    [] l.kind = "terminate_all" -> Told(work, DOMAIN work)
                    [] OTHER -> work
  <2>1. PICK first \in {"result", "error", "warning"} :
          work' = Put(w, l.id, [kind |-> l.kind, told |-> FALSE,
                                first |-> first, left |-> l.turns,
                                asker |-> l.asker, orig |-> l.orig])
    BY DEF ReadLine
  <2>2. ASSUME NEW ids
        PROVE  /\ DOMAIN Told(work, ids) = DOMAIN work
               /\ \A i \in DOMAIN work :
                    /\ Told(work, ids)[i].kind = work[i].kind
                    /\ Told(work, ids)[i].asker = work[i].asker
                    /\ work[i].told => Told(work, ids)[i].told
                    /\ i \in ids => Told(work, ids)[i].told
    BY <1>0 DEF Told, Job
  <2>3. /\ DOMAIN w = DOMAIN work
        /\ \A i \in DOMAIN work :
             /\ w[i].kind = work[i].kind /\ w[i].asker = work[i].asker
             /\ work[i].told => w[i].told
             /\ l.kind = "terminate" /\ l.target = i => w[i].told
    BY <2>2
  <2> HIDE DEF w, l
  <2> QED
    BY <2>1, <2>3 DEF Put
<1> QED
  BY <1>1, <1>2, <1>3

\* KataGo reads a query before the terminate that follows it, and the
\* terminate tells it to stop.
LEMMA ReadLineRInv ==
  ASSUME IInv, RInv, ReadLine
  PROVE  RInv'
<1> DEFINE l == pipe[1]
<1>0. pipe \in Seq(Line)
  BY DEF IInv, TypeOK, ProcessTypeOK
<1>1. /\ pipe # <<>> /\ pipe' = Tail(pipe)
      /\ UNCHANGED <<pc, todo, line, katago, stdinOpen>>
  BY DEF ReadLine, tables, callers
<1>2. /\ 1 \in 1..Len(pipe)
      /\ \A i \in 1..Len(pipe') : i + 1 \in 1..Len(pipe)
                                  /\ pipe'[i] = pipe[i + 1]
  BY ReadLineMoves
<1>3. /\ DOMAIN work' = DOMAIN work \cup {l.id}
      /\ work'[l.id].kind = l.kind /\ work'[l.id].asker = l.asker
      /\ \A i \in DOMAIN work \ {l.id} :
           /\ work'[i].kind = work[i].kind /\ work'[i].asker = work[i].asker
           /\ work[i].told => work'[i].told
           /\ l.kind = "terminate" /\ l.target = i => work'[i].told
  BY ReadLineMoves
<1>4. ASSUME NEW s \in Session, NEW id, NEW i \in Nat,
             TerminateComing(s, id, i + 1)
      PROVE  TerminateComing(s, id, i)'
  <2>1. ASSUME NEW j \in i + 2..Len(pipe),
               pipe[j].kind = "terminate", pipe[j].target = id
        PROVE  TerminateComing(s, id, i)'
    <3>1. j - 1 \in i + 1..Len(pipe') /\ pipe[j] = pipe'[j - 1]
      BY <1>0, <1>1
    <3> QED
      BY <2>1, <3>1 DEF TerminateComing
  <2> QED
    BY <1>1, <1>4, <2>1 DEF TerminateComing
<1>5. ASSUME NEW s \in Session, NEW id, TerminateComing(s, id, 0),
             ~(l.kind = "terminate" /\ l.target = id)
      PROVE  TerminateComing(s, id, 0)'
  <2>1. TerminateComing(s, id, 1)
    BY <1>0, <1>2, <1>5 DEF TerminateComing
  <2> QED
    BY <1>4, <2>1
<1>6. CancelReachesWork'
  <2> SUFFICES ASSUME katago = "running", stdinOpen, NEW s \in Session, Over(s)
               PROVE  /\ \A id \in DOMAIN work' :
                           /\ work'[id].kind = "analyze"
                           /\ work'[id].asker = s
                           /\ ~work'[id].told
                           => TerminateComing(s, id, 0)'
                      /\ \A i \in 1..Len(pipe') :
                           pipe'[i].kind = "analyze" /\ pipe'[i].asker = s
                             => TerminateComing(s, pipe[i].id, i)'
    BY <1>1 DEF CancelReachesWork, Over
  <2>1. ASSUME NEW i \in 1..Len(pipe), pipe[i].kind = "analyze",
               pipe[i].asker = s
        PROVE  TerminateComing(s, pipe[i].id, i)
    BY <2>1 DEF RInv, CancelReachesWork
  <2>2. ASSUME NEW id \in DOMAIN work', work'[id].kind = "analyze",
               work'[id].asker = s, ~work'[id].told
        PROVE  TerminateComing(s, id, 0)'
    <3>1. CASE id = l.id
      <4>1. TerminateComing(s, id, 0 + 1)
        BY <1>2, <1>3, <2>1, <2>2, <3>1
      <4> QED
        BY <1>4, <4>1
    <3>2. CASE id # l.id
      <4>1. TerminateComing(s, id, 0)
        BY <1>3, <2>2, <3>2 DEF RInv, CancelReachesWork
      <4> QED
        BY <1>3, <1>5, <2>2, <3>2, <4>1
    <3> QED
      BY <3>1, <3>2
  <2>3. ASSUME NEW i \in 1..Len(pipe'), pipe'[i].kind = "analyze",
               pipe'[i].asker = s
        PROVE  TerminateComing(s, pipe[i].id, i)'
    <3>1. PICK id : id = pipe'[i].id /\ id = pipe[i + 1].id
      BY <1>2
    <3>2. TerminateComing(s, id, i + 1)
      BY <1>2, <2>1, <2>3, <3>1
    <3>3. TerminateComing(s, id, i)'
      BY <1>4, <3>2
    <3> QED
      BY <3>1, <3>3
  <2> QED
    BY <2>2, <2>3
<1>7. AskInv'
  BY <1>1, <1>2, <1>3, AskFrame DEF RInv
<1> QED
  BY <1>6, <1>7 DEF RInv


\* Answers take work away; it is not replaced.
LEMMA KataGoPrintsRInv ==
  ASSUME IInv, RInv, NEW id \in DOMAIN work, KataGoPrints(id)
  PROVE  RInv'
<1>0. work[id] \in Job
  BY DEF IInv, TypeOK, ProcessTypeOK
<1>1. UNCHANGED <<pc, todo, line, pipe, katago, stdinOpen>>
  BY DEF KataGoPrints, PrintDuring, PrintFinal, PrintError, PrintWarning,
         Dispatch, callers
<1>2. \A i \in DOMAIN work' :
        /\ i \in DOMAIN work
        /\ work'[i].kind = work[i].kind
        /\ work'[i].asker = work[i].asker
        /\ work'[i].told = work[i].told
  <2>1. CASE work' = Delete(work, {id}) \/ work' = work
    BY <2>1 DEF Delete, Restrict
  <2>2. CASE \/ work' = [work EXCEPT ![id].left = @ - 1]
             \/ work' = [work EXCEPT ![id].first = "result"]
    BY <1>0, <2>2 DEF Job
  <2> QED
    BY <2>1, <2>2 DEF KataGoPrints, PrintDuring, PrintFinal, PrintError,
                      PrintWarning
<1>3. CancelReachesWork'
  BY <1>1, <1>2, ReachFrame DEF Over
<1>4. AskInv'
  BY <1>1, <1>2, AskFrame DEF RInv
<1> QED
  BY <1>3, <1>4 DEF RInv

\* Every step of the engine keeps the terminates coming.
LEMMA NextRInv ==
  ASSUME Warnings = FALSE, IInv, CInv, RInv, [Next]_vars
  PROVE  RInv'
<1>0. GoroutinesTypeOK /\ LineInv
  BY DEF IInv, TypeOK
<1> DEFINE Still == UNCHANGED <<pc, todo, line, pipe, work>>
<1>1. ASSUME Still, katago' = "running" => katago = "running",
             stdinOpen' => stdinOpen
      PROVE  RInv'
  BY <1>1, ReachFrame, AskFrame DEF RInv, Over
<1>2. CASE UNCHANGED vars
  BY <1>1, <1>2 DEF vars
<1>3. ASSUME NEW s \in Session, CancelReturns(s) PROVE RInv'
  <2>1. /\ pc[s] = "cancelling" /\ pc' = [pc EXCEPT ![s] = "gone"]
        /\ UNCHANGED <<todo, line, pipe, katago, work, stdinOpen>>
    BY <1>3 DEF CancelReturns, process, tables
  <2>2. \A t \in Session :
          /\ Over(t)' => Over(t)
          /\ pc[t] \in {"submitting", "unrouting"} => pc'[t] = pc[t]
    BY <1>0, <2>1 DEF Over, GoroutinesTypeOK
  <2> QED
    BY <2>1, <2>2, ReachFrame, AskFrame DEF RInv
<1>4. ASSUME NEW g \in Goroutine, Lock(g) \/ WriteFails(g) PROVE RInv'
  <2>1. CASE Lock(g)
    BY <1>1, <2>1 DEF Lock, tables, callers, process
  <2>2. CASE WriteFails(g)
    <3>1. /\ ~stdinOpen \/ katago # "running"
          /\ UNCHANGED <<todo, pipe, katago, work, stdinOpen>>
          /\ Return(g, FALSE)
      BY <2>2 DEF WriteFails, process
    <3>2. \A h \in Goroutine : line'[h] # None =>
            /\ line'[h] = line[h]
            /\ h \in Session /\ pc[h] \in {"submitting", "unrouting"} =>
                 pc'[h] \in {"submitting", "unrouting"}
      BY <1>0, <3>1 DEF Return, GoroutinesTypeOK
    <3>3. AskInv'
      BY <3>1, <3>2, AskFrame DEF RInv
    <3> QED
      BY <3>1, <3>3 DEF RInv, CancelReachesWork
  <2> QED
    BY <1>4, <2>1, <2>2
<1>5. CASE Exit \/ Reap \/ StdoutEnds \/ ShutdownClose \/ ShutdownKill
  <2>1. /\ ~stdinOpen' \/ katago' # "running"
        /\ UNCHANGED <<pc, line>>
        /\ pipe' = pipe \/ pipe' = <<>>
        /\ work' = work \/ work' = EmptyMap
    BY <1>5 DEF Exit, Reap, StdoutEnds, ShutdownClose, ShutdownKill, tables,
                callers, process
  <2>2. DOMAIN EmptyMap = {}
    BY DEF EmptyMap
  <2>3. AskInv'
    BY <2>1, <2>2, AskFrame DEF RInv
  <2> QED
    BY <2>1, <2>3 DEF RInv, CancelReachesWork
<1>6. CASE DispatchSent \/ ShutdownReturn
  BY <1>1, <1>6 DEF DispatchSent, ShutdownReturn, tables, callers, process
<1>7. CASE ShutdownBegin
  <2>1. /\ line'[Main].kind = "terminate_all" /\ line'[Main].asker = None
        /\ \A g \in Goroutine \ {Main} : line'[g] = line[g]
        /\ UNCHANGED <<pc, todo, pipe, katago, work, stdinOpen>>
    BY <1>0, <1>7 DEF ShutdownBegin, ActionLine, GoroutinesTypeOK, Goroutine,
                      callers, process
  <2>2. CancelReachesWork'
    BY <2>1, ReachFrame, EngineAssumption DEF Over, Goroutine
  <2>3. AskInv'
    BY <2>1 DEF RInv, AskInv
  <2> QED
    BY <2>2, <2>3 DEF RInv
<1> QED
  BY <1>2, <1>3, <1>4, <1>5, <1>6, <1>7, SubmitRInv, CancelSessionRInv,
     CancelNextRInv, WriteRInv, ReadLineRInv, KataGoPrintsRInv
     DEF Next, Cancel, WriteJSON, Shutdown, Finished

\* The invariants about counts and about terminates hold in every reachable
\* state of an engine whose KataGo sends no warnings.
THEOREM CountsAndTerminates ==
  ASSUME Warnings = FALSE
  PROVE  Spec => [](CInv /\ RInv)
<1>1. Init => CInv /\ RInv
  BY InitCInv, InitRInv
<1>2. IInv /\ CInv /\ [Next]_vars => CInv'
  BY NextCInv
<1>3. IInv /\ CInv /\ RInv /\ [Next]_vars => RInv'
  BY NextRInv
<1> QED
  BY <1>1, <1>2, <1>3, Invariant, PTL DEF Spec

\* Disconnecting a client reaches every analysis it has left behind, at work or
\* still in the pipe, whatever else is written meanwhile.
THEOREM DisconnectReachesWork ==
  ASSUME Warnings = FALSE
  PROVE  Spec => []CancelReachesWork
<1>1. RInv => CancelReachesWork
  BY DEF RInv
<1> QED
  BY <1>1, CountsAndTerminates, PTL
=============================================================================
