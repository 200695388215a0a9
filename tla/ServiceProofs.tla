---------------------------- MODULE ServiceProofs -----------------------------
(***************************************************************************)
(* Proofs about the service and its commands: types always; and, when      *)
(* commands are given one after the other, what status says, what          *)
(* reset-link revokes and what stop leaves behind, however often service   *)
(* processes fail, crash or have to be killed.                             *)
(***************************************************************************)
EXTENDS ServiceRefinement, TLAPS

-----------------------------------------------------------------------------
(* Types.                                                                  *)

LEMMA InitTypeOK == Init => TypeOK
<1> SUFFICES ASSUME Init PROVE TypeOK
  OBVIOUS
<1>1. FilesTypeOK
  BY DEF Init, FilesTypeOK
<1>2. CommandsTypeOK
  BY DEF Init, CommandsTypeOK, Places, InStop
<1>3. ProcessesTypeOK
  BY ServiceAssumption DEF Init, ProcessesTypeOK, RunStates, Open
<1> QED
  BY <1>1, <1>2, <1>3 DEF TypeOK

\* A command moves on; the ones that then work on a process have read it.
LEMMA CommandMoves ==
  ASSUME CommandsTypeOK, NEW c \in Command, NEW place \in Places,
         at' = [at EXCEPT ![c] = place], UNCHANGED op,
         \/ UNCHANGED saw
         \/ \E p \in Process \cup {None} : saw' = [saw EXCEPT ![c] = p],
         \/ UNCHANGED child
         \/ \E p \in Process : child' = [child EXCEPT ![c] = p],
         place \in {"signalling", "waiting"} => saw'[c] # None,
         place = "polling" => child'[c] # None,
         place \in {"reading", "signalling", "waiting", "erasing",
                   "erasing-link"} => InStop(c)
  PROVE  CommandsTypeOK'
BY DEF CommandsTypeOK, InStop

\* Stop.
LEMMA StopTypeOK ==
  ASSUME TypeOK, NEW c \in Command, Stop(c)
  PROVE  TypeOK'
<1> USE DEF TypeOK, FilesTypeOK, Go
<1>0. InStop(c)
  BY DEF Stop, StopInTime, ReadState, SendSIGTERM, SeeItGone, EraseProcessFile,
         EraseConnectionFile, ForceKill, InStop
<1>5. AfterStop(c) \in {"done", "checking", "rotating"}
  BY <1>0 DEF AfterStop, CommandsTypeOK
<1>1. CASE ReadState(c)
  <2>1. PICK place \in Places :
          /\ at' = [at EXCEPT ![c] = place]
          /\ place \in {"signalling", "waiting"} => processFile # None
          /\ place # "polling"
    BY <1>5, <1>1 DEF ReadState, Running, Places
  <2>2. saw' = [saw EXCEPT ![c] = processFile] /\ saw'[c] = processFile
    BY <1>1 DEF ReadState, CommandsTypeOK
  <2>3. CommandsTypeOK'
    BY <1>0, <1>1, <2>1, <2>2, CommandMoves DEF ReadState
  <2> QED
    BY <1>1, <2>3 DEF ReadState, files, processes, ProcessesTypeOK, Open
<1>2. CASE SendSIGTERM(c)
  <2>1. PICK place \in {"waiting", "done"} : at' = [at EXCEPT ![c] = place]
    BY <1>2 DEF SendSIGTERM
  <2>2. saw[c] \in Process
    BY <1>2 DEF SendSIGTERM, CommandsTypeOK
  <2>3. CommandsTypeOK'
    BY <1>0, <1>2, <2>1, <2>2, ServiceAssumption, CommandMoves
       DEF SendSIGTERM, Places
  <2>4. ProcessesTypeOK'
    BY <1>2, <2>2 DEF SendSIGTERM, ProcessesTypeOK, Open
  <2> QED
    BY <1>2, <2>3, <2>4 DEF SendSIGTERM, files
<1>3. CASE SeeItGone(c) \/ EraseProcessFile(c) \/ EraseConnectionFile(c)
  <2>1. PICK place \in Places \ {"signalling", "waiting", "polling"} :
          at' = [at EXCEPT ![c] = place]
    BY <1>5, <1>3
       DEF SeeItGone, EraseProcessFile, EraseConnectionFile, Places
  <2>2. UNCHANGED <<op, saw, child, processes>>
    BY <1>3 DEF SeeItGone, EraseProcessFile, EraseConnectionFile
  <2>3. CommandsTypeOK'
    BY <1>0, <2>1, <2>2, CommandMoves
  <2>4. FilesTypeOK'
    BY <1>3 DEF SeeItGone, EraseProcessFile, EraseConnectionFile, files
  <2> QED
    BY <2>2, <2>3, <2>4 DEF processes, ProcessesTypeOK, Open
<1>4. CASE ForceKill(c)
  <2>1. saw[c] \in Process
    BY <1>4 DEF ForceKill, CommandsTypeOK
  <2>2. CommandsTypeOK'
    BY <1>0, <1>4, CommandMoves DEF ForceKill, Places
  <2>3. run' \in [Process -> RunStates] /\ port' \in Process \cup {None}
    BY <1>4 DEF ForceKill, ProcessesTypeOK, RunStates
  <2>4. ASSUME NEW p \in Process, port' = p PROVE Open(p)'
    BY <1>4, <2>1, <2>4, ServiceAssumption
       DEF ForceKill, ProcessesTypeOK, Open, Alive, Ended
  <2> QED
    BY <1>4, <2>2, <2>3, <2>4 DEF ForceKill, files, ProcessesTypeOK
<1> QED
  BY <1>1, <1>2, <1>3, <1>4 DEF Stop, StopInTime

\* The token that reset-link generates is numbered like the others.
LEMMA NextToken == ASSUME NEW n \in Nat PROVE n + 1 \in Nat
OBVIOUS

\* The other operations of the commands.
LEMMA StartTypeOK ==
  ASSUME TypeOK, NEW c \in Command, RotateToken(c) \/ StartDaemon(c)
  PROVE  TypeOK'
<1> USE DEF TypeOK, FilesTypeOK, Go
<1>1. CASE Spawn(c)
  <2>1. PICK p \in Process :
          /\ run[p] = "unborn" /\ run' = [run EXCEPT ![p] = "spawned"]
          /\ child' = [child EXCEPT ![c] = p]
    BY <1>1 DEF Spawn
  <2>2. at' = [at EXCEPT ![c] = "polling"] /\ child'[c] = p
    BY <1>1, <2>1 DEF Spawn, CommandsTypeOK
  <2>3. CommandsTypeOK'
    BY <1>1, <2>1, <2>2, ServiceAssumption, CommandMoves DEF Spawn, Places
  <2>4. ProcessesTypeOK'
    BY <1>1, <2>1 DEF Spawn, ProcessesTypeOK, RunStates, Open
  <2> QED
    BY <1>1, <2>3, <2>4 DEF Spawn, files
<1>2. CASE \/ RotateToken(c) \/ CheckStatus(c) \/ ClearConnectionFile(c)
           \/ ClearProcessFile(c) \/ PollEnds(c)
  <2>1. PICK place \in {"checking", "done", "clearing-link", "clearing",
                       "spawning"} :
          at' = [at EXCEPT ![c] = place]
    BY <1>2 DEF RotateToken, CheckStatus, ClearConnectionFile,
                ClearProcessFile, PollEnds
  <2>2. UNCHANGED <<op, saw, child, processes>>
    BY <1>2 DEF RotateToken, CheckStatus, ClearConnectionFile,
                ClearProcessFile, PollEnds
  <2>3. CommandsTypeOK'
    BY <2>1, <2>2, CommandMoves DEF Places
  <2>4. FilesTypeOK'
    <3>1. CASE RotateToken(c)
      <4>1. tokenFile' = tokenFile + 1 /\ UNCHANGED <<processFile, connectionFile>>
        BY <3>1 DEF RotateToken
      <4>2. tokenFile' \in Nat
        BY <4>1, NextToken
      <4> QED
        BY <4>1, <4>2
    <3>2. CASE ClearConnectionFile(c) \/ ClearProcessFile(c)
      BY <3>2 DEF ClearConnectionFile, ClearProcessFile
    <3>3. CASE CheckStatus(c) \/ PollEnds(c)
      BY <3>3 DEF CheckStatus, PollEnds, files
    <3> QED
      BY <1>2, <3>1, <3>2, <3>3
  <2> QED
    BY <2>2, <2>3, <2>4 DEF processes, ProcessesTypeOK, Open
<1> QED
  BY <1>1, <1>2 DEF StartDaemon

\* A service process.
LEMMA ProcessTypeOK ==
  ASSUME TypeOK, NEW p \in Process,
         RunStep(p) \/ ContextKillsTunnel(p) \/ ByItself(p)
  PROVE  TypeOK'
<1> USE DEF TypeOK
<1>1. CommandsTypeOK'
  <2>1. UNCHANGED commands
    BY DEF RunStep, ReadToken, Record, StartEngine, Listen, StartTunnel,
           AwaitTunnel, Publish, WriteQR, SignalSeen, Close, RemoveConnection, CheckRecord,
           RemoveRecord, ByItself, ComponentEnds, TunnelEnds, ServerEnds,
           ContextKillsTunnel, Crash
  <2> QED
    BY <2>1 DEF commands, CommandsTypeOK, InStop
<1>2. FilesTypeOK'
  <2>1. served[p] \in Nat
    BY DEF ProcessesTypeOK
  <2>2. [of |-> p, token |-> served[p]] \in Link
    BY <2>1 DEF Link
  <2>3. /\ processFile' \in {processFile, p, None}
        /\ connectionFile' \in
             {connectionFile, [of |-> p, token |-> served[p]], None}
        /\ tokenFile' = tokenFile
    BY DEF RunStep, ReadToken, Record, StartEngine, Listen, StartTunnel,
           AwaitTunnel, Publish, WriteQR, SignalSeen, Close, RemoveConnection, CheckRecord,
           RemoveRecord, ByItself, ComponentEnds, TunnelEnds, ServerEnds,
           ContextKillsTunnel, Crash, files
  <2> QED
    BY <2>2, <2>3 DEF FilesTypeOK
<1>3. ProcessesTypeOK'
  <2>1. CASE ReadToken(p)
    <3>1. served' \in [Process -> Nat]
      BY <2>1 DEF ReadToken, ProcessesTypeOK, FilesTypeOK
    <3> QED
      BY <2>1, <3>1 DEF ReadToken, Step, ProcessesTypeOK, RunStates, Open
  <2>2. CASE \/ Record(p) \/ StartEngine(p) \/ AwaitTunnel(p) \/ WriteQR(p)
             \/ SignalSeen(p) \/ RemoveConnection(p) \/ CheckRecord(p)
             \/ RemoveRecord(p)
    BY <2>2 DEF Record, StartEngine, AwaitTunnel, WriteQR, SignalSeen,
                RemoveConnection, CheckRecord, RemoveRecord, Step,
                ProcessesTypeOK, RunStates, Open
  <2>3. CASE Listen(p)
    BY <2>3, ServiceAssumption
       DEF Listen, Step, ProcessesTypeOK, RunStates, Open
  <2>4. CASE StartTunnel(p) \/ Publish(p) \/ ComponentEnds(p)
    BY <2>4 DEF StartTunnel, Publish, ComponentEnds, Step, ProcessesTypeOK,
                RunStates, Open
  <2>5. CASE Close(p)
    BY <2>5, ServiceAssumption
       DEF Close, Step, ProcessesTypeOK, RunStates, Open
  <2>6. CASE ContextKillsTunnel(p) \/ TunnelEnds(p) \/ ServerEnds(p)
    BY <2>6, ServiceAssumption
       DEF ContextKillsTunnel, TunnelEnds, ServerEnds, ProcessesTypeOK, Open
  <2>7. CASE Crash(p)
    BY <2>7, ServiceAssumption
       DEF Crash, ProcessesTypeOK, RunStates, Open, Alive, Ended
  <2> QED
    BY <2>1, <2>2, <2>3, <2>4, <2>5, <2>6, <2>7 DEF RunStep, ByItself
<1> QED
  BY <1>1, <1>2, <1>3

LEMMA NextTypeOK == TypeOK /\ [Next]_vars => TypeOK'
<1> SUFFICES ASSUME TypeOK, [Next]_vars PROVE TypeOK'
  OBVIOUS
<1>1. CASE UNCHANGED vars
  BY <1>1 DEF vars, TypeOK, FilesTypeOK, CommandsTypeOK, ProcessesTypeOK, Open,
              InStop
<1>2. CASE Idle
  BY <1>1, <1>2 DEF Idle
<1>3. ASSUME NEW c \in Command,
             NEW o \in {"start", "stop", "restart", "reset-link"}, Give(c, o)
      PROVE  TypeOK'
  <2>1. CommandsTypeOK'
    BY <1>3 DEF Give, Go, TypeOK, CommandsTypeOK, Places, InStop
  <2> QED
    BY <1>3, <2>1 DEF Give, files, processes, TypeOK, FilesTypeOK,
                      ProcessesTypeOK, Open
<1> QED
  BY <1>1, <1>2, <1>3, StopTypeOK, StartTypeOK, ProcessTypeOK DEF Next

\* Every variable keeps its type and the port its holder, for any number of
\* commands and service processes, overlapping or not.
THEOREM ServiceTypeCorrect == Spec => []TypeOK
BY InitTypeOK, NextTypeOK, PTL DEF Spec

-----------------------------------------------------------------------------
(* Commands one after the other: the inductive invariant.                  *)

\* A process that has not yet recorded itself.
Young(p) == run[p] \in {"spawned", "read"}

\* One command at a time, and one service process.
OneAtATime ==
  /\ \A c, d \in Command : Active(c) /\ Active(d) => c = d
  /\ \A p, q \in Process : Alive(p) /\ Alive(q) => p = q

\* service.json names the service process, unless it is too young, and then
\* its start command waits for it.
Named ==
  /\ \A p \in Process : Alive(p) /\ ~Young(p) => processFile = p
  /\ \A p \in Process : Young(p) =>
       /\ processFile = None
       /\ \E c \in Command : at[c] = "polling" /\ child[c] = p
  /\ \A c \in Command : at[c] = "spawning" => processFile = None

\* What a command has found out stays true while it acts on it.
StillTrue ==
  \A c \in Command :
    /\ at[c] \in {"erasing", "erasing-link", "rotating", "clearing-link",
                  "clearing", "spawning"}
         => \A p \in Process : ~Alive(p)
    /\ at[c] \in {"signalling", "waiting"}
         => \A p \in Process : Alive(p) => p = saw[c]

\* What is published, served and up belongs to the service process.
Linked ==
  \A p \in Process :
    /\ run[p] \in {"published", "serving"}
         => connectionFile = [of |-> p, token |-> served[p]]
    /\ run[p] = "unborn" => served[p] = 0
    /\ Alive(p) /\ served[p] # 0 => served[p] = tokenFile
    /\ p \in tunnelUp
         => run[p] \in {"awaiting", "tunnelled", "published", "serving",
                    "closing", "killed"}

SInv == TypeOK /\ OneAtATime /\ Named /\ StillTrue /\ Linked

LEMMA InitSInv == Init => SInv
<1> SUFFICES ASSUME Init PROVE SInv
  OBVIOUS
<1>1. \A p \in Process : ~Alive(p) /\ ~Young(p)
  BY DEF Init, Alive, Ended, Young
<1>2. \A c \in Command : ~Active(c)
  BY DEF Init, Active
<1> QED
  BY <1>1, <1>2, InitTypeOK
     DEF Init, SInv, OneAtATime, Named, StillTrue, Linked

\* What there is to stop has been found: no file, or a process that does not
\* match, means no service.
LEMMA NothingRuns ==
  ASSUME SInv, NEW c \in Command, at[c] \in {"reading", "checking"}
  PROVE  /\ ~Running => \A p \in Process : ~Alive(p)
         /\ \A p \in Process : Alive(p) => p = processFile
<1>1. ASSUME NEW p \in Process, Alive(p) PROVE ~Young(p)
  <2> SUFFICES ASSUME Young(p) PROVE FALSE
    OBVIOUS
  <2>1. PICK d \in Command : at[d] = "polling"
    BY DEF SInv, Named
  <2>2. Active(c) /\ Active(d)
    BY <2>1 DEF Active
  <2> QED
    BY <2>1, <2>2 DEF SInv, OneAtATime
<1>2. \A p \in Process : Alive(p) => p = processFile
  BY <1>1 DEF SInv, Named
<1> QED
  BY <1>2, ServiceAssumption DEF Running, ProcessMatches

-----------------------------------------------------------------------------
(* The commands preserve it.                                               *)

\* A command moves on and the service process, if any, lives as it did.
LEMMA CommandKeeps ==
  ASSUME SInv, TypeOK', NEW c \in Command, NEW place \in Places,
         Active(c), at' = [at EXCEPT ![c] = place],
         UNCHANGED <<child, run, served>>, tunnelUp' = tunnelUp,
         at[c] # "polling" \/ \A p \in Process : ~Young(p),
         \A d \in Command \ {c} : saw'[d] = saw[d],
         \/ UNCHANGED <<processFile, connectionFile, tokenFile>>
         \/ \A p \in Process : ~Alive(p),
         place = "spawning" => processFile' = None,
         place \in {"erasing", "erasing-link", "rotating", "clearing-link",
                    "clearing", "spawning"} => \A p \in Process : ~Alive(p),
         place \in {"signalling", "waiting"}
           => \A p \in Process : Alive(p) => p = saw'[c]
  PROVE  SInv'
<1> USE DEF SInv
<1>1. /\ at'[c] = place
      /\ \A d \in Command \ {c} : at'[d] = at[d] /\ ~Active(d) /\ ~Active(d)'
      /\ \A p \in Process : (Alive(p)' <=> Alive(p)) /\ (Young(p)' <=> Young(p))
  BY DEF TypeOK, CommandsTypeOK, OneAtATime, Active, Alive, Ended, Young
<1>2. OneAtATime'
  BY <1>1 DEF OneAtATime
<1>3. Named'
  <2>1. ASSUME NEW p \in Process, Alive(p)', ~Young(p)' PROVE processFile' = p
    BY <1>1, <2>1 DEF Named
  <2>2. ASSUME NEW p \in Process, Young(p)'
        PROVE  /\ processFile' = None
               /\ \E d \in Command : at'[d] = "polling" /\ child'[d] = p
    <3>1. Young(p) /\ Alive(p)
      BY <1>1, <2>2 DEF Young, Alive, Ended
    <3>2. PICK d \in Command : at[d] = "polling" /\ child[d] = p
      BY <3>1 DEF Named
    <3>3. d # c
      BY <3>1, <3>2
    <3> QED
      BY <1>1, <3>1, <3>2, <3>3 DEF Named
  <2>3. ASSUME NEW d \in Command, at'[d] = "spawning" PROVE processFile' = None
    BY <1>1, <2>3 DEF Active
  <2> QED
    BY <2>1, <2>2, <2>3 DEF Named
<1>4. StillTrue'
  <2>1. ASSUME NEW d \in Command \ {c}
        PROVE  at'[d] \in {"idle", "done"}
    BY <1>1 DEF Active
  <2> QED
    BY <1>1, <2>1 DEF StillTrue
<1>5. Linked'
  <2> SUFFICES ASSUME NEW p \in Process
               PROVE  /\ run'[p] \in {"published", "serving"}
                           => connectionFile' = [of |-> p, token |-> served'[p]]
                      /\ run'[p] = "unborn" => served'[p] = 0
                      /\ Alive(p)' /\ served'[p] # 0 => served'[p] = tokenFile'
                      /\ p \in tunnelUp'
                           => run'[p] \in {"awaiting", "tunnelled", "published",
                                   "serving", "closing", "killed"}
    BY DEF Linked
  <2>1. run[p] \in {"published", "serving"} => Alive(p)
    BY DEF Alive, Ended
  <2> QED
    BY <1>1, <2>1 DEF Linked
<1> QED
  BY <1>2, <1>3, <1>4, <1>5

LEMMA StopSInv ==
  ASSUME SInv, TypeOK', NEW c \in Command, Stop(c)
  PROVE  SInv'
<1> USE DEF SInv
<1>0. InStop(c) /\ Active(c) /\ at[c] # "polling"
  BY DEF Stop, StopInTime, ReadState, SendSIGTERM, SeeItGone, EraseProcessFile,
         EraseConnectionFile, ForceKill, InStop, Active
<1>1. AfterStop(c) \in {"done", "checking", "rotating"}
  BY <1>0 DEF AfterStop, TypeOK, CommandsTypeOK
<1>2. CASE ReadState(c)
  <2>1. /\ ~Running => \A p \in Process : ~Alive(p)
        /\ \A p \in Process : Alive(p) => p = processFile
    BY <1>2, NothingRuns DEF ReadState
  <2>2. PICK place \in {"done", "checking", "rotating", "signalling", "erasing"} :
          /\ at' = [at EXCEPT ![c] = place]
          /\ place # "signalling" => ~Running
    BY <1>1, <1>2 DEF ReadState, Go, Running
  <2>3. /\ saw'[c] = processFile
        /\ \A d \in Command \ {c} : saw'[d] = saw[d]
        /\ UNCHANGED <<files, op, child, processes>>
    BY <1>2 DEF ReadState, TypeOK, CommandsTypeOK
  <2> QED
    BY <1>0, <2>1, <2>2, <2>3, CommandKeeps DEF files, processes, Places
<1>3. CASE SendSIGTERM(c)
  <2>1. PICK place \in {"waiting", "done"} : at' = [at EXCEPT ![c] = place]
    BY <1>3 DEF SendSIGTERM, Go
  <2>2. \A p \in Process : Alive(p) => p = saw[c]
    BY <1>3 DEF SendSIGTERM, StillTrue
  <2> QED
    BY <1>0, <1>3, <2>1, <2>2, CommandKeeps DEF SendSIGTERM, files, Places
<1>4. CASE SeeItGone(c)
  <2>1. \A p \in Process : ~Alive(p)
    BY <1>4 DEF SeeItGone, StillTrue, ProcessMatches
  <2> QED
    BY <1>0, <1>4, <2>1, CommandKeeps
       DEF SeeItGone, Go, files, processes, Places
<1>5. CASE EraseProcessFile(c)
  <2>1. \A p \in Process : ~Alive(p)
    BY <1>5 DEF EraseProcessFile, StillTrue
  <2> QED
    BY <1>0, <1>5, <2>1, CommandKeeps
       DEF EraseProcessFile, Go, processes, Places
<1>6. CASE EraseConnectionFile(c)
  <2>1. \A p \in Process : ~Alive(p)
    BY <1>6 DEF EraseConnectionFile, StillTrue
  <2> QED
    BY <1>0, <1>1, <1>6, <2>1, CommandKeeps
       DEF EraseConnectionFile, Go, processes, Places
<1>7. CASE ForceKill(c)
  <2>1. /\ saw[c] \in Process
        /\ \A p \in Process : Alive(p) => p = saw[c]
        /\ Alive(saw[c]) => saw[c] \notin tunnelUp
    BY <1>7 DEF ForceKill, StillTrue, TypeOK, CommandsTypeOK
  <2>2. /\ at' = [at EXCEPT ![c] = "erasing"]
        /\ run' = [run EXCEPT ![saw[c]] = IF Alive(saw[c]) THEN "exited" ELSE @]
        /\ UNCHANGED <<files, op, saw, child, served, signalled, tunnelUp>>
    BY <1>7 DEF ForceKill, Go
  <2>3. /\ \A p \in Process : ~Alive(p)' /\ ~Young(p)'
        /\ \A p \in Process : ~Alive(p) => run'[p] = run[p]
    BY <2>1, <2>2 DEF TypeOK, ProcessesTypeOK, Alive, Ended, Young
  <2>4. /\ at'[c] = "erasing"
        /\ \A d \in Command \ {c} : at'[d] = at[d] /\ ~Active(d) /\ ~Active(d)'
    BY <1>0, <2>2 DEF TypeOK, CommandsTypeOK, OneAtATime, Active
  <2>5. OneAtATime' /\ StillTrue'
    BY <2>3, <2>4 DEF OneAtATime, StillTrue, Active
  <2>6. Named'
    BY <2>3, <2>4 DEF Named, Active
  <2>7. Linked'
    <3> SUFFICES ASSUME NEW p \in Process
                 PROVE  /\ run'[p] \notin {"published", "serving"}
                        /\ run'[p] = "unborn" => run[p] = "unborn"
                        /\ p \in tunnelUp => run'[p] = "killed"
      BY <2>2, <2>3 DEF Linked
    <3>1. run'[p] \notin {"published", "serving", "awaiting", "tunnelled", "closing"}
      BY <2>3 DEF Alive, Ended
    <3>2. p \in tunnelUp \/ run'[p] = "unborn" => run'[p] = run[p]
      BY <2>1, <2>2, <2>3 DEF TypeOK, ProcessesTypeOK
    <3> QED
      BY <3>1, <3>2 DEF Linked
  <2> QED
    BY <2>5, <2>6, <2>7
<1> QED
  BY <1>2, <1>3, <1>4, <1>5, <1>6, <1>7 DEF Stop, StopInTime

LEMMA StartSInv ==
  ASSUME SInv, TypeOK', NEW c \in Command, RotateToken(c) \/ StartDaemon(c)
  PROVE  SInv'
<1> USE DEF SInv
<1>0. Active(c)
  BY DEF RotateToken, StartDaemon, CheckStatus, ClearConnectionFile,
         ClearProcessFile, Spawn, PollEnds, Active
<1>1. CASE CheckStatus(c)
  <2>1. ~Running => \A p \in Process : ~Alive(p)
    BY <1>1, NothingRuns DEF CheckStatus
  <2>2. PICK place \in {"done", "clearing-link"} :
          /\ at' = [at EXCEPT ![c] = place]
          /\ place = "clearing-link" => ~Running
    BY <1>1 DEF CheckStatus, Go
  <2>3. at[c] # "polling" /\ UNCHANGED <<files, op, saw, child, processes>>
    BY <1>1 DEF CheckStatus
  <2> QED
    BY <1>0, <2>1, <2>2, <2>3, CommandKeeps DEF files, processes, Places
<1>2. CASE RotateToken(c)
  <2>1. \A p \in Process : ~Alive(p)
    BY <1>2 DEF RotateToken, StillTrue
  <2> QED
    BY <1>0, <1>2, <2>1, CommandKeeps DEF RotateToken, Go, processes, Places
<1>3. CASE ClearConnectionFile(c)
  <2>1. \A p \in Process : ~Alive(p)
    BY <1>3 DEF ClearConnectionFile, StillTrue
  <2> QED
    BY <1>0, <1>3, <2>1, CommandKeeps
       DEF ClearConnectionFile, Go, processes, Places
<1>4. CASE ClearProcessFile(c)
  <2>1. \A p \in Process : ~Alive(p)
    BY <1>4 DEF ClearProcessFile, StillTrue
  <2> QED
    BY <1>0, <1>4, <2>1, CommandKeeps
       DEF ClearProcessFile, Go, processes, Places
<1>5. CASE PollEnds(c)
  <2>1. ASSUME NEW p \in Process, Young(p) PROVE FALSE
    <3>1. processFile = None
      BY <2>1 DEF Named
    <3>2. PICK d \in Command : at[d] = "polling" /\ child[d] = p
      BY <2>1 DEF Named
    <3>3. d = c
      BY <1>0, <3>2 DEF OneAtATime, Active
    <3> QED
      BY <1>5, <2>1, <3>1, <3>2, <3>3 DEF PollEnds, Connected, Running, Young
  <2>2. /\ at' = [at EXCEPT ![c] = "done"]
        /\ UNCHANGED <<files, op, saw, child, processes>>
    BY <1>5 DEF PollEnds, Go
  <2> QED
    BY <1>0, <2>1, <2>2, CommandKeeps DEF files, processes, Places
<1>6. CASE Spawn(c)
  <2>1. PICK p \in Process :
          /\ run[p] = "unborn" /\ run' = [run EXCEPT ![p] = "spawned"]
          /\ child' = [child EXCEPT ![c] = p]
    BY <1>6 DEF Spawn
  <2>2. /\ at[c] = "spawning" /\ at' = [at EXCEPT ![c] = "polling"]
        /\ UNCHANGED <<files, op, saw, served, signalled, tunnelUp, port>>
        /\ processFile = None /\ \A q \in Process : ~Alive(q)
    BY <1>6 DEF Spawn, Go, Named, StillTrue
  <2>3. /\ at'[c] = "polling" /\ child'[c] = p /\ run'[p] = "spawned"
        /\ \A d \in Command \ {c} : at'[d] = at[d] /\ ~Active(d) /\ ~Active(d)'
        /\ \A q \in Process \ {p} : run'[q] = run[q] /\ ~Alive(q)'
        /\ Young(p)'
    BY <1>0, <2>1, <2>2
       DEF TypeOK, CommandsTypeOK, ProcessesTypeOK, OneAtATime, Active, Alive,
           Ended, Young
  <2>4. OneAtATime'
    BY <2>3 DEF OneAtATime
  <2>5. Named'
    BY <2>2, <2>3 DEF Named, Active, Young, Alive, Ended, files
  <2>6. StillTrue'
    BY <2>3 DEF StillTrue, Active
  <2>7. Linked'
    <3>1. served[p] = 0
      BY <2>1 DEF Linked
    <3>2. p \notin tunnelUp
      BY <2>1 DEF Linked
    <3>3. ASSUME NEW q \in Process \ {p}
          PROVE  /\ run'[q] \notin {"published", "serving"}
                 /\ run'[q] = "unborn" => served[q] = 0
                 /\ q \in tunnelUp => run'[q] = "killed"
      BY <2>3 DEF Linked, Alive, Ended
    <3> QED
      BY <2>2, <2>3, <3>1, <3>2, <3>3 DEF Linked
  <2> QED
    BY <2>4, <2>5, <2>6, <2>7
<1> QED
  BY <1>1, <1>2, <1>3, <1>4, <1>5, <1>6 DEF StartDaemon

-----------------------------------------------------------------------------
(* The service process preserves it.                                       *)

\* What the service process does to itself and to its own files concerns no
\* other.
LEMMA ProcessKeeps ==
  ASSUME SInv, TypeOK', NEW p \in Process, NEW to \in RunStates,
         Alive(p), run' = [run EXCEPT ![p] = to], UNCHANGED commands,
         to \notin {"unborn", "spawned"}, to = "read" => run[p] = "spawned",
         tokenFile' = tokenFile,
         to = "read" => processFile' = processFile,
         to \in {"read", "exited", "killed"} \/ processFile' = p,
         \A q \in Process \ {p} :
           served'[q] = served[q] /\ (q \in tunnelUp' => q \in tunnelUp),
         to \in {"published", "serving"}
           => connectionFile' = [of |-> p, token |-> served'[p]],
         served'[p] \in {served[p], tokenFile},
         p \in tunnelUp'
           => to \in {"awaiting", "tunnelled", "published", "serving",
                    "closing", "killed"}
  PROVE  SInv'
<1> USE DEF SInv
<1>1. /\ run'[p] = to
      /\ \A q \in Process \ {p} : run'[q] = run[q] /\ ~Alive(q) /\ ~Alive(q)'
      /\ UNCHANGED <<at, child, saw>>
  BY DEF TypeOK, ProcessesTypeOK, OneAtATime, Alive, Ended, commands
<1>2. \A q \in Process : Young(q)' => q = p /\ Young(p) /\ to = "read"
  BY <1>1 DEF Young, Alive, Ended
<1>3. OneAtATime'
  BY <1>1 DEF OneAtATime, Active
<1>4. StillTrue'
  BY <1>1 DEF StillTrue
<1>5. Named'
  <2>1. ASSUME NEW q \in Process, Alive(q)', ~Young(q)' PROVE processFile' = q
    BY <1>1, <2>1 DEF Alive, Ended, Young
  <2>2. ASSUME NEW q \in Process, Young(q)'
        PROVE  /\ processFile' = None
               /\ \E c \in Command : at'[c] = "polling" /\ child'[c] = q
    BY <1>1, <1>2, <2>2 DEF Named
  <2>3. ASSUME NEW c \in Command, at'[c] = "spawning" PROVE processFile' = None
    BY <1>1, <2>3 DEF StillTrue
  <2> QED
    BY <2>1, <2>2, <2>3 DEF Named
<1>6. Linked'
  <2>1. ASSUME NEW q \in Process \ {p}
        PROVE  /\ run'[q] \notin {"published", "serving"}
               /\ run'[q] = "unborn" => served'[q] = 0
               /\ q \in tunnelUp' => run'[q] = "killed"
    BY <1>1 DEF Linked, Alive, Ended
  <2>2. Alive(p)' /\ served'[p] # 0 => served'[p] = tokenFile'
    BY DEF Linked
  <2> QED
    BY <1>1, <2>1, <2>2 DEF Linked
<1> QED
  BY <1>3, <1>4, <1>5, <1>6

\* A tunnel or a listener that is gone is missed by nobody.
LEMMA PartEndsKeeps ==
  ASSUME SInv, TypeOK', UNCHANGED <<files, commands, run, served>>,
         tunnelUp' \subseteq tunnelUp
  PROVE  SInv'
<1> USE DEF SInv, files, commands
<1>1. \A p \in Process : (Alive(p)' <=> Alive(p)) /\ (Young(p)' <=> Young(p))
  BY DEF Alive, Ended, Young
<1>2. OneAtATime' /\ StillTrue'
  BY <1>1 DEF OneAtATime, StillTrue, Active
<1>3. Named'
  BY <1>1 DEF Named
<1>4. Linked'
  BY <1>1 DEF Linked
<1> QED
  BY <1>2, <1>3, <1>4

LEMMA ProcessSInv ==
  ASSUME SInv, TypeOK', NEW p \in Process,
         RunStep(p) \/ ContextKillsTunnel(p) \/ ByItself(p)
  PROVE  SInv'
<1> USE DEF SInv
<1>1. /\ UNCHANGED commands
      /\ served \in [Process -> Nat] /\ run \in [Process -> RunStates]
  BY DEF RunStep, ReadToken, Record, StartEngine, Listen, StartTunnel,
         AwaitTunnel, Publish, WriteQR, SignalSeen, Close, RemoveConnection, CheckRecord,
         RemoveRecord, ByItself, ComponentEnds, TunnelEnds, ServerEnds,
           ContextKillsTunnel, Crash, TypeOK,
         ProcessesTypeOK
<1>2. /\ run[p] \in {"published", "serving"}
           => connectionFile = [of |-> p, token |-> served[p]]
      /\ p \in tunnelUp
           => run[p] \in {"awaiting", "tunnelled", "published",
                                   "serving", "closing", "killed"}
  BY DEF Linked
<1>3. Alive(p) /\ ~Young(p) => processFile = p
  BY DEF Named
<1> USE DEF Step, Alive, Ended, Young, RunStates, files
<1>4. CASE ReadToken(p)
  <2>1. /\ \/ served'[p] = tokenFile
           \/ served' = served /\ run'[p] = "exited"
        /\ \A q \in Process \ {p} : served'[q] = served[q]
    BY <1>1, <1>4 DEF ReadToken
  <2> QED
    BY <1>1, <1>2, <1>4, <2>1, ProcessKeeps DEF ReadToken
<1>5. CASE Record(p)
  BY <1>1, <1>2, <1>5, ProcessKeeps DEF Record
<1>6. CASE StartEngine(p)
  BY <1>1, <1>2, <1>3, <1>6, ProcessKeeps DEF StartEngine
<1>7. CASE Listen(p)
  BY <1>1, <1>2, <1>3, <1>7, ProcessKeeps DEF Listen
<1>8. CASE StartTunnel(p) \/ AwaitTunnel(p)
  BY <1>1, <1>2, <1>3, <1>8, ProcessKeeps DEF StartTunnel, AwaitTunnel
<1>9. CASE Publish(p)
  BY <1>1, <1>2, <1>3, <1>9, ProcessKeeps DEF Publish
<1>10. CASE WriteQR(p) \/ SignalSeen(p) \/ ComponentEnds(p)
  BY <1>1, <1>2, <1>3, <1>10, ProcessKeeps DEF WriteQR, SignalSeen, ComponentEnds
<1>11. CASE Close(p)
  BY <1>1, <1>2, <1>3, <1>11, ProcessKeeps DEF Close
<1>12. CASE RemoveConnection(p)
  BY <1>1, <1>2, <1>3, <1>12, ProcessKeeps DEF RemoveConnection
<1>13. CASE CheckRecord(p) \/ RemoveRecord(p)
  BY <1>1, <1>2, <1>3, <1>13, ProcessKeeps DEF CheckRecord, RemoveRecord
<1>14. CASE ContextKillsTunnel(p) \/ TunnelEnds(p) \/ ServerEnds(p)
  BY <1>14, PartEndsKeeps DEF ContextKillsTunnel, TunnelEnds, ServerEnds
<1>15. CASE Crash(p)
  BY <1>1, <1>2, <1>15, ProcessKeeps DEF Crash
<1> QED
  BY <1>4, <1>5, <1>6, <1>7, <1>8, <1>9, <1>10, <1>11, <1>12, <1>13, <1>14, <1>15
     DEF RunStep, ByItself

-----------------------------------------------------------------------------
(* Every step, and the theorems.                                           *)

LEMMA GiveSInv ==
  ASSUME Overlap = FALSE, SInv, TypeOK', NEW c \in Command,
         NEW o \in {"start", "stop", "restart", "reset-link"}, Give(c, o)
  PROVE  SInv'
<1> USE DEF SInv
<1>1. PICK place \in {"checking", "reading"} :
        /\ at' = [at EXCEPT ![c] = place]
        /\ UNCHANGED <<files, saw, child, processes>>
        /\ \A d \in Command : ~Active(d)
  BY DEF Give, Go
<1>2. /\ at'[c] = place
      /\ \A d \in Command \ {c} : at'[d] = at[d] /\ ~Active(d)'
      /\ \A d \in Command : at[d] # "polling"
  BY <1>1 DEF TypeOK, CommandsTypeOK, Active
<1>3. \A p \in Process : ~Young(p) /\ ~Young(p)' /\ (Alive(p)' <=> Alive(p))
  BY <1>1, <1>2 DEF Named, Young, Alive, Ended, processes
<1>4. OneAtATime' /\ Named'
  BY <1>1, <1>2, <1>3 DEF OneAtATime, Named, files
<1>5. StillTrue'
  BY <1>1, <1>2 DEF StillTrue, Active
<1>6. Linked'
  BY <1>1, <1>3 DEF Linked, files, processes
<1> QED
  BY <1>4, <1>5, <1>6

LEMMA NextSInv ==
  ASSUME Overlap = FALSE
  PROVE  SInv /\ [Next]_vars => SInv'
<1> SUFFICES ASSUME SInv, [Next]_vars PROVE SInv'
  OBVIOUS
<1>1. TypeOK'
  BY NextTypeOK DEF SInv
<1>2. CASE UNCHANGED vars
  BY <1>1, <1>2 DEF vars, SInv, OneAtATime, Named, StillTrue, Linked, Active,
                    Alive, Ended, Young
<1>3. CASE Idle
  BY <1>2, <1>3 DEF Idle
<1> QED
  BY <1>1, <1>2, <1>3, GiveSInv, StopSInv, StartSInv, ProcessSInv DEF Next

\* When commands are given one after the other there is one service process at
\* a time, and what a command has found out about it holds while it acts on it.
THEOREM ServiceInvariant ==
  ASSUME Overlap = FALSE
  PROVE  Spec => []SInv
BY InitSInv, NextSInv, PTL DEF Spec

\* Between commands the files name the service that serves, and its link.
THEOREM StatusTellsTheTruth ==
  ASSUME Overlap = FALSE
  PROVE  Spec => []StatusIsTrue
<1>1. SInv => StatusIsTrue
  BY DEF SInv, Named, Linked, StatusIsTrue, Alive, Ended, Young
<1> QED
  BY <1>1, ServiceInvariant, PTL

\* No process serves, or is about to serve, a token that reset-link has
\* replaced.
THEOREM ResetRevokes ==
  ASSUME Overlap = FALSE
  PROVE  Spec => []OldTokenIsRevoked
<1>1. SInv => OldTokenIsRevoked
  BY DEF SInv, Linked, OldTokenIsRevoked
<1> QED
  BY <1>1, ServiceInvariant, PTL

\* A command moves no other command, a service process moves none.
LEMMA OthersStay ==
  ASSUME TypeOK, NEW c \in Command, NEW d \in Command, d # c,
         \/ \E o \in {"start", "stop", "restart", "reset-link"} : Give(d, o)
         \/ Stop(d) \/ RotateToken(d) \/ StartDaemon(d)
  PROVE  at'[c] = at[c]
<1>1. PICK place : at' = [at EXCEPT ![d] = place]
  BY DEF Give, Stop, StopInTime, ReadState, SendSIGTERM, SeeItGone,
         EraseProcessFile, EraseConnectionFile, ForceKill, RotateToken,
         StartDaemon, CheckStatus, ClearConnectionFile, ClearProcessFile,
         Spawn, PollEnds, Go
<1> QED
  BY <1>1 DEF TypeOK, CommandsTypeOK

LEMMA ProcessesMoveNoCommand ==
  ASSUME NEW p \in Process,
         RunStep(p) \/ ContextKillsTunnel(p) \/ ByItself(p)
  PROVE  at' = at
BY DEF RunStep, ReadToken, Record, StartEngine, Listen, StartTunnel,
       AwaitTunnel, Publish,
       WriteQR, SignalSeen, Close, RemoveConnection, CheckRecord, RemoveRecord,
       ByItself, ComponentEnds, TunnelEnds, ServerEnds,
           ContextKillsTunnel, Crash, commands

\* Stop's ways out, the error apart, are the empty service.json and the erased
\* link; both leave no service behind and touch no process.
LEMMA StopEnds ==
  ASSUME SInv, [Next]_vars, NEW c \in Command,
         InStop(c), at'[c] \notin {"reading", "signalling", "waiting", "erasing",
                                   "erasing-link"},
         at[c] # "signalling"
  PROVE  /\ \A p \in Process : ~Alive(p)
         /\ run' = run /\ tunnelUp' = tunnelUp
<1> USE DEF SInv
<1>1. at'[c] # at[c]
  BY DEF InStop
<1>2. PICK d \in Command :
        \/ \E o \in {"start", "stop", "restart", "reset-link"} : Give(d, o)
        \/ Stop(d) \/ RotateToken(d) \/ StartDaemon(d)
  BY <1>1, ProcessesMoveNoCommand DEF Next, Idle, vars
<1>3. d = c
  BY <1>1, <1>2, OthersStay
<1>4. Stop(c)
  BY <1>2, <1>3
     DEF TypeOK, CommandsTypeOK, InStop, Give, RotateToken, StartDaemon,
         CheckStatus, ClearConnectionFile, ClearProcessFile, Spawn, PollEnds
<1>5. CASE ReadState(c)
  <2>1. ~Running
    BY <1>5 DEF ReadState, Go, Running, TypeOK, CommandsTypeOK
  <2> QED
    BY <1>5, <2>1, NothingRuns DEF ReadState, processes
<1>6. CASE EraseConnectionFile(c)
  BY <1>6 DEF EraseConnectionFile, StillTrue, processes
<1>7. CASE SeeItGone(c) \/ EraseProcessFile(c) \/ ForceKill(c)
  BY <1>7 DEF SeeItGone, EraseProcessFile, ForceKill, Go, TypeOK, CommandsTypeOK
<1> QED
  BY <1>4, <1>5, <1>6, <1>7 DEF Stop, StopInTime, SendSIGTERM

\* Stop, on every way out but its error, leaves no service process.
THEOREM StopLeavesNoService ==
  ASSUME Overlap = FALSE
  PROVE  Spec => StopsTheService
<1>1. ASSUME SInv, [Next]_vars, NEW c \in Command,
             InStop(c), ~InStop(c)', at[c] # "signalling", NEW p \in Process
      PROVE  ~Alive(p)'
  BY <1>1, StopEnds DEF InStop, Alive, Ended
<1>2. SInv /\ [Next]_vars =>
        [\A c \in Command :
           InStop(c) /\ ~InStop(c)' /\ at[c] # "signalling"
             => \A p \in Process : ~Alive(p)']_vars
  BY <1>1
<1> QED
  BY <1>2, ServiceInvariant, PTL DEF Spec, StopsTheService

\* Whatever tunnel Stop leaves up is the tunnel of a service process that was
\* killed from outside.
THEOREM StopLeavesNoTunnel ==
  ASSUME Overlap = FALSE
  PROVE  Spec => StopsItsTunnel
<1>1. ASSUME SInv, [Next]_vars, NEW c \in Command,
             InStop(c), ~InStop(c)', at[c] # "signalling", NEW p, p \in tunnelUp'
      PROVE  run'[p] = "killed"
  <2>1. /\ \A q \in Process : ~Alive(q)
        /\ run' = run /\ tunnelUp' = tunnelUp
    BY <1>1, StopEnds DEF InStop
  <2>2. p \in Process /\ p \in tunnelUp
    BY <1>1, <2>1 DEF SInv, TypeOK, ProcessesTypeOK
  <2> QED
    BY <1>1, <2>1, <2>2 DEF SInv, Linked, Alive, Ended
<1>2. SInv /\ [Next]_vars =>
        [\A c \in Command :
           InStop(c) /\ ~InStop(c)' /\ at[c] # "signalling"
             => \A p \in tunnelUp' : run'[p] = "killed"]_vars
  BY <1>1
<1> QED
  BY <1>2, ServiceInvariant, PTL DEF Spec, StopsItsTunnel


-----------------------------------------------------------------------------
(* The life-cycle of each process, whatever commands overlap.              *)

\* A tunnel is up from the start of cloudflared to the end of shutdown, or
\* beyond it when somebody has killed the process.
TunnelInv ==
  \A p \in Process : p \in tunnelUp =>
    run[p] \in {"awaiting", "tunnelled", "published", "serving", "closing",
                "killed"}

LInv == TypeOK /\ TunnelInv

\* A process is unaffected by what leaves its variables alone.
LEMMA Unmoved ==
  ASSUME NEW p \in Process, run'[p] = run[p], port' = p <=> port = p,
         p \in tunnelUp' <=> p \in tunnelUp
  PROVE  UNCHANGED L(p)!vars
BY DEF L!vars, Phase

\* What a step of a process is in its life-cycle.
LEMMA RunStepOfCycle ==
  ASSUME LInv, NEW p \in Process,
         RunStep(p) \/ ContextKillsTunnel(p) \/ ByItself(p)
  PROVE  [L(p)!Next]_(L(p)!vars)
<1> USE DEF LInv, TypeOK, ProcessesTypeOK, TunnelInv, Open, Phase, Step
<1>1. run \in [Process -> RunStates] /\ p # None
  BY ServiceAssumption
<1>2. CASE \/ AwaitTunnel(p) \/ WriteQR(p)
           \/ RemoveConnection(p) \/ CheckRecord(p) \/ RemoveRecord(p)
  BY <1>1, <1>2
     DEF AwaitTunnel, WriteQR, RemoveConnection, CheckRecord,
         RemoveRecord, L!vars, L!Next, L!Close
<1>3. CASE ReadToken(p) \/ Record(p) \/ StartEngine(p)
  BY <1>1, <1>3 DEF ReadToken, Record, StartEngine, L!vars, L!Next, L!Return
<1>4. CASE Listen(p)
  BY <1>1, <1>4 DEF Listen, L!vars, L!Next, L!Listen, L!Return
<1>5. CASE StartTunnel(p)
  BY <1>1, <1>5 DEF StartTunnel, L!vars, L!Next, L!StartTunnel, L!Close
<1>6. CASE Publish(p)
  BY <1>1, <1>6 DEF Publish, L!vars, L!Next, L!Publish, L!Close
<1>7. CASE SignalSeen(p) \/ ComponentEnds(p)
  BY <1>1, <1>7 DEF SignalSeen, ComponentEnds, L!Next, L!Close
<1>8. CASE Close(p)
  BY <1>1, <1>8 DEF Close, L!Next, L!Return
<1>9. CASE ContextKillsTunnel(p) \/ TunnelEnds(p)
  BY <1>1, <1>9 DEF ContextKillsTunnel, TunnelEnds, L!Next, L!TunnelEnds
<1>10. CASE ServerEnds(p)
  BY <1>1, <1>10 DEF ServerEnds, L!Next, L!ListenerCloses
<1>11. CASE Crash(p)
  BY <1>1, <1>11 DEF Crash, L!Next, L!Crash
<1> QED
  BY <1>2, <1>3, <1>4, <1>5, <1>6, <1>7, <1>8, <1>9, <1>10, <1>11
     DEF RunStep, ByItself

\* It is no step in that of any other process.
LEMMA OthersUnmoved ==
  ASSUME LInv, NEW p \in Process, NEW q \in Process, q # p,
         RunStep(p) \/ ContextKillsTunnel(p) \/ ByItself(p)
  PROVE  UNCHANGED L(q)!vars
<1>1. /\ run'[q] = run[q]
      /\ q \in tunnelUp' <=> q \in tunnelUp
  BY DEF LInv, TypeOK, ProcessesTypeOK, Step, RunStep, ReadToken, Record,
         StartEngine, Listen, StartTunnel, AwaitTunnel, Publish, WriteQR,
         SignalSeen, Close, RemoveConnection, CheckRecord, RemoveRecord,
         ByItself, ComponentEnds, TunnelEnds, ServerEnds, ContextKillsTunnel,
         Crash
<1>2. port' = q <=> port = q
  BY ServiceAssumption
     DEF RunStep, ReadToken, Record, StartEngine, Listen, StartTunnel,
         AwaitTunnel, Publish, WriteQR, SignalSeen, Close, RemoveConnection,
         CheckRecord, RemoveRecord, ByItself, ComponentEnds, TunnelEnds,
         ServerEnds, ContextKillsTunnel, Crash
<1> QED
  BY <1>1, <1>2, Unmoved

\* What a command does.
OfCommand(c) ==
  \/ \E o \in {"start", "stop", "restart", "reset-link"} : Give(c, o)
  \/ Stop(c) \/ RotateToken(c) \/ StartDaemon(c)

LEMMA MovesNoProcess ==
  ASSUME NEW c \in Command, OfCommand(c), ~ForceKill(c), ~Spawn(c)
  PROVE  UNCHANGED <<run, tunnelUp, port>>
<1>1. CASE \E o \in {"start", "stop", "restart", "reset-link"} : Give(c, o)
  <2>1. ASSUME NEW o, Give(c, o) PROVE UNCHANGED <<run, tunnelUp, port>>
    BY <2>1 DEF Give, Go, processes
  <2> QED
    BY <1>1, <2>1, Zenon
<1>2. CASE RotateToken(c) \/ StartDaemon(c)
  BY <1>2 DEF RotateToken, StartDaemon, CheckStatus, ClearConnectionFile,
              ClearProcessFile, PollEnds, Go, processes
<1>3. CASE StopInTime(c)
  BY <1>3 DEF StopInTime, ReadState, SendSIGTERM, SeeItGone, EraseProcessFile,
              EraseConnectionFile, Go, processes
<1> QED
  BY <1>1, <1>2, <1>3 DEF OfCommand, Stop

\* Of what the commands do, only a SIGKILL is a step in a life-cycle.
LEMMA CommandOfCycle ==
  ASSUME LInv, NEW c \in Command, NEW p \in Process, OfCommand(c)
  PROVE  [L(p)!Next]_(L(p)!vars)
<1>1. CASE ForceKill(c)
  <2>1. /\ run \in [Process -> RunStates] /\ p # None
        /\ Alive(saw[c]) => saw[c] \notin tunnelUp
        /\ run' = [run EXCEPT ![saw[c]] = IF Alive(saw[c]) THEN "exited" ELSE @]
        /\ port' = IF port = saw[c] THEN None ELSE port
        /\ tunnelUp' = tunnelUp
    BY <1>1, ServiceAssumption DEF ForceKill, LInv, TypeOK, ProcessesTypeOK
  <2>2. CASE p = saw[c] /\ Alive(p)
    BY <2>1, <2>2 DEF L!Next, L!ForceKill, Phase
  <2>3. CASE p = saw[c] /\ ~Alive(p)
    <3>1. port # p
      BY <2>3 DEF LInv, TypeOK, ProcessesTypeOK, Open, Alive, Ended
    <3> QED
      BY <2>1, <2>3, <3>1, Unmoved
  <2>4. CASE p # saw[c]
    BY <2>1, <2>4, Unmoved
  <2> QED
    BY <2>2, <2>3, <2>4
<1>2. CASE Spawn(c)
  BY <1>2 DEF Spawn, LInv, TypeOK, ProcessesTypeOK, L!vars, Phase
<1>3. CASE ~ForceKill(c) /\ ~Spawn(c)
  BY <1>3, MovesNoProcess, Unmoved
<1> QED
  BY <1>1, <1>2, <1>3

LEMMA NextOfCycle ==
  ASSUME LInv, [Next]_vars, NEW p \in Process
  PROVE  [L(p)!Next]_(L(p)!vars)
<1>1. CASE UNCHANGED vars \/ Idle
  <2>1. UNCHANGED <<run, tunnelUp, port>>
    BY <1>1 DEF vars, Idle
  <2> QED
    BY <2>1, Unmoved
<1>2. ASSUME NEW q \in Process,
             RunStep(q) \/ ContextKillsTunnel(q) \/ ByItself(q)
      PROVE  [L(p)!Next]_(L(p)!vars)
  BY <1>2, RunStepOfCycle, OthersUnmoved
<1> QED
  BY <1>1, <1>2, CommandOfCycle DEF Next, OfCommand

\* No step leaves a tunnel up that its process will not take down.
LEMMA NextLInv == LInv /\ [Next]_vars => LInv'
<1> SUFFICES ASSUME LInv, [Next]_vars, NEW p \in Process, p \in tunnelUp'
             PROVE  run'[p] \in {"awaiting", "tunnelled", "published", "serving",
                                 "closing", "killed"}
  BY NextTypeOK DEF LInv, TunnelInv
<1>1. p \in tunnelUp => Phase(p) \in {"connecting", "serving", "closing", "killed"}
  BY DEF LInv, TunnelInv, Phase
<1>2. [L(p)!Next]_(L(p)!vars)
  BY NextOfCycle
<1>3. Phase(p)' \in {"connecting", "serving", "closing", "killed"}
  BY <1>1, <1>2, Zenon
     DEF L!Next, L!vars, L!Listen, L!StartTunnel, L!Publish, L!Close, L!Return,
         L!TunnelEnds, L!ListenerCloses, L!ForceKill, L!Crash
<1> QED
  BY <1>3 DEF Phase

\* Every service process keeps the life-cycle that module Supervisor implements,
\* for any number of commands and processes, overlapping, failing and killed.
THEOREM ProcessesDoKeepLifecycle == Spec => ProcessesKeepLifecycle
<1>1. Init => LInv
  BY InitTypeOK DEF Init, LInv, TunnelInv
<1>2. Init => \A p \in Process : L(p)!Init
  BY ServiceAssumption DEF Init, L!Init, Phase
<1>3. LInv /\ [Next]_vars => [\A p \in Process : [L(p)!Next]_(L(p)!vars)]_vars
  BY NextOfCycle
<1> QED
  BY <1>1, <1>2, <1>3, NextLInv, PTL DEF Spec, ProcessesKeepLifecycle
=============================================================================
