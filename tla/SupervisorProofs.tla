-------------------------- MODULE SupervisorProofs ---------------------------
(***************************************************************************)
(* Proofs about the service process: its types, that it leaves no child    *)
(* behind, that start-up loses no event, and that KataGo is asked first.   *)
(***************************************************************************)
EXTENDS SupervisorRefinement, TLAPS

-----------------------------------------------------------------------------
(* The inductive invariant.                                                *)

\* Where Run's goroutine is tells what has been started and what is over.
Progress ==
  /\ at = "starting" => katago = "none"
  /\ at \in {"starting", "probing", "listening"} => server = "none"
  /\ at \in {"starting", "probing", "listening", "tunnelling"}
       => cloudflared = "none"
  /\ at \in {"stopping-server", "terminating", "closing", "waiting", "killed",
             "removing"}
       => ~Lives(cloudflared)
  /\ at \in {"terminating", "closing", "waiting", "killed", "removing"}
       => server # "up"
  /\ at \in {"waiting", "killed"} => stdin = "closed"
  /\ at \in {"killed", "removing"} => ~Lives(katago)

\* The address can only be the first event in the channel, so that a full
\* channel holds a registration.
Channel ==
  /\ cloudflared = "none" => printed = <<>>
  /\ printed = <<>> => events = <<>>
  /\ \A i \in 1..Len(events) : i # 1 => events[i] = "registered"
  /\ NoEventLost

SInv == TypeOK /\ Progress /\ Channel


\* A step that leaves the channel alone and enters no wait for it.
LEMMA ChannelKept ==
  ASSUME Channel, UNCHANGED <<printed, events, seen>>,
         cloudflared' = "none" => cloudflared = "none",
         at' = "awaiting" => at = "awaiting"
  PROVE  Channel'
BY DEF Channel, NoEventLost

LEMMA InitSInv == Init => SInv
<1> SUFFICES ASSUME Init PROVE SInv
  OBVIOUS
<1>1. ProcessTypeOK /\ DoneIsReadable
  BY DEF Init, ProcessTypeOK, DoneIsReadable, Place, Child, Ready
<1>2. ChannelTypeOK
  BY SupervisorAssumption DEF Init, ChannelTypeOK
<1>3. Progress /\ Channel
  BY DEF Init, Progress, Channel, NoEventLost, Lives
<1> QED
  BY <1>1, <1>2, <1>3 DEF SInv, TypeOK

-----------------------------------------------------------------------------
(* Every action preserves it.                                              *)

\* Start, probe, Listen: nothing is known of the tunnel yet.
LEMMA StartSInv ==
  ASSUME SInv, Start \/ Listen
  PROVE  SInv'
<1>1. UNCHANGED tunnel /\ at' # "awaiting"
  BY DEF Start, StartKataGo, ProbeAnswered, ProbeSeesExit, ProbeFails, Listen
<1>2. TypeOK'
  <2>1. ProcessTypeOK'
    BY <1>1
       DEF SInv, Progress, tunnel, engine, Start, StartKataGo, ProbeAnswered,
           ProbeSeesExit, ProbeFails, Listen, Received, TypeOK, ProcessTypeOK,
           Place, Child
  <2>2. DoneIsReadable'
    BY <1>1
       DEF SInv, Progress, tunnel, engine, Start, StartKataGo, ProbeAnswered,
           ProbeSeesExit, ProbeFails, Listen, Received, TypeOK, ProcessTypeOK,
           DoneIsReadable, Child, Ready, Lives
  <2>3. ChannelTypeOK'
    BY <1>1
       DEF SInv, Progress, tunnel, engine, Start, StartKataGo, ProbeAnswered,
           ProbeSeesExit, ProbeFails, Listen, TypeOK, ChannelTypeOK
  <2> QED
    BY <2>1, <2>2, <2>3 DEF TypeOK
<1>3. Progress'
  BY <1>1 DEF SInv, TypeOK, Progress, tunnel, engine, Start, StartKataGo,
              ProbeAnswered, ProbeSeesExit, ProbeFails, Listen, Lives
<1>4. Channel'
  BY <1>1, ChannelKept DEF SInv, tunnel
<1> QED
  BY <1>2, <1>3, <1>4 DEF SInv

\* startTunnel.
LEMMA StartTunnelSInv ==
  ASSUME SInv, StartTunnel
  PROVE  SInv'
<1> USE DEF SInv
<1>1. CASE StartCloudflared
  <2>1. TypeOK'
    <3>1. ProcessTypeOK'
      <4>1. cloudflared' \in Child /\ limit' \in {"none", "timer", "signal",
                                                  "passed"}
        BY <1>1 DEF StartCloudflared, TypeOK, ProcessTypeOK, Child
      <4> QED
        BY <1>1, <4>1
           DEF StartCloudflared, engine, TypeOK, ProcessTypeOK, Place
    <3>2. DoneIsReadable'
      BY <1>1
         DEF StartCloudflared, Progress, engine, TypeOK, DoneIsReadable, Ready
    <3>3. ChannelTypeOK'
      BY <1>1 DEF StartCloudflared, TypeOK, ChannelTypeOK
    <3> QED
      BY <3>1, <3>2, <3>3 DEF TypeOK
  <2>2. Progress'
    BY <1>1 DEF StartCloudflared, Progress, engine, Lives
  <2>3. Channel'
    BY <1>1 DEF StartCloudflared, Channel, Progress, NoEventLost
  <2> QED
    BY <2>1, <2>2, <2>3
<1>2. CASE TakeEvent
  <2>1. /\ Tail(events) \in Seq({"url", "registered"})
        /\ Len(Tail(events)) = Len(events) - 1
        /\ Head(events) = events[1]
        /\ \A i \in 1..Len(Tail(events)) : Tail(events)[i] = events[i + 1]
        /\ Len(events) \in Nat \ {0}
    BY <1>2 DEF TakeEvent, TypeOK, ChannelTypeOK
  <2>2. TypeOK'
    <3>1. ProcessTypeOK'
      BY <1>2 DEF TakeEvent, engine, TypeOK, ProcessTypeOK, Place, Child
    <3>2. DoneIsReadable'
      BY <1>2 DEF TakeEvent, engine, TypeOK, DoneIsReadable, Ready
    <3>3. ChannelTypeOK'
      <4>1. Head(events) \in {"url", "registered"}
        BY <2>1 DEF TypeOK, ChannelTypeOK
      <4>2. /\ events' = Tail(events)
            /\ printed' = printed
            /\ seen' = seen \cup {Head(events)}
        BY <1>2 DEF TakeEvent
      <4>3. Len(events') <= EventCapacity
        BY <2>1, <4>2, SupervisorAssumption DEF TypeOK, ChannelTypeOK
      <4> QED
        BY <2>1, <4>1, <4>2, <4>3 DEF TypeOK, ChannelTypeOK
    <3> QED
      BY <3>1, <3>2, <3>3 DEF TypeOK
  <2>3. Progress'
    BY <1>2 DEF TakeEvent, Progress, engine, Lives
  <2>4. Channel'
    <3>1. printed = <<>> => events' = <<>>
      BY <1>2 DEF TakeEvent, Channel
    <3>2. \A i \in 1..Len(events') : i # 1 => events'[i] = "registered"
      BY <1>2, <2>1 DEF TakeEvent, Channel
    <3>3. ASSUME NEW i \in 1..Len(printed)
          PROVE  printed[i] \in seen' \cup {events'[j] : j \in 1..Len(events')}
      <4>1. CASE printed[i] \in seen
        BY <1>2, <4>1 DEF TakeEvent
      <4>2. CASE printed[i] \notin seen
        <5>1. PICK j \in 1..Len(events) : printed[i] = events[j]
          BY <1>2, <4>2 DEF TakeEvent, Channel, NoEventLost
        <5>2. CASE j = 1
          BY <1>2, <2>1, <5>1, <5>2 DEF TakeEvent
        <5>3. CASE j # 1
          <6>1. j - 1 \in 1..Len(events') /\ events'[j - 1] = events[j]
            BY <1>2, <2>1, <5>3 DEF TakeEvent
          <6> QED
            BY <5>1, <6>1
        <5> QED
          BY <5>2, <5>3
      <4> QED
        BY <4>1, <4>2
    <3> QED
      BY <1>2, <3>1, <3>2, <3>3 DEF TakeEvent, Channel, NoEventLost
  <2> QED
    BY <2>2, <2>3, <2>4
<1>3. CASE AwaitSeesExit \/ AwaitFails
  <2>1. TypeOK'
    <3>1. ProcessTypeOK'
      BY <1>3
         DEF AwaitSeesExit, AwaitFails, engine, tunnel, Received, TypeOK,
             ProcessTypeOK, Place, Child
    <3>2. DoneIsReadable'
      BY <1>3
         DEF AwaitSeesExit, AwaitFails, engine, tunnel, Received, TypeOK,
             ProcessTypeOK, DoneIsReadable, Child, Ready, Lives
    <3>3. ChannelTypeOK'
      BY <1>3
         DEF AwaitSeesExit, AwaitFails, engine, tunnel, TypeOK, ChannelTypeOK
    <3> QED
      BY <3>1, <3>2, <3>3 DEF TypeOK
  <2>2. Progress'
    BY <1>3 DEF AwaitSeesExit, AwaitFails, Progress, TypeOK, DoneIsReadable,
                engine, tunnel, Lives
  <2>3. Channel'
    BY <1>3, ChannelKept DEF AwaitSeesExit, AwaitFails, tunnel
  <2> QED
    BY <2>1, <2>2, <2>3
<1> QED
  BY <1>1, <1>2, <1>3 DEF StartTunnel

\* Publishing the link and the select.
LEMMA ServeSInv ==
  ASSUME SInv, Publish \/ Select
  PROVE  SInv'
<1> USE DEF SInv
<1>1. TypeOK'
  <2>1. ProcessTypeOK'
    BY DEF Publish, Select, SelectSignal, SelectKataGo, SelectServer,
       SelectTunnel, Leave, engine, tunnel, Received, TypeOK, ProcessTypeOK,
       Place, Child
  <2>2. DoneIsReadable'
    BY DEF Publish, Select, SelectSignal, SelectKataGo, SelectServer,
       SelectTunnel, Leave, engine, tunnel, Received, TypeOK, ProcessTypeOK,
       DoneIsReadable, Child, Ready, Lives
  <2>3. ChannelTypeOK'
    BY DEF Publish, Select, SelectSignal, SelectKataGo, SelectServer,
       SelectTunnel, Leave, engine, tunnel, TypeOK, ChannelTypeOK
  <2> QED
    BY <2>1, <2>2, <2>3 DEF TypeOK
<1>2. Progress'
  BY DEF Publish, Select, SelectSignal, SelectKataGo, SelectServer,
         SelectTunnel, Leave, Progress, engine, tunnel, Lives
<1>3. Channel'
  BY ChannelKept DEF Publish, Select, SelectSignal, SelectKataGo, SelectServer,
                     SelectTunnel, Leave, tunnel
<1> QED
  BY <1>1, <1>2, <1>3

\* shutdown, with Shutdown of the engine.
LEMMA ShutdownSInv ==
  ASSUME SInv, Shutdown
  PROVE  SInv'
<1> USE DEF SInv
<1>1. TypeOK'
  <2>1. CASE StopSeesExit \/ StopKills \/ StopServer
    <3>1. ProcessTypeOK'
      BY <2>1
         DEF StopSeesExit, StopKills, StopServer, engine, tunnel, Lives,
             Received, TypeOK, ProcessTypeOK, Place, Child
    <3>2. DoneIsReadable'
      BY <2>1
         DEF StopSeesExit, StopKills, StopServer, engine, tunnel, Lives,
             Received, TypeOK, ProcessTypeOK, DoneIsReadable, Child, Ready
    <3>3. ChannelTypeOK'
      BY <2>1
         DEF StopSeesExit, StopKills, StopServer, engine, tunnel, Lives,
             TypeOK, ChannelTypeOK
    <3> QED
      BY <3>1, <3>2, <3>3 DEF TypeOK
  <2>2. CASE Terminate \/ CloseStdin
    <3>1. ProcessTypeOK'
      BY <2>2
         DEF Terminate, CloseStdin, engine, tunnel, TypeOK, ProcessTypeOK,
             Place, Child
    <3>2. DoneIsReadable'
      BY <2>2
         DEF Terminate, CloseStdin, engine, tunnel, TypeOK, DoneIsReadable, Ready,
             Lives
    <3>3. ChannelTypeOK'
      BY <2>2
         DEF Terminate, CloseStdin, engine, tunnel, TypeOK, ChannelTypeOK
    <3> QED
      BY <3>1, <3>2, <3>3 DEF TypeOK
  <2>3. CASE WaitSeesExit \/ WaitKills \/ KilledReturns
    <3>1. ProcessTypeOK'
      BY <2>3
         DEF WaitSeesExit, WaitKills, KilledReturns, engine, tunnel, Lives,
             Received, TypeOK, ProcessTypeOK, Place, Child
    <3>2. DoneIsReadable'
      BY <2>3
         DEF WaitSeesExit, WaitKills, KilledReturns, engine, tunnel, Lives,
             Received, TypeOK, ProcessTypeOK, DoneIsReadable, Child, Ready
    <3>3. ChannelTypeOK'
      BY <2>3
         DEF WaitSeesExit, WaitKills, KilledReturns, engine, tunnel, Lives,
             TypeOK, ChannelTypeOK
    <3> QED
      BY <3>1, <3>2, <3>3 DEF TypeOK
  <2> QED
    BY <2>1, <2>2, <2>3 DEF Shutdown
<1>2. Progress'
  <2>1. CASE StopSeesExit \/ StopKills \/ StopServer
    BY <2>1 DEF StopSeesExit, StopKills, StopServer, TypeOK, DoneIsReadable,
                Progress, engine, tunnel, Lives
  <2>2. CASE Terminate \/ CloseStdin
    BY <2>2 DEF Terminate, CloseStdin, Progress, engine, tunnel, Lives
  <2>3. CASE WaitSeesExit \/ WaitKills \/ KilledReturns
    BY <2>3 DEF WaitSeesExit, WaitKills, KilledReturns, TypeOK, DoneIsReadable,
                Progress, engine, tunnel, Lives
  <2> QED
    BY <2>1, <2>2, <2>3 DEF Shutdown
<1>3. Channel'
  BY ChannelKept
     DEF Shutdown, StopSeesExit, StopKills, StopServer, Terminate, CloseStdin,
         WaitSeesExit, WaitKills, KilledReturns, tunnel, TypeOK, Child
<1> QED
  BY <1>1, <1>2, <1>3

\* Timers, the context and the goroutines of Wait.
LEMMA RuntimeSInv ==
  ASSUME SInv, Runtime
  PROVE  SInv'
<1> USE DEF SInv, Beside
<1>1. TypeOK'
  <2>1. ProcessTypeOK'
    BY DEF Runtime, LimitPasses, ContextKillsKataGo, ContextKillsTunnel,
       ReapKataGo, ReapTunnel, engine, tunnel, Lives, TypeOK, ProcessTypeOK,
       Place, Child
  <2>2. DoneIsReadable'
    BY DEF Runtime, LimitPasses, ContextKillsKataGo, ContextKillsTunnel,
       ReapKataGo, ReapTunnel, engine, tunnel, Lives, TypeOK, ProcessTypeOK,
       DoneIsReadable, Child, Ready
  <2>3. ChannelTypeOK'
    BY DEF Runtime, LimitPasses, ContextKillsKataGo, ContextKillsTunnel,
       ReapKataGo, ReapTunnel, engine, tunnel, Lives, TypeOK, ChannelTypeOK
  <2> QED
    BY <2>1, <2>2, <2>3 DEF TypeOK
<1>2. Progress'
  BY DEF Runtime, LimitPasses, ContextKillsKataGo, ContextKillsTunnel,
         ReapKataGo, ReapTunnel, Progress, engine, tunnel, Lives
<1>3. Channel'
  BY ChannelKept
     DEF Runtime, LimitPasses, ContextKillsKataGo, ContextKillsTunnel,
         ReapKataGo, ReapTunnel, tunnel, Lives
<1> QED
  BY <1>1, <1>2, <1>3

\* A line of cloudflared that finds the channel full has its like in it.
LEMMA PrintsSInv ==
  ASSUME SInv, CloudflaredPrints
  PROVE  SInv'
<1> USE DEF SInv
<1>1. PICK line \in {"url", "registered"} :
        /\ line = IF printed = <<>> THEN "url" ELSE "registered"
        /\ printed' = Append(printed, line)
        /\ Offer(line)
  BY DEF CloudflaredPrints
<1>2. /\ Len(printed') = Len(printed) + 1
      /\ printed'[Len(printed) + 1] = line
      /\ \A i \in 1..Len(printed) : printed'[i] = printed[i]
      /\ printed' \in Seq({"url", "registered"}) /\ printed' # <<>>
      /\ Len(printed) \in Nat
  BY <1>1 DEF TypeOK, ChannelTypeOK
<1>3. \/ /\ Len(events) >= EventCapacity /\ events' = events
      \/ /\ Len(events) < EventCapacity
         /\ Len(events') = Len(events) + 1 /\ events'[Len(events) + 1] = line
         /\ \A i \in 1..Len(events) : events'[i] = events[i]
         /\ events' \in Seq({"url", "registered"})
  BY <1>1, SupervisorAssumption DEF TypeOK, ChannelTypeOK, Offer
<1>4. Len(events) \in Nat /\ events \in Seq({"url", "registered"})
  BY DEF TypeOK, ChannelTypeOK
<1>5. TypeOK'
  <2>1. ProcessTypeOK'
    BY DEF CloudflaredPrints, Beside, engine, TypeOK, ProcessTypeOK
  <2>2. DoneIsReadable'
    BY DEF CloudflaredPrints, Beside, engine, TypeOK, DoneIsReadable, Ready
  <2>3. ChannelTypeOK'
    BY <1>2, <1>3, <1>4, SupervisorAssumption
       DEF CloudflaredPrints, TypeOK, ChannelTypeOK
  <2> QED
    BY <2>1, <2>2, <2>3 DEF TypeOK
<1>6. Progress'
  BY DEF CloudflaredPrints, Beside, Progress, engine, Lives
<1>7. \A i \in 1..Len(events') : i # 1 => events'[i] = "registered"
  <2>1. CASE printed = <<>>
    <3>1. Len(events) = 0
      BY <2>1, <1>4 DEF Channel
    <3> QED
      BY <3>1, <1>3, SupervisorAssumption
  <2>2. CASE printed # <<>>
    BY <1>1, <1>3, <1>4, <2>2 DEF Channel
  <2> QED
    BY <2>1, <2>2
<1>8. line \in {events'[j] : j \in 1..Len(events')}
  <2>1. CASE Len(events) < EventCapacity
    <3>1. Len(events') \in 1..Len(events') /\ events'[Len(events')] = line
      BY <1>3, <1>4, <2>1, SupervisorAssumption
    <3> QED
      BY <3>1
  <2>2. CASE Len(events) >= EventCapacity
    <3>1. events' = events /\ 2 \in 1..Len(events)
      BY <1>3, <1>4, <2>2, SupervisorAssumption
    <3>2. printed # <<>>
      BY <3>1 DEF Channel
    <3>3. events'[2] = line
      BY <1>1, <3>1, <3>2 DEF Channel
    <3> QED
      BY <3>1, <3>3
  <2> QED
    BY <1>4, <2>1, <2>2, SupervisorAssumption
<1>9. {events[j] : j \in 1..Len(events)}
        \subseteq {events'[j] : j \in 1..Len(events')}
  BY <1>3, <1>4
<1>10. NoEventLost'
  <2> SUFFICES ASSUME at = "awaiting", NEW i \in 1..(Len(printed) + 1)
               PROVE  printed'[i] \in seen
                                   \cup {events'[j] : j \in 1..Len(events')}
    BY <1>2 DEF CloudflaredPrints, Beside, NoEventLost
  <2>1. CASE i = Len(printed) + 1
    BY <1>2, <1>8, <2>1
  <2>2. CASE i # Len(printed) + 1
    <3>1. i \in 1..Len(printed)
      BY <1>2, <2>2
    <3> QED
      BY <1>2, <1>9, <3>1 DEF Channel, NoEventLost
  <2> QED
    BY <2>1, <2>2
<1>11. Channel'
  BY <1>2, <1>7, <1>10 DEF CloudflaredPrints, Channel
<1> QED
  BY <1>5, <1>6, <1>11

\* Signals, failures and what the children do.
LEMMA EnvironmentSInv ==
  ASSUME SInv, Environment
  PROVE  SInv'
<1> USE DEF SInv, Beside
<1>1. CASE CloudflaredPrints
  BY <1>1, PrintsSInv
<1>2. CASE CloudflaredHangs \/ CloudflaredExits
  <2>1. TypeOK'
    <3>1. ProcessTypeOK'
      BY <1>2
         DEF CloudflaredHangs, CloudflaredExits, engine, Lives, TypeOK,
             ProcessTypeOK, Place, Child
    <3>2. DoneIsReadable'
      BY <1>2
         DEF CloudflaredHangs, CloudflaredExits, engine, Lives, TypeOK,
             ProcessTypeOK, DoneIsReadable, Child, Ready
    <3>3. ChannelTypeOK'
      BY <1>2
         DEF CloudflaredHangs, CloudflaredExits, engine, Lives, TypeOK,
             ChannelTypeOK
    <3> QED
      BY <3>1, <3>2, <3>3 DEF TypeOK
  <2>2. Progress'
    BY <1>2 DEF CloudflaredHangs, CloudflaredExits, Progress, engine, Lives
  <2>3. Channel'
    BY <1>2, ChannelKept DEF CloudflaredHangs, CloudflaredExits
  <2> QED
    BY <2>1, <2>2, <2>3
<1>3. CASE \/ Signal \/ ServerFails
           \/ KataGoAnswers \/ KataGoHangs \/ ClientFillsPipe \/ KataGoExits
  <2>1. TypeOK'
    <3>1. ProcessTypeOK'
      BY <1>3
         DEF Signal, ServerFails, KataGoAnswers, KataGoHangs, ClientFillsPipe,
             KataGoExits, engine, tunnel, Lives, TypeOK, ProcessTypeOK, Place,
             Child
    <3>2. DoneIsReadable'
      BY <1>3
         DEF Signal, ServerFails, KataGoAnswers, KataGoHangs, ClientFillsPipe,
             KataGoExits, engine, tunnel, Lives, TypeOK, ProcessTypeOK,
             DoneIsReadable, Child, Ready
    <3>3. ChannelTypeOK'
      BY <1>3
         DEF Signal, ServerFails, KataGoAnswers, KataGoHangs, ClientFillsPipe,
             KataGoExits, engine, tunnel, Lives, TypeOK, ChannelTypeOK
    <3> QED
      BY <3>1, <3>2, <3>3 DEF TypeOK
  <2>2. Progress'
    BY <1>3 DEF Signal, ServerFails, KataGoAnswers, KataGoHangs,
                ClientFillsPipe, KataGoExits, Progress, engine, tunnel, Lives
  <2>3. Channel'
    BY <1>3, ChannelKept
       DEF Signal, ServerFails, KataGoAnswers, KataGoHangs, ClientFillsPipe,
           KataGoExits, tunnel
  <2> QED
    BY <2>1, <2>2, <2>3
<1> QED
  BY <1>1, <1>2, <1>3 DEF Environment

LEMMA NextSInv == SInv /\ [Next]_vars => SInv'
<1> SUFFICES ASSUME SInv, [Next]_vars PROVE SInv'
  OBVIOUS
<1>1. CASE UNCHANGED vars
  <2>1. ProcessTypeOK' /\ DoneIsReadable'
    BY <1>1 DEF vars, SInv, TypeOK, ProcessTypeOK, DoneIsReadable, Ready
  <2>2. ChannelTypeOK'
    BY <1>1 DEF vars, SInv, TypeOK, ChannelTypeOK
  <2>3. Progress' /\ Channel'
    BY <1>1, ChannelKept DEF vars, SInv, Progress, Lives
  <2> QED
    BY <2>1, <2>2, <2>3 DEF SInv, TypeOK
<1>2. CASE Returned
  BY <1>1, <1>2 DEF Returned
<1> QED
  BY <1>1, <1>2, StartSInv, StartTunnelSInv, ServeSInv, ShutdownSInv,
     RuntimeSInv, EnvironmentSInv DEF Next, Run

-----------------------------------------------------------------------------
(* The theorems.                                                           *)

\* What is started and what is over is told by where Run's goroutine is, and
\* a full channel of start-up events holds a registration.
THEOREM SupervisorInvariant == Spec => []SInv
BY InitSInv, NextSInv, PTL DEF Spec

\* Every variable keeps its type, and a done channel stays readable once its
\* child is reaped, whichever of probe, select, stop and Shutdown received.
THEOREM SupervisorTypeCorrect == Spec => []TypeOK
<1>1. SInv => TypeOK
  BY DEF SInv
<1> QED
  BY <1>1, SupervisorInvariant, PTL

\* Whichever way Run takes to its return, no child lives on and nothing
\* listens.
THEOREM NoChildIsLeft == Spec => []NothingLeftRunning
<1>1. SInv => NothingLeftRunning
  BY DEF SInv, Progress, NothingLeftRunning
<1> QED
  BY <1>1, SupervisorInvariant, PTL

\* A channel that holds two events loses none that startTunnel waits for,
\* however many lines cloudflared prints.
THEOREM StartTunnelMissesNothing == Spec => []NoEventLost
<1>1. SInv => NoEventLost
  BY DEF SInv, Channel
<1> QED
  BY <1>1, SupervisorInvariant, PTL

\* KataGo is killed only by SIGTERM's context or after its end of file.
THEOREM KataGoIsAskedFirst == Spec => KataGoIsAsked
<1>1. SInv /\ Next /\ katago' = "killed" /\ katago # "killed"
        => signalled \/ stdin = "closed"
  BY DEF SInv, Progress, Next, Run, Start, StartKataGo, ProbeAnswered,
         ProbeSeesExit, ProbeFails, Listen, StartTunnel, StartCloudflared,
         TakeEvent, AwaitSeesExit, AwaitFails, Publish, Select, SelectSignal,
         SelectKataGo, SelectServer, SelectTunnel, Leave, Shutdown,
         StopSeesExit, StopKills, StopServer, Terminate, CloseStdin,
         WaitSeesExit, WaitKills, KilledReturns, Runtime, LimitPasses,
         ContextKillsKataGo, ContextKillsTunnel, ReapKataGo, ReapTunnel,
         Environment, Signal, ServerFails, KataGoAnswers, KataGoHangs,
         ClientFillsPipe, KataGoExits, CloudflaredPrints, CloudflaredHangs,
         CloudflaredExits, Returned, vars, engine
<1>2. SInv /\ [Next]_vars
        => [katago' = "killed" /\ katago # "killed"
              => signalled \/ stdin = "closed"]_vars
  BY <1>1
<1> QED
  BY <1>2, SupervisorInvariant, PTL DEF Spec, KataGoIsAsked


-----------------------------------------------------------------------------
(* The life-cycle that the others see.                                     *)

\* What happens beside the tunnel and the server is not seen.
LEMMA NotSeen ==
  ASSUME UNCHANGED <<Phase, server>>, Lives(cloudflared)' = Lives(cloudflared)
  PROVE  UNCHANGED L!vars
BY DEF L!vars

LEMMA PhaseKept ==
  ASSUME UNCHANGED <<at, server>>
  PROVE  UNCHANGED <<Phase, server>>
BY DEF Phase

\* bridge.Start and net.Listen.
LEMMA StartOfCycle ==
  ASSUME SInv, SInv', Start \/ Listen
  PROVE  L!Next \/ UNCHANGED L!vars
<1>1. /\ at \in {"starting", "probing", "listening"}
      /\ server = "none" /\ cloudflared = "none"
      /\ UNCHANGED tunnel
  BY DEF SInv, Progress, Start, StartKataGo, ProbeAnswered, ProbeSeesExit,
         ProbeFails, Listen
<1>2. /\ Phase = "starting"
      /\ ~Lives(cloudflared)' /\ Lives(cloudflared)' = Lives(cloudflared)
  BY <1>1 DEF Phase, Lives, tunnel
<1>3. CASE at' = "tunnelling" /\ server' = "up"
  BY <1>1, <1>2, <1>3 DEF Phase, L!Next, L!Listen
<1>4. CASE at' = "removing" /\ server' = server
  BY <1>1, <1>2, <1>4 DEF Phase, L!Next, L!Return
<1>5. CASE at' \in {"probing", "listening", "terminating"} /\ server' = server
  <2>1. Phase' = "starting"
    BY <1>1, <1>5 DEF Phase
  <2> QED
    BY <1>2, <1>5, <2>1, NotSeen
<1> QED
  BY <1>1, <1>3, <1>4, <1>5
     DEF Start, StartKataGo, ProbeAnswered, ProbeSeesExit, ProbeFails, Listen

\* startTunnel, the link and the select.
LEMMA ServeOfCycle ==
  ASSUME SInv, SInv', StartTunnel \/ Publish \/ Select
  PROVE  L!Next \/ UNCHANGED L!vars
<1>1. server' = server
  BY DEF StartTunnel, StartCloudflared, TakeEvent, AwaitSeesExit, AwaitFails,
         Publish, Select, SelectSignal, SelectKataGo, SelectServer, SelectTunnel
<1>2. CASE StartCloudflared
  <2>1. ~Lives(cloudflared) /\ Phase = "listening"
    BY <1>2 DEF StartCloudflared, SInv, Progress, Lives, Phase
  <2>2. CASE at' = "awaiting" /\ cloudflared' = "up"
    BY <1>1, <2>1, <2>2 DEF Phase, Lives, L!Next, L!StartTunnel
  <2>3. CASE at' = "stopping-server" /\ cloudflared' = cloudflared
    BY <1>1, <2>1, <2>3 DEF Phase, Lives, L!Next, L!Close
  <2> QED
    BY <1>2, <2>2, <2>3 DEF StartCloudflared
<1>3. CASE TakeEvent
  <2>1. /\ at = "awaiting" /\ at' \in {"awaiting", "publishing"}
        /\ cloudflared' = cloudflared
    BY <1>3 DEF TakeEvent
  <2>2. UNCHANGED Phase
    BY <2>1 DEF Phase
  <2> QED
    BY <1>1, <2>1, <2>2, NotSeen
<1>4. CASE AwaitSeesExit \/ AwaitFails \/ Publish \/ Select
  <2>1. cloudflared' = cloudflared
    BY <1>4 DEF AwaitSeesExit, AwaitFails, Publish, Select, SelectSignal,
                SelectKataGo, SelectServer, SelectTunnel, tunnel
  <2>2. \/ /\ at \in {"awaiting", "publishing", "serving"}
           /\ at' \in {"stopping-tunnel", "stopping-server"}
        \/ at = "publishing" /\ at' = "serving"
    BY <1>4 DEF AwaitSeesExit, AwaitFails, Publish, Select, SelectSignal,
                SelectKataGo, SelectServer, SelectTunnel, Leave
  <2>3. CASE at = "publishing" /\ at' = "serving"
    BY <1>1, <2>1, <2>3 DEF Phase, L!Next, L!Publish
  <2>4. CASE /\ at \in {"awaiting", "publishing", "serving"}
             /\ at' \in {"stopping-tunnel", "stopping-server"}
    BY <1>1, <2>1, <2>4 DEF Phase, L!Next, L!Close
  <2> QED
    BY <2>2, <2>3, <2>4
<1> QED
  BY <1>2, <1>3, <1>4 DEF StartTunnel

\* tunnel.stop, Server.Shutdown and Engine.Shutdown.
LEMMA ShutdownOfCycle ==
  ASSUME SInv, SInv', Shutdown
  PROVE  L!Next \/ UNCHANGED L!vars
<1>1. CASE StopSeesExit \/ Terminate \/ CloseStdin
  <2>1. UNCHANGED <<server, cloudflared>>
    BY <1>1 DEF StopSeesExit, Terminate, CloseStdin, tunnel
  <2>2. UNCHANGED Phase
    BY <1>1, <2>1 DEF StopSeesExit, Terminate, CloseStdin, Phase
  <2> QED
    BY <2>1, <2>2, NotSeen
<1>2. CASE StopKills
  <2>1. /\ Phase = "closing" /\ Phase' = "closing" /\ server' = server
        /\ ~Lives(cloudflared)'
    BY <1>2 DEF StopKills, Phase, Lives
  <2>2. CASE Lives(cloudflared)
    BY <2>1, <2>2 DEF L!Next, L!TunnelEnds
  <2>3. CASE ~Lives(cloudflared)
    BY <2>1, <2>3 DEF L!vars, Lives
  <2> QED
    BY <2>2, <2>3
<1>3. CASE StopServer
  <2>1. /\ Phase = "closing" /\ Phase' = "closing" /\ server' = "ended"
        /\ Lives(cloudflared)' = Lives(cloudflared)
    BY <1>3 DEF StopServer, Phase, tunnel, Lives
  <2>2. CASE server = "up"
    BY <2>1, <2>2 DEF L!Next, L!ListenerCloses
  <2>3. CASE server # "up"
    BY <2>1, <2>3 DEF L!vars
  <2> QED
    BY <2>2, <2>3
<1>4. CASE WaitSeesExit \/ WaitKills \/ KilledReturns
  <2>1. /\ at \in {"waiting", "killed"} /\ at' \in {"killed", "removing"}
        /\ UNCHANGED <<server, cloudflared>>
    BY <1>4 DEF WaitSeesExit, WaitKills, KilledReturns, tunnel
  <2>2. CASE at' = "killed"
    <3>1. UNCHANGED Phase
      BY <2>1, <2>2 DEF Phase
    <3> QED
      BY <2>1, <3>1, NotSeen
  <2>3. CASE at' = "removing"
    <3>1. Phase \in {"starting", "closing"} /\ Phase' = "down"
      BY <2>1, <2>3 DEF Phase
    <3>2. server' # "up" /\ ~Lives(cloudflared)'
      BY <2>3 DEF SInv, Progress
    <3> QED
      BY <3>1, <3>2 DEF L!Next, L!Return
  <2> QED
    BY <2>1, <2>2, <2>3
<1> QED
  BY <1>1, <1>2, <1>3, <1>4 DEF Shutdown

\* What happens beside Run.
LEMMA BesideOfCycle ==
  ASSUME SInv, SInv', Runtime \/ Environment \/ Returned
  PROVE  L!Next \/ UNCHANGED L!vars
<1>1. CASE ServerFails
  <2>1. /\ server = "up" /\ server' = "ended" /\ at' = at
        /\ cloudflared' = cloudflared
    BY <1>1 DEF ServerFails, Beside, tunnel
  <2>2. UNCHANGED Phase
    BY <2>1 DEF Phase
  <2> QED
    BY <2>1, <2>2 DEF L!Next, L!ListenerCloses
<1>2. CASE ContextKillsTunnel \/ CloudflaredExits
  <2>1. /\ Lives(cloudflared) /\ ~Lives(cloudflared)'
        /\ UNCHANGED <<at, server>>
    BY <1>2 DEF ContextKillsTunnel, CloudflaredExits, Beside, Lives
  <2> QED
    BY <2>1, PhaseKept DEF L!Next, L!TunnelEnds
<1>3. CASE CloudflaredHangs \/ ReapTunnel \/ CloudflaredPrints
  <2>1. /\ Lives(cloudflared)' = Lives(cloudflared)
        /\ UNCHANGED <<at, server>>
    BY <1>3 DEF CloudflaredHangs, ReapTunnel, CloudflaredPrints, Beside, Lives
  <2> QED
    BY <2>1, PhaseKept, NotSeen
<1>4. CASE \/ LimitPasses \/ ContextKillsKataGo \/ ReapKataGo \/ Signal
           \/ KataGoAnswers \/ KataGoHangs \/ ClientFillsPipe \/ KataGoExits
           \/ Returned
  <2>1. UNCHANGED <<at, server, cloudflared>>
    BY <1>4 DEF LimitPasses, ContextKillsKataGo, ReapKataGo, Signal,
                KataGoAnswers, KataGoHangs, ClientFillsPipe, KataGoExits,
                Returned, Beside, tunnel, vars
  <2> QED
    BY <2>1, PhaseKept, NotSeen
<1> QED
  BY <1>1, <1>2, <1>3, <1>4 DEF Runtime, Environment

\* The service process, taken step by step from the inside, keeps the life-cycle
\* that the commands count on.
THEOREM RunDoesKeepLifecycle == Spec => RunKeepsLifecycle
<1>1. Init => L!Init
  BY DEF Init, L!Init, Phase, Lives
<1>2. SInv /\ SInv' /\ [Next]_vars => [L!Next]_(L!vars)
  <2> SUFFICES ASSUME SInv, SInv', [Next]_vars PROVE L!Next \/ UNCHANGED L!vars
    OBVIOUS
  <2>1. CASE UNCHANGED vars
    <3>1. UNCHANGED <<at, server, cloudflared>>
      BY <2>1 DEF vars
    <3> QED
      BY <3>1, PhaseKept, NotSeen
  <2> QED
    BY <2>1, StartOfCycle, ServeOfCycle, ShutdownOfCycle, BesideOfCycle
       DEF Next, Run
<1> QED
  BY <1>1, <1>2, SupervisorInvariant, PTL DEF Spec, RunKeepsLifecycle, L!Spec
=============================================================================
