----------------------------- MODULE Supervisor ------------------------------
(***************************************************************************)
(* One service process from the inside: service.Run and shutdown, with     *)
(* Start, probe and Shutdown of the engine, and startTunnel and stop of    *)
(* the tunnel.  Run is one goroutine; around it are two child processes    *)
(* that may hang, end or ignore SIGTERM, a goroutine that waits for each   *)
(* of them, the WebSocket server, and the context that SIGTERM cancels.    *)
(*                                                                         *)
(* A timer fires at any step at which the code has it in a select.  What   *)
(* Run does with the shared files is in module Service; the queries are in *)
(* module Engine.                                                          *)
(***************************************************************************)
EXTENDS Integers, Sequences

CONSTANTS
  EventCapacity, \* events that fit in startTunnel's channel
  MaxLines       \* bound: lines of interest that cloudflared prints

ASSUME SupervisorAssumption ==
  EventCapacity \in Nat /\ EventCapacity >= 2 /\ MaxLines \in Nat

VARIABLES
  at,          \* where Run's goroutine is
  signalled,   \* SIGTERM has cancelled the context
  limit,       \* what ends the context that shutdown works under
  katago,      \* the KataGo process
  katagoDone,  \* Engine.done
  answered,    \* KataGo's answer to the probe
  stdin,       \* the pipe to KataGo
  server,      \* the WebSocket server
  cloudflared, \* the cloudflared process
  tunnelDone,  \* tunnel.done
  events,      \* the channel from cloudflared's reader to startTunnel
  printed,     \* what cloudflared has printed so far
  seen         \* what startTunnel has taken from the channel

engine == <<katago, katagoDone, answered, stdin>>
tunnel == <<cloudflared, tunnelDone, events, printed, seen>>
vars == <<at, signalled, limit, katago, katagoDone, answered, stdin, server,
          cloudflared, tunnelDone, events, printed, seen>>

-----------------------------------------------------------------------------

Place == {"starting", "probing", "listening", "tunnelling", "awaiting",
          "publishing", "serving", "stopping-tunnel", "reaping-tunnel",
          "stopping-server", "terminating", "closing", "waiting", "killed",
          "removing"}

\* A child process: "hung" no longer reads, answers or heeds SIGTERM; "killed"
\* by this process; "reaped" once cmd.Wait has returned.
Child == {"none", "up", "hung", "exited", "killed", "reaped"}

Lives(child) == child \in {"up", "hung"}

\* A done channel holds the result of Wait and is then closed, so that every
\* receive after the first one returns at once as well.
Ready(done) == done \in {"result", "closed"}

\* Mutant: the channel is not closed behind the result.
Received_Empties(done) == "empty"

Received(done) == "closed"

\* shutdownCtx: its 10 s have passed, or it derives from the cancelled context.
Expired == limit = "passed" \/ (limit = "signal" /\ signalled)

Init ==
  /\ at = "starting"
  /\ signalled = FALSE
  /\ limit = "none"
  /\ katago = "none" /\ katagoDone = "empty"
  /\ answered = "no"
  /\ stdin = "open"
  /\ server = "none"
  /\ cloudflared = "none" /\ tunnelDone = "empty"
  /\ events = <<>> /\ printed = <<>> /\ seen = {}

-----------------------------------------------------------------------------
(* bridge.Start.                                                           *)

\* cmd.Start fails (it does when the context is cancelled) or does not.
StartKataGo ==
  /\ at = "starting"
  /\ \/ at' = "removing" /\ UNCHANGED katago
     \/ at' = "probing" /\ katago' = "up"
  /\ UNCHANGED <<signalled, limit, katagoDone, answered, stdin, server, tunnel>>

\* probe receives the answer; an error in it is a failure.
ProbeAnswered ==
  /\ at = "probing"
  /\ answered # "no"
  /\ at' = IF answered = "ok" THEN "listening" ELSE "terminating"
  /\ UNCHANGED <<signalled, limit, engine, server, tunnel>>

\* probe receives from done: KataGo has ended.
ProbeSeesExit ==
  /\ at = "probing"
  /\ Ready(katagoDone)
  /\ katagoDone' = Received(katagoDone)
  /\ at' = "terminating"
  /\ UNCHANGED <<signalled, limit, katago, answered, stdin, server, tunnel>>

\* StartupTimeout or the context, or the write of the probe fails.
ProbeFails ==
  /\ at = "probing"
  /\ at' = "terminating"
  /\ UNCHANGED <<signalled, limit, engine, server, tunnel>>

-----------------------------------------------------------------------------
(* The server, cloudflared and the link.                                   *)

\* Mutant: a failed Listen returns at once.
Listen_LeavesEngine ==
  /\ at = "listening"
  /\ \/ at' = "tunnelling" /\ server' = "up"
     \/ at' = "removing" /\ UNCHANGED server
  /\ UNCHANGED <<signalled, limit, engine, tunnel>>

\* net.Listen, NewServer and the goroutine that serves.
Listen ==
  /\ at = "listening"
  /\ \/ at' = "tunnelling" /\ server' = "up"
     \/ at' = "terminating" /\ UNCHANGED server
  /\ UNCHANGED <<signalled, limit, engine, tunnel>>

\* startTunnel as far as cmd.Start.
StartCloudflared ==
  /\ at = "tunnelling"
  /\ \/ at' = "awaiting" /\ cloudflared' = "up" /\ UNCHANGED limit
     \/ at' = "stopping-server" /\ limit' = "signal" /\ UNCHANGED cloudflared
  /\ UNCHANGED <<signalled, engine, server, tunnelDone, events, printed, seen>>

\* The loop goes on until it has both the URL and a registration.
Complete(S) == {"url", "registered"} \subseteq S

TakeEvent ==
  /\ at = "awaiting"
  /\ events # <<>>
  /\ events' = Tail(events)
  /\ seen' = seen \cup {Head(events)}
  /\ at' = IF Complete(seen') THEN "publishing" ELSE at
  /\ UNCHANGED <<signalled, limit, engine, server, cloudflared, tunnelDone,
                 printed>>

\* cloudflared has ended instead.
AwaitSeesExit ==
  /\ at = "awaiting"
  /\ Ready(tunnelDone)
  /\ tunnelDone' = Received(tunnelDone)
  /\ at' = "stopping-server"
  /\ limit' = "signal"
  /\ UNCHANGED <<signalled, engine, server, cloudflared, events, printed, seen>>

\* Mutant: startTunnel returns its error and stops nothing.
AwaitFails_LeavesTunnel ==
  /\ at = "awaiting"
  /\ at' = "stopping-server"
  /\ limit' = "signal"
  /\ UNCHANGED <<signalled, engine, server, tunnel>>

\* TunnelTimeout or the context: cloudflared gets SIGTERM.
AwaitFails ==
  /\ at = "awaiting"
  /\ at' = "stopping-tunnel"
  /\ limit' = "signal"
  /\ UNCHANGED <<signalled, engine, server, tunnel>>

\* buildConnectionURL and connection.json (WriteQR's errors are only logged).
Publish ==
  /\ at = "publishing"
  /\ \/ at' = "serving" /\ UNCHANGED limit
     \/ at' = "stopping-tunnel" /\ limit' = "signal"
  /\ UNCHANGED <<signalled, engine, server, tunnel>>

-----------------------------------------------------------------------------
(* The select of Run: each case leads to shutdown(context.Background()).   *)

Leave == at = "serving" /\ at' = "stopping-tunnel" /\ limit' = "timer"

SelectSignal ==
  /\ signalled
  /\ Leave
  /\ UNCHANGED <<signalled, engine, server, tunnel>>

SelectKataGo ==
  /\ Ready(katagoDone)
  /\ Leave
  /\ katagoDone' = Received(katagoDone)
  /\ UNCHANGED <<signalled, katago, answered, stdin, server, tunnel>>

SelectServer ==
  /\ server = "ended"
  /\ Leave
  /\ UNCHANGED <<signalled, engine, server, tunnel>>

SelectTunnel ==
  /\ Ready(tunnelDone)
  /\ Leave
  /\ tunnelDone' = Received(tunnelDone)
  /\ UNCHANGED <<signalled, engine, server, cloudflared, events, printed, seen>>

-----------------------------------------------------------------------------
(* shutdown: tunnel.stop, which has sent SIGTERM, ...                      *)

StopSeesExit ==
  /\ at \in {"stopping-tunnel", "reaping-tunnel"}
  /\ Ready(tunnelDone)
  /\ tunnelDone' = Received(tunnelDone)
  /\ at' = "stopping-server"
  /\ UNCHANGED <<signalled, limit, engine, server, cloudflared, events, printed,
                 seen>>

\* Its 5 s are over: SIGKILL, and wait on.
StopKills ==
  /\ at = "stopping-tunnel"
  /\ cloudflared' = IF Lives(cloudflared) THEN "killed" ELSE cloudflared
  /\ at' = "reaping-tunnel"
  /\ UNCHANGED <<signalled, limit, engine, server, tunnelDone, events, printed,
                 seen>>

\* ... Server.Shutdown, which ends in time or with shutdownCtx, ...
StopServer ==
  /\ at = "stopping-server"
  /\ server' = "ended"
  /\ at' = "terminating"
  /\ UNCHANGED <<signalled, limit, engine, tunnel>>

\* A write to KataGo does not end: Shutdown's own, or the one of a handler that
\* holds writeMu.
Blocked == stdin = "full" /\ Lives(katago)

\* Mutant: KataGo is not given end of file.
Terminate_KeepsStdin ==
  /\ at = "terminating"
  /\ ~Blocked
  /\ at' = "waiting"
  /\ UNCHANGED <<signalled, limit, engine, server, tunnel>>

\* ... and Engine.Shutdown: terminate_all, ...
Terminate ==
  /\ at = "terminating"
  /\ ~Blocked
  /\ at' = "closing"
  /\ UNCHANGED <<signalled, limit, engine, server, tunnel>>

CloseStdin ==
  /\ at = "closing"
  /\ ~Blocked
  /\ stdin' = "closed"
  /\ at' = "waiting"
  /\ UNCHANGED <<signalled, limit, katago, katagoDone, answered, server, tunnel>>

\* ... then the select: done (again, once the process has been killed), ...
WaitSeesExit ==
  /\ at \in {"waiting", "killed"}
  /\ Ready(katagoDone)
  /\ katagoDone' = Received(katagoDone)
  /\ at' = "removing"
  /\ UNCHANGED <<signalled, limit, katago, answered, stdin, server, tunnel>>

\* ... or ShutdownTimeout or the context, both of which kill its group; after
\* the former Shutdown waits on.
WaitKills ==
  /\ at = "waiting"
  /\ \/ at' = "killed"
     \/ Expired /\ at' = "removing"
  /\ katago' = IF Lives(katago) THEN "killed" ELSE katago
  /\ UNCHANGED <<signalled, limit, katagoDone, answered, stdin, server, tunnel>>

KilledReturns ==
  /\ at = "killed"
  /\ Expired
  /\ at' = "removing"
  /\ UNCHANGED <<signalled, limit, engine, server, tunnel>>

-----------------------------------------------------------------------------
(* What goes on beside Run's goroutine, as long as the process lives.      *)

Beside == at # "removing" /\ UNCHANGED at

\* signal.NotifyContext.
Signal ==
  /\ Beside
  /\ ~signalled
  /\ signalled' = TRUE
  /\ UNCHANGED <<limit, engine, server, tunnel>>

\* shutdown's 10 s pass.
LimitPasses ==
  /\ Beside
  /\ at \in {"stopping-server", "terminating", "closing", "waiting", "killed"}
  /\ limit \in {"timer", "signal"}
  /\ limit' = "passed"
  /\ UNCHANGED <<signalled, engine, server, tunnel>>

\* Mutant: KataGo is started with exec.Command.
ContextKillsKataGo_Never == at = "none" /\ UNCHANGED vars

\* exec.CommandContext: the cancelled context kills either child.
ContextKillsKataGo ==
  /\ Beside
  /\ signalled
  /\ Lives(katago)
  /\ katago' = "killed"
  /\ UNCHANGED <<signalled, limit, katagoDone, answered, stdin, server, tunnel>>

ContextKillsTunnel ==
  /\ Beside
  /\ signalled
  /\ Lives(cloudflared)
  /\ cloudflared' = "killed"
  /\ UNCHANGED <<signalled, limit, engine, server, tunnelDone, events, printed,
                 seen>>

\* The goroutines of cmd.Wait.
ReapKataGo ==
  /\ Beside
  /\ katago \in {"exited", "killed"}
  /\ katago' = "reaped"
  /\ katagoDone' = "result"
  /\ UNCHANGED <<signalled, limit, answered, stdin, server, tunnel>>

ReapTunnel ==
  /\ Beside
  /\ cloudflared \in {"exited", "killed"}
  /\ cloudflared' = "reaped"
  /\ tunnelDone' = "result"
  /\ UNCHANGED <<signalled, limit, engine, server, events, printed, seen>>

\* Serve fails by itself.
ServerFails ==
  /\ Beside
  /\ server = "up"
  /\ server' = "ended"
  /\ UNCHANGED <<signalled, limit, engine, tunnel>>

\* Mutant: the channel has no buffer, and the loop is busy.
Offer_Unbuffered(line) == UNCHANGED events

\* The reader of cloudflared's output never waits: an event for which the
\* channel has no room is dropped.
Offer(line) ==
  events' = IF Len(events) < EventCapacity THEN Append(events, line) ELSE events

-----------------------------------------------------------------------------
(* The children (external).                                                *)

KataGoAnswers ==
  /\ Beside
  /\ at = "probing" /\ katago = "up" /\ answered = "no"
  /\ answered' \in {"ok", "error"}
  /\ UNCHANGED <<signalled, limit, katago, katagoDone, stdin, server, tunnel>>

KataGoHangs ==
  /\ Beside
  /\ katago = "up"
  /\ katago' = "hung"
  /\ UNCHANGED <<signalled, limit, katagoDone, answered, stdin, server, tunnel>>

\* The queries of a client fill the pipe to a KataGo that does not read it.
ClientFillsPipe ==
  /\ Beside
  /\ server # "none"
  /\ katago = "hung" /\ stdin = "open"
  /\ stdin' = "full"
  /\ UNCHANGED <<signalled, limit, katago, katagoDone, answered, server, tunnel>>

KataGoExits ==
  /\ Beside
  /\ Lives(katago)
  /\ katago' = "exited"
  /\ UNCHANGED <<signalled, limit, katagoDone, answered, stdin, server, tunnel>>

\* The address of the tunnel comes first, then its registration, which is
\* repeated after every reconnection.
CloudflaredPrints ==
  /\ Beside
  /\ cloudflared = "up"
  /\ Len(printed) < MaxLines
  /\ LET line == IF printed = <<>> THEN "url" ELSE "registered"
     IN  printed' = Append(printed, line) /\ Offer(line)
  /\ UNCHANGED <<signalled, limit, engine, server, cloudflared, tunnelDone, seen>>

CloudflaredHangs ==
  /\ Beside
  /\ cloudflared = "up"
  /\ cloudflared' = "hung"
  /\ UNCHANGED <<signalled, limit, engine, server, tunnelDone, events, printed,
                 seen>>

CloudflaredExits ==
  /\ Beside
  /\ Lives(cloudflared)
  /\ cloudflared' = "exited"
  /\ UNCHANGED <<signalled, limit, engine, server, tunnelDone, events, printed,
                 seen>>
-----------------------------------------------------------------------------

Start == StartKataGo \/ ProbeAnswered \/ ProbeSeesExit \/ ProbeFails

StartTunnel ==
  StartCloudflared \/ TakeEvent \/ AwaitSeesExit \/ AwaitFails

Select == SelectSignal \/ SelectKataGo \/ SelectServer \/ SelectTunnel

Shutdown ==
  \/ StopSeesExit \/ StopKills \/ StopServer
  \/ Terminate \/ CloseStdin \/ WaitSeesExit \/ WaitKills \/ KilledReturns

\* The goroutine of service.Run.
Run == Start \/ Listen \/ StartTunnel \/ Publish \/ Select \/ Shutdown

Runtime ==
  \/ LimitPasses \/ ContextKillsKataGo \/ ContextKillsTunnel
  \/ ReapKataGo \/ ReapTunnel

Environment ==
  \/ Signal \/ ServerFails
  \/ KataGoAnswers \/ KataGoHangs \/ ClientFillsPipe \/ KataGoExits
  \/ CloudflaredPrints \/ CloudflaredHangs \/ CloudflaredExits

\* Run's deferred removals come next.
Returned == at = "removing" /\ UNCHANGED vars

Next == Run \/ Runtime \/ Environment \/ Returned

Spec == Init /\ [][Next]_vars

\* Goroutines run, timers fire, signals and SIGKILL are delivered.  Nothing is
\* asked of KataGo, cloudflared, the server or the user.
Fairness ==
  /\ WF_vars(Run)
  /\ WF_vars(LimitPasses)
  /\ WF_vars(ContextKillsKataGo) /\ WF_vars(ContextKillsTunnel)
  /\ WF_vars(ReapKataGo) /\ WF_vars(ReapTunnel)

LiveSpec == Spec /\ Fairness

-----------------------------------------------------------------------------
(* Properties.                                                             *)

\* Received or not, a done channel is readable from the moment on at which its
\* child is reaped.
DoneIsReadable ==
  /\ katago = "reaped" <=> Ready(katagoDone)
  /\ cloudflared = "reaped" <=> Ready(tunnelDone)

ChannelTypeOK ==
  /\ events \in Seq({"url", "registered"}) /\ Len(events) <= EventCapacity
  /\ printed \in Seq({"url", "registered"})
  /\ seen \subseteq {"url", "registered"}

ProcessTypeOK ==
  /\ at \in Place
  /\ signalled \in BOOLEAN
  /\ limit \in {"none", "timer", "signal", "passed"}
  /\ katago \in Child /\ cloudflared \in Child
  /\ katagoDone \in {"empty", "result", "closed"}
  /\ tunnelDone \in {"empty", "result", "closed"}
  /\ answered \in {"no", "ok", "error"}
  /\ stdin \in {"open", "full", "closed"}
  /\ server \in {"none", "up", "ended"}

\* Every variable keeps its type, and a done channel stays readable, whichever
\* of probe, select, tunnel.stop and Shutdown has received from it.
TypeOK == ProcessTypeOK /\ ChannelTypeOK /\ DoneIsReadable

\* "Stop KataGo and the tunnel": whichever way Run takes to its return, be it
\* one of the failures of start-up, no child lives on and nothing listens.
NothingLeftRunning ==
  at = "removing" =>
    ~Lives(katago) /\ ~Lives(cloudflared) /\ server # "up"

\* A full channel costs startTunnel nothing: what it waits for and cloudflared
\* has printed, it has taken or will take.
NoEventLost ==
  at = "awaiting" =>
    \A i \in 1..Len(printed) :
      printed[i] \in seen \cup {events[j] : j \in 1..Len(events)}

\* KataGo is killed only by SIGTERM's context, or after it has been given end
\* of file and has not come to its end in time.
KataGoIsAsked ==
  [][katago' = "killed" /\ katago # "killed"
       => signalled \/ stdin = "closed"]_vars

\* "Stop the service safely": SIGTERM brings Run to its return, wherever it
\* is, even when KataGo hangs with the pipe full and cloudflared is deaf.
SignalEndsRun == signalled ~> at = "removing"

\* Engine.Shutdown waits for the pipe and its timeout has not begun.
HeldByPipe == Blocked /\ ~signalled

\* Start-up comes to its end, and so does the service once a part of it has
\* ended by itself, unless KataGo hangs for ever with the pipe full.
RunEnds ==
  \/ <>[]HeldByPipe
  \/ /\ at = "starting" ~> at \in {"serving", "removing"}
     /\ at = "serving" /\ (~Lives(katago) \/ ~Lives(cloudflared)
                             \/ server = "ended")
          ~> at = "removing"
=============================================================================
