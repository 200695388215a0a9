------------------------------ MODULE Service -------------------------------
(***************************************************************************)
(* internal/service: the background service and the commands that control *)
(* it (start, stop, restart, reset-link) through three files:              *)
(*   state/service.json     which process is the service,                  *)
(*   state/connection.json  the link it serves,                            *)
(*   the token file         the secret part of that link.                  *)
(*                                                                         *)
(* A command and a service process ("run") are separate processes that     *)
(* share nothing else.  Reading or replacing one file is one step; so is   *)
(* ReadStatus, which writes nothing.  The installation is complete: config *)
(* and token file exist.  A process is known by its pid and start time,    *)
(* which no other process shares.                                          *)
(***************************************************************************)
EXTENDS Integers, FiniteSets

CONSTANTS
  Command,   \* bound: the commands, numbered as they are given
  Process,   \* bound: the service processes, numbered as they are spawned
  None,      \* no file, no process
  Overlap,   \* whether a command may be given while another one runs
  Crashes    \* whether a service process may be killed from outside

ASSUME ServiceAssumption ==
  /\ Command \subseteq Nat /\ Process \subseteq Nat
  /\ Overlap \in BOOLEAN /\ Crashes \in BOOLEAN
  /\ None \notin Process

VARIABLES
  processFile,    \* service.json: the process it names
  connectionFile, \* connection.json: whose tunnel and which token
  tokenFile,      \* the current token (the n-th one generated)
  op,             \* what each command does
  at,             \* where each command is
  saw,            \* the process a stop has read from service.json
  child,          \* the process a start has spawned
  run,            \* where each service process is
  served,         \* the token each service process has read
  signalled,      \* service processes that got SIGTERM
  tunnelUp,       \* service processes whose cloudflared runs
  port            \* the process that listens on cfg.Listen

files == <<processFile, connectionFile, tokenFile>>
commands == <<op, at, saw, child>>
processes == <<run, served, signalled, tunnelUp, port>>
vars == <<processFile, connectionFile, tokenFile, op, at, saw, child,
          run, served, signalled, tunnelUp, port>>

-----------------------------------------------------------------------------

Link == [of : Process, token : Nat]

RunStates == {"unborn", "spawned", "read", "recorded", "started", "listening",
              "awaiting", "tunnelled", "published", "serving", "closing",
              "removing", "unrecording", "unlinking", "exited", "killed"}

Ended(p) == run[p] \in {"exited", "killed"}

Alive(p) == run[p] # "unborn" /\ ~Ended(p)

\* The start command is the parent of the process it spawned and never waits
\* for it, so until it ends it keeps the dead child as a zombie.
Zombie(p) ==
  /\ Ended(p)
  /\ \E c \in Command : child[c] = p /\ at[c] = "polling"

\* processMatches: kill(pid, 0) and /proc/pid/stat do not tell a zombie from
\* a process that runs.
ProcessMatches(p) == Alive(p) \/ Zombie(p)

\* ReadStatus.
Running == processFile # None /\ ProcessMatches(processFile)
Connected == Running /\ connectionFile # None

Init ==
  /\ processFile = None
  /\ connectionFile = None
  /\ tokenFile = 1
  /\ op = [c \in Command |-> "none"]
  /\ at = [c \in Command |-> "idle"]
  /\ saw = [c \in Command |-> None]
  /\ child = [c \in Command |-> None]
  /\ run = [p \in Process |-> "unborn"]
  /\ served = [p \in Process |-> 0]
  /\ signalled = {}
  /\ tunnelUp = {}
  /\ port = None

-----------------------------------------------------------------------------
(* A command.                                                              *)

Active(c) == at[c] \notin {"idle", "done"}

Go(c, place) == at' = [at EXCEPT ![c] = place]

\* The user gives a command; restart and reset-link begin with Stop.
Give(c, o) ==
  /\ op[c] = "none" /\ \A d \in Command : d < c => op[d] # "none"
  /\ Overlap \/ \A d \in Command : ~Active(d)
  /\ op' = [op EXCEPT ![c] = o]
  /\ Go(c, IF o = "start" THEN "checking" ELSE "reading")
  /\ UNCHANGED <<files, saw, child, processes>>

(* Stop.                                                                   *)

InStop(c) ==
  at[c] \in {"reading", "signalling", "waiting", "erasing", "erasing-link"}

\* What follows Stop: nothing, StartDaemon, or EnsureToken and StartDaemon.
AfterStop(c) ==
  CASE op[c] = "stop" -> "done"
    [] op[c] = "restart" -> "checking"
    [] op[c] = "reset-link" -> "rotating"

\* readProcessState and processMatches: nothing to stop, stale files to
\* erase, or a process to signal.
ReadState(c) ==
  /\ at[c] = "reading"
  /\ saw' = [saw EXCEPT ![c] = processFile]
  /\ Go(c, CASE processFile = None -> AfterStop(c)
             [] Running -> "signalling"
             [] OTHER -> "erasing")
  /\ UNCHANGED <<files, op, child, processes>>

\* Mutant: Stop does not wait for the process to end.
SendSIGTERM_NoWait(c) ==
  /\ at[c] = "signalling"
  /\ signalled' = signalled \cup {saw[c]}
  /\ Go(c, "erasing")
  /\ UNCHANGED <<files, op, saw, child, run, served, tunnelUp, port>>

\* process.Signal; it fails, and with it the command, when the process has
\* ended in between and has been reaped.
SendSIGTERM(c) ==
  /\ at[c] = "signalling"
  /\ IF ProcessMatches(saw[c])
     THEN signalled' = signalled \cup {saw[c]} /\ Go(c, "waiting")
     ELSE Go(c, "done") /\ UNCHANGED signalled
  /\ UNCHANGED <<files, op, saw, child, run, served, tunnelUp, port>>

\* A poll of processMatches finds the process gone.
SeeItGone(c) ==
  /\ at[c] = "waiting"
  /\ ~ProcessMatches(saw[c])
  /\ Go(c, "erasing")
  /\ UNCHANGED <<files, op, saw, child, processes>>

\* 15 s have passed: SIGKILL.  They are long enough for a context that was
\* cancelled by SIGTERM to have killed cloudflared.
ForceKill(c) ==
  /\ at[c] = "waiting"
  /\ Alive(saw[c]) => saw[c] \notin tunnelUp
  /\ run' = [run EXCEPT ![saw[c]] = IF Alive(saw[c]) THEN "exited" ELSE @]
  /\ port' = IF port = saw[c] THEN None ELSE port
  /\ Go(c, "erasing")
  /\ UNCHANGED <<files, op, saw, child, served, signalled, tunnelUp>>

EraseProcessFile(c) ==
  /\ at[c] = "erasing"
  /\ processFile' = None
  /\ Go(c, "erasing-link")
  /\ UNCHANGED <<connectionFile, tokenFile, op, saw, child, processes>>

EraseConnectionFile(c) ==
  /\ at[c] = "erasing-link"
  /\ connectionFile' = None
  /\ Go(c, AfterStop(c))
  /\ UNCHANGED <<processFile, tokenFile, op, saw, child, processes>>

\* EnsureToken(home, true).
RotateToken(c) ==
  /\ at[c] = "rotating"
  /\ tokenFile' = tokenFile + 1
  /\ Go(c, "checking")
  /\ UNCHANGED <<processFile, connectionFile, op, saw, child, processes>>

(* StartDaemon.                                                            *)

\* Mutant: no look at the status first.
CheckStatus_Never(c) ==
  /\ at[c] = "checking"
  /\ Go(c, "clearing-link")
  /\ UNCHANGED <<files, op, saw, child, processes>>

\* If the service runs, its link is shown and that is all.
CheckStatus(c) ==
  /\ at[c] = "checking"
  /\ Go(c, IF Running THEN "done" ELSE "clearing-link")
  /\ UNCHANGED <<files, op, saw, child, processes>>

ClearConnectionFile(c) ==
  /\ at[c] = "clearing-link"
  /\ connectionFile' = None
  /\ Go(c, "clearing")
  /\ UNCHANGED <<processFile, tokenFile, op, saw, child, processes>>

ClearProcessFile(c) ==
  /\ at[c] = "clearing"
  /\ processFile' = None
  /\ Go(c, "spawning")
  /\ UNCHANGED <<connectionFile, tokenFile, op, saw, child, processes>>

Spawn(c) ==
  /\ at[c] = "spawning"
  /\ \E p \in Process :
       /\ run[p] = "unborn" /\ \A q \in Process : q < p => run[q] # "unborn"
       /\ run' = [run EXCEPT ![p] = "spawned"]
       /\ child' = [child EXCEPT ![c] = p]
  /\ Go(c, "polling")
  /\ UNCHANGED <<files, op, saw, served, signalled, tunnelUp, port>>

\* The service is ready, has died, or has not made it in time.  The deadline
\* leaves the child ample time to write service.json or to fail before that.
PollEnds(c) ==
  /\ at[c] = "polling"
  /\ \/ Connected
     \/ processFile # None /\ ~ProcessMatches(processFile)
     \/ run[child[c]] \notin {"spawned", "read"}
  /\ Go(c, "done")
  /\ UNCHANGED <<files, op, saw, child, processes>>

-----------------------------------------------------------------------------
(* A service process.                                                      *)

Step(p, from, to) == run[p] = from /\ run' = [run EXCEPT ![p] = to]

\* Run: the token that this process will serve.  Without directories,
\* configuration or token it returns, and leaves the files as they are.
ReadToken(p) ==
  /\ \/ /\ Step(p, "spawned", "read")
        /\ served' = [served EXCEPT ![p] = tokenFile]
     \/ Step(p, "spawned", "exited") /\ UNCHANGED served
  /\ UNCHANGED <<files, commands, signalled, tunnelUp, port>>

\* writeCurrentProcessState; nothing is deferred yet when it fails.
Record(p) ==
  /\ \/ Step(p, "read", "recorded") /\ processFile' = p
     \/ Step(p, "read", "exited") /\ UNCHANGED processFile
  /\ UNCHANGED <<connectionFile, tokenFile, commands, served, signalled,
                 tunnelUp, port>>

\* bridge.Start.
StartEngine(p) ==
  /\ Step(p, "recorded", "started") \/ Step(p, "recorded", "removing")
  /\ UNCHANGED <<files, commands, served, signalled, tunnelUp, port>>

\* net.Listen, which fails when the address is taken (by another service or
\* another program).
Listen(p) ==
  /\ \/ Step(p, "started", "listening") /\ port = None /\ port' = p
     \/ Step(p, "started", "removing") /\ UNCHANGED port
  /\ UNCHANGED <<files, commands, served, signalled, tunnelUp>>

\* startTunnel as far as cmd.Start ...
StartTunnel(p) ==
  /\ \/ Step(p, "listening", "awaiting") /\ tunnelUp' = tunnelUp \cup {p}
     \/ Step(p, "listening", "closing") /\ UNCHANGED tunnelUp
  /\ UNCHANGED <<files, commands, served, signalled, port>>

\* ... and its loop, which a registered tunnel ends, or cloudflared's end, the
\* timeout or the context: then the tunnel is stopped, and all is closed.
AwaitTunnel(p) ==
  /\ Step(p, "awaiting", "tunnelled") \/ Step(p, "awaiting", "closing")
  /\ UNCHANGED <<files, commands, served, signalled, tunnelUp, port>>

\* Mutant: Run returns at once when the link cannot be written.
Publish_JustReturns(p) ==
  /\ \/ /\ Step(p, "tunnelled", "published")
        /\ connectionFile' = [of |-> p, token |-> served[p]]
     \/ Step(p, "tunnelled", "removing") /\ UNCHANGED connectionFile
  /\ UNCHANGED <<processFile, tokenFile, commands, served, signalled, tunnelUp,
                 port>>

\* connection.json is replaced, or cannot be written.
Publish(p) ==
  /\ \/ /\ Step(p, "tunnelled", "published")
        /\ connectionFile' = [of |-> p, token |-> served[p]]
     \/ Step(p, "tunnelled", "closing") /\ UNCHANGED connectionFile
  /\ UNCHANGED <<processFile, tokenFile, commands, served, signalled, tunnelUp,
                 port>>

\* WriteQR; its error is only logged.
WriteQR(p) ==
  /\ Step(p, "published", "serving")
  /\ UNCHANGED <<files, commands, served, signalled, tunnelUp, port>>

\* Mutant: the select has no case for the cancelled context.
SignalSeen_Never(p) == FALSE /\ UNCHANGED vars

\* The select in Run: the context is cancelled ...
SignalSeen(p) ==
  /\ p \in signalled
  /\ Step(p, "serving", "closing")
  /\ UNCHANGED <<files, commands, served, signalled, tunnelUp, port>>

\* ... or KataGo, the WebSocket server or cloudflared has ended by itself.
ComponentEnds(p) ==
  /\ Step(p, "serving", "closing")
  /\ UNCHANGED <<files, commands, served, signalled, tunnelUp, port>>

\* cloudflared may end at any time, that of a killed process too, ...
TunnelEnds(p) ==
  /\ p \in tunnelUp
  /\ tunnelUp' = tunnelUp \ {p}
  /\ UNCHANGED <<files, commands, run, served, signalled, port>>

\* ... and so may Serve, which closes the listener; neither is noticed before
\* the select.
ServerEnds(p) ==
  /\ port = p
  /\ port' = None
  /\ UNCHANGED <<files, commands, run, served, signalled, tunnelUp>>

\* exec.CommandContext kills cloudflared once the context is cancelled.
ContextKillsTunnel(p) ==
  /\ p \in signalled \cap tunnelUp
  /\ Alive(p)
  /\ tunnelUp' = tunnelUp \ {p}
  /\ UNCHANGED <<files, commands, run, served, signalled, port>>

\* Mutant: the listener stays open.
Close_KeepsPort(p) ==
  /\ Step(p, "closing", "removing")
  /\ tunnelUp' = tunnelUp \ {p}
  /\ UNCHANGED <<files, commands, served, signalled, port>>

\* shutdown: tunnel.stop, Server.Shutdown, Engine.Shutdown.
Close(p) ==
  /\ Step(p, "closing", "removing")
  /\ tunnelUp' = tunnelUp \ {p}
  /\ port' = IF port = p THEN None ELSE port
  /\ UNCHANGED <<files, commands, served, signalled>>

\* The deferred os.Remove of connection.json, whoever wrote it ...
RemoveConnection(p) ==
  /\ Step(p, "removing", "unrecording")
  /\ connectionFile' = None
  /\ UNCHANGED <<processFile, tokenFile, commands, served, signalled, tunnelUp,
                 port>>

\* ... and removeCurrentProcessState, which looks first and then removes.
CheckRecord(p) ==
  /\ \/ processFile = p /\ Step(p, "unrecording", "unlinking")
     \/ processFile # p /\ Step(p, "unrecording", "exited")
  /\ UNCHANGED <<files, commands, served, signalled, tunnelUp, port>>

RemoveRecord(p) ==
  /\ Step(p, "unlinking", "exited")
  /\ processFile' = None
  /\ UNCHANGED <<connectionFile, tokenFile, commands, served, signalled,
                 tunnelUp, port>>

\* Killed from outside (out of memory, kill -9): KataGo reads end of file and
\* ends, cloudflared is in a process group of its own and lives on.
Crash(p) ==
  /\ Crashes
  /\ Alive(p)
  /\ run' = [run EXCEPT ![p] = "killed"]
  /\ port' = IF port = p THEN None ELSE port
  /\ UNCHANGED <<files, commands, served, signalled, tunnelUp>>

-----------------------------------------------------------------------------

StopInTime(c) ==
  \/ ReadState(c) \/ SendSIGTERM(c) \/ SeeItGone(c)
  \/ EraseProcessFile(c) \/ EraseConnectionFile(c)

Stop(c) == StopInTime(c) \/ ForceKill(c)

StartDaemon(c) ==
  \/ CheckStatus(c) \/ ClearConnectionFile(c) \/ ClearProcessFile(c)
  \/ Spawn(c) \/ PollEnds(c)

RunStep(p) ==
  \/ ReadToken(p) \/ Record(p) \/ StartEngine(p) \/ Listen(p) \/ StartTunnel(p)
  \/ AwaitTunnel(p) \/ Publish(p) \/ WriteQR(p) \/ SignalSeen(p) \/ Close(p)
  \/ RemoveConnection(p) \/ CheckRecord(p) \/ RemoveRecord(p)

\* What no process is obliged to do.
ByItself(p) ==
  ComponentEnds(p) \/ TunnelEnds(p) \/ ServerEnds(p) \/ Crash(p)

\* No command is left to give, or no process to spawn.
Idle ==
  /\ \A c \in Command : at[c] \in {"idle", "done", "spawning"}
  /\ UNCHANGED vars

Next ==
  \/ \E c \in Command :
       \/ \E o \in {"start", "stop", "restart", "reset-link"} : Give(c, o)
       \/ Stop(c) \/ RotateToken(c) \/ StartDaemon(c)
  \/ \E p \in Process : RunStep(p) \/ ContextKillsTunnel(p) \/ ByItself(p)
  \/ Idle

Spec == Init /\ [][Next]_vars

\* Processes are scheduled; the engine and the tunnel start or fail in the
\* time they are given, and shutdown is bounded by its timeouts.  ForceKill,
\* Stop's last resort, is not relied on.
Fairness ==
  /\ \A p \in Process : WF_vars(RunStep(p)) /\ WF_vars(ContextKillsTunnel(p))
  /\ \A c \in Command : WF_vars(StopInTime(c) \/ RotateToken(c) \/ StartDaemon(c))

LiveSpec == Spec /\ Fairness

-----------------------------------------------------------------------------
(* Properties.                                                             *)

FilesTypeOK ==
  /\ processFile \in Process \cup {None}
  /\ connectionFile \in Link \cup {None}
  /\ tokenFile \in Nat

Places == {"idle", "reading", "signalling", "waiting", "erasing", "erasing-link",
           "rotating", "checking", "clearing-link", "clearing", "spawning",
           "polling", "done"}

CommandsTypeOK ==
  /\ op \in [Command -> {"none", "start", "stop", "restart", "reset-link"}]
  /\ at \in [Command -> Places]
  /\ saw \in [Command -> Process \cup {None}]
  /\ child \in [Command -> Process \cup {None}]
  /\ \A c \in Command :
       /\ at[c] \in {"signalling", "waiting"} => saw[c] # None
       /\ at[c] = "polling" => child[c] # None
       /\ InStop(c) => op[c] \in {"stop", "restart", "reset-link"}

Open(p) ==
  run[p] \in {"listening", "awaiting", "tunnelled", "published", "serving",
              "closing"}

ProcessesTypeOK ==
  /\ run \in [Process -> RunStates]
  /\ served \in [Process -> Nat]
  /\ signalled \subseteq Process
  /\ tunnelUp \subseteq Process
  /\ port \in Process \cup {None}
  /\ \A p \in Process : port = p => Open(p)

\* Every variable keeps its type, and the port is held by no process that is not
\* between net.Listen and the end of shutdown.
TypeOK == FilesTypeOK /\ CommandsTypeOK /\ ProcessesTypeOK

Quiet == \A c \in Command : ~Active(c)

\* "status: Show whether the service is running": between commands, a service
\* that serves clients is the one the files name, with the link it serves.
StatusIsTrue ==
  Quiet => \A p \in Process :
    run[p] = "serving" =>
      processFile = p /\ connectionFile = [of |-> p, token |-> served[p]]

\* "Check whether the service is running": between commands, when no process
\* is starting or ending, a service that serves clients is reported.
ServingIsReported ==
  Quiet /\ (\A p \in Process : Alive(p) => run[p] = "serving") =>
    \A p \in Process : run[p] = "serving" => Running

\* "Revoke the old token and create a new link": whatever serves a token, or
\* is about to, serves the one that is in the token file.
OldTokenIsRevoked ==
  \A p \in Process : Alive(p) /\ served[p] # 0 => served[p] = tokenFile

\* Stop returns with no service left, on every way through it but the error.
StopsTheService ==
  [][\A c \in Command :
       InStop(c) /\ ~InStop(c)' /\ at[c] # "signalling"
         => \A p \in Process : ~Alive(p)']_vars

\* What Stop leaves up belongs to a service process that was killed from
\* outside: the tunnel of one that it has stopped itself, politely or not, is
\* closed as well.
StopsItsTunnel ==
  [][\A c \in Command :
       InStop(c) /\ ~InStop(c)' /\ at[c] # "signalling"
         => \A p \in tunnelUp' : run'[p] = "killed"]_vars

\* "Stop KataGo and the tunnel".
StopsTheTunnel ==
  [][\A c \in Command :
       InStop(c) /\ ~InStop(c)' /\ at[c] # "signalling"
         => tunnelUp' = {}]_vars

\* A process that Stop has signalled comes to its end, wherever its start-up
\* was, and does not serve on until it is killed.
SignalledEnds == \A p \in Process : p \in signalled ~> Ended(p)
=============================================================================
