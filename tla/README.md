# Formal models of katago-remote

TLA+ models of the bridge that lets one WebSocket client at a time use a KataGo
analysis process, of the background service around it and of the commands that
control it, with the TLC configurations that check them and the proofs TLAPS
checks.

    tlc -workers 2 -config EngineSafety.cfg MCEngine.tla
    tlapm EngineProofs.tla

| Module | Models | Stands on |
| --- | --- | --- |
| Queries | what the bridge promises a client (abstract) | |
| Engine | the query multiplexer and its KataGo | |
| EngineRefinement | how Engine implements Queries | Engine, Queries |
| Bridge | handlers and senders, composed with the engine | Engine |
| Lifecycle | one service process as the others see it (abstract) | |
| Service | commands and service processes around the shared files | |
| ServiceRefinement | how each process of Service implements Lifecycle | Service, Lifecycle |
| Supervisor | one service process from the inside, with its children | |
| SupervisorRefinement | how Supervisor implements Lifecycle | Supervisor, Lifecycle |
| TokenFile | what a file replaced and read in one step would be (abstract) | |
| Files | replacing and reading one file, one system call at a time | |
| FilesRefinement | when Files implements TokenFile | Files, TokenFile |
| Output | what `logs` and `show` print | |
| *Proofs | the theorems about the module of that name | it |

## The system

| Component | Source | State | Operations |
| --- | --- | --- | --- |
| Engine | `internal/bridge/engine.go` | `routes`, `byUser`, `seq`, `stdin`, `writeMu`, `routeMu`, the KataGo process and its pipes | `Start`, `probe`, `Submit`, `writeJSON`, `dispatch`, `removeRoute`, `CancelSession`, `Shutdown` |
| Server | `internal/bridge/server.go` | `activeSession`, one connection and one sender mutex per session | `websocket`, `claimSession`, `releaseSession`, `websocketSender.Send` |
| Service process | `internal/service/service.go` (`Run`, `shutdown`) | where it is between start-up and exit, the token it read, the port, cloudflared | start engine, listen, start tunnel, publish the link, wait, shut down |
| Service control | `internal/service/service.go`, `cmd/katago-remote/main.go` | none of its own | `StartDaemon`, `Stop`, `ResetLink`, `ReadStatus`, `Show` |
| State files | `internal/service/state*.go` | `state/service.json`, `state/connection.json` | write, read, remove, `processMatches` |
| Tunnel | `internal/service/tunnel.go` | the cloudflared child, its events | `startTunnel`, `stop` |
| Configuration | `internal/config/config.go` | config and token files | `Load`, `Save`, `Validate`, `EnsureToken`, `ReadToken`, `atomicWrite` |
| QR codes | `internal/service/qr.go` | none | `PrintQR`, `WriteQR` |
| Diagnostics | `internal/service/service.go` | none | `Doctor`, `TailLog` |
| Installer, scripts | `install.sh`, `scripts/` | downloads | install, verify, release |

How they interact: a handler goroutine per connection calls `Submit` for every
line of a message and, when it ends, `CancelSession`; one goroutine
(`readStdout`) calls `dispatch` for every line KataGo prints, and `dispatch`
calls the session's `Sender`; the goroutine of `Run` calls `Shutdown`. They share
the two route tables under `routeMu`, the stdin pipe under `writeMu`, and a
connection's writer under the sender's `writeMu`. Commands and the service
process share nothing but three files, signals and the listening port.

What is hard here, and what makes each part correct:

- **Engine.** Three kinds of goroutine interleave between critical sections.
  The tables must stay each other's inverse whatever fails in between; a reply
  must reach the query it is about although ids are reused and a route is removed
  before its last reply is sent; the count of expected results must be exact
  (too low loses results, too high blocks the id for ever); a cancelled session's
  analyses must be stopped, and nobody else's.
- **Server.** The engine changes hands: the successor must find nothing of its
  predecessor. A client may stall or vanish at any moment, and must not keep the
  engine, nor the one reader of KataGo's output.
- **Service control.** Check-then-act on files by several processes, start-up
  that fails half-way, SIGTERM during start-up, crashes that leave files and
  children behind. What `status` says must be true, a revoked token must not be
  served, and `stop` must leave nothing running.
- **Service process.** Start-up can fail at every step, each time with other things
  to take down; two children may hang, die or ignore SIGTERM at any moment; four
  places receive from the same two done channels; timers and contexts race with
  what they bound. Run must leave no child and must come to its end.
- **State files, configuration.** Every writer uses one fixed `.tmp` name, may be
  killed or run out of space, and may overlap with others and with readers.
- **Diagnostics, QR codes.** A ring buffer over a log that grows while it is read;
  two rows of modules to a line when the number of rows is odd.

`PROJECT.json` lists the hazards one by one, each at its line.

## Modules

### Engine

One session has one goroutine, at `pc[s]`:

    idle --Register--> submitting --Write--> idle
                           \--WriteFails--> unrouting --RemoveRoute--> failed
    idle --SubmitRefused/SubmitBadTerminate--> refusing --RefusalSent--> idle | failed
    idle | failed --CancelSession--> cancelling --CancelNext*, CancelReturns--> gone

A section under `routeMu` is one step, since nothing in it blocks; `routeMu`
itself is therefore no variable. `writeMu` is held over a write to a pipe that
may be full, so a write is `Lock`, then `Write` or `WriteFails`. The line being
written is `line[g]`; `Main` is the goroutine of `Shutdown` and writes
`terminate_all` the same way. `dispatch` is one step up to the `Send`, which
leaves `reply` set until `DispatchSent`; it is executed together with KataGo's
printing the line, as KataGo may hold back any line for as long as it likes.

KataGo is external and is modelled from what the bridge relies on: it reads
stdin line by line, answers each line under its id with one final per turn, an
error instead of all of them, or (constant `Warnings`) a warning before them,
may print partial results, answers what it was told to terminate, and may exit at
any moment. What it has printed is still dispatched after that, even after
`cmd.Wait` has closed the pipe (`Reap`), since `readStdout` reads ahead; at any
point then `StdoutEnds` drops the rest. `work[id]` is what it still owes. `asker` and `orig` in a line and in
a reply are ghosts: they identify the query that was really asked, which is what
`RepliesGoHome` compares.

Abstracted: the JSON (a query is its action, its number of turns, its target);
validation (`SubmitRefused` may happen to any line); the `terminateId` that
`dispatch` translates back; logging; stderr.

### Bridge

Extends Engine with the handler (`Accept`, `ClaimSession`, `ReadMessage`,
`SubmitLine`, `EndSession`, `ReleaseSession`, `CloseConnection`) and with
`websocketSender.Send`. Each step is a step of the handler between two of
Engine's, or one of Engine's with `serverVars` unchanged, or both at once where
the handler calls the engine (`SubmitLine` is `Submit`'s first step, `EndSession`
is `CancelSession`'s, `SendReply` is `DispatchSent`). What Engine leaves open
about a `Send` is decided here: `sendMu[s]` is its mutex, the handler's protocol
errors are written without a deadline, `dispatch`'s results with one of 10 s, which
the mutex does not know. A connection is `open`, `stalled` (the client reads
nothing) or `closed` (the server can find out).

### Service

Commands and service processes as separate processes. Each read, replacement or
removal of a file is a step; a replacement is atomic (temporary file and
rename). `run[p]` is where a service process is in `Run`; each step of its
start-up may fail and then takes the code's path down. `ProcessMatches` includes
zombies: `StartDaemon` is the parent of the process it spawns and does not wait
for it, so until that command ends a dead child still answers `kill(pid, 0)` and
has its start time in `/proc`. Processes are told apart by pid and start time,
so a process is a number and reuse of a pid is not a case. Commands and processes are
numbered in the order in which they are given and spawned, which loses nothing and
spares TLC the permutations.

cloudflared runs from `cmd.Start` on (`StartTunnel`), before it has registered
(`AwaitTunnel`), so a process killed in between leaves it behind as well. It may end,
and so may the server, at any time (`TunnelEnds`, `ServerEnds`), and Run goes on until
its select.

Abstracted: what the service process does inside (module Supervisor), the system
calls of a replacement (module Files), the time limits (a deadline is a step that may happen
once what it waits for has had its time: see `ForceKill` and `PollEnds`), I/O
errors of the commands (a rotation or a spawn that fails) and errors of the removals,
which the code ignores. An early return of `Run` before its first `defer`
(`ReadToken`, `Record`) leaves the files as they are, any later one takes them down.

`ForceKill` assumes something about time: when a Stop has waited its 15 s, the process
it signalled has no cloudflared any more. SIGTERM cancels the context of
`exec.CommandContext`, which kills cloudflared at once, and `tunnel.stop` takes 5 s at
the most; nothing else in `Stop` says so. `StopsItsTunnel` rests on it where the process
is killed, and the guard is the only place where that assumption enters.

A process that is killed from outside is `killed`, any other that has ended is
`exited` (`Ended` is either): what a Stop may leave up depends on it.

### Queries and EngineRefinement

Queries is `docs/PROTOCOL.md` from the client's side: `asked` maps the queries
that are active to the number of results still owed, `over` has the sessions that
have ended, `answer` is the reply on its way. Its actions are Ask, Withdraw,
Partial, Result, Error, Delivered and End; there is no table, lock, pipe or
internal id. EngineRefinement reads `asked` off KataGo's backlog (`work[id].left`)
once KataGo has the query and off the route before that, and `answer` off the
ghosts that identify the query KataGo was really answering. `KeepsPromise` is
therefore more than bookkeeping: it fails when the engine's count and KataGo's
differ, as it does with warnings.

### Supervisor

`at` is where the goroutine of `Run` is, from `bridge.Start` through `Listen`,
`startTunnel` and the publication to the select, then down through `tunnel.stop`,
`Server.Shutdown` and `Engine.Shutdown` (three steps: terminate_all, close stdin,
the select) to `removing`, the deferred removals. Every early return of start-up
goes down from where it is, by the code's own path: a failed `Listen` skips the
tunnel and the server, a failed `probe` goes straight to `Engine.Shutdown`, a
failed `startTunnel` passes the context that SIGTERM has cancelled, and the select
a fresh one (`limit` says which; `Expired` is when it is done).

Beside it run the goroutines of `cmd.Wait` (`ReapKataGo`, `ReapTunnel`), the
kills of `exec.CommandContext`, the reader of cloudflared's output (`Offer`, which
drops what does not fit) and the timers. A timer may fire at any step at which the
code has it in a select. A child is `up`, `hung`, `exited`, `killed` or `reaped`; it
may hang or end at any step, and a hung KataGo with a full pipe blocks whoever
writes to it (`Blocked`).

### Lifecycle, ServiceRefinement and SupervisorRefinement

Service and Supervisor are two views of one process, and Lifecycle is what they have
in common: the phase of the process, whether it listens and whether its cloudflared
runs. ServiceRefinement maps every process of Service to it (`Phase(p)`, the port, the
membership of `tunnelUp`), SupervisorRefinement maps Run's goroutine and its children.
What Service takes for granted about `Run` is therefore what Supervisor shows: that a
process goes through its phases in order, that the link goes out only after a tunnel
has come up behind a listener, and that it returns only with both of them down.
Supervisor's `StopKills` and `StopServer` are steps in which a part ends, its last
receive or its expired context is the `Return`, and Service's `Close` does it all at
once. That a process moves on and ends after SIGTERM (`WF_vars(RunStep(p))`) is
`SignalEndsRun` and `RunEnds`.

### Files

`atomicWrite` as open-and-truncate, write, chmod, rename and the removal after an
error; `EnsureToken` and `ReadToken` around it. Names lead to inodes and an open
file stays with its inode, so a writer whose `.tmp` has been renamed by another one
goes on writing into the file that is in force. A process may be killed between any
two calls and a write may run out of space. `writePrivateJSON` has the same calls in
the same order. Two things hold of tokens and not of JSON: all have the same
length, so a shorter one written over a longer one leaves no tail, and each is
written in one call. A write that fails leaves nothing, too little (`Torn`, which
readers refuse), or 32 characters and more of a token (`Cut`, which they take for one).

### TokenFile and FilesRefinement

TokenFile is the file as its users think of it, and as Service takes it: a register
`token` that a call reads (`Look`, then `Answer` with what it saw) or replaces
(`Replace`) in one step, or leaves alone (`Fail`, `Die`). FilesRefinement maps Files
to it: the register is what the name leads to (`Current`), a reader has looked when
it has opened the file, since what it will read is in that inode whatever has the
name by then, and a writer does nothing until its rename. `FileIsARegister` says so
of every step up to the one with which two writers come to overlap: from then on a
token that nobody's call has returned may be in force, and what still holds is
`OneWriterWins`.

### Output

`TailLog` line by line, a line being its number and whether it exceeds the
scanner's 64 KiB, while the service goes on appending; and `PrintQR` two rows at a
time over every bitmap. The ring and the rows are compared with what they are to
show, not with another formulation of the loop.

`MC*.tla` extend a module, or its refinement, by no more than symmetry sets. Definitions named `X_Something` with the
comment "Mutant:" are plausible bugs of the operation `X` defined after them; no
specification uses them. They show that the property they are paired with in
`PROJECT.json` can be violated by a bug of that kind.

## Runs

| Run | Question | Instance and why it is enough |
| --- | --- | --- |
| EngineSafety | Do the tables stay inverse, do replies go home, does a cancellation reach the work of its session and of no other? | Two sessions, two ids each, two queries between them (`seq` is 1 after the probe and `MaxSeq` is 3) and the terminates that `CancelSession` adds: the same id in both sessions, one id reused, or a terminate aimed at the other query; a pipe of one line so that writers block. The four properties are also proved without these bounds. |
| EngineTurns | Is `remainingFinals` exactly what KataGo owes, does the engine implement Queries, do queries, `CancelSession` and `Shutdown` come to their end? | One session (counting does not cross sessions) and `Main` compete for `writeMu` and a pipe of one line; two queries of one or two turns, both with one id so that it is reused as soon as it is free; write failures. |
| EngineWarnings | The same count when KataGo warns: **violated**. | One query with a warning. |
| BridgeSafety | Does the engine change hands cleanly? | Two clients with two ids each, two lines to a message, a pipe of two lines so that a query and its terminate can both wait in it. KataGo does not exit here. |
| BridgeLive | Is the engine given up, does the reader go on, is a route ever left over? | One client that stalls and leaves, while KataGo warns and exits and the service stops (`Stops = TRUE`); what keeps the engine or the reader is one session's own doing. One query, an action or an analysis of one or two turns, so that a warning may use up the only final or one of two. |
| ServiceCrash | Are the files true, is the old token gone, does stop stop the service and its tunnel, does each process keep its life-cycle, does a signalled process end? | Three commands in sequence, so that restart or stop comes after reset-link after start, and a process for each, any of which may fail or be killed at any step. One command at a time (`Overlap = FALSE`): what overlapping commands break is the next line's. |
| ServiceTwoStarts, ServiceResetRace | Overlapping commands: **violated**. | Two commands, two processes. |
| ServiceOrphan | Stop after a crash: **violated**. | Two commands in sequence. |
| Supervisor | Does `Run` leave anything behind, does it always return, is KataGo asked before it is killed, does a full channel lose the event `startTunnel` waits for, is this the process the commands count on? | One process, both children, a channel of two events and three lines of cloudflared, so that the channel overflows. `TypeOK` includes that done channels stay readable. |
| Files | Is a replacement atomic, is the file a register, do overlapping writers leave a token, are readers served? | Four processes, each of which reads, creates or rotates: two writers and a third that reuses their `.tmp`, and a reader beside them; a short write may leave what is refused or what passes for a token. |
| Output | Do `logs` and `show` print what they should? | Six lines, up to four asked for: fewer, as many and more than there are, and twice round the ring; codes of up to three by three modules, odd and even. |

Bounds, all of them constants: `MaxSeq` (queries and terminates that take an id;
the guard is on new queries only, so cancellations are never cut off),
`MaxTurns`, `PipeCapacity`, `MaxBatch`, `Command`, `Process`, `MaxLines`
(Supervisor), `MaxLine`, `MaxAsked`, `MaxSide` (Output). `EventCapacity` (32 in the
code) and `DefaultLines` (80) are the code's own constants, made small.
Symmetry is used in the safety runs of Engine, Bridge and Files only, where no action
names a session, an id or a process. Deadlock is checked in every run; the systems really stop
only in `Finished`, `AllServed`, `Idle` and `Returned`, which say when. That the
engine's queries end is checked without warnings, since the refinement in the same
run needs that; BridgeLive has them.

### What the violated runs show

- **EngineWarnings.** `shouldComplete` counts a warning as a final, so the route
  goes one result early and the last result is dropped as unknown
  (`docs/PROTOCOL.md:23`).
- **ServiceTwoStarts.** Two starts both pass the status check. The one that
  cannot listen removes both files while the other serves: `status` and `stop`
  then say it is stopped (`README.md:58`).
- **ServiceResetRace.** A `reset-link` before the service has written
  `service.json` rotates the token without stopping it
  (`docs/TROUBLESHOOTING.md:57`).
- **ServiceOrphan.** After a kill, `stop` cleans the files and leaves
  cloudflared running (`README.md:61`).

## Fairness

- Every goroutine and process that can run does (Go scheduler, operating system):
  weak fairness of `Runs`, `HandlerRuns`, `RunStep`, the commands.
- `sync.Mutex` hands itself to a waiter that has waited 1 ms, so a waiter is not
  starved: strong fairness of `Lock`, `ShutdownClose` and `SendLock`.
- KataGo, while it runs, reads its stdin and finishes each search. Strong, for a
  line may find `dispatch` busy. `ShutdownEnds` needs the first half: with the pipe
  full and KataGo hung, `Shutdown` blocks in `writeJSON` before its timeout starts
  (`engine.go:456`).
- `Send` to a client that reads returns; to one that does not, only the 10 s
  deadline of `dispatch` ends it. No client is obliged to read, send or leave.
- `ForceKill` is not fair: a signalled service has to end by itself (`SignalledEnds`).
- Nothing makes KataGo exit or a user give a command. `ContextKillsTunnel` is fair:
  `exec.CommandContext` kills cloudflared once SIGTERM has cancelled the context.

- In Supervisor the goroutine of `Run`, the timers it waits for (`LimitPasses`, and
  the timer cases within `Run`), the kills of the cancelled context and the
  goroutines of `cmd.Wait` are fair; nothing is asked of KataGo, cloudflared, the
  clients or the user. `SignalEndsRun` holds even when KataGo hangs with a full pipe,
  because SIGTERM's context kills it; `RunEnds` excepts exactly that case without
  SIGTERM (`HeldByPipe`), in which `Engine.Shutdown` waits without limit.

## Proofs

`EngineProofs` proves, for any `Session`, `ClientId`, `MaxTurns`, `MaxSeq`,
`PipeCapacity` and `Warnings` that satisfy `EngineAssumption` and
`NoneAssumption`:

- `Invariant`: `Spec => []IInv`;
- `TypeCorrect`: `[]TypeOK`;
- `TablesStayInverse`: `[]TablesAgree`;
- `SessionsAreIsolated`: `[]RepliesGoHome`.

None of the last two is inductive alone. That the reply dispatch makes is about
the query whose id it carries follows from `HomeInv`: every internal id in a line
a goroutine holds, in the pipe or in KataGo's work has been given out, and if it
has a route, that route is of the session and client id the line is about. It is
preserved because an id is given out once (`seq` only grows), a route never
changes its session or client id (`FitsStable`), and `Register` makes the route
and the line together. `LineInv` says which goroutines hold a line: `removeRoute`
reads the id from it. `TablesAgree` is preserved by the removals of `dispatch` and
`removeRoute` (`DropRoute`, shared by both) because either drops the entry from
both tables, and by `CancelSession` because its session's entries in `byUser` are,
by the invariant itself, all its routes.

It also proves `TerminatesStayHome`: `Spec => StopsOwnWorkOnly`. A
terminate names an internal id, and by the time KataGo reads it the route of that
id may be gone; so the invariant `TermInv` does not speak of routes but of owners.
`Owned(t, a)` says that wherever the id `t` occurs, in a line, in the pipe or at
work, it is that of a query of session `a`. It never changes (`OwnedStable`): each
step only passes lines on from a goroutine to the pipe and from there to KataGo, and what
is new has a new id (`Travel`, `NextTravels`). `TermInv` says that every terminate
on its way names a query owned by its asker or, when `CancelSession` sent it, by
a session that is over, and a session stays over (`OverStable`).

`EngineCountProofs` proves `NoRouteIsLeftOver` (`[]RoutesCanEnd`) of every KataGo,
and `RemainingFinalsExact` (`[]RouteCountsFinals`) and `NoResultIsDropped`
(`[]ResultsHaveRoutes`) under `Warnings = FALSE`; with warnings both of these are
false, and EngineWarnings shows it of the second. The first is what warnings cannot
break: they make `remainingFinals` too low, never too high, so that a route always
ends with the work it waits for and no id stays taken for ever. All three rest on one
`CInv`, which is inductive relative to `IInv`, with or without warnings: an internal
id is in one place at a time (`UniqueInv`); for every query in a line, in the pipe or
at work whose session lives, its route has its kind and expects no more than KataGo
owes, and, without warnings, is there and expects exactly that (`Counts`,
`CountInv`); actions are answered once (`OneAnswer`); and while KataGo runs every
route has its query in one of these places (`Onward`). `UniqueInv` is what lets a
step be judged alone: `removeRoute`, or the last answer, removes one route and, no
other place having that id, breaks no other count. `CancelSession` removes many,
all of a session that is over from that step on (`CountsStable`).

The same module proves `DisconnectReachesWork` (`[]CancelReachesWork`), also under
`Warnings = FALSE`: a route dropped at a warning hides its analysis from
`CancelSession`. The property is inductive relative to `IInv`, `CInv` and `AskInv`
(only a session's own Submit writes lines on its behalf, so a session that is over
puts no new query into the pipe). It is established by `CancelSession`: `CountInv`
then gives every analysis left behind a route, so it is collected. From there the
terminate goes from `todo` to a line and from there behind the query in the pipe,
and reading shifts both alike or tells the query to stop. Only a failed write takes
a terminate away, and that needs a KataGo, or a stdin, that never comes back.

`BridgeProofs` proves `BridgeImplementsEngine`: `BridgeSpec => Spec`, every step
of the handlers and senders being a step of the engine or leaving its variables
alone, so that what is proved of `Spec` holds of the bridge
(`BridgeIsolatesSessions`). It also proves `BridgeTypeCorrect` and
`OneClientOwnsTheEngine` (`[]OneOwner`), from the inductive invariant `BInv`, which
ties `activeSession` to the handlers between `claimSession` and `releaseSession`.
`HandoffIsClean` (`[]HandoffClean`, for `Warnings = FALSE`) composes the two
components: when `claimSession` succeeds nobody else is served, so every analysis in
the pipe or at work belongs to a session that is over (`CountInv`) and has nothing
left in `todo` or in a line; what `CancelReachesWork` promises of it can then only be
in the pipe, where the new session has nothing yet (`FreshInv`).

`EngineRefinementProofs` proves `EngineKeepsPromise`: `Spec => KeepsPromise` when
`Warnings = FALSE`, and `BridgeKeepsPromise` through the implementation theorem. The
refinement mapping reads two variables of the implementation for one of the
specification, so each step needs that the two agree: that is `CInv`, from
`EngineCountProofs`. The proof goes by the engine's actions; each is an action of
Queries or leaves the mapped variables alone.

`SupervisorProofs` proves `[]TypeOK`, `[]NothingLeftRunning`, `[]NoEventLost` and
`KataGoIsAsked` for any capacity of at least two and any number of lines. The
invariant `SInv` says at which places a child or the server can be up at all, that a
done channel is readable exactly when its child is reaped, and that only the first
event in the channel can be the address, so that a full channel holds a registration
and dropping another does no harm. It rests on what cloudflared prints: its address
first and once, then its registrations. With the same invariant `RunDoesKeepLifecycle`
(`RunKeepsLifecycle`) goes by Run's operations: each is a step of Lifecycle or not
seen, and the return is allowed because `Progress` says that nothing is up by then.

`FilesProofs` proves `[]TypeOK`, `WriteIsAtomic`, `ReadersAreServed` and
`[]OneWriterWins` for any set of processes. `FInv` follows who has which inode
open, what it holds, and who must have been through when a name is gone; the part
of it about a single writer is conditional on `~overlapped`. The same invariant, with
the type of `op` (`Kinds`), carries `FileImplementsRegister` (`FileIsARegister`): a
system call of a writer is invisible or its failure (`WriterHidden`,
`WriteIsHiddenOrFails`), the rename is the replacement (`RenameReplaces`), and
what a reader has opened keeps its contents, since nobody writes to an inode that has
been renamed (`NotSeen`, `ReadFileAnswers`).

`ServiceProofs` proves `[]TypeOK` for every instance, and for `Overlap = FALSE`
(with or without crashes, any number of commands and processes) `[]StatusIsTrue`,
`[]OldTokenIsRevoked`, `StopsTheService` and `StopsItsTunnel`. The invariant has
four parts: one active command and one service process (`OneAtATime`);
service.json names that process, or it is young and its start command waits for it
(`Named`); what a command has found out stays true while it acts on it
(`StillTrue`); and the published link, the served token and the tunnel are those
of the process that is at the place to have them (`Linked`). ServiceTwoStarts and
ServiceResetRace show that the assumption is needed. `ProcessesDoKeepLifecycle` needs
no such assumption: whatever the commands do to each other, each process keeps the
life-cycle. Its invariant is `TypeOK` and `TunnelInv` (where a tunnel can be up); a step
of one process is none in another's (`OthersUnmoved`), because the port is released
only by its holder, and of the commands' steps only a SIGKILL is seen
(`CommandOfCycle`).

`OutputProofs` proves `[]TypeOK`, `TailIsShown` (`[]LogsShowTheEnd`) and `QRIsShown`
(`[]QRShowsTheCode`) for logs, arguments and codes of any size, so the ring and the
half blocks are right at every boundary and not only at those of the run. `OInv`
says that the ring's slot `i % lines` holds line `i + 1` for each of the last
`lines` lines read (`RingInv`), that what is printed so far is where printing must have
come to (`ShownInv`), and that the lines drawn are the first rows' glyphs
(`DrawnInv`). That a slot is not reused while its line is still wanted
(`SlotsDiffer`), and that printing starts at the oldest (`SlotAfter`), is arithmetic of
remainders, proved apart.

Only model-checked is liveness, which is beyond this prover: `EveryQueryEnds`,
`CancelEnds`, `ShutdownEnds`, `SlotIsFreed`, `ReaderGoesOn`, `SignalledEnds`,
`SignalEndsRun` and `RunEnds`. Every other property of a passing run is a theorem.

## Not modelled

- `Doctor`: it reads the environment and changes nothing. Flag parsing, `printUsage`
  and messages: wording.
- `Load`, `Validate`, `Save` and `Initialize`: range checks on data that no property
  tells apart; the write that `Save` ends with is module Files.
- `readStderr` and the readers' line limits: a line of KataGo's above 64 MiB would end
  `readStdout` for good (`engine.go:325`).
- HTTP routing, `health` and the token comparison (a wrong token leaves no trace in
  the state); the length limits on messages and lines.
- The QR image: the library's, and its write is a step of `Run` whose error is only
  logged.
- Loss of unsynced writes when the machine itself fails.
- The installer and the release scripts.

## Plan

Done: the modules, their runs, and the proofs above. What is left:

1. The counts of the engine query by query, without `Warnings = FALSE`: a query that
   KataGo has not warned about is counted exactly whatever it says about others.
2. A second file in module Files, with contents of different lengths, for the
   overlapping writers of the two JSON files.
