# Verification of vsock-server and vsock-client

The program runs commands in a virtual machine over vsock: `vsock-server` (in
the guest) starts a command for an HTTP request and mirrors its streams over
websockets, `vsock-client` posts the command, dials one websocket per stream and
waits for the operation. The code is a cut-down LXD: an exec *session*
(`execWs`) is the hook of an *operation*, which HTTP handlers find in a map.

## Inventory

| Part | State | Operations | Hard behaviour |
|---|---|---|---|
| Exec session, `cmd/vsock-server/exec.go` | `conns`, the channels `allConnected` and `controlConnected` (one place each), ttys and ptys, the WaitGroup `wgEOF` | `Connect` (a goroutine per websocket request), `Do` with its closure `finisher`, one mirror goroutine per stream | concurrent scans of `conns`, blocking channels, output still in pipes when the command is dead, descendants that keep pipes open, broken connections |
| Operation, `cmd/vsock-server/lxd_operations.go` | `status`, `readonly`, `err`, `metadata`, the hooks, the global map | `Run`, `done` and its timer, `Connect`, `Render`, `UpdateMetadata`, `operationCreate`, `operationGetInternal`; `Cancel`, `WaitFinal`, `UpdateResources` (no caller) | reads outside the lock, a check that is stale when it is used, expiry against a late poll |
| HTTP handlers, `cmd/vsock-server/main.go`, `response.go` | none | `/1.0/exec`, `/1.0/operations/{id}` (every method), `/1.0/operations/{id}/websocket`, `/state` | errors are logged and not answered; an answer that is lost leaves what it was about; a panic outside a handler ends the process |
| Client transport, `lxd.go`, `lxd_instances.go`, `lxd_operations.go` | none | `query`, `rawQuery`, `lxdParseResponse`, `rawWebsocket`, the requests about an operation | which answers pass for a success |
| Client exec, `cmd/vsock-client/main.go`, `lxd_instances.go`, `operations.go` | the operation last seen, `chActive`, `DataDone`, the connections | `ExecInstance`, `Wait`/`setupListener`, stream goroutines | what is still on the wire at exit, a poll that comes too early or too late |
| Client control socket, `exec_unix.go` | a channel of ten signals | `controlSocketHandler`, `sendTermSize`, `forwardSignal` | dropped and merged signals, a write whose error shows at the next one |
| Instance state, `shared/instance_state.go` | none (reads `/proc` and `/sys`) | `RenderState` | processes that fork, exit and change their parent, interfaces that are renamed, while they are read |

Interaction: the answer to `POST /1.0/exec` follows `Run`, which spawns `Do`; `Do`
receives from `allConnected`. A websocket request goes through the map of
operations to `op.Connect`, which spawns a goroutine that calls the session's
`Connect`; the last stream to be stored wakes `Do`. `Do` starts the command, reaps
it, and in `finisher` closes its ends, waits for the mirrors and stores the return
code in the operation. `Run` then makes the operation final and `done` makes it
read-only and arms its timer. The client polls the operation.

What makes it correct: a command starts when all its streams are attached and
then always; its output is complete before its return code is visible; the code
is that of the way it ended; the operation becomes final, stays visible until
then and is forgotten later; the client exits when, and only when, it has it all; what a
client takes for an answer is about its own operation, and a session is left behind only
by a fault; a change of the window's size is not forgotten; the state of the instance is
right about everything that did not change while it was read.

## Modules

| Module | What it is |
|---|---|
| `ExecSession` | `Connect`, `Do`, `finisher`, the mirrors, the command, the network |
| `ExecContract` | abstract specification: attach, launch, output, end, report |
| `ExecSessionContract` | the refinement mapping of the first to the second |
| `ExecServer` | `ExecSession` with the operation, the map and the handlers around it |
| `ExecClient` | `ExecServer` with the client: the whole system |
| `ExecRequest` | several clients and one server that may end: POST, dials, requests about an operation, lost answers |
| `RequestContract` | abstract specification: make, grant or refuse, complete, start, end, crash |
| `ExecRequestContract` | the refinement mapping of `ExecRequest` to it |
| `ControlChannel` | the client's end of the control connection: signals and the window's size |
| `ProcessCount` | the walk of `processesState` over a process tree that changes |
| `InstanceState` | `ProcessCount` with the memory and the network: `RenderState` |
| `ExecSessionProofs`, `ExecSessionContractProofs`, `ExecServerProofs`, `ExecClientProofs`, `ExecRequestProofs`, `ControlChannelProofs`, `ProcessCountProofs`, `InstanceStateProofs` | theorems and proofs |
| `MC*` | model values, symmetry and inputs for TLC |

### Correspondence

**ExecSession.** `reqPc[r]` is the place of request r in `Connect`, `doPc` the place of
the operation's goroutine in `Do`, `outPc` and `inPc` the mirrors. A connection is
named by its request and a secret by its stream. A section under `connsLock` is one
action. `ConnectUpgraded` and `StoreConn` are two actions because the client has its
101 answer before `s.conns[fd] = conn`. Pipe and pty contents are counted in chunks;
`holders` are the streams that the command, or a descendant it left behind, still has
open. `down` are the connections that are closed or lost. The control goroutine of an
interactive session has no action: its first statement receives from
`attachedChildIsBorn`, and no line of the program sends on it. So the place
`"controlExit"` of `doPc` has no way out, and `controlConnected` is never emptied.
`OpenTtysFails` leaves what it opened in `ttyOpen`.

**ExecServer.** `opPc` is the goroutine of `Run`. The two writes of a failure are two
actions, and so are the reads of `Render`, because `Render` takes no lock. `HookStep` is
one step of `Do`. `CallOnConnect` is the goroutine that reads `op.onConnect`: it panics
when `done` has cleared the hook, and a panic in a goroutine ends the process. The HTTP
status of each answer is in `reply`: an error that a handler only logs is a 200 of
net/http. A `Poll` is one request for the operation; `snap` is what it has read so far.
`UpdateMetadata` is `Publish`: its two refusals never happen (`CodeIsAccepted`), because the
hook's own goroutine is the only one that makes the operation final.

**ExecClient.** A request is named after the stream it dials, in the order of
`ExecInstance` (control, 0 or 0, 1, 2). `wire` counts chunks that are sent and not yet
received; the end-of-stream message follows them. `Interactive` is the flag that
`execHandler` passes to `ExecInstance` (main.go:97, now always false) and that the server
reads from the request: the server takes it from any client, `ExecInstance` handles both
values, and the models cover both. `clientPc = "blocked"` is the receive
from `chActive` in `Wait`. When the client's process ends all its connections close.

**ExecRequest.** One level above: `life[i]` is the operation with id i from its entry into
the map to the end (`"gone"` when the timer forgot it, `"lost"` when the process ended),
and a session's run is two steps. `handler[c]` is the goroutine that handles client c's
call, `net[c]` the connection of the call, which can break before or after the handler
is through: the handler goes on, nobody sees its answer. `Create` is all of `execHandler`
and `operationCreate`, because nobody sees what happens before the map's entry; a POST
that fails has none. The secrets in the answer are the streams of `fds`. `Panic` is
exec.go:311 with an empty command; the goroutine has no `recover`, so the process ends.
`Restart` is the administrator: the program keeps nothing on disk. `Accepted` is
`lxdParseResponse`: an empty body and the text of a 404 do not decode, a JSON error is one,
all else is taken for a success. `DeleteOperation`, `GetOperations` and
`GetOperationWait` have no caller in `main`; they are modelled as library calls.

**ControlChannel.** `ch` is the channel of ten places (`ChanCap`), `pending` what the
process has been sent and the Go runtime has not delivered, one of each kind as Unix has
it. `controlSocketHandler` takes a signal, asks for the window's size if it is about it,
and writes. The write happens in the writer's `Close`, whose error nobody looks at, and
the connection remembers it: so a failed `Forward` counts as done and the next one fails.
The connection holds `WireCap` messages because nobody reads it. Signals other than
SIGWINCH differ in their number only, so two stand for the twelve.

**ProcessCount.** `pids` and `i` are those of `processesState`. Reading a children file is two steps, so
that processes fork, exit and are adopted while it is read: `held` and `passed` are what
was in the file all the time and some time. `ReadChildren` appends any list between the
two, in any order, and one that misses entries when a child left the file (`torn`), as the
kernel documents. External assumptions: orphans go to process 1, and no pid is used
again during one walk.

**InstanceState.** `renderPc` is what `RenderState` reads next; each file and each
`iface.Addrs()` is a read of its own, which can fail. A counter that could not be read is
zero, addresses that could not be read are none, and `unread` remembers which: the answer
does not say. The counters are read by the name
that `net.Interfaces` returned and the addresses by the index, so an entry may mix two
interfaces when one is renamed in between; `changed` remembers those. The entry is put
into `result` when it is complete, as the code does. An address is the
first part of its text, which is all that the scope's tests look at. `troubled` are the
parts of the guest that change, or whose reads fail, while this request is answered.

Libraries (LXD's stream helpers, gorilla's upgrader, os/exec) are modelled from
how `exec.go` and `lxd_instances.go` use them; such definitions are marked external in
`PROJECT.json`.

## Runs

Deadlock is not checked: a session that is over, or whose streams nobody dials,
legitimately takes no step. Bounds: `PipeCap = WireCap = 1` is enough to have an
empty, a filling and a full buffer; one exit code other than 0 and -1 tells the codes
apart, with 0 and a signal where codes matter; `Breakable` are the requests whose
connection may break.

| Run | Instance | Shows |
|---|---|---|
| `session_pipes` | 3 pipes, 3 requests, one breakable, fair | channels and WaitGroup in range, no lost wake-up, at most one stranded goroutine, no command before its streams, no output left behind; a connected session starts, a dead command lets `Do` return |
| `session_pty` | pty and control, 3 requests, all breakable | `ExecSession` implements `ExecContract`, for an interactive session |
| `server_pipes` | 3 pipes, 3 requests, 1 poll | an answer that says Success has the code of the way the command ended, and the output is sent; the map keeps the operation until it is through; the server implements `ExecContract`, here with pipes, output not yet sent and a second `Pipe` that fails |
| `client_pipes` | the three dials of `ExecInstance`, 1 poll | dials come in time; the client exits with all output; it fails only for a reason |
| `client_pty` | the two dials, the pty's connection breakable, both programs fair | a dead command ends its operation, which is then forgotten; a client that saw it final exits, and exits only with an answer; `finisher` hangs only in the race for the control socket's store |
| `exec_request` | 2 clients, one that may die and lose connections, 2 ids, 4 bodies | a client that goes on has its own session; a dial is refused, and a session orphaned, only for a reason; no answer passes for a success unless the map had the operation; an answered client gets its streams attached; `ExecRequest` implements `RequestContract`, by which a client that was told of an error has no session |
| `control_channel` | a channel of 2, a connection of 3 messages, 3 sizes, 5 signals | signals are forwarded in order and once; a size is not forgotten, and gets onto the connection; a handler whose write failed ends |
| `instance_state` | 3 pids, 2 interfaces, 2 names, 2 files for each, 2 and 20 addresses, one part troubled per request | no peak below the usage; of an interface that did not change exactly what could not be read is missing; scopes are wrong on the two kinds of addresses that the texts' prefixes misread, and on no other; no process counted twice, none that stayed missed; there is an answer |

Three streams need three requests; one of them may dial the control socket or a stream
that is dialled already: there a stranded goroutine, a replaced connection and a
control socket between the streams occur. Requests are symmetric in the safety
runs of the session and of the server (the contract's mapping does not tell them
apart either); in `ExecClient` each is a dial of its own, and the runs with fairness
use no symmetry. `ExecInstance` polls once, so one poll is all the client has. Two
clients, one of them faultless, tell the effect of a fault on its own client from that
on others; each posts once, so two ids are enough (the guard of `Create` names that
bound), and `DeleteOperation` and `GetOperationWait` stand for the two routes that requests about an operation
can take. Two places and three messages let the channel and the connection be empty,
filling and full, and five signals overflow both. With three pids there is a
process with a child and a grandchild, which is what adoption during a read needs. The
four statistics files are read alike, one after the other, so two tell a first from a
later one (the theorem is for any number). One part of the guest is troubled per request
(`Troubles`), because the three parts share no state: what one reads does not depend on
the others.

Runs that find a disagreement of the code with its own comments:

| Run | The code says | The program does |
|---|---|---|
| `abnormal_closure` | exec.go:181, an abnormal closure kills the process | the goroutine that would is blocked at exec.go:151 |
| `signal_code` | exec.go:341, 128 + n | exec.go:337 returns first, with -1 |
| `late_connect` | lxd_operations.go:210, only running operations | the hook runs, or is nil, after the operation ended |
| `client_wait` | client operations.go:52, waits for a final state | waits for ever when its one refresh came before |

Further facts that the models show, without a run of their own. `Do` of an interactive
session hangs at exec.go:283 when no control connection is stored, and even a client
that dials the control socket first can meet this: its `Connect` goroutine may be
between the upgrade and the store when `finisher` runs (`DeadCommandIsAnswered`
names the exception, and `OnlyStoreRaceHangs` says that a client of this program meets it
in no other way). The connections of a session whose `Do` fails early are
never closed by the server. A websocket request with a wrong secret is answered 200,
because the 403 that exec.go:97 means is an error that the handler logs
(`ConnectBadSecret`). `SmartError` says "success" for every error of the session
(`SmartErrorText`). A refresh between the two writes of a failure makes the client exit
as if the command had run (the second case of `ExitIsAnswered`): `Render` takes no lock,
so an answer can say Failure without an error, although lxd_operations.go:62 speaks of
locking.

The scopes of some inet6 addresses are wrong (`ScopeWrongIfMisread`): 127::/16 and
1270::/12, whose texts begin with 127, are called local, and fe80::/10 beyond fe80::/16, whose texts
do not begin with fe80:, global. A statistics file or an address list that cannot be read shows as
zeros or as none, and nothing in the answer tells it from the truth (`unread`). A SIGWINCH that finds
the channel full of other signals is dropped, and the connection keeps a wrong size (`missed`).

An empty command ends the server and with it every session (`Panic`). A POST whose answer is lost
leaves a session in the map, with its goroutine, for ever (`OrphanHasReason` names the
fault). `DeleteOperation`, which "deletes (cancels) a running operation" (client
lxd_operations.go:90), is a success that cancels nothing: the route knows no method. After
`controlSocketHandler` has returned, the signals it asked for are swallowed, since nothing
calls `signal.Stop`. Children that another thread than the main one forked are missing from
`processesState`'s count while that thread lives (`hidden` in `ProcessCount`).

## Fairness

Weak fairness per goroutine: the Go scheduler runs a goroutine that can take a step,
and a buffered send or an uncontended lock does not starve. Nothing makes a command
exit, a descendant close its streams, stdin end or a connection break.

`ExecSession` assumes nothing of its clients' connecting: a request may never come. It
assumes of the peer that a write to a websocket returns, and that the client of an
interactive session closes its connection after the stream's end. `ExecClient` assumes
neither: there the client's goroutines read what was sent and close the
connections, and the mirror's receiving half is fair only once its connection is down.
The client's dials are steps of its main goroutine, hence fair. Every fair action of
`ExecClient` stops at a panic. `ExecServer` states no fairness of its own; its
liveness (`FinalIsForgotten`, the timer of `done` included) is checked in
`ExecClient`, where requests come from a program.

`ExecRequest`: a handler is a goroutine, and so is a caller that has called; nothing makes a
client ask, a session end or a server start. `ControlChannel`: the handler and the
delivery of each signal; none once the process is dead. `InstanceState`: `RenderState`
alone, one goroutine; it ends because the guest has finitely many pids.

## Proofs

TLAPS proves the following for every set of requests, every `PipeCap`, exit codes and
signals, and both kinds of session. The session's theorems rest on `SessionAssumption` alone,
the server's also on `ServerAssumption`, those of client and server together also on
`ClientAssumption` (the requests are the dials, one refresh, any `WireCap`), those of the
calls on `RequestAssumption` (any sets of clients, ids, bodies and requests; any of the
clients may be lossy), those of the control connection on `ControlAssumption` (any sizes,
any capacities, any number of signals), those of the walk on `ProcessAssumption`, and those
of the instance's state also on `InstanceAssumption` (finitely many interfaces, any names,
any addresses, any number of statistics files).

`ExecSessionProofs`: `SessionSpec => []SessionInv`, where `SessionInv` is

- `SessionTypeOK`;
- `ConnectInv`: a goroutine past the upgrade has a stream, past the store an entry in
  `conns`. Needed because `StoreConn` writes to `conns[reqFd[r]]`;
- `WakeupInv`: a wake-up (in a goroutine, in the channel or received) implies that every
  stream is connected, and `NoLostWakeup`. Inductive because entries of `conns` are
  replaced and never removed: a scan that fails can only fail before the last store,
  whose own scan is still to come;
- `MirrorInv`: which mirrors exist at each place of `Do`, what they took, and
  `wgEOF = Unfinished`. Without it the range of `wgEOF` is not inductive;
- `ResultInv`: past `wgEOF.Wait()` the counter is and stays zero;
- `OutputInv`: a pipe read to its end is empty and has no writer, a mirror that gave up
  has its connection down.

Its consequences are the theorems `SessionTypes`, `CommandWaits`, `WakeupIsKept` and
`OutputIsSent`. `OneStranded` needs a second invariant, `SenderInv`: the wake-up in the
channel and the one that `Do` received each have a goroutine that is through with its send
(`Through`), and these are two. With one request per stream a goroutine that is stuck for
ever is then a third, so there is no second one. The step proofs are split by part of the invariant and, in each, by the
actions that can disturb it.

`ExecSessionContractProofs`: `SessionSpec => Implements`. `ChildInv` adds what the place
of `Do` says about the command and its result, and that the code published is the one the
command's ending calls for. `Attach` is `StoreConn`, `Launch` is
`AwaitAllConnected`, `End` is `CmdExits`, `Report` is `Publish`, `Abort` is
`OpenTtysFails`; all other steps are output, or stutter when the session is inactive
(`NothingUnsent`).

`ExecServerProofs`: `ServerSpec => SessionSpec` (a step of the server is a step of its
session or leaves it alone: the handlers only reach the session through `Connect`, and
`HookStep` is a step of `Do`), hence `ServerSpec => Implements`. And
`ServerSpec => []ServerInv`, where `ServerInv` is `ServerTypeOK` and

- `OpInv`: the status by the place of `Run`'s goroutine, that `Do` has returned exactly when
  the goroutine is past its hook, and that the timer and `readonly` come after both;
- `SnapInv`: what an unlocked `Render` has read so far. A poll that read Success read it
  after the return code was stored, and the code it reads later is that one, which is never
  stored twice. Without it
  `SuccessIsComplete` is not inductive, because the fields of an answer are read at
  different moments.

Consequences: `ServerTypes`, `KeptWhileAlive`, `CodeIsAccepted` (of `ReturnCodeAccepted`, which no
run checks: one goroutine keeps it by itself), and, with the session's
`OutputIsSent` and `ChildInv`, `SuccessComplete`: a Success answer carries the code of the
way the command ended, no error, and comes after the output.

`ExecClientProofs`: `SystemSpec => []SystemInv`. A step of the system is a step of the server
or one of the client that at most closes connections (`SystemStepsServer`), which
`SessionInv`, `ChildInv` and `ServerInv` do not mind (`BaseStep`). `SystemSpec` does not
imply `ServerSpec`: a client that exits closes connections that `ServerSpec` only lets the
network break. To the three invariants `SystemInv` adds `ClientTypeOK`, `FatalHasReason` and

- `DialInv`: the dials go in order, and a connection is stored as its own stream's;
- `ReplyInv`: how each handshake was answered follows from where its handler is; while the
  client lives none has been refused and only upgraded connections are down. Its step is
  the heart of the proof (`Undialled`): `ExecInstance` dials a stream that `Do` waits for
  last, so at every dial `Do` still waits, hence the operation is in the map, `Running` and
  not read-only;
- `StreamInv`: a receiver that has ended on a connection that cannot break left nothing on
  the wire, and its mirror had drained the pipe or, for a pty, the connection was closed;
- `AnswerInv`: what a poll has read stays true, since a final status, a failure and a
  removal from the map are never taken back (`Monotone`).

Consequences: `ClientTypes`, `DialsAreInTime`, `OutputIsRead`, `ExitsWithAnswer` and
`FatalIsReasoned`. `HangNeedsStoreRace` needs one more invariant, `Stored`: a request that has a
stream and is past its store left an entry in `conns`, and no entry is taken out. The control socket is
dialled before the stream that `Do` waits for, so when `finisher` looks, its handler has its stream, and
either the entry is there or the handler is at its store. These are all safety properties of `ExecClient`. Although `SystemSpec` is not a
`ServerSpec`, it keeps the contract (`SystemImplementsContract`: a step of the session is a
step of the contract, a close is one that the contract does not see), and with it
`SuccessIsComplete` and `KeptUntilFinal` (`SystemKeepsAnswers`).

`ExecRequestProofs`: `RequestSpec => []RequestInv`, where `RequestInv` is `RequestTypeOK`,
`RefusedIsOver`, `OkIsFromTheMap` and

- `MapInv`: who made an operation and of what; no client has two, and a server that ended
  has no operation in its map and no handler;
- `CallInv` and `HandlerInv`: a call is of the place its client is in, and a handler serves
  that call; it outlives the call only when the client was harmed. Without this the answer
  of a forgotten handler could meet a later call;
- `OwnInv`: the id that a handler, an answer or a client holds is of the client's own
  operation, and a client whose POST is not handled or was refused has none;
- `ReachInv`: a dial is of a stream with a secret, its answer says how the operation was
  found, a query follows only when all streams are attached, and a connection that breaks
  by itself means that the client's operation is lost or gone;
- `FaultInv`: an operation that lacks a stream, of a client that nothing happened to, has a
  handler that is about to answer, an answer under way, or a client that is dialling.
  `OrphanHasReason` is not inductive without it: it speaks of clients that have stopped, and
  only `FaultInv` says what the others still have to do.

`MapGrows` carries the argument: an operation keeps what it was made of, its streams stay
and its end is final, so each part is disturbed by the client's own steps alone
(`ReachKept`). Consequences: `RequestTypeCorrect`, `AnsweredHasItsSession`, `RefusedHasNone`,
`RefusalIsTheEnd`, `OrphansAreOfFaults` and `SuccessIsOfTheMap`: every safety invariant of
`ExecRequest`. (`RefusedHasNone` is of `ErrorLeavesNoSession`, which the run has as a part of the contract.)

`RequestImplementsContract`: `RequestSpec => EachHasItsSession`. The contract knows clients
only. A client's session is the stage of the operation that its POST made (`Sessions`),
which is unique by `MapInv`, so that a step at one operation is a step of one session
(`OneStage`); its verdict is the id that it holds, or its refusal (`Verdicts`). `Make` is
`Create`, `Grant` and `Refuse` are `ReceivePost` (a session can be over when its client
learns of it), `Complete` is the `AnswerDial` that attaches the last stream that `Do` waits
for, `Start` and `End` are those of the operation, and `Crash` is `ServerEnds`. A break, a
death, a query, `Run`, the timer and a restart stutter. `OwnInv` is what makes `Refuse` and
`Make` exclude each other, and `HandlerInv` is what makes a dial complete the client's own
session, after its verdict.

`ProcessCountProofs`: `WalkSpec => []WalkInv`, where `WalkInv` is `WalkTypeOK`, `NoProcessTwice` and

- `TreeInv`: a living process has a living parent, process 1 none;
- `OrderInv`: a living process in the list is a child of one that has been read. This is
  what makes adoption harmless: orphans go to process 1, whose file was read first;
- `FileInv`: the children in the file being read are not in the list yet;
- `SettledInv`: the settled children of what has been read are in the list, and those of
  the process being read are in its file, untorn.

Consequences: `WalkTypes`, `NoTwice` and `SteadyCounted`, for any number of processes.

`ControlChannelProofs`: `ControlSpec => []ControlInv`, where `ControlInv` is `ControlTypeOK`,
`ForwardedInOrder`, `ResizeNotForgotten` and

- `HandlerInv`: the handler asks for the size only with a SIGWINCH in hand, a message is lost
  only once the connection remembers an error, and nothing follows the closing message, so
  the messages before it (`Written`) only grow;
- `LateSize`: when the window has changed since the handler read its size, another SIGWINCH
  is on its way, or one was missed. `ResizeNotForgotten` is not inductive without it: it is
  silent when the window has changed back to the size that the connection shows, and the
  handler is about to write another.

`ForwardedInOrder` is a sum of four sequences, so its proof rests on lemmas about them:
appending a message appends what it is about (`AboutsOfAppend`), the head and the tail make
the channel (`HeadThenTail`), what is appended is last (`LastOfAppend`). Consequences:
`ControlTypeCorrect`, `SignalsInOrder` and `ResizeRemembered`, for every size of the channel
and of the connection.

`InstanceStateProofs`: `InstanceSpec => WalkSpec` (`RendersWalk`: every step of the answer is
one of the walk or leaves it alone), which carries the theorems of `ProcessCountProofs` over
(`AnswerCountsProcesses`). And `InstanceSpec => [](MemoryInv /\ NetworkInv)`, where
`MemoryInv` bounds what has been read by the kernel's peak, and `NetworkInv` is

- `NamesDiffer` and `ItemsDiffer`: no two interfaces have a name at one time, nor two items
  of the list that `net.Interfaces` returned. Without these the entry of one interface could be
  overwritten by that of another;
- `LoopInv`: the list is empty unless the loop is in it, and there is no answer before it;
- `ShowInv`: an interface that has not changed is still to come (`Coming`) or has its entry
  under its name (`IsShown`);
- `HeadInv`: the counters read so far of the interface at the head of the list are its own,
  unless their read failed;
- `UnreadInv`: of what is still to come nothing has failed but counters of the first
  interface that were read. Without it a complete counter could be excused by a failure of
  another read.

`ScopesWrongIfMisread` then compares the tests on the text with the address's bits
(`ScopeOfText`), on every address. Consequences: `InstanceTypes`,
`PeakCoversUsage`, `KeptInterfacesShown` and `ScopesWrongIfMisread`.

So every invariant, the action property and the refinements that the passing runs check are proved. Only model-checked are
the liveness properties, which are out of the prover's reach (as is ENABLED, hence
fairness): `ConnectedRunStarts`, `ReapedRunReturns`, `FinalSeenExits`,
`DeadCommandIsAnswered`, `FinalIsForgotten`, `AnsweredIsAttached`, `ResizeIsShown`,
`FailureEndsHandler` and `StateIsRendered`. The runs that expect a violation have nothing to prove.

## Not modelled

- The server's handling of control messages (exec.go:152-229): unreachable, because the
  goroutine blocks at exec.go:151.
- `Cancel`, `WaitFinal`, `UpdateResources`, the client's `Cancel`, `GetWebsocket`,
  `remoteOperation`, and the file, forwarded and redirect responses: no caller in the
  program, and the state they need (a cancel hook, a class, a second node) is never set up.
- Of `/state`: the CPU's usage (one read), the hardware address, MTU and flags, and the netmask.
  Subreapers and the reuse of a pid during a walk are assumed away.
- The defaults of the environment (exec.go:361-393), user, group and working directory,
  which only reach the command's attributes; headers, URLs, macaroons.
- The half-written string of an unlocked read of `op.err`, and stores seen out of order
  on weakly ordered processors: the unlocked reads of the model see each field before or
  after its write.

## Plan

1. Done: `ExecSession`, `ExecContract`, `ExecServer`, `ExecClient`, `ExecRequest`,
   `ControlChannel`, `ProcessCount`, `InstanceState`, `RequestContract`; every safety
   property and every refinement proved.
2. An abstract specification of the control connection as a queue that may lose its end,
   with its refinement.
3. `Cancel`, `WaitFinal` and `UpdateResources` with `done` called twice, should the program
   get a route that calls them.
