----------------------------- MODULE ExecSession -----------------------------
(***************************************************************************)
(* One exec session of vsock-server: the execWs object of                  *)
(* cmd/vsock-server/exec.go, its Connect hook (one goroutine per websocket *)
(* request), its Do hook (the goroutine of the operation) and the          *)
(* goroutines Do spawns to mirror the command's streams.                   *)
(*                                                                         *)
(* Abstracted: stream contents are counted in chunks, a secret is the      *)
(* stream it opens, and a connection is named by the request it came from. *)
(* Everything a goroutine does between two points where another goroutine  *)
(* can notice is one action; a section under connsLock is one action.      *)
(***************************************************************************)
EXTENDS Integers

CONSTANTS
  Requests,     \* websocket requests that may ever reach Connect
  Nil,          \* the nil pointer, and "not set yet"
  Interactive,  \* post.Interactive: one pty, or three pipes
  Breakable,    \* the requests whose connection may break
  PipeCap,      \* chunks a pipe or pty holds before its writer blocks
  ExitCodes,    \* exit codes the command may end with
  Signals       \* signals that may kill the command

ASSUME SessionAssumption ==
  /\ Nil \notin Requests \cup Int
  /\ Interactive \in BOOLEAN
  /\ Breakable \subseteq Requests
  /\ PipeCap \in Nat \ {0}
  /\ ExitCodes \subseteq 0 .. 255
  /\ Signals \subseteq 1 .. 64

Control == -1                                     \* the control socket's fd
Ttys    == IF Interactive THEN {0} ELSE {0, 1, 2} \* indices of ttys and ptys
OutFds  == IF Interactive THEN {0} ELSE {1, 2}    \* streams the command writes
Fds     == Ttys \cup {Control}                    \* keys of conns and of fds

\* How a command can end.
Outcomes == [how : {"exit"}, n : ExitCodes] \cup [how : {"signal"}, n : Signals]

VARIABLES
  conns,            \* [Fds -> request whose connection is stored, or Nil]
  reqPc,            \* where each request is in Connect
  reqFd,            \* the fd whose secret each request presented, or Nil
  down,             \* requests whose connection is closed or lost
  allConnected,     \* tokens in the channel allConnected
  controlConnected, \* tokens in the channel controlConnected
  doPc,             \* where the operation's goroutine is in Do
  ttyOpen,          \* the ttys this process still holds open
  outPc,            \* [OutFds -> where the goroutine that sends that stream is]
  inPc,             \* where the goroutine that receives stdin is
  used,             \* [Ttys -> the connection the mirror of that tty took]
  wgEOF,            \* the WaitGroup's counter
  attachedChildIsDead, \* tokens sent on the channel attachedChildIsDead
  child,            \* the command: "none", "running" or "exited"
  outcome,          \* how it ended, or Nil
  holders,          \* output streams some process outside still holds open
  pipe,             \* [OutFds -> chunks written and not yet read]
  cmdResult,        \* the argument cmdResult of finisher, or Nil
  failed,           \* Do returns a non-nil error
  published         \* the "return" entry of the operation's metadata, or Nil

connectVars == <<conns, reqPc, reqFd, allConnected, controlConnected>>
mirrorVars  == <<outPc, inPc, used>>
childVars   == <<child, outcome, holders>>
resultVars  == <<cmdResult, failed, published>>
sessionVars == <<conns, reqPc, reqFd, down, allConnected, controlConnected,
                 doPc, ttyOpen, outPc, inPc, used, wgEOF, attachedChildIsDead,
                 child, outcome, holders, pipe, cmdResult, failed, published>>

ReqPcs == {"idle", "store", "control", "scan", "signal", "returned"}
DoPcs  == {"wait", "open", "start", "reap", "closeTtys", "readControl",
           "controlExit", "markDead", "waitEOF", "publish", "returned"}

(* execHandler builds the session before it creates the operation. *)
SessionInit ==
  /\ conns = [fd \in Fds |-> Nil]
  /\ reqPc = [r \in Requests |-> "idle"]
  /\ reqFd = [r \in Requests |-> Nil]
  /\ down = {}
  /\ allConnected = 0
  /\ controlConnected = 0
  /\ doPc = "wait"
  /\ ttyOpen = {}
  /\ outPc = [i \in OutFds |-> "none"]
  /\ inPc = "none"
  /\ used = [i \in Ttys |-> Nil]
  /\ wgEOF = 0
  /\ attachedChildIsDead = 0
  /\ child = "none"
  /\ outcome = Nil
  /\ holders = {}
  /\ pipe = [i \in OutFds |-> 0]
  /\ cmdResult = Nil
  /\ failed = FALSE
  /\ published = Nil

-----------------------------------------------------------------------------
(* Connect, run by the goroutine of request r. *)

\* No secret, a secret of no stream, or an upgrade that failed.
ConnectRefused(r) ==
  /\ reqPc[r] = "idle"
  /\ reqPc' = [reqPc EXCEPT ![r] = "returned"]
  /\ UNCHANGED <<conns, reqFd, down, allConnected, controlConnected, doPc,
                 ttyOpen, mirrorVars, wgEOF, attachedChildIsDead, childVars,
                 pipe, resultVars>>

\* The secret is that of fd and the client has its 101 answer: from here on the
\* client may dial the next stream, although this connection is not stored yet.
ConnectUpgraded(r, fd) ==
  /\ reqPc[r] = "idle"
  /\ reqPc' = [reqPc EXCEPT ![r] = "store"]
  /\ reqFd' = [reqFd EXCEPT ![r] = fd]
  /\ UNCHANGED <<conns, down, allConnected, controlConnected, doPc, ttyOpen,
                 mirrorVars, wgEOF, attachedChildIsDead, childVars, pipe,
                 resultVars>>

AfterStore(fd) == IF fd = Control THEN "control" ELSE "scan"

StoreConn(r) ==
  /\ reqPc[r] = "store"
  /\ conns' = [conns EXCEPT ![reqFd[r]] = r]
  /\ reqPc' = [reqPc EXCEPT ![r] = AfterStore(reqFd[r])]
  /\ UNCHANGED <<reqFd, down, allConnected, controlConnected, doPc, ttyOpen,
                 mirrorVars, wgEOF, attachedChildIsDead, childVars, pipe,
                 resultVars>>

\* The channel holds one token and nothing ever receives from it (see
\* OpenTtys), so the goroutine of a second control connection stays here.
SignalControl(r) ==
  /\ reqPc[r] = "control"
  /\ controlConnected = 0
  /\ controlConnected' = 1
  /\ reqPc' = [reqPc EXCEPT ![r] = "returned"]
  /\ UNCHANGED <<conns, reqFd, down, allConnected, doPc, ttyOpen, mirrorVars,
                 wgEOF, attachedChildIsDead, childVars, pipe, resultVars>>

\* (Mutants: the loop accepts any connection; it does not skip the control.)
AnyStreamConnected == \E fd \in Ttys : conns[fd] # Nil
ControlConnectedToo == \A fd \in Fds : conns[fd] # Nil

\* The loop over s.conns that skips the control socket.
StreamsConnected == \A fd \in Ttys : conns[fd] # Nil

ScanConns(r) ==
  /\ reqPc[r] = "scan"
  /\ reqPc' = [reqPc EXCEPT ![r] = IF StreamsConnected THEN "signal" ELSE "returned"]
  /\ UNCHANGED <<conns, reqFd, down, allConnected, controlConnected, doPc,
                 ttyOpen, mirrorVars, wgEOF, attachedChildIsDead, childVars,
                 pipe, resultVars>>

\* Blocks while the one place of the channel is taken.
SignalAllConnected(r) ==
  /\ reqPc[r] = "signal"
  /\ allConnected = 0
  /\ allConnected' = 1
  /\ reqPc' = [reqPc EXCEPT ![r] = "returned"]
  /\ UNCHANGED <<conns, reqFd, down, controlConnected, doPc, ttyOpen,
                 mirrorVars, wgEOF, attachedChildIsDead, childVars, pipe,
                 resultVars>>

-----------------------------------------------------------------------------
(* Do up to the start of the command, run by the operation's goroutine. *)

\* (Mutant: Do looks at the channel and leaves the token in it.)
PeekAllConnected ==
  /\ doPc = "wait"
  /\ allConnected = 1
  /\ doPc' = "open"
  /\ UNCHANGED <<connectVars, down, ttyOpen, mirrorVars, wgEOF,
                 attachedChildIsDead, childVars, pipe, resultVars>>

AwaitAllConnected ==
  /\ doPc = "wait"
  /\ allConnected = 1
  /\ allConnected' = 0
  /\ doPc' = "open"
  /\ UNCHANGED <<conns, reqPc, reqFd, down, controlConnected, ttyOpen,
                 mirrorVars, wgEOF, attachedChildIsDead, childVars, pipe,
                 resultVars>>

\* OpenPty, or the n-th call of Pipe, fails: Do returns at once, without
\* finisher, and what it has opened stays open.
OpenTtysFails ==
  /\ doPc = "open"
  /\ doPc' = "returned"
  /\ \E n \in Ttys : ttyOpen' = 0 .. (n - 1)
  /\ failed' = TRUE
  /\ UNCHANGED <<connectVars, down, mirrorVars, wgEOF,
                 attachedChildIsDead, childVars, pipe, cmdResult, published>>

\* (Mutants: one mirror for all pipes; one for each half of a pty's mirror.)
OneMirror == 1
TwoMirrors == 2

\* wgEOF.Add(1), or wgEOF.Add(len(ttys) - 1).
MirrorsAdded == IF Interactive THEN 1 ELSE 2

\* The ttys are open and the mirror goroutines spawned. The control goroutine
\* of an interactive session is spawned here too; its first statement receives
\* from attachedChildIsBorn, on which the program never sends, so it takes no
\* step: it neither receives from controlConnected nor from controlExit.
OpenTtys ==
  /\ doPc = "open"
  /\ doPc' = "start"
  /\ ttyOpen' = Ttys
  /\ outPc' = [i \in OutFds |-> "born"]
  /\ inPc' = "born"
  /\ wgEOF' = wgEOF + MirrorsAdded
  /\ UNCHANGED <<connectVars, down, used, attachedChildIsDead, childVars, pipe,
                 resultVars>>

StartCmd ==
  /\ doPc = "start"
  /\ doPc' = "reap"
  /\ child' = "running"
  /\ holders' = OutFds
  /\ UNCHANGED <<connectVars, down, ttyOpen, mirrorVars, wgEOF,
                 attachedChildIsDead, outcome, pipe, resultVars>>

StartCmdFails ==
  /\ doPc = "start"
  /\ doPc' = "closeTtys"
  /\ cmdResult' = -1
  /\ failed' = TRUE
  /\ UNCHANGED <<connectVars, down, ttyOpen, mirrorVars, wgEOF,
                 attachedChildIsDead, childVars, pipe, published>>

\* (Mutant: a killed command counts as a success.)
KilledIsSuccess(o) == IF o.how = "exit" THEN o.n ELSE 0

\* exitErr.Sys() is a syscall.WaitStatus on every Unix, so the first "if ok"
\* returns: ExitStatus() of a command that a signal killed is -1.
ReturnCode(o) == IF o.how = "exit" THEN o.n ELSE -1

Reap ==
  /\ doPc = "reap"
  /\ child = "exited"
  /\ doPc' = "closeTtys"
  /\ cmdResult' = ReturnCode(outcome)
  /\ UNCHANGED <<connectVars, down, ttyOpen, mirrorVars, wgEOF,
                 attachedChildIsDead, childVars, pipe, failed, published>>

-----------------------------------------------------------------------------
(* finisher, the closure Do ends with. *)

\* (Mutant: the write end of stdout is forgotten.)
StdoutLeftOpen == {1}

TtysLeftOpen == {}

CloseTtys ==
  /\ doPc = "closeTtys"
  /\ doPc' = "readControl"
  /\ ttyOpen' = TtysLeftOpen
  /\ UNCHANGED <<connectVars, down, mirrorVars, wgEOF, attachedChildIsDead,
                 childVars, pipe, resultVars>>

\* Without a control connection an interactive session goes on to send on the
\* unbuffered controlExit, whose only receiver never runs: "controlExit" has no
\* way out.
ReadControl ==
  /\ doPc = "readControl"
  /\ doPc' = IF Interactive /\ conns[Control] = Nil THEN "controlExit" ELSE "markDead"
  /\ down' = down \cup ({conns[Control]} \ {Nil})
  /\ UNCHANGED <<connectVars, ttyOpen, mirrorVars, wgEOF, attachedChildIsDead,
                 childVars, pipe, resultVars>>

MarkDead ==
  /\ doPc = "markDead"
  /\ attachedChildIsDead' = 1
  /\ doPc' = "waitEOF"
  /\ UNCHANGED <<connectVars, down, ttyOpen, mirrorVars, wgEOF, childVars,
                 pipe, resultVars>>

\* (Mutant: finisher does not wait for the mirrors.)
NoWait == TRUE

MirrorsDone == wgEOF = 0

AwaitEOF ==
  /\ doPc = "waitEOF"
  /\ MirrorsDone
  /\ doPc' = "publish"
  /\ UNCHANGED <<connectVars, down, ttyOpen, mirrorVars, wgEOF,
                 attachedChildIsDead, childVars, pipe, resultVars>>

\* The ptys are closed, UpdateMetadata stores the return code and Do returns.
Publish ==
  /\ doPc = "publish"
  /\ published' = cmdResult
  /\ doPc' = "returned"
  /\ UNCHANGED <<connectVars, down, ttyOpen, mirrorVars, wgEOF,
                 attachedChildIsDead, childVars, pipe, cmdResult, failed>>

-----------------------------------------------------------------------------
(* The mirror goroutines. *)

\* The goroutine of tty i looks its connection up and starts to copy.
TakeConn(i) ==
  /\ i \in OutFds => outPc[i] = "born"
  /\ i = 0 => inPc = "born"
  /\ used' = [used EXCEPT ![i] = conns[i]]
  /\ outPc' = IF i \in OutFds THEN [outPc EXCEPT ![i] = "copy"] ELSE outPc
  /\ inPc' = IF i = 0 THEN "copy" ELSE inPc
  /\ UNCHANGED <<connectVars, down, doPc, ttyOpen, wgEOF, attachedChildIsDead,
                 childVars, pipe, resultVars>>

\* The pty of an interactive session is closed by the receiving half.
PtyClosed == Interactive /\ inPc = "ended"

SendChunk(i) ==
  /\ outPc[i] = "copy"
  /\ pipe[i] > 0
  /\ used[i] \notin down
  /\ ~PtyClosed
  /\ pipe' = [pipe EXCEPT ![i] = @ - 1]
  /\ UNCHANGED <<connectVars, down, doPc, ttyOpen, mirrorVars, wgEOF,
                 attachedChildIsDead, childVars, resultVars>>

\* A pipe ends when it is empty and its write end is closed everywhere; the
\* reader of a pty also ends when it is told that the command is dead.
AtEOF(i) ==
  /\ pipe[i] = 0
  /\ i \notin ttyOpen \cup holders \/ (Interactive /\ attachedChildIsDead = 1)

\* A pipe's goroutine closes it and is Done; the mirror of a pty waits for both
\* of its halves (JoinMirror).
DoneNow == IF Interactive THEN 0 ELSE 1

SendEOF(i) ==
  /\ outPc[i] = "copy"
  /\ AtEOF(i)
  /\ ~PtyClosed
  /\ outPc' = [outPc EXCEPT ![i] = "drained"]
  /\ wgEOF' = wgEOF - DoneNow
  /\ UNCHANGED <<connectVars, down, doPc, ttyOpen, inPc, used,
                 attachedChildIsDead, childVars, pipe, resultVars>>

\* A write to the websocket fails, or the pty is closed under the reader.
SendCut(i) ==
  /\ outPc[i] = "copy"
  /\ \/ pipe[i] > 0 /\ used[i] \in down
     \/ PtyClosed
  /\ outPc' = [outPc EXCEPT ![i] = "cut"]
  /\ wgEOF' = wgEOF - DoneNow
  /\ UNCHANGED <<connectVars, down, doPc, ttyOpen, inPc, used,
                 attachedChildIsDead, childVars, pipe, resultVars>>

\* The client sent its end-of-stream message or closed, or copying failed.
RecvEnds ==
  /\ inPc = "copy"
  /\ inPc' = "ended"
  /\ ttyOpen' = IF Interactive THEN ttyOpen ELSE ttyOpen \ {0}
  /\ UNCHANGED <<connectVars, down, doPc, outPc, used, wgEOF,
                 attachedChildIsDead, childVars, pipe, resultVars>>

\* readDone and writeDone are both received: close the connection, wgEOF.Done().
JoinMirror ==
  /\ Interactive
  /\ inPc = "ended"
  /\ outPc[0] \in {"drained", "cut"}
  /\ inPc' = "joined"
  /\ down' = down \cup {used[0]}
  /\ wgEOF' = wgEOF - 1
  /\ UNCHANGED <<connectVars, doPc, ttyOpen, outPc, used, attachedChildIsDead,
                 childVars, pipe, resultVars>>

-----------------------------------------------------------------------------
(* The command, its descendants and the network. *)

\* The read end of stream i is still open; a later write fails with EPIPE.
ReadEndOpen(i) == outPc[i] \notin {"drained", "cut"}

CmdWrites(i) ==
  /\ i \in holders
  /\ ReadEndOpen(i)
  /\ pipe[i] < PipeCap
  /\ pipe' = [pipe EXCEPT ![i] = @ + 1]
  /\ UNCHANGED <<connectVars, down, doPc, ttyOpen, mirrorVars, wgEOF,
                 attachedChildIsDead, childVars, resultVars>>

\* Descendants the command leaves behind keep the streams they inherited.
CmdExits(o) ==
  /\ child = "running"
  /\ child' = "exited"
  /\ outcome' = o
  /\ holders' \in SUBSET holders
  /\ UNCHANGED <<connectVars, down, doPc, ttyOpen, mirrorVars, wgEOF,
                 attachedChildIsDead, pipe, resultVars>>

DescendantCloses(i) ==
  /\ child = "exited"
  /\ i \in holders
  /\ holders' = holders \ {i}
  /\ UNCHANGED <<connectVars, down, doPc, ttyOpen, mirrorVars, wgEOF,
                 attachedChildIsDead, child, outcome, pipe, resultVars>>

\* The client of request r goes away, or the vsock connection breaks.
ConnDrops(r) ==
  /\ r \in Breakable
  /\ reqFd[r] # Nil
  /\ down' = down \cup {r}
  /\ UNCHANGED <<connectVars, doPc, ttyOpen, mirrorVars, wgEOF,
                 attachedChildIsDead, childVars, pipe, resultVars>>

-----------------------------------------------------------------------------
Connect(r) ==
  \/ ConnectRefused(r)
  \/ \E fd \in Fds : ConnectUpgraded(r, fd)
  \/ StoreConn(r)
  \/ SignalControl(r)
  \/ ScanConns(r)
  \/ SignalAllConnected(r)

Do ==
  \/ AwaitAllConnected
  \/ OpenTtys
  \/ OpenTtysFails
  \/ StartCmd
  \/ StartCmdFails
  \/ Reap
  \/ CloseTtys
  \/ ReadControl
  \/ MarkDead
  \/ AwaitEOF
  \/ Publish

Mirror ==
  \/ \E i \in Ttys : TakeConn(i)
  \/ \E i \in OutFds : SendChunk(i) \/ SendEOF(i) \/ SendCut(i)
  \/ RecvEnds
  \/ JoinMirror

World ==
  \/ \E i \in OutFds : CmdWrites(i) \/ DescendantCloses(i)
  \/ \E o \in Outcomes : CmdExits(o)
  \/ \E r \in Requests : ConnDrops(r)

SessionNext == (\E r \in Requests : Connect(r)) \/ Do \/ Mirror \/ World

SessionSpec == SessionInit /\ [][SessionNext]_sessionVars

(***************************************************************************)
(* Fairness.  The Go scheduler runs every goroutine that can take a step.  *)
(* Two assumptions concern the peer: a mirror's write to a websocket       *)
(* returns, with or without an error, and the client of an interactive     *)
(* session closes its connection once the stream has ended, as             *)
(* ExecInstance does.  Nothing makes the command exit, a descendant close  *)
(* its streams, a client connect or a connection break.                    *)
(***************************************************************************)
ConnectFairness ==
  /\ \A r \in Requests : /\ WF_sessionVars(StoreConn(r))
                         /\ WF_sessionVars(ScanConns(r))
                         /\ WF_sessionVars(SignalControl(r))
                         /\ WF_sessionVars(SignalAllConnected(r))

DoFairness == WF_sessionVars(Do)

MirrorFairness ==
  /\ \A i \in Ttys : WF_sessionVars(TakeConn(i))
  /\ \A i \in OutFds : WF_sessionVars(SendChunk(i) \/ SendEOF(i) \/ SendCut(i))
  /\ WF_sessionVars(RecvEnds /\ \A i \in OutFds : outPc[i] \in {"drained", "cut"})
  /\ WF_sessionVars(JoinMirror)

FairSessionSpec ==
  SessionSpec /\ ConnectFairness /\ DoFairness /\ MirrorFairness

-----------------------------------------------------------------------------
(* Properties. *)

Codes == {-1} \cup ExitCodes

(* The types of the session's state; in particular no channel overflows its  *)
(* buffer and the WaitGroup never goes negative, which would panic.          *)
SessionTypeOK ==
  /\ conns \in [Fds -> Requests \cup {Nil}]
  /\ reqPc \in [Requests -> ReqPcs]
  /\ reqFd \in [Requests -> Fds \cup {Nil}]
  /\ down \subseteq Requests
  /\ allConnected \in 0 .. 1
  /\ controlConnected \in 0 .. 1
  /\ doPc \in DoPcs
  /\ ttyOpen \subseteq Ttys
  /\ outPc \in [OutFds -> {"none", "born", "copy", "drained", "cut"}]
  /\ inPc \in {"none", "born", "copy", "ended", "joined"}
  /\ used \in [Ttys -> Requests \cup {Nil}]
  /\ wgEOF \in 0 .. 2
  /\ attachedChildIsDead \in 0 .. 1
  /\ child \in {"none", "running", "exited"}
  /\ outcome \in Outcomes \cup {Nil}
  /\ holders \subseteq OutFds
  /\ pipe \in [OutFds -> 0 .. PipeCap]
  /\ cmdResult \in Codes \cup {Nil}
  /\ failed \in BOOLEAN
  /\ published \in Codes \cup {Nil}

(* Do gets past its receive from allConnected only when every stream has a   *)
(* connection: a mirror never dereferences a nil *websocket.Conn.            *)
CommandWaitsForStreams ==
  doPc # "wait" => \A i \in Ttys : conns[i] # Nil

(* However the Connect goroutines interleave, once every stream is connected *)
(* the wake-up of Do has happened, is in the channel, or is still to be sent *)
(* by a goroutine that has not finished its scan.                            *)
NoLostWakeup ==
  (\A i \in Ttys : conns[i] # Nil) =>
     \/ doPc # "wait"
     \/ allConnected = 1
     \/ \E r \in Requests : reqPc[r] \in {"scan", "signal"}

(* When the return code of a non-interactive command is published, all that  *)
(* the command and its descendants wrote has been sent, on every stream      *)
(* whose connection is still up, and no process can write more.              *)
NoOutputLeftBehind ==
  ~Interactive /\ published # Nil =>
     \A i \in OutFds : used[i] \notin down => pipe[i] = 0 /\ i \notin holders

\* Connect goroutines that will never get their token into allConnected.
Stranded == {r \in Requests : reqPc[r] = "signal" /\ allConnected = 1 /\ doPc # "wait"}

(* If every stream is dialled at most once, the channel's single place       *)
(* strands at most one Connect goroutine.                                    *)
AtMostOneStranded ==
  (\A r, s \in Requests : reqFd[r] # Nil /\ reqFd[r] = reqFd[s] => r = s) =>
     \A r, s \in Stranded : r = s

(* A session with all its streams connected leaves its receive.              *)
ConnectedRunStarts == (\A i \in Ttys : conns[i] # Nil) ~> doPc # "wait"

(* Once the command is dead and nothing holds its streams, Do returns, or    *)
(* hangs for want of a control connection.                                   *)
ReapedRunReturns ==
  (child = "exited" /\ holders = {}) ~> doPc \in {"returned", "controlExit"}

(* exec.go:181: "If an abnormal closure occurred, kill the attached process."*)
AbnormalClosureKills ==
  (child = "running" /\ conns[Control] # Nil /\ conns[Control] \in down)
  ~> child # "running"

(* exec.go:341: "128 + n == Fatal error signal "n"".                         *)
SignalIsReported ==
  \A n \in Signals :
     published # Nil /\ outcome = [how |-> "signal", n |-> n] => published = 128 + n

=============================================================================
