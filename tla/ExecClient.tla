----------------------------- MODULE ExecClient -----------------------------
(***************************************************************************)
(* The whole system: vsock-client's exec (execHandler of                   *)
(* cmd/vsock-client/main.go, ExecInstance of lxd_instances.go and Wait of  *)
(* operations.go) against vsock-server (ExecServer).                       *)
(*                                                                         *)
(* The client dials one stream after the other, so a request is named      *)
(* after the stream it dials.  Chunks that the server has sent and the     *)
(* client has not read are counted per stream, in order: the end-of-stream *)
(* message of a stream is read after its chunks.  The control socket       *)
(* handler of an interactive client only writes, and the server never      *)
(* reads what it writes.                                                   *)
(***************************************************************************)
EXTENDS ExecServer, Sequences, SequencesExt

CONSTANTS
  WireCap  \* chunks a connection holds before its sender blocks

\* (Mutant: the control socket is dialled last.)
ControlLast == IF Interactive THEN <<0, Control>> ELSE <<0, 1, 2>>

\* The order in which ExecInstance dials.  Its caller passes a control handler
\* if and only if the session is interactive.
Dials == IF Interactive THEN <<Control, 0>> ELSE <<0, 1, 2>>

ASSUME ClientAssumption ==
  /\ Requests = ToSet(Dials)
  /\ \E p \in Polls : Polls = {p}
  /\ WireCap \in Nat \ {0}

VARIABLES
  clientPc,  \* where the client's main goroutine is
  dialled,   \* how many streams it has connected
  wire,      \* [OutFds -> chunks sent and not received yet]
  recv,      \* [OutFds -> where the goroutine that receives it is]
  dataDone   \* args.DataDone is closed

clientVars == <<clientPc, dialled, wire, recv, dataDone>>
systemVars == <<serverVars, clientVars>>

\* What the end of the client's connections leaves alone.
serverButDown ==
  <<connectVars, doPc, ttyOpen, mirrorVars, wgEOF, attachedChildIsDead,
    childVars, pipe, resultVars, opVars, handlerVars, pollVars, panicked>>

ClientPcs == {"dial", "refresh", "blocked", "flush", "exit", "fatal"}

\* The client has posted the command and waits for the operation's id.
SystemInit ==
  /\ ServerInit
  /\ clientPc = "dial"
  /\ dialled = 0
  /\ wire = [i \in OutFds |-> 0]
  /\ recv = [i \in OutFds |-> "none"]
  /\ dataDone = FALSE

ClientLives == clientPc \notin {"exit", "fatal"}

\* The process ends and the kernel closes its connections.
HangUp == down' = down \cup {r \in Requests : hpc[r] # "idle"}

-----------------------------------------------------------------------------
(* ExecInstance: r.GetOperationWebsocket for each stream.                   *)

Dial(r) ==
  /\ clientPc = "dial"
  /\ r = Dials[dialled + 1]
  /\ LookUpOp(r)
  /\ UNCHANGED clientVars

Dialled == Dials[dialled + 1]

\* The answer 101 starts the stream's goroutine; any other ends the program.
DialAnswered ==
  /\ clientPc = "dial"
  /\ reply[Dialled] # Nil
  /\ IF reply[Dialled] = 101
       THEN /\ dialled' = dialled + 1
            /\ recv' = [i \in OutFds |-> IF i = Dialled THEN "copy" ELSE recv[i]]
            /\ clientPc' = IF dialled' = Len(Dials) THEN "refresh" ELSE "dial"
            /\ UNCHANGED down
       ELSE /\ clientPc' = "fatal"
            /\ HangUp
            /\ UNCHANGED <<dialled, recv>>
  /\ UNCHANGED <<serverButDown, wire, dataDone>>

\* The dial is lost on the way, or its answer.
DialFails ==
  /\ clientPc = "dial"
  /\ Dialled \in Breakable
  /\ clientPc' = "fatal"
  /\ HangUp
  /\ UNCHANGED <<serverButDown, dialled, recv, wire, dataDone>>

-----------------------------------------------------------------------------
(* op.Wait: the operation was not final when it was posted, so setupListener *)
(* refreshes it once.                                                        *)

Refresh ==
  /\ clientPc = "refresh"
  /\ \E p \in Polls : PollLookUp(p)
  /\ UNCHANGED clientVars

\* (Mutant: Wait returns without waiting.)
NeverBlocked(s) == IF s.err = "" THEN "flush" ELSE "fatal"

\* Not final: Wait receives from chActive, which only setupListener closes, and
\* only for a final operation or an error of Refresh.
AfterRefresh(s) ==
  CASE s.code \notin Final -> "blocked"
    [] s.code \in Final /\ s.err = "" -> "flush"
    [] s.code \in Final /\ s.err # "" -> "fatal"

\* The body of the answer for an operation that is not known does not parse.
Refreshed ==
  /\ clientPc = "refresh"
  /\ \E p \in Polls :
       \/ pollPc[p] = "empty" /\ clientPc' = "fatal"
       \/ pollPc[p] = "answered" /\ clientPc' = AfterRefresh(snap[p])
  /\ IF clientPc' = "fatal" THEN HangUp ELSE UNCHANGED down
  /\ UNCHANGED <<serverButDown, dialled, wire, recv, dataDone>>

Flushed == dataDone

\* execHandler returns and so does main.
Exit ==
  /\ clientPc = "flush"
  /\ Flushed
  /\ clientPc' = "exit"
  /\ HangUp
  /\ UNCHANGED <<serverButDown, dialled, wire, recv, dataDone>>

-----------------------------------------------------------------------------
(* The client's stream goroutines.                                          *)

Receive(i) ==
  /\ ClientLives
  /\ recv[i] = "copy"
  /\ wire[i] > 0
  /\ wire' = [wire EXCEPT ![i] = @ - 1]
  /\ UNCHANGED <<serverVars, clientPc, dialled, recv, dataDone>>

\* (Mutants: the receiver does not wait for what is on its way; it ends on the
\* message only.)
EndOvertakes(i) == outPc[i] = "drained" \/ i \in down
EndMessage(i) == wire[i] = 0 /\ outPc[i] = "drained"

\* The end-of-stream message, or the end of the connection, is what comes next.
EndArrives(i) == wire[i] = 0 /\ (outPc[i] = "drained" \/ i \in down)

ReceiveEnd(i) ==
  /\ ClientLives
  /\ recv[i] = "copy"
  /\ EndArrives(i)
  /\ recv' = [recv EXCEPT ![i] = "ended"]
  /\ UNCHANGED <<serverVars, clientPc, dialled, wire, dataDone>>

\* (Mutant: one receiver is waited for.)
FirstEnded == \E i \in OutFds : recv[i] = "ended"

AllEnded == \A i \in OutFds : recv[i] = "ended"

\* The goroutine that waits for the receivers, closes the connections and then
\* DataDone.
CloseStreams ==
  /\ ClientLives
  /\ dialled = Len(Dials)
  /\ ~dataDone
  /\ AllEnded
  /\ dataDone' = TRUE
  /\ down' = down \cup Ttys
  /\ UNCHANGED <<serverButDown, clientPc, dialled, wire, recv>>

-----------------------------------------------------------------------------
(* The server's steps, and what they put on the wire.                       *)

\* The secret of a request is the one the server gave for its stream.
ServerConnects(r) ==
  /\ \/ CheckRunning(r)
     \/ CallOnConnect(r)
     \/ ConnectStream(r, r)
     \/ ConnectStep(r)
     \/ r \in down /\ ConnectBadHandshake(r)
  /\ UNCHANGED clientVars

ServerRenders ==
  /\ \E p \in Polls : RenderCode(p) \/ RenderMetadata(p) \/ RenderErr(p)
  /\ UNCHANGED clientVars

ServerOperates == Operation /\ UNCHANGED clientVars

Room(i) == wire[i] < WireCap

SendOutput(i) ==
  /\ Room(i)
  /\ Behind(SendChunk(i))
  /\ wire' = [wire EXCEPT ![i] = @ + 1]
  /\ UNCHANGED <<clientPc, dialled, recv, dataDone>>

ServerMirrors ==
  /\ Behind(\/ \E i \in Ttys : TakeConn(i)
            \/ \E i \in OutFds : SendEOF(i) \/ SendCut(i)
            \/ RecvEnds
            \/ JoinMirror)
  /\ UNCHANGED clientVars

CommandRuns ==
  /\ Behind(\/ \E i \in OutFds : CmdWrites(i) \/ DescendantCloses(i)
            \/ \E o \in Outcomes : CmdExits(o))
  /\ UNCHANGED clientVars

\* What a broken connection carried is lost.
ConnBreaks(r) ==
  /\ Behind(ConnDrops(r))
  /\ wire' = [i \in OutFds |-> IF i = r THEN 0 ELSE wire[i]]
  /\ UNCHANGED <<clientPc, dialled, recv, dataDone>>

-----------------------------------------------------------------------------
Client ==
  \/ \E r \in Requests : Dial(r)
  \/ DialAnswered
  \/ DialFails
  \/ Refresh
  \/ Refreshed
  \/ Exit
  \/ \E i \in OutFds : Receive(i) \/ ReceiveEnd(i)
  \/ CloseStreams

Server ==
  \/ \E r \in Requests : ServerConnects(r) \/ ConnBreaks(r)
  \/ \E i \in OutFds : SendOutput(i)
  \/ ServerRenders
  \/ ServerOperates
  \/ ServerMirrors
  \/ CommandRuns

SystemNext == ~panicked /\ (Client \/ Server)

SystemSpec == SystemInit /\ [][SystemNext]_systemVars

(***************************************************************************)
(* Fairness: every goroutine of both programs goes on.  A stdin that never *)
(* ends, and a command that never does, are behaviours of the system; the  *)
(* receiving half of a pty's mirror ends when its connection is closed.    *)
(***************************************************************************)
Unseen(A) == Behind(A) /\ UNCHANGED clientVars

ClientFairness ==
  /\ WF_systemVars(Lives(DialAnswered \/ Refresh \/ Refreshed \/ Exit))
  /\ WF_systemVars(Lives(CloseStreams))
  /\ \A r \in Requests : WF_systemVars(Lives(Dial(r)))
  /\ \A i \in OutFds : WF_systemVars(Lives(Receive(i) \/ ReceiveEnd(i)))

SystemFairness ==
  /\ ClientFairness
  /\ WF_systemVars(Lives(ServerOperates))
  /\ WF_systemVars(Lives(ServerRenders))
  /\ \A r \in Requests : WF_systemVars(Lives(ServerConnects(r)))
  /\ \A i \in Ttys : WF_systemVars(Unseen(TakeConn(i)))
  /\ \A i \in OutFds :
       WF_systemVars(SendOutput(i) \/ Unseen(SendEOF(i)) \/ Unseen(SendCut(i)))
  /\ WF_systemVars(Unseen(RecvEnds /\ used[0] \in down))
  /\ WF_systemVars(Unseen(JoinMirror))

FairSystemSpec == SystemSpec /\ SystemFairness

-----------------------------------------------------------------------------
(* Properties. *)

(* The types of the client's state; its connections are closed, and DataDone *)
(* with them, only when every receiver has ended.                            *)
ClientTypeOK ==
  /\ clientPc \in ClientPcs
  /\ dialled \in 0 .. Len(Dials)
  /\ wire \in [OutFds -> 0 .. WireCap]
  /\ recv \in [OutFds -> {"none", "copy", "ended"}]
  /\ dataDone \in BOOLEAN
  /\ dataDone => \A i \in OutFds : recv[i] = "ended"

(* In the order in which ExecInstance dials, no dial comes too late for its  *)
(* operation: each is answered 101, and none makes the server panic.         *)
DialsInTime ==
  /\ ~panicked
  /\ ClientLives => \A r \in Requests : reply[r] \in {Nil, 101}

(* When the client exits normally, everything the command wrote on a stream  *)
(* whose connection cannot break has been read by the client.                *)
ExitHasAllOutput ==
  clientPc = "exit" =>
    \A i \in OutFds \ Breakable :
       wire[i] = 0 /\ (~Interactive => pipe[i] = 0 /\ i \notin holders)

(* A client exits normally only when it has its answer: the operation is     *)
(* final, and either the return code is there or the session failed (a       *)
(* refresh between the two writes of a failure takes it for an answer).      *)
ExitIsAnswered ==
  clientPc = "exit" => status \in Final /\ (published # Nil \/ failed)

(* On connections that do not break, a client gives up only because the      *)
(* operation failed or was forgotten before it asked.                        *)
FatalHasReason ==
  Breakable = {} /\ clientPc = "fatal" => failed \/ ~registered

(* ExecInstance dials the control socket first, so finisher misses its       *)
(* connection, and hangs, only while the goroutine of that dial, which has   *)
(* answered 101 long ago, has still to store it.                             *)
OnlyStoreRaceHangs ==
  [][doPc' = "controlExit" /\ doPc # "controlExit" => reqPc[Control] = "store"]_systemVars

(* A client that saw the operation final and answered does exit.             *)
FinalSeenExits == (clientPc = "flush" /\ published # Nil) ~> clientPc = "exit"

(* With a client that dials, ends and closes as ExecInstance does, a dead    *)
(* command with no descendant on its streams brings its operation to an end, *)
(* unless finisher ran before the control connection, which was dialled      *)
(* first, was stored.                                                        *)
DeadCommandIsAnswered ==
  (child = "exited" /\ holders = {}) ~> (status \in Final \/ doPc = "controlExit")

(* operations.go:52: "Wait lets you wait until the operation reaches a final *)
(* state".                                                                   *)
WaitReturns == (clientPc = "blocked" /\ status \in Final) ~> clientPc # "blocked"

=============================================================================
