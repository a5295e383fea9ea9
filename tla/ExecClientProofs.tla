-------------------------- MODULE ExecClientProofs --------------------------
(***************************************************************************)
(* Safety of the whole system: one vsock-client exec against vsock-server, *)
(* for both kinds of session, every capacity of pipes and connections and  *)
(* any breakable connections.  A step of the system is a step of the       *)
(* server, or one of the client that at most closes connections; so the    *)
(* invariants of the session and of its operation hold here too.  To them  *)
(* SystemInv adds                                                          *)
(*                                                                         *)
(*   DialInv    one stream is dialled after the other, and a connection is *)
(*              stored as the stream's own;                                *)
(*   ReplyInv   while the client lives no dial has been refused, and only  *)
(*              an upgraded connection is down;                            *)
(*   StreamInv  what a stream goroutine that has ended left behind;        *)
(*   AnswerInv  what the client's refresh has told it.                     *)
(***************************************************************************)
EXTENDS ExecClient, ExecServerProofs

\* The position of the last dial in the order.
LastDial == Len(Dials)

\* The dials, the handlers they reach and the connections these have stored.
DialInv ==
  /\ clientPc = "dial" => dialled < LastDial
  /\ clientPc \in {"refresh", "blocked", "flush", "exit"} => dialled = LastDial
  /\ \A k \in 1 .. LastDial :
       /\ k <= dialled => hpc[Dials[k]] = "upgraded"
       /\ k > dialled + 1 => hpc[Dials[k]] = "idle"
  /\ \A r \in Requests :
       IF hpc[r] = "upgraded"
         THEN reqFd[r] = r
         ELSE reqFd[r] = Nil /\ reqPc[r] \in {"idle", "returned"}
  /\ \A fd \in Fds : conns[fd] # Nil => fd \in Requests /\ conns[fd] = fd /\ hpc[fd] = "upgraded"
  /\ \A i \in Ttys : used[i] # Nil => used[i] = i /\ hpc[i] = "upgraded"

\* What a handshake has been answered where its handler is.
Answer(h) ==
  CASE h = "upgraded" -> 101
    [] h \in {"idle", "found", "checked", "called"} -> Nil
    [] h = "badHandshake" -> 400
    [] h \in {"unknown", "notRunning", "badSecret"} -> 200

\* What the handshakes have been answered, and why none is refused.
ReplyInv ==
  /\ ~panicked
  /\ \A r \in Requests : hpc[r] # "idle" => opPc # "created"
  /\ \A r \in Requests : reply[r] = Answer(hpc[r])
  /\ ClientLives => \A r \in Requests :
       /\ hpc[r] \in {"idle", "found", "checked", "called", "upgraded"}
       /\ r \in down => hpc[r] = "upgraded"

\* The goroutines of the streams, and what is done when all have ended.
StreamInv ==
  /\ dataDone => dialled = LastDial /\ \A i \in OutFds : recv[i] = "ended"
  /\ clientPc = "exit" => dataDone
  /\ ClientLives /\ ~dataDone /\ ~Interactive => \A i \in OutFds \ Breakable : i \notin down
  /\ \A i \in OutFds \ Breakable : recv[i] = "ended" =>
       /\ wire[i] = 0
       /\ outPc[i] = "drained" \/ (Interactive /\ i \in down)

\* The places of a poll that has read the status.
Read == {"metadata", "err", "answered"}

\* What a poll has read stays true, and the client went by it.
AnswerInv ==
  /\ \A p \in Polls :
       /\ pollPc[p] = "empty" => ~registered
       /\ pollPc[p] \in Read /\ snap[p].code \in Final => status \in Final
       /\ snap[p].err # "" => failed
  /\ clientPc \in {"flush", "exit"} => status \in Final

\* The inductive invariant of the whole system.
SystemInv ==
  /\ SessionInv
  /\ ChildInv
  /\ ServerInv
  /\ ClientTypeOK
  /\ DialInv
  /\ ReplyInv
  /\ StreamInv
  /\ AnswerInv
  /\ FatalHasReason

-----------------------------------------------------------------------------
(* The order of the dials: the control stream or stdin first, a stream that  *)
(* Do waits for last.                                                        *)
LEMMA DialOrder ==
  /\ LastDial \in Nat /\ LastDial > 0
  /\ \A k \in 1 .. LastDial : Dials[k] \in Requests
  /\ \A r \in Requests : \E k \in 1 .. LastDial : r = Dials[k]
  /\ \A k, n \in 1 .. LastDial : Dials[k] = Dials[n] => k = n
  /\ Dials[LastDial] \in Ttys
  /\ Ttys \subseteq Requests /\ OutFds \subseteq Ttys
  /\ Requests \subseteq Fds
  /\ ~Interactive => Control \notin Requests
<1>1. Requests = ToSet(Dials)
  BY ClientAssumption
<1>2. CASE Interactive
  <2>1. Dials = <<-1, 0>> /\ LastDial = 2
    BY <1>2 DEF Dials, LastDial, Control
  <2>2. Requests = {-1, 0}
    BY <1>1, <2>1 DEF ToSet
  <2> QED BY <1>2, <2>1, <2>2 DEF Ttys, OutFds, Fds, Control
<1>3. CASE ~Interactive
  <2>1. Dials = <<0, 1, 2>> /\ LastDial = 3
    BY <1>3 DEF Dials, LastDial
  <2>2. Requests = {0, 1, 2}
    BY <1>1, <2>1 DEF ToSet
  <2> QED BY <1>3, <2>1, <2>2 DEF Ttys, OutFds, Fds, Control
<1> QED BY <1>2, <1>3, SessionAssumption

\* A step of the client that only closes connections.
Closes ==
  /\ UNCHANGED serverButDown
  /\ down \subseteq down' /\ down' \subseteq down \cup Requests

\* A step of the system is one of the server or only closes connections.
LEMMA SystemStepsServer ==
  ASSUME SystemNext
  PROVE  [ServerNext]_serverVars \/ Closes
<1>1. ~panicked
  BY DEF SystemNext
<1>2. ASSUME NEW r \in Requests, Dial(r) \/ ServerConnects(r)
      PROVE  ServerNext
  <2>1. r \in Fds
    BY DialOrder
  <2> QED BY <1>1, <1>2, <2>1 DEF Dial, ServerConnects, ServerNext, Websocket
<1>3. CASE Refresh \/ ServerRenders
  BY <1>1, <1>3 DEF Refresh, ServerRenders, ServerNext, Poll
<1>4. CASE ServerOperates
  BY <1>1, <1>4 DEF ServerOperates, ServerNext
<1>5. CASE ServerMirrors \/ CommandRuns
  BY <1>1, <1>5 DEF ServerMirrors, CommandRuns, Behind, Lives, ServerNext, Background, Mirror, World
<1>6. ASSUME NEW i \in OutFds, SendOutput(i)
      PROVE  ServerNext
  BY <1>1, <1>6 DEF SendOutput, Behind, Lives, ServerNext, Background, Mirror
<1>7. ASSUME NEW r \in Requests, ConnBreaks(r)
      PROVE  ServerNext
  BY <1>1, <1>7 DEF ConnBreaks, Behind, Lives, ServerNext, Background, World
<1>8. CASE DialAnswered \/ DialFails \/ Refreshed \/ Exit \/ CloseStreams
  BY <1>8, DialOrder DEF DialAnswered, DialFails, Refreshed, Exit, CloseStreams, HangUp, Closes
<1>9. ASSUME NEW i \in OutFds, Receive(i) \/ ReceiveEnd(i)
      PROVE  UNCHANGED serverVars
  BY <1>9 DEF Receive, ReceiveEnd
<1> QED
  BY <1>2, <1>3, <1>4, <1>5, <1>6, <1>7, <1>8, <1>9 DEF SystemNext, Client, Server

\* The session and its operation do not mind that a connection is closed.
LEMMA BaseStep ==
  ASSUME SystemInv, SystemNext
  PROVE  SessionInv' /\ ChildInv' /\ ServerInv'
<1> USE DEF SystemInv
<1>1. CASE [ServerNext]_serverVars
  <2>1. [SessionNext]_sessionVars
    BY <1>1, ServerStepsSession DEF serverVars
  <2>2. SessionInv'
    BY <2>1, NextInv
  <2>3. ChildInv'
    <3>1. CASE SessionNext
      BY <3>1, ChildStep
    <3>2. CASE UNCHANGED sessionVars
      BY <3>2 DEF sessionVars, ChildInv, ReturnCode
    <3> QED BY <2>1, <3>1, <3>2
  <2>4. ServerInv'
    BY <1>1, ServerNextInv
  <2> QED BY <2>2, <2>3, <2>4
<1>2. CASE Closes
  <2>1. down' \subseteq Requests
    BY <1>2 DEF Closes, SessionInv, SessionTypeOK
  <2>2. UNCHANGED serverButDown /\ down \subseteq down'
    BY <1>2 DEF Closes
  <2>3. SessionInv'
    BY <2>1, <2>2
    DEF serverButDown, connectVars, mirrorVars, childVars, resultVars,
        SessionInv, SessionTypeOK, ConnectInv, WakeupInv,
        NoLostWakeup, StreamsConnected, MirrorInv, Unfinished, Pending, ResultInv,
        MirrorsDone, OutputInv
  <2>4. ChildInv'
    BY <2>2 DEF serverButDown, childVars, resultVars, ChildInv, ReturnCode
  <2>5. ServerInv'
    BY <2>2, ElsewhereInv DEF serverButDown, handlerVars, resultVars, ServerInv, ServerTypeOK
  <2> QED BY <2>3, <2>4, <2>5
<1> QED BY <1>1, <1>2, SystemStepsServer

-----------------------------------------------------------------------------
\* What Wait makes of an answer.
LEMMA RefreshFacts ==
  ASSUME NEW s
  PROVE  /\ AfterRefresh(s) \in {"blocked", "flush", "fatal"}
         /\ AfterRefresh(s) = "flush" => s.code \in Final
         /\ AfterRefresh(s) = "fatal" => s.err # ""
BY DEF AfterRefresh

\* A handshake is answered 101 by an upgrade alone.
LEMMA UpgradeFacts ==
  ASSUME SystemInv, NEW r \in Requests
  PROVE  /\ reply[r] = 101 <=> hpc[r] = "upgraded"
         /\ ClientLives => reply[r] \in {Nil, 101}
<1>1. hpc[r] \in {"idle", "unknown", "found", "notRunning", "checked", "called", "badSecret",
                  "badHandshake", "upgraded"}
  BY DEF SystemInv, ServerInv, ServerTypeOK
<1>2. Nil # 101
  BY SessionAssumption
<1>3. reply[r] = Answer(hpc[r])
  BY DEF SystemInv, ReplyInv
<1>4. Nil # 101 /\ (hpc[r] = "upgraded" => reply[r] = 101)
  BY <1>2, <1>3 DEF Answer
<1>5. hpc[r] # "upgraded" => reply[r] \in {Nil, 200, 400}
  BY <1>1, <1>3 DEF Answer
<1>6. ClientLives => reply[r] \in {Nil, 101}
  BY <1>1, <1>3 DEF Answer, SystemInv, ReplyInv
<1> QED BY <1>4, <1>5, <1>6

(* Every step keeps the types of the client.                                 *)
LEMMA ClientTypeStep ==
  ASSUME SystemInv, SystemNext
  PROVE  ClientTypeOK'
<1> USE ClientAssumption DEF SystemInv, ClientTypeOK, ClientPcs
<1>1. ASSUME UNCHANGED clientVars
      PROVE  ClientTypeOK'
  BY <1>1 DEF clientVars
<1>2. ASSUME NEW r \in Requests, Dial(r) \/ ServerConnects(r)
      PROVE  ClientTypeOK'
  BY <1>1, <1>2 DEF Dial, ServerConnects
<1>3. CASE Refresh \/ ServerRenders \/ ServerOperates \/ ServerMirrors \/ CommandRuns
  BY <1>1, <1>3 DEF Refresh, ServerRenders, ServerOperates, ServerMirrors, CommandRuns
<1>4. ASSUME NEW i \in OutFds, SendOutput(i)
      PROVE  ClientTypeOK'
  BY <1>4 DEF SendOutput, Room
<1>5. ASSUME NEW r \in Requests, ConnBreaks(r)
      PROVE  ClientTypeOK'
  BY <1>5 DEF ConnBreaks
<1>6. CASE DialAnswered
  <2>1. dialled < LastDial /\ LastDial \in Nat
    BY <1>6, DialOrder DEF DialAnswered, DialInv
  <2>2. ~dataDone
    BY <1>6, <2>1 DEF StreamInv
  <2> QED BY <1>6, <2>1, <2>2 DEF DialAnswered, LastDial
<1>7. CASE DialFails \/ Refreshed \/ Exit
  <2>1. Refreshed => clientPc' \in {"blocked", "flush", "fatal"}
    BY RefreshFacts DEF Refreshed
  <2> QED BY <1>7, <2>1 DEF DialFails, Refreshed, Exit
<1>8. ASSUME NEW i \in OutFds, Receive(i) \/ ReceiveEnd(i)
      PROVE  ClientTypeOK'
  BY <1>8 DEF Receive, ReceiveEnd
<1>9. CASE CloseStreams
  BY <1>9 DEF CloseStreams, AllEnded
<1> QED
  BY <1>2, <1>3, <1>4, <1>5, <1>6, <1>7, <1>8, <1>9 DEF SystemNext, Client, Server

\* A stream that is not connected keeps Do, and with it the operation, where
\* a dial finds it.
LEMMA Undialled ==
  ASSUME SystemInv, NEW r \in Requests, hpc[r] # "upgraded"
  PROVE  /\ doPc = "wait" /\ opPc \in {"created", "hook"}
         /\ registered /\ ~readonly
         /\ opPc # "created" => status = "Running"
<1> USE DEF SystemInv
<1>1. hpc[Dials[LastDial]] # "upgraded"
  <2>1. PICK k \in 1 .. LastDial : r = Dials[k]
    BY DialOrder
  <2>2. dialled \in Nat /\ LastDial \in Nat
    BY DialOrder DEF ClientTypeOK
  <2>3. LastDial \in 1 .. LastDial
    BY DialOrder
  <2>4. k > dialled
    BY <2>1, <2>2 DEF DialInv
  <2>5. CASE k = LastDial
    BY <2>1, <2>5
  <2>6. CASE k # LastDial
    BY <2>2, <2>3, <2>4, <2>6 DEF DialInv
  <2> QED BY <2>5, <2>6
<1>2. ~StreamsConnected
  <2>1. Dials[LastDial] \in Ttys /\ Dials[LastDial] \in Fds
    BY DialOrder DEF Fds
  <2> QED BY <1>1, <2>1 DEF DialInv, StreamsConnected
<1>3. doPc = "wait"
  BY <1>2 DEF SessionInv, WakeupInv
<1>4. opPc \in {"created", "hook"}
  BY <1>3 DEF ServerInv, ServerTypeOK, OpInv
<1> QED BY <1>3, <1>4 DEF ServerInv, ServerTypeOK, OpInv

\* The dial that is under way is the only one.
LEMMA OneDial ==
  ASSUME SystemInv, NEW r \in Requests, hpc[r] \notin {"idle", "upgraded"}
  PROVE  /\ dialled + 1 \in 1 .. LastDial /\ r = Dials[dialled + 1]
         /\ \A k \in 1 .. LastDial : k # dialled + 1 => Dials[k] # r
<1> USE DEF SystemInv
<1>1. PICK k \in 1 .. LastDial : r = Dials[k]
  BY DialOrder
<1>2. dialled \in Nat /\ LastDial \in Nat
  BY DialOrder DEF ClientTypeOK
<1>3. k = dialled + 1
  BY <1>1, <1>2 DEF DialInv
<1> QED BY <1>1, <1>3, DialOrder

\* What of the session DialInv reads is changed by Connect and TakeConn alone.
dialledVars == <<conns, reqPc, reqFd, used, hpc>>

(* So the other steps leave them alone.                                      *)
LEMMA DialFrame ==
  /\ Operation => UNCHANGED dialledVars
  /\ \A i \in OutFds : SendChunk(i) => UNCHANGED <<conns, reqPc, reqFd, used>>
  /\ Do \/ RecvEnds \/ JoinMirror \/ World => UNCHANGED <<conns, reqPc, reqFd, used>>
<1>1. Do \/ RecvEnds \/ JoinMirror \/ World => UNCHANGED <<conns, reqPc, reqFd, used>>
  BY DEF Do, AwaitAllConnected, OpenTtys, OpenTtysFails, StartCmd, StartCmdFails, Reap, CloseTtys,
     ReadControl, MarkDead, AwaitEOF, Publish, RecvEnds, JoinMirror, World, CmdWrites,
     DescendantCloses, CmdExits, ConnDrops, connectVars, mirrorVars
<1>2. Operation => UNCHANGED dialledVars
  BY <1>1 DEF Operation, RunOp, HookStep, SetSuccess, SetFailure, SetErr, DoneOp, Expire,
     handlerVars, sessionVars, dialledVars
<1>3. \A i \in OutFds : SendChunk(i) => UNCHANGED <<conns, reqPc, reqFd, used>>
  BY DEF SendChunk, connectVars, mirrorVars
<1> QED BY <1>1, <1>2, <1>3

\* The dials go in order.
LEMMA DialStep ==
  ASSUME SystemInv, SystemNext
  PROVE  DialInv'
<1> USE DEF SystemInv
<1>1. dialled \in Nat /\ LastDial \in Nat /\ LastDial > 0
  BY DialOrder DEF ClientTypeOK
<1>2. ASSUME UNCHANGED dialledVars, UNCHANGED dialled,
             clientPc' = "dial" => clientPc = "dial",
             clientPc' \in {"refresh", "blocked", "flush", "exit"} =>
               clientPc \in {"refresh", "blocked", "flush", "exit"}
      PROVE  DialInv'
  BY <1>2 DEF dialledVars, DialInv, LastDial
<1>3. CASE Refresh \/ ServerRenders \/ ServerOperates \/ CommandRuns
  <2>1. UNCHANGED dialledVars
    BY <1>3, DialFrame
    DEF Refresh, PollLookUp, ServerRenders, RenderCode, RenderMetadata, RenderErr, ServerOperates,
        CommandRuns, Behind, Lives, World, handlerVars, sessionVars, dialledVars
  <2> QED BY <1>2, <1>3, <2>1
      DEF Refresh, ServerRenders, ServerOperates, CommandRuns, clientVars
<1>4. ASSUME NEW i \in OutFds, SendOutput(i)
      PROVE  DialInv'
  BY <1>2, <1>4, DialFrame DEF SendOutput, Behind, Lives, handlerVars, dialledVars
<1>5. ASSUME NEW r \in Requests, ConnBreaks(r)
      PROVE  DialInv'
  BY <1>2, <1>5, DialFrame DEF ConnBreaks, Behind, Lives, World, handlerVars, dialledVars
<1>6. CASE DialFails \/ Refreshed \/ Exit \/ CloseStreams
  <2>1. UNCHANGED dialledVars /\ UNCHANGED dialled
    BY <1>6 DEF DialFails, Refreshed, Exit, CloseStreams, serverButDown, connectVars, mirrorVars,
       handlerVars, dialledVars
  <2>2. /\ clientPc' = "dial" => clientPc = "dial"
        /\ clientPc' \in {"refresh", "blocked", "flush", "exit"} =>
             clientPc \in {"refresh", "blocked", "flush", "exit"}
    BY <1>6, RefreshFacts DEF DialFails, Refreshed, Exit, CloseStreams
  <2> QED BY <1>2, <2>1, <2>2
<1>7. ASSUME NEW i \in OutFds, Receive(i) \/ ReceiveEnd(i)
      PROVE  DialInv'
  BY <1>2, <1>7 DEF Receive, ReceiveEnd, serverVars, sessionVars, handlerVars, dialledVars
<1>8. CASE DialAnswered
  <2>1. dialled < LastDial /\ dialled + 1 \in 1 .. LastDial /\ Dialled \in Requests
    BY <1>1, <1>8, DialOrder DEF DialAnswered, DialInv, Dialled
  <2>2. UNCHANGED dialledVars
    BY <1>8 DEF DialAnswered, serverButDown, connectVars, mirrorVars, handlerVars, dialledVars
  <2>3. CASE reply[Dialled] = 101
    <3>1. hpc[Dials[dialled + 1]] = "upgraded"
      BY <2>1, <2>3, UpgradeFacts DEF Dialled
    <3>2. dialled' = dialled + 1
      BY <1>8, <2>3 DEF DialAnswered
    <3>3. \A k \in 1 .. LastDial :
            /\ k <= dialled' => hpc'[Dials[k]] = "upgraded"
            /\ k > dialled' + 1 => hpc'[Dials[k]] = "idle"
      BY <1>1, <2>2, <3>1, <3>2 DEF DialInv, dialledVars
    <3>4. clientPc' = IF dialled' = LastDial THEN "refresh" ELSE "dial"
      BY <1>8, <2>3 DEF DialAnswered, LastDial
    <3> QED BY <1>1, <2>1, <2>2, <3>2, <3>3, <3>4 DEF DialInv, dialledVars, LastDial
  <2>4. CASE reply[Dialled] # 101
    BY <1>2, <1>8, <2>2, <2>4 DEF DialAnswered
  <2> QED BY <2>3, <2>4
\* Of the handlers, the steps below are those of one request.
<1>9. ASSUME NEW r \in Requests, UNCHANGED <<conns, used, clientPc, dialled>>,
             hpc'[r] = "idle" => hpc[r] = "idle", hpc[r] # "upgraded",
             \A k \in 1 .. LastDial : k # dialled + 1 => Dials[k] # r,
             \A q \in Requests \ {r} : UNCHANGED <<hpc[q], reqFd[q], reqPc[q]>>,
             IF hpc'[r] = "upgraded" THEN reqFd'[r] = r
                                     ELSE reqFd'[r] = Nil /\ reqPc'[r] \in {"idle", "returned"}
      PROVE  DialInv'
  <2>1. \A k \in 1 .. LastDial :
            /\ k <= dialled => hpc'[Dials[k]] = "upgraded"
            /\ k > dialled + 1 => hpc'[Dials[k]] = "idle"
    BY <1>1, <1>9, DialOrder DEF DialInv
  <2>2. \A q \in Requests : hpc[q] = "upgraded" => hpc'[q] = "upgraded"
    BY <1>9
  <2>3. \A q \in Requests :
         IF hpc'[q] = "upgraded" THEN reqFd'[q] = q
                                 ELSE reqFd'[q] = Nil /\ reqPc'[q] \in {"idle", "returned"}
    BY <1>9 DEF DialInv
  <2>4. \A fd \in Fds : conns'[fd] # Nil => fd \in Requests /\ conns'[fd] = fd /\ hpc'[fd] = "upgraded"
    BY <1>9, <2>2 DEF DialInv
  <2>5. \A i \in Ttys : used'[i] # Nil => used'[i] = i /\ hpc'[i] = "upgraded"
    BY <1>9, <2>2, DialOrder DEF DialInv
  <2> QED BY <1>9, <2>1, <2>3, <2>4, <2>5 DEF DialInv, LastDial
<1>10. /\ hpc \in [Requests -> {"idle", "unknown", "found", "notRunning", "checked", "called",
                             "badSecret", "badHandshake", "upgraded"}]
       /\ reqFd \in [Requests -> Fds \cup {Nil}] /\ reqPc \in [Requests -> ReqPcs]
  BY DEF ServerInv, ServerTypeOK, SessionInv, SessionTypeOK
<1>11. ASSUME NEW r \in Requests, Dial(r)
       PROVE  DialInv'
  <2>1. /\ \A k \in 1 .. LastDial : k # dialled + 1 => Dials[k] # r
        /\ hpc[r] = "idle" /\ \E s \in {"found", "unknown"} : hpc' = [hpc EXCEPT ![r] = s]
        /\ UNCHANGED <<conns, used, reqFd, reqPc, clientPc, dialled>>
    <3>1. clientPc = "dial" /\ dialled + 1 \in 1 .. LastDial
      BY <1>1, <1>11 DEF Dial, DialInv
    <3>2. r = Dials[dialled + 1]
      BY <1>11 DEF Dial
    <3> QED BY <1>11, <3>1, <3>2, DialOrder DEF Dial, LookUpOp, sessionVars, clientVars
  <2>2. /\ \A q \in Requests \ {r} : hpc'[q] = hpc[q]
        /\ hpc'[r] \in {"found", "unknown"}
    BY <1>10, <2>1
  <2>3. reqFd[r] = Nil /\ reqPc[r] \in {"idle", "returned"}
    BY <2>1 DEF DialInv
  <2> QED BY <1>9, <2>1, <2>2, <2>3
<1>12. ASSUME NEW r \in Requests,
              CheckRunning(r) \/ CallOnConnect(r) \/ ConnectStream(r, r) \/ ConnectBadHandshake(r),
              UNCHANGED clientVars
       PROVE  DialInv'
  <2>1. hpc[r] \in {"found", "checked", "called"}
    BY <1>12 DEF CheckRunning, CallOnConnect, ConnectStream, ConnectBadHandshake
  <2>2. \A k \in 1 .. LastDial : k # dialled + 1 => Dials[k] # r
    BY <2>1, OneDial
  <2>3. UNCHANGED <<conns, used, clientPc, dialled>>
    BY <1>12 DEF CheckRunning, CallOnConnect, ConnectStream, ConnectBadHandshake, ConnectUpgraded,
       ConnectRefused, sessionVars, mirrorVars, clientVars
  <2>4. /\ \A q \in Requests \ {r} : UNCHANGED <<hpc[q], reqFd[q], reqPc[q]>>
        /\ hpc'[r] # "idle"
    <3>1. \E s \in {"checked", "notRunning", "called", "upgraded", "badHandshake"} :
            hpc' = [hpc EXCEPT ![r] = s]
      BY <1>12 DEF CheckRunning, CallOnConnect, ConnectStream, ConnectBadHandshake
    <3>2. reqFd' = reqFd \/ reqFd' = [reqFd EXCEPT ![r] = r]
      BY <1>12 DEF CheckRunning, CallOnConnect, ConnectStream, ConnectBadHandshake, ConnectUpgraded,
         ConnectRefused, sessionVars
    <3>3. reqPc' = reqPc \/ \E s \in {"store", "returned"} : reqPc' = [reqPc EXCEPT ![r] = s]
      BY <1>12 DEF CheckRunning, CallOnConnect, ConnectStream, ConnectBadHandshake, ConnectUpgraded,
         ConnectRefused, sessionVars
    <3>4. hpc'[r] # "idle" /\ \A q \in Requests \ {r} : hpc'[q] = hpc[q]
      BY <1>10, <3>1
    <3>5. \A q \in Requests \ {r} : reqFd'[q] = reqFd[q] /\ reqPc'[q] = reqPc[q]
      BY <1>10, <3>2, <3>3
    <3> QED BY <3>4, <3>5
  <2>5. IF hpc'[r] = "upgraded" THEN reqFd'[r] = r
                                ELSE reqFd'[r] = Nil /\ reqPc'[r] \in {"idle", "returned"}
    <3>1. reqFd[r] = Nil /\ reqPc[r] \in {"idle", "returned"}
      BY <2>1 DEF DialInv
    <3>2. CASE CheckRunning(r)
      <4>1. hpc'[r] \in {"checked", "notRunning"}
        BY <1>10, <3>2 DEF CheckRunning
      <4>2. UNCHANGED <<reqFd, reqPc>>
        BY <3>2 DEF CheckRunning, sessionVars
      <4> QED BY <3>1, <4>1, <4>2
    <3>3. CASE CallOnConnect(r)
      <4>1. hpc'[r] = "called"
        BY <1>10, <3>3 DEF CallOnConnect
      <4>2. UNCHANGED <<reqFd, reqPc>>
        BY <3>3 DEF CallOnConnect, sessionVars
      <4> QED BY <3>1, <4>1, <4>2
    <3>4. CASE ConnectStream(r, r)
      <4>1. hpc'[r] = "upgraded"
        BY <1>10, <3>4 DEF ConnectStream
      <4>2. reqFd'[r] = r
        BY <1>10, <3>4 DEF ConnectStream, ConnectUpgraded
      <4> QED BY <4>1, <4>2
    <3>5. CASE ConnectBadHandshake(r)
      <4>1. hpc'[r] = "badHandshake"
        BY <1>10, <3>5 DEF ConnectBadHandshake
      <4>2. UNCHANGED reqFd /\ reqPc'[r] = "returned"
        BY <1>10, <3>5 DEF ConnectBadHandshake, ConnectRefused
      <4> QED BY <3>1, <4>1, <4>2
    <3> QED BY <1>12, <3>2, <3>3, <3>4, <3>5
  <2> QED BY <1>9, <2>1, <2>2, <2>3, <2>4, <2>5
<1>13. ASSUME NEW r \in Requests, ConnectStep(r), UNCHANGED clientVars
       PROVE  DialInv'
  <2>1. reqPc[r] \in {"store", "control", "scan", "signal"}
    BY <1>13 DEF ConnectStep, StoreConn, SignalControl, ScanConns, SignalAllConnected
  <2>2. hpc[r] = "upgraded" /\ reqFd[r] = r
    BY <2>1 DEF DialInv
  <2>3. UNCHANGED <<hpc, reqFd, used, clientPc, dialled>> /\ \A q \in Requests \ {r} : reqPc'[q] = reqPc[q]
    BY <1>13 DEF ConnectStep, StoreConn, SignalControl, ScanConns, SignalAllConnected, mirrorVars,
       handlerVars, clientVars, SessionInv, SessionTypeOK
  <2>4. \A fd \in Fds : conns'[fd] # conns[fd] => fd = r /\ conns'[fd] = r
    BY <1>13, <2>2 DEF ConnectStep, StoreConn, SignalControl, ScanConns, SignalAllConnected,
       SessionInv, SessionTypeOK
  <2>5. \A fd \in Fds : conns'[fd] # Nil => fd \in Requests /\ conns'[fd] = fd /\ hpc'[fd] = "upgraded"
    BY <2>2, <2>3, <2>4 DEF DialInv
  <2> QED BY <2>2, <2>3, <2>5 DEF DialInv, LastDial
<1>14. CASE ServerMirrors
  <2>1. ASSUME NEW i \in Ttys, TakeConn(i)
        PROVE  \A j \in Ttys : used'[j] # Nil => used'[j] = j /\ hpc[j] = "upgraded"
    BY <2>1 DEF TakeConn, DialInv, Fds, SessionInv, SessionTypeOK
  <2>2. /\ UNCHANGED <<conns, reqPc, reqFd, hpc, clientPc, dialled>>
        /\ UNCHANGED used \/ \E i \in Ttys : TakeConn(i)
    <3>1. UNCHANGED <<hpc, clientPc, dialled>>
      BY <1>14 DEF ServerMirrors, Behind, Lives, handlerVars, clientVars
    <3>2. \A i \in Ttys : TakeConn(i) => UNCHANGED <<conns, reqPc, reqFd>>
      BY DEF TakeConn, connectVars
    <3>3. \A i \in OutFds : SendEOF(i) \/ SendCut(i) => UNCHANGED <<conns, reqPc, reqFd, used>>
      BY DEF SendEOF, SendCut, connectVars
    <3>4. \/ \E i \in Ttys : TakeConn(i)
          \/ \E i \in OutFds : SendEOF(i) \/ SendCut(i)
          \/ RecvEnds
          \/ JoinMirror
      BY <1>14 DEF ServerMirrors, Behind, Lives
    <3> QED BY <3>1, <3>2, <3>3, <3>4, DialFrame
  <2>3. \A j \in Ttys : used'[j] # Nil => used'[j] = j /\ hpc'[j] = "upgraded"
    BY <2>1, <2>2 DEF DialInv
  <2> QED BY <2>2, <2>3 DEF DialInv, LastDial
<1> QED
  BY <1>3, <1>4, <1>5, <1>6, <1>7, <1>8, <1>11, <1>12, <1>13, <1>14
  DEF SystemNext, Client, Server, ServerConnects

-----------------------------------------------------------------------------
\* What no step takes back.
LEMMA Monotone ==
  ASSUME SystemInv, SystemNext
  PROVE  /\ ~registered => ~registered'
         /\ status \in Final => status' \in Final
         /\ failed => failed'
         /\ opPc # "created" => opPc' # "created"
         /\ down \subseteq down'
         /\ \A i \in OutFds : outPc[i] = "drained" => outPc'[i] = "drained"
<1> USE DEF SystemInv
<1> DEFINE Goal ==
         /\ ~registered => ~registered'
         /\ status \in Final => status' \in Final
         /\ failed => failed'
         /\ opPc # "created" => opPc' # "created"
         /\ down \subseteq down'
         /\ \A i \in OutFds : outPc[i] = "drained" => outPc'[i] = "drained"
<1>1. ASSUME SessionNext
      PROVE  /\ down \subseteq down' /\ (failed => failed')
             /\ \A i \in OutFds : outPc[i] = "drained" => outPc'[i] = "drained"
  <2>1. ASSUME NEW r \in Requests, Connect(r)
        PROVE  UNCHANGED <<down, failed, outPc>>
    BY <2>1 DEF Connect, ConnectRefused, ConnectUpgraded, StoreConn, SignalControl, ScanConns,
       SignalAllConnected, mirrorVars, resultVars
  <2>2. CASE OpenTtys
    BY <2>2 DEF OpenTtys, SessionInv, MirrorInv, resultVars
  <2>3. ASSUME Do, ~OpenTtys
        PROVE  down \subseteq down' /\ (failed => failed') /\ UNCHANGED outPc
    BY <2>3 DEF Do, AwaitAllConnected, OpenTtysFails, StartCmd, StartCmdFails, Reap, CloseTtys,
       ReadControl, MarkDead, AwaitEOF, Publish, mirrorVars, resultVars
  <2>4. ASSUME NEW i \in Ttys, TakeConn(i)
        PROVE  /\ UNCHANGED <<down, failed>>
               /\ \A j \in OutFds : outPc[j] = "drained" => outPc'[j] = "drained"
    BY <2>4 DEF TakeConn, resultVars, SessionInv, SessionTypeOK
  <2>5. ASSUME NEW i \in OutFds, SendChunk(i) \/ SendEOF(i) \/ SendCut(i)
        PROVE  /\ UNCHANGED <<down, failed>>
               /\ \A j \in OutFds : outPc[j] = "drained" => outPc'[j] = "drained"
    BY <2>5 DEF SendChunk, SendEOF, SendCut, mirrorVars, resultVars, SessionInv, SessionTypeOK
  <2>6. CASE RecvEnds \/ JoinMirror \/ World
    BY <2>6 DEF RecvEnds, JoinMirror, World, CmdWrites, DescendantCloses, CmdExits, ConnDrops,
       mirrorVars, resultVars
  <2> QED BY <1>1, <2>1, <2>2, <2>3, <2>4, <2>5, <2>6 DEF SessionNext, Mirror
<1>2. CASE [ServerNext]_serverVars
  <2>1. /\ down \subseteq down' /\ (failed => failed')
        /\ \A i \in OutFds : outPc[i] = "drained" => outPc'[i] = "drained"
    <3>1. SessionNext \/ UNCHANGED sessionVars
      BY <1>2, ServerStepsSession DEF serverVars
    <3>2. UNCHANGED sessionVars => UNCHANGED <<down, failed, outPc>>
      BY DEF sessionVars
    <3> QED BY <1>1, <3>1, <3>2
  <2>2. \/ UNCHANGED opVars
        \/ Operation
    BY <1>2 DEF serverVars, ServerNext, Websocket, LookUpOp, CheckRunning, CallOnConnect,
       ConnectBadSecret, ConnectBadHandshake, ConnectStream, ConnectStep, Poll, PollLookUp,
       RenderCode, RenderMetadata, RenderErr, Background
  <2>3. Operation => /\ ~registered => ~registered'
                     /\ status \in Final => status' \in Final
                     /\ opPc # "created" => opPc' # "created"
    BY DEF Operation, RunOp, HookStep, SetSuccess, SetFailure, SetErr, DoneOp, Expire, opVars, Final
  <2> QED BY <2>1, <2>2, <2>3 DEF opVars
<1>3. CASE Closes
  BY <1>3 DEF Closes, serverButDown, opVars, mirrorVars, resultVars
<1> QED BY <1>2, <1>3, SystemStepsServer

\* While the client lives the connections that go down are those of streams,
\* and an unbreakable one of a pipe only after the streams have ended.
LEMMA DownFacts ==
  ASSUME SystemInv, SystemNext, clientPc' \notin {"exit", "fatal"}
  PROVE  /\ ClientLives
         /\ \A r \in Requests : r \in down' => r \in down \/ hpc[r] = "upgraded"
         /\ ~Interactive /\ ~dataDone' =>
              \A i \in OutFds \ Breakable : i \in down' => i \in down
<1> USE DEF SystemInv
<1> DEFINE Goal == /\ ClientLives
                   /\ \A r \in Requests : r \in down' => r \in down \/ hpc[r] = "upgraded"
                   /\ ~Interactive /\ ~dataDone' =>
                        \A i \in OutFds \ Breakable : i \in down' => i \in down
<1>1. ASSUME down' = down, clientPc \notin {"exit", "fatal"}
      PROVE  Goal
  BY <1>1 DEF ClientLives
<1>2. ASSUME clientPc' = clientPc
      PROVE  ClientLives /\ clientPc \notin {"exit", "fatal"}
  BY <1>2 DEF ClientLives
<1>3. ASSUME NEW r \in Requests, Dial(r) \/ ServerConnects(r)
      PROVE  Goal
  <2>1. UNCHANGED <<down, clientPc>>
    BY <1>3 DEF Dial, LookUpOp, ServerConnects, CheckRunning, CallOnConnect, ConnectStream,
       ConnectUpgraded, ConnectBadHandshake, ConnectRefused, ConnectStep, StoreConn, SignalControl,
       ScanConns, SignalAllConnected, sessionVars, clientVars
  <2> QED BY <1>1, <1>2, <2>1
<1>4. CASE Refresh \/ ServerRenders
  <2>1. UNCHANGED <<down, clientPc>>
    BY <1>4 DEF Refresh, PollLookUp, ServerRenders, RenderCode, RenderMetadata, RenderErr,
       sessionVars, clientVars
  <2> QED BY <1>1, <1>2, <2>1
<1>5. ASSUME NEW i \in OutFds, SendOutput(i) \/ Receive(i) \/ ReceiveEnd(i)
      PROVE  Goal
  <2>1. UNCHANGED <<down, clientPc>>
    BY <1>5 DEF SendOutput, Behind, Lives, SendChunk, Receive, ReceiveEnd, serverVars, sessionVars
  <2> QED BY <1>1, <1>2, <2>1
<1>6. CASE CommandRuns
  <2>1. UNCHANGED <<down, clientPc>>
    BY <1>6 DEF CommandRuns, Behind, Lives, CmdWrites, DescendantCloses, CmdExits, clientVars
  <2> QED BY <1>1, <1>2, <2>1
<1>7. CASE DialAnswered \/ DialFails \/ Refreshed \/ Exit
  <2>1. down' = down /\ clientPc \notin {"exit", "fatal"}
    BY <1>7 DEF DialAnswered, DialFails, Refreshed, Exit
  <2> QED BY <1>1, <2>1
<1>8. CASE ServerOperates
  <2>1. UNCHANGED clientVars
    BY <1>8 DEF ServerOperates
  <2>2. CASE down' = down
    BY <1>1, <1>2, <2>1, <2>2 DEF clientVars
  <2>3. CASE ReadControl
    <3>1. Control \in Fds
      BY DEF Fds
    <3>2. \A r \in down' : r \in down \/ (r = Control /\ Control \in Requests /\ hpc[r] = "upgraded")
      BY <2>3, <3>1 DEF ReadControl, DialInv
    <3>3. Control \in Requests => Interactive
      BY DialOrder
    <3> QED BY <1>2, <2>1, <3>2, <3>3 DEF clientVars
  <2>4. ReadControl \/ down' = down
    BY <1>8 DEF ServerOperates, Operation, RunOp, HookStep, SetSuccess, SetFailure, SetErr, DoneOp,
       Expire, Do, AwaitAllConnected, OpenTtys, OpenTtysFails, StartCmd, StartCmdFails, Reap,
       CloseTtys, MarkDead, AwaitEOF, Publish, sessionVars
  <2> QED BY <2>2, <2>3, <2>4
<1>9. CASE ServerMirrors
  <2>1. UNCHANGED clientVars
    BY <1>9 DEF ServerMirrors
  <2>2. CASE down' = down
    BY <1>1, <1>2, <2>1, <2>2 DEF clientVars
  <2>3. CASE JoinMirror
    <3>1. Interactive /\ 0 \in OutFds /\ 0 \in Ttys
      BY <2>3 DEF JoinMirror, OutFds, Ttys
    <3>2. used[0] # Nil
      BY <2>3, <3>1 DEF JoinMirror, SessionInv, MirrorInv
    <3>3. down' = down \cup {0} /\ hpc[0] = "upgraded"
      BY <2>3, <3>1, <3>2 DEF JoinMirror, DialInv
    <3> QED BY <1>2, <2>1, <3>1, <3>3 DEF clientVars
  <2>4. JoinMirror \/ down' = down
    BY <1>9 DEF ServerMirrors, Behind, Lives, TakeConn, SendEOF, SendCut, RecvEnds
  <2> QED BY <2>2, <2>3, <2>4
<1>10. ASSUME NEW r \in Requests, ConnBreaks(r)
       PROVE  Goal
  <2>1. /\ r \in Breakable /\ reqFd[r] # Nil /\ down' = down \cup {r}
        /\ UNCHANGED <<clientPc, dataDone>>
    BY <1>10 DEF ConnBreaks, Behind, Lives, ConnDrops
  <2>2. hpc[r] = "upgraded"
    BY <2>1 DEF DialInv
  <2> QED BY <1>2, <2>1, <2>2
<1>11. CASE CloseStreams
  <2>1. /\ dataDone' /\ dialled = LastDial /\ down' = down \cup Ttys
        /\ clientPc \notin {"exit", "fatal"}
    BY <1>11 DEF CloseStreams, ClientLives, LastDial
  <2>2. \A r \in Requests : hpc[r] = "upgraded"
    <3>1. ASSUME NEW r \in Requests PROVE hpc[r] = "upgraded"
      <4>1. PICK k \in 1 .. LastDial : r = Dials[k]
        BY DialOrder
      <4> QED BY <2>1, <4>1, DialOrder DEF DialInv
    <3> QED BY <3>1
  <2> QED BY <2>1, <2>2 DEF ClientLives
<1> QED
  BY <1>3, <1>4, <1>5, <1>6, <1>7, <1>8, <1>9, <1>10, <1>11 DEF SystemNext, Client, Server

\* No dial is refused, so none makes the server panic.
LEMMA ReplyStep ==
  ASSUME SystemInv, SystemNext
  PROVE  ReplyInv'
<1> USE DEF SystemInv
<1>1. ClientLives' => /\ ClientLives
                      /\ \A r \in Requests : r \in down' => r \in down \/ hpc[r] = "upgraded"
  BY DownFacts DEF ClientLives
<1>2. opPc # "created" => opPc' # "created"
  BY Monotone
<1>3. ASSUME UNCHANGED <<hpc, reply, panicked>>
      PROVE  ReplyInv'
  BY <1>1, <1>2, <1>3 DEF ReplyInv
<1>4. /\ hpc \in [Requests -> {"idle", "unknown", "found", "notRunning", "checked", "called",
                            "badSecret", "badHandshake", "upgraded"}]
      /\ reply \in [Requests -> {Nil, 101, 200, 400}]
  BY DEF ServerInv, ServerTypeOK
<1>5. ASSUME NEW r \in Requests, NEW s \in {"found", "checked", "called", "upgraded", "badHandshake"},
             hpc' = [hpc EXCEPT ![r] = s], reply' = [reply EXCEPT ![r] = Answer(s)],
             opPc # "created", ~panicked', ClientLives' => s # "badHandshake",
             hpc[r] \in {"idle", "found", "checked", "called"}, UNCHANGED down
      PROVE  ReplyInv'
  <2>1. /\ hpc'[r] = s /\ reply'[r] = Answer(s)
        /\ \A q \in Requests \ {r} : hpc'[q] = hpc[q] /\ reply'[q] = reply[q]
    BY <1>4, <1>5
  <2>2. ASSUME NEW q \in Requests
        PROVE  reply'[q] = Answer(hpc'[q])
    <3>1. CASE q = r
      BY <2>1, <3>1
    <3>2. CASE q # r
      BY <2>1, <3>2 DEF ReplyInv
    <3> QED BY <3>1, <3>2
  <2>3. ASSUME ClientLives', NEW q \in Requests
        PROVE  /\ hpc'[q] \in {"idle", "found", "checked", "called", "upgraded"}
               /\ q \in down' => hpc'[q] = "upgraded"
    <3>1. /\ hpc[q] \in {"idle", "found", "checked", "called", "upgraded"}
          /\ q \in down => hpc[q] = "upgraded"
      BY <1>1, <2>3 DEF ReplyInv
    <3>2. CASE q = r
      BY <1>5, <2>1, <2>3, <3>1, <3>2
    <3>3. CASE q # r
      BY <1>5, <2>1, <3>1, <3>3
    <3> QED BY <3>2, <3>3
  <2>4. opPc' # "created"
    BY <1>2, <1>5
  <2> QED BY <1>5, <2>2, <2>3, <2>4 DEF ReplyInv
<1>keep. ASSUME NEW r \in Requests, NEW s \in {"found", "checked", "called"},
             hpc' = [hpc EXCEPT ![r] = s], reply' = reply,
             hpc[r] \in {"idle", "found", "checked", "called"},
             opPc # "created", ~panicked', UNCHANGED down
      PROVE  ReplyInv'
  <2>1. Answer(s) = Nil
    BY <1>keep DEF Answer
  <2>2. reply[r] = Nil
    BY <1>keep DEF Answer, ReplyInv
  <2>3. reply' = [reply EXCEPT ![r] = Answer(s)]
    BY <1>4, <1>keep, <2>1, <2>2
  <2> QED BY <1>5, <1>keep, <2>3
<1>6. ASSUME NEW r \in Requests, Dial(r)
      PROVE  ReplyInv'
  <2>1. hpc[r] = "idle" /\ registered /\ opPc # "created"
    BY <1>6, Undialled DEF Dial, LookUpOp, IdKnown
  <2>2. hpc' = [hpc EXCEPT ![r] = "found"] /\ UNCHANGED <<reply, panicked, down>>
    BY <1>6, <2>1 DEF Dial, LookUpOp, sessionVars
  <2>3. ~panicked'
    BY <2>2 DEF ReplyInv
  <2> QED BY <1>keep, <2>1, <2>2, <2>3
<1>7. ASSUME NEW r \in Requests, CheckRunning(r)
      PROVE  ReplyInv'
  <2>1. hpc[r] = "found" /\ opPc # "created"
    BY <1>7 DEF CheckRunning, ReplyInv
  <2>2. status = "Running"
    BY <2>1, Undialled
  <2>3. hpc' = [hpc EXCEPT ![r] = "checked"] /\ UNCHANGED <<reply, panicked, down>>
    BY <1>7, <2>2 DEF CheckRunning, sessionVars
  <2>4. ~panicked'
    BY <2>3 DEF ReplyInv
  <2> QED BY <1>keep, <2>1, <2>3, <2>4
<1>8. ASSUME NEW r \in Requests, CallOnConnect(r)
      PROVE  ReplyInv'
  <2>1. hpc[r] = "checked" /\ opPc # "created"
    BY <1>8 DEF CallOnConnect, ReplyInv
  <2>2. ~readonly
    BY <2>1, Undialled
  <2>3. hpc' = [hpc EXCEPT ![r] = "called"] /\ UNCHANGED <<reply, down>> /\ ~panicked'
    BY <1>8, <2>2 DEF CallOnConnect, sessionVars
  <2> QED BY <1>keep, <2>1, <2>3
<1>9. ASSUME NEW r \in Requests, ConnectStream(r, r)
      PROVE  ReplyInv'
  <2>1. hpc[r] = "called" /\ opPc # "created" /\ ~panicked
    BY <1>9 DEF ConnectStream, ReplyInv
  <2>2. /\ hpc' = [hpc EXCEPT ![r] = "upgraded"] /\ reply' = [reply EXCEPT ![r] = 101]
        /\ UNCHANGED <<panicked, down>>
    BY <1>9 DEF ConnectStream, ConnectUpgraded
  <2>3. Answer("upgraded") = 101
    BY DEF Answer
  <2> QED BY <1>5, <2>1, <2>2, <2>3
<1>10. ASSUME NEW r \in Requests, r \in down, ConnectBadHandshake(r), UNCHANGED clientVars
       PROVE  ReplyInv'
  <2>1. hpc[r] = "called" /\ opPc # "created" /\ ~panicked
    BY <1>10 DEF ConnectBadHandshake, ReplyInv
  <2>2. /\ hpc' = [hpc EXCEPT ![r] = "badHandshake"] /\ reply' = [reply EXCEPT ![r] = 400]
        /\ UNCHANGED <<panicked, down>>
    BY <1>10 DEF ConnectBadHandshake, ConnectRefused
  <2>3. ~ClientLives'
    <3>1. ClientLives => hpc[r] = "upgraded"
      BY <1>10 DEF ReplyInv
    <3> QED BY <1>1, <2>1, <3>1
  <2>4. Answer("badHandshake") = 400
    BY DEF Answer
  <2> QED BY <1>5, <2>1, <2>2, <2>3, <2>4
<1>11. ASSUME NEW r \in Requests, ConnectStep(r)
       PROVE  ReplyInv'
  BY <1>3, <1>11 DEF ConnectStep, handlerVars
<1>12. CASE Refresh \/ ServerRenders \/ ServerOperates \/ ServerMirrors \/ CommandRuns
  <2>1. UNCHANGED <<hpc, reply, panicked>>
    BY <1>12 DEF Refresh, PollLookUp, ServerRenders, RenderCode, RenderMetadata, RenderErr,
       ServerOperates, Operation, RunOp, HookStep, SetSuccess, SetFailure, SetErr, DoneOp, Expire,
       ServerMirrors, CommandRuns, Behind, Lives, handlerVars
  <2> QED BY <1>3, <2>1
<1>13. ASSUME NEW i \in OutFds, SendOutput(i) \/ Receive(i) \/ ReceiveEnd(i)
       PROVE  ReplyInv'
  BY <1>3, <1>13 DEF SendOutput, Behind, Lives, Receive, ReceiveEnd, serverVars, handlerVars
<1>14. ASSUME NEW r \in Requests, ConnBreaks(r)
       PROVE  ReplyInv'
  BY <1>3, <1>14 DEF ConnBreaks, Behind, Lives, handlerVars
<1>15. CASE DialAnswered \/ DialFails \/ Refreshed \/ Exit \/ CloseStreams
  BY <1>3, <1>15 DEF DialAnswered, DialFails, Refreshed, Exit, CloseStreams, serverButDown, handlerVars
<1> QED
  BY <1>6, <1>7, <1>8, <1>9, <1>10, <1>11, <1>12, <1>13, <1>14, <1>15
  DEF SystemNext, Client, Server, ServerConnects

-----------------------------------------------------------------------------
\* Which steps move the client's main goroutine, and which the polls.
LEMMA WhoMoves ==
  ASSUME SystemNext
  PROVE  /\ DialAnswered \/ DialFails \/ Refreshed \/ Exit \/ UNCHANGED clientPc
         /\ Refresh \/ ServerRenders \/ UNCHANGED pollVars
<1>1. ASSUME NEW r \in Requests, Dial(r) \/ ServerConnects(r) \/ ConnBreaks(r)
      PROVE  UNCHANGED <<clientPc, pollVars>>
  BY <1>1 DEF Dial, LookUpOp, ServerConnects, CheckRunning, CallOnConnect, ConnectStream,
     ConnectBadHandshake, ConnectStep, ConnBreaks, Behind, Lives, clientVars
<1>2. CASE ServerOperates
  BY <1>2 DEF ServerOperates, Operation, RunOp, HookStep, SetSuccess, SetFailure, SetErr, DoneOp,
     Expire, clientVars
<1>3. CASE ServerMirrors \/ CommandRuns
  BY <1>3 DEF ServerMirrors, CommandRuns, Behind, Lives, clientVars
<1>4. ASSUME NEW i \in OutFds, SendOutput(i) \/ Receive(i) \/ ReceiveEnd(i)
      PROVE  UNCHANGED <<clientPc, pollVars>>
  BY <1>4 DEF SendOutput, Behind, Lives, Receive, ReceiveEnd, serverVars
<1>5. CASE DialAnswered \/ DialFails \/ Refreshed \/ Exit \/ CloseStreams
  BY <1>5 DEF DialAnswered, DialFails, Refreshed, Exit, CloseStreams, serverButDown
<1>6. CASE Refresh \/ ServerRenders
  BY <1>6 DEF Refresh, ServerRenders, clientVars
<1> QED
  BY <1>1, <1>2, <1>3, <1>4, <1>5, <1>6 DEF SystemNext, Client, Server

\* A poll reads what is true of the operation from then on.
LEMMA PollAnswers ==
  ASSUME SystemInv, SystemNext, NEW p \in Polls
  PROVE  /\ pollPc'[p] = "empty" => ~registered'
         /\ pollPc'[p] \in Read /\ snap'[p].code \in Final => status' \in Final
         /\ snap'[p].err # "" => failed'
<1> USE DEF SystemInv
<1> DEFINE Goal == /\ pollPc'[p] = "empty" => ~registered'
                   /\ pollPc'[p] \in Read /\ snap'[p].code \in Final => status' \in Final
                   /\ snap'[p].err # "" => failed'
<1>1. /\ ~registered => ~registered'
      /\ status \in Final => status' \in Final
      /\ failed => failed'
  BY Monotone
<1>2. /\ pollPc[p] = "empty" => ~registered'
      /\ pollPc[p] \in Read /\ snap[p].code \in Final => status' \in Final
      /\ snap[p].err # "" => failed'
  BY <1>1 DEF Read, AnswerInv
<1>3. /\ pollPc \in PollPlaces /\ snap \in Snapshots
      /\ opErr # "" => failed
  BY DEF ServerInv, ServerTypeOK, OpInv, PollPlaces, Snapshots
<1>4. CASE UNCHANGED pollVars
  BY <1>2, <1>4 DEF Read, pollVars
<1>5. ASSUME NEW q \in Polls, PollLookUp(q)
      PROVE  Goal
  <2>1. /\ pollPc' = [pollPc EXCEPT ![q] = IF registered THEN "code" ELSE "empty"]
        /\ UNCHANGED <<snap, registered>>
    BY <1>5 DEF PollLookUp, opVars
  <2> QED BY <1>2, <1>3, <2>1 DEF Read, PollPlaces
<1>6. ASSUME NEW q \in Polls, RenderCode(q)
      PROVE  Goal
  <2>1. /\ pollPc' = [pollPc EXCEPT ![q] = "metadata"]
        /\ snap' = [snap EXCEPT ![q] = [snap[q] EXCEPT !.code = status]]
        /\ UNCHANGED status
    BY <1>6 DEF RenderCode, opVars
  <2> QED BY <1>2, <1>3, <2>1 DEF Read, PollPlaces, Snapshots
<1>7. ASSUME NEW q \in Polls, RenderMetadata(q)
      PROVE  Goal
  <2>1. /\ pollPc' = [pollPc EXCEPT ![q] = "err"]
        /\ snap' = [snap EXCEPT ![q] = [snap[q] EXCEPT !.return = published]]
    BY <1>7 DEF RenderMetadata
  <2>2. CASE p = q
    <3>1. pollPc[q] = "metadata" /\ UNCHANGED <<registered, failed, status>>
      BY <1>7 DEF RenderMetadata, opVars, sessionVars, resultVars
    <3>2. snap'[p].code = snap[p].code /\ snap'[p].err = snap[p].err /\ pollPc'[p] = "err"
      BY <1>3, <2>1, <2>2 DEF PollPlaces, Snapshots
    <3> QED BY <1>2, <2>2, <3>1, <3>2 DEF Read
  <2>3. CASE p # q
    BY <1>2, <1>3, <2>1, <2>3 DEF PollPlaces, Snapshots
  <2> QED BY <2>2, <2>3
<1>8. ASSUME NEW q \in Polls, RenderErr(q)
      PROVE  Goal
  <2>1. /\ pollPc' = [pollPc EXCEPT ![q] = "answered"]
        /\ snap' = [snap EXCEPT ![q] = [snap[q] EXCEPT !.err = opErr]]
        /\ UNCHANGED failed
    BY <1>8 DEF RenderErr, sessionVars, resultVars
  <2>2. CASE p = q
    <3>1. pollPc[q] = "err"
      BY <1>8 DEF RenderErr
    <3>2. snap'[p].code = snap[p].code /\ snap'[p].err = opErr /\ pollPc'[p] = "answered"
      BY <1>3, <2>1, <2>2 DEF PollPlaces, Snapshots
    <3> QED BY <1>2, <1>3, <2>1, <2>2, <3>1, <3>2 DEF Read
  <2>3. CASE p # q
    BY <1>2, <1>3, <2>1, <2>3 DEF PollPlaces, Snapshots
  <2> QED BY <2>2, <2>3
<1> QED
  BY <1>4, <1>5, <1>6, <1>7, <1>8, WhoMoves DEF Refresh, ServerRenders

\* The client goes by what its refresh has read.
LEMMA AnswerStep ==
  ASSUME SystemInv, SystemNext
  PROVE  AnswerInv'
<1> USE DEF SystemInv
<1>1. status \in Final => status' \in Final
  BY Monotone
<1>2. clientPc' \in {"flush", "exit"} => status' \in Final
  <2>1. CASE UNCHANGED clientPc
    BY <1>1, <2>1 DEF AnswerInv
  <2>2. CASE DialAnswered \/ DialFails \/ Exit
    BY <1>1, <2>2 DEF DialAnswered, DialFails, Exit, AnswerInv
  <2>3. CASE Refreshed
    BY <1>1, <2>3, RefreshFacts DEF Refreshed, Read, AnswerInv
  <2> QED BY <2>1, <2>2, <2>3, WhoMoves
<1> QED BY <1>2, PollAnswers DEF Read, AnswerInv

\* Nor does it give up without a reason.
LEMMA FatalStep ==
  ASSUME SystemInv, SystemNext
  PROVE  FatalHasReason'
<1> USE DEF SystemInv
<1> SUFFICES ASSUME Breakable = {}, clientPc' = "fatal"
             PROVE  failed' \/ ~registered'
  BY DEF FatalHasReason
<1>1. failed \/ ~registered => failed' \/ ~registered'
  BY Monotone
<1>2. CASE UNCHANGED clientPc
  BY <1>1, <1>2 DEF FatalHasReason
<1>3. CASE DialAnswered
  <2>1. Dialled \in Requests
    <3>1. dialled + 1 \in 1 .. LastDial
      BY <1>3, DialOrder DEF DialAnswered, DialInv, ClientTypeOK
    <3> QED BY <3>1, DialOrder DEF Dialled
  <2>2. reply[Dialled] = 101
    BY <1>3, <2>1, UpgradeFacts DEF DialAnswered, ClientLives
  <2> QED BY <1>3, <2>2 DEF DialAnswered
<1>4. CASE DialFails
  BY <1>4 DEF DialFails
<1>5. CASE Refreshed
  BY <1>1, <1>5, RefreshFacts DEF Refreshed, AnswerInv
<1>6. CASE Exit
  BY <1>6 DEF Exit
<1> QED BY <1>2, <1>3, <1>4, <1>5, <1>6, WhoMoves

\* A stream goroutine that has ended has read all there was.
LEMMA StreamStep ==
  ASSUME SystemInv, SystemNext
  PROVE  StreamInv'
<1> USE DEF SystemInv
<1>1. /\ down \subseteq down'
      /\ \A i \in OutFds : outPc[i] = "drained" => outPc'[i] = "drained"
  BY Monotone
<1>2. ClientLives' =>
        /\ ClientLives
        /\ ~Interactive /\ ~dataDone' => \A i \in OutFds \ Breakable : i \in down' => i \in down
  BY DownFacts DEF ClientLives
<1>3. /\ wire \in [OutFds -> 0 .. WireCap]
      /\ recv \in [OutFds -> {"none", "copy", "ended"}]
      /\ dataDone \in BOOLEAN /\ WireCap \in Nat
  BY ClientAssumption DEF ClientTypeOK
\* The streams that had ended before the step.
<1>4. ASSUME NEW i \in OutFds \ Breakable, recv[i] = "ended"
      PROVE  outPc'[i] = "drained" \/ (Interactive /\ i \in down')
  BY <1>1, <1>4 DEF StreamInv
<1>5. ASSUME dataDone' = dataDone, clientPc' = "exit" => clientPc = "exit",
             dialled' = dialled, recv' = recv,
             \A i \in OutFds \ Breakable : recv[i] = "ended" => wire'[i] = 0
      PROVE  StreamInv'
  BY <1>2, <1>4, <1>5 DEF StreamInv, LastDial
<1>6. ASSUME UNCHANGED clientVars
      PROVE  StreamInv'
  BY <1>5, <1>6 DEF clientVars, StreamInv
<1>7. ASSUME NEW r \in Requests, Dial(r) \/ ServerConnects(r)
      PROVE  StreamInv'
  BY <1>6, <1>7 DEF Dial, ServerConnects
<1>8. CASE Refresh \/ ServerRenders \/ ServerOperates \/ ServerMirrors \/ CommandRuns
  BY <1>6, <1>8 DEF Refresh, ServerRenders, ServerOperates, ServerMirrors, CommandRuns
<1>9. CASE DialFails \/ Refreshed
  <2>1. Refreshed => clientPc' # "exit"
    BY RefreshFacts DEF Refreshed
  <2> QED BY <1>5, <1>9, <2>1 DEF DialFails, Refreshed, StreamInv
<1>10. CASE DialAnswered
  <2>1. dialled < LastDial /\ ~dataDone
    BY <1>10, DialOrder DEF DialAnswered, DialInv, StreamInv, ClientTypeOK
  <2>2. UNCHANGED <<wire, dataDone>> /\ clientPc' # "exit"
        /\ \A i \in OutFds : recv'[i] = "ended" => recv[i] = "ended"
    BY <1>3, <1>10 DEF DialAnswered
  <2> QED BY <1>2, <1>4, <2>1, <2>2 DEF StreamInv
<1>11. CASE Exit
  BY <1>2, <1>4, <1>11 DEF Exit, Flushed, StreamInv, LastDial, ClientLives
<1>12. CASE CloseStreams
  BY <1>2, <1>4, <1>12 DEF CloseStreams, AllEnded, StreamInv, LastDial, ClientLives
<1>13. ASSUME NEW i \in OutFds, Receive(i)
       PROVE  StreamInv'
  BY <1>3, <1>5, <1>13 DEF Receive, StreamInv
<1>14. ASSUME NEW i \in OutFds, ReceiveEnd(i)
       PROVE  StreamInv'
  <2>1. /\ ClientLives /\ recv[i] = "copy" /\ wire[i] = 0
        /\ outPc[i] = "drained" \/ i \in down
        /\ UNCHANGED <<serverVars, clientPc, dialled, wire, dataDone>>
        /\ \A j \in OutFds : recv'[j] = IF j = i THEN "ended" ELSE recv[j]
    BY <1>3, <1>14 DEF ReceiveEnd, EndArrives
  <2>2. ~dataDone /\ clientPc # "exit"
    BY <2>1 DEF StreamInv, ClientLives
  <2>3. UNCHANGED <<outPc, down>>
    BY <2>1 DEF serverVars, sessionVars, mirrorVars
  <2>4. i \notin Breakable => outPc'[i] = "drained" \/ (Interactive /\ i \in down')
    BY <2>1, <2>2, <2>3 DEF StreamInv
  <2> QED BY <1>2, <1>4, <2>1, <2>2, <2>4 DEF StreamInv
<1>15. ASSUME NEW i \in OutFds, SendOutput(i)
       PROVE  StreamInv'
  <2>1. /\ outPc[i] = "copy" /\ used[i] \notin down
        /\ \A j \in OutFds : j # i => wire'[j] = wire[j]
        /\ UNCHANGED <<clientPc, dialled, recv, dataDone>>
    BY <1>3, <1>15 DEF SendOutput, Behind, Lives, SendChunk
  <2>2. used[i] = i
    BY <2>1, DialOrder DEF SessionInv, MirrorInv, DialInv
  <2>3. i \notin Breakable => recv[i] # "ended"
    BY <2>1, <2>2 DEF StreamInv
  <2> QED BY <1>5, <2>1, <2>3 DEF StreamInv
<1>16. ASSUME NEW r \in Requests, ConnBreaks(r)
       PROVE  StreamInv'
  BY <1>3, <1>5, <1>16 DEF ConnBreaks, StreamInv
<1> QED
  BY <1>7, <1>8, <1>9, <1>10, <1>11, <1>12, <1>13, <1>14, <1>15, <1>16
  DEF SystemNext, Client, Server

-----------------------------------------------------------------------------
\* The invariant holds at the start and every step of the system keeps it.
LEMMA SystemInitInv == SystemInit => SystemInv
<1> SUFFICES ASSUME SystemInit PROVE SystemInv
  OBVIOUS
<1>1. ServerInit /\ SessionInit
  BY DEF SystemInit, ServerInit
<1>2. SessionInv /\ ChildInv /\ ServerInv
  BY <1>1, InitInv, ServerInitInv DEF SessionInit, ChildInv, Finishing
<1>3. ClientTypeOK
  <2>1. 0 \in 0 .. WireCap /\ 0 \in 0 .. LastDial
    BY ClientAssumption, DialOrder
  <2>2. wire \in [OutFds -> 0 .. WireCap] /\ recv \in [OutFds -> {"none", "copy", "ended"}]
    BY <2>1 DEF SystemInit
  <2> QED BY <2>1, <2>2 DEF SystemInit, ClientTypeOK, ClientPcs, LastDial
<1>4. DialInv
  <2>1. /\ \A r \in Requests : hpc[r] = "idle" /\ reqFd[r] = Nil /\ reqPc[r] = "idle"
        /\ \A fd \in Fds : conns[fd] = Nil
        /\ \A i \in Ttys : used[i] = Nil
    BY <1>1 DEF ServerInit, SessionInit
  <2>2. clientPc = "dial" /\ dialled = 0 /\ LastDial \in Nat /\ LastDial > 0
    BY DialOrder DEF SystemInit
  <2>3. \A k \in 1 .. LastDial :
          /\ k <= dialled => hpc[Dials[k]] = "upgraded"
          /\ k > dialled + 1 => hpc[Dials[k]] = "idle"
    BY <2>1, <2>2, DialOrder
  <2> QED BY <2>1, <2>2, <2>3 DEF DialInv
<1>5. ReplyInv
  <2>1. Answer("idle") = Nil
    BY DEF Answer
  <2> QED BY <1>1, <2>1 DEF ServerInit, SessionInit, ReplyInv
<1>6. StreamInv
  BY <1>1 DEF SystemInit, SessionInit, StreamInv
<1>7. AnswerInv
  <2>1. \A p \in Polls : snap[p].code = Nil /\ snap[p].err = "" /\ pollPc[p] = "idle"
    BY <1>1 DEF ServerInit, NoSnapshot
  <2> QED BY <2>1 DEF SystemInit, AnswerInv, Read
<1>8. FatalHasReason
  BY DEF SystemInit, FatalHasReason
<1> QED BY <1>2, <1>3, <1>4, <1>5, <1>6, <1>7, <1>8 DEF SystemInv

\* Each part by its own lemma; the last case is the stuttering step.
LEMMA SystemNextInv == SystemInv /\ [SystemNext]_systemVars => SystemInv'
<1>1. ASSUME SystemInv, SystemNext PROVE SystemInv'
  <2>1. SessionInv' /\ ChildInv' /\ ServerInv'
    BY <1>1, BaseStep
  <2>2. ClientTypeOK' /\ DialInv'
    BY <1>1, ClientTypeStep, DialStep
  <2>3. ReplyInv' /\ StreamInv'
    BY <1>1, ReplyStep, StreamStep
  <2>4. AnswerInv' /\ FatalHasReason'
    BY <1>1, AnswerStep, FatalStep
  <2> QED BY <2>1, <2>2, <2>3, <2>4 DEF SystemInv
<1>2. ASSUME SystemInv, UNCHANGED systemVars PROVE SystemInv'
  <2>1. UNCHANGED serverVars /\ UNCHANGED clientVars
    BY <1>2 DEF systemVars
  <2>2. ServerInv'
    BY <1>2, <2>1, ServerNextInv DEF SystemInv
  <2>3. SessionInv'
    <3>1. UNCHANGED sessionVars
      BY <2>1 DEF serverVars
    <3> QED BY <1>2, <3>1, NextInv DEF SystemInv
  <2>4. UNCHANGED <<hpc, reply, reqFd, reqPc, conns, used, down, outPc, pipe, doPc, childVars, resultVars,
                    opVars, pollVars, panicked>>
    BY <2>1 DEF serverVars, sessionVars, childVars, resultVars, handlerVars
  <2>5. ChildInv'
    BY <1>2, <2>4 DEF SystemInv, ChildInv, childVars, resultVars, ReturnCode
  <2>6. ClientTypeOK'
    BY <1>2, <2>1 DEF SystemInv, ClientTypeOK, clientVars
  <2>7. DialInv'
    BY <1>2, <2>1, <2>4 DEF SystemInv, DialInv, LastDial, clientVars
  <2>8. ReplyInv'
    BY <1>2, <2>1, <2>4 DEF SystemInv, ReplyInv, ClientLives, clientVars, opVars
  <2>9. StreamInv' /\ AnswerInv' /\ FatalHasReason'
    BY <1>2, <2>1, <2>4
    DEF SystemInv, StreamInv, AnswerInv, Read, FatalHasReason, ClientLives, LastDial, clientVars, opVars,
        pollVars, resultVars
  <2> QED BY <2>2, <2>3, <2>5, <2>6, <2>7, <2>8, <2>9 DEF SystemInv
<1> QED BY <1>1, <1>2

(* What holds of both programs and of what is between them, in every         *)
(* reachable state of one vsock-client exec (ExecInstance, Wait) against     *)
(* vsock-server.                                                             *)
THEOREM SystemInvariant == SystemSpec => []SystemInv
BY SystemInitInv, SystemNextInv, PTL DEF SystemSpec

(* The types of the client's state: a connection never holds more than it    *)
(* has room for, the client dials no stream beyond the last, and it closes   *)
(* its connections only when every receiver has ended.                       *)
THEOREM ClientTypes == SystemSpec => []ClientTypeOK
<1>1. SystemInv => ClientTypeOK
  BY DEF SystemInv
<1> QED BY <1>1, SystemInvariant, PTL

(* Because ExecInstance dials a stream that Do waits for last, Do is still   *)
(* waiting at each dial: the operation is in the map, running and not        *)
(* read-only, so the dial is answered 101 and the nil hook is never called.  *)
THEOREM DialsAreInTime == SystemSpec => []DialsInTime
<1>1. SystemInv => DialsInTime
  BY UpgradeFacts DEF SystemInv, ReplyInv, DialsInTime
<1> QED BY <1>1, SystemInvariant, PTL

\* A dial that is past its store has left a connection in its place.
Stored ==
  \A r \in Requests : reqFd[r] # Nil /\ reqPc[r] # "store" => conns[reqFd[r]] # Nil

(* Connect stores before it does anything else, and nothing takes a          *)
(* connection out of the map.                                                *)
LEMMA StoredStep ==
  ASSUME SessionInv, Stored, [SessionNext]_sessionVars \/ Closes
  PROVE  Stored'
<1> USE SessionAssumption DEF SessionInv, SessionTypeOK, Stored
<1>1. ASSUME UNCHANGED <<conns, reqPc, reqFd>>
      PROVE  Stored'
  BY <1>1
<1>2. ASSUME NEW r \in Requests, Connect(r)
      PROVE  Stored'
  <2>1. CASE ConnectRefused(r)
    BY <2>1 DEF ConnectRefused
  <2>2. ASSUME NEW fd \in Fds, ConnectUpgraded(r, fd)
        PROVE  Stored'
    BY <2>2 DEF ConnectUpgraded
  <2>3. CASE StoreConn(r)
    <3>1. reqFd[r] \in Fds /\ UNCHANGED reqFd /\ conns' = [conns EXCEPT ![reqFd[r]] = r]
          /\ reqPc' = [reqPc EXCEPT ![r] = AfterStore(reqFd[r])]
      BY <2>3 DEF StoreConn, ConnectInv
    <3>2. \A fd \in Fds : conns[fd] # Nil \/ fd = reqFd[r] => conns'[fd] # Nil
      BY <3>1
    <3>3. \A q \in Requests \ {r} : reqPc'[q] = reqPc[q]
      BY <3>1
    <3> QED BY <3>1, <3>2, <3>3
  <2>4. CASE SignalControl(r) \/ ScanConns(r) \/ SignalAllConnected(r)
    BY <2>4 DEF SignalControl, ScanConns, SignalAllConnected
  <2> QED BY <1>2, <2>1, <2>2, <2>3, <2>4 DEF Connect
<1>3. CASE Do
  BY <1>1, <1>3, DialFrame
<1>4. CASE Mirror
  BY <1>1, <1>4, DialFrame DEF Mirror, TakeConn, SendEOF, SendCut, connectVars
<1>5. CASE World
  BY <1>1, <1>5, DialFrame
<1>6. CASE UNCHANGED sessionVars \/ Closes
  BY <1>1, <1>6 DEF sessionVars, Closes, serverButDown, connectVars
<1> QED BY <1>2, <1>3, <1>4, <1>5, <1>6 DEF SessionNext

(* finisher sends on controlExit, which nobody receives, only while the      *)
(* control connection, which ExecInstance dialled first and the server has   *)
(* answered 101, is still to be stored by its goroutine (exec.go:74, 283):   *)
(* with this client nothing else makes Do hang there.                        *)
THEOREM HangNeedsStoreRace == SystemSpec => OnlyStoreRaceHangs
<1>1. SystemInit => Stored
  <2>1. SystemInit => reqFd = [r \in Requests |-> Nil]
    BY DEF SystemInit, ServerInit, SessionInit
  <2> QED BY <2>1 DEF Stored
<1>2. [SystemNext]_systemVars => [SessionNext]_sessionVars \/ Closes
  BY SystemStepsServer, ServerStepsSession DEF systemVars, serverVars
<1>3. SystemInv /\ Stored /\ [SystemNext]_systemVars => Stored'
  BY <1>2, StoredStep DEF SystemInv
<1>4. ASSUME SystemInv, Stored, [SystemNext]_systemVars,
             doPc' = "controlExit", doPc # "controlExit"
      PROVE  reqPc[Control] = "store"
  <2>1. ReadControl
    <3>1. Do => ReadControl
      BY <1>4 DEF Do, AwaitAllConnected, OpenTtys, OpenTtysFails, StartCmd, StartCmdFails, Reap,
         CloseTtys, MarkDead, AwaitEOF, Publish
    <3>2. ASSUME NEW r \in Requests PROVE ~Connect(r)
      BY <1>4 DEF Connect, ConnectRefused, ConnectUpgraded, StoreConn, SignalControl, ScanConns,
         SignalAllConnected
    <3>3. ~Mirror
      BY <1>4 DEF Mirror, TakeConn, SendChunk, SendEOF, SendCut, RecvEnds, JoinMirror
    <3>4. ~World
      BY <1>4 DEF World, CmdWrites, DescendantCloses, CmdExits, ConnDrops
    <3>5. ~(UNCHANGED sessionVars) /\ ~Closes
      BY <1>4 DEF sessionVars, Closes, serverButDown
    <3> QED BY <1>2, <1>4, <3>1, <3>2, <3>3, <3>4, <3>5 DEF SessionNext
  <2>2. Interactive /\ conns[Control] = Nil /\ doPc # "wait"
    BY <1>4, <2>1 DEF ReadControl
  <2>3. Control \in Requests
    BY <2>2, ClientAssumption DEF Dials, ToSet
  <2>4. hpc[Control] = "upgraded"
    BY <1>4, <2>2, <2>3, Undialled
  <2>5. reqFd[Control] = Control /\ Control # Nil
    BY <1>4, <2>3, <2>4, SessionAssumption DEF SystemInv, DialInv
  <2> QED BY <1>4, <2>2, <2>3, <2>5 DEF Stored
<1> QED BY <1>1, <1>3, <1>4, SystemInvariant, PTL DEF SystemSpec, OnlyStoreRaceHangs

(* A client that exits normally has read, of every stream whose connection   *)
(* cannot break, all that the command wrote on it: execHandler waits for     *)
(* DataDone, and the end of a stream comes after its chunks.                 *)
THEOREM OutputIsRead == SystemSpec => []ExitHasAllOutput
<1>1. SystemInv => ExitHasAllOutput
  <2> SUFFICES ASSUME SystemInv, clientPc = "exit", NEW i \in OutFds \ Breakable
               PROVE  wire[i] = 0 /\ (~Interactive => pipe[i] = 0 /\ i \notin holders)
    BY DEF ExitHasAllOutput
  <2>1. recv[i] = "ended"
    BY DEF SystemInv, StreamInv
  <2>2. wire[i] = 0 /\ (~Interactive => outPc[i] = "drained")
    BY <2>1 DEF SystemInv, StreamInv
  <2> QED BY <2>2 DEF SystemInv, SessionInv, OutputInv
<1> QED BY <1>1, SystemInvariant, PTL

(* A client exits normally only after its refresh has read a final status,   *)
(* which the server writes after the return code or for a failure.           *)
THEOREM ExitsWithAnswer == SystemSpec => []ExitIsAnswered
<1>1. SystemInv => ExitIsAnswered
  <2> SUFFICES ASSUME SystemInv, clientPc = "exit"
               PROVE  status \in Final /\ (published # Nil \/ failed)
    BY DEF ExitIsAnswered
  <2>1. status \in Final
    BY DEF SystemInv, AnswerInv
  <2> QED BY <2>1 DEF SystemInv, ServerInv, ServerTypeOK, OpInv, Final
<1> QED BY <1>1, SystemInvariant, PTL

(* On connections that do not break, a client gives up only on a failed      *)
(* session or on an operation that the map has forgotten.                    *)
THEOREM FatalIsReasoned == SystemSpec => []FatalHasReason
<1>1. SystemInv => FatalHasReason
  BY DEF SystemInv
<1> QED BY <1>1, SystemInvariant, PTL

-----------------------------------------------------------------------------
(* What the server and its session promise, kept with the client there.      *)

(* The client of ExecInstance gets what ExecContract promises: its command   *)
(* starts with all streams attached, and the one code it is given is that of *)
(* its ending, stored when its output is sent, although the client closes    *)
(* connections and exits when it likes (exec.go:102-347).                    *)
THEOREM SystemImplementsContract == SystemSpec => Implements
<1>1. SystemInit => Contract!Init
  BY ContractInit DEF SystemInit, ServerInit
<1>2. SystemInv /\ SystemInv' /\ [SystemNext]_systemVars => [Contract!Next]_(Contract!contractVars)
  <2> SUFFICES ASSUME SystemInv, SystemInv', [SystemNext]_systemVars
               PROVE  [Contract!Next]_(Contract!contractVars)
    OBVIOUS
  <2>1. SessionInv /\ ChildInv /\ SessionInv' /\ ChildInv'
    BY DEF SystemInv
  <2>2. CASE [SessionNext]_sessionVars
    BY <2>1, <2>2, ContractStep, HiddenStep DEF sessionVars
  <2>3. CASE Closes
    BY <2>1, <2>3, HiddenStep DEF Closes, serverButDown, connectVars, childVars, resultVars
  <2>4. [SessionNext]_sessionVars \/ Closes
    BY SystemStepsServer, ServerStepsSession DEF systemVars, serverVars
  <2> QED
    BY <2>2, <2>3, <2>4
<1> QED
  BY <1>1, <1>2, SystemInvariant, PTL DEF SystemSpec, Implements, Contract!ContractSpec

(* The client's refresh never takes a success for complete that is not, and  *)
(* never loses an operation that still runs (Render, done).                  *)
THEOREM SystemKeepsAnswers == SystemSpec => [](SuccessIsComplete /\ KeptUntilFinal)
<1>1. SystemInv => SuccessIsComplete /\ KeptUntilFinal
  BY CompleteWhenSuccess, KeptByServer DEF SystemInv
<1> QED
  BY <1>1, SystemInvariant, PTL

=============================================================================
