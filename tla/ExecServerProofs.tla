-------------------------- MODULE ExecServerProofs --------------------------
(***************************************************************************)
(* Safety of the operation around a session, for any number of websocket   *)
(* requests and of polls.  Every step of the server is a step of the       *)
(* session or leaves it alone, so what was proved of ExecSession holds     *)
(* here.  The invariant ServerInv adds                                     *)
(*                                                                         *)
(*   OpInv    what the place of the operation's goroutine says of the      *)
(*            status, the flag, the map and the session;                   *)
(*   SnapInv  what a poll that has read one field may still find in the    *)
(*            next: the status becomes final after the return code is      *)
(*            stored, and stays.                                           *)
(***************************************************************************)
EXTENDS ExecServer, ExecSessionContractProofs

OpInv ==
  /\ opPc = "created" => status = "Pending" /\ doPc = "wait"
  /\ opPc = "hook" => status = "Running"
  /\ opPc \in {"setErr", "done", "over"} => doPc = "returned"
  /\ opPc = "setErr" => failed /\ status = "Failure"
  /\ opPc \in {"done", "over"} => status = IF failed THEN "Failure" ELSE "Success"
  /\ readonly <=> opPc = "over"
  /\ ~registered => opPc = "over"
  /\ opErr # "" => opPc \in {"done", "over"} /\ failed
  /\ doPc = "returned" /\ ~failed => published # Nil

SnapInv ==
  \A p \in Polls :
    /\ pollPc[p] # "idle" => opPc # "created"
    /\ snap[p].code = "Success" => status = "Success"
    /\ pollPc[p] \in {"idle", "code", "empty"} => snap[p].code = Nil
    /\ pollPc[p] \in {"err", "answered"} /\ snap[p].code = "Success" =>
          published # Nil /\ snap[p].return = published
    /\ pollPc[p] = "answered" /\ snap[p].code = "Success" => snap[p].err = ""

ServerInv == ServerTypeOK /\ OpInv /\ SnapInv

-----------------------------------------------------------------------------
(* Every step of the server is one of the session or leaves it alone.        *)
LEMMA ServerStepsSession == ServerNext => [SessionNext]_sessionVars
<1>1. ASSUME Operation PROVE [SessionNext]_sessionVars
  BY <1>1 DEF Operation, RunOp, HookStep, SetSuccess, SetFailure, SetErr, DoneOp,
     Expire, SessionNext
<1>2. ASSUME NEW r \in Requests, Websocket(r) PROVE [SessionNext]_sessionVars
  BY <1>2 DEF Websocket, LookUpOp, CheckRunning, CallOnConnect, ConnectBadSecret,
     ConnectBadHandshake, ConnectStream, ConnectStep, SessionNext, Connect
<1>3. ASSUME NEW p \in Polls, Poll(p) PROVE [SessionNext]_sessionVars
  BY <1>3 DEF Poll, PollLookUp, RenderCode, RenderMetadata, RenderErr
<1>4. ASSUME Background PROVE [SessionNext]_sessionVars
  BY <1>4 DEF Background, SessionNext
<1> QED BY <1>1, <1>2, <1>3, <1>4 DEF ServerNext

(* What the other goroutines of the session leave to Do.                     *)
LEMMA OnlyDoReturns ==
  ASSUME (\E r \in Requests : Connect(r)) \/ Mirror \/ World
  PROVE  UNCHANGED <<doPc, failed, published>>
BY DEF Connect, ConnectRefused, ConnectUpgraded, StoreConn, SignalControl, ScanConns,
   SignalAllConnected, Mirror, TakeConn, SendChunk, SendEOF, SendCut, RecvEnds,
   JoinMirror, World, CmdWrites, DescendantCloses, CmdExits, ConnDrops, resultVars

(* Do has not returned before a step of it; when it returns without an error *)
(* it has stored a return code.                                              *)
LEMMA DoReturns ==
  ASSUME SessionInv, ChildInv, Do
  PROVE  /\ doPc # "returned"
         /\ doPc' # "returned" => UNCHANGED published
         /\ doPc' = "returned" /\ ~failed' => published' # Nil
<1>1. CASE Publish
  <2>1. cmdResult \in {-1} \cup ExitCodes
    BY <1>1, ReturnCodeRange DEF Publish, ChildInv, Finishing, SessionInv, ResultInv
  <2>2. cmdResult # Nil
    BY <2>1, SessionAssumption DEF SessionAssumption
  <2> QED BY <1>1, <2>2 DEF Publish
<1>2. CASE OpenTtysFails
  BY <1>2 DEF OpenTtysFails
<1>3. ASSUME Do, ~Publish, ~OpenTtysFails
      PROVE  doPc # "returned" /\ doPc' # "returned" /\ UNCHANGED published
  BY <1>3 DEF Do, AwaitAllConnected, OpenTtys, StartCmd, StartCmdFails, Reap,
     CloseTtys, ReadControl, MarkDead, AwaitEOF, resultVars
<1> QED BY <1>1, <1>2, <1>3

-----------------------------------------------------------------------------
(* Steps of the websocket handlers and of the goroutines behind the session  *)
(* leave the operation and the polls alone.                                  *)
LEMMA ElsewhereInv ==
  ASSUME ServerInv,
         UNCHANGED <<opVars, pollVars, doPc, failed, published>>,
         hpc' \in [Requests -> {"idle", "unknown", "found", "notRunning", "checked",
                                "called", "badSecret", "badHandshake", "upgraded"}],
         reply' \in [Requests -> {Nil, 101, 200, 400}],
         panicked' \in BOOLEAN
  PROVE  ServerInv'
<1>1. ServerTypeOK'
  BY DEF ServerInv, ServerTypeOK, opVars, pollVars
<1>2. OpInv'
  BY DEF ServerInv, OpInv, opVars
<1>3. SnapInv'
  <2>1. UNCHANGED <<opPc, status, pollPc, snap, published>>
    BY DEF opVars, pollVars
  <2> QED BY <2>1 DEF ServerInv, SnapInv
<1> QED BY <1>1, <1>2, <1>3 DEF ServerInv

(* A handler moves itself and answers; of the session it only runs           *)
(* Connect.                                                                  *)
LEMMA WebsocketInv ==
  ASSUME ServerInv, NEW r \in Requests, Websocket(r)
  PROVE  ServerInv'
<1>1. /\ hpc \in [Requests -> {"idle", "unknown", "found", "notRunning", "checked",
                             "called", "badSecret", "badHandshake", "upgraded"}]
      /\ reply \in [Requests -> {Nil, 101, 200, 400}]
      /\ panicked \in BOOLEAN /\ readonly \in BOOLEAN
  BY DEF ServerInv, ServerTypeOK
<1>2. /\ \/ hpc' = hpc
         \/ \E s \in {"found", "unknown", "checked", "notRunning", "called",
                      "badSecret", "badHandshake", "upgraded"} :
               hpc' = [hpc EXCEPT ![r] = s]
      /\ reply' = reply \/ \E n \in {101, 200, 400} : reply' = [reply EXCEPT ![r] = n]
      /\ panicked' \in {panicked, readonly}
      /\ UNCHANGED <<opVars, pollVars>>
  BY DEF Websocket, LookUpOp, CheckRunning, CallOnConnect, ConnectBadSecret,
     ConnectBadHandshake, ConnectStream, ConnectStep, handlerVars
<1>3. hpc' \in [Requests -> {"idle", "unknown", "found", "notRunning", "checked",
                            "called", "badSecret", "badHandshake", "upgraded"}]
  BY <1>1, <1>2
<1>4. reply' \in [Requests -> {Nil, 101, 200, 400}]
  BY <1>1, <1>2
<1>5. UNCHANGED <<doPc, failed, published>>
  <2>1. Connect(r) \/ UNCHANGED sessionVars
    BY DEF Websocket, LookUpOp, CheckRunning, CallOnConnect, ConnectBadSecret,
       ConnectBadHandshake, ConnectStream, ConnectStep, Connect
  <2> QED BY <2>1, OnlyDoReturns DEF sessionVars
<1> QED BY <1>1, <1>2, <1>3, <1>4, <1>5, ElsewhereInv

(* The mirrors and the world outside touch neither the operation nor the     *)
(* polls.                                                                    *)
LEMMA BackgroundInv ==
  ASSUME ServerInv, Background
  PROVE  ServerInv'
BY ElsewhereInv, OnlyDoReturns
   DEF Background, ServerInv, ServerTypeOK, opVars, pollVars, handlerVars

(* The operation's goroutine: the hook runs while the status is Running, and *)
(* what comes after it happens once it has returned.                         *)
LEMMA OperationInv ==
  ASSUME SessionInv, ChildInv, ServerInv, Operation
  PROVE  ServerInv'
<1> USE DEF ServerInv, handlerVars, pollVars
<1>1. CASE RunOp
  <2>1. ServerTypeOK' /\ OpInv'
    BY <1>1 DEF RunOp, ServerTypeOK, OpInv, sessionVars
  <2>2. SnapInv'
    BY <1>1 DEF RunOp, SnapInv
  <2> QED BY <2>1, <2>2
<1>2. CASE HookStep
  <2>1. opPc = "hook" /\ UNCHANGED <<opVars, handlerVars, pollVars, panicked>>
    BY <1>2 DEF HookStep
  <2>2. doPc' = "returned" /\ ~failed' => published' # Nil
    BY <1>2, DoReturns DEF HookStep
  <2>3. ServerTypeOK'
    BY <2>1 DEF ServerTypeOK, opVars
  <2>4. SnapInv'
    <3>1. \A p \in Polls : snap[p].code # "Success"
      BY <2>1 DEF OpInv, SnapInv
    <3> QED BY <2>1, <3>1 DEF SnapInv, opVars
  <2>5. OpInv'
    BY <2>1, <2>2 DEF OpInv, opVars
  <2> QED BY <2>3, <2>4, <2>5
<1>3. CASE SetSuccess
  <2>1. ServerTypeOK'
    BY <1>3 DEF SetSuccess, HookReturned, ServerTypeOK, OpInv, Final, sessionVars
  <2>2. OpInv'
    BY <1>3 DEF SetSuccess, HookReturned, OpInv, Final, sessionVars
  <2>3. SnapInv'
    BY <1>3 DEF SetSuccess, HookReturned, OpInv, SnapInv, Final, sessionVars
  <2> QED BY <2>1, <2>2, <2>3
<1>4. CASE SetFailure
  <2>1. ServerTypeOK'
    BY <1>4 DEF SetFailure, HookReturned, ServerTypeOK, OpInv, Final, sessionVars
  <2>2. OpInv'
    BY <1>4 DEF SetFailure, HookReturned, OpInv, Final, sessionVars
  <2>3. SnapInv'
    BY <1>4 DEF SetFailure, HookReturned, OpInv, SnapInv, Final, sessionVars
  <2> QED BY <2>1, <2>2, <2>3
<1>5. CASE SetErr
  <2>1. ServerTypeOK'
    BY <1>5 DEF SetErr, ServerTypeOK, OpInv, Final, sessionVars
  <2>2. OpInv'
    BY <1>5 DEF SetErr, OpInv, Final, sessionVars
  <2>3. SnapInv'
    BY <1>5 DEF SetErr, OpInv, SnapInv, Final, sessionVars
  <2> QED BY <2>1, <2>2, <2>3
<1>6. CASE DoneOp
  <2>1. ServerTypeOK'
    BY <1>6 DEF DoneOp, ServerTypeOK, OpInv, Final, sessionVars
  <2>2. OpInv'
    BY <1>6 DEF DoneOp, OpInv, Final, sessionVars
  <2>3. SnapInv'
    BY <1>6 DEF DoneOp, OpInv, SnapInv, Final, sessionVars
  <2> QED BY <2>1, <2>2, <2>3
<1>7. CASE Expire
  <2>1. ServerTypeOK'
    BY <1>7 DEF Expire, ExpiryArmed, ServerTypeOK, OpInv, Final, sessionVars
  <2>2. OpInv'
    BY <1>7 DEF Expire, ExpiryArmed, OpInv, Final, sessionVars
  <2>3. SnapInv'
    BY <1>7 DEF Expire, ExpiryArmed, OpInv, SnapInv, Final, sessionVars
  <2> QED BY <2>1, <2>2, <2>3
<1> QED BY <1>1, <1>2, <1>3, <1>4, <1>5, <1>6, <1>7 DEF Operation

Snapshots ==
  [Polls -> [code : {Nil, "Running"} \cup Final, return : Codes \cup {Nil},
             err : {"", SmartErrorText(DoError)}]]

PollPlaces == [Polls -> {"idle", "empty", "code", "metadata", "err", "answered"}]

(* Of the types, a poll touches those of its place and its snapshot.         *)
LEMMA PollTypes ==
  ASSUME ServerTypeOK, UNCHANGED <<registered, status, readonly, opErr, opPc, hpc, reply, panicked>>,
         pollPc' \in PollPlaces, snap' \in Snapshots
  PROVE  ServerTypeOK'
<1>1. panicked' \in BOOLEAN /\ registered' \in BOOLEAN /\ readonly' \in BOOLEAN
  BY DEF ServerTypeOK
<1> QED BY <1>1 DEF ServerTypeOK, PollPlaces, Snapshots

(* A poll reads the fields one after the other while the operation goes on.  *)
LEMMA PollInv ==
  ASSUME SessionInv, ServerInv, NEW q \in Polls, Poll(q)
  PROVE  ServerInv'
<1> USE DEF ServerInv
<1>1. UNCHANGED <<registered, status, readonly, opErr, opPc, hpc, reply, panicked, doPc, failed, published>>
  BY DEF Poll, PollLookUp, RenderCode, RenderMetadata, RenderErr, handlerVars, opVars, sessionVars
<1>2. OpInv'
  BY <1>1 DEF OpInv
<1>3. /\ snap \in Snapshots
      /\ pollPc \in PollPlaces
  BY DEF ServerTypeOK, Snapshots, PollPlaces
<1>4. CASE PollLookUp(q)
  <2>1. SnapInv'
    BY <1>1, <1>3, <1>4 DEF PollLookUp, IdKnown, SnapInv, PollPlaces
  <2>2. pollPc' \in PollPlaces
    BY <1>3, <1>4 DEF PollLookUp, PollPlaces
  <2>3. ServerTypeOK'
    <3>1. snap' \in Snapshots
      BY <1>3, <1>4 DEF PollLookUp
    <3> QED BY <1>1, <2>2, <3>1, PollTypes
  <2> QED BY <1>2, <2>1, <2>3
<1>5. CASE RenderCode(q)
  <2>1. status \in {"Running"} \cup Final
    BY <1>5 DEF RenderCode, ServerTypeOK, SnapInv, OpInv, Final
  <2>2. snap' = [snap EXCEPT ![q] = [snap[q] EXCEPT !.code = status]]
    BY <1>5 DEF RenderCode
  <2>3. snap' \in Snapshots
    BY <1>3, <2>1, <2>2 DEF Snapshots
  <2>4. ServerTypeOK'
    <3>1. pollPc' \in PollPlaces
      BY <1>3, <1>5 DEF RenderCode, PollPlaces
    <3> QED BY <1>1, <2>3, <3>1, PollTypes
  <2>5. SnapInv'
    <3>1. /\ pollPc[q] = "code" /\ pollPc'[q] = "metadata" /\ snap'[q].code = status
          /\ \A p \in Polls : p # q => pollPc'[p] = pollPc[p] /\ snap'[p] = snap[p]
      <4>1. pollPc[q] = "code" /\ pollPc' = [pollPc EXCEPT ![q] = "metadata"]
        BY <1>5 DEF RenderCode
      <4> QED BY <1>3, <2>2, <4>1 DEF PollPlaces, Snapshots
    <3> QED BY <1>1, <3>1 DEF SnapInv
  <2> QED BY <1>2, <2>4, <2>5
<1>6. CASE RenderMetadata(q)
  <2>1. published \in Codes \cup {Nil}
    BY DEF SessionInv, SessionTypeOK
  <2>2. snap' = [snap EXCEPT ![q] = [snap[q] EXCEPT !.return = published]]
    BY <1>6 DEF RenderMetadata
  <2>3. snap' \in Snapshots
    BY <1>3, <2>1, <2>2 DEF Snapshots
  <2>4. ServerTypeOK'
    <3>1. pollPc' \in PollPlaces
      BY <1>3, <1>6 DEF RenderMetadata, PollPlaces
    <3> QED BY <1>1, <2>3, <3>1, PollTypes
  <2>5. snap[q].code = "Success" => published # Nil
    BY DEF SnapInv, OpInv, ServerTypeOK, Final
  <2>6. SnapInv'
    <3>1. /\ pollPc[q] = "metadata" /\ pollPc'[q] = "err"
          /\ snap'[q].code = snap[q].code /\ snap'[q].return = published
          /\ \A p \in Polls : p # q => pollPc'[p] = pollPc[p] /\ snap'[p] = snap[p]
      BY <1>3, <1>6, <2>2 DEF RenderMetadata, PollPlaces, Snapshots
    <3> QED BY <1>1, <2>5, <3>1 DEF SnapInv
  <2> QED BY <1>2, <2>4, <2>6
<1>7. CASE RenderErr(q)
  <2>1. opErr \in {"", SmartErrorText(DoError)}
    BY DEF ServerTypeOK
  <2>2. snap' = [snap EXCEPT ![q] = [snap[q] EXCEPT !.err = opErr]]
    BY <1>7 DEF RenderErr
  <2>3. snap' \in Snapshots
    BY <1>3, <2>1, <2>2 DEF Snapshots
  <2>4. ServerTypeOK'
    <3>1. pollPc' \in PollPlaces
      BY <1>3, <1>7 DEF RenderErr, PollPlaces
    <3> QED BY <1>1, <2>3, <3>1, PollTypes
  <2>5. snap[q].code = "Success" => opErr = ""
    BY DEF SnapInv, OpInv, ServerTypeOK
  <2>6. SnapInv'
    <3>1. /\ pollPc[q] = "err" /\ pollPc'[q] = "answered"
          /\ snap'[q].code = snap[q].code /\ snap'[q].return = snap[q].return
          /\ snap'[q].err = opErr
          /\ \A p \in Polls : p # q => pollPc'[p] = pollPc[p] /\ snap'[p] = snap[p]
      <4>1. pollPc[q] = "err" /\ pollPc' = [pollPc EXCEPT ![q] = "answered"]
        BY <1>7 DEF RenderErr
      <4> QED BY <1>3, <2>2, <4>1 DEF PollPlaces, Snapshots
    <3> QED BY <1>1, <2>5, <3>1 DEF SnapInv
  <2> QED BY <1>2, <2>4, <2>6
<1> QED BY <1>4, <1>5, <1>6, <1>7 DEF Poll

(* The operation starts pending, in the map, with no poll under way.         *)
LEMMA ServerInitInv == ServerInit => ServerInv
<1> SUFFICES ASSUME ServerInit PROVE ServerInv
  OBVIOUS
<1>1. ServerTypeOK
  <2>1. snap \in Snapshots
    BY DEF ServerInit, NoSnapshot, Snapshots
  <2> QED BY <2>1 DEF ServerInit, ServerTypeOK, Snapshots
<1>2. OpInv
  BY DEF ServerInit, SessionInit, OpInv
<1>3. SnapInv
  <2>1. \A p \in Polls : pollPc[p] = "idle" /\ snap[p].code = Nil
    BY DEF ServerInit, NoSnapshot
  <2>2. Nil # "Success"
    BY ServerAssumption DEF ServerAssumption
  <2> QED BY <2>1, <2>2 DEF SnapInv
<1> QED BY <1>1, <1>2, <1>3 DEF ServerInv

(* The invariant is kept by every step of the server and by a step of        *)
(* none.                                                                     *)
LEMMA ServerNextInv ==
  SessionInv /\ ChildInv /\ ServerInv /\ [ServerNext]_serverVars => ServerInv'
<1> SUFFICES ASSUME SessionInv, ChildInv, ServerInv, [ServerNext]_serverVars
             PROVE  ServerInv'
  OBVIOUS
<1>1. CASE UNCHANGED serverVars
  BY <1>1, ElsewhereInv DEF serverVars, sessionVars, resultVars, handlerVars, ServerInv, ServerTypeOK
<1>2. CASE ServerNext
  BY <1>2, OperationInv, WebsocketInv, PollInv, BackgroundInv DEF ServerNext
<1> QED BY <1>1, <1>2

-----------------------------------------------------------------------------
(* The server is a faithful host of the session: its handlers, its operation *)
(* and its map make no step that a session alone could not make              *)
(* (main.go, lxd_operations.go).                                             *)
THEOREM ServerImplementsSession == ServerSpec => SessionSpec
<1>1. ServerInit => SessionInit
  BY DEF ServerInit
<1>2. [ServerNext]_serverVars => [SessionNext]_sessionVars
  BY ServerStepsSession DEF serverVars
<1> QED BY <1>1, <1>2, PTL DEF ServerSpec, SessionSpec

(* So a client of the whole server has what ExecContract promises.           *)
THEOREM ServerImplementsContract == ServerSpec => Implements
BY ServerImplementsSession, SessionImplementsContract, PTL

(* What the operation's goroutine, its status and the answer to a poll say   *)
(* about the session, in every reachable state.                              *)
THEOREM ServerInvariant == ServerSpec => []ServerInv
BY ServerImplementsSession, SessionInvariant, ChildInvariant, ServerInitInv, ServerNextInv,
   PTL DEF ServerSpec

(* The types of the operation, its handlers and its polls: no poll ever sees *)
(* a pending operation.                                                      *)
THEOREM ServerTypes == ServerSpec => []ServerTypeOK
<1>1. ServerInv => ServerTypeOK
  BY DEF ServerInv
<1> QED BY <1>1, ServerInvariant, PTL

\* Only the timer takes an operation out of the map, and only done() arms it.
LEMMA KeptByServer == ServerInv => KeptUntilFinal
BY DEF ServerInv, OpInv, KeptUntilFinal, Final

(* The map keeps an operation until it is final and its hook has returned    *)
(* (the timer of done()).                                                    *)
THEOREM KeptWhileAlive == ServerSpec => []KeptUntilFinal
BY KeptByServer, ServerInvariant, PTL

(* UpdateMetadata accepts every return code that Do stores.                  *)
THEOREM CodeIsAccepted == ServerSpec => []ReturnCodeAccepted
<1>1. ServerInv => ReturnCodeAccepted
  BY DEF ServerInv, ServerTypeOK, OpInv, ReturnCodeAccepted
<1> QED BY <1>1, ServerInvariant, PTL

\* What the fields of a poll's answer say about the session by now.
LEMMA CompleteWhenSuccess == SessionInv /\ ChildInv /\ ServerInv => SuccessIsComplete
<1> SUFFICES ASSUME SessionInv, ChildInv, ServerInv, NEW p \in Polls,
                    pollPc[p] = "answered", snap[p].code = "Success"
             PROVE  /\ snap[p].return = CodeOfEnding /\ snap[p].err = ""
                    /\ \A i \in OutFds : ~Interactive /\ used[i] \notin down =>
                          pipe[i] = 0 /\ i \notin holders
  BY DEF SuccessIsComplete
<1>1. snap[p].return = published /\ published # Nil /\ snap[p].err = ""
  BY DEF ServerInv, SnapInv
<1>2. published = CodeOfEnding
  BY <1>1 DEF ChildInv, CodeOfEnding
<1> QED BY <1>1, <1>2, PublishedIsSent DEF NoOutputLeftBehind

(* A poll that reports a success reports the return code, no error and comes *)
(* after all output, whatever number of polls is under way.                  *)
THEOREM SuccessComplete == ServerSpec => []SuccessIsComplete
BY CompleteWhenSuccess, ServerImplementsSession, SessionInvariant, ChildInvariant,
   ServerInvariant, PTL

=============================================================================
