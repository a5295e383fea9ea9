-------------------------- MODULE ExecSessionProofs --------------------------
(***************************************************************************)
(* Safety of an exec session for every set of requests, every capacity of  *)
(* the pipes and both kinds of session.  The inductive invariant SessionInv *)
(* is the type invariant and four groups of facts about it:                *)
(*                                                                         *)
(*   ConnectInv    where a Connect goroutine is tells what it has stored;  *)
(*   WakeupInv     a wake-up exists only when every stream is connected,   *)
(*                 and none is lost;                                       *)
(*   MirrorInv     which mirrors exist at each place of Do, and what each  *)
(*                 has taken; the WaitGroup counts the unfinished ones;    *)
(*   OutputInv     a finished mirror of a pipe left nothing behind.        *)
(*                                                                         *)
(* SenderInv, kept beside it, counts the goroutines that are through with  *)
(* the channel that Do waits on.                                           *)
(***************************************************************************)
EXTENDS ExecSession, TLAPS

(* A goroutine past the upgrade has its stream, past the store its entry.  *)
ConnectInv ==
  \A r \in Requests :
     /\ reqPc[r] \in {"store", "control", "scan", "signal"} => reqFd[r] \in Fds
     /\ reqPc[r] \in {"scan", "signal"} => reqFd[r] \in Ttys /\ conns[reqFd[r]] # Nil

WakeupInv ==
  /\ \/ doPc # "wait"
     \/ allConnected = 1
     \/ \E r \in Requests : reqPc[r] = "signal"
     => StreamsConnected
  /\ NoLostWakeup

Opened == {"start", "reap", "closeTtys", "readControl", "controlExit",
           "markDead", "waitEOF", "publish"}

\* What wgEOF counts: the mirror of the pty, or those of stdout and stderr.
Pending(i) == IF outPc[i] \in {"born", "copy"} THEN 1 ELSE 0
Unfinished ==
  IF Interactive THEN IF inPc \in {"born", "copy", "ended"} THEN 1 ELSE 0
                 ELSE Pending(1) + Pending(2)

MirrorInv ==
  /\ doPc \in {"wait", "open"} => inPc = "none" /\ \A i \in OutFds : outPc[i] = "none"
  /\ doPc \in Opened \/ published # Nil => \A i \in OutFds : outPc[i] # "none"
  /\ \A i \in OutFds : outPc[i] \in {"copy", "drained", "cut"} => used[i] # Nil
  /\ Interactive => /\ outPc[0] = "none" <=> inPc = "none"
                    /\ outPc[0] = "born" <=> inPc = "born"
                    /\ inPc = "joined" => outPc[0] \in {"drained", "cut"}
  /\ wgEOF = Unfinished

ResultInv ==
  /\ child = "exited" => outcome \in Outcomes
  /\ published # Nil => doPc = "returned"
  /\ doPc = "publish" \/ published # Nil => MirrorsDone

OutputInv ==
  ~Interactive =>
    /\ doPc = "start" => OutFds \subseteq ttyOpen
    /\ \A i \in OutFds :
         /\ outPc[i] = "drained" => pipe[i] = 0 /\ i \notin holders \cup ttyOpen
         /\ outPc[i] = "cut" => used[i] \in down

SessionInv ==
  /\ SessionTypeOK
  /\ ConnectInv
  /\ WakeupInv
  /\ MirrorInv
  /\ ResultInv
  /\ OutputInv

-----------------------------------------------------------------------------
(* The steps of the proofs below are those of SessionNext; a step of a group *)
(* that the invariant's part does not read is one case of its own.           *)

(* Arithmetic of the WaitGroup: it never exceeds the mirrors there are, and   *)
(* an unfinished one is counted.                                              *)
LEMMA UnfinishedBound ==
  ASSUME SessionTypeOK
  PROVE  /\ Unfinished \in 0 .. 2
         /\ Interactive => Unfinished \in 0 .. 1
         /\ ~Interactive => \A i \in OutFds : Pending(i) = 1 => Unfinished >= 1
BY SessionAssumption DEF SessionTypeOK, Unfinished, Pending, OutFds

(* The goroutines of Connect keep the types.                                 *)
LEMMA ConnectTypes ==
  ASSUME SessionInv, NEW r \in Requests, Connect(r)
  PROVE  SessionTypeOK'
<1> USE SessionAssumption
       DEF SessionInv, SessionTypeOK, ReqPcs, DoPcs, connectVars, mirrorVars,
           childVars, resultVars, Codes
<1>1. CASE ConnectRefused(r)
  BY <1>1 DEF ConnectRefused
<1>2. ASSUME NEW fd \in Fds, ConnectUpgraded(r, fd)
      PROVE  SessionTypeOK'
  BY <1>2 DEF ConnectUpgraded
<1>3. CASE StoreConn(r)
  BY <1>3 DEF StoreConn, AfterStore, ConnectInv
<1>4. CASE SignalControl(r)
  BY <1>4 DEF SignalControl
<1>5. CASE ScanConns(r)
  BY <1>5 DEF ScanConns
<1>6. CASE SignalAllConnected(r)
  BY <1>6 DEF SignalAllConnected
<1> QED
  BY <1>1, <1>2, <1>3, <1>4, <1>5, <1>6 DEF Connect

(* So does each place of Do.                                                 *)
LEMMA DoTypes ==
  ASSUME SessionInv, Do
  PROVE  SessionTypeOK'
<1> USE SessionAssumption
       DEF SessionInv, SessionTypeOK, ReqPcs, DoPcs, connectVars, mirrorVars,
           childVars, resultVars, Codes
<1>1. CASE AwaitAllConnected
  BY <1>1 DEF AwaitAllConnected
<1>2. CASE OpenTtysFails
  BY <1>2 DEF OpenTtysFails, Ttys
<1>3. CASE OpenTtys
  <2>1. wgEOF = 0
    BY <1>3 DEF OpenTtys, MirrorInv, Unfinished, Pending, OutFds
  <2> QED
    BY <1>3, <2>1 DEF OpenTtys, MirrorsAdded
<1>4. CASE StartCmd
  BY <1>4 DEF StartCmd
<1>5. CASE StartCmdFails
  BY <1>5 DEF StartCmdFails
<1>6. CASE Reap
  <2>1. ReturnCode(outcome) \in {-1} \cup ExitCodes
    BY <1>6 DEF Reap, ResultInv, ReturnCode, Outcomes
  <2> QED
    BY <1>6, <2>1 DEF Reap
<1>7. CASE CloseTtys
  BY <1>7 DEF CloseTtys, TtysLeftOpen
<1>8. CASE ReadControl
  <2>1. Control \in Fds
    BY DEF Fds
  <2> QED
    BY <1>8, <2>1 DEF ReadControl
<1>9. CASE MarkDead
  BY <1>9 DEF MarkDead
<1>10. CASE AwaitEOF
  BY <1>10 DEF AwaitEOF
<1>11. CASE Publish
  BY <1>11 DEF Publish
<1> QED
  BY <1>1, <1>2, <1>3, <1>4, <1>5, <1>6, <1>7, <1>8, <1>9, <1>10, <1>11 DEF Do

(* So do the mirrors.                                                        *)
LEMMA MirrorTypes ==
  ASSUME SessionInv, Mirror
  PROVE  SessionTypeOK'
<1> USE SessionAssumption
       DEF SessionInv, SessionTypeOK, ReqPcs, DoPcs, connectVars, mirrorVars,
           childVars, resultVars, Codes
<1>1. ASSUME NEW i \in Ttys, TakeConn(i)
      PROVE  SessionTypeOK'
  BY <1>1 DEF TakeConn, Fds
<1>2. ASSUME NEW i \in OutFds, SendChunk(i)
      PROVE  SessionTypeOK'
  BY <1>2 DEF SendChunk
<1>3. ASSUME NEW i \in OutFds, SendEOF(i)
      PROVE  SessionTypeOK'
  <2>1. wgEOF - DoneNow \in 0 .. 2
    BY <1>3, UnfinishedBound DEF SendEOF, DoneNow, MirrorInv, Pending
  <2> QED
    BY <1>3, <2>1 DEF SendEOF
<1>4. ASSUME NEW i \in OutFds, SendCut(i)
      PROVE  SessionTypeOK'
  <2>1. wgEOF - DoneNow \in 0 .. 2
    BY <1>4, UnfinishedBound DEF SendCut, DoneNow, MirrorInv, Pending
  <2> QED
    BY <1>4, <2>1 DEF SendCut
<1>5. CASE RecvEnds
  BY <1>5 DEF RecvEnds
<1>6. CASE JoinMirror
  <2>1. wgEOF = 1
    BY <1>6 DEF JoinMirror, MirrorInv, Unfinished
  <2>2. used[0] \in Requests
    BY <1>6 DEF JoinMirror, MirrorInv, OutFds, Ttys
  <2> QED
    BY <1>6, <2>1, <2>2 DEF JoinMirror
<1> QED
  BY <1>1, <1>2, <1>3, <1>4, <1>5, <1>6 DEF Mirror

(* So do the command, its descendants and the network.                       *)
LEMMA WorldTypes ==
  ASSUME SessionInv, World
  PROVE  SessionTypeOK'
<1> USE SessionAssumption
       DEF SessionInv, SessionTypeOK, ReqPcs, DoPcs, connectVars, mirrorVars,
           childVars, resultVars, Codes
<1>1. ASSUME NEW i \in OutFds, CmdWrites(i)
      PROVE  SessionTypeOK'
  BY <1>1 DEF CmdWrites
<1>2. ASSUME NEW i \in OutFds, DescendantCloses(i)
      PROVE  SessionTypeOK'
  BY <1>2 DEF DescendantCloses
<1>3. ASSUME NEW o \in Outcomes, CmdExits(o)
      PROVE  SessionTypeOK'
  BY <1>3 DEF CmdExits
<1>4. ASSUME NEW r \in Requests, ConnDrops(r)
      PROVE  SessionTypeOK'
  BY <1>4 DEF ConnDrops
<1> QED
  BY <1>1, <1>2, <1>3, <1>4 DEF World

(* Connect is the only writer of what ConnectInv reads; an entry of conns is *)
(* replaced and never removed.                                               *)
LEMMA ConnectInvStep ==
  ASSUME SessionInv, SessionNext
  PROVE  ConnectInv'
<1> USE SessionAssumption
       DEF SessionInv, SessionTypeOK, ConnectInv, connectVars
<1>1. ASSUME NEW r \in Requests, ConnectRefused(r)
      PROVE  ConnectInv'
  BY <1>1 DEF ConnectRefused
<1>2. ASSUME NEW r \in Requests, NEW fd \in Fds, ConnectUpgraded(r, fd)
      PROVE  ConnectInv'
  BY <1>2 DEF ConnectUpgraded
<1>3. ASSUME NEW r \in Requests, StoreConn(r)
      PROVE  ConnectInv'
  BY <1>3 DEF StoreConn, AfterStore, Fds
<1>4. ASSUME NEW r \in Requests, SignalControl(r)
      PROVE  ConnectInv'
  BY <1>4 DEF SignalControl
<1>5. ASSUME NEW r \in Requests, ScanConns(r)
      PROVE  ConnectInv'
  BY <1>5 DEF ScanConns
<1>6. ASSUME NEW r \in Requests, SignalAllConnected(r)
      PROVE  ConnectInv'
  BY <1>6 DEF SignalAllConnected
<1>7. CASE UNCHANGED <<conns, reqPc, reqFd>>
  BY <1>7
<1>8. ASSUME Do \/ Mirror \/ World
      PROVE  UNCHANGED <<conns, reqPc, reqFd>>
  BY <1>8 DEF Do, AwaitAllConnected, OpenTtysFails, OpenTtys, StartCmd,
     StartCmdFails, Reap, CloseTtys, ReadControl, MarkDead, AwaitEOF, Publish,
     Mirror, TakeConn, SendChunk, SendEOF, SendCut, RecvEnds, JoinMirror,
     World, CmdWrites, DescendantCloses, CmdExits, ConnDrops
<1> QED
  BY <1>1, <1>2, <1>3, <1>4, <1>5, <1>6, <1>7, <1>8 DEF SessionNext, Connect

(* A wake-up is made by a scan that saw every stream, and is only consumed.  *)
LEMMA WakeupStep ==
  ASSUME SessionInv, SessionNext
  PROVE  WakeupInv'
<1> USE SessionAssumption
       DEF SessionInv, SessionTypeOK, ConnectInv, WakeupInv, NoLostWakeup,
           StreamsConnected, connectVars
<1>1. ASSUME NEW r \in Requests, ConnectRefused(r)
      PROVE  WakeupInv'
  BY <1>1 DEF ConnectRefused
<1>2. ASSUME NEW r \in Requests, NEW fd \in Fds, ConnectUpgraded(r, fd)
      PROVE  WakeupInv'
  BY <1>2 DEF ConnectUpgraded
<1>3. ASSUME NEW r \in Requests, StoreConn(r)
      PROVE  WakeupInv'
  <2>1. \A i \in Ttys : conns[i] # Nil => conns'[i] # Nil
    BY <1>3 DEF StoreConn, Fds
  <2>2. \A s \in Requests : reqPc'[s] = "signal" => reqPc[s] = "signal"
    BY <1>3 DEF StoreConn, AfterStore
  <2>3. CASE reqFd[r] = Control
    <3>1. \A i \in Ttys : conns'[i] = conns[i]
      BY <1>3, <2>3 DEF StoreConn, Control, Ttys
    <3>2. \A s \in Requests : reqPc[s] \in {"scan", "signal"} => reqPc'[s] = reqPc[s]
      BY <1>3 DEF StoreConn
    <3> QED
      BY <1>3, <2>1, <2>2, <3>1, <3>2 DEF StoreConn
  <2>4. CASE reqFd[r] # Control
    <3>1. reqPc'[r] = "scan"
      BY <1>3, <2>4 DEF StoreConn, AfterStore
    <3> QED
      BY <1>3, <2>1, <2>2, <3>1 DEF StoreConn
  <2> QED
    BY <2>3, <2>4
<1>4. ASSUME NEW r \in Requests, SignalControl(r)
      PROVE  WakeupInv'
  BY <1>4 DEF SignalControl
<1>5. ASSUME NEW r \in Requests, ScanConns(r)
      PROVE  WakeupInv'
  BY <1>5 DEF ScanConns
<1>6. ASSUME NEW r \in Requests, SignalAllConnected(r)
      PROVE  WakeupInv'
  BY <1>6 DEF SignalAllConnected
<1>7. CASE AwaitAllConnected
  BY <1>7 DEF AwaitAllConnected
<1>8. ASSUME UNCHANGED connectVars, doPc = "wait" <=> doPc' = "wait"
      PROVE  WakeupInv'
  BY <1>8
<1>9. ASSUME Do, ~AwaitAllConnected
      PROVE  UNCHANGED connectVars /\ (doPc = "wait" <=> doPc' = "wait")
  BY <1>9 DEF Do, OpenTtysFails, OpenTtys, StartCmd, StartCmdFails, Reap,
     CloseTtys, ReadControl, MarkDead, AwaitEOF, Publish
<1>10. ASSUME Mirror \/ World
       PROVE  UNCHANGED connectVars /\ (doPc = "wait" <=> doPc' = "wait")
  BY <1>10 DEF Mirror, TakeConn, SendChunk, SendEOF, SendCut, RecvEnds,
     JoinMirror, World, CmdWrites, DescendantCloses, CmdExits, ConnDrops
<1> QED
  BY <1>1, <1>2, <1>3, <1>4, <1>5, <1>6, <1>7, <1>8, <1>9, <1>10
  DEF SessionNext, Connect

(* Only OpenTtys makes mirrors, and every Done of the WaitGroup belongs to    *)
(* one of them.                                                              *)
LEMMA MirrorStep ==
  ASSUME SessionInv, SessionNext
  PROVE  MirrorInv'
<1> USE SessionAssumption
       DEF SessionInv, SessionTypeOK, MirrorInv, Opened, OutFds, mirrorVars
<1>1. ASSUME UNCHANGED <<mirrorVars, wgEOF, doPc, published>>
      PROVE  MirrorInv'
  BY <1>1 DEF Unfinished, Pending
<1>2. ASSUME \E r \in Requests : Connect(r)
      PROVE  MirrorInv'
  BY <1>1, <1>2 DEF Connect, ConnectRefused, ConnectUpgraded, StoreConn,
     SignalControl, ScanConns, SignalAllConnected, resultVars
<1>3. CASE World
  BY <1>1, <1>3 DEF World, CmdWrites, DescendantCloses, CmdExits, ConnDrops,
     resultVars
<1>4. CASE AwaitAllConnected
  BY <1>4 DEF AwaitAllConnected, resultVars, ResultInv, Unfinished, Pending
<1>5. CASE OpenTtysFails
  BY <1>5 DEF OpenTtysFails, ResultInv, Unfinished, Pending
<1>6. CASE OpenTtys
  <2>1. wgEOF = 0
    BY <1>6 DEF OpenTtys, Unfinished, Pending
  <2> QED
    BY <1>6, <2>1 DEF OpenTtys, MirrorsAdded, Unfinished, Pending, resultVars
<1>7. ASSUME Do, ~AwaitAllConnected, ~OpenTtysFails, ~OpenTtys
      PROVE  MirrorInv'
  <2>1. UNCHANGED <<mirrorVars, wgEOF>>
    BY <1>7 DEF Do, StartCmd, StartCmdFails, Reap, CloseTtys, ReadControl,
       MarkDead, AwaitEOF, Publish
  <2>2. doPc \in Opened /\ doPc' \in Opened \cup {"returned"}
    BY <1>7 DEF Do, StartCmd, StartCmdFails, Reap, CloseTtys, ReadControl,
       MarkDead, AwaitEOF, Publish
  <2> QED
    BY <2>1, <2>2 DEF Unfinished, Pending
<1>8. ASSUME NEW i \in Ttys, TakeConn(i)
      PROVE  MirrorInv'
  <2>1. conns[i] # Nil
    BY <1>8 DEF TakeConn, WakeupInv, StreamsConnected, Ttys
  <2> QED
    BY <1>8, <2>1 DEF TakeConn, Ttys, Unfinished, Pending, resultVars
<1>9. ASSUME NEW i \in OutFds, SendChunk(i)
      PROVE  MirrorInv'
  BY <1>1, <1>9 DEF SendChunk, resultVars
<1>10. ASSUME NEW i \in OutFds, SendEOF(i) \/ SendCut(i)
       PROVE  MirrorInv'
  BY <1>10 DEF SendEOF, SendCut, DoneNow, Unfinished, Pending, resultVars
<1>11. CASE RecvEnds
  BY <1>11 DEF RecvEnds, Unfinished, Pending, resultVars
<1>12. CASE JoinMirror
  BY <1>12 DEF JoinMirror, Unfinished, Pending, resultVars
<1> QED
  BY <1>2, <1>3, <1>4, <1>5, <1>6, <1>7, <1>8, <1>9, <1>10, <1>11, <1>12
  DEF SessionNext, Mirror

(* A WaitGroup that Do has waited for stays at zero.                         *)
LEMMA ResultStep ==
  ASSUME SessionInv, SessionNext
  PROVE  ResultInv'
<1> USE SessionAssumption
       DEF SessionInv, SessionTypeOK, ResultInv, MirrorsDone, childVars, resultVars
<1>1. ASSUME UNCHANGED <<childVars, published, doPc, wgEOF>>
      PROVE  ResultInv'
  BY <1>1
<1>2. ASSUME \E r \in Requests : Connect(r)
      PROVE  ResultInv'
  BY <1>1, <1>2 DEF Connect, ConnectRefused, ConnectUpgraded, StoreConn,
     SignalControl, ScanConns, SignalAllConnected
<1>3. CASE Do
  BY <1>3 DEF Do, AwaitAllConnected, OpenTtysFails, OpenTtys, StartCmd,
     StartCmdFails, Reap, CloseTtys, ReadControl, MarkDead, AwaitEOF, Publish
<1>4. ASSUME NEW i \in OutFds, SendEOF(i) \/ SendCut(i)
      PROVE  ResultInv'
  <2>1. DoneNow = 0 \/ wgEOF # 0
    BY <1>4 DEF SendEOF, SendCut, DoneNow, MirrorInv, Unfinished, Pending, OutFds
  <2> QED
    BY <1>4, <2>1 DEF SendEOF, SendCut, DoneNow
<1>5. CASE JoinMirror
  BY <1>5 DEF JoinMirror, MirrorInv, Unfinished
<1>6. ASSUME Mirror, ~JoinMirror, ~ \E i \in OutFds : SendEOF(i) \/ SendCut(i)
      PROVE  ResultInv'
  BY <1>1, <1>6 DEF Mirror, TakeConn, SendChunk, RecvEnds
<1>7. CASE World
  BY <1>7 DEF World, CmdWrites, DescendantCloses, CmdExits, ConnDrops
<1> QED
  BY <1>2, <1>3, <1>4, <1>5, <1>6, <1>7 DEF SessionNext, Mirror

(* A pipe that was read to its end has no writer, so it stays empty; a        *)
(* connection that failed stays down.                                        *)
LEMMA OutputStep ==
  ASSUME SessionInv, SessionNext
  PROVE  OutputInv'
<1> USE SessionAssumption
       DEF SessionInv, SessionTypeOK, OutputInv, Opened, mirrorVars, childVars
<1>1. ASSUME UNCHANGED <<outPc, used, holders, pipe, ttyOpen>>,
             down \subseteq down', doPc' = "start" => doPc = "start"
      PROVE  OutputInv'
  BY <1>1
<1>2. ASSUME \E r \in Requests : Connect(r)
      PROVE  OutputInv'
  BY <1>1, <1>2 DEF Connect, ConnectRefused, ConnectUpgraded, StoreConn,
     SignalControl, ScanConns, SignalAllConnected
<1>3. CASE OpenTtysFails
  BY <1>3 DEF OpenTtysFails, MirrorInv
<1>4. CASE OpenTtys
  BY <1>4 DEF OpenTtys, OutFds, Ttys
<1>5. CASE StartCmd
  BY <1>5 DEF StartCmd
<1>6. CASE CloseTtys
  BY <1>6 DEF CloseTtys, TtysLeftOpen
<1>7. ASSUME Do, ~OpenTtysFails, ~OpenTtys, ~StartCmd, ~CloseTtys
      PROVE  OutputInv'
  BY <1>1, <1>7 DEF Do, AwaitAllConnected, StartCmdFails, Reap, ReadControl,
     MarkDead, AwaitEOF, Publish
<1>8. ASSUME NEW i \in Ttys, TakeConn(i)
      PROVE  OutputInv'
  BY <1>8 DEF TakeConn
<1>9. ASSUME NEW i \in OutFds, SendChunk(i) \/ SendEOF(i) \/ SendCut(i)
      PROVE  OutputInv'
  BY <1>9 DEF SendChunk, SendEOF, SendCut, AtEOF, PtyClosed
<1>10. CASE RecvEnds
  BY <1>10 DEF RecvEnds, OutFds
<1>11. CASE JoinMirror
  BY <1>11 DEF JoinMirror
<1>12. CASE World
  BY <1>12 DEF World, CmdWrites, DescendantCloses, CmdExits, ConnDrops
<1> QED
  BY <1>2, <1>3, <1>4, <1>5, <1>6, <1>7, <1>8, <1>9, <1>10, <1>11, <1>12
  DEF SessionNext, Mirror

-----------------------------------------------------------------------------
(* The invariant holds before any request and before Do has run.             *)
LEMMA InitInv == SessionInit => SessionInv
<1> SUFFICES ASSUME SessionInit
             PROVE  SessionInv
  OBVIOUS
<1> USE SessionAssumption DEF SessionInit
<1>1. SessionTypeOK
  <2>1. pipe \in [OutFds -> 0 .. PipeCap]
    BY DEF SessionAssumption
  <2>2. used \in [Ttys -> Requests \cup {Nil}] /\ conns \in [Fds -> Requests \cup {Nil}]
    OBVIOUS
  <2>3. reqPc \in [Requests -> ReqPcs] /\ reqFd \in [Requests -> Fds \cup {Nil}]
    BY DEF ReqPcs
  <2>4. outPc \in [OutFds -> {"none", "born", "copy", "drained", "cut"}]
    OBVIOUS
  <2>5. doPc \in DoPcs /\ wgEOF \in 0 .. 2 /\ allConnected \in 0 .. 1 /\ controlConnected \in 0 .. 1
    BY DEF DoPcs
  <2> QED
    BY <2>1, <2>2, <2>3, <2>4, <2>5 DEF SessionTypeOK
<1>2. ConnectInv /\ WakeupInv
  BY DEF ConnectInv, WakeupInv, NoLostWakeup, StreamsConnected, Ttys, Fds
<1>3. MirrorInv
  BY DEF MirrorInv, Opened, Unfinished, Pending, OutFds
<1>4. ResultInv /\ OutputInv
  BY DEF ResultInv, OutputInv
<1> QED
  BY <1>1, <1>2, <1>3, <1>4 DEF SessionInv

(* Every step keeps the invariant, the conjuncts by the lemmas above.        *)
LEMMA NextInv == SessionInv /\ [SessionNext]_sessionVars => SessionInv'
<1>1. ASSUME SessionInv, SessionNext
      PROVE  SessionInv'
  <2>1. SessionTypeOK'
    BY <1>1, ConnectTypes, DoTypes, MirrorTypes, WorldTypes DEF SessionNext
  <2> QED
    BY <1>1, <2>1, ConnectInvStep, WakeupStep, MirrorStep, ResultStep, OutputStep
    DEF SessionInv
<1>2. ASSUME SessionInv, UNCHANGED sessionVars
      PROVE  SessionInv'
  BY <1>2 DEF sessionVars, SessionInv, SessionTypeOK, ConnectInv, WakeupInv,
     NoLostWakeup, StreamsConnected, MirrorInv, Unfinished, Pending, ResultInv,
     MirrorsDone, OutputInv
<1> QED
  BY <1>1, <1>2

(* SessionInv holds in every reachable state of every session.               *)
THEOREM SessionInvariant == SessionSpec => []SessionInv
BY InitInv, NextInv, PTL DEF SessionSpec

(* No channel of the session exceeds its buffer, and wgEOF never goes below   *)
(* zero (exec.go:92, 149, 249): SessionTypeOK.                               *)
THEOREM SessionTypes == SessionSpec => []SessionTypeOK
<1>1. SessionInv => SessionTypeOK
  BY DEF SessionInv
<1> QED
  BY <1>1, SessionInvariant, PTL

(* Do leaves its receive (exec.go:103) only when each stream is connected.   *)
THEOREM CommandWaits == SessionSpec => []CommandWaitsForStreams
<1>1. SessionInv => CommandWaitsForStreams
  BY DEF SessionInv, WakeupInv, StreamsConnected, CommandWaitsForStreams
<1> QED
  BY <1>1, SessionInvariant, PTL

(* No order of the Connect goroutines loses the wake-up of Do (exec.go:83-92). *)
THEOREM WakeupIsKept == SessionSpec => []NoLostWakeup
<1>1. SessionInv => NoLostWakeup
  BY DEF SessionInv, WakeupInv
<1> QED
  BY <1>1, SessionInvariant, PTL

(* When wgEOF is down to zero every mirror of a pipe is through, and OutputInv *)
(* says what it has left.                                                    *)
LEMMA PublishedIsSent == SessionInv => NoOutputLeftBehind
<1> SUFFICES ASSUME SessionInv, ~Interactive, published # Nil,
                    NEW i \in OutFds, used[i] \notin down
             PROVE  pipe[i] = 0 /\ i \notin holders
  BY DEF NoOutputLeftBehind
<1>1. outPc[i] \notin {"born", "copy"}
  BY DEF SessionInv, SessionTypeOK, ResultInv, MirrorsDone, MirrorInv,
     Unfinished, Pending, OutFds
<1>2. outPc[i] \in {"drained", "cut"}
  BY <1>1 DEF SessionInv, SessionTypeOK, MirrorInv
<1> QED
  BY <1>2 DEF SessionInv, OutputInv

(* The return code of a command with pipes is published (exec.go:298) when    *)
(* all output has been sent on the connections that are up.                  *)
THEOREM OutputIsSent == SessionSpec => []NoOutputLeftBehind
BY PublishedIsSent, SessionInvariant, PTL

-----------------------------------------------------------------------------
(* Goroutines that are left behind.                                          *)

\* Requests that have stored a stream's connection and are through with Connect.
Through == {r \in Requests : reqPc[r] = "returned" /\ reqFd[r] \in Ttys}

\* The token in allConnected and the one Do received each came from a goroutine
\* that has returned since, and these are two.
SenderInv ==
  /\ allConnected = 1 \/ doPc # "wait" => Through # {}
  /\ allConnected = 1 /\ doPc # "wait" => \E t, u \in Through : t # u

\* Who is through stays through.
LEMMA ThroughGrows ==
  ASSUME SessionInv, SessionNext
  PROVE  Through \subseteq Through'
<1> USE DEF SessionInv, SessionTypeOK, Through
<1>1. ASSUME NEW r \in Requests, Connect(r)
      PROVE  Through \subseteq Through'
  <2>1. reqPc[r] # "returned" /\ \A q \in Requests \ {r} : UNCHANGED <<reqPc[q], reqFd[q]>>
    BY <1>1 DEF Connect, ConnectRefused, ConnectUpgraded, StoreConn, SignalControl, ScanConns,
       SignalAllConnected
  <2> QED
    BY <2>1
<1>2. CASE Do \/ Mirror \/ World
  <2>1. UNCHANGED <<reqPc, reqFd>>
    BY <1>2 DEF Do, AwaitAllConnected, OpenTtys, OpenTtysFails, StartCmd, StartCmdFails, Reap,
       CloseTtys, ReadControl, MarkDead, AwaitEOF, Publish, Mirror, TakeConn, SendChunk, SendEOF,
       SendCut, RecvEnds, JoinMirror, World, CmdWrites, DescendantCloses, CmdExits, ConnDrops,
       connectVars
  <2> QED
    BY <2>1
<1> QED
  BY <1>1, <1>2 DEF SessionNext

(* A send fills the place, the receive of Do empties it once.                *)
LEMMA SenderStep ==
  ASSUME SessionInv, SenderInv, SessionNext
  PROVE  SenderInv'
<1> USE DEF SessionInv, SessionTypeOK
<1>1. Through \subseteq Through'
  BY ThroughGrows
<1>2. ASSUME NEW r \in Requests, SignalAllConnected(r)
      PROVE  SenderInv'
  <2>1. r \notin Through /\ r \in Through'
    BY <1>2 DEF SignalAllConnected, ConnectInv, Through
  <2>2. doPc' = doPc /\ (doPc # "wait" => Through # {})
    BY <1>2 DEF SignalAllConnected, SenderInv
  <2> QED
    BY <1>1, <2>1, <2>2 DEF SenderInv
<1>3. CASE AwaitAllConnected
  BY <1>1, <1>3 DEF AwaitAllConnected, SenderInv
<1>4. ASSUME UNCHANGED allConnected, doPc' = doPc \/ doPc # "wait"
      PROVE  SenderInv'
  BY <1>1, <1>4 DEF SenderInv
<1>5. ASSUME NEW r \in Requests, Connect(r), ~SignalAllConnected(r)
      PROVE  SenderInv'
  BY <1>4, <1>5 DEF Connect, ConnectRefused, ConnectUpgraded, StoreConn, SignalControl, ScanConns
<1>6. ASSUME Do, ~AwaitAllConnected
      PROVE  SenderInv'
  BY <1>4, <1>6 DEF Do, OpenTtys, OpenTtysFails, StartCmd, StartCmdFails, Reap, CloseTtys,
     ReadControl, MarkDead, AwaitEOF, Publish, connectVars
<1>7. CASE Mirror \/ World
  BY <1>4, <1>7 DEF Mirror, TakeConn, SendChunk, SendEOF, SendCut, RecvEnds, JoinMirror, World,
     CmdWrites, DescendantCloses, CmdExits, ConnDrops, connectVars
<1> QED
  BY <1>2, <1>3, <1>5, <1>6, <1>7 DEF SessionNext

(* So no third send gets through in any reachable state.                     *)
LEMMA SenderInvariant == SessionSpec => []SenderInv
<1>1. SessionInit => SenderInv
  BY DEF SessionInit, SenderInv
<1>2. SessionInv /\ SenderInv /\ [SessionNext]_sessionVars => SenderInv'
  <2>1. ASSUME SenderInv, UNCHANGED sessionVars
        PROVE  SenderInv'
    BY <2>1 DEF sessionVars, SenderInv, Through
  <2> QED
    BY <2>1, SenderStep
<1> QED
  BY <1>1, <1>2, SessionInvariant, PTL DEF SessionSpec

(* The channel allConnected has one place and Do receives once (exec.go:92,   *)
(* 103), so a third sender stays behind.  With each stream dialled once there *)
(* are at most three: two that are through, and it.                          *)
THEOREM OneStranded == SessionSpec => []AtMostOneStranded
<1>1. SessionInv /\ SenderInv => AtMostOneStranded
  <2> SUFFICES ASSUME SessionInv, SenderInv, NEW r \in Stranded, NEW s \in Stranded, r # s,
                      \A a, b \in Requests : reqFd[a] # Nil /\ reqFd[a] = reqFd[b] => a = b
               PROVE  FALSE
    BY DEF AtMostOneStranded
  <2>1. PICK t \in Through, u \in Through : t # u
    BY DEF SenderInv, Stranded
  <2>2. /\ r \in Requests /\ reqPc[r] = "signal" /\ reqFd[r] \in Ttys
        /\ s \in Requests /\ reqPc[s] = "signal" /\ reqFd[s] \in Ttys
        /\ t \in Requests /\ reqPc[t] = "returned" /\ reqFd[t] \in Ttys
        /\ u \in Requests /\ reqPc[u] = "returned" /\ reqFd[u] \in Ttys
    BY <2>1 DEF Stranded, Through, SessionInv, ConnectInv
  <2>3. Ttys \subseteq {0, 1, 2} /\ Nil \notin Ttys
    BY SessionAssumption DEF Ttys
  <2>4. /\ reqFd[r] # reqFd[s] /\ reqFd[r] # reqFd[t] /\ reqFd[r] # reqFd[u]
        /\ reqFd[s] # reqFd[t] /\ reqFd[s] # reqFd[u] /\ reqFd[t] # reqFd[u]
    BY <2>1, <2>2, <2>3
  <2> QED
    BY <2>2, <2>3, <2>4
<1> QED
  BY <1>1, SessionInvariant, SenderInvariant, PTL

=============================================================================
