---------------------- MODULE ExecSessionContractProofs ----------------------
(***************************************************************************)
(* ExecSession implements ExecContract, for every value of its constants.  *)
(* The step lemma needs SessionInv and, besides, what the place of Do says *)
(* of the command and of the result: ChildInv.                             *)
(***************************************************************************)
EXTENDS ExecSessionContract, ExecSessionProofs

Finishing == {"closeTtys", "readControl", "controlExit", "markDead", "waitEOF",
              "publish"}

ChildInv ==
  /\ doPc \in {"wait", "open", "start"} => child = "none"
  /\ doPc = "returned" /\ published = Nil => child = "none"
  /\ doPc = "reap" => child # "none"
  /\ child = "running" => doPc = "reap"
  /\ child = "none" => holders = {} /\ \A i \in OutFds : pipe[i] = 0
  /\ doPc \in Finishing =>
        cmdResult = IF child = "exited" THEN ReturnCode(outcome) ELSE -1
  /\ published # Nil => published = IF child = "exited" THEN ReturnCode(outcome) ELSE -1

(* A code that Wait gives is one of an exit status, or -1.                   *)
LEMMA ReturnCodeRange ==
  ASSUME NEW o \in Outcomes
  PROVE  ReturnCode(o) \in {-1} \cup ExitCodes
BY DEF ReturnCode, Outcomes

(* Every step of the session keeps what is said of the command.              *)
LEMMA ChildStep ==
  ASSUME SessionInv, ChildInv, SessionNext
  PROVE  ChildInv'
<1> USE SessionAssumption
       DEF SessionInv, SessionTypeOK, DoPcs, ChildInv, Finishing, childVars, resultVars
<1>1. ASSUME UNCHANGED <<childVars, pipe, doPc, cmdResult, published>>
      PROVE  ChildInv'
  BY <1>1 DEF ReturnCode
<1>2. ASSUME \E r \in Requests : Connect(r)
      PROVE  ChildInv'
  BY <1>1, <1>2 DEF Connect, ConnectRefused, ConnectUpgraded, StoreConn,
     SignalControl, ScanConns, SignalAllConnected
<1>3. CASE Publish
  <2>1. cmdResult # Nil
    <3>1. cmdResult \in {-1} \cup ExitCodes
      BY <1>3, ReturnCodeRange DEF Publish, ResultInv
    <3>2. cmdResult \in Int
      BY <3>1 DEF SessionAssumption
    <3> QED
      BY <3>2 DEF SessionAssumption
  <2> QED
    BY <1>3, <2>1 DEF Publish
<1>4. ASSUME Do, ~Publish
      PROVE  ChildInv'
  BY <1>4 DEF Do, AwaitAllConnected, OpenTtysFails, OpenTtys, StartCmd,
     StartCmdFails, Reap, CloseTtys, ReadControl, MarkDead, AwaitEOF, ReturnCode,
     ResultInv
<1>5. ASSUME NEW i \in OutFds, SendChunk(i)
      PROVE  ChildInv'
  BY <1>5 DEF SendChunk, ReturnCode
<1>6. ASSUME Mirror, ~ \E i \in OutFds : SendChunk(i)
      PROVE  ChildInv'
  BY <1>1, <1>6 DEF Mirror, TakeConn, SendEOF, SendCut, RecvEnds, JoinMirror
<1>7. ASSUME NEW i \in OutFds, CmdWrites(i) \/ DescendantCloses(i)
      PROVE  ChildInv'
  BY <1>7 DEF CmdWrites, DescendantCloses, ReturnCode
<1>8. ASSUME NEW o \in Outcomes, CmdExits(o)
      PROVE  ChildInv'
  <2>1. child = "running" /\ doPc = "reap" /\ published = Nil
    BY <1>8 DEF CmdExits, ResultInv
  <2> QED BY <1>8, <2>1 DEF CmdExits
<1>9. ASSUME NEW r \in Requests, ConnDrops(r)
      PROVE  ChildInv'
  BY <1>1, <1>9 DEF ConnDrops
<1> QED
  BY <1>2, <1>3, <1>4, <1>5, <1>6, <1>7, <1>8, <1>9 DEF SessionNext, Mirror, World

(* So it holds in every reachable state.                                     *)
LEMMA ChildInvariant == SessionSpec => []ChildInv
<1>1. SessionInit => ChildInv
  BY DEF SessionInit, ChildInv, Finishing
<1>2. SessionInv /\ ChildInv /\ [SessionNext]_sessionVars => ChildInv'
  <2>1. ASSUME ChildInv, UNCHANGED sessionVars
        PROVE  ChildInv'
    BY <2>1 DEF ChildInv, sessionVars, ReturnCode
  <2> QED
    BY <2>1, ChildStep
<1> QED
  BY <1>1, <1>2, SessionInvariant, PTL DEF SessionSpec

-----------------------------------------------------------------------------
(* The refinement.                                                           *)

(* Before the launch, and once the session is over, nothing is left to send. *)
Inactive == doPc \in {"wait", "returned"} \/ child = "none"

(* A session that is inactive, in this sense, has nothing to send.           *)
LEMMA NothingUnsent ==
  SessionInv /\ ChildInv /\ Inactive => Unsent = {}
<1> SUFFICES ASSUME SessionInv, ChildInv, Inactive
             PROVE  Unsent = {}
  OBVIOUS
<1> USE DEF Inactive
<1>1. CASE child = "none"
  BY <1>1 DEF Unsent, ChildInv
<1>2. CASE published # Nil
  BY <1>2, PublishedIsSent DEF Unsent, NoOutputLeftBehind, SessionInv, SessionTypeOK
<1> QED
  BY <1>1, <1>2 DEF ChildInv

(* The same, of the next state.                                              *)
LEMMA NothingUnsentNext ==
  (SessionInv /\ ChildInv /\ Inactive => Unsent = {})'
BY NothingUnsent, PTL

(* Steps that the contract does not see but as output.                       *)
LEMMA HiddenStep ==
  ASSUME SessionInv, ChildInv, SessionInv', ChildInv', UNCHANGED <<conns, outcome, published>>,
         \/ UNCHANGED <<doPc, child>>
         \/ /\ doPc \in Opened /\ doPc' \in Opened
            /\ child = "exited" <=> child' = "exited"
  PROVE  [Contract!Next]_(Contract!contractVars)
<1>1. Attached' = Attached /\ Phase' = Phase
  BY DEF Attached, Phase, Opened
<1>2. CASE doPc \in {"wait", "returned"}
  <2>1. Unsent = {} /\ Unsent' = {}
    <3>1. doPc' \in {"wait", "returned"}
      BY <1>2 DEF Opened
    <3> QED
      BY <1>2, <3>1, NothingUnsent, NothingUnsentNext DEF Inactive
  <2> QED
    BY <1>1, <2>1 DEF Contract!contractVars
<1>3. CASE doPc \notin {"wait", "returned"}
  <2>1. Phase \in {"launched", "ended"}
    BY <1>3 DEF Phase
  <2>2. Unsent' \in SUBSET Ttys
    BY DEF Unsent, OutFds, Ttys
  <2>3. Contract!Output
    BY <1>1, <2>1, <2>2 DEF Contract!Output
  <2> QED
    BY <2>3 DEF Contract!Next
<1> QED
  BY <1>2, <1>3

(* Each action of the session is the step of the contract named in it, or    *)
(* none.                                                                     *)
LEMMA ContractStep ==
  ASSUME SessionInv, ChildInv, SessionInv', ChildInv', SessionNext
  PROVE  [Contract!Next]_(Contract!contractVars)
<1> USE SessionAssumption DEF connectVars, mirrorVars, childVars, resultVars
<1>1. ASSUME NEW r \in Requests, StoreConn(r)
      PROVE  [Contract!Next]_(Contract!contractVars)
  <2>1. UNCHANGED <<Phase, outcome, published, Unsent>>
    BY <1>1 DEF StoreConn, Phase, Unsent
  <2>2. CASE reqFd[r] \in Ttys
    <3>1. Attached' = Attached \cup {reqFd[r]}
      BY <1>1, <2>2 DEF StoreConn, Attached, SessionInv, SessionTypeOK, Fds
    <3>2. Contract!Attach(reqFd[r])
      BY <2>1, <3>1 DEF Contract!Attach
    <3> QED
      BY <2>2, <3>2 DEF Contract!Next
  <2>3. CASE reqFd[r] \notin Ttys
    <3>1. Attached' = Attached
      BY <1>1, <2>3 DEF StoreConn, Attached, SessionInv, SessionTypeOK
    <3> QED
      BY <2>1, <3>1 DEF Contract!contractVars
  <2> QED
    BY <2>2, <2>3
<1>2. ASSUME NEW r \in Requests, Connect(r), ~StoreConn(r)
      PROVE  [Contract!Next]_(Contract!contractVars)
  BY <1>2, HiddenStep DEF Connect, ConnectRefused, ConnectUpgraded, SignalControl,
     ScanConns, SignalAllConnected
<1>3. CASE AwaitAllConnected
  <2>1. Phase = "waiting" /\ Phase' = "launched"
    BY <1>3 DEF AwaitAllConnected, Phase, ChildInv
  <2>2. Attached = Ttys /\ Attached' = Attached
    BY <1>3 DEF AwaitAllConnected, Attached, SessionInv, WakeupInv, StreamsConnected
  <2>3. UNCHANGED <<outcome, published, Unsent>>
    BY <1>3 DEF AwaitAllConnected, Unsent
  <2>4. Contract!Launch
    BY <2>1, <2>2, <2>3 DEF Contract!Launch
  <2> QED
    BY <2>4 DEF Contract!Next
<1>4. CASE OpenTtysFails
  <2>1. Phase = "launched" /\ Phase' = "aborted"
    BY <1>4 DEF OpenTtysFails, Phase, ChildInv, SessionInv, ResultInv
  <2>2. UNCHANGED <<Attached, outcome, published, Unsent>>
    BY <1>4 DEF OpenTtysFails, Attached, Unsent
  <2>3. Contract!Abort
    BY <2>1, <2>2 DEF Contract!Abort
  <2> QED
    BY <2>3 DEF Contract!Next
<1>5. CASE Publish
  <2>1. Phase = IF child = "exited" THEN "ended" ELSE "launched"
    BY <1>5 DEF Publish, Phase
  <2>2. published' = IF child = "exited" THEN ReportedCode(outcome) ELSE -1
    BY <1>5 DEF Publish, ChildInv, Finishing, ReportedCode, ReturnCode
  <2>3. Phase' = "reported"
    <3>1. child = "exited" => ReturnCode(outcome) \in {-1} \cup ExitCodes
      BY ReturnCodeRange DEF SessionInv, ResultInv
    <3>2. published' \in {-1} \cup ExitCodes
      BY <2>2, <3>1 DEF ReportedCode, ReturnCode
    <3>3. published' \in Int
      BY <3>2 DEF SessionAssumption
    <3>4. published' # Nil
      BY <3>3 DEF SessionAssumption
    <3> QED
      BY <1>5, <3>4 DEF Publish, Phase
  <2>4. Unsent = {} /\ Unsent' = {}
    <3>1. Unsent' = {}
      BY <1>5, NothingUnsentNext DEF Publish, Inactive
    <3>2. Unsent' = Unsent
      BY <1>5 DEF Publish, Unsent
    <3> QED
      BY <3>1, <3>2
  <2>5. UNCHANGED <<Attached, outcome>>
    BY <1>5 DEF Publish, Attached
  <2>6. Contract!Report
    BY <2>1, <2>2, <2>3, <2>4, <2>5 DEF Contract!Report
  <2> QED
    BY <2>6 DEF Contract!Next
<1>6. ASSUME Do, ~AwaitAllConnected, ~OpenTtysFails, ~Publish
      PROVE  [Contract!Next]_(Contract!contractVars)
  <2>1. CASE OpenTtys
    <3>1. UNCHANGED <<Attached, Phase, outcome, published, Unsent>>
      BY <2>1 DEF OpenTtys, Attached, Phase, Unsent
    <3> QED
      BY <3>1 DEF Contract!contractVars
  <2>2. CASE StartCmd
    BY <2>2, HiddenStep DEF StartCmd, Opened, ChildInv
  <2>3. ASSUME ~OpenTtys, ~StartCmd
        PROVE  /\ UNCHANGED <<conns, outcome, published, child>>
               /\ doPc \in Opened /\ doPc' \in Opened
    BY <1>6, <2>3 DEF Do, StartCmdFails, Reap, CloseTtys, ReadControl, MarkDead,
       AwaitEOF, Opened
  <2> QED
    BY <1>6, <2>1, <2>2, <2>3, HiddenStep
<1>7. CASE Mirror
  BY <1>7, HiddenStep DEF Mirror, TakeConn, SendChunk, SendEOF, SendCut, RecvEnds,
     JoinMirror
<1>8. ASSUME NEW o \in Outcomes, CmdExits(o)
      PROVE  [Contract!Next]_(Contract!contractVars)
  <2>1. Phase = "launched" /\ Phase' = "ended"
    BY <1>8 DEF CmdExits, Phase, ChildInv
  <2>2. Unsent' \in SUBSET Unsent
    BY <1>8 DEF CmdExits, Unsent
  <2>3. UNCHANGED <<Attached, published>> /\ outcome' = o
    BY <1>8 DEF CmdExits, Attached
  <2>4. Contract!End(o)
    BY <2>1, <2>2, <2>3 DEF Contract!End
  <2> QED
    BY <2>4 DEF Contract!Next
<1>9. ASSUME World, ~ \E o \in Outcomes : CmdExits(o)
      PROVE  [Contract!Next]_(Contract!contractVars)
  BY <1>9, HiddenStep DEF World, CmdWrites, DescendantCloses, ConnDrops
<1> QED
  BY <1>1, <1>2, <1>3, <1>4, <1>5, <1>6, <1>7, <1>8, <1>9 DEF SessionNext

\* The initial states map to the initial state of the contract.
LEMMA ContractInit == SessionInit => Contract!Init
<1> SUFFICES ASSUME SessionInit
             PROVE  Contract!Init
  OBVIOUS
<1>1. Attached = {} /\ Unsent = {}
  BY DEF SessionInit, Attached, Unsent, Fds
<1>2. Phase = "waiting" /\ outcome = Nil /\ published = Nil
  BY DEF SessionInit, Phase
<1> QED
  BY <1>1, <1>2 DEF Contract!Init

\* And each step of the session to a step of the contract, or to none.
LEMMA ContractNext ==
  SessionInv /\ ChildInv /\ SessionInv' /\ ChildInv' /\ [SessionNext]_sessionVars
  => [Contract!Next]_(Contract!contractVars)
<1>1. ASSUME UNCHANGED sessionVars
      PROVE  UNCHANGED Contract!contractVars
  BY <1>1 DEF sessionVars, Contract!contractVars, Attached, Phase, Unsent
<1> QED
  BY <1>1, ContractStep

(* Every session keeps the contract of ExecContract: the command starts with  *)
(* all streams attached, and one code, that of its ending, is reported once   *)
(* its output is sent (exec.go:102-347).                                     *)
THEOREM SessionImplementsContract == SessionSpec => Implements
BY ContractInit, ContractNext, SessionInvariant, ChildInvariant, PTL
   DEF SessionSpec, Implements, Contract!ContractSpec

=============================================================================
