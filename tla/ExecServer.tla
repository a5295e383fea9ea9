----------------------------- MODULE ExecServer -----------------------------
(***************************************************************************)
(* vsock-server around one exec session: the operation that execHandler    *)
(* creates (cmd/vsock-server/lxd_operations.go), the goroutine that runs   *)
(* its hook, its entry in the map of operations and the HTTP handlers of   *)
(* cmd/vsock-server/main.go that look it up.                               *)
(*                                                                         *)
(* The operation is of class websocket, has the hooks Do and Connect of    *)
(* ExecSession and no Cancel hook, so mayCancel() is false and Cancel      *)
(* returns an error without a change.  Each Request of the session is one  *)
(* GET of /1.0/operations/{id}/websocket, each member of Polls one request *)
(* to /1.0/operations/{id}.  A read of the operation outside its lock is   *)
(* an action of its own.                                                   *)
(***************************************************************************)
EXTENDS ExecSession

CONSTANTS
  Polls,   \* requests for the operation's description
  DoError  \* the message of an error that Do returns

ASSUME ServerAssumption == DoError # "" /\ DoError # "success" /\ Nil # "Success"

VARIABLES
  registered,  \* the operation is in the map of operations
  status,      \* op.status
  readonly,    \* op.readonly; in the same critical section the hooks are
               \* set to nil and chanDone is closed
  opErr,       \* op.err
  opPc,        \* where the handler that created the operation, then the
               \* goroutine that runs its hook, then its timer is
  hpc,         \* where the handler of each websocket request is
  reply,       \* the HTTP status each websocket request was answered, or Nil
  pollPc,      \* where the handler of each poll is
  snap,        \* [Polls -> the fields of api.Operation that Render has read]
  panicked     \* a goroutine panicked and the process is gone

opVars      == <<registered, status, readonly, opErr, opPc>>
handlerVars == <<hpc, reply>>
pollVars    == <<pollPc, snap>>
serverVars  == <<sessionVars, opVars, handlerVars, pollVars, panicked>>

Final == {"Success", "Failure"}

NoSnapshot == [code |-> Nil, return |-> Nil, err |-> ""]

\* operationCreate has registered the operation, nobody else knows its id yet.
ServerInit ==
  /\ SessionInit
  /\ registered = TRUE
  /\ status = "Pending"
  /\ readonly = FALSE
  /\ opErr = ""
  /\ opPc = "created"
  /\ hpc = [r \in Requests |-> "idle"]
  /\ reply = [r \in Requests |-> Nil]
  /\ pollPc = [p \in Polls |-> "idle"]
  /\ snap = [p \in Polls |-> NoSnapshot]
  /\ panicked = FALSE

-----------------------------------------------------------------------------
(* The operation. *)

\* Render of the POST's operationResponse calls Run, which spawns the goroutine.
RunOp ==
  /\ opPc = "created"
  /\ status = "Pending"
  /\ status' = "Running"
  /\ opPc' = "hook"
  /\ UNCHANGED <<sessionVars, registered, readonly, opErr, handlerVars,
                 pollVars, panicked>>

\* The goroutine runs op.onRun, which is Do.
HookStep ==
  /\ opPc = "hook"
  /\ Do
  /\ UNCHANGED <<opVars, handlerVars, pollVars, panicked>>

HookReturned == doPc = "returned"

SetSuccess ==
  /\ opPc = "hook"
  /\ HookReturned
  /\ ~failed
  /\ status' = "Success"
  /\ opPc' = "done"
  /\ UNCHANGED <<sessionVars, registered, readonly, opErr, handlerVars,
                 pollVars, panicked>>

\* The status and the error are two writes in one critical section; Render
\* does not take the lock and may read between them.
SetFailure ==
  /\ opPc = "hook"
  /\ HookReturned
  /\ failed
  /\ status' = "Failure"
  /\ opPc' = "setErr"
  /\ UNCHANGED <<sessionVars, registered, readonly, opErr, handlerVars,
                 pollVars, panicked>>

\* SmartError(err).String(): the empty sync response, whose name is "success".
SmartErrorText(err) == "success"

SetErr ==
  /\ opPc = "setErr"
  /\ opErr' = SmartErrorText(DoError)
  /\ opPc' = "done"
  /\ UNCHANGED <<sessionVars, registered, status, readonly, handlerVars,
                 pollVars, panicked>>

\* done(): read-only from here on, and the five second timer is armed.
DoneOp ==
  /\ opPc = "done"
  /\ readonly' = TRUE
  /\ opPc' = "over"
  /\ UNCHANGED <<sessionVars, registered, status, opErr, handlerVars, pollVars,
                 panicked>>

\* (Mutants: the timer runs from the start; it is armed for a success only.)
ArmedFromTheStart == opPc # "created"
ArmedOnSuccess == opPc = "over" /\ status = "Success"

ExpiryArmed == opPc = "over"

Expire ==
  /\ ExpiryArmed
  /\ registered
  /\ registered' = FALSE
  /\ UNCHANGED <<sessionVars, status, readonly, opErr, opPc, handlerVars,
                 pollVars, panicked>>

-----------------------------------------------------------------------------
(* The handler of websocket request r. *)

\* (Mutant: the POST is answered before the operation runs.)
IdKnownAtOnce == TRUE

\* The id is only known from the answer to the POST, which follows Run.
IdKnown == opPc # "created"

LookUpOp(r) ==
  /\ hpc[r] = "idle"
  /\ IdKnown
  /\ IF registered
       THEN hpc' = [hpc EXCEPT ![r] = "found"] /\ UNCHANGED reply
       ELSE hpc' = [hpc EXCEPT ![r] = "unknown"] /\ reply' = [reply EXCEPT ![r] = 200]
  /\ UNCHANGED <<sessionVars, opVars, pollVars, panicked>>

\* Connect reads op.status outside the lock; its error is only logged.
CheckRunning(r) ==
  /\ hpc[r] = "found"
  /\ IF status = "Running"
       THEN hpc' = [hpc EXCEPT ![r] = "checked"] /\ UNCHANGED reply
       ELSE hpc' = [hpc EXCEPT ![r] = "notRunning"] /\ reply' = [reply EXCEPT ![r] = 200]
  /\ UNCHANGED <<sessionVars, opVars, pollVars, panicked>>

\* The goroutine that Connect spawns calls op.onConnect, read at that moment.
CallOnConnect(r) ==
  /\ hpc[r] = "checked"
  /\ hpc' = [hpc EXCEPT ![r] = "called"]
  /\ panicked' = readonly
  /\ UNCHANGED <<sessionVars, opVars, reply, pollVars>>

\* The hook returns os.ErrPermission, which the handler logs: nothing is
\* written, and net/http answers 200.
ConnectBadSecret(r) ==
  /\ hpc[r] = "called"
  /\ ConnectRefused(r)
  /\ hpc' = [hpc EXCEPT ![r] = "badSecret"]
  /\ reply' = [reply EXCEPT ![r] = 200]
  /\ UNCHANGED <<opVars, pollVars, panicked>>

\* The upgrader itself answers a handshake it refuses.
ConnectBadHandshake(r) ==
  /\ hpc[r] = "called"
  /\ ConnectRefused(r)
  /\ hpc' = [hpc EXCEPT ![r] = "badHandshake"]
  /\ reply' = [reply EXCEPT ![r] = 400]
  /\ UNCHANGED <<opVars, pollVars, panicked>>

ConnectStream(r, fd) ==
  /\ hpc[r] = "called"
  /\ ConnectUpgraded(r, fd)
  /\ hpc' = [hpc EXCEPT ![r] = "upgraded"]
  /\ reply' = [reply EXCEPT ![r] = 101]
  /\ UNCHANGED <<opVars, pollVars, panicked>>

ConnectStep(r) ==
  /\ StoreConn(r) \/ SignalControl(r) \/ ScanConns(r) \/ SignalAllConnected(r)
  /\ UNCHANGED <<opVars, handlerVars, pollVars, panicked>>

-----------------------------------------------------------------------------
(* The handler of poll p: whatever the method, it renders the operation,   *)
(* field by field and without the lock.                                    *)

PollLookUp(p) ==
  /\ pollPc[p] = "idle"
  /\ IdKnown
  /\ pollPc' = [pollPc EXCEPT ![p] = IF registered THEN "code" ELSE "empty"]
  /\ UNCHANGED <<sessionVars, opVars, handlerVars, snap, panicked>>

RenderCode(p) ==
  /\ pollPc[p] = "code"
  /\ snap' = [snap EXCEPT ![p].code = status]
  /\ pollPc' = [pollPc EXCEPT ![p] = "metadata"]
  /\ UNCHANGED <<sessionVars, opVars, handlerVars, panicked>>

RenderMetadata(p) ==
  /\ pollPc[p] = "metadata"
  /\ snap' = [snap EXCEPT ![p].return = published]
  /\ pollPc' = [pollPc EXCEPT ![p] = "err"]
  /\ UNCHANGED <<sessionVars, opVars, handlerVars, panicked>>

RenderErr(p) ==
  /\ pollPc[p] = "err"
  /\ snap' = [snap EXCEPT ![p].err = opErr]
  /\ pollPc' = [pollPc EXCEPT ![p] = "answered"]
  /\ UNCHANGED <<sessionVars, opVars, handlerVars, panicked>>

-----------------------------------------------------------------------------
Operation ==
  RunOp \/ HookStep \/ SetSuccess \/ SetFailure \/ SetErr \/ DoneOp \/ Expire

Websocket(r) ==
  \/ LookUpOp(r)
  \/ CheckRunning(r)
  \/ CallOnConnect(r)
  \/ ConnectBadSecret(r)
  \/ ConnectBadHandshake(r)
  \/ \E fd \in Fds : ConnectStream(r, fd)
  \/ ConnectStep(r)

Poll(p) == PollLookUp(p) \/ RenderCode(p) \/ RenderMetadata(p) \/ RenderErr(p)

Background ==
  /\ Mirror \/ World
  /\ UNCHANGED <<opVars, handlerVars, pollVars, panicked>>

\* A panic in a goroutine that no handler recovers ends the whole process.
ServerNext ==
  /\ ~panicked
  /\ \/ Operation
     \/ \E r \in Requests : Websocket(r)
     \/ \E p \in Polls : Poll(p)
     \/ Background

ServerSpec == ServerInit /\ [][ServerNext]_serverVars

\* For the fairness of the system's steps: nothing is fair after a panic.
Lives(A) == ~panicked /\ A

Behind(A) == Lives(A /\ UNCHANGED <<opVars, handlerVars, pollVars, panicked>>)

-----------------------------------------------------------------------------
(* Properties. *)

(* The types of the operation, its handlers and its snapshots.               *)
ServerTypeOK ==
  /\ registered \in BOOLEAN
  /\ status \in {"Pending", "Running"} \cup Final
  /\ readonly \in BOOLEAN
  /\ opErr \in {"", SmartErrorText(DoError)}
  /\ opPc \in {"created", "hook", "setErr", "done", "over"}
  /\ hpc \in [Requests -> {"idle", "unknown", "found", "notRunning", "checked",
                           "called", "badSecret", "badHandshake", "upgraded"}]
  /\ reply \in [Requests -> {Nil, 101, 200, 400}]
  /\ pollPc \in [Polls -> {"idle", "empty", "code", "metadata", "err", "answered"}]
  /\ snap \in [Polls -> [code : {Nil, "Running"} \cup Final,
                         return : Codes \cup {Nil},
                         err : {"", SmartErrorText(DoError)}]]
  /\ panicked \in BOOLEAN

(* The map forgets an operation only when its goroutine is through with it:  *)
(* a client that polls a command which is still going always finds it.       *)
KeptUntilFinal ==
  ~registered => status \in Final /\ readonly /\ doPc = "returned"

(* When Do stores the return code, the status and the read-only flag that    *)
(* UpdateMetadata checks without the lock still accept it.                   *)
ReturnCodeAccepted == doPc = "publish" => status = "Running" /\ ~readonly

\* The code that the way the command ended calls for; -1 if it never started.
CodeOfEnding == IF child = "exited" THEN ReturnCode(outcome) ELSE -1

(* A poll whose answer says Success has the code of the command's ending and *)
(* no error in the same answer, and the output has been sent before it.      *)
SuccessIsComplete ==
  \A p \in Polls :
     pollPc[p] = "answered" /\ snap[p].code = "Success" =>
        /\ snap[p].return = CodeOfEnding
        /\ snap[p].err = ""
        /\ \A i \in OutFds :
              ~Interactive /\ used[i] \notin down => pipe[i] = 0 /\ i \notin holders

(* No operation stays in the map for ever once it is final.                  *)
FinalIsForgotten == status \in Final ~> (~registered \/ panicked)

(* lxd_operations.go:210: "Only running operations can be connected".        *)
OnlyRunningConnected ==
  [][\A r \in Requests :
       hpc[r] = "checked" /\ hpc'[r] = "called" => status = "Running"]_serverVars

=============================================================================
