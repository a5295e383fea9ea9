----------------------------- MODULE ExecRequest -----------------------------
(***************************************************************************)
(* The calls of several clients to one vsock-server on connections that    *)
(* break: POST /1.0/exec (execHandler and operationCreate of the server,   *)
(* ExecInstance of the client), the dials that follow it, and the requests *)
(* about an operation (lxd_operations.go of the client).  The server's     *)
(* process can end, by a panic or otherwise, and be started again: it      *)
(* keeps nothing.                                                          *)
(*                                                                         *)
(* A client has one call under way; its handler in the server goes on when *)
(* the connection is gone.  What a session does once its streams are there *)
(* is the business of ExecSession: here it starts and ends.                *)
(***************************************************************************)
EXTENDS Integers, FiniteSets

CONSTANTS
  Clients,  \* the processes that call the server
  Ids,      \* the operations' ids; a random UUID is one that is free
  NoId,     \* no id
  Posts,    \* the bodies of POST /1.0/exec that occur
  Queries,  \* the requests about an operation that occur
  Lossy     \* the clients that may die and whose connections may break

\* A body: it parses, the session is interactive, the command has a first word.
Bodies == [json : BOOLEAN, interactive : BOOLEAN, command : BOOLEAN]

ASSUME RequestAssumption ==
  /\ NoId \notin Ids \cup Clients
  /\ Posts \subseteq Bodies
  /\ Queries \subseteq {"get", "delete", "list", "wait"}
  /\ Lossy \subseteq Clients

VARIABLES
  up,       \* the server runs
  life,     \* [Ids -> where the operation with that id is]
  owner,    \* [Ids -> the client whose POST made it]
  body,     \* [Ids -> the body it was made from]
  fds,      \* [Ids -> the streams it has a secret for]
  attached, \* [Ids -> the streams whose connection is stored]
  handler,  \* [Clients -> where the handler of the client's POST is]
  made,     \* [Clients -> the id that this handler made]
  pc,       \* [Clients -> what the client is doing]
  posted,   \* [Clients -> the body of its POST, until the server has read it]
  asked,    \* [Clients -> the call under way, with the stream it dials]
  net,      \* [Clients -> where that call's connection is]
  answer,   \* [Clients -> the answer to it]
  id,       \* [Clients -> the id in the answer to its POST]
  dialled,  \* [Clients -> the streams it has connected]
  harmed    \* (history) the clients that died or lost a connection

mapVars     == <<life, owner, body, fds, attached>>
handlerVars == <<handler, made>>
netVars     == <<net, answer>>
callerVars  == <<pc, posted, asked, id, dialled, harmed>>
requestVars == <<up, mapVars, handlerVars, netVars, callerVars>>

InMap == {"pending", "running", "started", "final"}

Control == -1
AnyFd   == Control .. 2

\* The keys of ws.conns.
Streams(p) == {Control, 0} \cup (IF p.interactive THEN {} ELSE {1, 2})

\* (Mutants: the loop that makes the secrets ends one stream early, or late.)
OneShort(p) == Control .. (Cardinality(Streams(p)) - 3)
OneMore(p) == Control .. (Cardinality(Streams(p)) - 1)

Secrets(p) == Control .. (Cardinality(Streams(p)) - 2)

\* The streams that Do waits for.
Awaited(p) == Streams(p) \ {Control}

NoBody   == [json |-> FALSE, interactive |-> FALSE, command |-> FALSE]
Says(b, i) == [says |-> b, id |-> i]
NoAnswer == Says("nothing", NoId)
CallOf(name, fd) == [name |-> name, fd |-> fd]
NoCall   == CallOf("none", Control)

RequestInit ==
  /\ up = TRUE
  /\ life = [i \in Ids |-> "free"]
  /\ owner = [i \in Ids |-> NoId]
  /\ body = [i \in Ids |-> NoBody]
  /\ fds = [i \in Ids |-> {}]
  /\ attached = [i \in Ids |-> {}]
  /\ handler = [c \in Clients |-> "none"]
  /\ made = [c \in Clients |-> NoId]
  /\ pc = [c \in Clients |-> "start"]
  /\ posted = [c \in Clients |-> NoBody]
  /\ asked = [c \in Clients |-> NoCall]
  /\ net = [c \in Clients |-> "none"]
  /\ answer = [c \in Clients |-> NoAnswer]
  /\ id = [c \in Clients |-> NoId]
  /\ dialled = [c \in Clients |-> {}]
  /\ harmed = {}

-----------------------------------------------------------------------------
(* The server.  An answer reaches a client that still listens.              *)

Reply(c, a) ==
  IF net[c] = "handled"
    THEN net' = [net EXCEPT ![c] = "answer"] /\ answer' = [answer EXCEPT ![c] = a]
    ELSE UNCHANGED netVars

\* The router knows a call by its path alone, whatever its method.
Accept(c) ==
  /\ up
  /\ net[c] = "request"
  /\ net' = [net EXCEPT ![c] = "handled"]
  /\ handler' = [handler EXCEPT ![c] =
       CASE asked[c].name = "post" -> "exec"
         [] asked[c].name = "dial" -> "websocket"
         [] asked[c].name \in {"get", "delete"} -> "operation"
         [] asked[c].name \in {"list", "wait"} -> "notFound"]
  /\ UNCHANGED <<up, mapVars, made, answer, callerVars>>

\* Ids have no order: the first that is free stands for a new UUID.
NewId == CHOOSE i \in Ids : life[i] = "free"

\* BadRequest for a body that cannot be read to its end or does not parse, and
\* InternalError when RandomCryptoString or the conversion of the metadata
\* fails.  Otherwise operationCreate enters the operation into the map; nobody
\* sees what execHandler does before.  (Bound: an id is free.)
Create(c) ==
  /\ handler[c] = "exec"
  /\ \E i \in Ids : life[i] = "free"
  /\ \E ok \in BOOLEAN :
       /\ ok => posted[c].json
       /\ IF ok
            THEN /\ life' = [life EXCEPT ![NewId] = "pending"]
                 /\ owner' = [owner EXCEPT ![NewId] = c]
                 /\ body' = [body EXCEPT ![NewId] = posted[c]]
                 /\ fds' = [fds EXCEPT ![NewId] = Secrets(posted[c])]
                 /\ made' = [made EXCEPT ![c] = NewId]
            ELSE UNCHANGED <<life, owner, body, fds, made>>
       /\ IF ok
            THEN handler' = [handler EXCEPT ![c] = "run"] /\ UNCHANGED netVars
            ELSE handler' = [handler EXCEPT ![c] = "none"] /\ Reply(c, Says("error", NoId))
  /\ posted' = [posted EXCEPT ![c] = NoBody]
  /\ UNCHANGED <<up, attached, pc, asked, id, dialled, harmed>>

\* (Mutant: the answer does not wait for Run.)
Registered(c) == handler[c] \in {"run", "render"}

Answerable(c) == handler[c] = "render"

RunCreated(c) ==
  /\ handler[c] = "run"
  /\ life' = [life EXCEPT ![made[c]] = "running"]
  /\ handler' = [handler EXCEPT ![c] = "render"]
  /\ UNCHANGED <<up, owner, body, fds, attached, made, netVars, callerVars>>

AnswerPost(c) ==
  /\ Answerable(c)
  /\ Reply(c, Says("operation", made[c]))
  /\ handler' = [handler EXCEPT ![c] = "none"]
  /\ made' = [made EXCEPT ![c] = NoId]
  /\ UNCHANGED <<up, mapVars, callerVars>>

Connectable(c) == life[id[c]] \in {"running", "started"} /\ asked[c].fd \in fds[id[c]]

\* OperationWebSocket and Connect: an error is logged and nothing is written,
\* which net/http answers 200 with an empty body.  Upgrade fails only on a
\* connection that is gone.
AnswerDial(c) ==
  /\ handler[c] = "websocket"
  /\ \/ /\ Connectable(c)
        /\ attached' = [attached EXCEPT ![id[c]] = @ \cup {asked[c].fd}]
        /\ Reply(c, Says("upgrade", id[c]))
     \/ /\ ~Connectable(c) \/ net[c] # "handled"
        /\ Reply(c, Says("nothing", NoId))
        /\ UNCHANGED attached
  /\ handler' = [handler EXCEPT ![c] = "none"]
  /\ UNCHANGED <<up, life, owner, body, fds, made, callerVars>>

\* The operation is described whatever the method.  One that is not in the map
\* leaves the body empty.
AnswerQuery(c) ==
  /\ handler[c] = "operation"
  /\ Reply(c, IF id[c] \in Ids /\ life[id[c]] \in InMap
                THEN Says("operation", id[c]) ELSE Says("nothing", NoId))
  /\ handler' = [handler EXCEPT ![c] = "none"]
  /\ UNCHANGED <<up, mapVars, made, callerVars>>

\* No route: 404 with a text.
AnswerNotFound(c) ==
  /\ handler[c] = "notFound"
  /\ Reply(c, Says("text", NoId))
  /\ handler' = [handler EXCEPT ![c] = "none"]
  /\ UNCHANGED <<up, mapVars, made, callerVars>>

Handle(c) ==
  \/ Accept(c)
  \/ Create(c)
  \/ RunCreated(c)
  \/ AnswerPost(c)
  \/ AnswerDial(c)
  \/ AnswerQuery(c)
  \/ AnswerNotFound(c)

-----------------------------------------------------------------------------
(* Sessions, and the end of the server.                                     *)

\* (Mutant: one stream is enough.)
AnyAttached(i) == life[i] = "running" /\ attached[i] # {}

Connected(i) == life[i] = "running" /\ Awaited(body[i]) \subseteq attached[i]

StartSession(i) ==
  /\ Connected(i)
  /\ body[i].command
  /\ life' = [life EXCEPT ![i] = "started"]
  /\ UNCHANGED <<up, owner, body, fds, attached, handlerVars, netVars, callerVars>>

\* The command's end, or an error of Do, which opens the ttys before it looks at
\* the command.
EndSession(i) ==
  /\ life[i] = "started" \/ Connected(i)
  /\ life' = [life EXCEPT ![i] = "final"]
  /\ UNCHANGED <<up, owner, body, fds, attached, handlerVars, netVars, callerVars>>

Forget(i) ==
  /\ life[i] = "final"
  /\ life' = [life EXCEPT ![i] = "gone"]
  /\ UNCHANGED <<up, owner, body, fds, attached, handlerVars, netVars, callerVars>>

\* Nothing of the map is left, and calls under way break.
ServerEnds ==
  /\ up
  /\ up' = FALSE
  /\ life' = [i \in Ids |-> IF life[i] \in InMap THEN "lost" ELSE life[i]]
  /\ handler' = [c \in Clients |-> "none"]
  /\ made' = [c \in Clients |-> NoId]
  /\ net' = [c \in Clients |-> IF net[c] = "none" THEN "none" ELSE "broken"]
  /\ answer' = [c \in Clients |-> NoAnswer]
  /\ UNCHANGED <<owner, body, fds, attached, callerVars>>

\* Do indexes the first word of an empty command, in a goroutine without a
\* recover.
Panic(i) ==
  /\ Connected(i)
  /\ ~body[i].command
  /\ ServerEnds

\* External: the process is killed.
Killed == ServerEnds

\* External: somebody starts the server again.
Restart ==
  /\ ~up
  /\ up' = TRUE
  /\ UNCHANGED <<mapVars, handlerVars, netVars, callerVars>>

-----------------------------------------------------------------------------
(* The client.                                                              *)

\* A dial of a server that does not listen fails at once.
Call(c, what) ==
  /\ net[c] = "none"
  /\ asked' = [asked EXCEPT ![c] = what]
  /\ net' = [net EXCEPT ![c] = IF up THEN "request" ELSE "broken"]
  /\ UNCHANGED <<up, mapVars, handlerVars, answer, id, dialled, harmed>>

PostExec(c) ==
  /\ pc[c] = "start"
  /\ Call(c, CallOf("post", Control))
  /\ \E p \in Posts : posted' = [posted EXCEPT ![c] = p]
  /\ pc' = [pc EXCEPT ![c] = "post"]

\* (Mutant: stdin is left alone.)
OutputsOnly(i) == IF body[i].interactive THEN {Control} ELSE fds[i] \cap {1, 2}

\* What ExecInstance dials, by the secrets in the answer: the control stream
\* for its caller's handler, which an interactive session has, and stream 0 of
\* an interactive session even without a secret.
ToDial(i) ==
  IF body[i].interactive
    THEN (fds[i] \cap {Control}) \cup {0}
    ELSE fds[i] \cap {0, 1, 2}

Missing(c) == (IF id[c] \in Ids THEN ToDial(id[c]) ELSE {}) \ dialled[c]

DialNext(c) ==
  /\ pc[c] = "use"
  /\ \E fd \in Missing(c) : (\A other \in Missing(c) : fd <= other) /\ Call(c, CallOf("dial", fd))
  /\ UNCHANGED <<pc, posted>>

\* GetOperation, DeleteOperation, GetOperations or GetOperationWait.
Query(c) ==
  /\ pc[c] = "use"
  /\ Missing(c) = {}
  /\ \E q \in Queries : Call(c, CallOf(q, Control))
  /\ UNCHANGED <<pc, posted>>

\* (Mutants: an error is not looked for; an empty body is no error.)
ErrorUnseen(a) == a.says \in {"operation", "error"}
EmptyAccepted(a) == a.says \in {"operation", "nothing"}

\* lxdParseResponse: an empty body and a text do not decode, whatever the
\* status, and an answer of type error is an error.
Accepted(a) == a.says = "operation"

\* The call is over; its handler may still be at work unless it has answered.
HangUp(c) ==
  /\ net' = [net EXCEPT ![c] = "none"]
  /\ answer' = [answer EXCEPT ![c] = NoAnswer]
  /\ asked' = IF net[c] = "answer" THEN [asked EXCEPT ![c] = NoCall] ELSE asked

ReceivePost(c) ==
  /\ asked[c].name = "post"
  /\ net[c] = "answer"
  /\ IF Accepted(answer[c])
       THEN /\ pc' = [pc EXCEPT ![c] = "use"]
            /\ id' = [id EXCEPT ![c] = answer[c].id]
       ELSE /\ pc' = [pc EXCEPT ![c] = "refused"]
            /\ UNCHANGED id
  /\ HangUp(c)
  /\ UNCHANGED <<up, mapVars, handlerVars, posted, dialled, harmed>>

\* A handshake that is not answered 101 ends ExecInstance, and the program.
ReceiveDial(c) ==
  /\ asked[c].name = "dial"
  /\ net[c] = "answer"
  /\ IF answer[c].says = "upgrade"
       THEN dialled' = [dialled EXCEPT ![c] = @ \cup {asked[c].fd}] /\ UNCHANGED pc
       ELSE pc' = [pc EXCEPT ![c] = "failed"] /\ UNCHANGED dialled
  /\ HangUp(c)
  /\ UNCHANGED <<up, mapVars, handlerVars, posted, id, harmed>>

\* The caller of a query gives up on an error, as Wait does.
ReceiveQuery(c) ==
  /\ asked[c].name \in Queries
  /\ net[c] = "answer"
  /\ pc' = [pc EXCEPT ![c] = IF Accepted(answer[c]) THEN "use" ELSE "gaveUp"]
  /\ HangUp(c)
  /\ UNCHANGED <<up, mapVars, handlerVars, posted, id, dialled, harmed>>

ReceiveBreak(c) ==
  /\ net[c] = "broken"
  /\ pc' = [pc EXCEPT ![c] = IF asked[c].name \in Queries THEN "gaveUp" ELSE "failed"]
  /\ HangUp(c)
  /\ UNCHANGED <<up, mapVars, handlerVars, posted, id, dialled, harmed>>

Caller(c) ==
  \/ DialNext(c)
  \/ ReceivePost(c)
  \/ ReceiveDial(c)
  \/ ReceiveQuery(c)
  \/ ReceiveBreak(c)

\* The connection of a call breaks: the request, or the answer, is lost.
Break(c) ==
  /\ c \in Lossy
  /\ net[c] \in {"request", "handled", "answer"}
  /\ net' = [net EXCEPT ![c] = "broken"]
  /\ answer' = [answer EXCEPT ![c] = NoAnswer]
  /\ harmed' = harmed \cup {c}
  /\ UNCHANGED <<up, mapVars, handlerVars, pc, posted, asked, id, dialled>>

Die(c) ==
  /\ c \in Lossy
  /\ pc[c] \in {"post", "use"}
  /\ pc' = [pc EXCEPT ![c] = "dead"]
  /\ HangUp(c)
  /\ harmed' = harmed \cup {c}
  /\ UNCHANGED <<up, mapVars, handlerVars, posted, id, dialled>>

-----------------------------------------------------------------------------
RequestNext ==
  \/ \E c \in Clients : Handle(c) \/ PostExec(c) \/ Query(c) \/ Caller(c) \/ Break(c) \/ Die(c)
  \/ \E i \in Ids : StartSession(i) \/ EndSession(i) \/ Forget(i) \/ Panic(i)
  \/ Killed
  \/ Restart

\* A handler is a goroutine and so is a caller, once it has called.  Nothing
\* makes a client ask, a session end or a server start.
RequestSpec ==
  /\ RequestInit
  /\ [][RequestNext]_requestVars
  /\ \A c \in Clients : WF_requestVars(Handle(c)) /\ WF_requestVars(Caller(c))

-----------------------------------------------------------------------------
(* Properties. *)

(* The types of the map, of the calls and of their handlers.                 *)
RequestTypeOK ==
  /\ up \in BOOLEAN
  /\ life \in [Ids -> InMap \cup {"free", "gone", "lost"}]
  /\ owner \in [Ids -> Clients \cup {NoId}]
  /\ body \in [Ids -> Posts \cup {NoBody}]
  /\ fds \in [Ids -> SUBSET AnyFd]
  /\ attached \in [Ids -> SUBSET AnyFd] /\ \A i \in Ids : attached[i] \subseteq fds[i]
  /\ handler \in [Clients -> {"none", "exec", "run", "render", "websocket",
                              "operation", "notFound"}]
  /\ made \in [Clients -> Ids \cup {NoId}]
  /\ posted \in [Clients -> Posts \cup {NoBody}]
  /\ asked \in [Clients -> [name : {"none", "post", "dial"} \cup Queries, fd : AnyFd]]
  /\ pc \in [Clients -> {"start", "post", "use", "refused", "failed", "gaveUp", "dead"}]
  /\ net \in [Clients -> {"none", "request", "handled", "answer", "broken"}]
  /\ id \in [Clients -> Ids \cup {NoId}]
  /\ dialled \in [Clients -> SUBSET AnyFd]
  /\ harmed \subseteq Lossy

(* A client that goes on after its POST has the id of the operation that was *)
(* made for it, which has been run, and a secret for every stream that the   *)
(* session waits for.                                                        *)
AnswerIsSession ==
  \A c \in Clients : pc[c] = "use" =>
     /\ id[c] \in Ids
     /\ owner[id[c]] = c
     /\ life[id[c]] \notin {"free", "pending"}
     /\ Awaited(body[id[c]]) \subseteq fds[id[c]]

(* A POST that is answered with an error has left no operation behind, in    *)
(* the map or anywhere.                                                      *)
ErrorLeavesNoSession ==
  \A c \in Clients : pc[c] = "refused" => \A i \in Ids : owner[i] # c

(* A dial of an answered client is refused only when the operation has ended *)
(* or the server has, since it answered.                                     *)
RefusedIsOver ==
  \A c \in Clients :
     pc[c] = "failed" /\ id[c] \in Ids /\ c \notin harmed =>
        life[id[c]] \in {"final", "gone", "lost"}

(* A session whose streams will never be complete waits in the map for ever, *)
(* with a goroutine: that happens only when its client died or its           *)
(* connection broke.                                                         *)
OrphanHasReason ==
  \A i \in Ids :
     /\ life[i] \in {"pending", "running"}
     /\ ~(Awaited(body[i]) \subseteq attached[i])
     /\ \/ pc[owner[i]] \in {"refused", "failed", "gaveUp", "dead"}
        \/ pc[owner[i]] = "use" /\ Missing(owner[i]) = {} /\ net[owner[i]] = "none"
     => owner[i] \in harmed

(* What a client takes for a success was said by a server that knew the      *)
(* operation: not by one that forgot it, was started again or has no such    *)
(* route.                                                                    *)
OkIsFromTheMap ==
  \A c \in Clients :
     net[c] = "answer" /\ asked[c].name \in Queries /\ Accepted(answer[c]) =>
        answer[c].id = id[c]

(* Every answered client has its session's streams attached, unless a fault  *)
(* or the end of the server prevents it.                                     *)
AnsweredIsAttached ==
  \A c \in Clients :
     pc[c] = "use" ~>
        \/ id[c] \in Ids /\ Awaited(body[id[c]]) \subseteq attached[id[c]]
        \/ c \in harmed
        \/ \E i \in Ids : owner[i] = c /\ life[i] = "lost"

=============================================================================
