------------------------- MODULE ExecRequestProofs -------------------------
(***************************************************************************)
(* Safety of the calls of any number of clients, with any number of broken *)
(* connections, deaths of clients and restarts of the server.  The         *)
(* invariant has a part for the map, one for the calls, one for their      *)
(* handlers, one for whose an operation is, one for what a call has        *)
(* reached and one for what keeps a session waiting.                       *)
(***************************************************************************)
EXTENDS ExecRequestContract, FiniteSetTheorems, TLAPS

\* The map: who made an operation and of what.  No client has two, and a server
\* that has ended has no operation and no handler.
MapInv ==
  /\ ~up => \A i \in Ids : life[i] \notin InMap
  /\ ~up => \A c \in Clients : handler[c] = "none"
  /\ \A i \in Ids : life[i] = "free" => owner[i] = NoId /\ attached[i] = {}
  /\ \A i \in Ids : life[i] # "free" =>
        owner[i] \in Clients /\ body[i] \in Posts /\ fds[i] = Streams(body[i])
  /\ \A i, j \in Ids : owner[i] = owner[j] /\ owner[i] # NoId => i = j

\* A call under way is one that its client made where it is.
CallInv ==
  \A c \in Clients :
    /\ net[c] # "none" => \/ pc[c] = "post" /\ asked[c].name = "post"
                          \/ pc[c] = "use" /\ asked[c].name \in {"dial"} \cup Queries
    /\ pc[c] = "post" => net[c] # "none"

\* A handler serves the call that its client made, and outlives it only when
\* the client was harmed.
HandlerInv ==
  \A c \in Clients :
    /\ handler[c] # "none" =>
         \/ net[c] = "handled"
         \/ c \in harmed /\ (net[c] = "broken" \/ pc[c] \in {"failed", "gaveUp", "dead"})
    /\ handler[c] \in {"exec", "run", "render"} => asked[c].name = "post"
    /\ handler[c] = "websocket" => asked[c].name = "dial" /\ id[c] \in Ids
    /\ handler[c] \in {"operation", "notFound"} => asked[c].name \in Queries

\* The operation i is the client's, and Run has been called.
Mine(c, i) == i \in Ids /\ owner[i] = c /\ life[i] \notin {"free", "pending"}

\* The client's POST has made no operation, or will not have.
NoneYet(c) ==
  \/ pc[c] \in {"start", "refused"}
  \/ pc[c] = "post" /\ net[c] = "request"
  \/ handler[c] = "exec"
  \/ asked[c].name = "post" /\ net[c] = "answer" /\ answer[c].says # "operation"

\* The id that a handler, an answer or a client holds is of the client's own
\* operation.
OwnInv ==
  \A c \in Clients :
    /\ NoneYet(c) => \A i \in Ids : owner[i] # c
    /\ handler[c] \in {"run", "render"} => made[c] \in Ids /\ owner[made[c]] = c
    /\ handler[c] = "run" => life[made[c]] = "pending"
    /\ handler[c] = "render" => Mine(c, made[c])
    /\ asked[c].name = "post" /\ net[c] = "answer" /\ answer[c].says = "operation" =>
         Mine(c, answer[c].id)
    /\ id[c] \in Ids => Mine(c, id[c])
    /\ pc[c] = "use" => id[c] \in Ids
    /\ pc[c] \in {"start", "post", "refused"} => id[c] = NoId /\ dialled[c] = {}

\* Where an operation is that accepts no stream any more.
Over == {"final", "gone", "lost"}

\* What a call has reached: a dial is of a stream that exists and is answered
\* as the operation was found, a query comes after all dials, and a connection
\* that breaks by itself is the server's end.
Reach(c) ==
  /\ net[c] # "none" /\ asked[c].name = "dial" => asked[c].fd \in fds[id[c]]
  /\ net[c] = "answer" /\ asked[c].name = "dial" =>
       IF answer[c].says = "upgrade" THEN asked[c].fd \in attached[id[c]] ELSE life[id[c]] \in Over
  /\ id[c] \in Ids => dialled[c] \subseteq attached[id[c]]
  /\ net[c] # "none" /\ asked[c].name \in Queries => Awaited(body[id[c]]) \subseteq attached[id[c]]
  /\ net[c] = "broken" /\ c \notin harmed =>
       \A i \in Ids : owner[i] = c => life[i] \in {"gone", "lost"}

ReachInv == \A c \in Clients : Reach(c)

\* An operation that lacks a stream, of a client that nothing happened to.
Waiting(i) ==
  /\ life[i] \in {"pending", "running"}
  /\ owner[i] \notin harmed
  /\ ~(Awaited(body[i]) \subseteq attached[i])

\* Its client is still on its way to dialling.
Explained(i, c) ==
  \/ pc[c] = "post" /\ handler[c] \in {"run", "render"} /\ made[c] = i
  \/ pc[c] = "post" /\ net[c] = "answer" /\ answer[c] = Says("operation", i)
  \/ pc[c] = "use" /\ id[c] = i

FaultInv == \A i \in Ids : Waiting(i) => Explained(i, owner[i])

\* The values of the calls' variables.
Nets == {"none", "request", "handled", "answer", "broken"}

Answers == [says : {"nothing", "operation", "error", "upgrade", "text"}, id : Ids \cup {NoId}]

Calls == [name : {"none", "post", "dial"} \cup Queries, fd : AnyFd]

AnswerTypes == answer \in [Clients -> Answers]

\* The invariant that RequestNext preserves.
RequestInv ==
  /\ RequestTypeOK
  /\ AnswerTypes
  /\ MapInv
  /\ CallInv
  /\ HandlerInv
  /\ OwnInv
  /\ ReachInv
  /\ FaultInv
  /\ RefusedIsOver
  /\ OkIsFromTheMap

-----------------------------------------------------------------------------
(* What a body makes of a session.                                           *)
LEMMA StreamFacts ==
  ASSUME NEW p \in Bodies
  PROVE  /\ Secrets(p) = Streams(p)
         /\ Streams(p) \subseteq AnyFd
         /\ Awaited(p) \subseteq Streams(p)
<1>1. p.interactive \in BOOLEAN
  BY DEF Bodies
<1>2. CASE p.interactive
  <2>1. Streams(p) = {-1, 0}
    BY <1>2 DEF Streams, Control
  <2>2. Cardinality({-1, 0}) = 2
    <3>1. Cardinality({0}) = 1 /\ IsFiniteSet({0})
      BY FS_Singleton
    <3>2. {-1, 0} = {0} \cup {-1} /\ -1 \notin {0}
      OBVIOUS
    <3> QED BY <3>1, <3>2, FS_AddElement
  <2>3. Secrets(p) = -1 .. 0
    BY <2>1, <2>2 DEF Secrets, Control
  <2> QED BY <2>1, <2>3 DEF AnyFd, Control, Awaited
<1>3. CASE ~p.interactive
  <2>1. Streams(p) = {-1, 0, 1, 2}
    BY <1>3 DEF Streams, Control
  <2>2. Cardinality({-1, 0, 1, 2}) = 4
    <3>1. Cardinality({0}) = 1 /\ IsFiniteSet({0})
      BY FS_Singleton
    <3>2. {-1, 0} = {0} \cup {-1} /\ -1 \notin {0}
      OBVIOUS
    <3>3. Cardinality({-1, 0}) = 2 /\ IsFiniteSet({-1, 0})
      BY <3>1, <3>2, FS_AddElement
    <3>4. {-1, 0, 1} = {-1, 0} \cup {1} /\ 1 \notin {-1, 0}
      OBVIOUS
    <3>5. Cardinality({-1, 0, 1}) = 3 /\ IsFiniteSet({-1, 0, 1})
      BY <3>3, <3>4, FS_AddElement
    <3>6. {-1, 0, 1, 2} = {-1, 0, 1} \cup {2} /\ 2 \notin {-1, 0, 1}
      OBVIOUS
    <3> QED BY <3>5, <3>6, FS_AddElement
  <2>3. Secrets(p) = -1 .. 2
    BY <2>1, <2>2 DEF Secrets, Control
  <2> QED BY <2>1, <2>3 DEF AnyFd, Control, Awaited
<1> QED BY <1>1, <1>2, <1>3

(* The client dials every stream that the session waits for, and no other    *)
(* than those it has a secret for.                                           *)
LEMMA DialFacts ==
  ASSUME NEW i \in Ids, body[i] \in Bodies, fds[i] = Streams(body[i])
  PROVE  Awaited(body[i]) \subseteq ToDial(i) /\ ToDial(i) \subseteq fds[i]
<1>1. body[i].interactive \in BOOLEAN
  BY DEF Bodies
<1> QED BY <1>1 DEF ToDial, Streams, Awaited, Control

\* The types of the records that the actions put together.
LEMMA RecordFacts ==
  /\ \A b \in {"nothing", "operation", "error", "upgrade", "text"}, i \in Ids \cup {NoId} :
        Says(b, i) \in Answers
  /\ NoAnswer \in Answers
  /\ \A n \in {"none", "post", "dial"} \cup Queries, fd \in AnyFd : CallOf(n, fd) \in Calls
  /\ NoCall \in Calls
  /\ NoBody \in Bodies
  /\ Control \in AnyFd
BY DEF Says, Answers, NoAnswer, CallOf, Calls, NoCall, NoBody, Bodies, AnyFd, Control

\* What Reply does to the calls.
LEMMA ReplyFacts ==
  ASSUME RequestTypeOK, AnswerTypes, NEW c \in Clients, NEW a \in Answers, Reply(c, a)
  PROVE  /\ net' = [net EXCEPT ![c] = IF net[c] = "handled" THEN "answer" ELSE net[c]]
         /\ answer' = [answer EXCEPT ![c] = IF net[c] = "handled" THEN a ELSE answer[c]]
         /\ net' \in [Clients -> Nets] /\ answer' \in [Clients -> Answers]
<1>1. net \in [Clients -> Nets] /\ answer \in [Clients -> Answers]
  BY DEF RequestTypeOK, AnswerTypes, Nets
<1>2. CASE net[c] = "handled"
  BY <1>1, <1>2 DEF Reply, Nets
<1>3. CASE net[c] # "handled"
  BY <1>1, <1>3 DEF Reply, netVars
<1> QED BY <1>2, <1>3

\* The end of a call.
LEMMA HangUpFacts ==
  ASSUME RequestTypeOK, AnswerTypes, NEW c \in Clients, HangUp(c)
  PROVE  /\ net' = [net EXCEPT ![c] = "none"] /\ net' \in [Clients -> Nets]
         /\ answer' = [answer EXCEPT ![c] = NoAnswer] /\ AnswerTypes'
         /\ asked' = [asked EXCEPT ![c] = IF net[c] = "answer" THEN NoCall ELSE asked[c]]
         /\ asked' \in [Clients -> Calls]
<1>1. net \in [Clients -> Nets] /\ answer \in [Clients -> Answers] /\ asked \in [Clients -> Calls]
  BY DEF RequestTypeOK, AnswerTypes, Nets, Calls
<1>2. net' = [net EXCEPT ![c] = "none"] /\ net' \in [Clients -> Nets]
  BY <1>1 DEF HangUp, Nets
<1>3. answer' = [answer EXCEPT ![c] = NoAnswer] /\ AnswerTypes'
  BY <1>1, RecordFacts DEF HangUp, AnswerTypes
<1>4. asked' = [asked EXCEPT ![c] = IF net[c] = "answer" THEN NoCall ELSE asked[c]]
  BY <1>1 DEF HangUp
<1>5. asked' \in [Clients -> Calls]
  BY <1>1, <1>4, RecordFacts
<1> QED BY <1>2, <1>3, <1>4, <1>5

\* The start of a call.
LEMMA CallFacts ==
  ASSUME RequestTypeOK, AnswerTypes, NEW c \in Clients, NEW what \in Calls, Call(c, what)
  PROVE  /\ net[c] = "none"
         /\ net' = [net EXCEPT ![c] = IF up THEN "request" ELSE "broken"]
         /\ net' \in [Clients -> Nets]
         /\ asked' = [asked EXCEPT ![c] = what] /\ asked' \in [Clients -> Calls]
         /\ UNCHANGED <<up, life, owner, body, fds, attached, handler, made, answer, id,
                        dialled, harmed>>
<1>1. net \in [Clients -> Nets] /\ asked \in [Clients -> Calls]
  BY DEF RequestTypeOK, Nets, Calls
<1> QED BY <1>1 DEF Call, Nets, mapVars, handlerVars

\* The state of the map, of the calls and of the handlers stays in its types.
LEMMA TypeStep ==
  ASSUME RequestInv, RequestNext
  PROVE  RequestTypeOK' /\ AnswerTypes'
<1> USE RequestAssumption DEF RequestInv
<1>1. ASSUME NEW c \in Clients, Accept(c)
      PROVE  RequestTypeOK' /\ AnswerTypes'
  <2>1. net' \in [Clients -> Nets]
    BY <1>1 DEF Accept, RequestTypeOK, Nets
  <2>2. handler' \in [Clients -> {"none", "exec", "run", "render", "websocket", "operation",
                                 "notFound"}]
    <3>1. asked[c].name \in {"post", "dial", "get", "delete", "list", "wait"}
      BY <1>1 DEF Accept, RequestTypeOK, CallInv
    <3> QED BY <1>1, <3>1 DEF Accept, RequestTypeOK
  <2> QED BY <1>1, <2>1, <2>2 DEF Accept, RequestTypeOK, AnswerTypes, Nets, mapVars, callerVars
<1>2. ASSUME NEW c \in Clients, Create(c)
      PROVE  RequestTypeOK' /\ AnswerTypes'
  <2>1. NewId \in Ids /\ life[NewId] = "free"
    BY <1>2 DEF Create, NewId
  <2>2. attached[NewId] = {}
    BY <2>1 DEF MapInv
  <2>3. posted' \in [Clients -> Posts \cup {NoBody}]
    BY <1>2 DEF Create, RequestTypeOK
  <2>4. CASE handler' = [handler EXCEPT ![c] = "run"] /\ UNCHANGED netVars /\ made' = [made EXCEPT ![c] = NewId]
             /\ life' = [life EXCEPT ![NewId] = "pending"] /\ owner' = [owner EXCEPT ![NewId] = c]
             /\ body' = [body EXCEPT ![NewId] = posted[c]]
             /\ fds' = [fds EXCEPT ![NewId] = Secrets(posted[c])]
    <3>1. Secrets(posted[c]) \subseteq AnyFd
      BY RecordFacts, StreamFacts DEF RequestTypeOK
    <3> QED BY <1>2, <2>1, <2>2, <2>3, <2>4, <3>1
        DEF Create, RequestTypeOK, AnswerTypes, InMap, netVars
  <2>5. CASE handler' = [handler EXCEPT ![c] = "none"] /\ Reply(c, Says("error", NoId))
             /\ UNCHANGED <<life, owner, body, fds, made>>
    <3>1. net' \in [Clients -> Nets] /\ answer' \in [Clients -> Answers]
      BY <2>5, RecordFacts, ReplyFacts
    <3> QED BY <1>2, <2>3, <2>5, <3>1 DEF Create, RequestTypeOK, AnswerTypes, Nets
  <2> QED BY <1>2, <2>4, <2>5 DEF Create
<1>3. ASSUME NEW c \in Clients, RunCreated(c)
      PROVE  RequestTypeOK' /\ AnswerTypes'
  BY <1>3 DEF RunCreated, netVars, callerVars, InMap, RequestTypeOK, AnswerTypes
<1>4. ASSUME NEW c \in Clients, AnswerPost(c)
      PROVE  RequestTypeOK' /\ AnswerTypes'
  <2>1. Says("operation", made[c]) \in Answers
    BY RecordFacts DEF RequestTypeOK
  <2>2. net' \in [Clients -> Nets] /\ answer' \in [Clients -> Answers]
    BY <1>4, <2>1, ReplyFacts DEF AnswerPost
  <2> QED BY <1>4, <2>2 DEF AnswerPost, mapVars, callerVars, RequestTypeOK, AnswerTypes, Nets
<1>5. ASSUME NEW c \in Clients, AnswerDial(c)
      PROVE  RequestTypeOK' /\ AnswerTypes'
  <2>1. id[c] \in Ids
    BY <1>5 DEF AnswerDial, HandlerInv
  <2>2. net' \in [Clients -> Nets] /\ answer' \in [Clients -> Answers]
    BY <1>5, <2>1, RecordFacts, ReplyFacts DEF AnswerDial
  <2>3. /\ attached' \in [Ids -> SUBSET AnyFd]
        /\ \A i \in Ids : attached'[i] \subseteq fds[i]
    <3>1. CASE UNCHANGED attached
      BY <1>5, <3>1 DEF AnswerDial, RequestTypeOK
    <3>2. CASE /\ asked[c].fd \in fds[id[c]]
               /\ attached' = [attached EXCEPT ![id[c]] = attached[id[c]] \cup {asked[c].fd}]
      <4>1. asked[c].fd \in AnyFd
        BY DEF RequestTypeOK
      <4> QED BY <2>1, <3>2, <4>1 DEF RequestTypeOK
    <3> QED BY <1>5, <3>1, <3>2 DEF AnswerDial, Connectable
  <2> QED BY <1>5, <2>2, <2>3 DEF AnswerDial, callerVars, RequestTypeOK, AnswerTypes, Nets
<1>6. ASSUME NEW c \in Clients, AnswerQuery(c) \/ AnswerNotFound(c)
      PROVE  RequestTypeOK' /\ AnswerTypes'
  <2>1. net' \in [Clients -> Nets] /\ answer' \in [Clients -> Answers]
    BY <1>6, RecordFacts, ReplyFacts DEF AnswerQuery, AnswerNotFound
  <2> QED BY <1>6, <2>1
      DEF AnswerQuery, AnswerNotFound, mapVars, callerVars, RequestTypeOK, AnswerTypes, Nets
<1>7. ASSUME NEW i \in Ids, StartSession(i) \/ EndSession(i) \/ Forget(i)
      PROVE  RequestTypeOK' /\ AnswerTypes'
  <2>1. life' \in [Ids -> InMap \cup {"free", "gone", "lost"}]
    <3>1. \E l \in {"started", "final", "gone"} : life' = [life EXCEPT ![i] = l]
      BY <1>7 DEF StartSession, EndSession, Forget
    <3> QED BY <3>1 DEF InMap, RequestTypeOK
  <2>2. UNCHANGED <<up, owner, body, fds, attached, handlerVars, netVars, callerVars>>
    BY <1>7 DEF StartSession, EndSession, Forget
  <2> QED BY <2>1, <2>2 DEF handlerVars, netVars, callerVars, RequestTypeOK, AnswerTypes
<1>8. ASSUME ServerEnds
      PROVE  RequestTypeOK' /\ AnswerTypes'
  BY <1>8, RecordFacts DEF ServerEnds, InMap, callerVars, RequestTypeOK, AnswerTypes
<1>9. ASSUME Restart
      PROVE  RequestTypeOK' /\ AnswerTypes'
  BY <1>9 DEF Restart, mapVars, handlerVars, netVars, callerVars, RequestTypeOK, AnswerTypes
<1>10. ASSUME NEW c \in Clients, NEW what \in Calls, Call(c, what),
              pc' \in [Clients -> {"start", "post", "use", "refused", "failed", "gaveUp", "dead"}],
              posted' \in [Clients -> Posts \cup {NoBody}]
       PROVE  RequestTypeOK' /\ AnswerTypes'
  BY <1>10, CallFacts DEF RequestTypeOK, AnswerTypes, Nets, Calls
<1>11. ASSUME NEW c \in Clients, PostExec(c)
       PROVE  RequestTypeOK' /\ AnswerTypes'
  BY <1>10, <1>11, RecordFacts DEF PostExec, RequestTypeOK
<1>12. ASSUME NEW c \in Clients, DialNext(c)
       PROVE  RequestTypeOK' /\ AnswerTypes'
  <2>1. Missing(c) \subseteq AnyFd
    BY DEF Missing, ToDial, AnyFd, Control
  <2> QED BY <1>10, <1>12, <2>1, RecordFacts DEF DialNext, RequestTypeOK
<1>13. ASSUME NEW c \in Clients, Query(c)
       PROVE  RequestTypeOK' /\ AnswerTypes'
  BY <1>10, <1>13, RecordFacts DEF Query, RequestTypeOK
<1>14. ASSUME NEW c \in Clients, HangUp(c), harmed' \subseteq Lossy,
              pc' \in [Clients -> {"start", "post", "use", "refused", "failed", "gaveUp", "dead"}],
              id' \in [Clients -> Ids \cup {NoId}],
              dialled' \in [Clients -> SUBSET AnyFd],
              UNCHANGED <<up, life, owner, body, fds, attached, handler, made, posted>>
       PROVE  RequestTypeOK' /\ AnswerTypes'
  BY <1>14, HangUpFacts DEF RequestTypeOK, Nets, Calls
<1>15. ASSUME NEW c \in Clients, ReceivePost(c)
       PROVE  RequestTypeOK' /\ AnswerTypes'
  <2>1. id' \in [Clients -> Ids \cup {NoId}]
    BY <1>15 DEF ReceivePost, RequestTypeOK, AnswerTypes, Answers
  <2>2. pc' \in [Clients -> {"start", "post", "use", "refused", "failed", "gaveUp", "dead"}]
    <3>1. \E s \in {"use", "refused"} : pc' = [pc EXCEPT ![c] = s]
      BY <1>15 DEF ReceivePost
    <3> QED BY <3>1 DEF RequestTypeOK
  <2> QED BY <1>14, <1>15, <2>1, <2>2 DEF ReceivePost, RequestTypeOK, mapVars, handlerVars
<1>16. ASSUME NEW c \in Clients, ReceiveDial(c)
       PROVE  RequestTypeOK' /\ AnswerTypes'
  <2>1. dialled' \in [Clients -> SUBSET AnyFd]
    <3>1. asked[c].fd \in AnyFd
      BY DEF RequestTypeOK
    <3> QED BY <1>16, <3>1 DEF ReceiveDial, RequestTypeOK
  <2>2. pc' \in [Clients -> {"start", "post", "use", "refused", "failed", "gaveUp", "dead"}]
    BY <1>16 DEF ReceiveDial, RequestTypeOK
  <2> QED BY <1>14, <1>16, <2>1, <2>2 DEF ReceiveDial, RequestTypeOK, mapVars, handlerVars
<1>17. ASSUME NEW c \in Clients, ReceiveQuery(c)
       PROVE  RequestTypeOK' /\ AnswerTypes'
  BY <1>14, <1>17 DEF ReceiveQuery, RequestTypeOK, mapVars, handlerVars
<1>18. ASSUME NEW c \in Clients, ReceiveBreak(c)
       PROVE  RequestTypeOK' /\ AnswerTypes'
  BY <1>14, <1>18 DEF ReceiveBreak, RequestTypeOK, mapVars, handlerVars
<1>19. ASSUME NEW c \in Clients, Die(c)
       PROVE  RequestTypeOK' /\ AnswerTypes'
  BY <1>14, <1>19 DEF Die, RequestTypeOK, mapVars, handlerVars
<1>20. ASSUME NEW c \in Clients, Break(c)
       PROVE  RequestTypeOK' /\ AnswerTypes'
  BY <1>20, RecordFacts DEF Break, mapVars, handlerVars, RequestTypeOK, AnswerTypes
<1> QED
  BY <1>1, <1>2, <1>3, <1>4, <1>5, <1>6, <1>7, <1>8, <1>9, <1>11, <1>12, <1>13, <1>15, <1>16,
     <1>17, <1>18, <1>19, <1>20
  DEF RequestNext, Handle, Caller, Panic, Killed

-----------------------------------------------------------------------------
\* What a client, or a fault of its, leaves alone.
ClientStep(c) ==
  PostExec(c) \/ Query(c) \/ DialNext(c) \/ ReceivePost(c) \/ ReceiveDial(c)
    \/ ReceiveQuery(c) \/ ReceiveBreak(c) \/ Break(c) \/ Die(c)

\* No step of a client touches the server.
LEMMA ClientLeavesServer ==
  ASSUME NEW c \in Clients, ClientStep(c)
  PROVE  UNCHANGED <<up, life, owner, body, fds, attached, handler, made>>
BY DEF ClientStep, PostExec, Query, DialNext, ReceivePost, ReceiveDial, ReceiveQuery,
   ReceiveBreak, Break, Die, Call, mapVars, handlerVars

\* The id that Create takes is free.
LEMMA NewIdIsFree ==
  ASSUME NEW c \in Clients, Create(c)
  PROVE  NewId \in Ids /\ life[NewId] = "free"
BY DEF Create, NewId

\* The map says whose an operation is, and what of.
LEMMA MapStep ==
  ASSUME RequestInv, RequestNext
  PROVE  MapInv'
<1> USE DEF RequestInv
<1>1. ASSUME NEW c \in Clients, ClientStep(c)
      PROVE  MapInv'
  BY <1>1, ClientLeavesServer DEF MapInv
<1>2. ASSUME NEW c \in Clients, Accept(c) \/ AnswerPost(c) \/ AnswerQuery(c) \/ AnswerNotFound(c)
      PROVE  MapInv'
  BY <1>2 DEF Accept, AnswerPost, AnswerQuery, AnswerNotFound, mapVars, MapInv, RequestTypeOK
<1>3. ASSUME NEW c \in Clients, Create(c)
      PROVE  MapInv'
  <2>1. NewId \in Ids /\ life[NewId] = "free"
    BY <1>3, NewIdIsFree
  <2>2. up
    BY <1>3 DEF Create, MapInv
  <2>3. \A i \in Ids : owner[i] # c
    BY <1>3 DEF Create, OwnInv, NoneYet
  <2>4. c # NoId
    BY RequestAssumption
  <2>5. CASE UNCHANGED <<life, owner, body, fds>>
    BY <1>3, <2>2, <2>5 DEF Create, MapInv, RequestTypeOK
  <2>6. CASE /\ posted[c].json
             /\ life' = [life EXCEPT ![NewId] = "pending"]
             /\ owner' = [owner EXCEPT ![NewId] = c]
             /\ body' = [body EXCEPT ![NewId] = posted[c]]
             /\ fds' = [fds EXCEPT ![NewId] = Secrets(posted[c])]
    <3>1. posted[c] \in Posts /\ Secrets(posted[c]) = Streams(posted[c])
      BY <2>6, StreamFacts, RequestAssumption DEF NoBody, RequestTypeOK
    <3> QED BY <1>3, <2>1, <2>2, <2>3, <2>4, <2>6, <3>1 DEF Create, MapInv, RequestTypeOK
  <2> QED BY <1>3, <2>5, <2>6 DEF Create
<1>4. ASSUME NEW c \in Clients, RunCreated(c)
      PROVE  MapInv'
  <2>1. up /\ made[c] \in Ids /\ life[made[c]] = "pending"
    BY <1>4 DEF RunCreated, MapInv, OwnInv
  <2> QED BY <1>4, <2>1 DEF RunCreated, MapInv, RequestTypeOK
<1>5. ASSUME NEW c \in Clients, AnswerDial(c)
      PROVE  MapInv'
  <2>1. up /\ life[id[c]] \notin {"free", "pending"} /\ id[c] \in Ids
    BY <1>5 DEF AnswerDial, MapInv, HandlerInv, OwnInv, Mine
  <2> QED BY <1>5, <2>1 DEF AnswerDial, MapInv, RequestTypeOK
<1>6. ASSUME NEW i \in Ids, StartSession(i) \/ EndSession(i) \/ Forget(i)
      PROVE  MapInv'
  <2>1. life[i] \in InMap /\ up
    BY <1>6 DEF StartSession, EndSession, Forget, Connected, InMap, MapInv
  <2>2. /\ \E l \in {"started", "final", "gone"} : life' = [life EXCEPT ![i] = l]
        /\ UNCHANGED <<up, owner, body, fds, attached, handler, made>>
    BY <1>6 DEF StartSession, EndSession, Forget, handlerVars
  <2> QED BY <2>1, <2>2 DEF MapInv, RequestTypeOK, InMap
<1>7. CASE ServerEnds
  BY <1>7 DEF ServerEnds, MapInv, RequestTypeOK, InMap
<1>8. CASE Restart
  BY <1>8 DEF Restart, mapVars, handlerVars, MapInv
<1> QED
  BY <1>1, <1>2, <1>3, <1>4, <1>5, <1>6, <1>7, <1>8
  DEF RequestNext, Handle, Caller, Panic, Killed, ClientStep

-----------------------------------------------------------------------------
\* The call that a client has made fits its place.
LEMMA CallStep ==
  ASSUME RequestInv, RequestNext
  PROVE  CallInv'
<1> USE RequestAssumption DEF RequestInv
<1>1. ASSUME NEW c \in Clients, NEW a \in Answers, Reply(c, a), UNCHANGED <<pc, asked>>
      PROVE  CallInv'
  BY <1>1, ReplyFacts DEF CallInv, RequestTypeOK
<1>2. ASSUME NEW c \in Clients, Accept(c) \/ RunCreated(c)
      PROVE  CallInv'
  BY <1>2 DEF Accept, RunCreated, netVars, callerVars, CallInv, RequestTypeOK
<1>3. ASSUME NEW c \in Clients, Create(c)
      PROVE  CallInv'
  BY <1>1, <1>3, RecordFacts DEF Create, netVars, CallInv
<1>4. ASSUME NEW c \in Clients,
             AnswerPost(c) \/ AnswerDial(c) \/ AnswerQuery(c) \/ AnswerNotFound(c)
      PROVE  CallInv'
  <2>1. made[c] \in Ids \cup {NoId} /\ id[c] \in Ids \cup {NoId}
    BY DEF RequestTypeOK
  <2>2. PICK a \in Answers : Reply(c, a)
    BY <1>4, <2>1, RecordFacts DEF AnswerPost, AnswerDial, AnswerQuery, AnswerNotFound
  <2> QED BY <1>1, <1>4, <2>2
      DEF AnswerPost, AnswerDial, AnswerQuery, AnswerNotFound, callerVars
<1>5. ASSUME NEW i \in Ids, StartSession(i) \/ EndSession(i) \/ Forget(i)
      PROVE  CallInv'
  BY <1>5 DEF StartSession, EndSession, Forget, netVars, callerVars, CallInv
<1>6. CASE ServerEnds
  BY <1>6 DEF ServerEnds, callerVars, CallInv, RequestTypeOK
<1>7. CASE Restart
  BY <1>7 DEF Restart, netVars, callerVars, CallInv
<1>8. ASSUME NEW c \in Clients, PostExec(c) \/ DialNext(c) \/ Query(c)
      PROVE  CallInv'
  <2>1. Missing(c) \subseteq AnyFd
    BY DEF Missing, ToDial, AnyFd, Control, RequestTypeOK
  <2>2. PICK n \in {"post", "dial"} \cup Queries, fd \in AnyFd :
          /\ Call(c, CallOf(n, fd))
          /\ \/ pc' = [pc EXCEPT ![c] = "post"] /\ n = "post"
             \/ pc' = pc /\ pc[c] = "use" /\ n # "post"
    BY <1>8, <2>1, RecordFacts DEF PostExec, DialNext, Query
  <2>3. CallOf(n, fd) \in Calls /\ CallOf(n, fd).name = n
    BY RecordFacts DEF CallOf
  <2> QED BY <2>2, <2>3, CallFacts DEF CallInv, RequestTypeOK
<1>9. ASSUME NEW c \in Clients, HangUp(c), pc'[c] # "post",
             \A d \in Clients \ {c} : pc'[d] = pc[d]
      PROVE  CallInv'
  BY <1>9, HangUpFacts DEF CallInv, RequestTypeOK
<1>10. ASSUME NEW c \in Clients,
              ReceivePost(c) \/ ReceiveDial(c) \/ ReceiveQuery(c) \/ ReceiveBreak(c) \/ Die(c)
       PROVE  CallInv'
  <2>1. HangUp(c)
    BY <1>10 DEF ReceivePost, ReceiveDial, ReceiveQuery, ReceiveBreak, Die
  <2>2. pc'[c] # "post" /\ \A d \in Clients \ {c} : pc'[d] = pc[d]
    BY <1>10 DEF ReceivePost, ReceiveDial, ReceiveQuery, ReceiveBreak, Die, CallInv, RequestTypeOK
  <2> QED BY <1>9, <2>1, <2>2
<1>11. ASSUME NEW c \in Clients, Break(c)
       PROVE  CallInv'
  BY <1>11 DEF Break, CallInv, RequestTypeOK
<1> QED
  BY <1>2, <1>3, <1>4, <1>5, <1>6, <1>7, <1>8, <1>10, <1>11
  DEF RequestNext, Handle, Caller, Panic, Killed

-----------------------------------------------------------------------------
\* A handler works on the call that its client made, and goes on alone only
\* after a fault.
LEMMA HandlerStep ==
  ASSUME RequestInv, RequestNext
  PROVE  HandlerInv'
<1> USE RequestAssumption DEF RequestInv
<1>1. ASSUME NEW c \in Clients, Accept(c)
      PROVE  HandlerInv'
  <2>1. asked[c].name \in {"post", "dial"} \cup Queries
    BY <1>1 DEF Accept, CallInv
  <2>2. asked[c].name = "dial" => id[c] \in Ids
    BY <1>1 DEF Accept, CallInv, OwnInv
  <2>3. handler'[c] # "none" /\ net'[c] = "handled" /\ UNCHANGED <<pc, asked, id, harmed>>
    BY <1>1, <2>1 DEF Accept, callerVars, RequestTypeOK
  <2>4. \A d \in Clients \ {c} : handler'[d] = handler[d] /\ net'[d] = net[d]
    BY <1>1 DEF Accept, RequestTypeOK
  <2>5. /\ handler'[c] \in {"exec", "run", "render"} => asked[c].name = "post"
        /\ handler'[c] = "websocket" => asked[c].name = "dial"
        /\ handler'[c] \in {"operation", "notFound"} => asked[c].name \in Queries
    BY <1>1, <2>1 DEF Accept, RequestTypeOK
  <2> QED BY <2>2, <2>3, <2>4, <2>5 DEF HandlerInv
<1>2. ASSUME NEW c \in Clients, NEW a \in Answers, Reply(c, a),
             handler' = [handler EXCEPT ![c] = "none"], UNCHANGED <<pc, asked, id, harmed>>
      PROVE  HandlerInv'
  BY <1>2, ReplyFacts DEF HandlerInv, RequestTypeOK
<1>3. ASSUME NEW c \in Clients, Create(c)
      PROVE  HandlerInv'
  <2>1. CASE handler' = [handler EXCEPT ![c] = "run"] /\ UNCHANGED netVars
    BY <1>3, <2>1 DEF Create, netVars, HandlerInv, RequestTypeOK
  <2>2. CASE handler' = [handler EXCEPT ![c] = "none"] /\ Reply(c, Says("error", NoId))
    BY <1>2, <1>3, <2>2, RecordFacts DEF Create
  <2> QED BY <1>3, <2>1, <2>2 DEF Create
<1>4. ASSUME NEW c \in Clients, RunCreated(c)
      PROVE  HandlerInv'
  BY <1>4 DEF RunCreated, netVars, callerVars, HandlerInv, RequestTypeOK
<1>5. ASSUME NEW c \in Clients,
             AnswerPost(c) \/ AnswerDial(c) \/ AnswerQuery(c) \/ AnswerNotFound(c)
      PROVE  HandlerInv'
  <2>1. made[c] \in Ids \cup {NoId} /\ id[c] \in Ids \cup {NoId}
    BY DEF RequestTypeOK
  <2>2. PICK a \in Answers : Reply(c, a)
    BY <1>5, <2>1, RecordFacts DEF AnswerPost, AnswerDial, AnswerQuery, AnswerNotFound
  <2> QED BY <1>2, <1>5, <2>2
      DEF AnswerPost, AnswerDial, AnswerQuery, AnswerNotFound, callerVars
<1>6. ASSUME NEW i \in Ids, StartSession(i) \/ EndSession(i) \/ Forget(i)
      PROVE  HandlerInv'
  BY <1>6 DEF StartSession, EndSession, Forget, handlerVars, netVars, callerVars, HandlerInv
<1>7. CASE ServerEnds
  BY <1>7 DEF ServerEnds, HandlerInv
<1>8. CASE Restart
  BY <1>8 DEF Restart, handlerVars, netVars, callerVars, HandlerInv
<1>9. ASSUME NEW c \in Clients, PostExec(c) \/ DialNext(c) \/ Query(c)
      PROVE  HandlerInv'
  <2>1. Missing(c) \subseteq AnyFd
    BY DEF Missing, ToDial, AnyFd, Control, RequestTypeOK
  <2>2. PICK what \in Calls : Call(c, what)
    BY <1>9, <2>1, RecordFacts DEF PostExec, DialNext, Query
  <2>3. pc[c] \in {"start", "use"}
    BY <1>9 DEF PostExec, DialNext, Query
  <2>4. net[c] = "none"
    BY <2>2 DEF Call
  <2>5. handler[c] = "none"
    BY <2>3, <2>4 DEF HandlerInv
  <2>6. \A d \in Clients \ {c} : pc'[d] = pc[d]
    BY <1>9 DEF PostExec, DialNext, Query, RequestTypeOK
  <2> QED BY <2>2, <2>5, <2>6, CallFacts DEF HandlerInv, RequestTypeOK
<1>10. ASSUME NEW c \in Clients, HangUp(c), harmed \subseteq harmed', handler[c] = "none",
              \A d \in Clients \ {c} : pc'[d] = pc[d] /\ id'[d] = id[d], UNCHANGED handler
       PROVE  HandlerInv'
  BY <1>10, HangUpFacts DEF HandlerInv, RequestTypeOK
<1>11. ASSUME NEW c \in Clients, ReceivePost(c) \/ ReceiveDial(c) \/ ReceiveQuery(c)
       PROVE  HandlerInv'
  <2>1. net[c] = "answer"
    BY <1>11 DEF ReceivePost, ReceiveDial, ReceiveQuery
  <2>2. handler[c] = "none"
    BY <2>1, <1>11 DEF HandlerInv, CallInv
  <2>3. \A d \in Clients \ {c} : pc'[d] = pc[d] /\ id'[d] = id[d]
    BY <1>11 DEF ReceivePost, ReceiveDial, ReceiveQuery, RequestTypeOK
  <2> QED BY <1>10, <1>11, <2>2, <2>3 DEF ReceivePost, ReceiveDial, ReceiveQuery, handlerVars
<1>12. ASSUME NEW c \in Clients, ReceiveBreak(c) \/ Die(c)
       PROVE  HandlerInv'
  <2>1. HangUp(c) /\ (net[c] = "answer" => handler[c] = "none")
    <3>1. net[c] = "answer" => pc[c] \in {"post", "use"}
      BY DEF CallInv
    <3>2. net[c] = "answer" => handler[c] = "none"
      BY <3>1 DEF HandlerInv
    <3> QED BY <1>12, <3>2 DEF ReceiveBreak, Die
  <2>2. /\ pc'[c] \in {"failed", "gaveUp", "dead"} /\ UNCHANGED <<handler, id>>
        /\ \A d \in Clients \ {c} : pc'[d] = pc[d]
        /\ harmed \subseteq harmed' /\ (handler[c] # "none" => c \in harmed')
    BY <1>12 DEF ReceiveBreak, Die, handlerVars, HandlerInv, RequestTypeOK
  <2>3. \A d \in Clients : handler[d] # "none" => asked'[d] = asked[d]
    BY <2>1, HangUpFacts DEF RequestTypeOK
  <2>4. \A d \in Clients \ {c} : net'[d] = net[d]
    BY <2>1, HangUpFacts DEF RequestTypeOK
  <2> QED BY <2>2, <2>3, <2>4 DEF HandlerInv
<1>13. ASSUME NEW c \in Clients, Break(c)
       PROVE  HandlerInv'
  BY <1>13 DEF Break, mapVars, handlerVars, HandlerInv, RequestTypeOK
<1> QED
  BY <1>1, <1>3, <1>4, <1>5, <1>6, <1>7, <1>8, <1>9, <1>11, <1>12, <1>13
  DEF RequestNext, Handle, Caller, Panic, Killed

-----------------------------------------------------------------------------
\* What a client is told is its own operation, and without an answer that says
\* so there is none before its handler makes it.
LEMMA OwnStep ==
  ASSUME RequestInv, RequestNext
  PROVE  OwnInv'
<1> USE RequestAssumption DEF RequestInv
<1>1. ASSUME NEW c \in Clients, Accept(c)
      PROVE  OwnInv'
  <2>1. handler'[c] = "exec" => NoneYet(c)
    BY <1>1 DEF Accept, CallInv, NoneYet, RequestTypeOK
  <2>2. handler'[c] \notin {"run", "render"} /\ net'[c] = "handled"
    BY <1>1 DEF Accept, CallInv, RequestTypeOK
  <2>3. /\ \A d \in Clients \ {c} : handler'[d] = handler[d] /\ net'[d] = net[d]
        /\ UNCHANGED <<pc, asked, id, dialled, owner, life, made, answer>>
    BY <1>1 DEF Accept, mapVars, callerVars, RequestTypeOK
  <2> QED BY <2>1, <2>2, <2>3 DEF OwnInv, NoneYet, Mine
<1>2. ASSUME NEW c \in Clients, Create(c)
      PROVE  OwnInv'
  <2>1. NewId \in Ids /\ life[NewId] = "free" /\ owner[NewId] = NoId
    BY <1>2, NewIdIsFree DEF MapInv
  <2>2. NoneYet(c) /\ asked[c].name = "post"
    BY <1>2 DEF Create, NoneYet, HandlerInv
  <2>3. UNCHANGED <<pc, asked, id, dialled>>
    BY <1>2 DEF Create
  <2>4. CASE /\ handler' = [handler EXCEPT ![c] = "none"]
             /\ Reply(c, Says("error", NoId))
             /\ UNCHANGED <<life, owner, body, fds, made>>
    <3>1. Says("error", NoId) \in Answers /\ Says("error", NoId).says # "operation"
      BY RecordFacts DEF Says
    <3>2. /\ \A d \in Clients \ {c} : net'[d] = net[d] /\ answer'[d] = answer[d]
          /\ net'[c] = "answer" => \/ net[c] = "answer" /\ answer'[c] = answer[c]
                                   \/ answer'[c].says # "operation"
      BY <2>4, <3>1, ReplyFacts DEF RequestTypeOK, AnswerTypes
    <3>3. \A d \in Clients : handler'[d] = IF d = c THEN "none" ELSE handler[d]
      BY <2>4 DEF RequestTypeOK
    <3>4. net'[c] = "request" => net[c] = "request"
      BY <2>4, <3>1, ReplyFacts DEF RequestTypeOK
    <3> QED BY <2>2, <2>3, <2>4, <3>2, <3>3, <3>4 DEF OwnInv, NoneYet, Mine
  <2>5. CASE /\ handler' = [handler EXCEPT ![c] = "run"]
             /\ UNCHANGED netVars
             /\ life' = [life EXCEPT ![NewId] = "pending"]
             /\ owner' = [owner EXCEPT ![NewId] = c]
             /\ made' = [made EXCEPT ![c] = NewId]
    <3>1. pc[c] \notin {"start", "refused"} /\ net[c] \notin {"request", "answer"}
      BY <1>2, <2>2 DEF Create, HandlerInv, CallInv
    <3>2. \A i \in Ids : owner[i] # c
      BY <2>2 DEF OwnInv
    <3>3. /\ \A i \in Ids : owner'[i] = IF i = NewId THEN c ELSE owner[i]
          /\ \A i \in Ids : life'[i] = IF i = NewId THEN "pending" ELSE life[i]
          /\ \A d \in Clients : made'[d] = IF d = c THEN NewId ELSE made[d]
          /\ \A d \in Clients : handler'[d] = IF d = c THEN "run" ELSE handler[d]
      BY <2>1, <2>5 DEF RequestTypeOK
    <3>4. net' = net /\ answer' = answer
      BY <2>5 DEF netVars
    <3>5. \A d \in Clients : d # c /\ ~NoneYet(d) => ~NoneYet(d)'
      BY <2>3, <3>3, <3>4 DEF NoneYet
    <3>6. \A d \in Clients, i \in Ids : Mine(d, i) => Mine(d, i)'
      BY <2>1, <3>3 DEF Mine
    <3>7. ~NoneYet(c)'
      BY <2>2, <2>3, <3>1, <3>3, <3>4 DEF NoneYet
    <3>8. \A d \in Clients : (NoneYet(d) => \A i \in Ids : owner[i] # d)'
      BY <2>3, <3>3, <3>4, <3>7 DEF OwnInv, NoneYet
    <3>9. \A d \in Clients \ {c} : handler[d] \in {"run", "render"} => made[d] # NewId
      BY <2>1 DEF OwnInv
    <3>10. /\ \A d \in Clients : asked[d].name = "post" /\ net[d] = "answer"
                /\ answer[d].says = "operation" => Mine(d, answer[d].id)
           /\ \A d \in Clients : id[d] \in Ids => Mine(d, id[d])
           /\ \A d \in Clients : handler[d] = "render" => Mine(d, made[d])
      BY DEF OwnInv
    <3>11. \A d \in Clients : (handler[d] = "render" => Mine(d, made[d]))'
      BY <3>3, <3>6, <3>10 DEF Mine
    <3>12. \A d \in Clients :
              /\ (handler[d] \in {"run", "render"} => made[d] \in Ids /\ owner[made[d]] = d)'
              /\ (handler[d] = "run" => life[made[d]] = "pending")'
      BY <2>1, <3>3, <3>9 DEF OwnInv
    <3>13. \A d \in Clients : /\ pc[d] = "use" => id[d] \in Ids
                              /\ pc[d] \in {"start", "post", "refused"} => id[d] = NoId /\ dialled[d] = {}
      BY DEF OwnInv
    <3>14. \A d \in Clients : (asked[d].name = "post" /\ net[d] = "answer"
                                 /\ answer[d].says = "operation" => Mine(d, answer[d].id))'
      BY <2>1, <2>3, <3>3, <3>4, <3>10 DEF Mine
    <3>15. \A d \in Clients : (id[d] \in Ids => Mine(d, id[d]))'
      BY <2>1, <2>3, <3>3, <3>10 DEF Mine
    <3>16. \A d \in Clients : /\ (pc[d] = "use" => id[d] \in Ids)'
                              /\ (pc[d] \in {"start", "post", "refused"} =>
                                    id[d] = NoId /\ dialled[d] = {})'
      BY <2>3, <3>13
    <3> QED BY <3>8, <3>11, <3>12, <3>14, <3>15, <3>16 DEF OwnInv
  <2> QED BY <1>2, <2>4, <2>5 DEF Create
<1>3. ASSUME NEW c \in Clients, RunCreated(c)
      PROVE  OwnInv'
  <2>1. made[c] \in Ids /\ owner[made[c]] = c /\ life[made[c]] = "pending"
    BY <1>3 DEF RunCreated, OwnInv
  <2>2. /\ \A i \in Ids : life'[i] = IF i = made[c] THEN "running" ELSE life[i]
        /\ \A d \in Clients : handler'[d] = IF d = c THEN "render" ELSE handler[d]
        /\ UNCHANGED <<owner, made, net, answer, pc, asked, id, dialled>>
    BY <1>3, <2>1 DEF RunCreated, netVars, callerVars, RequestTypeOK
  <2> QED BY <2>1, <2>2 DEF OwnInv, NoneYet, Mine
<1>4. ASSUME NEW c \in Clients, AnswerPost(c)
      PROVE  OwnInv'
  <2>1. Mine(c, made[c]) /\ Says("operation", made[c]) \in Answers
    BY <1>4, RecordFacts DEF AnswerPost, Answerable, OwnInv, RequestTypeOK
  <2>2. /\ \A d \in Clients \ {c} : net'[d] = net[d] /\ answer'[d] = answer[d]
        /\ net'[c] = "answer" => \/ net[c] = "answer" /\ answer'[c] = answer[c]
                                 \/ answer'[c] = Says("operation", made[c])
        /\ net'[c] = "request" => net[c] = "request"
    BY <1>4, <2>1, ReplyFacts DEF AnswerPost, RequestTypeOK, AnswerTypes
  <2>3. /\ \A d \in Clients : handler'[d] = IF d = c THEN "none" ELSE handler[d]
        /\ \A d \in Clients \ {c} : made'[d] = made[d]
        /\ UNCHANGED <<owner, life, pc, asked, id, dialled>>
    BY <1>4 DEF AnswerPost, mapVars, callerVars, RequestTypeOK
  <2> QED BY <2>1, <2>2, <2>3 DEF OwnInv, NoneYet, Mine, Says
<1>5. ASSUME NEW c \in Clients, AnswerDial(c) \/ AnswerQuery(c) \/ AnswerNotFound(c)
      PROVE  OwnInv'
  <2>1. id[c] \in Ids \cup {NoId}
    BY DEF RequestTypeOK
  <2>2. PICK a \in Answers : Reply(c, a)
    BY <1>5, <2>1, RecordFacts DEF AnswerDial, AnswerQuery, AnswerNotFound
  <2>3. asked[c].name # "post"
    BY <1>5 DEF AnswerDial, AnswerQuery, AnswerNotFound, HandlerInv
  <2>4. /\ \A d \in Clients \ {c} : net'[d] = net[d] /\ answer'[d] = answer[d]
        /\ net'[c] = "request" => net[c] = "request"
    BY <2>2, ReplyFacts DEF RequestTypeOK, AnswerTypes
  <2>5. /\ \A d \in Clients : handler'[d] = IF d = c THEN "none" ELSE handler[d]
        /\ UNCHANGED <<owner, life, made, pc, asked, id, dialled>>
    BY <1>5 DEF AnswerDial, AnswerQuery, AnswerNotFound, mapVars, callerVars, RequestTypeOK
  <2> QED BY <2>3, <2>4, <2>5 DEF OwnInv, NoneYet, Mine
<1>6. ASSUME NEW i \in Ids, StartSession(i) \/ EndSession(i) \/ Forget(i)
      PROVE  OwnInv'
  <2>1. /\ life[i] \notin {"free", "pending"} /\ life'[i] \notin {"free", "pending"}
        /\ \A j \in Ids \ {i} : life'[j] = life[j]
        /\ UNCHANGED <<owner, made, net, answer, handler, pc, asked, id, dialled>>
    BY <1>6 DEF StartSession, EndSession, Forget, Connected, handlerVars, netVars, callerVars,
       RequestTypeOK
  <2> QED BY <2>1 DEF OwnInv, NoneYet, Mine
<1>7. CASE ServerEnds
  <2>1. /\ \A i \in Ids : life'[i] = IF life[i] \in InMap THEN "lost" ELSE life[i]
        /\ \A d \in Clients : handler'[d] = "none" /\ net'[d] \in {"none", "broken"}
        /\ UNCHANGED <<owner, pc, asked, id, dialled>>
    BY <1>7 DEF ServerEnds, callerVars
  <2> QED BY <2>1 DEF OwnInv, NoneYet, Mine, InMap
<1>8. CASE Restart
  BY <1>8 DEF Restart, mapVars, handlerVars, netVars, callerVars, OwnInv, NoneYet, Mine
<1>9. ASSUME NEW c \in Clients, PostExec(c)
      PROVE  OwnInv'
  <2>1. CallOf("post", Control) \in Calls
    BY RecordFacts
  <2>2. Call(c, CallOf("post", Control)) /\ pc[c] = "start" /\ pc' = [pc EXCEPT ![c] = "post"]
    BY <1>9 DEF PostExec
  <2>3. /\ \A d \in Clients \ {c} : net'[d] = net[d] /\ asked'[d] = asked[d]
        /\ net'[c] # "answer"
        /\ UNCHANGED <<owner, life, made, handler, answer, id, dialled>>
    BY <2>1, <2>2, CallFacts DEF RequestTypeOK
  <2>4. pc'[c] = "post" /\ \A d \in Clients \ {c} : pc'[d] = pc[d]
    BY <2>2 DEF RequestTypeOK
  <2> QED BY <2>2, <2>3, <2>4 DEF OwnInv, NoneYet, Mine
<1>10. ASSUME NEW c \in Clients, DialNext(c) \/ Query(c)
       PROVE  OwnInv'
  <2>1. Missing(c) \subseteq AnyFd
    BY DEF Missing, ToDial, AnyFd, Control, RequestTypeOK
  <2>2. PICK what \in Calls : Call(c, what)
    BY <1>10, <2>1, RecordFacts DEF DialNext, Query
  <2>3. /\ \A d \in Clients \ {c} : net'[d] = net[d] /\ asked'[d] = asked[d]
        /\ pc[c] = "use" /\ net'[c] # "answer"
        /\ UNCHANGED <<pc, owner, life, made, handler, answer, id, dialled>>
    BY <1>10, <2>2, CallFacts DEF DialNext, Query, RequestTypeOK
  <2> QED BY <2>3 DEF OwnInv, NoneYet, Mine
<1>11. ASSUME NEW c \in Clients, ReceivePost(c)
       PROVE  OwnInv'
  <2>1. /\ \A d \in Clients \ {c} :
              /\ pc'[d] = pc[d] /\ net'[d] = net[d] /\ asked'[d] = asked[d]
              /\ answer'[d] = answer[d] /\ id'[d] = id[d]
        /\ net'[c] = "none"
        /\ UNCHANGED <<owner, life, made, handler, dialled>>
    BY <1>11, HangUpFacts DEF ReceivePost, RequestTypeOK, AnswerTypes, mapVars, handlerVars
  <2>2. pc[c] = "post" /\ id[c] = NoId /\ dialled[c] = {}
    BY <1>11 DEF ReceivePost, CallInv, OwnInv
  <2>3. CASE Accepted(answer[c])
    <3>1. pc'[c] = "use" /\ id'[c] = answer[c].id /\ Mine(c, answer[c].id)
      BY <1>11, <2>3 DEF ReceivePost, Accepted, OwnInv, RequestTypeOK
    <3> QED BY <2>1, <3>1 DEF OwnInv, NoneYet, Mine
  <2>4. CASE ~Accepted(answer[c])
    <3>1. pc'[c] = "refused" /\ id'[c] = NoId /\ NoneYet(c)
      BY <1>11, <2>2, <2>4 DEF ReceivePost, Accepted, NoneYet, RequestTypeOK
    <3> QED BY <2>1, <2>2, <3>1 DEF OwnInv, NoneYet, Mine
  <2> QED BY <2>3, <2>4
<1>12. ASSUME NEW c \in Clients,
              ReceiveDial(c) \/ ReceiveQuery(c) \/ ReceiveBreak(c) \/ Die(c)
       PROVE  OwnInv'
  <2>1. HangUp(c)
    BY <1>12 DEF ReceiveDial, ReceiveQuery, ReceiveBreak, Die
  <2>2. /\ \A d \in Clients \ {c} : net'[d] = net[d] /\ asked'[d] = asked[d]
              /\ answer'[d] = answer[d]
        /\ net'[c] = "none"
    BY <2>1, HangUpFacts DEF RequestTypeOK, AnswerTypes
  <2>3. /\ \A d \in Clients \ {c} : pc'[d] = pc[d] /\ dialled'[d] = dialled[d]
        /\ pc'[c] \notin {"start", "post", "refused"} /\ (pc'[c] = "use" => pc[c] = "use")
        /\ UNCHANGED <<owner, life, made, handler, id>>
    BY <1>12 DEF ReceiveDial, ReceiveQuery, ReceiveBreak, Die, mapVars, handlerVars, CallInv,
       RequestTypeOK
  <2> QED BY <2>2, <2>3 DEF OwnInv, NoneYet, Mine
<1>13. ASSUME NEW c \in Clients, Break(c)
       PROVE  OwnInv'
  <2>1. /\ \A d \in Clients \ {c} : net'[d] = net[d] /\ answer'[d] = answer[d]
        /\ net'[c] = "broken"
        /\ UNCHANGED <<owner, life, made, handler, pc, asked, id, dialled>>
    BY <1>13 DEF Break, mapVars, handlerVars, RequestTypeOK, AnswerTypes
  <2> QED BY <2>1 DEF OwnInv, NoneYet, Mine
<1> QED
  BY <1>1, <1>2, <1>3, <1>4, <1>5, <1>6, <1>7, <1>8, <1>9, <1>10, <1>11, <1>12, <1>13
  DEF RequestNext, Handle, Caller, Panic, Killed

-----------------------------------------------------------------------------
\* An operation stays what it was made, its streams stay and its end is final.
Grows(i) ==
  /\ owner'[i] = owner[i] /\ body'[i] = body[i] /\ fds'[i] = fds[i]
  /\ attached[i] \subseteq attached'[i]
  /\ life'[i] # "free"
  /\ life[i] \in Over => life'[i] \in Over
  /\ life[i] \in {"gone", "lost"} => life'[i] \in {"gone", "lost"}
  /\ life'[i] \in {"pending", "running"} => life[i] \in {"pending", "running"}

\* So every step leaves it, and a new one is of a client whose handler makes it.
LEMMA MapGrows ==
  ASSUME RequestInv, RequestNext
  PROVE  /\ \A i \in Ids : life[i] # "free" => Grows(i)
         /\ \A i \in Ids : owner'[i] # owner[i] => handler[owner'[i]] = "exec"
         /\ harmed \subseteq harmed'
<1> USE DEF RequestInv
<1> DEFINE Goal == /\ \A i \in Ids : life[i] # "free" => Grows(i)
                   /\ \A i \in Ids : owner'[i] # owner[i] => handler[owner'[i]] = "exec"
                   /\ harmed \subseteq harmed'
<1>1. ASSUME UNCHANGED mapVars, harmed \subseteq harmed'
      PROVE  Goal
  BY <1>1 DEF mapVars, Grows
<1>2. ASSUME NEW c \in Clients, ClientStep(c)
      PROVE  Goal
  <2>1. harmed \subseteq harmed'
    BY <1>2 DEF ClientStep, PostExec, Query, DialNext, ReceivePost, ReceiveDial, ReceiveQuery,
       ReceiveBreak, Break, Die, Call
  <2> QED BY <1>1, <1>2, <2>1, ClientLeavesServer DEF mapVars
<1>3. ASSUME NEW c \in Clients, Accept(c) \/ AnswerPost(c) \/ AnswerQuery(c) \/ AnswerNotFound(c)
      PROVE  Goal
  BY <1>1, <1>3 DEF Accept, AnswerPost, AnswerQuery, AnswerNotFound, callerVars
<1>4. ASSUME NEW c \in Clients, Create(c)
      PROVE  Goal
  <2>1. NewId \in Ids /\ life[NewId] = "free"
    BY <1>4, NewIdIsFree
  <2>2. UNCHANGED <<attached, harmed>> /\ handler[c] = "exec"
    BY <1>4 DEF Create
  <2>3. CASE UNCHANGED <<life, owner, body, fds>>
    BY <1>1, <2>2, <2>3 DEF mapVars
  <2>4. CASE /\ life' = [life EXCEPT ![NewId] = "pending"]
             /\ owner' = [owner EXCEPT ![NewId] = c]
             /\ body' = [body EXCEPT ![NewId] = posted[c]]
             /\ fds' = [fds EXCEPT ![NewId] = Secrets(posted[c])]
    <3>1. \A i \in Ids \ {NewId} : /\ life'[i] = life[i] /\ owner'[i] = owner[i]
                                   /\ body'[i] = body[i] /\ fds'[i] = fds[i]
      BY <2>4 DEF RequestTypeOK
    <3>2. owner'[NewId] = c
      BY <2>1, <2>4 DEF RequestTypeOK
    <3> QED BY <2>1, <2>2, <3>1, <3>2 DEF Grows
  <2> QED BY <1>4, <2>3, <2>4 DEF Create
<1>5. ASSUME NEW c \in Clients, RunCreated(c)
      PROVE  Goal
  <2>1. made[c] \in Ids /\ life[made[c]] = "pending"
    BY <1>5 DEF RunCreated, OwnInv
  <2>2. /\ \A i \in Ids : life'[i] = IF i = made[c] THEN "running" ELSE life[i]
        /\ UNCHANGED <<owner, body, fds, attached, harmed>>
    BY <1>5, <2>1 DEF RunCreated, callerVars, RequestTypeOK
  <2> QED BY <2>1, <2>2 DEF Grows, Over
<1>6. ASSUME NEW c \in Clients, AnswerDial(c)
      PROVE  Goal
  <2>1. \A i \in Ids : attached[i] \subseteq attached'[i]
    BY <1>6 DEF AnswerDial, RequestTypeOK
  <2> QED BY <1>6, <2>1 DEF AnswerDial, callerVars, Grows
<1>7. ASSUME NEW i \in Ids, StartSession(i) \/ EndSession(i) \/ Forget(i)
      PROVE  Goal
  <2>1. \/ life[i] = "running" /\ life'[i] \in {"started", "final"}
        \/ life[i] = "started" /\ life'[i] = "final"
        \/ life[i] = "final" /\ life'[i] = "gone"
    BY <1>7 DEF StartSession, EndSession, Forget, Connected, RequestTypeOK
  <2>2. /\ \A j \in Ids \ {i} : life'[j] = life[j]
        /\ UNCHANGED <<owner, body, fds, attached, harmed>>
    BY <1>7 DEF StartSession, EndSession, Forget, callerVars, RequestTypeOK
  <2> QED BY <2>1, <2>2 DEF Grows, Over
<1>8. CASE ServerEnds
  <2>1. /\ \A i \in Ids : life'[i] = IF life[i] \in InMap THEN "lost" ELSE life[i]
        /\ UNCHANGED <<owner, body, fds, attached, harmed>>
    BY <1>8 DEF ServerEnds, callerVars
  <2> QED BY <2>1 DEF Grows, Over, InMap
<1>9. CASE Restart
  BY <1>1, <1>9 DEF Restart, callerVars
<1> QED
  BY <1>2, <1>3, <1>4, <1>5, <1>6, <1>7, <1>8, <1>9
  DEF RequestNext, Handle, Caller, Panic, Killed, ClientStep

\* A client that does not act keeps what its calls have reached.
LEMMA ReachKept ==
  ASSUME RequestInv, RequestNext, NEW d \in Clients,
         UNCHANGED <<net[d], asked[d], answer[d], id[d], dialled[d]>>
  PROVE  Reach(d)'
<1> USE DEF RequestInv
<1>1. /\ \A i \in Ids : life[i] # "free" => Grows(i)
      /\ \A i \in Ids : owner'[i] # owner[i] => handler[owner'[i]] = "exec"
      /\ harmed \subseteq harmed'
  BY MapGrows
<1>2. Reach(d)
  BY DEF ReachInv
<1>3. net[d] # "none" /\ asked[d].name \in {"dial"} \cup Queries => id[d] \in Ids
  BY RequestAssumption DEF CallInv, OwnInv
<1>4. id[d] \in Ids => life[id[d]] # "free" /\ Grows(id[d])
  BY <1>1 DEF OwnInv, Mine
<1>5. net[d] = "broken" /\ d \notin harmed => \A i \in Ids : owner'[i] = d => owner[i] = d
  BY <1>1 DEF HandlerInv, CallInv
<1>6. \A i \in Ids : owner[i] = d => life[i] # "free"
  BY RequestAssumption DEF MapInv
<1>7. (net[d] = "broken" /\ d \notin harmed =>
         \A i \in Ids : owner[i] = d => life[i] \in {"gone", "lost"})'
  <2>1. SUFFICES ASSUME net[d] = "broken", d \notin harmed, NEW i \in Ids, owner'[i] = d
                 PROVE  life'[i] \in {"gone", "lost"}
    BY <1>1
  <2>2. owner[i] = d
    BY <1>5, <2>1
  <2>3. life[i] \in {"gone", "lost"} /\ Grows(i)
    BY <1>1, <1>2, <1>6, <2>1, <2>2 DEF Reach
  <2> QED BY <2>3 DEF Grows
<1>8. (net[d] # "none" /\ asked[d].name = "dial" => asked[d].fd \in fds[id[d]])'
  BY <1>2, <1>3, <1>4 DEF Reach, Grows
<1>9. (net[d] = "answer" /\ asked[d].name = "dial" =>
         IF answer[d].says = "upgrade" THEN asked[d].fd \in attached[id[d]]
                                       ELSE life[id[d]] \in Over)'
  BY <1>2, <1>3, <1>4 DEF Reach, Grows
<1>10. (id[d] \in Ids => dialled[d] \subseteq attached[id[d]])'
  BY <1>2, <1>4 DEF Reach, Grows
<1>11. (net[d] # "none" /\ asked[d].name \in Queries =>
          Awaited(body[id[d]]) \subseteq attached[id[d]])'
  <2>1. SUFFICES ASSUME net[d] # "none", asked[d].name \in Queries
                 PROVE  Awaited(body'[id[d]]) \subseteq attached'[id[d]]
    BY DEF Awaited, Streams
  <2>2. Awaited(body[id[d]]) \subseteq attached[id[d]]
    BY <1>2, <2>1 DEF Reach
  <2> QED BY <1>3, <1>4, <2>1, <2>2 DEF Grows
<1> QED BY <1>7, <1>8, <1>9, <1>10, <1>11 DEF Reach

-----------------------------------------------------------------------------
\* What only the client's own step can disturb.
LEMMA ReachStep ==
  ASSUME RequestInv, RequestNext
  PROVE  ReachInv'
<1> USE RequestAssumption DEF RequestInv
<1>1. /\ \A i \in Ids : life[i] # "free" => Grows(i)
      /\ harmed \subseteq harmed'
  BY MapGrows
<1>2. \A c \in Clients :
         /\ net[c] # "none" /\ asked[c].name \in {"dial"} \cup Queries => id[c] \in Ids
         /\ id[c] \in Ids => life[id[c]] \notin {"free", "pending"} /\ Grows(id[c])
  BY <1>1 DEF CallInv, OwnInv, Mine
<1>3. ASSUME NEW c \in Clients, Reach(c)',
             \A d \in Clients \ {c} : UNCHANGED <<net[d], asked[d], answer[d], id[d], dialled[d]>>
      PROVE  ReachInv'
  BY <1>3, ReachKept DEF ReachInv
<1>4. ASSUME UNCHANGED <<net, asked, answer, id, dialled>>
      PROVE  ReachInv'
  BY <1>4, ReachKept DEF ReachInv
<1>5. ASSUME NEW c \in Clients, Accept(c)
      PROVE  ReachInv'
  <2>1. /\ net[c] = "request" /\ net'[c] = "handled"
        /\ UNCHANGED <<asked, answer, id, dialled, fds, attached, body>>
        /\ \A d \in Clients \ {c} : net'[d] = net[d]
    BY <1>5 DEF Accept, callerVars, mapVars, RequestTypeOK
  <2>2. Reach(c)'
    BY <2>1 DEF ReachInv, Reach, Awaited, Streams
  <2> QED BY <1>3, <2>1, <2>2
<1>6. ASSUME NEW c \in Clients, NEW a \in Answers, Reply(c, a), UNCHANGED <<asked, id, dialled>>,
             net[c] = "handled" /\ asked[c].name = "dial" =>
               IF a.says = "upgrade" THEN asked[c].fd \in attached'[id[c]] ELSE life'[id[c]] \in Over
      PROVE  ReachInv'
  <2>1. \A d \in Clients \ {c} : net'[d] = net[d] /\ answer'[d] = answer[d]
    BY <1>6, ReplyFacts DEF RequestTypeOK, AnswerTypes
  <2>2. CASE net[c] = "handled"
    <3>1. net'[c] = "answer" /\ answer'[c] = a
      BY <1>6, <2>2, ReplyFacts DEF RequestTypeOK, AnswerTypes
    <3>2. asked'[c] = asked[c] /\ id'[c] = id[c] /\ dialled'[c] = dialled[c]
      BY <1>6
    <3>3. Reach(c)
      BY DEF ReachInv
    <3>4. (net[c] # "none" /\ asked[c].name = "dial" => asked[c].fd \in fds[id[c]])'
      BY <1>2, <2>2, <3>2, <3>3 DEF Reach, Grows
    <3>5. (id[c] \in Ids => dialled[c] \subseteq attached[id[c]])'
      BY <1>2, <3>2, <3>3 DEF Reach, Grows
    <3>6. (net[c] # "none" /\ asked[c].name \in Queries =>
              Awaited(body[id[c]]) \subseteq attached[id[c]])'
      <4>1. SUFFICES ASSUME asked[c].name \in Queries
                     PROVE  Awaited(body'[id[c]]) \subseteq attached'[id[c]]
        BY <3>2 DEF Awaited, Streams
      <4>2. Awaited(body[id[c]]) \subseteq attached[id[c]]
        BY <2>2, <3>3, <4>1 DEF Reach
      <4> QED BY <1>2, <2>2, <4>1, <4>2 DEF Grows
    <3>7. Reach(c)'
      BY <1>6, <2>2, <3>1, <3>2, <3>4, <3>5, <3>6 DEF Reach
    <3> QED BY <1>3, <1>6, <2>1, <3>7
  <2>3. CASE net[c] # "handled"
    BY <1>4, <1>6, <2>3 DEF Reply, netVars
  <2> QED BY <2>2, <2>3
<1>7. ASSUME NEW c \in Clients, Create(c)
      PROVE  ReachInv'
  <2>1. asked[c].name = "post" /\ UNCHANGED <<asked, id, dialled>>
    BY <1>7 DEF Create, HandlerInv
  <2>2. CASE UNCHANGED netVars
    BY <1>4, <2>1, <2>2 DEF netVars
  <2>3. CASE Reply(c, Says("error", NoId))
    BY <1>6, <2>1, <2>3, RecordFacts
  <2> QED BY <1>7, <2>2, <2>3 DEF Create
<1>8. ASSUME NEW c \in Clients, AnswerPost(c) \/ AnswerQuery(c) \/ AnswerNotFound(c)
      PROVE  ReachInv'
  <2>1. asked[c].name # "dial" /\ UNCHANGED <<asked, id, dialled>>
    BY <1>8 DEF AnswerPost, Answerable, AnswerQuery, AnswerNotFound, HandlerInv, callerVars
  <2>2. made[c] \in Ids \cup {NoId} /\ id[c] \in Ids \cup {NoId}
    BY DEF RequestTypeOK
  <2>3. PICK a \in Answers : Reply(c, a)
    BY <1>8, <2>2, RecordFacts DEF AnswerPost, AnswerQuery, AnswerNotFound
  <2> QED BY <1>6, <2>1, <2>3
<1>9. ASSUME NEW c \in Clients, AnswerDial(c)
      PROVE  ReachInv'
  <2>1. id[c] \in Ids /\ asked[c].name = "dial" /\ UNCHANGED <<asked, id, dialled, life>>
    BY <1>9 DEF AnswerDial, HandlerInv, callerVars
  <2>2. CASE /\ attached' = [attached EXCEPT ![id[c]] = attached[id[c]] \cup {asked[c].fd}]
             /\ Reply(c, Says("upgrade", id[c]))
    <3>1. asked[c].fd \in attached'[id[c]]
      BY <2>1, <2>2 DEF RequestTypeOK
    <3> QED BY <1>6, <2>1, <2>2, <3>1, RecordFacts DEF Says
  <2>3. CASE /\ ~Connectable(c) \/ net[c] # "handled"
             /\ Reply(c, Says("nothing", NoId))
    <3>1. net[c] = "handled" => asked[c].fd \in fds[id[c]]
      BY <2>1 DEF ReachInv, Reach
    <3>2. net[c] = "handled" => life[id[c]] \in Over
      BY <1>2, <2>1, <2>3, <3>1 DEF Connectable, RequestTypeOK, InMap, Over
    <3> QED BY <1>6, <2>1, <2>3, <3>2, RecordFacts DEF Says
  <2> QED BY <1>9, <2>2, <2>3 DEF AnswerDial
<1>10. ASSUME NEW c \in Clients, RunCreated(c)
       PROVE  ReachInv'
  BY <1>4, <1>10 DEF RunCreated, netVars, callerVars
<1>11. ASSUME NEW i \in Ids, StartSession(i) \/ EndSession(i) \/ Forget(i)
       PROVE  ReachInv'
  BY <1>4, <1>11 DEF StartSession, EndSession, Forget, netVars, callerVars
<1>12. CASE ServerEnds
  <2>1. /\ \A i \in Ids : life'[i] = IF life[i] \in InMap THEN "lost" ELSE life[i]
        /\ \A d \in Clients : net'[d] = IF net[d] = "none" THEN "none" ELSE "broken"
        /\ UNCHANGED <<asked, id, dialled, harmed, owner, body, fds, attached>>
    BY <1>12 DEF ServerEnds, callerVars
  <2>2. SUFFICES ASSUME NEW c \in Clients PROVE Reach(c)'
    BY DEF ReachInv
  <2>3. \A i \in Ids : owner[i] = c => life'[i] \in {"final", "gone", "lost"}
    BY <2>1 DEF MapInv, RequestTypeOK, InMap
  <2>4. \A i \in Ids : life'[i] # "final"
    BY <2>1 DEF InMap
  <2>5. (net[c] = "broken" /\ c \notin harmed =>
           \A i \in Ids : owner[i] = c => life[i] \in {"gone", "lost"})'
    BY <2>1, <2>3, <2>4
  <2> QED BY <2>1, <2>5 DEF ReachInv, Reach, Awaited, Streams
<1>13. CASE Restart
  BY <1>4, <1>13 DEF Restart, netVars, callerVars
<1>14. ASSUME NEW c \in Clients, PostExec(c)
       PROVE  ReachInv'
  <2>1. CallOf("post", Control) \in Calls /\ CallOf("post", Control).name = "post"
    BY RecordFacts DEF CallOf
  <2>2. Call(c, CallOf("post", Control)) /\ pc[c] = "start"
    BY <1>14 DEF PostExec
  <2>3. /\ \A d \in Clients \ {c} : net'[d] = net[d] /\ asked'[d] = asked[d]
        /\ net'[c] # "answer" /\ asked'[c].name = "post"
        /\ UNCHANGED <<owner, answer, id, dialled>>
    BY <2>1, <2>2, CallFacts DEF RequestTypeOK
  <2>4. id[c] = NoId /\ \A i \in Ids : owner[i] # c
    BY <2>2 DEF OwnInv, NoneYet
  <2>5. Reach(c)'
    BY <2>3, <2>4 DEF Reach
  <2> QED BY <1>3, <2>3, <2>5
<1>15. ASSUME NEW c \in Clients, DialNext(c) \/ Query(c)
       PROVE  ReachInv'
  <2>1. id[c] \in Ids
    BY <1>15 DEF DialNext, Query, OwnInv
  <2>2. body[id[c]] \in Bodies /\ fds[id[c]] = Streams(body[id[c]])
    BY <1>2, <2>1 DEF MapInv
  <2>3. Awaited(body[id[c]]) \subseteq ToDial(id[c]) /\ ToDial(id[c]) \subseteq fds[id[c]]
    BY <2>1, <2>2, DialFacts
  <2>4. Missing(c) = ToDial(id[c]) \ dialled[c]
    BY <2>1 DEF Missing
  <2>5. PICK what \in Calls :
          /\ Call(c, what)
          /\ \/ what.name = "dial" /\ what.fd \in Missing(c)
             \/ what.name \in Queries /\ Missing(c) = {}
    <3>1. Missing(c) \subseteq AnyFd
      BY <2>1, <2>3, <2>4 DEF RequestTypeOK
    <3>2. CASE DialNext(c)
      <4>1. PICK fd \in Missing(c) : Call(c, CallOf("dial", fd))
        BY <3>2 DEF DialNext
      <4> QED BY <3>1, <4>1, RecordFacts DEF CallOf
    <3>3. CASE Query(c)
      <4>1. PICK q \in Queries : Call(c, CallOf(q, Control))
        BY <3>3 DEF Query
      <4> QED BY <3>3, <4>1, RecordFacts DEF CallOf, Query
    <3> QED BY <1>15, <3>2, <3>3
  <2>6. /\ \A d \in Clients \ {c} : net'[d] = net[d] /\ asked'[d] = asked[d]
        /\ net'[c] = (IF up THEN "request" ELSE "broken") /\ asked'[c] = what
        /\ UNCHANGED <<owner, life, body, fds, attached, answer, id, dialled, harmed>>
    BY <2>5, CallFacts DEF RequestTypeOK
  <2>7. dialled[c] \subseteq attached[id[c]]
    BY <2>1 DEF ReachInv, Reach
  <2>8. what.name \in Queries => Awaited(body[id[c]]) \subseteq attached[id[c]]
    BY <2>3, <2>4, <2>5, <2>7
  <2>9. what.name = "dial" => what.fd \in fds[id[c]]
    BY <2>3, <2>4, <2>5
  <2>10. ~up => \A i \in Ids : owner[i] = c => life[i] \in {"gone", "lost"}
    BY DEF MapInv, RequestTypeOK
  <2>11. Reach(c)'
    BY <2>6, <2>7, <2>8, <2>9, <2>10 DEF Reach, Awaited, Streams
  <2> QED BY <1>3, <2>6, <2>11
<1>16. ASSUME NEW c \in Clients,
              ReceivePost(c) \/ ReceiveDial(c) \/ ReceiveQuery(c) \/ ReceiveBreak(c) \/ Die(c)
       PROVE  ReachInv'
  <2>1. HangUp(c)
    BY <1>16 DEF ReceivePost, ReceiveDial, ReceiveQuery, ReceiveBreak, Die
  <2>2. /\ \A d \in Clients \ {c} : net'[d] = net[d] /\ asked'[d] = asked[d]
              /\ answer'[d] = answer[d]
        /\ net'[c] = "none"
    BY <2>1, HangUpFacts DEF RequestTypeOK, AnswerTypes
  <2>3. \A d \in Clients \ {c} : id'[d] = id[d] /\ dialled'[d] = dialled[d]
    BY <1>16 DEF ReceivePost, ReceiveDial, ReceiveQuery, ReceiveBreak, Die, RequestTypeOK
  <2>4. UNCHANGED attached
    BY <1>16 DEF ReceivePost, ReceiveDial, ReceiveQuery, ReceiveBreak, Die, mapVars
  <2>5. (id[c] \in Ids => dialled[c] \subseteq attached[id[c]])'
    <3>1. CASE ReceivePost(c)
      BY <2>4, <3>1 DEF ReceivePost, CallInv, OwnInv
    <3>2. CASE ReceiveDial(c)
      BY <2>4, <3>2 DEF ReceiveDial, ReachInv, Reach, RequestTypeOK
    <3>3. CASE ReceiveQuery(c) \/ ReceiveBreak(c) \/ Die(c)
      BY <2>4, <3>3 DEF ReceiveQuery, ReceiveBreak, Die, ReachInv, Reach
    <3> QED BY <1>16, <3>1, <3>2, <3>3
  <2>6. Reach(c)'
    BY <2>2, <2>5 DEF Reach
  <2> QED BY <1>3, <2>2, <2>3, <2>6
<1>17. ASSUME NEW c \in Clients, Break(c)
       PROVE  ReachInv'
  <2>1. /\ \A d \in Clients \ {c} : net'[d] = net[d] /\ answer'[d] = answer[d]
        /\ net[c] # "none" /\ net'[c] = "broken" /\ c \in harmed'
        /\ UNCHANGED <<asked, id, dialled, body, fds, attached>>
    BY <1>17 DEF Break, mapVars, RequestTypeOK, AnswerTypes
  <2>2. Reach(c)'
    BY <2>1 DEF ReachInv, Reach, Awaited, Streams
  <2> QED BY <1>3, <2>1, <2>2
<1> QED
  BY <1>5, <1>7, <1>8, <1>9, <1>10, <1>11, <1>12, <1>13, <1>14, <1>15, <1>16, <1>17
  DEF RequestNext, Handle, Caller, Panic, Killed

-----------------------------------------------------------------------------
\* An operation that waits for its streams has a client that is on its way.
LEMMA FaultStep ==
  ASSUME RequestInv, RequestNext
  PROVE  FaultInv'
<1> USE RequestAssumption DEF RequestInv
<1>1. /\ \A i \in Ids : life[i] # "free" => Grows(i)
      /\ harmed \subseteq harmed'
  BY MapGrows
<1>2. ASSUME NEW i \in Ids, life[i] # "free", Waiting(i)'
      PROVE  /\ Waiting(i) /\ Explained(i, owner[i]) /\ owner'[i] = owner[i]
             /\ owner[i] \in Clients /\ owner[i] \notin harmed'
  <2>1. Grows(i) /\ owner[i] \notin harmed
    BY <1>1, <1>2 DEF Grows, Waiting
  <2>2. ~(Awaited(body[i]) \subseteq attached[i])
    <3>1. ~(Awaited(body'[i]) \subseteq attached'[i])
      BY <1>2 DEF Waiting, Awaited, Streams
    <3> QED BY <2>1, <3>1 DEF Grows
  <2>3. Waiting(i)
    BY <1>2, <2>1, <2>2 DEF Waiting, Grows
  <2> QED BY <1>2, <2>1, <2>3 DEF FaultInv, Waiting, Grows, MapInv
\* Who waits for his own answer has a handler at work, and no other's step
\* moves him.
<1>3. ASSUME NEW i \in Ids, NEW c \in Clients, Explained(i, c), life[i] # "free", Waiting(i)',
             owner[i] = c,
             UNCHANGED <<pc[c], net[c], answer[c], id[c], handler[c], made[c]>>
      PROVE  Explained(i, owner[i])'
  BY <1>2, <1>3 DEF Explained, Says
<1>4. ASSUME NEW i \in Ids, NEW c \in Clients, owner[i] = c, Explained(i, c), c \notin harmed
      PROVE  \/ /\ pc[c] = "post" /\ asked[c].name = "post"
                /\ \/ handler[c] \in {"run", "render"} /\ made[c] = i /\ net[c] = "handled"
                   \/ handler[c] = "none" /\ net[c] = "answer" /\ answer[c] = Says("operation", i)
             \/ pc[c] = "use" /\ id[c] = i
  BY <1>4 DEF Explained, HandlerInv, CallInv
<1>5. SUFFICES ASSUME NEW i \in Ids, Waiting(i)'
               PROVE  Explained(i, owner[i])'
  BY DEF FaultInv
<1> DEFINE c == owner[i]
\* The operation is new.
<1>6. CASE life[i] = "free"
  <2>1. PICK d \in Clients : Create(d)
    <3>1. life'[i] # "free"
      BY <1>5 DEF Waiting
    <3>2. ASSUME UNCHANGED life PROVE FALSE
      BY <1>6, <3>1, <3>2
    <3>3. ASSUME NEW d \in Clients, ClientStep(d) PROVE FALSE
      BY <3>2, <3>3, ClientLeavesServer
    <3>4. ASSUME NEW d \in Clients, RunCreated(d) PROVE FALSE
      BY <1>6, <3>1, <3>4 DEF RunCreated, OwnInv, RequestTypeOK
    <3>5. ASSUME NEW j \in Ids, StartSession(j) \/ EndSession(j) \/ Forget(j) PROVE FALSE
      BY <1>6, <3>1, <3>5 DEF StartSession, EndSession, Forget, Connected, RequestTypeOK
    <3>6. CASE ServerEnds
      BY <1>6, <3>1, <3>6 DEF ServerEnds, InMap
    <3> QED
      BY <3>2, <3>3, <3>4, <3>5, <3>6
      DEF RequestNext, Handle, Caller, Panic, Killed, ClientStep, Restart, Accept, AnswerPost,
          AnswerDial, AnswerQuery, AnswerNotFound, mapVars
  <2>2. NewId \in Ids /\ life[NewId] = "free"
    BY <2>1, NewIdIsFree
  <2>3. /\ life' = [life EXCEPT ![NewId] = "pending"] /\ owner' = [owner EXCEPT ![NewId] = d]
        /\ made' = [made EXCEPT ![d] = NewId] /\ handler' = [handler EXCEPT ![d] = "run"]
        /\ UNCHANGED <<pc, harmed>>
    BY <1>5, <1>6, <2>1 DEF Create, Waiting
  <2>4. i = NewId
    BY <1>5, <1>6, <2>3 DEF Waiting, RequestTypeOK
  <2>5. owner'[i] = d /\ d \notin harmed
    BY <1>5, <2>2, <2>3, <2>4 DEF Waiting, RequestTypeOK
  <2>6. pc[d] = "post"
    BY <2>1, <2>5 DEF Create, HandlerInv, CallInv
  <2> QED BY <2>2, <2>3, <2>4, <2>5, <2>6 DEF Explained, RequestTypeOK
\* The operation was waiting before.
<1>7. CASE life[i] # "free"
  <2>1. /\ c \in Clients /\ c \notin harmed' /\ c \notin harmed
        /\ Waiting(i) /\ Explained(i, c) /\ owner'[i] = c
    BY <1>1, <1>2, <1>5, <1>7
  <2>2. \/ /\ pc[c] = "post" /\ asked[c].name = "post"
           /\ \/ handler[c] \in {"run", "render"} /\ made[c] = i /\ net[c] = "handled"
              \/ handler[c] = "none" /\ net[c] = "answer" /\ answer[c] = Says("operation", i)
        \/ pc[c] = "use" /\ id[c] = i
    BY <1>4, <2>1
  <2>3. ASSUME UNCHANGED <<pc[c], net[c], answer[c], id[c], handler[c], made[c]>>
        PROVE  Explained(i, owner[i])'
    BY <1>3, <1>5, <1>7, <2>1, <2>3
  <2>4. ASSUME NEW d \in Clients, Accept(d)
        PROVE  Explained(i, owner[i])'
    <3>1. /\ net[d] = "request"
          /\ \A e \in Clients \ {d} : net'[e] = net[e] /\ handler'[e] = handler[e]
          /\ UNCHANGED <<made, answer, pc, id>>
      BY <2>4 DEF Accept, callerVars, RequestTypeOK
    <3> QED BY <2>1, <2>2, <2>3, <3>1 DEF Explained
  <2>5. ASSUME NEW d \in Clients, NEW a \in Answers, Reply(d, a), UNCHANGED <<pc, id>>,
               handler[d] # "none", handler' = [handler EXCEPT ![d] = "none"],
               \A e \in Clients \ {d} : made'[e] = made[e],
               d = c /\ pc[c] = "post" => a = Says("operation", i)
        PROVE  Explained(i, owner[i])'
    <3>1. \A e \in Clients \ {d} : /\ net'[e] = net[e] /\ answer'[e] = answer[e]
                                   /\ handler'[e] = handler[e]
      BY <2>5, ReplyFacts DEF RequestTypeOK, AnswerTypes
    <3>2. CASE d # c
      BY <2>1, <2>3, <2>5, <3>1, <3>2
    <3>3. CASE d = c
      <4>1. CASE pc[c] = "post"
        <5>1. net[c] = "handled"
          BY <2>2, <2>5, <3>3, <4>1
        <5>2. net'[c] = "answer" /\ answer'[c] = Says("operation", i)
          BY <2>5, <3>3, <4>1, <5>1, ReplyFacts DEF RequestTypeOK, AnswerTypes
        <5> QED BY <2>1, <2>5, <4>1, <5>2 DEF Explained, Says
      <4>2. CASE pc[c] # "post"
        BY <2>1, <2>2, <2>5, <4>2 DEF Explained
      <4> QED BY <4>1, <4>2
    <3> QED BY <3>2, <3>3
  <2>6. ASSUME NEW d \in Clients, Create(d)
        PROVE  Explained(i, owner[i])'
    <3>1. d # c
      <4>1. \A j \in Ids : owner[j] # d
        BY <2>6 DEF Create, OwnInv, NoneYet
      <4> QED BY <4>1
    <3>2. CASE UNCHANGED netVars
      BY <2>1, <2>3, <2>6, <3>1, <3>2 DEF Create, netVars, RequestTypeOK
    <3>3. CASE handler' = [handler EXCEPT ![d] = "none"] /\ Reply(d, Says("error", NoId))
      <4>1. \A e \in Clients \ {d} : made'[e] = made[e]
        BY <2>6 DEF Create, RequestTypeOK
      <4> QED BY <2>5, <2>6, <3>1, <3>3, <4>1, RecordFacts DEF Create
    <3> QED BY <2>6, <3>2, <3>3 DEF Create
  <2>7. ASSUME NEW d \in Clients, RunCreated(d)
        PROVE  Explained(i, owner[i])'
    <3>1. /\ \A e \in Clients : handler'[e] = IF e = d THEN "render" ELSE handler[e]
          /\ handler[d] = "run"
          /\ UNCHANGED <<made, net, answer, pc, id>>
      BY <2>7 DEF RunCreated, netVars, callerVars, RequestTypeOK
    <3> QED BY <2>1, <2>2, <3>1 DEF Explained, Says
  <2>8. ASSUME NEW d \in Clients, AnswerPost(d)
        PROVE  Explained(i, owner[i])'
    <3>1. Says("operation", made[d]) \in Answers
      BY RecordFacts DEF RequestTypeOK
    <3>2. \A e \in Clients \ {d} : made'[e] = made[e]
      BY <2>8 DEF AnswerPost, RequestTypeOK
    <3>3. d = c /\ pc[c] = "post" => made[d] = i
      BY <2>2, <2>8 DEF AnswerPost, Answerable
    <3> QED BY <2>5, <2>8, <3>1, <3>2, <3>3 DEF AnswerPost, Answerable, callerVars
  <2>9. ASSUME NEW d \in Clients, AnswerDial(d) \/ AnswerQuery(d) \/ AnswerNotFound(d)
        PROVE  Explained(i, owner[i])'
    <3>1. id[d] \in Ids \cup {NoId}
      BY DEF RequestTypeOK
    <3>2. PICK a \in Answers : Reply(d, a)
      BY <2>9, <3>1, RecordFacts DEF AnswerDial, AnswerQuery, AnswerNotFound
    <3>3. asked[d].name # "post" /\ handler[d] # "none"
      BY <2>9 DEF AnswerDial, AnswerQuery, AnswerNotFound, HandlerInv
    <3>4. d = c => pc[c] # "post"
      BY <2>2, <3>3
    <3> QED BY <2>5, <2>9, <3>2, <3>3, <3>4
        DEF AnswerDial, AnswerQuery, AnswerNotFound, callerVars, mapVars
  <2>10. ASSUME NEW j \in Ids, StartSession(j) \/ EndSession(j) \/ Forget(j)
         PROVE  Explained(i, owner[i])'
    BY <2>3, <2>10 DEF StartSession, EndSession, Forget, handlerVars, netVars, callerVars
  <2>11. CASE ServerEnds
    <3>1. life'[i] \notin {"pending", "running"}
      BY <2>11 DEF ServerEnds, InMap
    <3> QED BY <1>5, <3>1 DEF Waiting
  <2>12. CASE Restart
    BY <2>1, <2>3, <2>12 DEF Restart, handlerVars, netVars, callerVars
  <2>13. ASSUME NEW d \in Clients, PostExec(d) \/ DialNext(d) \/ Query(d)
         PROVE  Explained(i, owner[i])'
    <3>1. net[d] = "none" /\ UNCHANGED <<answer, id, handler, made>>
      BY <2>13 DEF PostExec, DialNext, Query, Call, handlerVars
    <3>2. \A e \in Clients \ {d} : pc'[e] = pc[e] /\ net'[e] = net[e]
      BY <2>13 DEF PostExec, DialNext, Query, Call, RequestTypeOK
    <3>3. PostExec(d) => d # c
      BY <2>2 DEF PostExec
    <3>4. CASE d # c
      BY <2>1, <2>3, <3>1, <3>2, <3>4
    <3>5. CASE d = c
      BY <2>1, <2>2, <2>13, <3>1, <3>3, <3>5 DEF DialNext, Query, Explained
    <3> QED BY <3>4, <3>5
  <2>14. ASSUME NEW d \in Clients,
                ReceivePost(d) \/ ReceiveDial(d) \/ ReceiveQuery(d) \/ ReceiveBreak(d) \/ Die(d)
         PROVE  Explained(i, owner[i])'
    <3>1. HangUp(d) /\ UNCHANGED <<handler, made>>
      BY <2>14 DEF ReceivePost, ReceiveDial, ReceiveQuery, ReceiveBreak, Die, handlerVars
    <3>2. \A e \in Clients \ {d} : /\ net'[e] = net[e] /\ answer'[e] = answer[e]
                                   /\ pc'[e] = pc[e] /\ id'[e] = id[e]
      BY <2>14, <3>1, HangUpFacts
      DEF ReceivePost, ReceiveDial, ReceiveQuery, ReceiveBreak, Die, RequestTypeOK, AnswerTypes
    <3>3. CASE d # c
      BY <2>1, <2>3, <3>1, <3>2, <3>3
    <3>4. CASE d = c
      <4>1. /\ c \notin harmed /\ life[i] \in {"pending", "running"}
            /\ ~(Awaited(body[i]) \subseteq attached[i])
        BY <2>1 DEF Waiting
      <4>2. Reach(c)
        BY <2>1 DEF ReachInv
      <4>3. CASE ReceivePost(c)
        <5>1. answer[c] = Says("operation", i)
          BY <2>1, <2>2, <4>3 DEF ReceivePost, CallInv
        <5>2. pc'[c] = "use" /\ id'[c] = i
          BY <2>1, <4>3, <5>1 DEF ReceivePost, Accepted, Says, RequestTypeOK
        <5> QED BY <2>1, <5>2 DEF Explained
      <4>4. CASE ReceiveDial(c)
        <5>1. pc[c] = "use" /\ id[c] = i
          BY <2>2, <4>4 DEF ReceiveDial
        <5>2. answer[c].says = "upgrade"
          BY <4>1, <4>2, <4>4, <5>1 DEF ReceiveDial, Reach, Over
        <5> QED BY <2>1, <4>4, <5>1, <5>2 DEF ReceiveDial, Explained
      <4>5. CASE ReceiveQuery(c)
        <5>1. pc[c] = "use" /\ id[c] = i
          BY <2>2, <4>5 DEF ReceiveQuery
        <5>2. Awaited(body[i]) \subseteq attached[i]
          BY <4>2, <4>5, <5>1 DEF ReceiveQuery, Reach
        <5> QED BY <4>1, <5>2
      <4>6. CASE ReceiveBreak(c)
        BY <4>1, <4>2, <4>6 DEF ReceiveBreak, Reach
      <4>7. CASE Die(c)
        BY <2>1, <4>7 DEF Die
      <4> QED BY <2>14, <3>4, <4>3, <4>4, <4>5, <4>6, <4>7
    <3> QED BY <3>3, <3>4
  <2>15. ASSUME NEW d \in Clients, Break(d)
         PROVE  Explained(i, owner[i])'
    <3>1. /\ \A e \in Clients \ {d} : net'[e] = net[e] /\ answer'[e] = answer[e]
          /\ d \in harmed' /\ UNCHANGED <<pc, id, handler, made>>
      BY <2>15 DEF Break, handlerVars, RequestTypeOK, AnswerTypes
    <3> QED BY <2>1, <2>3, <3>1
  <2> QED
    BY <2>4, <2>6, <2>7, <2>8, <2>9, <2>10, <2>11, <2>12, <2>13, <2>14, <2>15
    DEF RequestNext, Handle, Caller, Panic, Killed
<1> QED BY <1>6, <1>7

-----------------------------------------------------------------------------
\* A dial is refused by a server that has seen the operation's end.
LEMMA RefusedStep ==
  ASSUME RequestInv, RequestNext
  PROVE  RefusedIsOver'
<1> USE DEF RequestInv
<1>1. SUFFICES ASSUME NEW c \in Clients, pc'[c] = "failed", id'[c] \in Ids, c \notin harmed'
               PROVE  life'[id'[c]] \in Over
  BY DEF RefusedIsOver, Over
<1>2. /\ \A i \in Ids : life[i] # "free" => Grows(i)
      /\ c \notin harmed
  BY <1>1, MapGrows
<1>3. id[c] \in Ids => owner[id[c]] = c /\ Grows(id[c])
  BY <1>2 DEF OwnInv, Mine
<1>4. ASSUME UNCHANGED <<pc, id>>
      PROVE  life'[id'[c]] \in Over
  BY <1>1, <1>2, <1>3, <1>4 DEF RefusedIsOver, Grows, Over
<1>5. ASSUME NEW d \in Clients, \A e \in Clients \ {d} : pc'[e] = pc[e] /\ id'[e] = id[e],
             pc'[d] # "failed"
      PROVE  life'[id'[c]] \in Over
  BY <1>1, <1>2, <1>3, <1>5 DEF RefusedIsOver, Grows, Over
<1>6. ASSUME NEW d \in Clients, PostExec(d) \/ ReceivePost(d) \/ ReceiveQuery(d) \/ Die(d)
      PROVE  life'[id'[c]] \in Over
  <2>1. \A e \in Clients \ {d} : pc'[e] = pc[e] /\ id'[e] = id[e]
    BY <1>6 DEF PostExec, ReceivePost, ReceiveQuery, Die, Call, RequestTypeOK
  <2>2. pc'[d] # "failed"
    BY <1>6 DEF PostExec, ReceivePost, ReceiveQuery, Die, RequestTypeOK
  <2> QED BY <1>5, <2>1, <2>2
<1>7. ASSUME NEW d \in Clients, ReceiveDial(d)
      PROVE  life'[id'[c]] \in Over
  <2>1. /\ \A e \in Clients \ {d} : pc'[e] = pc[e] /\ id'[e] = id[e]
        /\ UNCHANGED <<life, id>>
    BY <1>7 DEF ReceiveDial, mapVars, RequestTypeOK
  <2>2. CASE d # c
    BY <1>1, <1>2, <1>3, <2>1, <2>2 DEF RefusedIsOver, Grows, Over
  <2>3. CASE d = c
    <3>1. pc[c] = "use" /\ id[c] \in Ids
      BY <1>7, <2>3, RequestAssumption DEF ReceiveDial, CallInv, OwnInv
    <3>2. answer[c].says # "upgrade"
      BY <1>1, <1>7, <2>3, <3>1 DEF ReceiveDial
    <3>3. life[id[c]] \in Over
      BY <1>7, <2>3, <3>2 DEF ReceiveDial, ReachInv, Reach
    <3> QED BY <2>1, <3>3
  <2> QED BY <2>2, <2>3
<1>8. ASSUME NEW d \in Clients, ReceiveBreak(d)
      PROVE  life'[id'[c]] \in Over
  <2>1. /\ \A e \in Clients \ {d} : pc'[e] = pc[e] /\ id'[e] = id[e]
        /\ UNCHANGED <<life, id>> /\ net[d] = "broken"
    BY <1>8 DEF ReceiveBreak, mapVars, RequestTypeOK
  <2>2. CASE d # c
    BY <1>1, <1>2, <1>3, <2>1, <2>2 DEF RefusedIsOver, Grows, Over
  <2>3. CASE d = c
    BY <1>1, <1>2, <1>3, <2>1, <2>3 DEF ReachInv, Reach, Over
  <2> QED BY <2>2, <2>3
<1>9. ASSUME NEW d \in Clients, Handle(d) \/ DialNext(d) \/ Query(d) \/ Break(d)
      PROVE  UNCHANGED <<pc, id>>
  BY <1>9 DEF Handle, Accept, Create, RunCreated, AnswerPost, AnswerDial, AnswerQuery,
     AnswerNotFound, DialNext, Query, Break, Call, callerVars
<1>10. ASSUME NEW i \in Ids, StartSession(i) \/ EndSession(i) \/ Forget(i)
       PROVE  UNCHANGED <<pc, id>>
  BY <1>10 DEF StartSession, EndSession, Forget, callerVars
<1>11. ASSUME ServerEnds \/ Restart
       PROVE  UNCHANGED <<pc, id>>
  BY <1>11 DEF ServerEnds, Restart, callerVars
<1> QED
  BY <1>4, <1>6, <1>7, <1>8, <1>9, <1>10, <1>11 DEF RequestNext, Caller, Panic, Killed

\* What an answer says of an operation is of the one that was asked for.
LEMMA AnswerStep ==
  ASSUME RequestInv, RequestNext
  PROVE  OkIsFromTheMap'
<1> USE RequestAssumption DEF RequestInv
<1>1. SUFFICES ASSUME NEW c \in Clients, net'[c] = "answer", asked'[c].name \in Queries,
                      answer'[c].says = "operation"
               PROVE  answer'[c].id = id'[c]
  BY DEF OkIsFromTheMap, Accepted
<1>2. ASSUME UNCHANGED <<net[c], asked[c], answer[c], id[c]>>
      PROVE  answer'[c].id = id'[c]
  BY <1>1, <1>2 DEF OkIsFromTheMap, Accepted
<1>3. ASSUME NEW d \in Clients, NEW a \in Answers, Reply(d, a), UNCHANGED <<asked, id>>,
             asked[d].name \in Queries /\ a.says = "operation" => a.id = id[d]
      PROVE  answer'[c].id = id'[c]
  <2>1. \/ UNCHANGED <<net[c], answer[c]>>
        \/ d = c /\ answer'[c] = a
    BY <1>3, ReplyFacts DEF RequestTypeOK, AnswerTypes
  <2> QED BY <1>1, <1>2, <1>3, <2>1
<1>4. ASSUME NEW d \in Clients, Create(d) \/ AnswerPost(d) \/ AnswerDial(d)
      PROVE  answer'[c].id = id'[c]
  <2>1. made[d] \in Ids \cup {NoId} /\ id[d] \in Ids \cup {NoId}
    BY DEF RequestTypeOK
  <2>2. UNCHANGED netVars \/ \E a \in Answers : Reply(d, a)
    BY <1>4, <2>1, RecordFacts DEF Create, AnswerPost, AnswerDial
  <2>3. UNCHANGED <<asked, id>> /\ asked[d].name \notin Queries
    BY <1>4 DEF Create, AnswerPost, Answerable, AnswerDial, HandlerInv, callerVars
  <2> QED BY <1>2, <1>3, <2>2, <2>3 DEF netVars
<1>5. ASSUME NEW d \in Clients, AnswerQuery(d) \/ AnswerNotFound(d)
      PROVE  answer'[c].id = id'[c]
  <2>1. id[d] \in Ids \cup {NoId}
    BY DEF RequestTypeOK
  <2>2. PICK a \in Answers : Reply(d, a) /\ (a.says = "operation" => a.id = id[d])
    BY <1>5, <2>1, RecordFacts DEF AnswerQuery, AnswerNotFound, Says
  <2> QED BY <1>3, <1>5, <2>2 DEF AnswerQuery, AnswerNotFound, callerVars
<1>6. ASSUME NEW d \in Clients, Accept(d)
      PROVE  answer'[c].id = id'[c]
  <2>1. net'[d] = "handled" /\ \A e \in Clients \ {d} : net'[e] = net[e]
    BY <1>6 DEF Accept, RequestTypeOK
  <2> QED BY <1>1, <1>2, <1>6, <2>1 DEF Accept, callerVars
<1>7. ASSUME NEW d \in Clients, RunCreated(d)
      PROVE  answer'[c].id = id'[c]
  BY <1>2, <1>7 DEF RunCreated, netVars, callerVars
<1>8. ASSUME NEW i \in Ids, StartSession(i) \/ EndSession(i) \/ Forget(i)
      PROVE  answer'[c].id = id'[c]
  BY <1>2, <1>8 DEF StartSession, EndSession, Forget, netVars, callerVars
<1>9. CASE ServerEnds
  BY <1>1, <1>9 DEF ServerEnds
<1>10. CASE Restart
  BY <1>2, <1>10 DEF Restart, netVars, callerVars
<1>11. ASSUME NEW d \in Clients, ClientStep(d)
       PROVE  answer'[c].id = id'[c]
  <2>1. net'[d] # "answer"
    BY <1>11 DEF ClientStep, PostExec, Query, DialNext, ReceivePost, ReceiveDial, ReceiveQuery,
       ReceiveBreak, Break, Die, Call, HangUp, RequestTypeOK
  <2>2. \A e \in Clients \ {d} : net'[e] = net[e] /\ id'[e] = id[e]
    BY <1>11 DEF ClientStep, PostExec, Query, DialNext, ReceivePost, ReceiveDial, ReceiveQuery,
       ReceiveBreak, Break, Die, Call, HangUp, RequestTypeOK
  <2>3. \A e \in Clients \ {d} : asked'[e] = asked[e]
    BY <1>11 DEF ClientStep, PostExec, Query, DialNext, ReceivePost, ReceiveDial, ReceiveQuery,
       ReceiveBreak, Break, Die, Call, HangUp, RequestTypeOK
  <2>4. \A e \in Clients \ {d} : answer'[e] = answer[e]
    BY <1>11 DEF ClientStep, PostExec, Query, DialNext, ReceivePost, ReceiveDial, ReceiveQuery,
       ReceiveBreak, Break, Die, Call, HangUp, AnswerTypes
  <2> QED BY <1>1, <1>2, <2>1, <2>2, <2>3, <2>4
<1> QED
  BY <1>4, <1>5, <1>6, <1>7, <1>8, <1>9, <1>10, <1>11
  DEF RequestNext, Handle, Caller, Panic, Killed, ClientStep

-----------------------------------------------------------------------------
\* The invariant holds at the start.
LEMMA RequestInitInv ==
  ASSUME RequestInit
  PROVE  RequestInv
<1> USE RequestAssumption, RecordFacts DEF RequestInit
<1>1. RequestTypeOK /\ AnswerTypes
  BY DEF RequestTypeOK, AnswerTypes, InMap, NoCall, CallOf
<1>2. MapInv /\ CallInv /\ HandlerInv
  BY DEF MapInv, CallInv, HandlerInv, InMap
<1>3. OwnInv
  BY DEF OwnInv, NoneYet
<1>4. ReachInv /\ FaultInv
  BY DEF ReachInv, Reach, FaultInv, Waiting
<1>5. RefusedIsOver /\ OkIsFromTheMap
  BY DEF RefusedIsOver, OkIsFromTheMap
<1> QED BY <1>1, <1>2, <1>3, <1>4, <1>5 DEF RequestInv

\* Every step and every stutter preserves the invariant.
LEMMA RequestNextInv ==
  ASSUME RequestInv, [RequestNext]_requestVars
  PROVE  RequestInv'
<1>1. CASE RequestNext
  BY <1>1, TypeStep, MapStep, CallStep, HandlerStep, OwnStep, ReachStep, FaultStep, RefusedStep,
     AnswerStep DEF RequestInv
<1>2. CASE UNCHANGED requestVars
  <2> USE <1>2 DEF requestVars, mapVars, handlerVars, netVars, callerVars, RequestInv
  <2>1. RequestTypeOK' /\ AnswerTypes'
    BY DEF RequestTypeOK, AnswerTypes
  <2>2. MapInv' /\ CallInv' /\ HandlerInv'
    BY DEF MapInv, CallInv, HandlerInv
  <2>3. OwnInv'
    BY DEF OwnInv, NoneYet, Mine
  <2>4. ReachInv'
    BY DEF ReachInv, Reach, Awaited, Streams
  <2>5. FaultInv'
    BY DEF FaultInv, Waiting, Explained, Awaited, Streams
  <2>6. RefusedIsOver' /\ OkIsFromTheMap'
    BY DEF RefusedIsOver, OkIsFromTheMap, Accepted
  <2> QED BY <2>1, <2>2, <2>3, <2>4, <2>5, <2>6
<1> QED BY <1>1, <1>2

(* The operations' map, the calls under way and their handlers fit together  *)
(* in every reachable state, whatever connections break, clients die and     *)
(* servers end and start again.                                              *)
THEOREM RequestInvariant == RequestSpec => []RequestInv
BY RequestInitInv, RequestNextInv, PTL DEF RequestSpec

(* The types of the map, of the calls and of their handlers.                 *)
THEOREM RequestTypeCorrect == RequestSpec => []RequestTypeOK
<1>1. RequestInv => RequestTypeOK
  BY DEF RequestInv
<1> QED BY <1>1, RequestInvariant, PTL

(* A client that ExecInstance lets go on has its own operation, which Run    *)
(* has been called for, and a secret for every stream that Do waits for.     *)
THEOREM AnsweredHasItsSession == RequestSpec => []AnswerIsSession
<1>1. ASSUME RequestInv
      PROVE  AnswerIsSession
  <2>1. SUFFICES ASSUME NEW c \in Clients, pc[c] = "use"
                 PROVE  /\ id[c] \in Ids /\ owner[id[c]] = c
                        /\ life[id[c]] \notin {"free", "pending"}
                        /\ Awaited(body[id[c]]) \subseteq fds[id[c]]
    BY DEF AnswerIsSession
  <2>2. /\ id[c] \in Ids /\ owner[id[c]] = c
        /\ life[id[c]] \notin {"free", "pending"}
    BY <1>1, <2>1 DEF RequestInv, OwnInv, Mine
  <2>3. body[id[c]] \in Bodies /\ fds[id[c]] = Streams(body[id[c]])
    BY <1>1, <2>2, RequestAssumption DEF RequestInv, MapInv
  <2> QED BY <2>2, <2>3, StreamFacts
<1> QED BY <1>1, RequestInvariant, PTL

(* A POST that is answered with an error has left no operation in the        *)
(* server: execHandler makes it after everything that can fail.              *)
THEOREM RefusedHasNone == RequestSpec => []ErrorLeavesNoSession
<1>1. RequestInv => ErrorLeavesNoSession
  BY DEF RequestInv, ErrorLeavesNoSession, OwnInv, NoneYet
<1> QED BY <1>1, RequestInvariant, PTL

(* The server refuses a dial of an answered client only for an operation     *)
(* that is over.                                                             *)
THEOREM RefusalIsTheEnd == RequestSpec => []RefusedIsOver
<1>1. RequestInv => RefusedIsOver
  BY DEF RequestInv
<1> QED BY <1>1, RequestInvariant, PTL

(* A session waits for ever for streams only when its client died or lost a  *)
(* connection: no order of calls, answers and restarts does that alone.      *)
THEOREM OrphansAreOfFaults == RequestSpec => []OrphanHasReason
<1>1. ASSUME RequestInv
      PROVE  OrphanHasReason
  <2>1. SUFFICES ASSUME NEW i \in Ids, Waiting(i),
                        \/ pc[owner[i]] \in {"refused", "failed", "gaveUp", "dead"}
                        \/ /\ pc[owner[i]] = "use" /\ Missing(owner[i]) = {}
                           /\ net[owner[i]] = "none"
                 PROVE  FALSE
    BY DEF OrphanHasReason, Waiting
  <2>2. Explained(i, owner[i]) /\ life[i] # "free" /\ ~(Awaited(body[i]) \subseteq attached[i])
    BY <1>1, <2>1 DEF RequestInv, FaultInv, Waiting
  <2>3. owner[i] \in Clients /\ body[i] \in Bodies /\ fds[i] = Streams(body[i])
    BY <1>1, <2>2, RequestAssumption DEF RequestInv, MapInv
  <2>4. pc[owner[i]] = "use" /\ id[owner[i]] = i /\ Missing(owner[i]) = {}
    BY <2>1, <2>2 DEF Explained
  <2>5. Awaited(body[i]) \subseteq dialled[owner[i]]
    BY <2>3, <2>4, DialFacts DEF Missing
  <2>6. dialled[owner[i]] \subseteq attached[i]
    BY <1>1, <2>3, <2>4 DEF RequestInv, ReachInv, Reach
  <2> QED BY <2>2, <2>5, <2>6
<1> QED BY <1>1, RequestInvariant, PTL

(* What a client takes for a success was said of its own operation by a      *)
(* server that has it.                                                       *)
THEOREM SuccessIsOfTheMap == RequestSpec => []OkIsFromTheMap
<1>1. RequestInv => OkIsFromTheMap
  BY DEF RequestInv
<1> QED BY <1>1, RequestInvariant, PTL

-----------------------------------------------------------------------------
(* The refinement: each client has its session.                              *)

(* A client's session is the stage of the one operation that it owns.        *)
OwnStage == \A c \in Clients, i \in Ids : owner[i] = c => Sessions[c] = Stage(i)

LEMMA SessionIsStage == MapInv => OwnStage
<1> SUFFICES ASSUME MapInv, NEW c \in Clients, NEW i \in Ids, owner[i] = c
             PROVE  Sessions[c] = Stage(i)
  BY DEF OwnStage
<1>1. \A j \in Ids : owner[j] = c => j = i
  BY RequestAssumption DEF RequestAssumption, MapInv
<1>2. (CHOOSE j \in Ids : owner[j] = c) = i
  BY <1>1
<1> QED BY <1>2 DEF Sessions

(* Also after a step.                                                        *)
LEMMA SessionIsStageNext == MapInv' => OwnStage'
BY SessionIsStage, PTL

(* Without an operation there is no session.                                 *)
LEMMA NoSession ==
  ASSUME NEW c \in Clients, \A i \in Ids : owner[i] # c
  PROVE  Sessions[c] = "none"
BY DEF Sessions

(* The stages depend on the map alone.                                       *)
LEMMA SessionsFrame ==
  ASSUME UNCHANGED <<life, owner, body, attached>>
  PROVE  Sessions' = Sessions
BY DEF Sessions, Stage

(* The stage of one operation changes.                                       *)
LEMMA OneStage ==
  ASSUME MapInv, MapInv', UNCHANGED owner, NEW i \in Ids, NEW c \in Clients, owner[i] = c,
         \A j \in Ids \ {i} : Stage(j)' = Stage(j)
  PROVE  Sessions' = [Sessions EXCEPT ![c] = Stage(i)']
<1>1. Sessions'[c] = Stage(i)'
  BY SessionIsStageNext DEF OwnStage
<1>2. ASSUME NEW d \in Clients, d # c
      PROVE  Sessions'[d] = Sessions[d]
  <2>1. CASE \A j \in Ids : owner[j] # d
    BY <2>1 DEF Sessions
  <2>2. ASSUME NEW j \in Ids, owner[j] = d
        PROVE  Sessions'[d] = Sessions[d]
    <3>1. Sessions[d] = Stage(j) /\ Sessions'[d] = Stage(j)'
      BY <2>2, SessionIsStage, SessionIsStageNext DEF OwnStage
    <3> QED BY <1>2, <2>2, <3>1
  <2> QED BY <2>1, <2>2
<1>3. /\ Sessions = [d \in Clients |-> Sessions[d]]
      /\ Sessions' = [d \in Clients |-> Sessions'[d]]
  BY DEF Sessions
<1> QED BY <1>1, <1>2, <1>3

(* An id, once it is known, and a refusal are for good.                      *)
LEMMA VerdictsFrame ==
  ASSUME UNCHANGED id,
         \A c \in Clients : id[c] \notin Ids => (pc'[c] = "refused" <=> pc[c] = "refused")
  PROVE  Verdicts' = Verdicts
BY DEF Verdicts

(* Steps that neither a session nor a verdict sees: every step of a client   *)
(* but the receipt of the answer to its POST.                                *)
LEMMA ClientHidden ==
  ASSUME RequestInv, NEW c \in Clients, ClientStep(c), ~ReceivePost(c)
  PROVE  UNCHANGED <<Sessions, Verdicts>>
<1> USE DEF RequestInv
<1>1. Sessions' = Sessions
  BY ClientLeavesServer, SessionsFrame
<1>2. pc[c] # "refused" /\ UNCHANGED id /\ \E s \in {pc[c], "post", "failed", "use", "gaveUp", "dead"} :
         pc' = [pc EXCEPT ![c] = s]
  <2>1. CASE PostExec(c)
    BY <2>1 DEF PostExec, Call
  <2>2. CASE Query(c) \/ DialNext(c)
    BY <2>2 DEF Query, DialNext, Call, RequestTypeOK
  <2>3. CASE ReceiveDial(c) \/ ReceiveQuery(c) \/ ReceiveBreak(c)
    <3>1. net[c] # "none"
      BY <2>3 DEF ReceiveDial, ReceiveQuery, ReceiveBreak
    <3>2. pc[c] \in {"post", "use"}
      BY <3>1 DEF CallInv
    <3>3. CASE ReceiveDial(c)
      BY <3>2, <3>3 DEF ReceiveDial, RequestTypeOK
    <3>4. CASE ReceiveQuery(c)
      BY <3>2, <3>4 DEF ReceiveQuery
    <3>5. CASE ReceiveBreak(c)
      BY <3>2, <3>5 DEF ReceiveBreak
    <3> QED BY <2>3, <3>3, <3>4, <3>5
  <2>4. CASE Break(c)
    <3>1. pc[c] \in {"post", "use"}
      BY <2>4 DEF Break, CallInv
    <3> QED BY <2>4, <3>1 DEF Break, RequestTypeOK
  <2>5. CASE Die(c)
    BY <2>5 DEF Die
  <2> QED BY <2>1, <2>2, <2>3, <2>4, <2>5 DEF ClientStep
<1>3. \A d \in Clients : pc'[d] = "refused" <=> pc[d] = "refused"
  BY <1>2 DEF RequestTypeOK
<1> QED BY <1>1, <1>2, <1>3, VerdictsFrame

(* The answer to a POST grants the session that it has made, or refuses one. *)
LEMMA PostIsVerdict ==
  ASSUME RequestInv, NEW c \in Clients, ReceivePost(c)
  PROVE  Contract!Next
<1> USE DEF RequestInv
<1>1. Sessions' = Sessions
  BY SessionsFrame DEF ReceivePost, mapVars
<1>2. pc[c] = "post" /\ id[c] \notin Ids
  BY RequestAssumption DEF ReceivePost, CallInv, OwnInv, RequestAssumption
<1>3. Verdicts[c] = "none"
  BY <1>2 DEF Verdicts
<1>4. CASE Accepted(answer[c])
  <2>1. Mine(c, answer[c].id)
    BY <1>4 DEF ReceivePost, Accepted, OwnInv
  <2>2. pc' = [pc EXCEPT ![c] = "use"] /\ id' = [id EXCEPT ![c] = answer[c].id]
    BY <1>4 DEF ReceivePost
  <2>3. Sessions[c] # "none"
    BY <2>1, SessionIsStage DEF OwnStage, Mine, Stage
  <2>4. Verdicts' = [Verdicts EXCEPT ![c] = "granted"]
    BY <2>1, <2>2 DEF Verdicts, Mine, RequestTypeOK
  <2>5. Contract!Grant(c)
    BY <1>1, <1>3, <2>3, <2>4 DEF Contract!Grant
  <2> QED BY <2>5 DEF Contract!Next
<1>5. CASE ~Accepted(answer[c])
  <2>1. \A i \in Ids : owner[i] # c
    BY <1>5 DEF ReceivePost, Accepted, OwnInv, NoneYet
  <2>2. pc' = [pc EXCEPT ![c] = "refused"] /\ UNCHANGED id
    BY <1>5 DEF ReceivePost
  <2>3. Verdicts' = [Verdicts EXCEPT ![c] = "refused"]
    BY <1>2, <2>2 DEF Verdicts, RequestTypeOK
  <2>4. Contract!Refuse(c)
    BY <1>1, <1>3, <2>1, <2>3, NoSession DEF Contract!Refuse
  <2> QED BY <2>4 DEF Contract!Next
<1> QED BY <1>4, <1>5

(* A POST whose handler makes an operation makes the client's first session. *)
LEMMA CreateMakes ==
  ASSUME RequestInv, RequestInv', NEW c \in Clients, Create(c)
  PROVE  Contract!Next \/ UNCHANGED <<Sessions, Verdicts>>
<1> USE DEF RequestInv
<1>1. Verdicts' = Verdicts
  BY VerdictsFrame DEF Create
<1>2. CASE UNCHANGED <<life, owner, body>>
  <2>1. Sessions' = Sessions
    BY <1>2, SessionsFrame DEF Create
  <2> QED BY <1>1, <2>1
<1>3. CASE /\ life' = [life EXCEPT ![NewId] = "pending"]
           /\ owner' = [owner EXCEPT ![NewId] = c]
           /\ body' = [body EXCEPT ![NewId] = posted[c]]
  <2>1. PICK n \in Ids : /\ n = NewId /\ life[n] = "free" /\ owner[n] = NoId /\ attached'[n] = {}
    BY NewIdIsFree DEF Create, MapInv
  <2>2. handler[c] = "exec" /\ \A i \in Ids : owner[i] # c
    BY DEF Create, OwnInv, NoneYet
  <2>3. Verdicts[c] = "none"
    <3>1. id[c] \notin Ids
      BY <2>2 DEF OwnInv, Mine
    <3>2. pc[c] # "refused"
      BY <2>2 DEF HandlerInv, CallInv
    <3> QED BY <3>1, <3>2 DEF Verdicts
  <2>4. Sessions'[c] = "made"
    <3>1. owner'[n] = c /\ life'[n] = "pending"
      BY <1>3, <2>1 DEF RequestTypeOK
    <3>2. \A p : 0 \in Awaited(p)
      BY DEF Awaited, Streams, Control
    <3>3. Stage(n)' = "made"
      BY <2>1, <3>1, <3>2 DEF Stage
    <3>4. Sessions'[c] = Stage(n)'
      BY <3>1, SessionIsStageNext DEF OwnStage
    <3> QED BY <3>3, <3>4
  <2>5. ASSUME NEW d \in Clients, d # c
        PROVE  Sessions'[d] = Sessions[d]
    <3>1. \A i \in Ids : owner'[i] = d <=> owner[i] = d
      BY <1>3, <2>1, <2>5, RequestAssumption DEF RequestTypeOK, RequestAssumption
    <3>2. CASE \A i \in Ids : owner[i] # d
      BY <3>1, <3>2 DEF Sessions
    <3>3. ASSUME NEW i \in Ids, owner[i] = d
          PROVE  Sessions'[d] = Sessions[d]
      <4>1. Sessions[d] = Stage(i) /\ Sessions'[d] = Stage(i)'
        BY <3>1, <3>3, SessionIsStage, SessionIsStageNext DEF OwnStage
      <4>2. i # n
        BY <2>1, <3>3, RequestAssumption DEF RequestAssumption
      <4>3. Stage(i)' = Stage(i)
        BY <1>3, <2>1, <4>2 DEF Stage, Create, RequestTypeOK
      <4> QED BY <4>1, <4>3
    <3> QED BY <3>2, <3>3
  <2>6. Sessions[c] = "none"
    BY <2>2, NoSession
  <2>7. Sessions' = [Sessions EXCEPT ![c] = "made"]
    <3>1. /\ Sessions = [d \in Clients |-> Sessions[d]]
          /\ Sessions' = [d \in Clients |-> Sessions'[d]]
      BY DEF Sessions
    <3> QED BY <2>4, <2>5, <3>1
  <2>8. Contract!Make(c)
    BY <1>1, <2>3, <2>6, <2>7 DEF Contract!Make
  <2> QED BY <2>8 DEF Contract!Next
<1> QED BY <1>2, <1>3 DEF Create

(* A dial attaches a stream of the client's own operation, whose id it has.  *)
LEMMA DialCompletes ==
  ASSUME RequestInv, RequestInv', NEW c \in Clients, AnswerDial(c)
  PROVE  Contract!Next \/ UNCHANGED <<Sessions, Verdicts>>
<1> USE DEF RequestInv
<1>1. Verdicts' = Verdicts
  BY VerdictsFrame DEF AnswerDial, callerVars
<1>2. UNCHANGED <<life, owner, body>>
  BY DEF AnswerDial
<1>3. CASE UNCHANGED attached
  BY <1>1, <1>2, <1>3, SessionsFrame
<1>4. CASE /\ life[id[c]] \in {"running", "started"}
           /\ attached' = [attached EXCEPT ![id[c]] = attached[id[c]] \cup {asked[c].fd}]
  <2>1. PICK i \in Ids : i = id[c] /\ owner[i] = c
    BY DEF AnswerDial, HandlerInv, OwnInv, Mine
  <2>2. /\ attached[i] \subseteq attached'[i]
        /\ \A j \in Ids \ {i} : attached'[j] = attached[j]
    BY <1>4, <2>1 DEF RequestTypeOK
  <2>3. /\ \/ Stage(i)' = Stage(i)
           \/ (Stage(i) = "made" /\ Stage(i)' = "ready")
        /\ \A j \in Ids \ {i} : Stage(j)' = Stage(j)
    <3>1. \A j \in Ids : Awaited(body[j])' = Awaited(body[j])
      BY <1>2
    <3>2. \A j \in Ids \ {i} : Stage(j)' = Stage(j)
      BY <1>2, <2>2, <3>1 DEF Stage
    <3>3. Awaited(body[i]) \subseteq attached[i] => Awaited(body[i]) \subseteq attached'[i]
      BY <2>2
    <3>4. Stage(i)' = Stage(i) \/ (Stage(i) = "made" /\ Stage(i)' = "ready")
      BY <1>2, <3>1, <3>3 DEF Stage
    <3> QED BY <3>2, <3>4
  <2>4. Sessions' = [Sessions EXCEPT ![c] = Stage(i)']
    BY <1>2, <2>1, <2>3, OneStage
  <2>5. Sessions[c] = Stage(i) /\ Verdicts[c] = "granted"
    BY <2>1, SessionIsStage DEF OwnStage, Verdicts
  <2>6. CASE Stage(i)' = Stage(i)
    <3>1. Sessions' = Sessions
      BY <2>4, <2>5, <2>6 DEF Sessions
    <3> QED BY <1>1, <3>1
  <2>7. CASE Stage(i) = "made" /\ Stage(i)' = "ready"
    <3>1. Contract!Complete(c)
      BY <1>1, <2>4, <2>5, <2>7 DEF Contract!Complete
    <3> QED BY <3>1 DEF Contract!Next
  <2> QED BY <2>3, <2>6, <2>7
<1> QED BY <1>3, <1>4 DEF AnswerDial, Connectable

(* An operation goes through its life as its client's session does.          *)
LEMMA LifeGoesOn ==
  ASSUME RequestInv, RequestInv', NEW i \in Ids, NEW l,
         life' = [life EXCEPT ![i] = l], UNCHANGED <<owner, body, attached, id, pc>>,
         \/ (life[i] = "pending" /\ l = "running") \/ (life[i] = "final" /\ l = "gone")
         \/ Connected(i) /\ l = "started"
         \/ (Connected(i) \/ life[i] = "started") /\ l = "final"
  PROVE  Contract!Next \/ UNCHANGED <<Sessions, Verdicts>>
<1> USE DEF RequestInv
<1>1. Verdicts' = Verdicts
  BY VerdictsFrame
<1>2. /\ life'[i] = l /\ \A j \in Ids \ {i} : Stage(j)' = Stage(j)
  BY DEF Stage, RequestTypeOK
<1>3. PICK c \in Clients : owner[i] = c
  BY DEF MapInv, Connected
<1>4. Sessions' = [Sessions EXCEPT ![c] = Stage(i)'] /\ Sessions[c] = Stage(i)
  BY <1>2, <1>3, OneStage, SessionIsStage DEF OwnStage
<1>5. CASE (life[i] = "pending" /\ l = "running") \/ (life[i] = "final" /\ l = "gone")
  <2>1. Stage(i)' = Stage(i)
    BY <1>2, <1>5 DEF Stage
  <2>2. Sessions' = Sessions
    BY <1>4, <2>1 DEF Sessions
  <2> QED BY <1>1, <2>2
<1>6. CASE Connected(i) /\ l = "started"
  <2>1. Stage(i) = "ready" /\ Stage(i)' = "started"
    BY <1>2, <1>6 DEF Stage, Connected
  <2>2. Contract!Start(c)
    BY <1>1, <1>4, <2>1 DEF Contract!Start
  <2> QED BY <2>2 DEF Contract!Next
<1>7. CASE (Connected(i) \/ life[i] = "started") /\ l = "final"
  <2>1. Stage(i) \in {"ready", "started"} /\ Stage(i)' = "over"
    BY <1>2, <1>7 DEF Stage, Connected
  <2>2. Contract!End(c)
    BY <1>1, <1>4, <2>1 DEF Contract!End
  <2> QED BY <2>2 DEF Contract!Next
<1> QED BY <1>5, <1>6, <1>7

(* When the server ends, so does every session there is.                     *)
LEMMA EndIsCrash ==
  ASSUME RequestInv, RequestInv', ServerEnds
  PROVE  Contract!Next
<1> USE DEF RequestInv
<1>1. Verdicts' = Verdicts /\ UNCHANGED <<owner, body, attached>>
  BY VerdictsFrame DEF ServerEnds, callerVars
<1>2. ASSUME NEW c \in Clients
      PROVE  Sessions'[c] = IF Sessions[c] = "none" THEN "none" ELSE "over"
  <2>1. CASE \A i \in Ids : owner[i] # c
    BY <1>1, <2>1 DEF Sessions
  <2>2. ASSUME NEW i \in Ids, owner[i] = c
        PROVE  Sessions'[c] = IF Sessions[c] = "none" THEN "none" ELSE "over"
    <3>1. Sessions[c] = Stage(i) /\ Sessions'[c] = Stage(i)'
      BY <1>1, <2>2, SessionIsStage, SessionIsStageNext DEF OwnStage
    <3>2. life[i] # "free"
      BY <2>2, RequestAssumption DEF MapInv, RequestAssumption
    <3>3. life'[i] \in {"final", "gone", "lost"}
      BY <3>2 DEF ServerEnds, RequestTypeOK, InMap
    <3> QED BY <3>1, <3>3 DEF Stage
  <2> QED BY <2>1, <2>2
<1>3. Sessions' = [c \in Clients |-> IF Sessions[c] = "none" THEN "none" ELSE "over"]
  <2>1. Sessions' = [c \in Clients |-> Sessions'[c]]
    BY DEF Sessions
  <2> QED BY <1>2, <2>1
<1>4. Contract!Crash
  BY <1>1, <1>3 DEF Contract!Crash
<1> QED BY <1>4 DEF Contract!Next

(* So each action is a step of the contract, or none.                        *)
LEMMA RequestContractStep ==
  RequestInv /\ RequestInv' /\ [RequestNext]_requestVars
  => [Contract!Next]_(Contract!contractVars)
<1> SUFFICES ASSUME RequestInv, RequestInv', [RequestNext]_requestVars
             PROVE  Contract!Next \/ UNCHANGED <<Sessions, Verdicts>>
  BY DEF Contract!contractVars
<1>1. ASSUME NEW c \in Clients, ClientStep(c)
      PROVE  Contract!Next \/ UNCHANGED <<Sessions, Verdicts>>
  BY <1>1, ClientHidden, PostIsVerdict
<1>2. ASSUME UNCHANGED <<mapVars, id, pc>>
      PROVE  UNCHANGED <<Sessions, Verdicts>>
  BY <1>2, SessionsFrame, VerdictsFrame DEF mapVars
<1>3. ASSUME NEW c \in Clients,
             Accept(c) \/ AnswerPost(c) \/ AnswerQuery(c) \/ AnswerNotFound(c)
      PROVE  UNCHANGED <<Sessions, Verdicts>>
  BY <1>2, <1>3 DEF Accept, AnswerPost, AnswerQuery, AnswerNotFound, callerVars
<1>4. ASSUME NEW c \in Clients, RunCreated(c)
      PROVE  Contract!Next \/ UNCHANGED <<Sessions, Verdicts>>
  <2>1. made[c] \in Ids /\ life[made[c]] = "pending"
    BY <1>4 DEF RunCreated, RequestInv, OwnInv
  <2> QED BY <1>4, <2>1, LifeGoesOn DEF RunCreated, callerVars
<1>5. ASSUME NEW i \in Ids, StartSession(i) \/ EndSession(i) \/ Forget(i)
      PROVE  Contract!Next \/ UNCHANGED <<Sessions, Verdicts>>
  BY <1>5, LifeGoesOn DEF StartSession, EndSession, Forget, callerVars
<1>6. CASE Restart \/ UNCHANGED requestVars
  BY <1>2, <1>6 DEF Restart, requestVars, callerVars
<1> QED
  BY <1>1, <1>3, <1>4, <1>5, <1>6, CreateMakes, DialCompletes, EndIsCrash
  DEF RequestNext, Handle, Caller, ClientStep, Panic, Killed

(* For any number of clients, whatever is lost, broken, killed or restarted: *)
(* each has at most one session, is refused only if it has none and has none *)
(* later, completes its own streams itself, and its command starts only then *)
(* (execHandler, operationCreate, ExecInstance).                             *)
THEOREM RequestImplementsContract == RequestSpec => EachHasItsSession
<1>1. RequestInit => Contract!Init
  <2> SUFFICES ASSUME RequestInit PROVE Contract!Init
    OBVIOUS
  <2>1. \A i \in Ids, c \in Clients : owner[i] # c
    BY RequestAssumption DEF RequestInit, RequestAssumption
  <2>2. \A c \in Clients : id[c] \notin Ids /\ pc[c] # "refused"
    BY RequestAssumption DEF RequestInit, RequestAssumption
  <2> QED BY <2>1, <2>2 DEF Contract!Init, Sessions, Verdicts
<1> QED
  BY <1>1, RequestInvariant, RequestContractStep, PTL
  DEF RequestSpec, EachHasItsSession, Contract!ContractSpec

=============================================================================
