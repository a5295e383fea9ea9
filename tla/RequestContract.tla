--------------------------- MODULE RequestContract ---------------------------
(***************************************************************************)
(* What the calls to the server promise each client, without requests,     *)
(* handlers, ids and connections: a client has one session at most, is told *)
(* of it or that it has none, and has none later when it was told so.  The *)
(* streams of a session are completed by the client that was told of it    *)
(* alone; only then does its command start, and it ends once, unless the   *)
(* server does.  ExecRequest implements this specification.                *)
(***************************************************************************)
CONSTANTS Callers  \* the clients

VARIABLES
  session,  \* [Callers -> "none", "made", "ready" (all streams), "started" or "over"]
  verdict   \* [Callers -> "none", "granted" or "refused"]

contractVars == <<session, verdict>>

Init ==
  /\ session = [c \in Callers |-> "none"]
  /\ verdict = [c \in Callers |-> "none"]

Make(c) ==
  /\ session[c] = "none"
  /\ verdict[c] = "none"
  /\ session' = [session EXCEPT ![c] = "made"]
  /\ UNCHANGED verdict

Grant(c) ==
  /\ session[c] # "none"
  /\ verdict[c] = "none"
  /\ verdict' = [verdict EXCEPT ![c] = "granted"]
  /\ UNCHANGED session

Refuse(c) ==
  /\ session[c] = "none"
  /\ verdict[c] = "none"
  /\ verdict' = [verdict EXCEPT ![c] = "refused"]
  /\ UNCHANGED session

\* The last stream that the command waits for is attached.
Complete(c) ==
  /\ session[c] = "made"
  /\ verdict[c] = "granted"
  /\ session' = [session EXCEPT ![c] = "ready"]
  /\ UNCHANGED verdict

Start(c) ==
  /\ session[c] = "ready"
  /\ session' = [session EXCEPT ![c] = "started"]
  /\ UNCHANGED verdict

\* The command ends, or could not be started.
End(c) ==
  /\ session[c] \in {"ready", "started"}
  /\ session' = [session EXCEPT ![c] = "over"]
  /\ UNCHANGED verdict

\* The server ends, and all its sessions.
Crash ==
  /\ session' = [c \in Callers |-> IF session[c] = "none" THEN "none" ELSE "over"]
  /\ UNCHANGED verdict

Next ==
  \/ \E c \in Callers : Make(c) \/ Grant(c) \/ Refuse(c) \/ Complete(c) \/ Start(c) \/ End(c)
  \/ Crash

ContractSpec == Init /\ [][Next]_contractVars

=============================================================================
