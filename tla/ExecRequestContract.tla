------------------------- MODULE ExecRequestContract -------------------------
(***************************************************************************)
(* ExecRequest implements RequestContract: the refinement mapping.         *)
(***************************************************************************)
EXTENDS ExecRequest

Stage(i) ==
  IF life[i] \in {"final", "gone", "lost"} THEN "over"
  ELSE IF life[i] = "started" THEN "started"
  ELSE IF Awaited(body[i]) \subseteq attached[i] THEN "ready" ELSE "made"

\* A client's session is the operation that its POST made.
Sessions ==
  [c \in Clients |-> IF \E i \in Ids : owner[i] = c
                       THEN Stage(CHOOSE i \in Ids : owner[i] = c) ELSE "none"]

\* A client that has an id keeps it, whatever becomes of it.
Verdicts ==
  [c \in Clients |-> IF id[c] \in Ids THEN "granted"
                     ELSE IF pc[c] = "refused" THEN "refused" ELSE "none"]

Contract == INSTANCE RequestContract WITH
  Callers <- Clients,
  session <- Sessions,
  verdict <- Verdicts

(* Whatever is lost, broken, killed or restarted, a client has at most one   *)
(* session, none after an error, and nobody else completes its streams.      *)
EachHasItsSession == Contract!ContractSpec
=============================================================================
