------------------------- MODULE ExecSessionContract -------------------------
(***************************************************************************)
(* ExecSession implements ExecContract: the refinement mapping.            *)
(***************************************************************************)
EXTENDS ExecSession

\* A stream is attached when Connect has stored its connection.
Attached == {i \in Ttys : conns[i] # Nil}

Phase ==
  CASE doPc = "wait" -> "waiting"
    [] doPc = "returned" /\ published = Nil -> "aborted"
    [] doPc = "returned" /\ published # Nil -> "reported"
    [] doPc \notin {"wait", "returned"} /\ child = "exited" -> "ended"
    [] doPc \notin {"wait", "returned"} /\ child # "exited" -> "launched"

\* A pipe with data in it, or that some process can still write to, whose
\* client is there. (The last output of a pty may be dropped with the pty.)
Unsent ==
  {i \in OutFds : ~Interactive /\ used[i] \notin down /\ (pipe[i] > 0 \/ i \in holders)}

\* The code a client gets for each way to end; -1 stands for "by a signal".
ReportedCode(o) == IF o.how = "exit" THEN o.n ELSE -1

Contract == INSTANCE ExecContract WITH
  Streams    <- Ttys,
  Endings    <- Outcomes,
  Code       <- ReportedCode,
  StartError <- -1,
  None       <- Nil,
  attached   <- Attached,
  phase      <- Phase,
  ending     <- outcome,
  report     <- published,
  unsent     <- Unsent

(* Every step of the session is a step its client was promised, or none.     *)
Implements == Contract!ContractSpec
=============================================================================
