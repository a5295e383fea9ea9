---------------------------- MODULE ExecContract ----------------------------
(***************************************************************************)
(* What an exec session promises its client, without the goroutines,       *)
(* channels and files that implement it: the command is launched only when *)
(* every stream is attached, it ends once, and the code reported for it is *)
(* the code of the way it ended, reported when no output is left unsent.   *)
(* ExecSession implements this specification.                              *)
(***************************************************************************)
CONSTANTS
  Streams,     \* the streams a client attaches before the command runs
  Endings,     \* the ways a launched command can end
  Code(_),     \* the code reported for an ending
  StartError,  \* the code reported for a command that could not be started
  None         \* no ending, no report

VARIABLES
  attached,  \* the streams attached so far
  phase,     \* "waiting", "launched", "ended", "reported" or "aborted"
  ending,    \* how the command ended, or None
  report,    \* the code reported, or None
  unsent     \* streams with output that was not sent and still can be

contractVars == <<attached, phase, ending, report, unsent>>

Init ==
  /\ attached = {}
  /\ phase = "waiting"
  /\ ending = None
  /\ report = None
  /\ unsent = {}

Attach(s) ==
  /\ attached' = attached \cup {s}
  /\ UNCHANGED <<phase, ending, report, unsent>>

Launch ==
  /\ phase = "waiting"
  /\ attached = Streams
  /\ phase' = "launched"
  /\ UNCHANGED <<attached, ending, report, unsent>>

\* Output is written and sent, and a stream is given up when its client leaves.
Output ==
  /\ phase \in {"launched", "ended"}
  /\ unsent' \in SUBSET Streams
  /\ UNCHANGED <<attached, phase, ending, report>>

End(e) ==
  /\ phase = "launched"
  /\ phase' = "ended"
  /\ ending' = e
  /\ unsent' \in SUBSET unsent
  /\ UNCHANGED <<attached, report>>

Report ==
  /\ phase \in {"launched", "ended"}
  /\ unsent = {}
  /\ phase' = "reported"
  /\ report' = IF phase = "ended" THEN Code(ending) ELSE StartError
  /\ UNCHANGED <<attached, ending, unsent>>

\* The session has no resources for the command: nothing is ever reported.
Abort ==
  /\ phase = "launched"
  /\ phase' = "aborted"
  /\ UNCHANGED <<attached, ending, report, unsent>>

Next ==
  \/ \E s \in Streams : Attach(s)
  \/ \E e \in Endings : End(e)
  \/ Launch
  \/ Output
  \/ Report
  \/ Abort

ContractSpec == Init /\ [][Next]_contractVars

=============================================================================
