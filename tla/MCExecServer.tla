---------------------------- MODULE MCExecServer ----------------------------
(* Model values and symmetry for the runs of ExecServer. *)
EXTENDS ExecServer, ExecSessionContract, TLC

ServerSymmetry == Permutations(Requests) \cup Permutations(Polls)
=============================================================================
