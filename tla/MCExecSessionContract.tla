------------------------ MODULE MCExecSessionContract ------------------------
(* Model values and symmetry for the runs of ExecSessionContract. *)
EXTENDS ExecSessionContract, TLC

RequestSymmetry == Permutations(Requests)
=============================================================================
