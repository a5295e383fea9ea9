---------------------------- MODULE MCExecClient ----------------------------
(* The requests of the runs of ExecClient (a cfg has no negative numbers).   *)
EXTENDS ExecClient

DialledRequests == IF Interactive THEN {-1, 0} ELSE {0, 1, 2}
=============================================================================
