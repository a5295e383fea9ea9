---------------------------- MODULE MCExecRequest ----------------------------
(* The bodies of the run of ExecRequest: both kinds of session, a command    *)
(* without a word, and a body that does not parse.                           *)
EXTENDS ExecRequestContract

Body(j, i, c) == [json |-> j, interactive |-> i, command |-> c]

SomePosts ==
  {Body(TRUE, FALSE, TRUE), Body(TRUE, TRUE, TRUE), Body(TRUE, TRUE, FALSE), NoBody}
=============================================================================
