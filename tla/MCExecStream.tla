---------------------------- MODULE MCExecStream ----------------------------
(* Instances of ExecStream for TLC: commands that write single bytes, whole *)
(* characters and pieces of text; the notice is one byte long.              *)
EXTENDS ExecStream

MCChunks == {<<"a">>, <<"c">>, <<"l", "c">>, <<"a", "a", "a">>, <<"a", "l">>}
(* Text only: whole characters of one byte and of two.                      *)
MCText == {<<"a">>, <<"l", "c">>}
MCNotice == <<"a">>
=============================================================================
