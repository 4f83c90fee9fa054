------------------------------- MODULE MCLifetime -------------------------------
(* Instance of Lifetime for TLC: a command line that is none, and one that is; *)
(* codes on both sides of a byte, and the code of a crash on Windows.          *)
EXTENDS Lifetime

MCArgv == {<<>>, <<"gopls">>, <<"--">>, <<"--", "gopls", "--">>}
MCCode == {-1073741819, 0, 1, 256}
================================================================================
