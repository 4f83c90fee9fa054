-------------------------------- MODULE MCSession -------------------------------
(* A session with a file under a root that git may answer for, and one document. *)
EXTENDS Session

CONSTANTS w1, f1

MCUnder == [w \in {w1} |-> {f1}]
================================================================================
