--------------------------------- MODULE MCProxy --------------------------------
(* The relay on small sets: one server name whose mapping starts out         *)
(* initializing, and the states that lead to the three verdicts of the gate.  *)
EXTENDS Proxy, TLC

CONSTANTS r1, r2, server

MCInitialState == [n \in Name |-> Initializing]

Indexing == [health |-> "ok", readiness |-> "indexing"]
Ready == [health |-> "ok", readiness |-> "ready"]
Broken == [health |-> "error", readiness |-> "ready"]

\* The ids of requests are interchangeable.
MCSymmetry == Permutations({r1, r2})

MCSignal == {Indexing, Ready, Broken}

MCTwoSignals == {Indexing, Ready}
================================================================================
