------------------------------ MODULE ServerState ------------------------------
(***************************************************************************)
(* The vocabulary of state.rs: what the proxy says about the server.  A    *)
(* state has two independent axes.  The human-readable message is left out: *)
(* no decision of the program reads it.                                    *)
(***************************************************************************)

Health == {"ok", "warning", "error", "unknown"}

Readiness == {"initializing", "indexing", "ready", "unknown"}

ServerStates == [health : Health, readiness : Readiness]

\* Right after initialize: a mapping is there and has read nothing yet.
Initializing == [health |-> "unknown", readiness |-> "initializing"]

\* No mapping: neither axis can be observed.
Unobserved == [health |-> "unknown", readiness |-> "unknown"]

\* A change that calls for experimental/serverStateChanged.
NotifiableChange(next, prev) ==
  \/ next.health # prev.health
  \/ next.readiness # prev.readiness

--------------------------------------------------------------------------------
(* Readings of a state that the properties use; no code computes them.      *)

\* A response computed in this state is promised to be as complete as declared.
Trustworthy(s) == s.health # "error" /\ s.readiness \in {"ready", "unknown"}

\* Waiting in this state makes sense: not broken, and an index is being built.
WorthWaiting(s) == s.health # "error" /\ s.readiness \in {"initializing", "indexing"}
================================================================================
