---------------------------------- MODULE Expert --------------------------------
(* The mapping of expert.rs.                                                    *)
EXTENDS Mapping

Phases == {"engine", "building", "indexing"}

Start == [state |-> Initializing, open |-> {}, lastEndedIndexing |-> FALSE]

OnBegin(a, token, phase) ==
  Says([a EXCEPT !.open = @ \cup {<<token, phase>>}, !.state.readiness = "indexing"])

OnEnd(a, p) ==
  LET b == [a EXCEPT !.open = @ \ {p}, !.lastEndedIndexing = p[2] = "indexing"]
  IN  Says(IF b.open = {} /\ b.lastEndedIndexing
             THEN [b EXCEPT !.state.readiness = "ready"] ELSE b)

Interpret(a, m) ==
  IF m.is = "begin"
    THEN IF m.title \in Phases THEN OnBegin(a, m.token, m.title) ELSE Silent(a)
    ELSE LET ended == {p \in a.open : p[1] = m.token}
         IN  IF ended = {} THEN Silent(a) ELSE OnEnd(a, CHOOSE p \in ended : TRUE)

--------------------------------------------------------------------------------
(* The server: an engine, a build, and an index that is made or loaded.        *)

Silence == NoWork

Speech(w) == Begins(w, {"engine", "building", "indexing", "request"}) \cup Ends(w)

Complete(w) == ~Open(w, Phases) /\ w.last = "indexing"
================================================================================
