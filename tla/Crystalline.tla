-------------------------------- MODULE Crystalline -----------------------------
(* The mapping of crystalline.rs.                                               *)
EXTENDS Mapping

Start == [state |-> Initializing]

Interpret(a, m) ==
  IF m.log # "ready" \/ a.state.readiness = "ready" THEN Silent(a)
  ELSE Says([a EXCEPT !.state.readiness = "ready"])

--------------------------------------------------------------------------------
(* The server logs its projects, whatever else, and that it is ready.          *)

Silence == [ready |-> FALSE]

Speech(w) == {Notes(w, [log |-> t], "ready", w.ready \/ t = "ready") : t \in {"projects", "ready"}}

Complete(w) == w.ready
================================================================================
