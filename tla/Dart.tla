----------------------------------- MODULE Dart ---------------------------------
(* The mapping of dart.rs.                                                      *)
EXTENDS Mapping

Start == [state |-> Initializing]

Interpret(a, m) ==
  CASE m.is = "begin" /\ m.token = "ANALYZING" -> Says([a EXCEPT !.state.readiness = "indexing"])
    [] m.is = "end" /\ m.token = "ANALYZING" -> Says([a EXCEPT !.state.readiness = "ready"])
    [] OTHER -> Silent(a)

--------------------------------------------------------------------------------
(* The server analyses in rounds, one token for all of them.                   *)

Silence == NoWork

Speech(w) == BeginsOf(w, Fixed({"ANALYZING", "request"})) \cup Ends(w)

Complete(w) == ~Open(w, {"ANALYZING"}) /\ Ended(w, {"ANALYZING"})
================================================================================
