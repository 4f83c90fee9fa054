----------------------------------- MODULE Gleam --------------------------------
(* The mapping of gleam.rs.                                                     *)
EXTENDS Mapping

DependencyToken == "downloading-dependencies"

Start == [state |-> Initializing]

\* The first round is part of starting up.
OnBegin(a) ==
  IF a.state.readiness # "ready" THEN Silent(a)
  ELSE Says([a EXCEPT !.state.readiness = "indexing"])

Interpret(a, m) ==
  CASE m.is = "begin" /\ m.token = DependencyToken -> OnBegin(a)
    [] m.is = "end" /\ m.token = DependencyToken -> Says([a EXCEPT !.state.readiness = "ready"])
    [] OTHER -> Silent(a)

--------------------------------------------------------------------------------
(* The server: the first begin is what names it.                               *)

Silence == NoWork

Speech(w) ==
  BeginsOf(w, IF w.open = {} /\ w.ended = {} THEN Fixed({DependencyToken})
              ELSE Fixed({DependencyToken, "request"}))
    \cup Ends(w)

Complete(w) == ~Open(w, {DependencyToken}) /\ Ended(w, {DependencyToken})
================================================================================
