----------------------------------- MODULE Nixd ---------------------------------
(* The mapping of nixd.rs.                                                     *)
EXTENDS Mapping

Start == [state |-> Initializing, open |-> {}]

OnBegin(a, token) ==
  Says([a EXCEPT !.open = @ \cup {token}, !.state.readiness = "indexing"])

OnEnd(a, token) ==
  LET b == [a EXCEPT !.open = @ \ {token}] IN
  IF b.open # {} THEN Silent(b) ELSE Says([b EXCEPT !.state.readiness = "ready"])

Interpret(a, m) ==
  CASE m.is = "begin" /\ m.title = "evaluating" -> OnBegin(a, m.token)
    [] m.is = "end" /\ m.token \in a.open -> OnEnd(a, m.token)
    [] OTHER -> Silent(a)

--------------------------------------------------------------------------------
(* The server: nixpkgs entries and NixOS options are evaluated in parallel.    *)

Silence == NoWork

Speech(w) == Begins(w, {"evaluating", "request"}) \cup Ends(w) \cup StrayEnds(w)

Complete(w) == ~Open(w, {"evaluating"}) /\ Ended(w, {"evaluating"})
================================================================================
