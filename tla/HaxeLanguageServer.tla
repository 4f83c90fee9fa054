---------------------------- MODULE HaxeLanguageServer --------------------------
(* The mapping of haxe_language_server.rs.                                      *)
EXTENDS Mapping

StartupTitles == {"buildingCache", "parsingClasspaths", "buildingRefactoringCache"}

Start == [state |-> Initializing, open |-> {}]

\* The first round is part of starting up.
OnBegin(a, token) ==
  LET b == [a EXCEPT !.open = @ \cup {token}] IN
  IF a.state.readiness # "ready" THEN Silent(b)
  ELSE Says([b EXCEPT !.state.readiness = "indexing"])

OnEnd(a, token) ==
  LET b == [a EXCEPT !.open = @ \ {token}] IN
  IF b.open # {} \/ a.state.readiness = "ready" THEN Silent(b)
  ELSE Says([b EXCEPT !.state.readiness = "ready"])

SetHealth(a, health) == SaysIfMoved(a, [a EXCEPT !.state.health = health])

Interpret(a, m) ==
  CASE m.is = "begin" /\ m.title \in StartupTitles -> OnBegin(a, m.token)
    [] m.is = "end" /\ m.token \in a.open -> OnEnd(a, m.token)
    [] m.is = "connected" -> SetHealth(a, "ok")
    [] m.is \in {"versionCheckFailed", "invalidArgument", "keepsCrashing"} -> SetHealth(a, "error")
    [] OTHER -> Silent(a)

--------------------------------------------------------------------------------
(* The server                                                                  *)

Silence == [open |-> {}, ended |-> {}, last |-> "nothing", compiler |-> "unknown"]

Speech(w) ==
  Begins(w, {"buildingCache", "parsingClasspaths", "request"}) \cup Ends(w) \cup StrayEnds(w)
    \cup {Notes(w, [is |-> "connected"], "compiler", "ok"),
          [says |-> [is |-> "otherMessage"], work |-> w]}
    \cup {Notes(w, [is |-> s], "compiler", "error")
            : s \in {"versionCheckFailed", "invalidArgument", "keepsCrashing"}}

Complete(w) == ~Open(w, StartupTitles) /\ Ended(w, StartupTitles)

Healths(w) == {w.compiler}
================================================================================
