------------------------- MODULE TypescriptLanguageServer ------------------------
(* The mapping of typescript_language_server.rs.  What typescript_layout.rs     *)
(* reads from the configuration files is reduced to its verdict: whether the    *)
(* layout is complete, and whether a notification of the client breaks it.      *)
EXTENDS Mapping

Start(tested, complete) ==
  [state |-> Initializing, loading |-> {}, versionIsTested |-> tested,
   layoutComplete |-> complete, layoutChanged |-> FALSE]

DeclaresCoverage(a) == a.versionIsTested /\ a.layoutComplete

OnBegin(a, token) ==
  LET b == [a EXCEPT !.loading = @ \cup {token}] IN
  Says(IF a.layoutChanged THEN b ELSE [b EXCEPT !.state.readiness = "indexing"])

\* A server that crashed does not come back.
OnEnd(a, token) ==
  LET left == a.loading \ {token}
      b == [a EXCEPT !.loading = left]
      health == IF a.state.health = "error" THEN "error" ELSE "ok"
      readiness == IF a.layoutChanged THEN a.state.readiness ELSE "ready"
  IN  IF left # {} THEN Silent(b)
      ELSE Says([b EXCEPT !.state = [health |-> health, readiness |-> readiness]])

Interpret(a, m) ==
  CASE m.is = "begin" /\ m.title = "load" -> OnBegin(a, m.token)
    [] m.is = "end" /\ m.token \in a.loading -> OnEnd(a, m.token)
    [] m.is = "exited" -> Says([a EXCEPT !.state.health = "error"])
    [] m.is = "version" -> Silent([a EXCEPT !.versionIsTested = m.tested])
    [] OTHER -> Silent(a)

\* The layout that coverage rests on is broken: nothing is claimed any more.
ObserveClient(a, m) ==
  IF m.is = "layoutBroken" /\ ~a.layoutChanged /\ DeclaresCoverage(a)
    THEN Says([a EXCEPT !.layoutChanged = TRUE, !.state.readiness = "unknown"])
    ELSE Silent(a)

--------------------------------------------------------------------------------
(* The server and the client                                                   *)

Silence(tested, complete) ==
  [open |-> {}, ended |-> {}, last |-> "nothing", exited |-> FALSE,
   tested |-> tested, complete |-> complete, broken |-> FALSE]

Speech(w) ==
  Begins(w, {"load", "request"}) \cup Ends(w) \cup StrayEnds(w)
    \cup {Notes(w, [is |-> "exited"], "exited", TRUE)}
    \cup {Notes(w, [is |-> "version", tested |-> b], "tested", b) : b \in BOOLEAN}

ClientSpeech(w) ==
  {Notes(w, [is |-> "layoutBroken"], "broken", w.broken \/ (w.tested /\ w.complete)),
   [says |-> [is |-> "layoutKept"], work |-> w]}

Complete(w) == ~Open(w, {"load"}) /\ Ended(w, {"load"})

\* A server that crashed stays broken.
Healths(w) ==
  CASE w.exited -> {"error"}
    [] ~w.exited /\ Complete(w) -> {"ok"}
    [] OTHER -> {"unknown", "ok"}

\* Once the layout that coverage rests on is broken, an end says nothing about it.
Blind(w) == w.broken
================================================================================
