---------------------------------- MODULE Gopls ---------------------------------
(* The mapping of gopls.rs.  Tokens are unique while they are open, so the     *)
(* list "loading" is a set.  A report changes a text only and is left out.     *)
EXTENDS Mapping

\* failure is empty, or has the token of an "Error loading workspace".
Start == [state |-> Initializing, loading |-> {}, failedInRound |-> FALSE, failure |-> {}]

\* Mutant: every folder that begins forgets the failures of the round.
OnBeginForgets(a, token, title) ==
  CASE title = "setup" ->
         Says([a EXCEPT !.failedInRound = FALSE, !.loading = @ \cup {token},
                        !.state.readiness = "indexing"])
    [] title = "failure" ->
         Says([a EXCEPT !.failure = {token}, !.state.health = "error"])
    [] OTHER -> Silent(a)

\* A round begins with the first folder; the failures of the last one are not carried over.
OnBegin(a, token, title) ==
  CASE title = "setup" ->
         Says([a EXCEPT !.failedInRound = @ /\ a.loading # {},
                        !.loading = @ \cup {token},
                        !.state.readiness = "indexing"])
    [] title = "failure" ->
         Says([a EXCEPT !.failure = {token}, !.state.health = "error"])
    [] OTHER -> Silent(a)

OnFailureEnd(a) == Says([a EXCEPT !.failure = {}, !.state.health = "ok"])

\* health is decided when the last folder has ended.
HealthAfterRound(a) ==
  IF a.failedInRound THEN "error" ELSE IF a.failure = {} THEN "ok" ELSE a.state.health

OnSetupEnd(a, token, failed) ==
  LET left == a.loading \ {token}
      b == [a EXCEPT !.loading = left, !.failedInRound = @ \/ failed]
  IN  IF left # {} THEN Says(b)
      ELSE Says([b EXCEPT !.state = [health |-> HealthAfterRound(b),
                                     readiness |-> "ready"]])

Interpret(a, m) ==
  CASE m.is = "begin" -> OnBegin(a, m.token, m.title)
    [] m.is = "end" /\ m.token \in a.failure -> OnFailureEnd(a)
    [] m.is = "end" /\ m.token \in a.loading \ a.failure ->
         OnSetupEnd(a, m.token, "failed" \in DOMAIN m)
    [] OTHER -> Silent(a)

--------------------------------------------------------------------------------
(* The server: folders are set up, at most one load failure at a time stands.  *)
(* A round lasts while a folder is being set up.  failing is whether a folder   *)
(* of this round (or of the last one) did not load, round how the last one      *)
(* ended, recovered whether a load failure ended after that.                    *)

Silence ==
  [open |-> {}, ended |-> {}, last |-> "nothing",
   failing |-> FALSE, round |-> "unknown", recovered |-> FALSE]

\* A folder that has begun can be found not to load, and one such report stands at a time.
Titles(w) ==
  {"setup", "request"}
    \cup {t \in {"failure"} : ~Open(w, {t}) /\ (Open(w, {"setup"}) \/ Ended(w, {"setup"}))}

Begun(w, u) ==
  IF u.says.title = "setup" /\ ~Open(w, {"setup"}) THEN [u EXCEPT !.work.failing = FALSE] ELSE u

\* The work after the end of p; a folder may not have loaded.
Ending(w, p, failed) ==
  LET v == EndOf(w, p)
      fails == w.failing \/ failed
  IN  CASE p[2] = "setup" /\ Open(v, {"setup"}) -> [v EXCEPT !.failing = fails]
        [] p[2] = "setup" /\ ~Open(v, {"setup"}) ->
             [v EXCEPT !.failing = fails, !.recovered = FALSE,
                       !.round = IF fails THEN "error" ELSE "ok"]
        [] p[2] = "failure" -> [v EXCEPT !.recovered = TRUE]
        [] OTHER -> v

GoodEnds(w) ==
  {[says |-> [is |-> "end", token |-> p[1]], work |-> Ending(w, p, FALSE)] : p \in w.open}

FailedEnds(w) ==
  {[says |-> [is |-> "end", token |-> p[1], failed |-> TRUE], work |-> Ending(w, p, TRUE)]
     : p \in {q \in w.open : q[2] = "setup"}}

Speech(w) ==
  {Begun(w, u) : u \in Begins(w, Titles(w))} \cup GoodEnds(w) \cup FailedEnds(w) \cup StrayEnds(w)

Complete(w) == ~Open(w, {"setup"}) /\ Ended(w, {"setup"})

\* A load failure that stands is an error.  Otherwise the health is how the last round
\* ended, whatever the one under way has met so far; but the end of a load failure is
\* always told as ok, until the next round ends (Mappings!OkIsObserved).
Healths(w) ==
  CASE Open(w, {"failure"}) -> {"error"}
    [] ~Open(w, {"failure"}) /\ w.recovered -> {"ok"}
    [] OTHER -> {w.round}
================================================================================
