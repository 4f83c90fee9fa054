---------------------------------- MODULE Metals --------------------------------
(* The mapping of metals.rs.                                                    *)
EXTENDS Mapping

Phases == {"bspConfig", "importing", "indexing", "compiling"}

Start == [state |-> Initializing, open |-> {}, imported |-> FALSE, pendingImport |-> FALSE]

OnBegin(a, token, phase) ==
  Says([a EXCEPT !.open = @ \cup {<<token, phase>>}, !.state.readiness = "indexing"])

\* After the end of p the round is over: the index is new, or only compiling was left.
Completes(a, p) == p[2] = "indexing" \/ (p[2] = "compiling" /\ a.imported /\ ~a.pendingImport)

\* Mutant: an import that was expected is expected for ever.
OnEndStillPending(a, p) ==
  LET b == [a EXCEPT !.open = @ \ {p}, !.imported = @ \/ p[2] = "indexing"]
  IN  Says(IF b.open = {} /\ Completes(b, p) THEN [b EXCEPT !.state.readiness = "ready"] ELSE b)

OnEnd(a, p) ==
  LET b == [a EXCEPT !.open = @ \ {p},
                     !.imported = @ \/ p[2] = "indexing",
                     !.pendingImport = @ /\ p[2] # "indexing"]
  IN  Says(IF b.open = {} /\ Completes(b, p) THEN [b EXCEPT !.state.readiness = "ready"] ELSE b)

OnProgress(a, m) ==
  IF m.is = "begin"
    THEN IF m.title \in Phases THEN OnBegin(a, m.token, m.title) ELSE Silent(a)
    ELSE LET ended == {p \in a.open : p[1] = m.token}
         IN  IF ended = {} THEN Silent(a) ELSE OnEnd(a, CHOOSE p \in ended : TRUE)

\* Mutant: the level is taken for a health as it stands.
OnStatusVerbatim(a, m) ==
  IF m.type # "module" THEN Silent(a) ELSE Says([a EXCEPT !.state.health = m.level])

\* Only the status of the module is about health.
OnStatus(a, m) ==
  IF m.type # "module" THEN Silent(a)
  ELSE Says([a EXCEPT !.state.health = CASE m.level = "error" -> "error"
                                         [] m.level = "warn" -> "warning"
                                         [] OTHER -> "ok"])

Interpret(a, m) == IF m.is = "status" THEN OnStatus(a, m) ELSE OnProgress(a, m)

IsBuildFile(name) ==
  \/ name[2] = ".sbt"
  \/ name \in {<<"project", ".scala">>, <<"build", ".mill">>, <<"build", ".sc">>}

IsSourceFile(name) == name[2] \in {".scala", ".sc"} /\ ~IsBuildFile(name)

\* Files the client says have changed: a source that is recompiled, or something that
\* changes the build (a source created or deleted, a build file).
ObserveClient(a, m) ==
  LET sourceChanged == \E c \in m.changes : IsSourceFile(c.name) /\ c.kind = "changed"
      buildChanged == \E c \in m.changes :
        IsBuildFile(c.name) \/ (IsSourceFile(c.name) /\ c.kind # "changed")
      b == [a EXCEPT !.pendingImport = @ \/ buildChanged]
  IN  IF a.state.readiness # "ready" \/ ~(sourceChanged \/ buildChanged) THEN Silent(b)
      ELSE Says([b EXCEPT !.state.readiness = "indexing"])

--------------------------------------------------------------------------------
(* The server.  It owes a compilation for a source that changed, and an index   *)
(* for a build that did; an index pays for both.                                *)

Silence == [open |-> {}, ended |-> {}, last |-> "nothing", owes |-> {}, module |-> "unknown"]

Paid(phase) == CASE phase = "indexing" -> {"compile", "import"}
                 [] phase = "compiling" -> {"compile"}
                 [] OTHER -> {}

Levels == [error |-> "error", warn |-> "warning", info |-> "ok"]

Speech(w) ==
  Begins(w, {"bspConfig", "importing", "indexing", "compiling", "request"})
    \cup {[says |-> [is |-> "end", token |-> p[1]],
           work |-> [EndOf(w, p) EXCEPT !.owes = @ \ Paid(p[2])]] : p \in w.open}
    \cup {Notes(w, [is |-> "status", type |-> "module", level |-> l], "module", Levels[l])
            : l \in DOMAIN Levels}
    \cup {[says |-> [is |-> "status", type |-> "metals", level |-> "error"], work |-> w]}

Builds == {<<"build", ".sbt">>, <<"project", ".scala">>, <<"build", ".sc">>}
Sources == {<<"Main", ".scala">>, <<"script", ".sc">>}
Names == Builds \cup Sources \cup {<<"notes", ".txt">>}

Owed(c) ==
  CASE c.name \in Builds \/ (c.name \in Sources /\ c.kind # "changed") -> {"import"}
    [] c.name \in Sources /\ c.kind = "changed" -> {"compile"}
    [] OTHER -> {}

\* A client tells of a file, or of a source that changed beside it.
Recompiled == [name |-> <<"Main", ".scala">>, kind |-> "changed"]

ClientSpeech(w) ==
  {Notes(w, [changes |-> changes], "owes", w.owes \cup UNION {Owed(c) : c \in changes})
     : changes \in {{c, d} : c \in [name : Names, kind : {"created", "changed", "deleted"}],
                            d \in {Recompiled, [name |-> <<"notes", ".txt">>, kind |-> "created"]}}}

Complete(w) ==
  /\ ~Open(w, Phases)
  /\ Ended(w, {"indexing"})
  /\ w.last \in {"indexing", "compiling"}
  /\ w.owes = {}

Healths(w) == {w.module}
================================================================================
