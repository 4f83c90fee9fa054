-------------------------------- MODULE RustAnalyzer ----------------------------
(* The mapping of rust_analyzer.rs.  It keeps no state, only the last health.   *)
EXTENDS Mapping

Start == [lastHealth |-> "unknown"]

\* A missing workspace makes every cross-workspace answer empty.
HealthOf(m) == IF m.health = "warning" /\ m.missingWorkspace THEN "error" ELSE m.health

\* Its own word when it has one; otherwise derived.
ReadinessOf(m) ==
  IF m.ready = "yes" \/ (m.ready = "absent" /\ m.quiescent) THEN "ready" ELSE "indexing"

\* A status of another shape does not move the state.
Readable(m) == m.health \in {"ok", "warning", "error"} /\ m.ready \in {"yes", "no", "absent"}

Interpret(a, m) ==
  IF ~Readable(m) THEN Silent(a)
  ELSE [next |-> [lastHealth |-> HealthOf(m)],
        read |-> {[health |-> HealthOf(m), readiness |-> ReadinessOf(m)]}]

IsWatchedFile(name) ==
  \/ name[2] = ".rs"
  \/ name \in {<<"Cargo", ".toml">>, <<"Cargo", ".lock">>, <<"rust-analyzer", ".toml">>}

\* parse_watched_file_changes: a change of no known kind is dropped.
WatchedFileChanges(changes) == {c \in changes : c.kind \in {"created", "changed", "deleted"}}

Reindexes(changes, kinds) ==
  \E c \in WatchedFileChanges(changes) : c.kind \in kinds /\ IsWatchedFile(c.name)

Predicts(a, health) == [next |-> a, read |-> {[health |-> health, readiness |-> "indexing"]}]

\* Mutants: a deleted source is not expected to be followed by anything; a changed one
\* by a load as well.
ObserveClientCreated(a, m) ==
  IF Reindexes(m.changes, {"created"}) THEN Predicts(a, a.lastHealth) ELSE Silent(a)
ObserveClientAnyKind(a, m) ==
  IF Reindexes(m.changes, {"created", "changed", "deleted"}) THEN Predicts(a, a.lastHealth)
  ELSE Silent(a)

\* A created or deleted source is followed by a load; a changed one by nothing.
ObserveClient(a, m) ==
  IF Reindexes(m.changes, {"created", "deleted"}) THEN Predicts(a, a.lastHealth) ELSE Silent(a)

--------------------------------------------------------------------------------
(* The server: what its last status said, and whether the client has announced  *)
(* a file since.                                                                *)

Silence == [loaded |-> FALSE, health |-> "unknown", announced |-> FALSE]

Statuses ==
  [health : {"ok", "warning", "error", "unknown"}, quiescent : BOOLEAN,
   ready : {"yes", "no", "absent", "null"}, missingWorkspace : BOOLEAN]

Loaded(m) == IF m.ready = "absent" THEN m.quiescent ELSE m.ready = "yes"

Speech(w) ==
  {[says |-> m,
    work |-> IF m.health = "unknown" \/ m.ready = "null" THEN w
             ELSE [loaded |-> Loaded(m), announced |-> FALSE,
                   health |-> IF m.missingWorkspace /\ m.health = "warning" THEN "error"
                              ELSE m.health]]
     : m \in Statuses}

\* A client tells of one of these, beside a file that is nothing to the server.
Sources == {<<"main", ".rs">>, <<"Cargo", ".toml">>, <<"Cargo", ".lock">>}
Names == Sources \cup {<<"notes", ".txt">>, <<"rust-analyzer.toml", ".bak">>}

Aside == [name |-> <<"notes", ".txt">>, kind |-> "created"]

ClientSpeech(w) ==
  {Notes(w, [changes |-> {Aside, c}], "announced",
         w.announced \/ (c.name \in Sources /\ c.kind \in {"created", "deleted"}))
     : c \in [name : Names, kind : {"created", "changed", "deleted", "other"}]}

Complete(w) == w.loaded /\ ~w.announced

Healths(w) == {w.health}
================================================================================
