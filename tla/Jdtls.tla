----------------------------------- MODULE Jdtls --------------------------------
(* The mapping of jdtls.rs.                                                     *)
EXTENDS Mapping

CONSTANT ProjectUri       \* URIs that are not of a .java file: the project, build files

Start == [state |-> Initializing, statusHealth |-> "unknown", projectWarnings |-> {}]

\* An error of the status outranks the problems of the project, and they the rest.
RecomputeHealth(before, a) ==
  SaysIfMoved(before, [a EXCEPT !.state.health =
    IF a.statusHealth # "error" /\ a.projectWarnings # {} THEN "warning" ELSE a.statusHealth])

OnStatus(a, m) ==
  CASE m.type = "ServiceReady" -> SaysIfMoved(a, [a EXCEPT !.state.readiness = "ready"])
    [] m.type = "ProjectStatus" /\ m.message \in {"OK", "WARNING"} ->
         RecomputeHealth(a, [a EXCEPT !.statusHealth =
                               IF m.message = "OK" THEN "ok" ELSE "warning"])
    [] m.type = "Error" -> RecomputeHealth(a, [a EXCEPT !.statusHealth = "error"])
    [] OTHER -> Silent(a)

OnDiagnostics(a, m) ==
  IF m.uri \notin ProjectUri THEN Silent(a)
  ELSE RecomputeHealth(a, [a EXCEPT !.projectWarnings =
                             IF m.severe THEN @ \cup {m.uri} ELSE @ \ {m.uri}])

Interpret(a, m) == IF m.is = "status" THEN OnStatus(a, m) ELSE OnDiagnostics(a, m)

--------------------------------------------------------------------------------
(* The server                                                                  *)

Silence == [serviceReady |-> FALSE, status |-> "unknown", problems |-> {}]

Status(type, message) == [is |-> "status", type |-> type, message |-> message]

Diagnostics(w, uri, severe) ==
  Notes(w, [is |-> "diagnostics", uri |-> uri, severe |-> severe], "problems",
        IF severe THEN w.problems \cup {uri} ELSE w.problems \ {uri})

Speech(w) ==
  {Notes(w, Status("ServiceReady", "none"), "serviceReady", TRUE),
   Notes(w, Status("ProjectStatus", "OK"), "status", "ok"),
   Notes(w, Status("ProjectStatus", "WARNING"), "status", "warning"),
   Notes(w, Status("Error", "none"), "status", "error"),
   [says |-> Status("ProjectStatus", "other"), work |-> w],
   [says |-> Status("Started", "none"), work |-> w]}
    \cup {Diagnostics(w, u, b) : u \in ProjectUri \cup {"source"}, b \in BOOLEAN}

Complete(w) == w.serviceReady

\* An error is told, a problem of the project is not told as ok, and neither is invented.
Healths(w) ==
  CASE w.status = "error" -> {"error"}
    [] w.status # "error" /\ w.problems \cap ProjectUri # {} -> {"warning"}
    [] OTHER -> {w.status}
================================================================================
