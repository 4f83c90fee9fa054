---------------------------------- MODULE Pyright -------------------------------
(* The mapping of pyright.rs, for pyright and basedpyright.                     *)
EXTENDS Mapping

CONSTANTS
  Folder,         \* the workspace folders of a pyright that logs at its default level
  LoudFolder      \* those of one that also logs "Searching for source files"

Start == [state |-> Initializing, instances |-> 0, completed |-> 0]

\* A new folder: its enumeration begins.
OnServiceStarted(a) ==
  Says([a EXCEPT !.instances = @ + 1,
                 !.state.readiness = IF @ = "ready" THEN "indexing" ELSE @])

OnSearching(a) ==
  IF a.instances = 0 THEN Silent(a)
  ELSE Says([a EXCEPT !.completed = IF @ = 0 THEN 0 ELSE @ - 1,
                      !.state.readiness = "indexing"])

\* A completion with nothing to count against says nothing.
OnEnumerated(a) ==
  IF a.completed >= a.instances THEN Silent(a)
  ELSE LET b == [a EXCEPT !.completed = @ + 1] IN
       Says(IF b.completed = b.instances THEN [b EXCEPT !.state.readiness = "ready"] ELSE b)

OnLog(a, message) ==
  CASE message = "service started" -> OnServiceStarted(a)
    [] message = "searching" -> OnSearching(a)
    [] message \in {"found", "none found"} -> OnEnumerated(a)
    [] OTHER -> Silent(a)

Interpret(a, m) == OnLog(a, m.log)

--------------------------------------------------------------------------------
(* The server enumerates the source files of each folder, and may do it again;   *)
(* the start of an enumeration is delivered at one level of the log only, and      *)
(* without it nothing can be said of the second one.                               *)

Silence(loud) ==
  [folder |-> [f \in IF loud THEN LoudFolder ELSE Folder |-> "absent"], loud |-> loud]

FoldersIn(w, phases) == {f \in DOMAIN w.folder : w.folder[f] \in phases}

Logs(w, text, from, to) ==
  {[says |-> [log |-> text], work |-> [w EXCEPT !.folder[f] = to]] : f \in FoldersIn(w, from)}

Speech(w) ==
  Logs(w, "service started", {"absent"}, "started")
    \cup Logs(w, IF w.loud THEN "searching" ELSE "other",
             {"started"} \cup (IF w.loud THEN {"enumerated"} ELSE {}), "searching")
    \cup Logs(w, "found", {"searching"}, "enumerated")
    \cup Logs(w, "none found", {"searching"}, "enumerated")
    \cup {[says |-> [log |-> "other"], work |-> w]}

Complete(w) ==
  /\ FoldersIn(w, {"enumerated"}) # {}
  /\ FoldersIn(w, {"started", "searching"}) = {}
================================================================================
