---------------------------------- MODULE Sorbet --------------------------------
(* The mapping of sorbet.rs.                                                    *)
EXTENDS Mapping

CONSTANT MaxNesting       \* bound: operations that are open at once

RequestTied == {"References", "SymbolSearch", "Rename", "MoveMethod"}

Start == [state |-> Initializing, openOperations |-> 0]

\* The first round is part of starting up.
OnStart(a) ==
  Says([a EXCEPT !.openOperations = @ + 1,
                 !.state.readiness = IF @ = "ready" THEN "indexing" ELSE @])

OnEnd(a) ==
  IF a.openOperations = 0 THEN Silent(a)
  ELSE Says([a EXCEPT !.openOperations = @ - 1,
                      !.state.readiness = IF a.openOperations = 1 THEN "ready" ELSE @])

Interpret(a, m) ==
  CASE m.operation \in RequestTied -> Silent(a)
    [] m.operation \notin RequestTied /\ m.status = "start" -> OnStart(a)
    [] m.operation \notin RequestTied /\ m.status = "end" -> OnEnd(a)
    [] OTHER -> Silent(a)

--------------------------------------------------------------------------------
(* The server: operations nest.                                                *)

Silence == [depth |-> 0, ended |-> FALSE]

Operation(name, status) == [operation |-> name, status |-> status]

Speech(w) ==
  {[says |-> Operation("References", s), work |-> w] : s \in {"start", "end"}}
    \cup {Notes(w, Operation("Indexing", "start"), "depth", d)
            : d \in {w.depth + 1} \cap (1 .. MaxNesting)}
    \cup {[says |-> Operation("Indexing", "end"),
           work |-> IF w.depth = 0 THEN w
                    ELSE [depth |-> w.depth - 1, ended |-> w.ended \/ w.depth = 1]]}

Complete(w) == w.depth = 0 /\ w.ended
================================================================================
