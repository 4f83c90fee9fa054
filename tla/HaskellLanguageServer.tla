--------------------------- MODULE HaskellLanguageServer ------------------------
(* The mapping of haskell_language_server.rs: health only.                      *)
EXTENDS Mapping

CONSTANT File

Start == [state |-> Unobserved, cradleFailures |-> {}]

\* Mutant: only a failure is reported, not that the last one is over.
InterpretFailures(a, m) ==
  LET failures == IF m.cradle THEN a.cradleFailures \cup {m.uri} ELSE a.cradleFailures \ {m.uri}
      b == [a EXCEPT !.cradleFailures = failures,
                     !.state.health = IF failures # {} THEN "error" ELSE "unknown"]
  IN  IF failures # {} THEN SaysIfMoved(a, b) ELSE Silent(b)

\* A file whose latest diagnostics have a failure of the cradle is one that cannot load.
Interpret(a, m) ==
  LET failures == IF m.cradle THEN a.cradleFailures \cup {m.uri} ELSE a.cradleFailures \ {m.uri}
  IN  SaysIfMoved(a, [a EXCEPT !.cradleFailures = failures,
                               !.state.health = IF failures # {} THEN "error" ELSE "unknown"])

--------------------------------------------------------------------------------
(* The server                                                                  *)

Silence == [broken |-> [f \in File |-> FALSE]]

Speech(w) ==
  {[says |-> [uri |-> f, cradle |-> b], work |-> [w EXCEPT !.broken[f] = b]]
     : f \in File, b \in BOOLEAN}

Complete(w) == FALSE

Healths(w) == IF \E f \in File : w.broken[f] THEN {"error"} ELSE {"unknown"}

\* Its tokens cover slices of the work only.
Blind(w) == TRUE
================================================================================
