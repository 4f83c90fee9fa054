----------------------------------- MODULE Nil ----------------------------------
(* The mapping of nil.rs.  A workspace folder is given as what its flake.lock    *)
(* says: the name of the root node and the inputs of each node, or {} where      *)
(* there is no lock that can be read.                                            *)
EXTENDS Mapping, FiniteSets

KnownTokens == {"nixosOptions", "inputFlake", "flakeArchive"}

FlakeLockHasNixpkgsInput(folder) ==
  \E lock \in folder :
    LET root == IF lock.root = "absent" THEN "root" ELSE lock.root
    IN  root \in DOMAIN lock.nodes /\ "nixpkgs" \in lock.nodes[root]
AnyFolderHasANixpkgsFlakeLock(folders) == \E f \in folders : FlakeLockHasNixpkgsInput(f)

\* Without such a lock nothing will ever begin.
LearnWorkspaceFolders(a, folders) ==
  IF AnyFolderHasANixpkgsFlakeLock(folders) THEN a ELSE [a EXCEPT !.state.readiness = "unknown"]

Start(folders) ==
  LearnWorkspaceFolders([state |-> Initializing, open |-> {}, hasBegun |-> FALSE], folders)

OnBegin(a, token) ==
  SaysIfMoved(a, [state |-> [health |-> "ok", readiness |-> "indexing"],
                  open |-> a.open \cup {token}, hasBegun |-> TRUE])

OnEnd(a, token) ==
  LET b == [a EXCEPT !.open = @ \ {token}] IN
  IF b.open # {} THEN Silent(b) ELSE Says([b EXCEPT !.state.readiness = "ready"])

OnError(a) == SaysIfMoved(a, [a EXCEPT !.state.health = "error"])

\* Before any load, a warning is that the load will never start.
OnWarning(a) ==
  SaysIfMoved(a, [a EXCEPT !.state.health = "warning",
                           !.state.readiness = IF a.hasBegun THEN @ ELSE "unknown"])

Interpret(a, m) ==
  CASE m.is = "begin" /\ m.token \in KnownTokens -> OnBegin(a, m.token)
    [] m.is = "end" /\ m.token \in a.open -> OnEnd(a, m.token)
    [] m.is = "message" /\ m.type = 1 -> OnError(a)
    [] m.is = "message" /\ m.type = 2 -> OnWarning(a)
    [] OTHER -> Silent(a)

--------------------------------------------------------------------------------
(* The server.  It loads what the flake of a folder takes as its nixpkgs; its   *)
(* complaints stand until it starts a load.                                    *)

Lock(root, nodes) == {[root |-> root, nodes |-> nodes]}
Loading == Lock("top", [top |-> {"nixpkgs", "utils"}, utils |-> {}])
Conventional == Lock("absent", [root |-> {"nixpkgs"}])
OtherInput == Lock("root", [root |-> {"utils"}, utils |-> {"nixpkgs"}])
NoNode == Lock("top", [root |-> {"nixpkgs"}])

\* The workspaces, and whether one of their flakes has nixpkgs as its own input.
Workspaces ==
  {[folders |-> fs, loads |-> fs \cap {Loading, Conventional} # {}]
     : fs \in {s \in SUBSET {Loading, Conventional, OtherInput, NoNode, {}} : Cardinality(s) <= 2}}

Silence(hasLock) == [open |-> {}, ended |-> {}, last |-> "nothing",
                     lock |-> hasLock, begun |-> FALSE, complaint |-> "unknown"]

Loads(w) ==
  {IF u.says.token \in KnownTokens
     THEN [u EXCEPT !.work.begun = TRUE, !.work.complaint = "ok"] ELSE u
     : u \in BeginsOf(w, Fixed({"nixosOptions", "flakeArchive", "request"}))}

Complaints(w) ==
  {Notes(w, [is |-> "message", type |-> 1], "complaint", "error"),
   [says |-> [is |-> "message", type |-> 2],
    work |-> [w EXCEPT !.complaint = "warning", !.lock = @ /\ w.begun]],
   [says |-> [is |-> "message", type |-> 3], work |-> w]}

Speech(w) == Loads(w) \cup Ends(w) \cup Complaints(w)

Complete(w) == ~Open(w, KnownTokens) /\ w.begun

Healths(w) == {w.complaint}

\* No load has begun, and there is none to expect.
Blind(w) == ~w.begun /\ ~w.lock
================================================================================
