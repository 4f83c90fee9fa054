------------------------------- MODULE Initialize -------------------------------
(***************************************************************************)
(* initialize.rs: what the proxy reads from the two messages of the handshake  *)
(* and what it adds to them.  A JSON value is a node: an object with fields,   *)
(* a list, or a leaf of some kind.  A path is a sequence of keys; every path the proxy *)
(* injects has two.                                                          *)
(***************************************************************************)
EXTENDS Sequences, TLC, SequencesExt

Leaf(kind) == [kind |-> kind, fields |-> <<>>]
Object(fields) == [kind |-> "object", fields |-> fields]
List(items) == [kind |-> "list", fields |-> items]
Empty == Object(<<>>)
True == Leaf("true")
False == Leaf("false")
Null == Leaf("null")
\* What looking up a key that is not there gives.
Absent == Leaf("absent")

IsObject(node) == node.kind = "object"
\* A field that is there has a value.
HasValues(node) == \A key \in DOMAIN node.fields : node.fields[key].kind # "absent"
Get(node, key) == IF IsObject(node) /\ key \in DOMAIN node.fields THEN node.fields[key] ELSE Absent
\* The node at the end of a path.
Lookup(node, path) ==
  LET at[n \in 0..Len(path)] == IF n = 0 THEN node ELSE Get(at[n - 1], path[n])
  IN  at[Len(path)]
Put(fields, key, node) == [k \in DOMAIN fields \cup {key} |-> IF k = key THEN node ELSE fields[k]]
With(object, key, node) == Object(Put(object.fields, key, node))
\* The entry of a map, or an empty object in its place if there is none.
Entry(object, key) == IF key \in DOMAIN object.fields THEN object.fields[key] ELSE Empty

--------------------------------------------------------------------------------
(* The client's initialize: what it declares. *)

DeclaresServerState(params) ==
  Lookup(params, <<"capabilities", "experimental", "serverState">>) = True

DeclaresWorkDoneProgress(params) ==
  Lookup(params, <<"capabilities", "window", "workDoneProgress">>) = True

DeclaresWatchedFiles(params) ==
  IsObject(Lookup(params, <<"capabilities", "workspace", "didChangeWatchedFiles">>))

\* Folders by their URIs, those no path is known for left out.
WorkspaceFolders(params, pathOf) ==
  LET folders == Lookup(params, <<"workspaceFolders">>)
      uris == IF folders.kind = "list" THEN [i \in DOMAIN folders.fields |-> Get(folders.fields[i], "uri").kind]
              ELSE <<>>
      files == SelectSeq(uris, LAMBDA uri : uri \in DOMAIN pathOf)
  IN  [k \in DOMAIN files |-> pathOf[files[k]]]

\* A rootUri stands for the folders where there are none.
WorkspaceRoots(params, pathOf) ==
  LET folders == WorkspaceFolders(params, pathOf)
      uri == Get(params, "rootUri").kind
  IN  IF folders = <<>> /\ uri \in DOMAIN pathOf THEN <<pathOf[uri]>> ELSE folders

--------------------------------------------------------------------------------
(* The client's initialize: what is added to it. *)

\* Mutant: the parent is made anew.
SetTrueAnew(capabilities, path) == With(capabilities, path[1], With(Empty, path[2], True))

\* A value on the path that is no object is left alone, and the flag with it.
SetTrue(capabilities, path) ==
  LET parent == Entry(capabilities, path[1])
  IN  IF IsObject(parent)
      THEN With(capabilities, path[1], With(parent, path[2], True))
      ELSE capabilities

SetAllTrue(capabilities, paths) ==
  LET set[n \in 0..Len(paths)] == IF n = 0 THEN capabilities ELSE SetTrue(set[n - 1], paths[n])
  IN  set[Len(paths)]

InjectClientCapabilities(params, paths) ==
  LET capabilities == Entry(params, "capabilities")
  IN  IF IsObject(capabilities)
      THEN With(params, "capabilities", SetAllTrue(capabilities, paths))
      ELSE params

InjectInitializationOptions(params, options) ==
  LET written == Entry(params, "initializationOptions")
  IN  IF options # {} /\ IsObject(written)
      THEN With(params, "initializationOptions",
                Object([key \in DOMAIN written.fields \cup options |->
                          IF key \in options THEN True ELSE written.fields[key]]))
      ELSE params

--------------------------------------------------------------------------------
(* The result of the server: what it says, and what is added to it. *)

\* A string is a leaf of its own kind.
IsString(node) == node.kind \notin {"absent", "null", "true", "false", "object", "list"}

ServerInfo(result) ==
  LET name == Lookup(result, <<"serverInfo", "name">>)
      version == Lookup(result, <<"serverInfo", "version">>)
  IN  IF IsString(name)
      THEN {[name |-> name.kind, version |-> IF IsString(version) THEN version.kind ELSE "absent"]}
      ELSE {}

Outcome(action, result) == [action |-> action, result |-> result]

\* A null is taken for an absent field, and a declaration is always an object.
DeclareServerStateProvider(result, provider) ==
  LET capabilities == Entry(result, "capabilities")
      slot == Entry(capabilities, "experimental")
      experimental == IF slot = Null THEN Empty ELSE slot
  IN CASE ~IsObject(result) -> Outcome("notASuccess", result)
       [] IsObject(result) /\ ~IsObject(capabilities) -> Outcome("unrewritable", result)
       [] IsObject(result) /\ IsObject(capabilities) /\ ~IsObject(experimental) ->
            Outcome("unrewritable", result)
       [] OTHER ->
            IF IsObject(Get(experimental, "serverStateProvider"))
            THEN Outcome("upstreamDeclares", result)
            ELSE Outcome("declared",
                   With(result, "capabilities",
                     With(capabilities, "experimental",
                       With(experimental, "serverStateProvider", provider))))
================================================================================
