---------------------------------- MODULE Clangd --------------------------------
(* The mapping of clangd.rs.  A path is the sequence of its segments, below the  *)
(* root; an argument is the text after "--compile-commands-dir=", the flag       *)
(* alone, or a text.                                                             *)
EXTENDS Mapping, SequencesExt

\* The first occurrence of the flag wins, with its value or with what follows it.
CompileCommandsDirArgument(args) ==
  LET flags == {i \in DOMAIN args : args[i].is # "text"}
      first == {i \in flags : \A j \in flags : i <= j}
  IN  {args[i].path : i \in {j \in first : args[j].is = "flag="}}
        \cup {args[i + 1].path : i \in {j \in first : args[j].is = "flag" /\ j < Len(args)}}

CompileCommands == <<"compile_commands.json">>
Databases == {CompileCommands, <<"build">> \o CompileCommands, <<"compile_flags.txt">>}

\* From dir up to the root.
DatabaseReachableFrom(dir, files) ==
  \E n \in 0..Len(dir), database \in Databases : SubSeq(dir, 1, n) \o database \in files

\* learn_upstream_arguments, before anything is read.
Start(args) ==
  [state |-> Initializing, databaseProbed |-> FALSE,
   compileCommandsDir |-> CompileCommandsDirArgument(args)]

Interpret(a, m) ==
  CASE m.is = "begin" /\ m.token = "backgroundIndexProgress" ->
         Says([a EXCEPT !.state.readiness = "indexing"])
    [] m.is = "end" /\ m.token = "backgroundIndexProgress" ->
         Says([a EXCEPT !.state.readiness = "ready"])
    [] OTHER -> Silent(a)

Found(a, m) ==
  IF a.compileCommandsDir = {} THEN DatabaseReachableFrom(Front(m.path), m.files)
  ELSE \E dir \in a.compileCommandsDir : dir \o CompileCommands \in m.files

\* Mutant: every document that is opened is a probe.
ObserveClientAlways(a, m) ==
  IF m.is # "didOpen" \/ m.path = <<>> THEN Silent(a)
  ELSE IF Found(a, m) THEN Silent([a EXCEPT !.databaseProbed = TRUE])
  ELSE Says([a EXCEPT !.databaseProbed = TRUE, !.state.readiness = "unknown"])

\* The first document that has a path is the probe, and the only one.
ObserveClient(a, m) ==
  IF a.databaseProbed \/ m.is # "didOpen" \/ m.path = <<>> THEN Silent(a)
  ELSE IF Found(a, m) THEN Silent([a EXCEPT !.databaseProbed = TRUE])
  ELSE Says([a EXCEPT !.databaseProbed = TRUE, !.state.readiness = "unknown"])

--------------------------------------------------------------------------------
(* The server starts its index when a document is opened and it has found a     *)
(* database: for the document, in the one directory it was told of or in any     *)
(* above it; or where .clangd names one.                                         *)

Argument(is, path) == [is |-> is, path |-> path]
Launches ==
  {<<>>, <<Argument("text", <<"--log">>)>>, <<Argument("flag", <<"--compile-commands-dir">>)>>,
   <<Argument("text", <<"--log">>), Argument("flag=", <<"build">>)>>,
   <<Argument("flag", <<"--compile-commands-dir">>), Argument("text", <<"src">>), Argument("flag=", <<"build">>)>>}

Documents == {<<>>, <<"main.c">>, <<"src", "main.c">>}
Disks ==
  {{}, {<<"compile_commands.json">>}, {<<"build", "compile_commands.json">>},
   {<<"src", "compile_flags.txt">>}, {<<"src", "compile_commands.json">>}, {<<"src", "build">>}}

\* told: the directory of the flag, as someone who knows clangd reads the launch.
Silence(told, files) ==
  [open |-> {}, ended |-> {}, last |-> "nothing", opened |-> FALSE, blind |-> FALSE,
   told |-> told, files |-> files]

Told(args) ==
  IF \E i \in DOMAIN args : args[i].path = <<"src">> THEN {<<"src">>}
  ELSE {<<"build">>} \cap {args[i].path : i \in DOMAIN args}

Sees(w, document) ==
  \E file \in w.files :
    IF w.told = {} THEN \E d \in Databases : \E n \in 0..(Len(document) - 1) : file = SubSeq(document, 1, n) \o d
    ELSE \E dir \in w.told : file = Append(dir, "compile_commands.json")

Speech(w) ==
  {[u EXCEPT !.work.blind = @ /\ ~Open(u.work, {"backgroundIndexProgress"})]
     : u \in BeginsOf(w, IF w.opened THEN Fixed({"backgroundIndexProgress", "request"})
                         ELSE Fixed({"request"}))}
    \cup Ends(w)

ClientSpeech(w) ==
  {[says |-> [is |-> "didOpen", path |-> p, files |-> w.files],
    work |-> [w EXCEPT !.opened = @ \/ p # <<>>,
                       !.blind = @ \/ (p # <<>> /\ ~w.opened /\ ~Sees(w, p))]]
     : p \in Documents}

Complete(w) == ~Open(w, {"backgroundIndexProgress"}) /\ Ended(w, {"backgroundIndexProgress"})

Blind(w) == w.blind
================================================================================
