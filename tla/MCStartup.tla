-------------------------------- MODULE MCStartup -------------------------------
(* Instance of Startup for TLC: the clients and servers of the repository's     *)
(* tests with an empty workspace, and typescript-language-server with a plain   *)
(* client in workspaces whose files change.                                   *)
EXTENDS Startup

MCTested ==
  [name \in Versioned |->
     CASE name = "typescript-language-server" -> {"5.9.3"}
       [] name = "basedpyright" -> {"1.39.9"}
       [] name = "pyright" -> {"1.1.412"}
       [] name \in Versioned \ {"typescript-language-server", "basedpyright", "pyright"} -> {"1.0"}]

\* Documents.
Fields(f) == Object(f)
Nested(path, leaf) == FoldRight(LAMBDA key, node : Object(key :> node), path, leaf)
Params(capabilities, written) ==
  Object([capabilities |-> capabilities, initializationOptions |-> written])

Limit == Nested(<<"workspace", "symbol", "search", "limit">>, Leaf("1000"))
MCParams ==
  {Empty,
   Object([capabilities |-> Null]),
   Params(Empty, Null),
   Params(Empty, Limit),
   Params(Object([experimental |-> Null, window |-> False]), Leaf("list")),
   Params(Object([experimental |-> Object([serverState |-> True, serverStatusNotification |-> False,
                                          other |-> True]),
                  window |-> Object([workDoneProgress |-> False, showDocument |-> Empty])]),
          Object([supportsOperationNotifications |-> False, other |-> True]))}

\* Answers: with a name or without, and every shape of the field that is added.
Info(name, version) == Object([name |-> Leaf(name), version |-> Leaf(version)])
Result(info, capabilities) == Object([serverInfo |-> info, capabilities |-> capabilities])
Experimental == {Null, Empty, False,
                 Object([serverStateProvider |-> True]),
                 Object([serverStateProvider |-> Empty, other |-> True])}
Shapes(info) ==
  {Result(info, Object([experimental |-> e])) : e \in Experimental} \cup {Result(info, False)}
Answers(info) == {Leaf("error"), Object([serverInfo |-> info])} \cup Shapes(info)

Announced(name, version, method) == [name |-> name, version |-> version, method |-> method]
MCServer(product, version, command, announces, results) ==
  [product |-> product, version |-> version, command |-> command,
   announces |-> announces, results |-> results]

Typescript593 ==
  MCServer("typescript-language-server", "5.9.3", <<"server">>,
           {Announced("typescript-language-server", "5.9.3", "window/logMessage"),
            Announced("typescript-language-server", "5.9.3", "$/typescriptVersion")},
           {Object([capabilities |-> Empty]), Leaf("error")})

MCBuildInfo == "build info of 1.0" :> "1.0"
MCFirstWord == "1.0 of a day" :> "1.0" @@ "0.9 of a day" :> "0.9"
MCStem == [n \in {"server", "Sorbet.Exe", "srb"} |-> IF n = "Sorbet.Exe" THEN "sorbet" ELSE n]

Anonymous(commands) ==
  {Object([capabilities |-> Nested(<<"executeCommandProvider", "commands">>, List(commands))])}

MCServers ==
  {MCServer("rust-analyzer", "1.0", <<"bin", "server">>, {}, Answers(Info("rust-analyzer", "1.0 of a day"))),
   MCServer("rust-analyzer", "0.9", <<"server">>, {}, Answers(Info("rust-analyzer", "0.9 of a day"))),
   MCServer("gopls", "1.0", <<"server">>, {}, Answers(Info("gopls", "build info of 1.0"))),
   MCServer("clangd", "1.0 elsewhere", <<"server">>, {}, Answers(Info("clangd", "1.0 elsewhere"))),
   MCServer("nil", "absent", <<"server">>, {}, Answers(Object([name |-> Leaf("nil")]))),
   MCServer("unheard-of", "1.0", <<"bin", "srb">>, {}, Answers(Info("unheard-of", "1.0"))),
   \* A log without its version, and the version in serverInfo after all.
   MCServer("pyright", "1.1.412", <<"server">>,
            {Announced("pyright", "absent", "window/logMessage")}, Answers(Info("pyright", "1.1.412"))),
   MCServer("basedpyright", "1.1.412", <<"server">>,
            {Announced("basedpyright", "1.1.412", "window/logMessage")},
            Answers(Info("basedpyright", "1.1.412"))),
   MCServer("nextflow-language-server", "absent", <<"server">>, {},
            Anonymous(<<Leaf("nextflow.server."), Leaf("nextflow.server.")>>)),
   MCServer("haskell-language-server", "absent", <<"server">>, {},
            Anonymous(<<Leaf("nextflow.server."), Leaf("1:ghcide-")>>)),
   MCServer("sorbet", "absent", <<"Sorbet.Exe">>, {Announced("sorbet", "absent", "sorbet/showOperation")},
            {Object([capabilities |-> Empty])}),
   \* The version of the wrapper in serverInfo, and no tested TypeScript.
   MCServer("typescript-language-server", "5.0.0", <<"server">>,
            {Announced("typescript-language-server", "5.0.0", "window/logMessage"),
             Announced("typescript-language-server", "5.0.0", "$/typescriptVersion")},
            Answers(Info("typescript-language-server", "5.3.0")))}
  \cup
  \* The others that say their version.
  {MCServer(name, v, <<"server">>, {}, {Result(Info(name, v), Empty)}) :
     name \in {"dart", "jdtls", "metals", "nixd"}, v \in {"1.0", "0.9"}}

\* Workspaces.
MCFits == [s \in {"*", "*.js", "*.min.js", "c.?in.js"} |->
             CASE s = "*" -> {"a.ts", "b.ts", "c.js", "c.min.js", "src", "lib", ".storybook"}
               [] s = "*.js" -> {"c.js", "c.min.js"}
               [] s \in {"*.min.js", "c.?in.js"} -> {"c.min.js"}]
MCStarred == {"*", "*.js", "*.min.js"}
MCDotted == {"tsconfig.json", "a.ts", "b.ts", "*.js", "*.min.js", "c.?in.js", ".storybook"}

Config(include, exclude, allowJs, extends) ==
  [readable |-> TRUE, extends |-> extends, allowJs |-> allowJs, files |-> {},
   include |-> include, exclude |-> exclude, outDir |-> {}]
Plain == Config({}, {}, "absent", FALSE)
OfSrc == Config({{<<"src">>}}, {}, "absent", FALSE)
OfJs == Config({}, {{<<"lib">>}}, "true", FALSE)
OfPatterns == Config({{<<"src", "c.?in.js">>, <<"lib", "*.js">>}}, {}, "true", FALSE)
Named == [Plain EXCEPT !.files = {{<<".", "src", "a.ts">>}}]
Source == [Plain EXCEPT !.readable = FALSE]

Top == <<"tsconfig.json">>
InSrc == <<"src", "a.ts">>
InHidden == <<".storybook", "b.ts">>
InLib == <<"lib", "c.js">>
MCContents ==
  Top :> {Plain, OfSrc, OfJs, OfPatterns, Named, Config({}, {}, "absent", TRUE)}
  @@ <<"packages", "tsconfig.json">> :> {Plain}
  @@ <<"node_modules", "tsconfig.json">> :> {Plain}
  @@ InSrc :> {Source} @@ InHidden :> {Source} @@ InLib :> {Source}
  @@ <<"src", "c.min.js">> :> {Source}

MCFolders ==
  {<<Top :> Plain @@ InSrc :> Source>>,
   <<Top :> OfJs @@ InLib :> Source>>,
   <<InSrc :> Source>>,
   <<Top :> Plain, Top :> Plain>>}

\* A client opens the folders of its workspace, or names the one there is.
MCFolderOf == "file:///1" :> 1 @@ "file:///2" :> 2
Uris == <<"file:///1", "file:///2">>
Open(uris) == List([i \in DOMAIN uris |-> Object([uri |-> Leaf(uris[i])])])
Opened(f) ==
  IF Len(f) = 2 THEN {Object([workspaceFolders |-> Open(Uris), rootUri |-> Leaf(Uris[1])])}
  ELSE IF InSrc \in DOMAIN f[1]
  THEN {Object([workspaceFolders |-> Open(<<"untitled:1", Uris[1]>>), rootUri |-> Leaf(Uris[1])])}
  ELSE {Object([workspaceFolders |-> Null, rootUri |-> Leaf(Uris[1])])}

MCScenarios ==
  [params : {MCParams}, folders : {<<>>}, server : MCServers]
  \cup UNION {[params : {Opened(f)}, folders : {f}, server : {Typescript593}] : f \in MCFolders}
================================================================================
