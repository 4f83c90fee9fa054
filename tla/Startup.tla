--------------------------------- MODULE Startup --------------------------------
(***************************************************************************)
(* The handshake, and what is promised in it (proxy.rs, tracker.rs): the        *)
(* client's initialize is rewritten and sent on, the server may announce       *)
(* itself before it answers, a mapping is selected, its guarantees are asked   *)
(* for and added to the answer.  After it, for typescript-language-server, the *)
(* layout of the workspace on which the coverage was promised may change.      *)
(*                                                                         *)
(* Names are compared in lower case, and are given in it.                     *)
(***************************************************************************)
EXTENDS Initialize, Guarantees

CONSTANTS
  Scenarios,              \* [params, folders, server]: a client, its workspace and a server;
                          \* params: what the client may write in an initialize
  FolderOf,               \* for each URI that names a folder, its place among the folders
  Stem,                   \* for each file name, its lower case without .exe
  Contents,               \* what may be written to each path: "source", or a configuration
  MaxChanges,             \* changes on disk
  MaxTries                \* times the client sends initialize

IsContent(content) ==
  /\ UNION content.include \subseteq Seq(STRING)
  /\ UNION content.exclude \subseteq Seq(STRING)
  /\ content.outDir \subseteq Seq(STRING)

\* A path names a file; a configuration is written in patterns.
IsFolder(folder) ==
  /\ IsFiniteSet(DOMAIN folder)
  /\ \A path \in DOMAIN folder : path \in Seq(STRING) \ {<<>>} /\ IsContent(folder[path])

\* What a client and a server do of themselves.  A client is told of the folders of its
\* workspace.  What a server says of its name and its version is true, as far as a
\* mapping goes by it; a server of TypeScript says its version as it is.
ASSUME StartupAssumption ==
  /\ MaxTries \in Nat
  /\ \A path \in DOMAIN Contents :
       path \in Seq(STRING) \ {<<>>} /\ \A content \in Contents[path] : IsContent(content)
  /\ \A s \in Scenarios :
       /\ \A params \in s.params :
            IsObject(params) /\ HasValues(params) /\ HasValues(Get(params, "capabilities"))
       /\ \A info \in s.server.announces \cup UNION {ServerInfo(r) : r \in s.server.results} :
            /\ info.name = s.server.product
            /\ ForVersion(info.name, info.version) => s.server.version \in Tested[s.server.product]
       /\ \A a \in s.server.announces :
            a.method = "$/typescriptVersion" => a.version \in {"absent", s.server.version}
       /\ Len(s.folders) \in Nat /\ s.folders = [i \in 1..Len(s.folders) |-> s.folders[i]]
       /\ \A i \in DOMAIN s.folders : IsFolder(s.folders[i])
       /\ s.server.product = "typescript-language-server" =>
            \A params \in s.params : WorkspaceRoots(params, FolderOf) = [i \in DOMAIN s.folders |-> i]

VARIABLES
  scenario,               \* the client and the server
  tries,                  \* the initialize requests of the client, one after the other
  sent,                   \* the last one, as the upstream got it
  waiting,                \* it is not answered
  declaresProgress,       \* UpstreamSide.client_declared_progress
  asked,                  \* the client was asked to create a progress
  options,                \* Tracker.initialization_options: the symbol limit written in them
  mapping,                \* Tracker.adapter: {} until one is selected
  identity,               \* Tracker.identity: {} or what the server called itself
  answer,                 \* the last result: what the server sent and what the client got
  promised,               \* the guarantees the client was told of: {} or one provider
  folders,                \* the workspace on disk: path |-> content, for each folder
  untold,                 \* changes the client has not told of
  withdrawn,              \* layout_changed: readiness is unknown from then on
  changes                 \* how many changes there were

vars == <<scenario, tries, sent, waiting, declaresProgress, asked, options, mapping, identity, answer, promised,
          folders, untold, withdrawn, changes>>
progress == <<declaresProgress, asked>>
disk == <<folders, untold, withdrawn, changes>>

Server == scenario.server
NoAnswer == [from |-> Absent, to |-> Absent]

--------------------------------------------------------------------------------
(* The client's initialize. *)

ClientCapabilitiesForAllMappings ==
  <<<<"experimental", "serverStatusNotification">>, <<"window", "workDoneProgress">>>>
ServerStateClientCapability == <<"experimental", "serverState">>
InitializationOptionsForCommand(basename) ==
  IF basename \in {"sorbet", "srb"} THEN {"supportsOperationNotifications"} ELSE {}

\* A command is a path, and a path may be a name alone.
UpstreamCommandBasename(command) == Stem[Last(command)]

ToUpstream(params, command) ==
  InjectInitializationOptions(
    InjectClientCapabilities(params,
      Append(ClientCapabilitiesForAllMappings, ServerStateClientCapability)),
    InitializationOptionsForCommand(UpstreamCommandBasename(command)))

SymbolLimit(params) ==
  Lookup(params, <<"initializationOptions", "workspace", "symbol", "search", "limit">>).kind

AssessRoot(root) ==
  LET layout == AssessFolder(DOMAIN folders[root], folders[root])
  IN  [root |-> root, complete |-> layout.complete, allowJs |-> layout.allowJs, scope |-> layout.scope]
Assess(roots) == [k \in DOMAIN roots |-> AssessRoot(roots[k])]

\* Only rust-analyzer has a use for the options, and only
\* typescript-language-server for the roots.
LearnInitializationOptions(m, written) ==
  IF m.name = "rust-analyzer" /\ written # "absent"
  THEN [m EXCEPT !.symbolLimit = written] ELSE m
LearnWorkspaceRoots(m, params) ==
  IF m.name = "typescript-language-server"
  THEN [m EXCEPT !.layouts = Assess(WorkspaceRoots(params, FolderOf))] ELSE m

\* Options that are absent leave those of an earlier initialize in place, and options
\* without a limit leave a mapping the limit it has.
RememberInitialize(params) ==
  LET written == SymbolLimit(params)
      null == Get(params, "initializationOptions").kind \in {"absent", "null"}
  IN  /\ options' = IF null THEN options ELSE written
      /\ mapping' = {LearnInitializationOptions(LearnWorkspaceRoots(m, params), written) : m \in mapping}

\* After an error the client may try again, with the same or something else.
ClientInitializes ==
  /\ ~waiting /\ promised = {} /\ Len(tries) < MaxTries
  /\ waiting' = TRUE
  /\ \E params \in scenario.params :
       /\ tries' = Append(tries, params)
       /\ sent' = ToUpstream(params, Server.command)
       /\ declaresProgress' = DeclaresWorkDoneProgress(params)
       /\ RememberInitialize(params)
  /\ UNCHANGED <<scenario, asked, identity, answer, promised, disk>>

--------------------------------------------------------------------------------
(* What the server calls itself. *)

NewMapping(name, version) ==
  [name |-> name, tested |-> ForVersion(name, version), symbolLimit |-> LearnSymbolLimit("absent"),
   layouts |-> <<>>]

\* Mutant: the options of the client are not handed over.
AdoptAlone(info) ==
  IF info.name \in Known
  THEN /\ mapping' = {LearnWorkspaceRoots(NewMapping(info.name, info.version), Last(tries))}
       /\ identity' = {info}
  ELSE UNCHANGED <<mapping, identity>>

Adopt(info) ==
  IF info.name \in Known
  THEN /\ mapping' = {LearnInitializationOptions(
                        LearnWorkspaceRoots(NewMapping(info.name, info.version), Last(tries)), options)}
       /\ identity' = {info}
  ELSE UNCHANGED <<mapping, identity>>

\* A serverInfo's version counts for pyright; typescript-language-server's own
\* says nothing of TypeScript's.
LearnIdentity(m, info) ==
  IF m.name \in {"pyright", "basedpyright"}
  THEN [m EXCEPT !.tested = ForVersion(info.name, info.version)] ELSE m

\* The same name again is told to the mapping there is.
SelectMapping(infos) ==
  \/ infos = {} /\ UNCHANGED <<mapping, identity>>
  \/ \E info \in infos :
       IF \E current \in identity : current.name = info.name
       THEN /\ mapping' = {LearnIdentity(m, info) : m \in mapping}
            /\ identity' = {info}
       ELSE Adopt(info)

\* A command is known by its prefix.
Commands(result) == Lookup(result, <<"capabilities", "executeCommandProvider", "commands">>)
IsNextflowInitializeResult(result) ==
  LET commands == Commands(result) IN
  /\ commands.kind = "list" /\ commands.fields # <<>>
  /\ \A i \in DOMAIN commands.fields : commands.fields[i] = Leaf("nextflow.server.")
IsHlsInitializeResult(result) ==
  LET commands == Commands(result) IN
  commands.kind = "list" /\ \E i \in DOMAIN commands.fields : commands.fields[i] = Leaf("1:ghcide-")

\* A result without serverInfo is known by the commands it declares.
IdentityFromInitializeResult(result) ==
  LET names == {n \in {"nextflow-language-server", "haskell-language-server"} :
                  IF n = "nextflow-language-server" THEN IsNextflowInitializeResult(result)
                  ELSE ~IsNextflowInitializeResult(result) /\ IsHlsInitializeResult(result)}
  IN  IF Get(result, "serverInfo").kind \in {"absent", "null"}
      THEN {[name |-> n, version |-> "absent"] : n \in names} ELSE {}

\* What a server sends on its own: a log message, $/typescriptVersion, a
\* progress or an operation, from which name and version are read.
Announcements ==
  {a \in Server.announces :
     a.name = "sorbet" =>
       Lookup(sent, <<"initializationOptions", "supportsOperationNotifications">>) = True}

\* A later $/typescriptVersion brings the version up to date.
Interpret(m, info) ==
  IF m.name = "typescript-language-server" /\ info.method = "$/typescriptVersion"
     /\ info.version # "absent"
  THEN [m EXCEPT !.tested = ForVersion(m.name, info.version)] ELSE m

ServerAnnounces ==
  /\ tries # <<>>
  /\ \E info \in Announcements :
       /\ info.method = "$/typescriptVersion" => promised # {}
       /\ IF mapping = {}
          THEN Adopt([name |-> info.name, version |-> info.version])
          ELSE mapping' = {Interpret(m, info) : m \in mapping} /\ UNCHANGED identity
  /\ UNCHANGED <<scenario, tries, sent, waiting, progress, options, answer, promised, disk>>

--------------------------------------------------------------------------------
(* The server's answer. *)

Provider == IF mapping = {} THEN NotificationsOnly ELSE ProviderOf(CHOOSE m \in mapping : TRUE)

\* on_initialize_result: the mapping is selected first, then asked.
ServerAnswers ==
  /\ waiting
  /\ \E result \in Server.results :
       LET info == IF ServerInfo(result) # {} THEN ServerInfo(result)
                   ELSE IdentityFromInitializeResult(result)
           outcome == DeclareServerStateProvider(result, Object(Provider'))
       IN  /\ SelectMapping(info)
           /\ answer' = [from |-> result, to |-> outcome.result]
           /\ promised' = CASE outcome.action = "notASuccess" -> {}
                            [] outcome.action = "declared" -> {Provider'}
                            [] outcome.action \in {"unrewritable", "upstreamDeclares"} -> {NotificationsOnly}
  /\ waiting' = FALSE
  /\ UNCHANGED <<scenario, tries, sent, progress, options, disk>>

\* window/workDoneProgress/create of a server that was told it may: answered for a
\* client that did not declare it.
ServerCreatesProgress ==
  /\ promised # {} /\ Lookup(sent, <<"capabilities", "window", "workDoneProgress">>) = True
  /\ asked' = (asked \/ declaresProgress)
  /\ UNCHANGED <<scenario, tries, sent, waiting, declaresProgress, options, mapping, identity, answer,
                 promised, disk>>

--------------------------------------------------------------------------------
(* The workspace changes, and the client tells of it. *)

\* A file is written or removed on disk, in a workspace of TypeScript.
FileChanges ==
  /\ changes < MaxChanges /\ Server.product = "typescript-language-server"
  /\ \E i \in DOMAIN folders, path \in DOMAIN Contents :
       \/ \E content \in Contents[path] :
            /\ path \in DOMAIN folders[i] => folders[i][path] # content
            /\ folders' = [folders EXCEPT ![i] = Put(@, path, content)]
            /\ untold' = untold \cup
                 {[folder |-> i, path |-> path,
                   type |-> IF path \in DOMAIN folders[i] THEN Changed ELSE Created]}
       \/ /\ path \in DOMAIN folders[i]
          /\ folders' = [folders EXCEPT ![i] = Restrict(@, DOMAIN @ \ {path})]
          /\ untold' = untold \cup {[folder |-> i, path |-> path, type |-> Deleted]}
  /\ changes' = changes + 1
  /\ UNCHANGED <<scenario, tries, sent, waiting, progress, options, mapping, identity, answer, promised, withdrawn>>

\* Changed configurations have their folder read again, from the disk as it is.
Reassessed(layouts, told) ==
  [i \in DOMAIN layouts |->
     IF \E change \in told : change.folder = layouts[i].root /\ IsConfigChange(change.path)
     THEN AssessRoot(layouts[i].root) ELSE layouts[i]]

LayoutBrokenBy(layouts, told) ==
  \/ ~WorkspaceComplete(layouts)
  \/ \E change \in told, i \in DOMAIN layouts :
       /\ change.type = Created /\ change.folder = layouts[i].root
       /\ NewSourceOutside(layouts[i], change.path)

\* TypescriptLanguageServerAdapter::observe_client.
Watches(m) ==
  m.name = "typescript-language-server" /\ ~withdrawn /\ DeclaresCoverage(m)

\* didChangeWatchedFiles: once the handshake is over.
ClientTells ==
  /\ promised # {}
  /\ \E told \in SUBSET untold \ {{}} :
       /\ untold' = untold \ told
       /\ IF \E m \in mapping : Watches(m)
          THEN \E m \in mapping :
                 LET layouts == Reassessed(m.layouts, told) IN
                 /\ mapping' = {[m EXCEPT !.layouts = layouts]}
                 /\ withdrawn' = LayoutBrokenBy(layouts, told)
          ELSE UNCHANGED <<mapping, withdrawn>>
  /\ UNCHANGED <<scenario, tries, sent, waiting, progress, options, identity, answer, promised, folders, changes>>

\* didChangeWorkspaceFolders: an added folder always counts.
ClientAddsFolder ==
  /\ promised # {} /\ changes < MaxChanges /\ Server.product = "typescript-language-server"
  /\ \E i \in DOMAIN folders : folders' = Append(folders, folders[i])
  /\ withdrawn' = (withdrawn \/ \E m \in mapping : Watches(m))
  /\ changes' = changes + 1
  /\ UNCHANGED <<scenario, tries, sent, waiting, progress, options, mapping, identity, answer, promised, untold>>

--------------------------------------------------------------------------------
Init ==
  /\ scenario \in Scenarios
  /\ tries = <<>> /\ sent = Absent /\ waiting = FALSE
  /\ declaresProgress = FALSE /\ asked = FALSE
  /\ options = "absent" /\ mapping = {} /\ identity = {}
  /\ answer = NoAnswer /\ promised = {}
  /\ folders = scenario.folders /\ untold = {} /\ withdrawn = FALSE /\ changes = 0

Next ==
  \/ ClientInitializes
  \/ ServerAnnounces
  \/ ServerAnswers
  \/ ServerCreatesProgress
  \/ FileChanges
  \/ ClientTells
  \/ ClientAddsFolder

Spec == Init /\ [][Next]_vars

--------------------------------------------------------------------------------
(* Properties. *)

\* The one node is the other but for these fields, and an object where it differs.
SameBut(old, new, keys) ==
  \/ old = new
  \/ /\ old.kind \in {"object", "absent", "null"} /\ IsObject(new)
     /\ \A key \in (DOMAIN old.fields \cup DOMAIN new.fields) \ keys : Get(new, key) = Get(old, key)

\* after is before, with nothing changed or lost but at the end of these paths: what
\* lies beside the way to them stays.
AddsOnly(before, after, paths) ==
  \A path \in paths : \A n \in 0..(Len(path) - 1) :
    LET way == SubSeq(path, 1, n)
        onward == {p \in paths : SubSeq(p, 1, n) = way}
    IN  SameBut(Lookup(before, way), Lookup(after, way), {p[n + 1] : p \in onward})

OptIns ==
  {<<"capabilities", "experimental", "serverStatusNotification">>,
   <<"capabilities", "window", "workDoneProgress">>, <<"capabilities", "experimental", "serverState">>}
  \cup {<<"initializationOptions", o>> : o \in InitializationOptionsForCommand(UpstreamCommandBasename(Server.command))}

\* A place for an opt-in: nothing on the way to it is something else.
HasPlace(params, path) ==
  \A n \in 1..(Len(path) - 1) : Lookup(params, SubSeq(path, 1, n)).kind \in {"object", "absent"}

\* The rewriting of the handshake adds and takes nothing away: the upstream gets
\* the client's initialize with every opt-in that has a place in it, and the
\* client gets the upstream's answer with a declaration added, or as it was when
\* the upstream declares for itself or failed (initialize.rs:134-273).  Of what the
\* server may do because of it, a client that did not ask for it sees nothing.
HandshakeOnlyAdds ==
  /\ sent # Absent =>
       /\ AddsOnly(Last(tries), sent, OptIns)
       /\ \A path \in OptIns : HasPlace(Last(tries), path) => Lookup(sent, path) = True
  /\ LET declaration == <<"capabilities", "experimental", "serverStateProvider">> IN
       /\ AddsOnly(answer.from, answer.to, {declaration})
       /\ IsObject(Lookup(answer.from, declaration)) => answer.to = answer.from
  /\ asked => DeclaresWorkDoneProgress(Last(tries))

\* A guarantee is given only for a product and a version it was tested with,
\* whatever of its names and versions was read in which order.  A limit that is
\* promised is the one the last initialize wrote for the server.  When that wrote none,
\* it is the server's own or that of an earlier initialize, which failed
\* (remember_initialize returns early when there are no options).
GuaranteesAreTested ==
  \A provider \in promised :
    /\ provider # NotificationsOnly =>
         Server.product \in Versioned /\ Server.version \in Tested[Server.product]
    /\ \A c \in provider.coverage : Server.product = "rust-analyzer" =>
         \E limit \in {SymbolLimit(tries[i]) : i \in DOMAIN tries} :
           /\ c.capped = {<<"workspace/symbol", LearnSymbolLimit(limit)>>}
           /\ SymbolLimit(sent) \in {limit, "absent"}

\* The reference for patterns: the path is cut where each segment ends.
Spans(pattern, path) ==
  \E cut \in [0..Len(pattern) -> 0..Len(path)] :
    /\ cut[0] = 0 /\ cut[Len(pattern)] = Len(path)
    /\ \A k \in DOMAIN pattern :
         IF pattern[k] = AnyDirectories
         THEN cut[k - 1] <= cut[k] /\ \A i \in (cut[k - 1] + 1)..cut[k] : path[i] \notin Hidden
         ELSE cut[k] = cut[k - 1] + 1 /\ MatchesSegment(pattern[k], path[cut[k]])

\* A project takes a file in by name, or by a pattern no exclusion undoes for it
\* or for a directory it is in.
InProject(config, path) ==
  \/ \E files \in config.files : \E f \in files : NormalizeEntry(f) = path
  \/ /\ \E p \in WrittenInclude(config) : Spans(Compile(p), path)
     /\ \A p \in WrittenExclude(config), n \in DOMAIN path : ~Spans(Compile(p), SubSeq(path, 1, n))

\* The workspace is one project: one folder, with one configuration, at its top,
\* that takes every source in and inherits nothing.
OneProject ==
  /\ Len(folders) = 1
  /\ LET seen == {p \in DOMAIN folders[1] : \A n \in DOMAIN p : p[n] \notin SkippedDirs}
         configs == {p \in seen : Name(p) \in ConfigNames}
     IN  \E path \in configs :
           /\ configs = {path} /\ Len(path) = 1
           /\ ~folders[1][path].extends
           /\ \A source \in seen \ configs : Name(source) \in Typescript \cup Javascript =>
                /\ Name(source) \in Javascript => AllowJs(folders[1][path], path)
                /\ InProject(folders[1][path], source)

\* While coverage is promised and not withdrawn, the workspace is one project,
\* once the client has told of every change; the layout was read when the
\* mapping was selected, and the promise given later (ADR 0023).
CoverageHolds ==
  (/\ Server.product = "typescript-language-server" /\ ~withdrawn /\ untold = {}
   /\ \E provider \in promised : provider.coverage # {})
  => OneProject
================================================================================
