----------------------------- MODULE TypescriptLayout ---------------------------
(***************************************************************************)
(* typescript_layout.rs, rule R1: whether one TypeScript project contains      *)
(* every source of the workspace.  A path is a sequence of names, a pattern a  *)
(* sequence of segments; which names a wildcard fits, character by character,  *)
(* is given.  What a configuration may leave out is a set with one member, or  *)
(* empty.                                                                    *)
(***************************************************************************)
EXTENDS Naturals, Sequences, FiniteSets, SequencesExt

CONSTANTS
  Fits,                   \* for each segment with a wildcard, the names it fits
  Hidden,                 \* the names that start with a dot
  Minified,               \* the names, and segments, that end in .min.js
  Starred,                \* the segments with a * in them
  Dotted,                 \* the segments with a dot in them
  Typescript, Javascript  \* the names with an extension of either language

ConfigNames == {"tsconfig.json", "jsconfig.json"}
SkippedDirs == {"node_modules", ".git"}
DefaultExclude == {<<"node_modules">>, <<"bower_components">>, <<"jspm_packages">>}
AnyDirectories == "**"
Star == "*"

HasWildcard(segment) == segment \in DOMAIN Fits
Inside(path) == \A i \in DOMAIN path : path[i] \notin SkippedDirs
Name(path) == path[Len(path)]
IsConfigFile(path) == Name(path) \in ConfigNames
IsSource(path) == Name(path) \in Typescript \cup Javascript

--------------------------------------------------------------------------------
(* Patterns. *)

\* A leading "./" says nothing.
NormalizeEntry(entry) ==
  LET written == {i \in DOMAIN entry : entry[i] # "."}
  IN  IF written = {} THEN <<>> ELSE SubSeq(entry, Min(written), Len(entry))

\* The segments of a pattern: a "." between them says nothing.
Segments(pattern) ==
  LET kept[n \in 0..Len(pattern)] ==
        IF n = 0 THEN <<>> ELSE IF pattern[n] = "." THEN kept[n - 1] ELSE Append(kept[n - 1], pattern[n])
  IN  kept[Len(pattern)]

\* A last segment with neither a wildcard nor a dot names a directory.
Compile(pattern) ==
  LET segments == Segments(pattern)
  IN  IF HasWildcard(Last(segments)) \/ Last(segments) \in Dotted
      THEN segments ELSE segments \o <<AnyDirectories, Star>>

\* Absolute paths, backslashes and ".." are not understood.
Understood(pattern) ==
  /\ Segments(pattern) # <<>>
  /\ \A i \in DOMAIN pattern : pattern[i] \notin {"..", "\\", "/"}

\* A wildcard fits no hidden name, and one with a * a minified name only where it says so.
MatchesSegment(segment, name) ==
  IF HasWildcard(segment)
  THEN /\ name \notin Hidden
       /\ name \in Minified /\ segment \in Starred => segment \in Minified
       /\ name \in Fits[segment]
  ELSE segment = name

\* Mutant: ** also stands for hidden directories.
MatchesHidden(pattern, path) ==
  LET M[i \in 0..Len(pattern)] == [j \in 0..Len(path) |->
        IF i = 0 THEN j = 0
        ELSE LET segment == pattern[Len(pattern) - i + 1] IN
             IF segment = AnyDirectories
             THEN \E skip \in 0..j : M[i - 1][j - skip]
             ELSE j > 0 /\ MatchesSegment(segment, path[Len(path) - j + 1]) /\ M[i - 1][j - 1]]
  IN  M[Len(pattern)][Len(path)]

\* The last i segments match the last j names.
Matches(pattern, path) ==
  LET M[i \in 0..Len(pattern)] == [j \in 0..Len(path) |->
        IF i = 0 THEN j = 0
        ELSE LET segment == pattern[Len(pattern) - i + 1] IN
             IF segment = AnyDirectories
             THEN \E skip \in 0..j :
                    /\ \A k \in 1..skip : path[Len(path) - j + k] \notin Hidden
                    /\ M[i - 1][j - skip]
             ELSE j > 0 /\ MatchesSegment(segment, path[Len(path) - j + 1]) /\ M[i - 1][j - 1]]
  IN  M[Len(pattern)][Len(path)]

--------------------------------------------------------------------------------
(* Configurations. *)

\* include is everything unless something is written; exclude has its defaults,
\* and the outDir.
WrittenInclude(config) ==
  IF config.include # {} THEN UNION config.include
  ELSE IF config.files # {} THEN {} ELSE {<<AnyDirectories, Star>>}
WrittenExclude(config) ==
  IF config.exclude # {} THEN UNION config.exclude ELSE DefaultExclude \cup config.outDir

\* The scope of a configuration: none for one that is not understood.
ReadScope(config) ==
  LET include == {NormalizeEntry(p) : p \in WrittenInclude(config)}
      exclude == {NormalizeEntry(p) : p \in WrittenExclude(config)}
  IN  IF \A p \in include \cup exclude : Understood(p)
      THEN {[files |-> {NormalizeEntry(p) : p \in UNION config.files},
             include |-> {Compile(p) : p \in include}, exclude |-> {Compile(p) : p \in exclude}]}
      ELSE {}

\* What is named is in; what an exclude matches, or a directory above it, is out.
TakesIn(scope, source) ==
  \/ source \in scope.files
  \/ /\ \E p \in scope.include : Matches(p, source)
     /\ ~ \E p \in scope.exclude : \E end \in DOMAIN source : Matches(p, SubSeq(source, 1, end))

\* A jsconfig.json takes JavaScript in unless it says otherwise.
AllowJs(config, path) ==
  IF config.allowJs = "absent" THEN Name(path) = "jsconfig.json" ELSE config.allowJs = "true"

--------------------------------------------------------------------------------
(* Folders.  A tree is the set of its files; settings gives the configurations. *)

Incomplete(allowJs) == [complete |-> FALSE, allowJs |-> allowJs, scope |-> {}]

Walk(tree) == {path \in tree : Inside(path)}

AssessFolder(tree, settings) ==
  LET files == Walk(tree)
      configs == {path \in files : IsConfigFile(path)}
      sources == {path \in files : ~IsConfigFile(path) /\ IsSource(path)}
  IN  IF Cardinality(configs) # 1 \/ \E path \in configs : Len(path) # 1
      THEN Incomplete(FALSE)
      ELSE LET path == CHOOSE c \in configs : TRUE
               config == settings[path]
               allowJs == AllowJs(config, path)
           IN CASE ~config.readable \/ config.allowJs \notin {"absent", "true", "false"} -> Incomplete(FALSE)
                [] config.readable /\ config.allowJs \in {"absent", "true", "false"} /\ ReadScope(config) = {} ->
                     Incomplete(allowJs)
                [] OTHER ->
                     [complete |-> /\ ~config.extends
                                   /\ \A source \in sources :
                                        /\ allowJs \/ Name(source) \notin Javascript
                                        /\ \A scope \in ReadScope(config) : TakesIn(scope, source),
                      allowJs |-> allowJs, scope |-> ReadScope(config)]

\* A second folder is a second project.
WorkspaceComplete(layouts) == Len(layouts) = 1 /\ layouts[1].complete

IsConfigChange(path) == Inside(path) /\ IsConfigFile(path)

NewSourceOutside(layout, path) ==
  /\ Inside(path) /\ ~IsConfigFile(path) /\ IsSource(path)
  /\ ~ /\ Name(path) \in Javascript => layout.allowJs
       /\ \E scope \in layout.scope : TakesIn(scope, path)
================================================================================
