------------------------------- MODULE Guarantees -------------------------------
(***************************************************************************)
(* What each mapping declares that ready means (Mapping::guarantees, and what  *)
(* decides it: the version the server announced, the options of the client).   *)
(* Most servers are held to their word for the versions that were tested; some *)
(* never say their version, and promise nothing.                              *)
(***************************************************************************)
EXTENDS TypescriptLayout

CONSTANTS
  Tested,                 \* for each name that says its version, those that were tested
  BuildInfo,              \* for each build info gopls gives as its version, the version in it
  FirstWord               \* for each version of more than one word, the first

Created == "created"
Changed == "changed"
Deleted == "deleted"
AllFileChanges == {Created, Changed, Deleted}

\* A promise that is not made is {}; capped: methods whose results end at a limit.
NotificationsOnly == [coverage |-> {}, freshness |-> {}]
Workspace(capped, changes) ==
  [coverage |-> {[scope |-> "workspace", capped |-> capped]}, freshness |-> {changes}]
CoverageOnly(capped) ==
  [coverage |-> {[scope |-> "workspace", capped |-> capped]}, freshness |-> {}]
FreshnessOnly(changes) == [coverage |-> {}, freshness |-> {changes}]
DocumentOnly(capped) ==
  [coverage |-> {[scope |-> "document", capped |-> capped]}, freshness |-> {}]

--------------------------------------------------------------------------------
(* Whether a version is one that was tested.  Only X.Y.Z is a version of gopls,  *)
(* and nothing else is among those that were tested.                          *)

GoplsVersion(version) == IF version \in DOMAIN BuildInfo THEN BuildInfo[version] ELSE version
LeadingToken(version) == IF version \in DOMAIN FirstWord THEN FirstWord[version] ELSE version

ClangdForVersion(version) == version \in Tested["clangd"]
DartForVersion(version) == version \in Tested["dart"]
GoplsForVersion(version) == GoplsVersion(version) \in Tested["gopls"]
JdtlsForVersion(version) == version \in Tested["jdtls"]
MetalsForVersion(version) == version \in Tested["metals"]
NilForVersion(version) == version \in Tested["nil"]
NixdForVersion(version) == version \in Tested["nixd"]
RustAnalyzerForVersion(version) == LeadingToken(version) \in Tested["rust-analyzer"]
TypescriptForVersion(version) == version \in Tested["typescript-language-server"]

\* A version counts for the product it was tested for.
PyrightForIdentity(name, version) == name \in {"pyright", "basedpyright"} /\ version \in Tested[name]

\* The mapping that select makes for a name, and whether it declares anything.
ForVersion(name, version) ==
  CASE name = "clangd" -> ClangdForVersion(version)
    [] name = "dart" -> DartForVersion(version)
    [] name = "gopls" -> GoplsForVersion(version)
    [] name = "jdtls" -> JdtlsForVersion(version)
    [] name = "metals" -> MetalsForVersion(version)
    [] name = "nil" -> NilForVersion(version)
    [] name = "nixd" -> NixdForVersion(version)
    [] name = "rust-analyzer" -> RustAnalyzerForVersion(version)
    [] name = "typescript-language-server" -> TypescriptForVersion(version)
    [] name \in {"pyright", "basedpyright"} -> PyrightForIdentity(name, version)
    [] OTHER -> FALSE

--------------------------------------------------------------------------------
(* What each declares then.                                                  *)

IfTested(mapping, provider) == IF mapping.tested THEN provider ELSE NotificationsOnly

ClangdGuarantees(m) == IfTested(m, CoverageOnly({}))
DartGuarantees(m) == IfTested(m, Workspace({}, {}))
GoplsGuarantees(m) == IfTested(m, Workspace({<<"workspace/symbol", "100">>}, AllFileChanges))
JdtlsGuarantees(m) == IfTested(m, Workspace({}, AllFileChanges))
MetalsGuarantees(m) == IfTested(m, Workspace({}, {}))
NilGuarantees(m) == IfTested(m, DocumentOnly({}))
NixdGuarantees(m) == IfTested(m, DocumentOnly({}))
PyrightGuarantees(m) == IfTested(m, Workspace({}, {Changed}))
RustAnalyzerGuarantees(m) ==
  IfTested(m, Workspace({<<"workspace/symbol", m.symbolLimit>>}, AllFileChanges))

\* One project contains every source of the workspace.
DeclaresCoverage(m) == m.tested /\ WorkspaceComplete(m.layouts)
TypescriptGuarantees(m) ==
  IfTested(m, IF DeclaresCoverage(m) THEN Workspace({}, {Changed}) ELSE FreshnessOnly({Changed}))

\* The mappings there are, under the names by which they are selected.
Unversioned ==
  {"expert", "nextflow-language-server", "haskell-language-server", "crystalline", "gleam",
   "haxe-language-server", "sorbet"}
Versioned ==
  {"clangd", "dart", "gopls", "jdtls", "metals", "nil", "nixd", "pyright", "basedpyright",
   "rust-analyzer", "typescript-language-server"}
Known == Unversioned \cup Versioned

ProviderOf(m) ==
  CASE m.name = "clangd" -> ClangdGuarantees(m)
    [] m.name = "dart" -> DartGuarantees(m)
    [] m.name = "gopls" -> GoplsGuarantees(m)
    [] m.name = "jdtls" -> JdtlsGuarantees(m)
    [] m.name = "metals" -> MetalsGuarantees(m)
    [] m.name = "nil" -> NilGuarantees(m)
    [] m.name = "nixd" -> NixdGuarantees(m)
    [] m.name \in {"pyright", "basedpyright"} -> PyrightGuarantees(m)
    [] m.name = "rust-analyzer" -> RustAnalyzerGuarantees(m)
    [] m.name = "typescript-language-server" -> TypescriptGuarantees(m)
    [] m.name \in Unversioned -> NotificationsOnly

\* rust-analyzer's own limit, unless the client's options set another one.
LearnSymbolLimit(written) == IF written = "absent" THEN "128" ELSE written
================================================================================
