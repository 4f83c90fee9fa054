--------------------------------- MODULE Mappings -------------------------------
(***************************************************************************)
(* The tracker with one of its mappings, between a server and a client.     *)
(*                                                                         *)
(* The server says anything that a server of its kind can say, in any order *)
(* that its work allows, and the client announces files and documents.  A   *)
(* message is read as soon as it is said: what a message in flight does to  *)
(* the state is not the business of this module.                            *)
(***************************************************************************)
EXTENDS Mapping, FiniteSets, Sequences

CONSTANTS
  Servers,        \* the kinds of server to look at
  MaxNesting,     \* bound: open operations of Sorbet
  Folder,         \* folders of pyright
  LoudFolder,     \* the same, for a pyright that logs more
  ProjectUri,     \* project URIs of jdtls
  File,           \* files of haskell-language-server and nextflow, as paths
  Stray           \* files outside of the workspace of nextflow

VARIABLES
  server,    \* which server is there
  mapping,   \* the adapter that was selected
  tracked,   \* tracker.state
  work       \* what the server has under way

vars == <<server, mapping, tracked, work>>

Cd == INSTANCE Clangd
Cr == INSTANCE Crystalline
Da == INSTANCE Dart
Ex == INSTANCE Expert
Gl == INSTANCE Gleam
Go == INSTANCE Gopls
Hs == INSTANCE HaskellLanguageServer
Hx == INSTANCE HaxeLanguageServer
Jd == INSTANCE Jdtls
Me == INSTANCE Metals
Nx == INSTANCE Nextflow WITH Script <- File
Nl == INSTANCE Nil
Nd == INSTANCE Nixd
Py == INSTANCE Pyright
Ra == INSTANCE RustAnalyzer
So == INSTANCE Sorbet
Ts == INSTANCE TypescriptLanguageServer

ASSUME MappingsAssumption ==
  /\ Servers \subseteq {"clangd", "crystalline", "dart", "expert", "gleam", "gopls", "hls", "haxe",
                        "jdtls", "metals", "nextflow", "nil", "nixd", "pyright", "rust-analyzer",
                        "sorbet", "typescript"}
  /\ MaxNesting \in Nat \ {0}
  /\ File \subseteq Seq(STRING)

--------------------------------------------------------------------------------
(* Selection: the mapping as it is when the tracker adopts it.                 *)

Kind(name, start, silence) == [server |-> name, mapping |-> start, work |-> silence]

ClangdStarts ==
  {Kind("clangd", Cd!Start(args), Cd!Silence(Cd!Told(args), files)) : args \in Cd!Launches, files \in Cd!Disks}

\* The folders of a client of nextflow: none, or all that the files are in.
NextflowFolders == {{}, {<<Head(f)>> : f \in File}}

NextflowStarts ==
  {Kind("nextflow", Nx!Start(folders), Nx!Silence(folders, disk))
     : disk \in SUBSET File, folders \in NextflowFolders}

NilStarts == {Kind("nil", Nl!Start(w.folders), Nl!Silence(w.loads)) : w \in Nl!Workspaces}

PyrightStarts == {Kind("pyright", Py!Start, Py!Silence(loud)) : loud \in BOOLEAN}

TypescriptStarts ==
  {Kind("typescript", Ts!Start(v, l), Ts!Silence(v, l)) : v \in BOOLEAN, l \in BOOLEAN}

Starts ==
  {Kind("crystalline", Cr!Start, Cr!Silence), Kind("dart", Da!Start, Da!Silence),
   Kind("expert", Ex!Start, Ex!Silence), Kind("gleam", Gl!Start, Gl!Silence),
   Kind("gopls", Go!Start, Go!Silence), Kind("hls", Hs!Start, Hs!Silence),
   Kind("haxe", Hx!Start, Hx!Silence), Kind("jdtls", Jd!Start, Jd!Silence),
   Kind("metals", Me!Start, Me!Silence), Kind("nixd", Nd!Start, Nd!Silence),
   Kind("rust-analyzer", Ra!Start, Ra!Silence), Kind("sorbet", So!Start, So!Silence)}
    \cup ClangdStarts \cup NextflowStarts \cup NilStarts \cup PyrightStarts \cup TypescriptStarts

InitialState(k) == IF k.server = "rust-analyzer" THEN Initializing ELSE k.mapping.state

Init ==
  \E k \in {s \in Starts : s.server \in Servers} :
    /\ server = k.server
    /\ mapping = k.mapping
    /\ tracked = InitialState(k)
    /\ work = k.work

\* Tracker::apply: what the mapping read becomes the state.
Apply(result) ==
  /\ mapping' = result.next
  /\ tracked' = IF result.read = {} THEN tracked ELSE CHOOSE s \in result.read : TRUE
  /\ UNCHANGED server

--------------------------------------------------------------------------------
(* Tracker::observe_upstream and observe_client, with the mapping of the server. *)

ClangdSpeaks ==
  server = "clangd" /\ \E u \in Cd!Speech(work) :
    Apply(Cd!Interpret(mapping, u.says)) /\ work' = u.work

CrystallineSpeaks ==
  server = "crystalline" /\ \E u \in Cr!Speech(work) :
    Apply(Cr!Interpret(mapping, u.says)) /\ work' = u.work

DartSpeaks ==
  server = "dart" /\ \E u \in Da!Speech(work) :
    Apply(Da!Interpret(mapping, u.says)) /\ work' = u.work

ExpertSpeaks ==
  server = "expert" /\ \E u \in Ex!Speech(work) :
    Apply(Ex!Interpret(mapping, u.says)) /\ work' = u.work

GleamSpeaks ==
  server = "gleam" /\ \E u \in Gl!Speech(work) :
    Apply(Gl!Interpret(mapping, u.says)) /\ work' = u.work

GoplsSpeaks ==
  server = "gopls" /\ \E u \in Go!Speech(work) :
    Apply(Go!Interpret(mapping, u.says)) /\ work' = u.work

HlsSpeaks ==
  server = "hls" /\ \E u \in Hs!Speech(work) :
    Apply(Hs!Interpret(mapping, u.says)) /\ work' = u.work

HaxeSpeaks ==
  server = "haxe" /\ \E u \in Hx!Speech(work) :
    Apply(Hx!Interpret(mapping, u.says)) /\ work' = u.work

JdtlsSpeaks ==
  server = "jdtls" /\ \E u \in Jd!Speech(work) :
    Apply(Jd!Interpret(mapping, u.says)) /\ work' = u.work

MetalsSpeaks ==
  server = "metals" /\ \E u \in Me!Speech(work) :
    Apply(Me!Interpret(mapping, u.says)) /\ work' = u.work

NextflowSpeaks ==
  server = "nextflow" /\ \E u \in Nx!Speech(work) :
    Apply(Nx!Interpret(mapping, u.says)) /\ work' = u.work

NilSpeaks ==
  server = "nil" /\ \E u \in Nl!Speech(work) :
    Apply(Nl!Interpret(mapping, u.says)) /\ work' = u.work

NixdSpeaks ==
  server = "nixd" /\ \E u \in Nd!Speech(work) :
    Apply(Nd!Interpret(mapping, u.says)) /\ work' = u.work

PyrightSpeaks ==
  server = "pyright" /\ \E u \in Py!Speech(work) :
    Apply(Py!Interpret(mapping, u.says)) /\ work' = u.work

RustAnalyzerSpeaks ==
  server = "rust-analyzer" /\ \E u \in Ra!Speech(work) :
    Apply(Ra!Interpret(mapping, u.says)) /\ work' = u.work

SorbetSpeaks ==
  server = "sorbet" /\ \E u \in So!Speech(work) :
    Apply(So!Interpret(mapping, u.says)) /\ work' = u.work

TypescriptSpeaks ==
  server = "typescript" /\ \E u \in Ts!Speech(work) :
    Apply(Ts!Interpret(mapping, u.says)) /\ work' = u.work

ServerSpeaks ==
  \/ ClangdSpeaks \/ CrystallineSpeaks \/ DartSpeaks \/ ExpertSpeaks \/ GleamSpeaks
  \/ GoplsSpeaks \/ HlsSpeaks \/ HaxeSpeaks \/ JdtlsSpeaks \/ MetalsSpeaks
  \/ NextflowSpeaks \/ NilSpeaks \/ NixdSpeaks \/ PyrightSpeaks
  \/ RustAnalyzerSpeaks \/ SorbetSpeaks \/ TypescriptSpeaks

ClientOfClangd ==
  server = "clangd" /\ \E u \in Cd!ClientSpeech(work) :
    Apply(Cd!ObserveClient(mapping, u.says)) /\ work' = u.work

ClientOfMetals ==
  server = "metals" /\ \E u \in Me!ClientSpeech(work) :
    Apply(Me!ObserveClient(mapping, u.says)) /\ work' = u.work

ClientOfNextflow ==
  server = "nextflow" /\ \E u \in Nx!ClientSpeech(work) :
    Apply(Nx!ObserveClient(mapping, u.says)) /\ work' = u.work

ClientOfRustAnalyzer ==
  server = "rust-analyzer" /\ \E u \in Ra!ClientSpeech(work) :
    Apply(Ra!ObserveClient(mapping, u.says)) /\ work' = u.work

ClientOfTypescript ==
  server = "typescript" /\ \E u \in Ts!ClientSpeech(work) :
    Apply(Ts!ObserveClient(mapping, u.says)) /\ work' = u.work

ClientSpeaks ==
  ClientOfClangd \/ ClientOfMetals \/ ClientOfNextflow \/ ClientOfRustAnalyzer \/ ClientOfTypescript

Next == ServerSpeaks \/ ClientSpeaks

Spec == Init /\ [][Next]_vars

--------------------------------------------------------------------------------
(* What is true of the server, whatever the mapping believes.                  *)

Complete ==
  CASE server = "clangd" -> Cd!Complete(work)
    [] server = "crystalline" -> Cr!Complete(work)
    [] server = "dart" -> Da!Complete(work)
    [] server = "expert" -> Ex!Complete(work)
    [] server = "gleam" -> Gl!Complete(work)
    [] server = "gopls" -> Go!Complete(work)
    [] server = "hls" -> Hs!Complete(work)
    [] server = "haxe" -> Hx!Complete(work)
    [] server = "jdtls" -> Jd!Complete(work)
    [] server = "metals" -> Me!Complete(work)
    [] server = "nextflow" -> Nx!Complete(work)
    [] server = "nil" -> Nl!Complete(work)
    [] server = "nixd" -> Nd!Complete(work)
    [] server = "pyright" -> Py!Complete(work)
    [] server = "rust-analyzer" -> Ra!Complete(work)
    [] server = "sorbet" -> So!Complete(work)
    [] server = "typescript" -> Ts!Complete(work)

\* Only four kinds of server can leave the observer without any sign to wait for.
Blind ==
  CASE server = "clangd" -> Cd!Blind(work)
    [] server = "hls" -> Hs!Blind(work)
    [] server = "nil" -> Nl!Blind(work)
    [] server = "typescript" -> Ts!Blind(work)
    [] OTHER -> FALSE

\* The healths that are no lie; a server without a sign of its health has none to tell.
Healths ==
  CASE server = "gopls" -> Go!Healths(work)
    [] server = "hls" -> Hs!Healths(work)
    [] server = "haxe" -> Hx!Healths(work)
    [] server = "jdtls" -> Jd!Healths(work)
    [] server = "metals" -> Me!Healths(work)
    [] server = "nil" -> Nl!Healths(work)
    [] server = "rust-analyzer" -> Ra!Healths(work)
    [] server = "typescript" -> Ts!Healths(work)
    [] OTHER -> {"unknown"}

--------------------------------------------------------------------------------
(* Properties                                                                  *)

\* The state on the boundary is one of the vocabulary's, and the server one of those looked at.
TypeOK == server \in Servers /\ tracked \in ServerStates

\* "ready" is never a lie: every load, build, index or enumeration that was seen to begin has
\* ended, the phase that ended last is one that closes a round, and no file that the client has
\* announced since still calls for work (interpret and observe_client of every adapter).
ReadyIsObserved == tracked.readiness = "ready" => Complete

\* Nothing is withheld without end: once the server has all it needs, or once there is no
\* sign left to wait for, the state does not ask to wait (gate.rs holds while initializing or
\* indexing, without a time limit).
NotWithheld == Complete \/ Blind => tracked.readiness \in {"ready", "unknown"}

\* The observer gives readiness up only when it has nothing left to observe.
GivesUpOnlyBlind == tracked.readiness = "unknown" => Blind

\* A failure that stands is told, whatever ends or is announced in the meantime; one that is
\* over is taken back; and none is invented.
HealthIsTold == tracked.health \in Healths

\* A mapping that returns nothing has kept nothing back: the state it holds is the one on the
\* boundary (the early returns of on_progress, on_log and the others come before or after their
\* bookkeeping, never in the middle of it).
NothingKeptBack ==
  IF server = "rust-analyzer" THEN mapping.lastHealth = tracked.health
  ELSE mapping.state = tracked

\* "completions are counted up to that number before `ready`" (pyright.rs, of the folders): when
\* every folder of pyright has been enumerated, it is ready.
ReadyWhenAllEnumerated ==
  server = "pyright" /\ Complete => tracked.readiness = "ready"

\* "health is also decided only here (claiming ok in the middle would be an unobserved
\* claim)" (gopls.rs, of the end of a round): gopls is ok only if its last round was.
OkIsObserved == server = "gopls" /\ tracked.health = "ok" => work.round = "ok"
================================================================================
