# lsp-det in TLA+

lsp-det is a relay between an LSP client and a language server.  It observes the server, says in
one vocabulary whether the server can answer completely (`experimental/serverState`), and, for a
client that does not speak that vocabulary, holds cross-workspace requests until the server can.
This directory is a verification development of the program in `src/src`: what is modelled, what
TLC checks, and what TLAPS proves.

## 1. The system

| part | code | state | operations |
| ---- | ---- | ----- | ---------- |
| gate (downstream side) | `gate.rs` | queue of held requests, `client_decides` | `set_client_decides`, `on_request`, `on_state`, `on_cancel`, `drain` |
| tracker | `tracker.rs` | state, mapping, identity, `named_but_unknown`, what `initialize` said | `remember_*`, `observe_client`, `observe_upstream`, `select_mapping` |
| relay and upstream side | `proxy.rs` | `UpstreamSide` (handshake, identity mapping, stand-in), the loop | `on_client`, `on_upstream`, `on_initialize_result`, `close_pending`, `reap`, `run` |
| mappings | `adapter/*.rs` | 17 mappings, each with tokens, counters or sets | `interpret`, `observe_client`, `learn_*` |
| watched files | `watched_files.rs` | last listing (path, mtime) | `new`, `changes_since_last_scan` |
| open documents | `documents.rs` | set of open URIs | `on_did_open`, `on_did_close` |
| initialize | `initialize.rs` | none | reading and rewriting `initialize` and its result |
| framing, peek | `framing.rs`, `peek.rs` | none between messages | `read_message`, `write_message`, `peek` |
| child process | `process/*.rs` | the child | `spawn`, `try_wait`, `kill_and_wait` |
| command line, URIs | `cli.rs`, `main.rs`, `uri.rs` | none | parsing |

One thread owns everything: `run` takes events from one channel that two reader threads (client,
upstream) fill, and polls the child when the channel is quiet for 20 ms.  Handlers run to the end
before the next event.  The hard part is therefore not a data race; it is the order of messages:
what the client does crosses what the server has already written, the two axes of the state move
at different times, a mapping is selected at one of three moments, the state on the boundary has
two sources (the tracker, or an upstream that speaks the protocol), and the upstream may be gone
before its messages are read.

What makes each part correct:

* gate: it waits only when waiting makes sense, every request has exactly one fate, the order of
  the client is kept, nothing is sent to a server that cannot answer;
* relay: it does what the gate expects of its caller, answers once, keeps reading while something
  waits, tells a subscriber what it tracks, follows an upstream that speaks for itself, and when
  it stops nothing is left behind;
* mappings: `ready` is claimed only when everything that was seen to begin has ended, and is not
  withheld for ever once it has; `error` is not taken back while its cause lasts;
* watched files and open documents: when a request is served, everything that came before it
  has been told, and the upstream's documents and files are those of the client;
* initialize: the rewriting only adds, and a guarantee is given only where it was tested;
* framing, channel, threads: a message arrives whole, in order, and always, as long as there is
  somebody to read it;
* child process, command line: nobody is left behind, and a failure is not told as a success.


## 2. The modules

| module | models | EXTENDS / INSTANCE |
| ------ | ------ | ------------------ |
| `ServerState` | the vocabulary of `state.rs`: health, readiness, what is worth a notification | |
| `GateRules` | the decisions of `gate.rs` as functions: verdict, release, refusals | `ServerState` |
| `Holding` | abstract: what holding promises a client, without saying when it waits | |
| `Gate` | the gate as a state machine, one action per method | `GateRules`; instantiates `Holding` |
| `GateRulesProofs` | lemmas about queues and about what a release does | `GateRules`, `TLAPS` and the library's theorems |
| `GateProofs` | theorems about `Gate` | `Gate`, `GateRulesProofs` |
| `Proxy` | the relay of `proxy.rs` with `tracker.rs`, the gate and the stand-in of `watched_files.rs` | `GateRules`; instantiates `Gate` |
| `ProxyProofs` | theorems about `Proxy` | `Proxy`, `GateRulesProofs`; instantiates `GateProofs` |
| `Mapping` | what mappings share, and a server that reports `$/progress` | `ServerState` |
| `Clangd` ... `TypescriptLanguageServer` | one mapping of `adapter/` each, and the server it reads | `Mapping` |
| `Mappings` | `Tracker::observe_upstream` / `observe_client` with one of the 17 mappings | instantiates all of them |
| `MappingsProofs` | lemmas about each mapping, and the theorems about `Mappings` | `Mappings`, `TLAPS` and the library's theorems |
| `WatchedFiles` | `watched_files.rs`: listings and their differences | |
| `Session` | a session after the handshake: client, relay with both stand-ins (`documents.rs` too) and its gate, rust-analyzer, both pipes, disk | `GateRules`, `WatchedFiles`; instantiates `RustAnalyzer` |
| `SessionProofs` | theorems about `Session` | `Session`, `GateRulesProofs` |
| `Plumbing` | `framing.rs`: a stream of units, and a reader of it; the threads of `run`, its channel, the pipes, both ends | |
| `PlumbingProofs` | theorems about `Plumbing` | `Plumbing`, `TLAPS` and the library's theorems |
| `Lifetime` | `main.rs`, `cli.rs`, `process/*.rs`: three processes on three operating systems | |
| `LifetimeProofs` | a theorem about `Lifetime` | `Lifetime`, `TLAPS` |
| `Initialize` | `initialize.rs`: readers and rewritings of JSON documents | |
| `Guarantees` | what each mapping declares, and the tested versions behind it | |
| `TypescriptLayout` | `typescript_layout.rs`: patterns, projects, what a layout covers | |
| `Startup` | the handshake with `Initialize` and `Guarantees`, and the workspace after it | `Initialize`, `Guarantees` (with `TypescriptLayout`) |
| `StartupProofs` | theorems about `Startup` | `Startup`, `TLAPS` and the library's theorems |
| `MCProxy`, `MCMappings`, `MCSession`, `MCPlumbing`, `MCLifetime`, `MCStartup` | instances for TLC; `Gate` needs none, `Gate.cfg` gives it its requests | |

### Gate

`held` is the queue of `Gate`, `clientDecides` its flag.  The gate does not own the state on the
boundary: its callers pass it, so `state` stands for the value they pass, and what the gate needs
from them is in the guards of the actions they take (`AsksToDecide`, `Place`, `Fresh`).
`arrived`, `forwarded` and `answers` are histories: what the gate was given, what it sent upstream
and which errors it returned.

| action | code |
| ------ | ---- |
| `AsksToDecide` | `set_client_decides` |
| `OnRequest` | `on_request` with a cross-workspace method |
| `OnState` | `on_state` |
| `OnCancel` | `on_cancel` of a held request (for another it does nothing) |
| `Drain` | `drain`, with the code of shutdown or of the loss of the upstream |
| `Place` | no call: the caller moves the state without telling the gate |

`Holding` is the abstract specification: a request passes, waits or is refused; nothing overtakes
one that waits; those that wait leave together and in order, or one by one because the client
withdrew them.  `Gate` implements it with `waiting <- held`, `passed <- forwarded`,
`refused <- AnsweredIds`.  The step `Place` and the changes of state that release nothing are
stutters of it.

### Proxy

The variables are the fields of `Tracker` and `UpstreamSide`, the queue of the gate, the loop,
what the client knows, the upstream process with its unread messages (`pipe`), and the disk.

* A message of the client is sent and handled in one step.  The loop takes the messages of the
  two sides in any order, so a client that sends later is a client whose message is handled later.
* The messages of the upstream wait in `pipe` (its stdout, the reader thread and the channel), so
  they cross whatever the client does, and they may be lost when the poll sees the exit first.
* A mapping is reduced to what the relay sees of it: the state it starts with, and a state or
  nothing from each message.  That is an over-approximation of `Mappings`.
* The boundary's state is `tracked`, or `identityState` when the upstream speaks the protocol
  (`boundary_state`).  Every handler that moves it also releases, in the same action, as
  in the code; that this is true of all of them is the property `ImplementsGate`.
* `shutdown`, `close_pending` and `reap` are `ClientShutdown`, `ClosePending`, `UpstreamClosed`
  and `UpstreamExited`.

### Mappings

Each adapter is a record of its fields; `interpret` and `observe_client` are functions from the
record and a message to the next record and to what is read, a set with one state or none.
Every module of an adapter has a second half: the server it was written for, as the comments of the adapter
and the measurements in `docs/research` describe it.  The server keeps what it has under way
(`work`) and can say anything that its work allows, in any order: overlapping tokens, ends without
a begin, tokens of other work, work that starts again.  `Complete`, `Healths` and `Blind` are
what is true of that server, computed from `work` and never from the mapping.  The properties
compare the two.  This half is external: its rows of the map name the server, not a line of code.

The searches that decide what a mapping is told at its start are operators of the adapter's
module over the names that exist: clangd's search for a compilation database, nil's for a
`flake.lock`, nextflow's walk of the workspace.

A message is read as soon as it is said.  Messages in flight are in `Proxy`, where the mapping is
abstract, and in `Session`, where it is that of rust-analyzer.

### Session

`Proxy` abstracts the mapping and keeps one bit of the disk; `Session` is the composition where
both matter.  After the handshake, one client edits files and documents and sends cross-workspace
requests; the relay tells the upstream of the changes that git shows, turns a second `didOpen` into
a `didChange`, holds and releases; rust-analyzer loads what it is told of, in its own time.

* `inbox` is the upstream's stdin in the order of writing, `statuses` its `experimental/serverStatus`
  on their way back.  They cross.
* A version is the time of the last edit (`clock`), of a file and of a document alike, so "as new as"
  is a comparison of numbers.
* `ClientRequests` is the whole of `on_client` for a cross-workspace request: `Rescan`, then the
  message of the stand-in, then the verdict of the gate, in this order.
* `ClientAnnounces` is `didChangeWatchedFiles` of a client: the stand-in ends, the mapping's
  `observe_client` predicts.
* `announced`, `there`, `sure`, `sent`, `asked`, `since` are histories; `asked[r]` is what the client had when
  it sent `r`, which the properties compare with what the server knows when it comes to `r`; `since[d]` is
  how many requests it had sent when it opened `d`.

### Plumbing

A message is the three units of its frame (`Frame`): the line with the length, the blank line, the
body; a pipe holds `Capacity` units.  The client writes one of a set of streams, some of them broken;
it may hang up after any unit.  The server reads only when it owes nothing, and writes two lines of
log and a message for each message it gets: the worst customer of a relay with one loop.  `ClientReader`,
`UpstreamReader` and `StderrRelay` are the three threads of `run`; the loop takes one event, fills
`outbox` and writes it unit by unit (`Deliver`), blocked while a pipe is full.  `Reap`, `LoopPolls` and `LoopEnds`
are the ends of `run`.

### Lifetime

`stage` is how far the proxy is in `main`: launched, parsed, following (after `exit_with_parent`), spawning
(inside `spawn`), relaying, gone.  `os` picks the second stage of following: `PR_SET_PDEATHSIG` (Linux), a
thread on a kqueue that passes SIGTERM on (macOS), a thread on a handle and a job (Windows).  What an
operating system can refuse (`refuses`), who else holds the write end of the proxy's stdin (`heldOpen`), whether
the upstream heeds EOF and SIGTERM (`temper`) are chosen in `Init`.

### Startup

JSON documents are nodes with fields (`Initialize`).  `ClientInitializes` rewrites the request and sends it, and
again, with the same or other params, after an error; `ServerAnnounces` is a log line or a notification that names the server before or after its answer;
`ServerAnswers` selects the mapping, adopts it (`Adopt`: what was remembered is handed to it, in the order
of `tracker.rs`), and declares its guarantees in the result.  Then files, configurations and folders of a
TypeScript workspace change (`FileChanges`), the client tells of some of them (`ClientTells`), or adds a folder.
`Guarantees` has the tables of tested versions as the constant `Tested`.

## 3. What is checked

| run | states | question |
| --- | ------ | -------- |
| `gate` | 24,686 | does the gate keep its promises in every state of the boundary? |
| `proxy` | 586,825 | does the relay do what the gate expects, answer once, listen, tell, follow and stop cleanly? |
| `proxy_liveness` | 242,135 | is what is held released, does the relay stop, is no change of a file lost? |
| `mappings` | 121,612 | is every mapping right about the server it observes? |
| `session` | 164,313 | does the server know what the client had when it serves a request, and is every request served? |
| `plumbing` | 271,532 | do messages arrive whole, in order and always, through bounded pipes and three threads? |
| `lifetime` | 17,375 | does the relay follow its client and its upstream the relay, whoever dies when? |
| `startup` | 677,580 | does the rewriting only add, and is no guarantee given that was not tested or no longer holds? |
| `freshness`, `crossing`, `pyright_folders`, `gopls_health` | | what the documents say and the code does not do (section 6) |

Every property of a passing run has a mutant: a definition that models code, changed as a
plausible bug would change it.  The mutants are defined beside the definition they change.

### Properties

* `HeldWaits`, `OneFate`, `InOrder`, `NothingSentTooEarly`, `KeepsPromise` (`Gate`).
* `ImplementsGate` (`Proxy`): the relay is a correct caller of the gate.  With it, what is proved
  of `Gate` is true of the gate inside the relay.
* `OneResponse`: never two responses to a request, from the gate or from the upstream, although
  `$/cancelRequest`, a release and the end of the upstream cross.
* `SomeoneListens`: while something is held, a mapping or the identity mapping reads the
  upstream.  The shortcut that stops reading messages is what could break it.
* `ClientKnows`, `FollowsUpstream`: the last state a subscriber was told is the tracked one; the
  boundary has the state an upstream that speaks for itself told last, however its answer to the
  relay's query and its notifications cross.
* `InitializeAnsweredOnce`, `StopsClean`, `QuietAfterShutdown`, `NoChangeLost`.
* `HeldReleased`, `LossStops` (liveness).
* `ReadyIsObserved`, `NotWithheld`, `GivesUpOnlyBlind`, `HealthIsTold`, `NothingKeptBack`
  (`Mappings`): ready is never a lie; the state does not ask to wait when the server has all it
  needs or no sign is left; readiness is given up only then; the failure that stands is told, one
  that is over is not; an early return has kept nothing from the boundary.  For gopls, whose failures
  have two sources, the health is the load failure that stands, or else how the last round of loads
  ended (a folder that failed counts until its round is over), unless a load failure has ended since:
  that end is told as `ok`, which is the finding `gopls_health`.
* `ToldBeforeServed`, `TextBeforeServed` (`Session`): however long a request was held, the server had
  been told of every file and every text as new as the client had it when it sent the request.
  Edits that follow a held request overtake it, so "or newer" is all that can be promised.  A `didClose`
  overtakes it too; what was open and has not been closed since is open.
* `SameDocuments`: the upstream has one document for each one the client has open, with its text,
  although the client opens twice or closes and opens again.
* `ListingIsTold`: the listing of the stand-in is what the server was last told, so a failure of git
  neither repeats nor skips a change.
* `FreshWhenServed`: what a client's `didChangeWatchedFiles` tells a server at rest, none of whose statuses is
  on its way, is loaded when a later request is served: the prediction of the mapping lasts until the
  load ends, whatever else is told, held and released meanwhile.  A status that is on its way when the client
  tells takes the prediction back; that is the finding `crossing`.
* `AllServed` (liveness): no prediction withholds a request for ever.
* `WholeInOrder`, `LastWords`, `MessagesArrive`, `EndsWithClient` (`Plumbing`): no part of a message is taken
  for a message; the end of the upstream's stdout does not overtake what it said (an exit that the poll
  finds first does, section 6); nobody waits for everybody; a
  stream that breaks off ends the relay and the server with it.
* `FailureIsTold`, `FollowsClient`, `NoOrphan` (`Lifetime`): the exit status of the relay is not a success when
  the upstream was killed or failed with a positive code, also one above 255 (a negative one, which Windows
  has, becomes 0); the relay ends after its client even when it is blocked; the upstream does not stay
  behind, with the exceptions that the code has: a hanging upstream on macOS, and, when the relay is killed
  between the launch and the job or the signal, one that does not heed the end of its stdin.
* `HandshakeOnlyAdds`, `GuaranteesAreTested`, `CoverageHolds` (`Startup`): every opt-in that has a place in the
  client's `initialize` is there and nothing else is changed; what is declared was tested with that
  product in that version, whichever of its names came first, and a limit that is promised is that of the
  last `initialize`, or, when that has none, the server's own or that of an earlier one that failed (a
  remark in section 6); while coverage is promised, the
  workspace is one project that takes every source in, by a reference definition (`OneProject`, `Spans`) that
  shares nothing with the patterns of `TypescriptLayout`.

### Bounds

* `gate`: three requests.  Two show order and double fates; the third is the one in the middle of
  the queue when it is cancelled.  All 16 states of the boundary.
* `proxy`: two requests, one message in the pipe, one known name and one unknown, three signals
  that lead to the three verdicts.  One message is enough for crossings with the client, since
  the client's steps are taken between the writing and the reading; the two requests are
  interchangeable (`MCSymmetry`).  For `FollowsUpstream` too: the pipe is a queue, and whether a message
  is written before or after the answer to the query was sent is seen with one.
* `proxy_liveness`: one request and two signals, and a client that does not watch files, so that
  the relay stands in for it.  No symmetry.
* `mappings`: three tokens (three pieces of work overlap, one may be a failure), Sorbet's
  operations nest three deep, three folders for pyright (one that has ended, one under way, one
  to come), one for the pyright that logs more, two project URIs for jdtls and two files for
  haskell-language-server and nextflow (one clears while the other stands).
* `pyright_folders`: two folders of the pyright that logs more; one is not enough for the finding.

* `session`: one file under one root, which git answers for or not, scan by scan; one document; two
  edits, of either; two requests, so that one is held while another sees newer changes; three
  messages in the inbox, two statuses on their way (one old, one new).
* `freshness`, `crossing`: the same with one edit and no document: enough for the counterexamples.
* `gopls_health`: the instance of `mappings` for gopls alone.
* `plumbing`: pipes of one unit, the smallest that can be full; two messages, the first with a header
  line that is passed over; a stream that breaks with a line that is no header, and one without
  a length.
* `lifetime`: four command lines and four exit codes, on both sides of 0 and of 255; every combination of
  operating system, temper, refusal and held pipe.
* `startup`: two tries of `initialize`, each with any of six `params`; three changes of a workspace of one folder (or two), enough for a
  file, its configuration and a second change that undoes it; patterns with `*`, `**` and `?`; the clients and servers of the
  repository's tests, and every shape (absent, null, leaf, object) of each field that is read or
  added.

`CHECK_DEADLOCK FALSE` stands where the system really stops: when the relay has stopped
(`MCProxy*`, `MCPlumbing`, `MCLifetime`), when the client has used up its edits and requests (`MCSession`,
`MCFreshness`, `MCCrossing`) or its changes and tries (`MCStartup`).

### Fairness

`FairSpec` assumes that the loop takes a message of the upstream that waits, and that the end of
the upstream is noticed.  The channel of `run` is one queue, so neither side's messages can wait
behind the other's for ever, and the end of stdout is an event in that queue.  An upstream that
exits while a child keeps its stdout open is found by the poll, which needs a pause of 20 ms on
both sides; that such a pause comes is an assumption about the client and the server.  Nothing is
assumed of the client or the upstream: that a server ever gives a signal is not in the model,
so `HeldReleased` starts from a signal that is on its way.

`Session`: the loop takes a status that waits, the server reads its stdin, begins a load that is due
and ends one that it has begun.  Nothing is assumed of the client.  `Plumbing`: threads that can step do;
the client and the server read and write what they have to.  Nobody has to hang up or to exit.
`Lifetime`: processes run, and the kernel delivers what it was asked for: the signal or the event of a
parent's death, the end of a stream, the closing of a job.  Nobody has to die.

## 4. What is proved

`GateProofs` proves for every set of requests and any number of them:

| theorem | states |
| ------- | ------ |
| `TypeCorrect` | `Spec => []TypeOK` |
| `WaitsOnlyWhileUseful` | `Spec => []HeldWaits` |
| `EveryRequestOneFate` | `Spec => []OneFate` |
| `RequestsKeepTheirOrder` | `Spec => []InOrder` |
| `NothingTooEarly` | `Spec => NothingSentTooEarly` |
| `GateImplementsHolding` | `Spec => KeepsPromise` |

No assumption is made on the constant.  The argument:

1. lemmas about queues: which requests are in a queue after one is appended, after two are
   concatenated, after one leaves, and after all are refused;
2. `TypeOK` is inductive by itself; `HeldWaits` with `TypeOK`; `OneFate` with `TypeOK`: a step
   moves requests between the three places or adds a fresh one to one of them;
3. `InOrder` is inductive with `TypeOK`, `HeldWaits` and `OneFate`: it speaks of
   `forwarded \o held`, so a release does not change it; a request that is forwarded on the spot
   needs `held = <<>>`, which follows from `HeldWaits` and the verdict; `OneFate` says that what is
   in the line has arrived;
4. `NothingSentTooEarly` follows from `TypeOK` and the table of verdicts: what is released or
   forwarded is so in a state that can be trusted, or for a client that decides;
5. the refinement uses `OneFate` for "new" (what is fresh to the gate is in none of the three
   places) and `HeldWaits` for "nobody waits" when a request is decided on the spot.

`ProxyProofs` proves for all sets of requests, names, mappings, signals and ways of an upstream to answer, and
for a pipe of any length:

| theorem | states |
| ------- | ------ |
| `TypeCorrect` | `Spec => []TypeOK` |
| `RelayImplementsGate` | `Spec => ImplementsGate` |
| `GateInsideRelay` | `Spec => [](TheGate!HeldWaits /\ TheGate!OneFate /\ TheGate!InOrder)` |
| `SomeoneAlwaysListens` | `Spec => []SomeoneListens` |
| `InitializeIsAnsweredOnce` | `Spec => []InitializeAnsweredOnce` |
| `RelayStopsClean` | `Spec => []StopsClean` |
| `NothingAfterShutdown` | `Spec => QuietAfterShutdown` |
| `NoChangeIsLost` | `Spec => []NoChangeLost` |
| `OneResponseEach` | `Spec => []OneResponse` |
| `SubscriberKnows` | `Spec => []ClientKnows` |
| `BoundaryFollowsUpstream` | `Spec => []FollowsUpstream` |

They rest on the assumption `Constants` of `Proxy` (the constants are of the right kind: an initial state and a
signal are states, the names that stand for "none" and "another" are not names of mappings).  The argument:

1. `RelayInv` is inductive.  It says where the handshake is (`Stage`, `OneHandshake`: the answer to
   `initialize` is due or on its way only while the client asks for it, and once), which messages can be
   in the pipe at that point of it (`DeclaredFirst`: whoever tells the boundary its state has declared before that it
   speaks the protocol, and the declaration is read first; `OwnState`), that nothing is observed without a
   mapping (`NothingObserved`), and when the gate can hold something (`HeldOpen`).  None of the properties
   is inductive without it: `serverStateChanged` before the declaration would move a state that the
   gate does not look at.
2. `RelayImplementsGate` takes the actions one by one: each is `OnState`, `OnRequest`, `OnCancel`, `Drain` or
   `AsksToDecide` of the gate, or moves the state while nothing is held (`Place`), or nothing.  `HeldOpen` is what
   makes the unannounced moves harmless.  `GateInsideRelay` then takes over what `GateProofs` proves.
3. `OneResponse` needs `ResponsesServed`: a response on its way, or relayed, is one that the upstream wrote, to a
   request that was forwarded; by `OneFate` of the gate inside, what was forwarded was not refused.
4. `FollowsUpstream` needs to know the whole pipe: `LastTold` says that the last message that tells a
   state has the upstream's own, and if there is none, and no query is due, the relay has it already
   (`TakenOver`).
5. `ClientKnows`, `StopsClean`, `NoChangeLost` and `QuietAfterShutdown` are relative to `RelayInv`: a step lemma
   for each.

`SessionProofs` proves for all sets of files, roots and documents and all bounds:

| theorem | states |
| ------- | ------ |
| `ListingIsAlwaysTold` | `Spec => []ListingIsTold` |
| `ToldWhateverIsHeld` | `Spec => []ToldBeforeServed` |
| `TextWhateverIsHeld` | `Spec => []TextBeforeServed` |
| `DocumentsAgree` | `Spec => []SameDocuments` |
| `PredictionHolds` | `Spec => []FreshWhenServed` |

They rest on `SessionAssumption` (the bounds are numbers).  `ListingIsTold` is
not inductive: it needs that a file on disk has the mtime of its version (`DiskOfVersions`), that the
stand-in has only roots of the workspace, and that the histories speak of all files.  With these in
`ListingInv`, the step that matters is a request (`RescanIsTold`): git fails and nothing moves, or the
differences of the two listings (lemmas `CreatedFiles`, `DeletedFiles`, `ChangedFiles`) are what turns what was told
into the second listing.

The other four speak of the first letter in the inbox, and a step brings another one to the front.  So the
invariant, `SessionInv` (theorem `SessionInvariant`), speaks of every letter:

* `ServedWell`: for the k-th letter, when it is a request, what was heard or is told by a letter before it,
  what the buffers have or the last letter before it about a document brings, and what the index has
  or a letter before it makes the server read at once, is what the client had when it sent the request
  (`ToldAt`, `TextAt`, `FreshAt`).  For the first letter these are the properties.
* What makes `ServedWell` true of a request that joins the inbox, now or when the gate releases it: `Told`
  (what was announced was heard or is on its way), `DocumentsFit` (of each document, the first letter fits
  the server's buffers, each fits the one before, and the last fits the client's), and `Awaited`.
* `Awaited` is the heart of the prediction: what the server was surely told is in its index, or the
  tracked state asks to wait and no status that says otherwise is on its way, or the server will read it at
  once.  It survives the end of a load because of `Underway`: what is not in the index is pending, being
  loaded, or told by the next letter of files to a server at rest.
* `KeptOpen` (lemma `StaysOpen`), for the half of `TextBeforeServed` that says what is open: a `didOpen` that waits behind
  a request was sent after it (`OpenedLater`), so what was open before has been opened when the server comes to
  the request; and behind a `didClose` of what the client has open a `didOpen` waits (`OpenComes`).
* `Times`, `Queues`, `Asks`: versions are times that have passed, nothing is newer than what there is,
  and what a request saw is no newer than what there is now.

Both invariants were checked by TLC on instances of 1.85 and 2.66 million states before they were proved.

`MappingsProofs` proves of all 17 mappings, for all sets of tokens, folders, projects and files and any nesting:

| theorem | states |
| ------- | ------ |
| `MappingInvariant` | `Spec => []Inv`, the inductive invariant |
| `StatesAreTheVocabulary` | `Spec => []TypeOK` |
| `ReadyIsNoLie` | `Spec => []ReadyIsObserved` |
| `NotGivenUpEarly` | `Spec => []GivesUpOnlyBlind` |
| `HealthIsNoLie` | `Spec => []HealthIsTold` |
| `BoundaryIsCurrent` | `Spec => []NothingKeptBack` |
| `NothingIsWithheld` | `OneFolder` implies `Spec => []NotWithheld` |
| `OnlyPyrightWithholds` | `Spec => [](server # "pyright" => NotWithheld)` |

They rest on `MappingsAssumption`: the servers are those that have a mapping, and a file is named by a path,
a sequence of strings.  The argument:

1. A mapping sees messages, the properties are about work.  For each server a relation (`DartFits`, ...,
   `NextflowFits`) says what the record of its mapping has of the work: the tokens that are open and mean
   something, whether one has ended or which ended last, how many operations are open, how many folders
   are begun and done, which scripts a scan still owes.  The readiness is then a function of the work.
2. It is inductive because a token is open for one title at most (`OneTitle`, kept by `Opened` and `Closed`): the end
   of an operation names a token only, and a mapping that dropped the wrong one would lose an operation
   that is still open.  Where tokens are fixed names, `FixedBegins` and `FixedEnds` say the same in
   simpler terms.
3. `Sound` puts together what the properties ask of a state: ready only if complete; complete or blind
   only if ready or unknown; unknown only if blind; a health that was given cause for.  Each relation implies it
   (`DartSound`, ...), and `Judged` turns `Sound` into the invariants.
4. Some mappings do more than count.  clangd's mapping must find a compilation database exactly when
   clangd does (`ClangdFinds`, by looking at each directory above the document); nextflow's must come to the
   scripts the server scans, although it leaves directories out on the way down and the server tests whole
   paths (`NextflowWalk`, from `PartsEnd`: a pattern is a part of a path if and only if it ends one of the
   directories on the way); rust-analyzer's has no readiness of its own, so its relation includes the
   state of the tracker.
5. `OneFolder`, that a pyright which logs searches has one folder at most, is the only hypothesis, of one theorem.  It
   cannot be dropped: `pyright_folders` shows the counterexample with two.  The safety side, that such a
   pyright is not called ready too early, does not need it (`completed` is never more than the folders
   that are enumerated).

`PlumbingProofs` proves for all streams that a client may write, whole or broken, and pipes of any length:

| theorem | states |
| ------- | ------ |
| `Invariant` | `Spec => []IInv`, the inductive invariant |
| `ReadsWholeInOrder` | `Spec => []WholeInOrder` |
| `SpeaksItsLastWords` | `Spec => []LastWords` |

`Invariant` says that nothing is lost, doubled or cut while the proxy relays, and when it stops on the end of the
server's stdout.  It does not say so of what the client sent once the server has exited, nor of the server's
last messages when the poll finds its exit first: of those a beginning arrives.

They rest on `PlumbingAssumption` (a pipe has room for a unit, a stream is a sequence of units).  `WholeInOrder`
compares what was written at one end with what was read at the other, and says nothing of what is between;
the invariant says what each place between them holds.  The argument:

1. Both ways through the proxy are chains of queues: pipe, channel, `outbox`, pipe.  `Carries` says of a queue that
   its places hold the messages of the history from one number to another, each one or none, by a
   function that counts; `Holds` says the same of what the loop is in the middle of writing.  `SentArrives` and
   `SaidArrives` put the queues of each way one behind the other, from what is read to what was written.
2. That a message can be read at all is `Flows`: the units of a queue follow on one another as in whole frames,
   from the unit that is due to its reader to the one that comes next.  What the client writes
   may be broken, so this is claimed only of what the proxy and the server write (`ServerUnderstands`,
   `ClientUnderstands`, `ProxyUnderstands`); `LoopWrites` and `ServerOwes` say that they never turn to
   another message before the frame they have begun is whole.
3. `LastWords` needs `EndIsLast`: the event that ends the loop is behind all that the server said, because the reader
   sends it only when the pipe is empty and nobody writes to it any more.  What the channel then
   holds of the server is nothing, and the chain has only the client's pipe left.  A loop that ends by the
   poll is left out of it.
4. Induction over the places of a queue goes by their least number (`LeastNatural`, `UpTo`), and so does what the
   recursive function `Bodies` computes of a queue that carries messages (`BodiesCarried`).

TLC checked this invariant on small instances, too, before it was proved.

`LifetimeProofs` proves `FailureIsNotHidden`, `Spec => []FailureIsTold`, for all exit codes and command
lines, from `LifetimeAssumption` (codes are integers, "no code" is none).  The invariant, `HandsOnStatus`, is that
a proxy that ended with its upstream has the exit code computed from the status it reaped, and that
nothing moves either afterwards; the rest is arithmetic about clamping.

`StartupProofs` proves for all documents, clients, servers, tested versions, workspaces, configurations and patterns,
and any number of tries and changes:

| theorem | states |
| ------- | ------ |
| `OnlyAdds` | `Spec => []HandshakeOnlyAdds` |
| `TestedOnly` | `Spec => []GuaranteesAreTested` |
| `CoverageKept` | `Spec => []CoverageHolds` |

They rest on `StartupAssumption`, which says what a client and a server do of themselves: `params` is an object and
a field that is there has a value (JSON-RPC); the client of a TypeScript server names the folders of its
workspace; a name that a server says is its own, a version counts as tested only if the server's is, and a TypeScript
server announces the version it has or none.  Without that last part nothing could be said: the relay has no
other source for a version.  A folder is a finite set of files, and a configuration is written in patterns.  The argument:

1. `OnlyAdds` is about one rewriting, so its invariant (`HandshakeInv`) says only that what is out is the
   rewriting of what came in, and that progress is asked for only if the last request declared it.  The work is in the lemmas: looking up a path one key at a time
   (`LookupAlong`), what `SetTrue` leaves of the other keys, that three opt-ins, two of which share a parent, do not
   undo one another (`RequestOnlyAdds`), and that the answer changes at one path only (`AnswerOnlyAdds`).
2. `TestedOnly`: `GuaranteesInv` says that the mapping is sound (`SoundFor`: its name is the product or one without
   versions, it counts as tested only if the server is, its limit is that of one of the requests, and of the last if that has one) and that
   what was remembered of `initialize` is such a limit too, so that a mapping adopted late learns the
   same.  A retry keeps both (`RetryKeepsSound`), because it learns a limit or leaves what there was (`LimitsGrow`).  `LimitIsSent` is why the limit that is promised is the one the server got: the opt-ins leave it alone.
3. `CoverageKept`: `CoverageInv` speaks of every moment between a change on disk and its being told.
   `RootKnown` says of a layout that the folder has the one configuration it was read from, or a change of a
   configuration is yet to be told; and that each source is taken in, or its creation is yet to be told.
   Writing or removing a file keeps it (`KnownAfterChange`), telling keeps it or withdraws the promise
   (`KnownWhenTold`), and a folder that is read again is known from the start (`AssessedIsKnown`).  It is kept
   from the moment the mapping is selected, before anything is promised, because files may change in between.
   With nothing left to tell it is `OneProject` (`KnownIsProject`).
4. `OneProject` goes by `Spans`, the reference for patterns; that the table of `Matches` says the same of every pattern
   and path is `MatchesIsSpans`, one segment after another from the end (`OneSegmentMore`).  `SegmentsNormalized` says that
   a leading `./` changes nothing.

TLC checked `CoverageInv` on an instance of `startup` (all 544,231 states) before it was proved.

TLC checks each of these formulas as a property of a run, save the inductive invariants themselves, what
`GateInsideRelay` says (the run `gate` checks it of `Gate`) and `OnlyPyrightWithholds` (the run `mappings` checks it with
`NotWithheld`).

Only model-checked: everything temporal under fairness (`HeldReleased`, `LossStops`, `AllServed`, `MessagesArrive`,
`EndsWithClient`, `FollowsClient`, `NoOrphan`), since liveness is out of the prover's reach.  Every invariant
and every action property that a passing run checks has its theorem.

## 5. What is not modelled

* `uri.rs`: a pure conversion of paths, without state.  In the model a file has its path, and a URI that
  names no folder a value of its own.
* `peek.rs` beyond what it decides: which messages are requests, notifications and responses is given
  with the message.  Header fields other than the length are passed over as in the code.
* Texts: messages, logs, `StateTracker` (which logs), help and usage.
* Comments and trailing commas in `tsconfig.json` (`typescript_layout.rs:361-453`), which are removed before
  it is read, and wildcards inside one segment of a path: which names a segment fits is the constant `Fits`.
* A second `initialize` while one is pending (the protocol forbids it); retries after an error are
  modelled.  A stand-in is left in place by a second `initialize` that declares the capability
  (`proxy.rs:388`); the consequence is a second notification of a change.
* Version numbers of `didChange`: they are passed on.
* Two edits of a file within one tick of the clock of the file system (`watched_files.rs:73`).
* A second enumeration of pyright at the default log level: nothing announces it, so nothing can
  be said of it.  Likewise the scan that a changed configuration of nextflow makes the server owe, until
  its token begins (`nextflow.rs:322`).
* The kinds of server in `Session`: only rust-analyzer's mapping predicts loads from notifications of
  files and is asked for readiness right after, so it is the one composed with the pipes.

## 6. What the code does and the documents do not say

Each of these is a run that TLC ends with a violation, and a row of `findings`:

* `freshness`: what the relay itself tells the upstream of files is not shown to the mapping
  (`proxy.rs:434`), so the boundary says ready, and forwards, while rust-analyzer has yet to load a file it
  was told of by the stand-in.
* `crossing`: a status that rust-analyzer sent before it heard of a created or deleted file takes the
  prediction back (`rust_analyzer.rs:206`), and the boundary says ready before the load.
* `gopls_health`: the end of a load failure is told as `ok` whatever the loads have met, in the middle of a round
  and after one that failed (`gopls.rs:160`), against `gopls.rs:175`.
* `pyright_folders`: a "Searching for source files" of one folder takes back the completion of
  another; with both enumerated, the server never becomes ready.  Only a server that is told to
  log at that level delivers the line.

Remarks, without a run:

* Requests that were forwarded get no response when the upstream is lost; only those that are held, and
  `initialize`, do (`proxy.rs:224`), although `server-state.md:230` speaks of the outstanding requests.
* A mapping that is selected by an announcement after `InitializeResult` moves the state without a
  notification (`tracker.rs:194`), although `server-state.md:83` says one is sent whenever the state changes.
  `ClientKnows` excepts it.
* An `initialize` without options leaves those of an earlier one that failed (`tracker.rs:85`), and
  rust-analyzer's limit is declared from them, although `server-state.md:273` says 128 when absent.
  `GuaranteesAreTested` excepts it.
* A startup log before `InitializeResult` moves the tracked state, against the comment of
  `handshake_done` (`proxy.rs:252`).  Nothing is sent because of it.
* A name without a mapping does not settle the state for a client that did not declare
  `window.workDoneProgress` (`proxy.rs:490`, `tracker.rs:21`).
* A `didClose` overtakes a held request about its document, which is then served without it (`proxy.rs:456`).
* `initialize.rs:150` says that `true` or an object counts as a declaration of the upstream; only an
  object does.
* An explicit `null` on the way to an opt-in in the client's capabilities keeps it from being
  set (`initialize.rs:248`), while a `null` in the answer is replaced (`initialize.rs:173`).
* `$/typescriptVersion` with a tested version that arrives after the answer makes `DeclaresCoverage` true
  although coverage was never promised, so a change of the layout withdraws readiness
  needlessly; one with an untested version ends the watch for such changes.
* A new source that is told before the change of the configuration that takes it in withdraws
  readiness, although the workspace is one project again.
* The poll for an exit (`proxy.rs:105`) can find the upstream gone while its last words are still on
  their way to the channel; they are dropped.  The branch for a disconnected channel (`proxy.rs:115`) is
  not reached: each reader ends with an event that ends the loop first.
* An upstream that never reads its stdin blocks the loop in a write; the relay then ends only
  with its parent's death (`FollowsClient` says so).
* macOS: the process id of a reaped upstream stays in `UPSTREAM_PID`.  Linux: between `fork` and `prctl` the
  child does not follow a relay that dies.  Windows: a negative status is clamped to 0 (`main.rs:32`).

## 7. The plan

Done, in this order: `Gate` with its proofs; `Proxy`; the 17 mappings; `WatchedFiles` and `Session`;
`Plumbing`; `Lifetime` with its proof; `Initialize`, `Guarantees`, `TypescriptLayout` and `Startup`; the
proofs about `Proxy`; the proofs about `Session`; the proofs about `Mappings`; the proofs about
`Plumbing`; the proofs about `Startup`.

Left: a session in which the mapping of another server than rust-analyzer is composed with the pipes.
