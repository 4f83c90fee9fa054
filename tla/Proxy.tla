--------------------------------- MODULE Proxy ---------------------------------
(***************************************************************************)
(* The relay of proxy.rs with the state it tracks (tracker.rs) and the gate *)
(* it carries: one loop between a client and an upstream language server.   *)
(*                                                                         *)
(* A message of the client is sent and handled in one step: the loop takes  *)
(* the messages of the two sides in any order, and a client that sends      *)
(* later is a client whose message was handled later.  The messages of the  *)
(* upstream wait in "pipe" (its stdout, the reader thread, the channel), so  *)
(* they may cross whatever the client does, and the upstream may be gone     *)
(* before they are read.                                                    *)
(*                                                                         *)
(* A mapping is reduced to what the relay sees of it: the state it starts    *)
(* with and the states it reads from notifications.  Left out: messages that *)
(* change nothing here and are passed through, the replies to                *)
(* window/workDoneProgress/create, the capabilities injected into            *)
(* initialize, and the table of open documents, which nothing else reads.   *)
(***************************************************************************)
EXTENDS GateRules

CONSTANTS
  Request,                \* the ids of the client's cross-workspace requests
  Name,                   \* the names adapter::select knows a mapping for
  InitialState,           \* initial_state() of the mapping of each name
  Signal,                 \* the states that are read from messages
  None, Stranger,         \* no name, no state; a name without a mapping
  Watching,               \* whether a client may declare that it watches files
  MaxPipe                 \* bound: messages of the upstream that wait

ASSUME Constants ==
  /\ InitialState \in [Name -> ServerStates]
  /\ Signal \subseteq ServerStates
  /\ None \notin Name \cup ServerStates \cup {Stranger}
  /\ Stranger \notin Name
  /\ Watching \subseteq BOOLEAN
  /\ MaxPipe \in Nat \ {0}

VARIABLES
  \* Tracker
  mapping,                \* adapter and identity: the name of the mapping, or None
  namedUnknown,           \* named_but_unknown
  tracked,                \* state
  \* UpstreamSide
  clientDeclared,         \* client_declared, and client_decides of the gate
  clientProgress,         \* client_declared_progress
  initializeId,           \* initialize_id is Some
  handshakeDone,
  identity,
  identityState,
  queryPending,           \* identity_query_pending
  standIn,                \* watched_files is Some
  \* Gate
  held,
  \* run
  loop,                   \* running, or why it stopped
  \* the client
  client,                 \* how far it is: new, asking, up, open, down
  told,                   \* the last state it was told by the proxy, or None
  \* the upstream process
  upstream,               \* alive, mute (stdout closed) or dead
  pipe,                   \* its messages that were not handled yet
  toAnswer,               \* what it has to answer: initialize, the proxy's query
  speaks,                 \* it declared serverStateProvider itself
  own,                    \* the last state it wrote to the pipe
  \* the disk
  stale,                  \* the files differ from the last scan
  untold,                 \* changes of files that the upstream was not told of
  \* history, as in Gate
  arrived, forwarded, answers,
  served,                 \* requests that the upstream wrote a response to
  relayed                 \* requests whose response was relayed to the client

trackerVars == <<mapping, namedUnknown, tracked>>
sideVars == <<clientDeclared, clientProgress, initializeId, handshakeDone,
              identity, identityState, queryPending>>
gateVars == <<held, arrived, forwarded, answers>>
upstreamVars == <<upstream, pipe, toAnswer, speaks, own, served>>
diskVars == <<standIn, stale, untold>>
vars == <<trackerVars, sideVars, gateVars, upstreamVars, diskVars,
          loop, client, told, relayed>>

OutcomesOfInitialize == {"error", "plain", "declares"}

Messages ==
  [kind : {"initializeResult"}, outcome : OutcomesOfInitialize, name : Name \cup {None, Stranger}]
    \cup [kind : {"notification"}, name : Name \cup {None}, signal : Signal \cup {None}]
    \cup [kind : {"serverStateChanged"}, state : Signal]
    \cup [kind : {"queryAnswer"}, state : Signal \cup {Initializing, None}]
    \cup [kind : {"response"}, id : Request]

AnsweredIds == {answers[i].id : i \in DOMAIN answers}

TypeOK ==
  /\ mapping \in Name \cup {None}
  /\ tracked \in ServerStates /\ identityState \in ServerStates
  /\ {namedUnknown, clientDeclared, clientProgress, initializeId, handshakeDone,
      identity, queryPending, standIn, speaks, stale, untold} \subseteq BOOLEAN
  /\ loop \in {"running", "upstreamGone", "clientGone"}
  /\ client \in {"new", "asking", "up", "open", "down"}
  /\ told \in ServerStates \cup {None} /\ own \in ServerStates
  /\ upstream \in {"alive", "mute", "dead"}
  /\ toAnswer \subseteq {"initialize", "query"}
  /\ pipe \in Seq(Messages) /\ Len(pipe) <= MaxPipe
  /\ {Ids(held), Ids(arrived), Ids(forwarded), AnsweredIds, served, relayed} \subseteq SUBSET Request

\* boundary_state: what the gate looks at.
Boundary == IF identity THEN identityState ELSE tracked

Init ==
  /\ mapping = None /\ namedUnknown = FALSE /\ tracked = Unobserved
  /\ clientDeclared = FALSE /\ clientProgress = FALSE /\ initializeId = FALSE
  /\ handshakeDone = FALSE /\ identity = FALSE /\ identityState = Initializing
  /\ queryPending = FALSE /\ standIn = FALSE
  /\ held = <<>> /\ arrived = <<>> /\ forwarded = <<>> /\ answers = <<>>
  /\ loop = "running" /\ client = "new" /\ told = None
  /\ upstream = "alive" /\ pipe = <<>> /\ toAnswer = {} /\ speaks = FALSE
  /\ own = Initializing /\ served = {} /\ relayed = {}
  /\ stale = FALSE /\ untold = FALSE

--------------------------------------------------------------------------------
(* What the handlers share                                                  *)

\* releases: the gate re-evaluates its queue in state s.
Releases(s) ==
  LET out == Release(held, s) IN
  /\ held' = out.held
  /\ forwarded' = forwarded \o out.forward
  /\ answers' = answers \o out.refuse
  /\ UNCHANGED arrived

\* drain: the gate answers everything it holds.
DrainGate(code) ==
  /\ held' = <<>>
  /\ answers' = answers \o Refusals(held, code)
  /\ UNCHANGED <<arrived, forwarded>>

\* notify: experimental/serverStateChanged, for a client that declared it.
Notify(s) == told' = IF clientDeclared /\ ~identity THEN s ELSE told

\* Mutant: a change of health alone is not worth a notification.
ApplyReadinessOnly(prev, next) ==
  /\ tracked' = next
  /\ IF next.readiness # prev.readiness
       THEN Notify(next) /\ Releases(next)
       ELSE UNCHANGED <<told, gateVars>>

\* Tracker::apply, and what on_client and on_upstream do with its result.
Apply(prev, next) ==
  /\ tracked' = next
  /\ IF NotifiableChange(next, prev)
       THEN Notify(next) /\ Releases(next)
       ELSE UNCHANGED <<told, gateVars>>

\* A message that moves nothing of the tracker.
ReadsNothing == UNCHANGED <<trackerVars, told, gateVars>>

\* The mapping read state s, or nothing, from a message.
Reads(s) ==
  IF s = None THEN ReadsNothing
  ELSE Apply(tracked, s) /\ UNCHANGED <<mapping, namedUnknown>>

--------------------------------------------------------------------------------
(* on_client: the client sends a message and the loop handles it            *)

Running == loop = "running"

\* WatchedFiles::new: a first scan, if a root is in git.
StartStandIn(inGit) == standIn' = inGit /\ stale' = FALSE /\ untold' = FALSE

\* initialize.  A client may try again after an error.  The proxy stands in for a
\* client that does not watch files itself; nothing undoes that for a client that
\* tries again and does.
ClientInitialize(declares, progress, watches, inGit) ==
  /\ Running /\ client = "new"
  /\ client' = "asking"
  /\ initializeId' = TRUE
  /\ clientDeclared' = declares
  /\ clientProgress' = progress
  /\ IF watches THEN UNCHANGED diskVars ELSE StartStandIn(inGit)
  /\ toAnswer' = toAnswer \cup {"initialize"}
  /\ UNCHANGED <<trackerVars, handshakeDone, identity, identityState, queryPending, gateVars,
                 upstream, pipe, speaks, own, served, loop, told, relayed>>

\* initialized; then the proxy's own query of the state goes upstream.
ClientInitialized ==
  /\ Running /\ client = "up"
  /\ client' = "open"
  /\ queryPending' = FALSE
  /\ toAnswer' = IF queryPending THEN toAnswer \cup {"query"} ELSE toAnswer
  /\ UNCHANGED <<trackerVars, clientDeclared, clientProgress, initializeId, handshakeDone,
                 identity, identityState, gateVars, upstream, pipe, speaks, own, served,
                 diskVars, loop, told, relayed>>

\* experimental/serverState: answered here, or passed through to an upstream
\* that speaks the protocol.
ClientAsksState ==
  /\ Running /\ client \in {"up", "open"} /\ ~identity
  /\ told' = tracked
  /\ UNCHANGED <<trackerVars, sideVars, gateVars, upstreamVars, diskVars, loop, client, relayed>>

\* Mutant: the scan is done, but its result is sent along with a request only.
ScanToldWhenForwarded ==
  \/ UNCHANGED diskVars
  \/ /\ standIn /\ stale' = FALSE /\ UNCHANGED standIn
     /\ untold' = (untold /\ ~(stale /\ Decision(clientDeclared, Boundary) = "forward"))

\* changes_since_last_scan: the files that changed are told, unless git fails.
Scan ==
  \/ UNCHANGED diskVars
  \/ standIn /\ stale' = FALSE /\ untold' = (untold /\ ~stale) /\ UNCHANGED standIn

\* A cross-workspace request; any other is passed through.
ClientRequest(r) ==
  /\ Running /\ client = "open"
  /\ r \notin Ids(arrived)
  /\ Scan
  /\ arrived' = Append(arrived, r)
  /\ CASE Decision(clientDeclared, Boundary) = "forward" ->
            forwarded' = Append(forwarded, r) /\ UNCHANGED <<held, answers>>
       [] Decision(clientDeclared, Boundary) = "hold" ->
            held' = Append(held, r) /\ UNCHANGED <<forwarded, answers>>
       [] Decision(clientDeclared, Boundary) = "reject" ->
            /\ answers' = Append(answers, [id |-> r, code |-> RequestFailed])
            /\ UNCHANGED <<held, forwarded>>
  /\ UNCHANGED <<trackerVars, sideVars, upstreamVars, loop, client, told, relayed>>

\* Mutant: a request that was held is passed to the upstream as well.
CancelForwardsHeld(r) ==
  /\ Running
  /\ \E i \in DOMAIN held : IsFirst(held, i, r) /\ held' = Without(held, i)
  /\ answers' = Append(answers, [id |-> r, code |-> RequestCancelled])
  /\ forwarded' = Append(forwarded, r)
  /\ UNCHANGED <<arrived, trackerVars, sideVars, upstreamVars, diskVars,
                 loop, client, told, relayed>>

\* $/cancelRequest of a held request; any other is passed through.
ClientCancel(r) ==
  /\ Running
  /\ \E i \in DOMAIN held : IsFirst(held, i, r) /\ held' = Without(held, i)
  /\ answers' = Append(answers, [id |-> r, code |-> RequestCancelled])
  /\ UNCHANGED <<arrived, forwarded, trackerVars, sideVars, upstreamVars, diskVars,
                 loop, client, told, relayed>>

\* Any other notification, didOpen and didClose among them.  A mapping may
\* predict a state from it.  A client that sends didChangeWatchedFiles ends the
\* stand-in.
ClientNotifies(predicted, watchedFiles) ==
  /\ Running /\ client = "open"
  /\ predicted # None => mapping # None /\ ~identity
  /\ Reads(predicted)
  /\ IF watchedFiles THEN standIn' = FALSE /\ stale' = FALSE /\ untold' = FALSE
     ELSE UNCHANGED diskVars
  /\ UNCHANGED <<sideVars, upstreamVars, loop, client, relayed>>

\* Mutant: shutdown is passed through like any other request.
ShutdownKeepsHeld ==
  /\ Running /\ client \in {"up", "open"}
  /\ client' = "down"
  /\ UNCHANGED <<gateVars, trackerVars, sideVars, upstreamVars, diskVars, loop, told, relayed>>

\* shutdown: what is held is answered before it is passed through.
ClientShutdown ==
  /\ Running /\ client \in {"up", "open"}
  /\ client' = "down"
  /\ DrainGate(RequestFailed)
  /\ UNCHANGED <<trackerVars, sideVars, upstreamVars, diskVars, loop, told, relayed>>

\* ClientClosed and ClientReadError: the upstream is killed.
ClientCloses ==
  /\ Running
  /\ loop' = "clientGone"
  /\ upstream' = "dead"
  /\ UNCHANGED <<trackerVars, sideVars, gateVars, pipe, toAnswer, speaks, own, served,
                 diskVars, client, told, relayed>>

--------------------------------------------------------------------------------
(* on_upstream: the loop takes the next message of the upstream             *)

Take(kind) ==
  /\ Running
  /\ pipe # <<>> /\ Head(pipe).kind = kind
  /\ pipe' = Tail(pipe)
  /\ UNCHANGED <<upstream, toAnswer, speaks, own, served, loop, diskVars>>

\* Mutant: the way around the tracker is taken whatever the upstream is called.
DeafToEveryone == handshakeDone /\ ~identity /\ clientProgress

\* upstream_is_unmapped
Unmapped == mapping = None /\ namedUnknown

\* Nothing can be learnt from the messages of the upstream: they are not read.
Deaf == handshakeDone /\ ~identity /\ clientProgress /\ Unmapped

\* observe_upstream.  Without a mapping, a notification that announces a name
\* selects one; the state is placed and the notification read again.
Observe(name, signal) ==
  IF mapping # None THEN Reads(signal)
  ELSE IF name \notin Name THEN ReadsNothing
  ELSE /\ mapping' = name
       /\ UNCHANGED namedUnknown
       /\ IF signal = None
            THEN tracked' = InitialState[name] /\ UNCHANGED <<told, gateVars>>
            ELSE Apply(InitialState[name], signal)

OnNotification ==
  /\ Take("notification")
  /\ IF Deaf \/ identity THEN ReadsNothing
     ELSE Observe(Head(pipe).name, Head(pipe).signal)
  /\ UNCHANGED <<sideVars, client, relayed>>

OnResponse ==
  /\ Take("response")
  /\ relayed' = relayed \cup {Head(pipe).id}
  /\ UNCHANGED <<sideVars, trackerVars, gateVars, client, told>>

\* select_mapping: the name in the result of initialize.  The mapping that was
\* selected by the same name before keeps what it read.
SelectMapping(name) ==
  /\ namedUnknown' = (namedUnknown \/ (name = Stranger /\ mapping = None))
  /\ IF name \in Name /\ name # mapping
       THEN mapping' = name /\ tracked' = InitialState[name]
       ELSE UNCHANGED <<mapping, tracked>>

\* Mutant: the id of an initialize that failed is kept.
FailedInitializeKeepsId ==
  /\ Take("initializeResult")
  /\ SelectMapping(Head(pipe).name)
  /\ handshakeDone' = (Head(pipe).outcome # "error")
  /\ identity' = (Head(pipe).outcome = "declares")
  /\ queryPending' = (Head(pipe).outcome = "declares")
  /\ client' = IF Head(pipe).outcome = "error" THEN "new" ELSE "up"
  /\ told' = None
  /\ UNCHANGED <<initializeId, clientDeclared, clientProgress, identityState, gateVars, relayed>>

\* on_initialize_result, and the client that receives it.  A client that was told
\* something before starts from the answer.
OnInitializeResult ==
  /\ Take("initializeResult")
  /\ SelectMapping(Head(pipe).name)
  /\ handshakeDone' = (Head(pipe).outcome # "error")
  /\ identity' = (Head(pipe).outcome = "declares")
  /\ queryPending' = (Head(pipe).outcome = "declares")
  /\ initializeId' = (Head(pipe).outcome # "error")
  /\ client' = IF Head(pipe).outcome = "error" THEN "new" ELSE "up"
  /\ told' = None
  /\ UNCHANGED <<clientDeclared, clientProgress, identityState, gateVars, relayed>>

\* Mutant: the state is taken over and the gate is not told.
AdoptSilently(s) ==
  /\ identityState' = s
  /\ UNCHANGED gateVars
  /\ UNCHANGED <<trackerVars, clientDeclared, clientProgress, initializeId, handshakeDone,
                 identity, queryPending, client, relayed>>

\* adopt_identity_state
AdoptIdentityState(s) ==
  /\ identityState' = s
  /\ Releases(s)
  /\ UNCHANGED <<trackerVars, clientDeclared, clientProgress, initializeId, handshakeDone,
                 identity, queryPending, client, relayed>>

\* The answer to the proxy's own query, or an error (None).
OnQueryAnswer ==
  /\ Take("queryAnswer")
  /\ AdoptIdentityState(IF Head(pipe).state = None THEN Unobserved ELSE Head(pipe).state)
  /\ UNCHANGED told

\* Mutant: what a client did not subscribe to is not read either.
ServerStateChangedForSubscribers ==
  /\ Take("serverStateChanged")
  /\ IF clientDeclared
       THEN AdoptIdentityState(Head(pipe).state) /\ told' = Head(pipe).state
       ELSE ReadsNothing /\ UNCHANGED <<sideVars, client, relayed>>

\* The notification of an upstream that speaks the protocol.
OnServerStateChanged ==
  /\ Take("serverStateChanged")
  /\ AdoptIdentityState(Head(pipe).state)
  /\ told' = IF clientDeclared THEN Head(pipe).state ELSE told

--------------------------------------------------------------------------------
(* run: the end of the upstream                                             *)

\* close_pending: an initialize that was not answered gets an error, and so does
\* what is held.
ClosePending ==
  /\ loop' = "upstreamGone"
  /\ IF ~handshakeDone /\ initializeId
       THEN client' = "new" /\ initializeId' = FALSE
       ELSE UNCHANGED <<client, initializeId>>
  /\ DrainGate(InternalError)
  /\ UNCHANGED <<trackerVars, clientDeclared, clientProgress, handshakeDone, identity,
                 identityState, queryPending, pipe, toAnswer, speaks, own, served,
                 diskVars, told, relayed>>

\* Mutant: only the exit of the process counts as its end.
ClosedWhenExited ==
  /\ Running /\ pipe = <<>> /\ upstream = "dead"
  /\ UNCHANGED upstream
  /\ ClosePending

\* Mutant: an upstream that closed its stdout is left running.
ClosedNotReaped ==
  /\ Running /\ pipe = <<>> /\ upstream # "alive"
  /\ UNCHANGED upstream
  /\ ClosePending

\* UpstreamClosed: the reader came to the end of stdout.  reap waits a second for
\* the process and then kills it.
UpstreamClosed ==
  /\ Running /\ pipe = <<>> /\ upstream # "alive"
  /\ upstream' = "dead"
  /\ ClosePending

\* Timeout: the poll finds the process gone, whatever the reader still has.
UpstreamExited ==
  /\ Running /\ upstream = "dead"
  /\ UNCHANGED upstream
  /\ ClosePending

--------------------------------------------------------------------------------
(* The upstream language server                                             *)

Writes(m) ==
  /\ Running /\ upstream = "alive" /\ Len(pipe) < MaxPipe
  /\ pipe' = Append(pipe, m)
  /\ UNCHANGED <<upstream, trackerVars, sideVars, gateVars, diskVars, loop, client, told, relayed>>

AnswersInitialize(outcome, name) ==
  /\ "initialize" \in toAnswer
  /\ Writes([kind |-> "initializeResult", outcome |-> outcome,
             name |-> IF outcome = "error" THEN None ELSE name])
  /\ toAnswer' = toAnswer \ {"initialize"}
  /\ speaks' = (outcome = "declares")
  /\ UNCHANGED <<own, served>>

\* A notification: an announcement of its name, a signal of its state, or both.  A
\* server that was not asked to initialize says nothing.
Notifies(name, signal) ==
  /\ client # "new"
  /\ Writes([kind |-> "notification", name |-> name, signal |-> signal])
  /\ UNCHANGED <<toAnswer, speaks, own, served>>

ChangesState(s) ==
  /\ speaks /\ s # own
  /\ Writes([kind |-> "serverStateChanged", state |-> s])
  /\ own' = s
  /\ UNCHANGED <<toAnswer, speaks, served>>

\* An upstream that cannot answer the query has told nothing of its state.
AnswersQuery(readable) ==
  /\ "query" \in toAnswer
  /\ Writes([kind |-> "queryAnswer", state |-> IF readable THEN own ELSE None])
  /\ toAnswer' = toAnswer \ {"query"}
  /\ own' = IF readable THEN own ELSE Unobserved
  /\ UNCHANGED <<speaks, served>>

Responds(r) ==
  /\ r \in Ids(forwarded) \ served
  /\ Writes([kind |-> "response", id |-> r])
  /\ served' = served \cup {r}
  /\ UNCHANGED <<toAnswer, speaks, own>>

\* It closes its stdout, or exits (a child of it may keep the pipe open).
Ends(how) ==
  /\ upstream = "alive" \/ (upstream = "mute" /\ how = "dead")
  /\ upstream' = how
  /\ UNCHANGED <<pipe, toAnswer, speaks, own, served, trackerVars, sideVars, gateVars, diskVars,
                 loop, client, told, relayed>>

--------------------------------------------------------------------------------

\* Files change on disk.
DiskChanges ==
  /\ standIn /\ client = "open"
  /\ stale' = TRUE /\ untold' = TRUE
  /\ UNCHANGED <<standIn, trackerVars, sideVars, gateVars, upstreamVars, loop, client, told, relayed>>

ClientNext ==
  \/ \E declares, progress, inGit \in BOOLEAN, watches \in Watching :
       ClientInitialize(declares, progress, watches, inGit)
  \/ ClientInitialized
  \/ ClientAsksState
  \/ \E r \in Request : ClientRequest(r) \/ ClientCancel(r)
  \/ \E predicted \in Signal \cup {None}, watchedFiles \in BOOLEAN :
       ClientNotifies(predicted, watchedFiles)
  \/ ClientShutdown
  \/ ClientCloses

OnUpstream ==
  \/ OnNotification
  \/ OnResponse
  \/ OnInitializeResult
  \/ OnQueryAnswer
  \/ OnServerStateChanged

UpstreamGone == UpstreamClosed \/ UpstreamExited

UpstreamNext ==
  \/ \E outcome \in OutcomesOfInitialize, name \in Name \cup {None, Stranger} :
       AnswersInitialize(outcome, name)
  \/ \E name \in Name \cup {None}, signal \in Signal \cup {None} : Notifies(name, signal)
  \/ \E s \in Signal : ChangesState(s)
  \/ \E readable \in BOOLEAN : AnswersQuery(readable)
  \/ \E r \in Request : Responds(r)
  \/ \E how \in {"mute", "dead"} : Ends(how)

Next == ClientNext \/ OnUpstream \/ UpstreamGone \/ UpstreamNext \/ DiskChanges

Spec == Init /\ [][Next]_vars

\* The loop takes what comes: the channel is a queue, so neither side can keep the
\* other's messages waiting for ever.  The end of the upstream's stdout is in that
\* queue too; the poll comes round once both sides pause for 20 ms.
FairSpec == Spec /\ WF_vars(OnUpstream) /\ WF_vars(UpstreamGone)

--------------------------------------------------------------------------------
(* Safety                                                                   *)

\* The relay keeps to what the gate expects of its caller: it never moves the
\* state behind the back of held requests, it never changes who decides while it
\* holds, and it calls on_state for every change.
TheGate == INSTANCE Gate WITH state <- Boundary, clientDecides <- clientDeclared

ImplementsGate == TheGate!Spec

\* A request has one response at most: the upstream's, or the gate's.
OneResponse ==
  /\ \A i, j \in DOMAIN answers : answers[i].id = answers[j].id => i = j
  /\ AnsweredIds \cap (relayed \cup served) = {}

\* While requests are held, somebody can release them: there is a mapping or the
\* upstream speaks, and what the upstream says is read.
SomeoneListens ==
  held # <<>> => (mapping # None \/ identity) /\ ~Deaf /\ handshakeDone

\* A client that subscribed and was told a state is told every change of it: what
\* it knows differs from the tracked state only if a mapping was selected since
\* and has read nothing yet.
ClientKnows ==
  handshakeDone /\ clientDeclared /\ ~identity /\ told # None
    => \/ told = tracked
       \/ told = Unobserved /\ mapping # None /\ tracked = InitialState[mapping]

\* A message of one of these kinds is on its way to the proxy.
InPipe(kinds) == \E i \in DOMAIN pipe : pipe[i].kind \in kinds

\* Once the query of the proxy is answered, the boundary has the state the upstream
\* last told, be the client a subscriber or not.
FollowsUpstream ==
  ( /\ identity /\ client \in {"open", "down"} /\ "query" \notin toAnswer
    /\ ~InPipe({"queryAnswer", "serverStateChanged"}) )
  => identityState = own

\* An id of initialize is kept for as long as it is not answered: it is answered
\* once, by the upstream or when the upstream is gone.
InitializeAnsweredOnce ==
  initializeId /\ ~handshakeDone => client = "asking"

\* When the relay stops, no upstream process is left behind; and when the upstream
\* was lost, neither initialize nor a held request is left without a response.
StopsClean ==
  /\ loop # "running" => upstream = "dead"
  /\ loop = "upstreamGone" => held = <<>> /\ client # "asking"

\* Behind a shutdown the server gets nothing of the proxy's own any more: no held
\* request that a late signal releases, no query of its state.
QuietAfterShutdown ==
  [][client = "down" => forwarded' = forwarded /\ toAnswer' \subseteq toAnswer]_vars

\* A change of files is told to the upstream, or will be found by the next scan.
NoChangeLost == standIn /\ untold => stale

--------------------------------------------------------------------------------
(* Liveness                                                                 *)

\* A state that ends the waiting is on its way to the proxy.
SignalInPipe ==
  \E i \in DOMAIN pipe :
    \/ /\ pipe[i].kind = "notification" /\ ~identity
       /\ pipe[i].signal # None /\ ~WorthWaiting(pipe[i].signal)
    \/ pipe[i].kind = "serverStateChanged" /\ ~WorthWaiting(pipe[i].state)
    \/ pipe[i].kind = "queryAnswer" /\ (pipe[i].state = None \/ ~WorthWaiting(pipe[i].state))

\* A request that is held when the signal to release it is on its way does not
\* stay held.
HeldReleased ==
  \A r \in Request : (r \in Ids(held) /\ SignalInPipe) ~> (r \notin Ids(held) \/ loop # "running")

\* The loss of the upstream stops the relay, and nothing it still had to answer
\* stays without a response: what it holds, and a pending initialize.
LossStops ==
  (upstream # "alive") ~> (loop # "running")

================================================================================
