------------------------------ MODULE ProxyProofs ------------------------------
(***************************************************************************)
(* What is true of the relay for every set of requests, names, mappings and*)
(* signals, and however many messages of the upstream wait.                *)
(*                                                                         *)
(* The inductive invariant RelayInv says where the handshake is, which     *)
(* messages of the upstream can be on their way at that point of it, and   *)
(* under what conditions the gate holds something.  It follows that the    *)
(* relay uses the gate correctly (RelayImplementsGate), and so that what   *)
(* GateProofs proves of the gate is true inside the relay.                 *)
(***************************************************************************)
EXTENDS Proxy, GateRulesProofs

\* The gate, with what is proved of it.
G == INSTANCE GateProofs WITH state <- Boundary, clientDecides <- clientDeclared

\* The operators of the gate module and those of the relay are the same.
LEMMA Vocabulary ==
  /\ G!ServerStates = ServerStates
  /\ G!Unobserved = Unobserved
  /\ \A q, s : G!Release(q, s) = Release(q, s)
  /\ \A d, s : G!Decision(d, s) = Decision(d, s)
  /\ \A s : G!WorthWaiting(s) <=> WorthWaiting(s)
  /\ \A q, code : G!Refusals(q, code) = Refusals(q, code)
  /\ \A q : G!Ids(q) = Ids(q)
  /\ \A q, i : G!Without(q, i) = Without(q, i)
  /\ \A q, i, id : G!IsFirst(q, i, id) <=> IsFirst(q, i, id)
  /\ G!RequestFailed = RequestFailed /\ G!RequestCancelled = RequestCancelled
  /\ G!InternalError = InternalError /\ G!ErrorCodes = ErrorCodes
<1>1. G!ServerStates = ServerStates
  BY DEF G!ServerStates, ServerStates, G!Health, Health, G!Readiness, Readiness
<1>2. G!Unobserved = Unobserved
  BY DEF G!Unobserved, Unobserved
<1>4. \A d, s : G!Decision(d, s) = Decision(d, s)
  BY DEF G!Decision, Decision, G!Verdict, Verdict
<1>5. \A s : G!WorthWaiting(s) <=> WorthWaiting(s)
  BY DEF G!WorthWaiting, WorthWaiting
<1>6. \A q, code : G!Refusals(q, code) = Refusals(q, code)
  BY DEF G!Refusals, Refusals
<1>7. \A q : G!Ids(q) = Ids(q)
  BY DEF G!Ids, Ids
<1>8. \A q, i : G!Without(q, i) = Without(q, i)
  BY DEF G!Without, Without
<1>9. \A q, i, id : G!IsFirst(q, i, id) <=> IsFirst(q, i, id)
  BY DEF G!IsFirst, IsFirst
<1>10. G!RequestFailed = RequestFailed /\ G!RequestCancelled = RequestCancelled
  /\ G!InternalError = InternalError /\ G!ErrorCodes = ErrorCodes
  BY DEF G!RequestFailed, RequestFailed, G!RequestCancelled, RequestCancelled, 
      G!InternalError, InternalError, G!ErrorCodes, ErrorCodes
<1>3. \A q, s : G!Release(q, s) = Release(q, s)
  BY DEF G!Release, Release, G!NothingReleased, NothingReleased, G!Verdict, Verdict,
         G!Refusals, Refusals, G!RequestFailed, RequestFailed
<1> QED BY <1>1, <1>2, <1>3, <1>4, <1>5, <1>6, <1>7, <1>8, <1>9, <1>10

--------------------------------------------------------------------------------
(* The queue of the upstream's messages                                     *)

\* What a message carries depends on its kind.
LEMMA MessageFields ==
  ASSUME NEW m \in Messages
  PROVE  /\ m.kind \in {"initializeResult", "notification", "serverStateChanged",
                        "queryAnswer", "response"}
         /\ m.kind = "initializeResult" =>
              m.outcome \in OutcomesOfInitialize /\ m.name \in Name \cup {None, Stranger}
         /\ m.kind = "notification" =>
              m.name \in Name \cup {None} /\ m.signal \in Signal \cup {None}
         /\ m.kind = "serverStateChanged" => m.state \in Signal
         /\ m.kind = "queryAnswer" => m.state \in Signal \cup {Initializing, None}
         /\ m.kind = "response" => m.id \in Request
BY DEF Messages

\* Taking the next message shifts the others.
LEMMA Taken ==
  ASSUME pipe \in Seq(Messages), NEW kind, Take(kind)
  PROVE  /\ Len(pipe) \in Nat /\ Len(pipe) >= 1
         /\ Head(pipe) = pipe[1] /\ pipe[1] \in Messages /\ pipe[1].kind = kind
         /\ pipe' \in Seq(Messages) /\ Len(pipe') = Len(pipe) - 1
         /\ \A i \in 1..Len(pipe') : i + 1 \in 1..Len(pipe) /\ pipe'[i] = pipe[i + 1]
<1>1. pipe # <<>> /\ Head(pipe).kind = kind /\ pipe' = Tail(pipe)
  BY DEF Take
<1>2. Len(pipe) \in Nat /\ Len(pipe) # 0
  BY <1>1, EmptySeq
<1>3. 1 \in 1..Len(pipe) /\ Head(pipe) = pipe[1]
  BY <1>1, <1>2, HeadTailProperties
<1>4. pipe[1] \in Messages
  BY <1>3, ElementOfSeq
<1>5. /\ pipe' \in Seq(Messages) /\ Len(pipe') = Len(pipe) - 1
      /\ \A i \in 1..Len(pipe') : pipe'[i] = pipe[i + 1]
  BY <1>1, <1>2, HeadTailProperties
<1>6. \A i \in 1..Len(pipe') : i + 1 \in 1..Len(pipe)
  BY <1>2, <1>5
<1> QED
  BY <1>1, <1>2, <1>3, <1>4, <1>5, <1>6

\* Writing a message keeps those that wait, in their places.
LEMMA Written ==
  ASSUME pipe \in Seq(Messages), NEW m \in Messages, Writes(m)
  PROVE  /\ Len(pipe) \in Nat
         /\ pipe' \in Seq(Messages) /\ Len(pipe') = Len(pipe) + 1 /\ Len(pipe') <= MaxPipe
         /\ \A i \in 1..Len(pipe) : pipe'[i] = pipe[i]
         /\ pipe'[Len(pipe) + 1] = m
<1>1. pipe' = Append(pipe, m) /\ Len(pipe) < MaxPipe
  BY DEF Writes
<1>2. Len(pipe) \in Nat
  OBVIOUS
<1>3. MaxPipe \in Nat
  BY Constants
<1> QED
  BY <1>1, <1>2, <1>3, AppendProperties

--------------------------------------------------------------------------------
(* The inductive invariant                                                  *)

\* TypeOK with what it leaves open: the queues of the gate are sequences.
Typed ==
  /\ mapping \in Name \cup {None}
  /\ tracked \in ServerStates /\ identityState \in ServerStates
  /\ namedUnknown \in BOOLEAN /\ clientDeclared \in BOOLEAN /\ clientProgress \in BOOLEAN
  /\ initializeId \in BOOLEAN /\ handshakeDone \in BOOLEAN /\ identity \in BOOLEAN
  /\ queryPending \in BOOLEAN /\ standIn \in BOOLEAN /\ speaks \in BOOLEAN
  /\ stale \in BOOLEAN /\ untold \in BOOLEAN
  /\ loop \in {"running", "upstreamGone", "clientGone"}
  /\ client \in {"new", "asking", "up", "open", "down"}
  /\ told \in ServerStates \cup {None}
  /\ own \in Signal \cup {Initializing, Unobserved}
  /\ upstream \in {"alive", "mute", "dead"}
  /\ toAnswer \subseteq {"initialize", "query"}
  /\ pipe \in Seq(Messages) /\ Len(pipe) <= MaxPipe
  /\ held \in Seq(Request) /\ arrived \in Seq(Request) /\ forwarded \in Seq(Request)
  /\ answers \in Seq([id : Request, code : ErrorCodes])
  /\ served \subseteq Request /\ relayed \subseteq Request

\* What the proxy remembers of the handshake is where the client is in it.
Stage ==
  /\ handshakeDone <=> client \in {"up", "open", "down"}
  /\ initializeId <=> client # "new"
  /\ identity => handshakeDone
  /\ client = "up" => (queryPending <=> identity)

\* Message i answers initialize.
AnswersHandshake(i) == pipe[i].kind = "initializeResult"

\* An answer to initialize is due, or on its way, only while the client asks for
\* it, and once.
OneHandshake ==
  /\ "initialize" \in toAnswer \/ (\E i \in 1..Len(pipe) : AnswersHandshake(i))
       => ~handshakeDone /\ (Running => client = "asking")
  /\ "initialize" \in toAnswer => \A i \in 1..Len(pipe) : ~AnswersHandshake(i)
  /\ \A i, j \in 1..Len(pipe) : AnswersHandshake(i) /\ AnswersHandshake(j) => i = j

\* Message i declares that the upstream speaks the protocol.
Declares(i) == AnswersHandshake(i) /\ pipe[i].outcome = "declares"

\* Message i tells the state of an upstream that speaks the protocol.
TellsState(i) == pipe[i].kind \in {"queryAnswer", "serverStateChanged"}

\* Whoever speaks the protocol has declared it before, and the declaration is read
\* first.
DeclaredFirst ==
  /\ speaks => identity \/ \E j \in 1..Len(pipe) : Declares(j)
  /\ "query" \in toAnswer => identity /\ client \in {"open", "down"}
  /\ \A i \in 1..Len(pipe) : TellsState(i) => identity \/ \E j \in 1..(i - 1) : Declares(j)

\* The upstream cannot read its own state only if it could not when it was asked.
OwnState ==
  \/ own \in Signal \cup {Initializing}
  \/ "query" \notin toAnswer /\ client \in {"open", "down"}

\* Without a mapping nothing was observed.
NothingObserved == mapping = None => tracked = Unobserved

\* The gate holds for a client that is up, and while waiting makes sense.
HeldOpen ==
  held # <<>> => client = "open" /\ ~clientDeclared /\ WorthWaiting(Boundary)

\* The inductive invariant.
RelayInv ==
  /\ Typed /\ Stage /\ OneHandshake /\ DeclaredFirst
  /\ OwnState /\ NothingObserved /\ HeldOpen

--------------------------------------------------------------------------------
(* The relay is a correct caller of the gate                                *)

\* The states that the messages and the mappings name are states.
LEMMA States ==
  /\ Signal \subseteq ServerStates
  /\ Initializing \in ServerStates /\ Unobserved \in ServerStates
  /\ \A n \in Name : InitialState[n] \in ServerStates
  /\ ~WorthWaiting(Unobserved)
  /\ None \notin ServerStates
  /\ None \notin Name /\ Stranger \notin Name
  BY Constants DEF Initializing, Unobserved, ServerStates, Health, Readiness, WorthWaiting

\* A change that is not worth a notification is none.
LEMMA NoChange ==
  ASSUME NEW next \in ServerStates, NEW prev \in ServerStates, ~NotifiableChange(next, prev)
  PROVE  next = prev
  BY DEF NotifiableChange, ServerStates

\* Without a mapping and an upstream that speaks, nothing is held.
LEMMA NothingHeld ==
  RelayInv /\ mapping = None /\ ~identity => held = <<>>
  BY States DEF RelayInv, NothingObserved, HeldOpen, Boundary

\* What the gate sees.
GateVars == <<Boundary, clientDeclared, held, arrived, forwarded, answers>>

\* What moves none of these does not touch the gate.
LEMMA QuietForGate == UNCHANGED GateVars => UNCHANGED G!vars
  BY DEF GateVars, G!vars

\* The gate is told of a state that moved.
LEMMA GateOnState ==
  ASSUME NEW s \in ServerStates, Releases(s), Boundary' = s, UNCHANGED clientDeclared
  PROVE  G!Next
<1>1. G!OnState(s)
  BY Vocabulary DEF G!OnState, Releases
<1> QED
  BY <1>1, Vocabulary DEF G!Next

\* The state moves while nothing is held.
LEMMA GatePlace ==
  ASSUME NEW s \in ServerStates, held = <<>>, Boundary' = s, UNCHANGED clientDeclared,
         UNCHANGED gateVars
  PROVE  G!Next
<1>1. G!Place(s)
  BY DEF G!Place, gateVars
<1> QED
  BY <1>1, Vocabulary DEF G!Next

\* Everything that is held is refused.
LEMMA GateDrain ==
  ASSUME NEW code \in {RequestFailed, InternalError}, DrainGate(code), UNCHANGED Boundary,
         UNCHANGED clientDeclared
  PROVE  G!Next
<1>1. G!Drain(code)
  BY Vocabulary DEF G!Drain, DrainGate
<1>2. code \in G!ErrorCodes
  BY Vocabulary DEF ErrorCodes
<1> QED
  BY <1>1, <1>2 DEF G!Next

\* Reading a state from a message tells the gate of it, or changes nothing.
LEMMA GateReads ==
  ASSUME RelayInv, NEW s \in Signal \cup {None}, Reads(s), s # None => ~identity,
         UNCHANGED <<identity, identityState, clientDeclared>>
  PROVE  [G!Next]_(G!vars)
<1>0. tracked \in ServerStates
  BY DEF RelayInv, Typed
<1>1. CASE s = None
  <2>1. UNCHANGED GateVars
    BY <1>1 DEF Reads, ReadsNothing, trackerVars, gateVars, GateVars, Boundary
  <2> QED
    BY <2>1, QuietForGate
<1>2. CASE s # None
  <2>0. s \in ServerStates /\ Boundary' = s /\ Boundary = tracked /\ tracked' = s
    BY <1>2, States DEF Reads, Apply, Boundary
  <2>1. CASE NotifiableChange(s, tracked)
    <3>1. Releases(s)
      BY <1>2, <2>1 DEF Reads, Apply
    <3> QED
      BY <2>0, <3>1, GateOnState
  <2>2. CASE ~NotifiableChange(s, tracked)
    <3>1. s = tracked
      BY <1>0, <2>0, <2>2, NoChange
    <3>2. UNCHANGED gateVars
      BY <1>2, <2>2 DEF Reads, Apply
    <3>3. UNCHANGED GateVars
      BY <2>0, <3>1, <3>2 DEF GateVars, gateVars
    <3> QED
      BY <3>3, QuietForGate
  <2> QED
    BY <2>1, <2>2
<1> QED
  BY <1>1, <1>2

\* A mapping is selected by an announcement only while nothing is held.
LEMMA GateObserves ==
  ASSUME RelayInv, ~identity, NEW name \in Name \cup {None}, NEW signal \in Signal \cup {None},
         Observe(name, signal), UNCHANGED <<identity, identityState, clientDeclared>>
  PROVE  [G!Next]_(G!vars)
<1>1. CASE mapping # None
  BY <1>1, GateReads DEF Observe
<1>2. CASE mapping = None /\ name \notin Name
  <2>1. UNCHANGED GateVars
    BY <1>2 DEF Observe, ReadsNothing, trackerVars, gateVars, GateVars, Boundary
  <2> QED
    BY <2>1, QuietForGate
<1>3. CASE mapping = None /\ name \in Name
  <2>0. held = <<>> /\ InitialState[name] \in ServerStates
    BY <1>3, NothingHeld, States
  <2>1. CASE signal = None
    <3>1. Boundary' = InitialState[name] /\ UNCHANGED gateVars
      BY <1>3, <2>1 DEF Observe, Boundary
    <3> QED
      BY <2>0, <3>1, GatePlace
  <2>2. CASE signal # None
    <3>0. signal \in ServerStates /\ Boundary' = signal /\ Apply(InitialState[name], signal)
      BY <1>3, <2>2, States DEF Observe, Apply, Boundary
    <3>1. CASE NotifiableChange(signal, InitialState[name])
      <4>1. Releases(signal)
        BY <3>0, <3>1 DEF Apply
      <4> QED
        BY <3>0, <4>1, GateOnState
    <3>2. CASE ~NotifiableChange(signal, InitialState[name])
      <4>1. UNCHANGED gateVars
        BY <3>0, <3>2 DEF Apply
      <4> QED
        BY <2>0, <3>0, <4>1, GatePlace
    <3> QED
      BY <3>1, <3>2
  <2> QED
    BY <2>1, <2>2
<1> QED
  BY <1>1, <1>2, <1>3

\* An upstream that tells its state speaks the protocol: its state is the one on
\* the boundary.
LEMMA GateAdopts ==
  ASSUME RelayInv, NEW s \in ServerStates, AdoptIdentityState(s), identity
  PROVE  [G!Next]_(G!vars)
<1>1. Releases(s) /\ Boundary' = s /\ UNCHANGED clientDeclared
  BY DEF AdoptIdentityState, Boundary
<1> QED
  BY <1>1, GateOnState

\* Every step of the client's side is a step of the gate, or does not touch it.
LEMMA GateClientStep == RelayInv /\ ClientNext => [G!Next]_(G!vars)
<1> SUFFICES ASSUME RelayInv, ClientNext
             PROVE  [G!Next]_(G!vars)
  OBVIOUS
<1> USE DEF sideVars, trackerVars, gateVars
<1>0. RelayInv
  OBVIOUS
<1>1. ASSUME NEW declares \in BOOLEAN, NEW progress \in BOOLEAN, NEW inGit \in BOOLEAN,
             NEW watches \in Watching, ClientInitialize(declares, progress, watches, inGit)
      PROVE  [G!Next]_(G!vars)
  <2>1. held = <<>>
    BY <1>1 DEF RelayInv, HeldOpen, ClientInitialize
  <2>2. G!AsksToDecide(declares)
    BY <1>1, <2>1 DEF G!AsksToDecide, ClientInitialize, Boundary
  <2> QED
    BY <2>2 DEF G!Next
<1>2. CASE ClientInitialized
  BY <1>2, QuietForGate DEF ClientInitialized, GateVars, Boundary
<1>3. CASE ClientAsksState
  BY <1>3, QuietForGate DEF ClientAsksState, GateVars, Boundary
<1>4. ASSUME NEW r \in Request, ClientRequest(r)
      PROVE  [G!Next]_(G!vars)
  <2>1. G!OnRequest(r)
    BY <1>4, Vocabulary DEF G!OnRequest, G!Fresh, ClientRequest, Boundary
  <2> QED
    BY <2>1 DEF G!Next
<1>5. ASSUME NEW r \in Request, ClientCancel(r)
      PROVE  [G!Next]_(G!vars)
  <2>1. G!OnCancel(r)
    BY <1>5, Vocabulary DEF G!OnCancel, ClientCancel, Boundary
  <2> QED
    BY <2>1 DEF G!Next
<1>6. ASSUME NEW predicted \in Signal \cup {None}, NEW watchedFiles \in BOOLEAN,
             ClientNotifies(predicted, watchedFiles)
      PROVE  [G!Next]_(G!vars)
  <2>1. /\ Reads(predicted)
        /\ predicted # None => ~identity
        /\ UNCHANGED <<identity, identityState, clientDeclared>>
    BY <1>6 DEF ClientNotifies
  <2> QED
    BY <1>0, <2>1, GateReads
<1>7. CASE ClientShutdown
  <2>1. /\ DrainGate(RequestFailed) /\ UNCHANGED Boundary /\ UNCHANGED clientDeclared
    BY <1>7 DEF ClientShutdown, Boundary
  <2> QED
    BY <2>1, GateDrain
<1>8. CASE ClientCloses
  BY <1>8, QuietForGate DEF ClientCloses, GateVars, Boundary
<1> QED
  BY <1>1, <1>2, <1>3, <1>4, <1>5, <1>6, <1>7, <1>8 DEF ClientNext

\* Every message of the upstream is a step of the gate, or does not touch it.
LEMMA GateUpstreamStep == RelayInv /\ OnUpstream => [G!Next]_(G!vars)
<1> SUFFICES ASSUME RelayInv, OnUpstream
             PROVE  [G!Next]_(G!vars)
  OBVIOUS
<1> USE DEF sideVars, trackerVars, gateVars
<1>0. pipe \in Seq(Messages) /\ RelayInv
  BY DEF RelayInv, Typed
<1>1. CASE OnNotification
  <2>1. /\ Head(pipe).name \in Name \cup {None} /\ Head(pipe).signal \in Signal \cup {None}
        /\ UNCHANGED <<identity, identityState, clientDeclared>>
    <3>1. Head(pipe) \in Messages /\ Head(pipe).kind = "notification"
      BY <1>0, <1>1, Taken DEF OnNotification
    <3> QED
      BY <1>1, <3>1, MessageFields DEF OnNotification
  <2>2. CASE Deaf \/ identity
    BY <1>1, <2>2, QuietForGate DEF OnNotification, ReadsNothing, GateVars, Boundary
  <2>3. CASE ~(Deaf \/ identity)
    <3>1. Observe(Head(pipe).name, Head(pipe).signal)
      BY <1>1, <2>3 DEF OnNotification
    <3> QED
      BY <1>0, <2>1, <2>3, <3>1, GateObserves
  <2> QED
    BY <2>2, <2>3
<1>2. CASE OnResponse
  BY <1>2, QuietForGate DEF OnResponse, GateVars, Boundary
<1>3. CASE OnInitializeResult
  <2>1. /\ Len(pipe) \in Nat /\ Len(pipe) >= 1 /\ AnswersHandshake(1)
        /\ Head(pipe) \in Messages /\ Head(pipe).kind = "initializeResult" /\ Running
    BY <1>0, <1>3, Taken DEF OnInitializeResult, AnswersHandshake, Take
  <2>2. client = "asking"
    BY <2>1 DEF RelayInv, OneHandshake
  <2>3. held = <<>>
    BY <2>2 DEF RelayInv, HeldOpen
  <2>4. tracked' \in ServerStates /\ identityState' \in ServerStates
    BY <1>3, States DEF OnInitializeResult, SelectMapping, RelayInv, Typed
  <2>5. Boundary' \in ServerStates /\ UNCHANGED gateVars /\ UNCHANGED clientDeclared
    BY <1>3, <2>4 DEF OnInitializeResult, Boundary
  <2> QED
    BY <2>3, <2>5, GatePlace
<1>4. CASE OnQueryAnswer \/ OnServerStateChanged
  <2>1. PICK s \in ServerStates : AdoptIdentityState(s)
    <3>1. CASE OnQueryAnswer
      <4>1. Head(pipe) \in Messages /\ Head(pipe).kind = "queryAnswer"
        BY <1>0, <3>1, Taken DEF OnQueryAnswer
      <4>2. Head(pipe).state \in Signal \cup {Initializing, None}
        BY <4>1, MessageFields
      <4> QED
        BY <3>1, <4>2, States DEF OnQueryAnswer
    <3>2. CASE OnServerStateChanged
      <4>1. Head(pipe) \in Messages /\ Head(pipe).kind = "serverStateChanged"
        BY <1>0, <3>2, Taken DEF OnServerStateChanged
      <4>2. Head(pipe).state \in Signal
        BY <4>1, MessageFields
      <4> QED
        BY <3>2, <4>2, States DEF OnServerStateChanged
    <3> QED
      BY <1>4, <3>1, <3>2
  <2>2. identity
    <3>1. 1 \in 1..Len(pipe) /\ TellsState(1)
      BY <1>0, <1>4, Taken DEF OnQueryAnswer, OnServerStateChanged, TellsState
    <3> QED
      BY <3>1 DEF RelayInv, DeclaredFirst
  <2> QED
    BY <1>0, <2>1, <2>2, GateAdopts
<1> QED
  BY <1>1, <1>2, <1>3, <1>4 DEF OnUpstream

\* The relay does with the gate only what the gate expects of its caller.
LEMMA GateStep == RelayInv /\ [Next]_vars => [G!Next]_(G!vars)
<1> SUFFICES ASSUME RelayInv, [Next]_vars
             PROVE  [G!Next]_(G!vars)
  OBVIOUS
<1> USE DEF sideVars, trackerVars, gateVars
<1>1. CASE UpstreamGone
  <2>1. DrainGate(InternalError) /\ UNCHANGED Boundary /\ UNCHANGED clientDeclared
    BY <1>1 DEF UpstreamGone, UpstreamClosed, UpstreamExited, ClosePending, Boundary
  <2> QED
    BY <2>1, GateDrain
<1>2. CASE UpstreamNext
  <2>1. \A m : Writes(m) => UNCHANGED GateVars
    BY DEF Writes, GateVars, Boundary
  <2>2. \A how : Ends(how) => UNCHANGED GateVars
    BY DEF Ends, GateVars, Boundary
  <2>3. UNCHANGED GateVars
    BY <1>2, <2>1, <2>2 DEF UpstreamNext, AnswersInitialize, Notifies, ChangesState,
                            AnswersQuery, Responds
  <2> QED
    BY <2>3, QuietForGate
<1>3. CASE DiskChanges
  BY <1>3, QuietForGate DEF DiskChanges, GateVars, Boundary
<1>4. CASE UNCHANGED vars
  BY <1>4, QuietForGate DEF vars, GateVars, Boundary
<1> QED
  BY <1>1, <1>2, <1>3, <1>4, GateClientStep, GateUpstreamStep DEF Next

--------------------------------------------------------------------------------
(* Type correctness                                                         *)

\* The types of what the gate sees, of the messages, and of the rest.
GateTyped ==
  /\ clientDeclared \in BOOLEAN
  /\ held \in Seq(Request) /\ arrived \in Seq(Request) /\ forwarded \in Seq(Request)
  /\ answers \in Seq([id : Request, code : ErrorCodes])

\* The gate of a relay that is typed is typed.
LEMMA BoundaryTyped == Typed => G!TypeOK
  BY Vocabulary DEF Typed, G!TypeOK, Boundary

\* Every step of the relay keeps the queues of its gate in their types.
LEMMA GateTypedStep == RelayInv /\ [Next]_vars => G!TypeOK' /\ GateTyped'
<1>1. RelayInv /\ [Next]_vars => G!TypeOK'
  BY BoundaryTyped, GateStep, G!TypeStep DEF RelayInv
<1>2. G!TypeOK' => GateTyped'
  BY Vocabulary DEF G!TypeOK, GateTyped
<1> QED
  BY <1>1, <1>2

\* What is not of the gate, not of the queue of messages.
RestTyped ==
  /\ mapping \in Name \cup {None}
  /\ tracked \in ServerStates /\ identityState \in ServerStates
  /\ namedUnknown \in BOOLEAN /\ clientProgress \in BOOLEAN
  /\ initializeId \in BOOLEAN /\ handshakeDone \in BOOLEAN /\ identity \in BOOLEAN
  /\ queryPending \in BOOLEAN /\ standIn \in BOOLEAN /\ speaks \in BOOLEAN
  /\ stale \in BOOLEAN /\ untold \in BOOLEAN
  /\ loop \in {"running", "upstreamGone", "clientGone"}
  /\ client \in {"new", "asking", "up", "open", "down"}
  /\ told \in ServerStates \cup {None}
  /\ own \in Signal \cup {Initializing, Unobserved}
  /\ upstream \in {"alive", "mute", "dead"}
  /\ toAnswer \subseteq {"initialize", "query"}
  /\ served \subseteq Request /\ relayed \subseteq Request

\* The types of the messages that wait.
PipeTyped == pipe \in Seq(Messages) /\ Len(pipe) <= MaxPipe

\* The parts of Typed.
LEMMA TypedParts == Typed <=> GateTyped /\ RestTyped /\ PipeTyped
  BY DEF Typed, GateTyped, RestTyped, PipeTyped

\* A state that is read is a state.
LEMMA ReadsTyped ==
  ASSUME Typed, NEW s \in Signal \cup {None}, Reads(s)
  PROVE  /\ mapping' \in Name \cup {None} /\ namedUnknown' \in BOOLEAN
         /\ tracked' \in ServerStates /\ told' \in ServerStates \cup {None}
  BY States DEF Typed, Reads, ReadsNothing, Apply, Notify, trackerVars

\* A mapping that is selected is one, with a state.
LEMMA ObserveTyped ==
  ASSUME Typed, NEW name \in Name \cup {None}, NEW signal \in Signal \cup {None},
         Observe(name, signal)
  PROVE  /\ mapping' \in Name \cup {None} /\ namedUnknown' \in BOOLEAN
         /\ tracked' \in ServerStates /\ told' \in ServerStates \cup {None}
<1>1. CASE mapping # None
  BY <1>1, ReadsTyped DEF Observe
<1>2. CASE mapping = None
  BY <1>2, States DEF Typed, Observe, ReadsNothing, Apply, Notify, trackerVars
<1> QED
  BY <1>1, <1>2

\* Typing, for a message of the client.
LEMMA ClientTypedStep == RelayInv /\ ClientNext => RestTyped'
<1> SUFFICES ASSUME RelayInv, ClientNext
             PROVE  RestTyped'
  OBVIOUS
<1> USE DEF sideVars, trackerVars, gateVars, upstreamVars, diskVars
<1>0. Typed /\ RestTyped
  BY TypedParts DEF RelayInv
<1>1. ASSUME NEW declares \in BOOLEAN, NEW progress \in BOOLEAN, NEW inGit \in BOOLEAN,
             NEW watches \in Watching, ClientInitialize(declares, progress, watches, inGit)
      PROVE  RestTyped'
  <2>1. standIn' \in BOOLEAN /\ stale' \in BOOLEAN /\ untold' \in BOOLEAN
    <3>1. CASE watches
      BY <1>0, <1>1, <3>1 DEF RestTyped, ClientInitialize
    <3>2. CASE ~watches
      BY <1>1, <3>2 DEF ClientInitialize, StartStandIn
    <3> QED
      BY <3>1, <3>2
  <2>2. initializeId' = TRUE /\ clientProgress' = progress /\ client' = "asking"
        /\ toAnswer' = toAnswer \cup {"initialize"}
        /\ UNCHANGED <<mapping, namedUnknown, tracked, handshakeDone, identity, identityState,
                       queryPending, upstream, speaks, own, served, loop, told, relayed>>
    BY <1>1 DEF ClientInitialize
  <2> QED
    BY <1>0, <2>1, <2>2 DEF RestTyped
<1>2. CASE ClientInitialized
  <2>1. queryPending' \in BOOLEAN
    BY <1>2 DEF ClientInitialized
  <2>2. /\ client' = "open" /\ toAnswer' \subseteq {"initialize", "query"}
        /\ UNCHANGED <<mapping, namedUnknown, tracked, clientProgress, initializeId,
                       handshakeDone, identity, identityState, upstream, speaks, own, served,
                       standIn, stale, untold, loop, told, relayed>>
    BY <1>0, <1>2 DEF RestTyped, ClientInitialized
  <2> QED
    BY <1>0, <2>1, <2>2 DEF RestTyped
<1>3. CASE ClientAsksState
  BY <1>0, <1>3 DEF RestTyped, ClientAsksState
<1>4. ASSUME NEW r \in Request, ClientRequest(r)
      PROVE  RestTyped'
  <2>1. standIn' \in BOOLEAN /\ stale' \in BOOLEAN /\ untold' \in BOOLEAN
    BY <1>0, <1>4, Zenon DEF RestTyped, ClientRequest, Scan
  <2> QED
    BY <1>0, <1>4, <2>1 DEF RestTyped, ClientRequest
<1>5. ASSUME NEW r \in Request, ClientCancel(r)
      PROVE  RestTyped'
  BY <1>0, <1>5 DEF RestTyped, ClientCancel
<1>6. ASSUME NEW predicted \in Signal \cup {None}, NEW watchedFiles \in BOOLEAN,
             ClientNotifies(predicted, watchedFiles)
      PROVE  RestTyped'
  <2>1. /\ mapping' \in Name \cup {None} /\ namedUnknown' \in BOOLEAN
        /\ tracked' \in ServerStates /\ told' \in ServerStates \cup {None}
    BY <1>0, <1>6, ReadsTyped DEF ClientNotifies
  <2>2. standIn' \in BOOLEAN /\ stale' \in BOOLEAN /\ untold' \in BOOLEAN
    <3>1. CASE watchedFiles
      BY <1>6, <3>1 DEF ClientNotifies
    <3>2. CASE ~watchedFiles
      BY <1>0, <1>6, <3>2 DEF RestTyped, ClientNotifies
    <3> QED
      BY <3>1, <3>2
  <2>3. UNCHANGED <<clientProgress, initializeId, handshakeDone, identity, identityState,
                    queryPending, upstream, toAnswer, speaks, own, served, loop, client,
                    relayed>>
    BY <1>6 DEF ClientNotifies
  <2> QED
    BY <1>0, <2>1, <2>2, <2>3 DEF RestTyped
<1>7. CASE ClientShutdown
  BY <1>0, <1>7 DEF RestTyped, ClientShutdown
<1>8. CASE ClientCloses
  BY <1>0, <1>8 DEF RestTyped, ClientCloses
<1> QED
  BY <1>1, <1>2, <1>3, <1>4, <1>5, <1>6, <1>7, <1>8 DEF ClientNext

\* Taking a message keeps the queue of messages.
LEMMA TakeTyped ==
  ASSUME PipeTyped, NEW kind, Take(kind)
  PROVE  PipeTyped' /\ Head(pipe) \in Messages /\ Head(pipe).kind = kind
<1>1. PipeTyped'
  BY Taken, Constants DEF PipeTyped
<1> QED
  BY <1>1, Taken DEF PipeTyped

\* Typing, for a message of the upstream that is taken.
LEMMA OnUpstreamTypedStep == RelayInv /\ OnUpstream => RestTyped' /\ PipeTyped'
<1> SUFFICES ASSUME RelayInv, OnUpstream
             PROVE  RestTyped' /\ PipeTyped'
  OBVIOUS
<1> DEFINE m == Head(pipe)
           Quiet == UNCHANGED <<upstream, toAnswer, speaks, own, served, loop, standIn, stale, untold>>
<1>0. Typed /\ RestTyped /\ PipeTyped /\ pipe \in Seq(Messages)
  BY TypedParts DEF RelayInv, PipeTyped
<1>1. CASE OnNotification
  <2>1. Take("notification") /\ Quiet
    BY <1>1 DEF OnNotification, Take, diskVars
  <2>2. PipeTyped' /\ m.name \in Name \cup {None} /\ m.signal \in Signal \cup {None}
    BY <1>0, <2>1, TakeTyped, MessageFields
  <2>3. /\ mapping' \in Name \cup {None} /\ namedUnknown' \in BOOLEAN
        /\ tracked' \in ServerStates /\ told' \in ServerStates \cup {None}
    <3>1. CASE Deaf \/ identity
      BY <1>0, <1>1, <3>1 DEF OnNotification, ReadsNothing, trackerVars, Typed
    <3>2. CASE ~(Deaf \/ identity)
      BY <1>0, <1>1, <2>2, <3>2, ObserveTyped DEF OnNotification
    <3> QED
      BY <3>1, <3>2
  <2>4. UNCHANGED <<clientProgress, initializeId, handshakeDone, identity, identityState,
                    queryPending, client, relayed>>
    BY <1>1 DEF OnNotification, sideVars
  <2> QED
    BY <1>0, <2>1, <2>2, <2>3, <2>4 DEF RestTyped
<1>2. CASE OnResponse
  <2>1. Take("response") /\ Quiet
    BY <1>2 DEF OnResponse, Take, diskVars
  <2>2. PipeTyped' /\ m.id \in Request
    BY <1>0, <2>1, TakeTyped, MessageFields
  <2> QED
    BY <1>0, <1>2, <2>1, <2>2 DEF RestTyped, OnResponse, sideVars, trackerVars
<1>3. CASE OnInitializeResult
  <2>1. Take("initializeResult") /\ Quiet
    BY <1>3 DEF OnInitializeResult, Take, diskVars
  <2>2. PipeTyped' /\ m.name \in Name \cup {None, Stranger}
    BY <1>0, <2>1, TakeTyped, MessageFields
  <2>3. /\ handshakeDone' \in BOOLEAN /\ identity' \in BOOLEAN /\ queryPending' \in BOOLEAN
        /\ initializeId' \in BOOLEAN /\ namedUnknown' \in BOOLEAN
    BY <1>3 DEF OnInitializeResult, SelectMapping
  <2>4. /\ mapping' \in Name \cup {None} /\ tracked' \in ServerStates
        /\ client' \in {"new", "up"} /\ told' = None
        /\ UNCHANGED <<clientProgress, identityState, relayed>>
    BY <1>0, <1>3, <2>2, States DEF OnInitializeResult, SelectMapping, Typed
  <2> QED
    BY <1>0, <2>1, <2>2, <2>3, <2>4 DEF RestTyped
<1>4. CASE OnQueryAnswer
  <2>1. Take("queryAnswer") /\ Quiet
    BY <1>4 DEF OnQueryAnswer, Take, diskVars
  <2>2. PipeTyped' /\ m.state \in Signal \cup {Initializing, None}
    BY <1>0, <2>1, TakeTyped, MessageFields
  <2>3. identityState' \in ServerStates
    BY <1>4, <2>2, States DEF OnQueryAnswer, AdoptIdentityState
  <2> QED
    BY <1>0, <1>4, <2>1, <2>2, <2>3 DEF RestTyped, OnQueryAnswer, AdoptIdentityState, trackerVars
<1>5. CASE OnServerStateChanged
  <2>1. Take("serverStateChanged") /\ Quiet
    BY <1>5 DEF OnServerStateChanged, Take, diskVars
  <2>2. PipeTyped' /\ m.state \in Signal
    BY <1>0, <2>1, TakeTyped, MessageFields
  <2>3. identityState' \in ServerStates /\ told' \in ServerStates \cup {None}
    BY <1>0, <1>5, <2>2, States DEF OnServerStateChanged, AdoptIdentityState, RestTyped
  <2> QED
    BY <1>0, <1>5, <2>1, <2>2, <2>3
       DEF RestTyped, OnServerStateChanged, AdoptIdentityState, trackerVars
<1> QED
  BY <1>1, <1>2, <1>3, <1>4, <1>5 DEF OnUpstream

\* Whatever the upstream writes is a message.
LEMMA UpstreamTypedStep == RelayInv /\ UpstreamNext => RestTyped' /\ PipeTyped'
<1> SUFFICES ASSUME RelayInv, UpstreamNext
             PROVE  RestTyped' /\ PipeTyped'
  OBVIOUS
<1> USE DEF sideVars, trackerVars, gateVars, upstreamVars, diskVars
<1>0. Typed /\ RestTyped /\ PipeTyped /\ pipe \in Seq(Messages)
  BY TypedParts DEF RelayInv, PipeTyped
<1>w. ASSUME NEW m \in Messages, Writes(m)
      PROVE  /\ PipeTyped'
             /\ UNCHANGED <<upstream, trackerVars, sideVars, gateVars, diskVars, loop, client,
                            told, relayed>>
  BY <1>0, <1>w, Written DEF PipeTyped, Writes
<1>1. ASSUME NEW outcome \in OutcomesOfInitialize, NEW name \in Name \cup {None, Stranger},
             AnswersInitialize(outcome, name)
      PROVE  RestTyped' /\ PipeTyped'
  <2> DEFINE m == [kind |-> "initializeResult", outcome |-> outcome,
                   name |-> IF outcome = "error" THEN None ELSE name]
  <2>1. m \in Messages /\ Writes(m)
    BY <1>1 DEF Messages, AnswersInitialize
  <2> HIDE DEF m
  <2> QED
    BY <1>0, <1>w, <1>1, <2>1 DEF RestTyped, AnswersInitialize
<1>2. ASSUME NEW name \in Name \cup {None}, NEW signal \in Signal \cup {None},
             Notifies(name, signal)
      PROVE  RestTyped' /\ PipeTyped'
  <2> DEFINE m == [kind |-> "notification", name |-> name, signal |-> signal]
  <2>1. m \in Messages /\ Writes(m)
    BY <1>2 DEF Messages, Notifies
  <2> HIDE DEF m
  <2> QED
    BY <1>0, <1>w, <1>2, <2>1 DEF RestTyped, Notifies
<1>3. ASSUME NEW s \in Signal, ChangesState(s)
      PROVE  RestTyped' /\ PipeTyped'
  <2> DEFINE m == [kind |-> "serverStateChanged", state |-> s]
  <2>1. m \in Messages /\ Writes(m)
    BY <1>3 DEF Messages, ChangesState
  <2> HIDE DEF m
  <2> QED
    BY <1>0, <1>w, <1>3, <2>1 DEF RestTyped, ChangesState
<1>4. ASSUME NEW readable \in BOOLEAN, AnswersQuery(readable)
      PROVE  RestTyped' /\ PipeTyped'
  <2> DEFINE m == [kind |-> "queryAnswer", state |-> IF readable THEN own ELSE None]
  <2>1. own \in Signal \cup {Initializing}
    BY <1>4 DEF RelayInv, OwnState, AnswersQuery
  <2>2. m \in Messages /\ Writes(m)
    BY <1>4, <2>1 DEF Messages, AnswersQuery
  <2> HIDE DEF m
  <2> QED
    BY <1>0, <1>w, <1>4, <2>2 DEF RestTyped, AnswersQuery
<1>5. ASSUME NEW r \in Request, Responds(r)
      PROVE  RestTyped' /\ PipeTyped'
  <2> DEFINE m == [kind |-> "response", id |-> r]
  <2>1. m \in Messages /\ Writes(m)
    BY <1>5 DEF Messages, Responds
  <2> HIDE DEF m
  <2> QED
    BY <1>0, <1>w, <1>5, <2>1 DEF RestTyped, Responds
<1>6. ASSUME NEW how \in {"mute", "dead"}, Ends(how)
      PROVE  RestTyped' /\ PipeTyped'
  BY <1>0, <1>6 DEF RestTyped, PipeTyped, Ends
<1> QED
  BY <1>1, <1>2, <1>3, <1>4, <1>5, <1>6 DEF UpstreamNext

\* Every step keeps every variable in its type.
LEMMA TypedStep == RelayInv /\ [Next]_vars => Typed'
<1> SUFFICES ASSUME RelayInv, [Next]_vars
             PROVE  RestTyped' /\ PipeTyped'
  BY GateTypedStep DEF Typed, GateTyped, RestTyped, PipeTyped
<1> USE DEF sideVars, trackerVars, gateVars, upstreamVars, diskVars
<1>0. RestTyped /\ PipeTyped
  BY TypedParts DEF RelayInv
<1>1. CASE ClientNext
  <2>1. UNCHANGED pipe
    BY <1>1 DEF ClientNext, ClientInitialize, ClientInitialized, ClientAsksState,
       ClientRequest, ClientCancel, ClientNotifies, ClientShutdown, ClientCloses
  <2> QED
    BY <1>0, <1>1, <2>1, ClientTypedStep DEF PipeTyped
<1>2. CASE UpstreamGone
  <2>1. ClosePending /\ upstream' \in {"alive", "mute", "dead"}
    BY <1>0, <1>2 DEF UpstreamGone, UpstreamClosed, UpstreamExited, RestTyped
  <2>2. client' \in {"new", "asking", "up", "open", "down"} /\ initializeId' \in BOOLEAN
    BY <1>0, <2>1 DEF ClosePending, RestTyped
  <2> QED
    BY <1>0, <2>1, <2>2 DEF ClosePending, RestTyped, PipeTyped
<1>3. CASE DiskChanges
  BY <1>0, <1>3 DEF DiskChanges, RestTyped, PipeTyped
<1>4. CASE UNCHANGED vars
  BY <1>0, <1>4 DEF vars, RestTyped, PipeTyped
<1> QED
  BY <1>1, <1>2, <1>3, <1>4, OnUpstreamTypedStep, UpstreamTypedStep DEF Next

--------------------------------------------------------------------------------
(* The handshake                                                            *)

\* What the handshake is made of.
stageVars == <<handshakeDone, initializeId, identity, queryPending, client>>

\* Every step that is not of the handshake leaves it where it is.
LEMMA HandshakeMoves ==
  ASSUME [Next]_vars
  PROVE  \/ \E declares, progress, inGit \in BOOLEAN, watches \in Watching :
              ClientInitialize(declares, progress, watches, inGit)
         \/ ClientInitialized
         \/ ClientShutdown
         \/ OnInitializeResult
         \/ UpstreamGone
         \/ UNCHANGED stageVars
<1> USE DEF sideVars, stageVars
<1>1. ASSUME ClientAsksState PROVE UNCHANGED stageVars
  BY <1>1 DEF ClientAsksState
<1>2. ASSUME NEW r \in Request, ClientRequest(r) \/ ClientCancel(r)
      PROVE  UNCHANGED stageVars
  BY <1>2 DEF ClientRequest, ClientCancel
<1>3. ASSUME NEW predicted, NEW watchedFiles, ClientNotifies(predicted, watchedFiles)
      PROVE  UNCHANGED stageVars
  BY <1>3 DEF ClientNotifies
<1>4. ASSUME ClientCloses PROVE UNCHANGED stageVars
  BY <1>4 DEF ClientCloses
<1>5. ASSUME OnNotification \/ OnResponse \/ OnQueryAnswer \/ OnServerStateChanged
      PROVE  UNCHANGED stageVars
  BY <1>5 DEF OnNotification, OnResponse, OnQueryAnswer, OnServerStateChanged, AdoptIdentityState
<1>6. ASSUME UpstreamNext PROVE UNCHANGED stageVars
  <2>1. \A m : Writes(m) => UNCHANGED stageVars
    BY DEF Writes
  <2>2. \A how : Ends(how) => UNCHANGED stageVars
    BY DEF Ends
  <2> QED
    BY <1>6, <2>1, <2>2 DEF UpstreamNext, AnswersInitialize, Notifies, ChangesState,
                            AnswersQuery, Responds
<1>7. ASSUME DiskChanges PROVE UNCHANGED stageVars
  BY <1>7 DEF DiskChanges
<1>8. ASSUME UNCHANGED vars PROVE UNCHANGED stageVars
  BY <1>8 DEF vars
<1> QED
  BY <1>1, <1>2, <1>3, <1>4, <1>5, <1>6, <1>7, <1>8 DEF Next, ClientNext, OnUpstream

\* Every step keeps the proxy and the client at the same stage of the handshake.
LEMMA StageStep == RelayInv /\ [Next]_vars => Stage'
<1> SUFFICES ASSUME RelayInv, [Next]_vars
             PROVE  Stage'
  OBVIOUS
<1>0. /\ Stage
      /\ handshakeDone \in BOOLEAN /\ initializeId \in BOOLEAN /\ identity \in BOOLEAN
      /\ queryPending \in BOOLEAN
  BY DEF RelayInv, Typed
<1>1. ASSUME NEW declares, NEW progress, NEW watches, NEW inGit,
             ClientInitialize(declares, progress, watches, inGit)
      PROVE  Stage'
  BY <1>0, <1>1 DEF Stage, ClientInitialize
<1>2. CASE ClientInitialized
  BY <1>0, <1>2 DEF Stage, ClientInitialized
<1>3. CASE ClientShutdown
  BY <1>0, <1>3 DEF Stage, ClientShutdown, sideVars
<1>4. CASE OnInitializeResult
  BY <1>0, <1>4 DEF Stage, OnInitializeResult
<1>5. CASE UpstreamGone
  BY <1>0, <1>5 DEF Stage, UpstreamGone, UpstreamClosed, UpstreamExited, ClosePending
<1>6. CASE UNCHANGED stageVars
  BY <1>0, <1>6 DEF Stage, stageVars
<1> QED
  BY <1>1, <1>2, <1>3, <1>4, <1>5, <1>6, HandshakeMoves

--------------------------------------------------------------------------------
(* What waits in the pipe                                                   *)

\* The messages of the upstream and what it has to answer move when it writes, when
\* the loop takes one, and when the client asks for the handshake.
LEMMA PipeMoves ==
  ASSUME [Next]_vars
  PROVE  \/ \E declares, progress, inGit \in BOOLEAN, watches \in Watching :
              ClientInitialize(declares, progress, watches, inGit)
         \/ ClientInitialized
         \/ OnUpstream
         \/ UpstreamNext /\ \A how \in {"mute", "dead"} : ~Ends(how)
         \/ ClientShutdown
         \/ loop' # "running" /\ UNCHANGED <<pipe, toAnswer, speaks, own, handshakeDone, identity>>
              /\ (client' = client \/ ~handshakeDone)
         \/ UNCHANGED <<pipe, toAnswer, speaks, own, handshakeDone, identity, loop, client>>
<1> DEFINE Still == UNCHANGED <<pipe, toAnswer, speaks, own, handshakeDone, identity, loop, client>>
<1> USE DEF sideVars, upstreamVars
<1>1. ASSUME ClientAsksState PROVE Still
  BY <1>1 DEF ClientAsksState
<1>2. ASSUME NEW r \in Request, ClientRequest(r) \/ ClientCancel(r)
      PROVE  Still
  BY <1>2 DEF ClientRequest, ClientCancel
<1>3. ASSUME NEW predicted, NEW watchedFiles, ClientNotifies(predicted, watchedFiles)
      PROVE  Still
  BY <1>3 DEF ClientNotifies
<1>4. ASSUME ClientCloses
      PROVE  loop' # "running" /\ UNCHANGED <<pipe, toAnswer, speaks, own, handshakeDone, identity, client>>
  BY <1>4 DEF ClientCloses
<1>5. ASSUME UpstreamGone
      PROVE  /\ loop' # "running"
             /\ UNCHANGED <<pipe, toAnswer, speaks, own, handshakeDone, identity>>
             /\ client' = client \/ ~handshakeDone
  BY <1>5 DEF UpstreamGone, UpstreamClosed, UpstreamExited, ClosePending
<1>6. ASSUME NEW how, Ends(how) PROVE Still
  BY <1>6 DEF Ends
<1>7. ASSUME DiskChanges PROVE Still
  BY <1>7 DEF DiskChanges
<1>8. ASSUME UNCHANGED vars PROVE Still
  BY <1>8 DEF vars
<1> HIDE DEF Still
<1>9. CASE ClientNext
  BY <1>1, <1>2, <1>3, <1>4, <1>9 DEF ClientNext, Still
<1> QED
  BY <1>5, <1>6, <1>7, <1>8, <1>9 DEF Next, Still

\* What the upstream writes: the answer to initialize, when it is due; a state it
\* moved to; the answer to the query, when it is due; or something else.
WritesHandshake(m) ==
  /\ m.kind = "initializeResult"
  /\ "initialize" \in toAnswer /\ toAnswer' = toAnswer \ {"initialize"}
  /\ (speaks' => m.outcome = "declares") /\ UNCHANGED own

WritesState(m) ==
  /\ m.kind = "serverStateChanged" /\ m.state = own'
  /\ speaks /\ UNCHANGED <<toAnswer, speaks>> /\ own' \in Signal

WritesQueryAnswer(m) ==
  /\ m.kind = "queryAnswer" /\ own' = (IF m.state = None THEN Unobserved ELSE m.state)
  /\ "query" \in toAnswer /\ toAnswer' = toAnswer \ {"query"}
  /\ UNCHANGED speaks

WritesOther(m) ==
  m.kind \in {"notification", "response"} /\ UNCHANGED <<toAnswer, speaks, own>>

\* A response is to a request that was forwarded, and serves it.
WritesServed(m) ==
  IF m.kind = "response" THEN m.id \in Ids(forwarded) /\ served' = served \cup {m.id}
  ELSE UNCHANGED served

\* Whatever the upstream writes is one of these.
LEMMA WritesOne ==
  ASSUME RelayInv, UpstreamNext, \A how \in {"mute", "dead"} : ~Ends(how)
  PROVE  \E m \in Messages :
           /\ Writes(m)
           /\ WritesHandshake(m) \/ WritesState(m) \/ WritesQueryAnswer(m) \/ WritesOther(m)
           /\ WritesServed(m)
<1> DEFINE Goal == \E m \in Messages :
             /\ Writes(m)
             /\ WritesHandshake(m) \/ WritesState(m) \/ WritesQueryAnswer(m) \/ WritesOther(m)
             /\ WritesServed(m)
<1>1. ASSUME NEW outcome \in OutcomesOfInitialize, NEW name \in Name \cup {None, Stranger},
             AnswersInitialize(outcome, name)
      PROVE  Goal
  <2> DEFINE m == [kind |-> "initializeResult", outcome |-> outcome,
                   name |-> IF outcome = "error" THEN None ELSE name]
  <2>1. m \in Messages /\ Writes(m) /\ WritesHandshake(m) /\ WritesServed(m)
    BY <1>1 DEF Messages, AnswersInitialize, WritesHandshake, WritesServed
  <2> QED
    BY <2>1
<1>2. ASSUME NEW name \in Name \cup {None}, NEW signal \in Signal \cup {None},
             Notifies(name, signal)
      PROVE  Goal
  <2> DEFINE m == [kind |-> "notification", name |-> name, signal |-> signal]
  <2>1. m \in Messages /\ Writes(m) /\ WritesOther(m) /\ WritesServed(m)
    BY <1>2 DEF Messages, Notifies, WritesOther, WritesServed
  <2> QED
    BY <2>1
<1>3. ASSUME NEW s \in Signal, ChangesState(s)
      PROVE  Goal
  <2> DEFINE m == [kind |-> "serverStateChanged", state |-> s]
  <2>1. m \in Messages /\ Writes(m) /\ WritesState(m) /\ WritesServed(m)
    BY <1>3 DEF Messages, ChangesState, WritesState, WritesServed
  <2> QED
    BY <2>1
<1>4. ASSUME NEW readable \in BOOLEAN, AnswersQuery(readable)
      PROVE  Goal
  <2> DEFINE m == [kind |-> "queryAnswer", state |-> IF readable THEN own ELSE None]
  <2>1. own \in Signal \cup {Initializing} /\ own # None
    BY <1>4, States DEF RelayInv, OwnState, AnswersQuery
  <2>2. m \in Messages /\ Writes(m) /\ WritesQueryAnswer(m) /\ WritesServed(m)
    BY <1>4, <2>1 DEF Messages, AnswersQuery, WritesQueryAnswer, WritesServed
  <2> QED
    BY <2>2
<1>5. ASSUME NEW r \in Request, Responds(r)
      PROVE  Goal
  <2> DEFINE m == [kind |-> "response", id |-> r]
  <2>1. m \in Messages /\ Writes(m) /\ WritesOther(m) /\ WritesServed(m)
    BY <1>5 DEF Messages, Responds, WritesOther, WritesServed
  <2> QED
    BY <2>1
<1> QED
  BY <1>1, <1>2, <1>3, <1>4, <1>5 DEF UpstreamNext

\* The loop takes one message: the answer to initialize, or one that does not move
\* the handshake.
OtherKinds == {"notification", "response", "queryAnswer", "serverStateChanged"}

\* Nothing else is taken.
LEMMA TakesOne ==
  ASSUME OnUpstream
  PROVE  \/ OnInitializeResult
         \/ \E kind \in OtherKinds :
              /\ Take(kind)
              /\ UNCHANGED <<handshakeDone, identity, client, loop, toAnswer, speaks, own>>
<1> USE DEF sideVars, OtherKinds, Take
<1>1. CASE OnNotification
  BY <1>1 DEF OnNotification
<1>2. CASE OnResponse
  BY <1>2 DEF OnResponse
<1>3. CASE OnQueryAnswer
  BY <1>3 DEF OnQueryAnswer, AdoptIdentityState
<1>4. CASE OnServerStateChanged
  BY <1>4 DEF OnServerStateChanged, AdoptIdentityState
<1> QED
  BY <1>1, <1>2, <1>3, <1>4 DEF OnUpstream

\* A second answer to initialize is never under way.
LEMMA OneHandshakeStep == RelayInv /\ [Next]_vars => OneHandshake'
<1> SUFFICES ASSUME RelayInv, [Next]_vars
             PROVE  OneHandshake'
  OBVIOUS
<1>0. /\ OneHandshake /\ Stage /\ pipe \in Seq(Messages) /\ Len(pipe) \in Nat
      /\ handshakeDone \in BOOLEAN
  BY DEF RelayInv, Typed
<1> USE DEF OneHandshake, AnswersHandshake
<1>1. ASSUME NEW declares, NEW progress, NEW watches, NEW inGit,
             ClientInitialize(declares, progress, watches, inGit)
      PROVE  OneHandshake'
  <2>1. /\ Running /\ client = "new" /\ ~handshakeDone
    BY <1>0, <1>1 DEF ClientInitialize, Stage
  <2>2. \A i \in 1..Len(pipe) : ~AnswersHandshake(i)
    BY <1>0, <2>1
  <2> QED
    BY <1>1, <2>1, <2>2 DEF ClientInitialize
<1>2. CASE ClientInitialized \/ ClientShutdown
  <2>1. /\ Running /\ client # "asking"
        /\ pipe' = pipe /\ ("initialize" \in toAnswer' => "initialize" \in toAnswer)
    BY <1>2 DEF ClientInitialized, ClientShutdown, upstreamVars
  <2>2. "initialize" \notin toAnswer /\ \A i \in 1..Len(pipe) : ~AnswersHandshake(i)
    BY <1>0, <2>1
  <2> QED
    BY <2>1, <2>2
<1>3. CASE OnInitializeResult
  <2>1. /\ Take("initializeResult") /\ toAnswer' = toAnswer
    BY <1>3 DEF OnInitializeResult, Take
  <2>2. /\ 1 \in 1..Len(pipe) /\ AnswersHandshake(1)
        /\ \A i \in 1..Len(pipe') : i + 1 \in 1..Len(pipe) /\ pipe'[i] = pipe[i + 1]
    BY <1>0, <2>1, Taken
  <2>3. "initialize" \notin toAnswer'
    BY <1>0, <2>1, <2>2
  <2>4. ASSUME NEW i \in 1..Len(pipe'), AnswersHandshake(i)'
        PROVE  FALSE
    <3>1. AnswersHandshake(i + 1) /\ i + 1 \in 1..Len(pipe) /\ i + 1 # 1
      BY <2>2, <2>4
    <3> QED
      BY <1>0, <2>2, <3>1
  <2> QED
    BY <2>3, <2>4
<1>4. ASSUME NEW kind \in OtherKinds, Take(kind),
             UNCHANGED <<handshakeDone, identity, client, loop, toAnswer, speaks, own>>
      PROVE  OneHandshake'
  <2>1. \A i \in 1..Len(pipe') : i + 1 \in 1..Len(pipe) /\ pipe'[i] = pipe[i + 1]
    BY <1>0, <1>4, Taken
  <2>2. \A i \in 1..Len(pipe') : AnswersHandshake(i)' => AnswersHandshake(i + 1)
    BY <2>1
  <2>3. ASSUME NEW i \in 1..Len(pipe'), NEW j \in 1..Len(pipe'),
               AnswersHandshake(i)', AnswersHandshake(j)'
        PROVE  i = j
    <3>1. i + 1 = j + 1
      BY <1>0, <2>1, <2>2, <2>3
    <3> QED
      BY <3>1
  <2> QED
    BY <1>0, <1>4, <2>1, <2>2, <2>3 DEF Running
<1>5. ASSUME NEW m \in Messages, Writes(m), WritesHandshake(m)
      PROVE  OneHandshake'
  <2>1. UNCHANGED <<handshakeDone, client, loop>>
    BY <1>5 DEF Writes, sideVars
  <2>2. /\ Len(pipe') = Len(pipe) + 1 /\ \A i \in 1..Len(pipe) : pipe'[i] = pipe[i]
    BY <1>0, <1>5, Written
  <2>3. \A i \in 1..Len(pipe') : AnswersHandshake(i)' => i = Len(pipe) + 1
    BY <1>0, <1>5, <2>2 DEF WritesHandshake
  <2> QED
    BY <1>0, <1>5, <2>1, <2>3 DEF Running, WritesHandshake
<1>6. ASSUME NEW m \in Messages, Writes(m),
             WritesState(m) \/ WritesQueryAnswer(m) \/ WritesOther(m)
      PROVE  OneHandshake'
  <2>1. UNCHANGED <<handshakeDone, client, loop>>
    BY <1>6 DEF Writes, sideVars
  <2>2. /\ Len(pipe') = Len(pipe) + 1 /\ \A i \in 1..Len(pipe) : pipe'[i] = pipe[i]
        /\ pipe'[Len(pipe) + 1] = m
    BY <1>0, <1>6, Written
  <2>3. m.kind # "initializeResult" /\ toAnswer' \subseteq toAnswer
    BY <1>6 DEF WritesState, WritesQueryAnswer, WritesOther
  <2>4. \A i \in 1..Len(pipe') : AnswersHandshake(i)' => i \in 1..Len(pipe) /\ AnswersHandshake(i)
    BY <1>0, <2>2, <2>3
  <2> QED
    BY <1>0, <2>1, <2>3, <2>4 DEF Running
<1>7. CASE UpstreamNext /\ \A how \in {"mute", "dead"} : ~Ends(how)
  BY <1>5, <1>6, <1>7, WritesOne
<1>8. CASE /\ loop' # "running" /\ UNCHANGED <<pipe, toAnswer, speaks, own, handshakeDone, identity>>
           /\ client' = client \/ ~handshakeDone
  BY <1>0, <1>8 DEF Running
<1>9. CASE UNCHANGED <<pipe, toAnswer, speaks, own, handshakeDone, identity, loop, client>>
  BY <1>0, <1>9 DEF Running
<1> QED
  BY <1>1, <1>2, <1>3, <1>4, <1>7, <1>8, <1>9, PipeMoves, TakesOne

\* No step makes an upstream tell a state before its declaration is read.
LEMMA DeclaredFirstStep == RelayInv /\ [Next]_vars => DeclaredFirst'
<1> SUFFICES ASSUME RelayInv, [Next]_vars
             PROVE  DeclaredFirst'
  OBVIOUS
<1>0. /\ OneHandshake /\ Stage /\ DeclaredFirst /\ RelayInv
      /\ pipe \in Seq(Messages) /\ Len(pipe) \in Nat
      /\ handshakeDone \in BOOLEAN /\ identity \in BOOLEAN /\ speaks \in BOOLEAN
      /\ queryPending \in BOOLEAN
  BY DEF RelayInv, Typed
<1> USE DEF DeclaredFirst
<1>1. ASSUME NEW declares, NEW progress, NEW watches, NEW inGit,
             ClientInitialize(declares, progress, watches, inGit)
      PROVE  DeclaredFirst'
  <2>1. "query" \notin toAnswer'
    BY <1>0, <1>1 DEF ClientInitialize
  <2>2. UNCHANGED <<pipe, speaks, identity>>
    BY <1>1 DEF ClientInitialize
  <2> QED
    BY <1>0, <2>1, <2>2 DEF TellsState, Declares, AnswersHandshake
<1>2. CASE ClientInitialized
  <2>1. /\ "query" \in toAnswer' => identity' /\ client' = "open"
        /\ UNCHANGED <<pipe, speaks, identity>>
    BY <1>0, <1>2 DEF ClientInitialized, Stage
  <2> QED
    BY <1>0, <2>1 DEF TellsState, Declares, AnswersHandshake
<1>3. CASE ClientShutdown
  BY <1>0, <1>3 DEF ClientShutdown, upstreamVars, sideVars, TellsState, Declares, AnswersHandshake
<1>4. CASE OnInitializeResult
  <2>1. /\ Take("initializeResult") /\ UNCHANGED <<toAnswer, speaks>>
        /\ identity' = (pipe[1].outcome = "declares")
    BY <1>0, <1>4, Taken DEF OnInitializeResult, Take
  <2>2. /\ 1 \in 1..Len(pipe) /\ AnswersHandshake(1)
        /\ \A i \in 1..Len(pipe') : i + 1 \in 1..Len(pipe) /\ pipe'[i] = pipe[i + 1]
    BY <1>0, <2>1, Taken DEF AnswersHandshake
  <2>3. ~identity
    BY <1>0, <2>2 DEF OneHandshake, Stage
  <2>4. \A j \in 1..Len(pipe) : Declares(j) => j = 1 /\ identity'
    BY <1>0, <2>1, <2>2 DEF OneHandshake, Declares
  <2>5. ASSUME NEW i \in 1..Len(pipe'), TellsState(i)'
        PROVE  identity'
    <3>1. i + 1 \in 1..Len(pipe) /\ TellsState(i + 1)
      BY <2>2, <2>5 DEF TellsState
    <3>2. \A j \in 1..((i + 1) - 1) : j \in 1..Len(pipe)
      BY <1>0, <3>1
    <3> QED
      BY <1>0, <2>3, <2>4, <3>1, <3>2
  <2> QED
    BY <1>0, <2>1, <2>3, <2>4, <2>5
<1>5. ASSUME NEW kind \in OtherKinds, Take(kind),
             UNCHANGED <<handshakeDone, identity, client, loop, toAnswer, speaks, own>>
      PROVE  DeclaredFirst'
  <2>1. /\ \A i \in 1..Len(pipe') : i + 1 \in 1..Len(pipe) /\ pipe'[i] = pipe[i + 1]
        /\ Len(pipe') = Len(pipe) - 1 /\ pipe[1].kind = kind
    BY <1>0, <1>5, Taken
  <2>2. \A j \in 1..Len(pipe) : Declares(j) => j - 1 \in 1..Len(pipe') /\ Declares(j - 1)'
    <3>1. ASSUME NEW j \in 1..Len(pipe), Declares(j)
          PROVE  j - 1 \in 1..Len(pipe') /\ Declares(j - 1)'
      <4>1. j # 1
        BY <2>1, <3>1 DEF Declares, AnswersHandshake, OtherKinds
      <4>2. j - 1 \in 1..Len(pipe') /\ (j - 1) + 1 = j
        BY <1>0, <2>1, <4>1
      <4> QED
        BY <2>1, <3>1, <4>2 DEF Declares, AnswersHandshake
    <3> QED
      BY <3>1
  <2>3. ASSUME NEW i \in 1..Len(pipe'), TellsState(i)'
        PROVE  identity' \/ \E j \in 1..(i - 1) : Declares(j)'
    <3>1. i + 1 \in 1..Len(pipe) /\ TellsState(i + 1)
      BY <2>1, <2>3 DEF TellsState
    <3>2. CASE identity
      BY <1>5, <3>2
    <3>3. CASE ~identity
      <4>1. PICK j \in 1..((i + 1) - 1) : Declares(j)
        BY <1>0, <3>1, <3>3
      <4>2. j \in 1..Len(pipe)
        BY <1>0, <3>1
      <4>3. j - 1 \in 1..Len(pipe') /\ Declares(j - 1)'
        BY <2>2, <4>1, <4>2
      <4>4. j - 1 \in 1..(i - 1)
        BY <4>1, <4>3
      <4> QED
        BY <4>3, <4>4
    <3> QED
      BY <3>2, <3>3
  <2> QED
    BY <1>0, <1>5, <2>2, <2>3
<1>6. ASSUME NEW m \in Messages, Writes(m),
             WritesHandshake(m) \/ WritesState(m) \/ WritesQueryAnswer(m) \/ WritesOther(m)
      PROVE  DeclaredFirst'
  <2>1. UNCHANGED <<identity, client>>
    BY <1>6 DEF Writes, sideVars
  <2>2. /\ Len(pipe') = Len(pipe) + 1 /\ \A i \in 1..Len(pipe) : pipe'[i] = pipe[i]
        /\ pipe'[Len(pipe) + 1] = m
    BY <1>0, <1>6, Written
  <2>3. /\ \A i \in 1..Len(pipe) : i \in 1..Len(pipe') /\ (Declares(i) => Declares(i)')
        /\ \A i \in 1..Len(pipe) : TellsState(i)' => TellsState(i)
    BY <1>0, <2>2 DEF Declares, TellsState, AnswersHandshake
  <2>4. speaks' => identity' \/ \E j \in 1..Len(pipe') : Declares(j)'
    <3>1. CASE WritesHandshake(m)
      <4>1. PICK last \in 1..Len(pipe') : last = Len(pipe) + 1
        BY <1>0, <2>2
      <4>2. speaks' => Declares(last)'
        BY <2>2, <3>1, <4>1 DEF WritesHandshake, Declares, AnswersHandshake
      <4> QED
        BY <4>2
    <3>2. CASE ~WritesHandshake(m)
      <4>1. speaks' => speaks
        BY <1>6, <3>2 DEF WritesState, WritesQueryAnswer, WritesOther
      <4>2. speaks => identity \/ \E j \in 1..Len(pipe) : Declares(j)
        BY <1>0
      <4>3. identity => identity'
        BY <2>1
      <4> QED
        BY <2>3, <4>1, <4>2, <4>3
    <3> QED
      BY <3>1, <3>2
  <2>5. "query" \in toAnswer' => "query" \in toAnswer
    BY <1>6 DEF WritesHandshake, WritesState, WritesQueryAnswer, WritesOther
  <2>6. ASSUME NEW i \in 1..Len(pipe'), TellsState(i)'
        PROVE  identity' \/ \E j \in 1..(i - 1) : Declares(j)'
    <3>1. CASE i \in 1..Len(pipe)
      <4>1. TellsState(i) /\ \A j \in 1..(i - 1) : j \in 1..Len(pipe)
        BY <1>0, <2>3, <2>6, <3>1
      <4> QED
        BY <1>0, <2>1, <2>3, <3>1, <4>1
    <3>2. CASE i = Len(pipe) + 1
      <4>1. m.kind \in {"queryAnswer", "serverStateChanged"}
        BY <2>2, <2>6, <3>2 DEF TellsState
      <4>2. speaks \/ "query" \in toAnswer
        BY <1>6, <4>1 DEF WritesHandshake, WritesState, WritesQueryAnswer, WritesOther
      <4>3. identity \/ \E j \in 1..Len(pipe) : Declares(j)
        BY <1>0, <4>2
      <4>4. 1..Len(pipe) = 1..(i - 1)
        BY <1>0, <3>2
      <4> QED
        BY <2>1, <2>3, <4>3, <4>4
    <3> QED
      BY <1>0, <2>2, <3>1, <3>2
  <2> QED
    BY <1>0, <2>1, <2>4, <2>5, <2>6
<1>7. CASE UpstreamNext /\ \A how \in {"mute", "dead"} : ~Ends(how)
  BY <1>0, <1>6, <1>7, WritesOne
<1>8. CASE /\ loop' # "running" /\ UNCHANGED <<pipe, toAnswer, speaks, own, handshakeDone, identity>>
           /\ client' = client \/ ~handshakeDone
  BY <1>0, <1>8 DEF Stage, TellsState, Declares, AnswersHandshake
<1>9. CASE UNCHANGED <<pipe, toAnswer, speaks, own, handshakeDone, identity, loop, client>>
  BY <1>0, <1>9 DEF TellsState, Declares, AnswersHandshake
<1> QED
  BY <1>1, <1>2, <1>3, <1>4, <1>5, <1>7, <1>8, <1>9, PipeMoves, TakesOne

\* An upstream that could not read its state is not asked again.
LEMMA OwnStateStep == RelayInv /\ [Next]_vars => OwnState'
<1> SUFFICES ASSUME RelayInv, [Next]_vars
             PROVE  OwnState'
  OBVIOUS
<1>0. /\ OneHandshake /\ Stage /\ DeclaredFirst /\ OwnState /\ RelayInv
      /\ pipe \in Seq(Messages) /\ Len(pipe) \in Nat
  BY DEF RelayInv, Typed
<1> USE DEF OwnState
<1>1. ASSUME NEW declares, NEW progress, NEW watches, NEW inGit,
             ClientInitialize(declares, progress, watches, inGit)
      PROVE  OwnState'
  BY <1>0, <1>1 DEF ClientInitialize
<1>2. CASE ClientInitialized \/ ClientShutdown
  BY <1>0, <1>2 DEF ClientInitialized, ClientShutdown, upstreamVars
<1>3. CASE OnInitializeResult
  <2>1. /\ 1 \in 1..Len(pipe) /\ AnswersHandshake(1) /\ Running
        /\ UNCHANGED <<own, toAnswer>>
    BY <1>0, <1>3, Taken DEF OnInitializeResult, AnswersHandshake, Take
  <2>2. client = "asking"
    BY <1>0, <2>1 DEF OneHandshake
  <2> QED
    BY <1>0, <2>1, <2>2
<1>4. ASSUME NEW kind \in OtherKinds, Take(kind),
             UNCHANGED <<handshakeDone, identity, client, loop, toAnswer, speaks, own>>
      PROVE  OwnState'
  BY <1>0, <1>4
<1>5. CASE UpstreamNext /\ \A how \in {"mute", "dead"} : ~Ends(how)
  <2>1. PICK m \in Messages :
          /\ Writes(m)
          /\ WritesHandshake(m) \/ WritesState(m) \/ WritesQueryAnswer(m) \/ WritesOther(m)
    BY <1>0, <1>5, WritesOne
  <2>2. UNCHANGED client
    BY <2>1 DEF Writes
  <2>3. CASE WritesHandshake(m) \/ WritesOther(m)
    BY <1>0, <2>2, <2>3 DEF WritesHandshake, WritesOther
  <2>4. CASE WritesState(m)
    BY <2>4 DEF WritesState
  <2>5. CASE WritesQueryAnswer(m)
    BY <1>0, <2>2, <2>5 DEF WritesQueryAnswer, DeclaredFirst
  <2> QED
    BY <2>1, <2>3, <2>4, <2>5
<1>6. CASE /\ loop' # "running" /\ UNCHANGED <<pipe, toAnswer, speaks, own, handshakeDone, identity>>
           /\ client' = client \/ ~handshakeDone
  BY <1>0, <1>6 DEF Stage
<1>7. CASE UNCHANGED <<pipe, toAnswer, speaks, own, handshakeDone, identity, loop, client>>
  BY <1>0, <1>7
<1> QED
  BY <1>1, <1>2, <1>3, <1>4, <1>5, <1>6, <1>7, PipeMoves, TakesOne

--------------------------------------------------------------------------------
(* The tracked state and the queue                                          *)

\* What moves the tracked state has, or selects, a mapping.
LEMMA NothingObservedStep == RelayInv /\ [Next]_vars => NothingObserved'
<1> SUFFICES ASSUME RelayInv, [Next]_vars
             PROVE  NothingObserved'
  OBVIOUS
<1>0. NothingObserved
  BY DEF RelayInv
<1> USE DEF NothingObserved, trackerVars
<1>r. ASSUME NEW s, Reads(s), s # None => mapping # None
      PROVE  NothingObserved'
  BY <1>0, <1>r DEF Reads, ReadsNothing
<1>1. ASSUME NEW predicted, NEW watchedFiles, ClientNotifies(predicted, watchedFiles)
      PROVE  NothingObserved'
  BY <1>r, <1>1 DEF ClientNotifies
<1>2. CASE ClientNext
  BY <1>0, <1>1, <1>2 DEF ClientNext, ClientInitialize, ClientInitialized, ClientAsksState,
     ClientRequest, ClientCancel, ClientShutdown, ClientCloses
<1>3. CASE OnNotification
  <2>1. CASE Deaf \/ identity
    BY <1>0, <1>3, <2>1 DEF OnNotification, ReadsNothing
  <2>2. CASE ~(Deaf \/ identity)
    <3>1. CASE mapping # None
      BY <1>3, <1>r, <2>2, <3>1 DEF OnNotification, Observe
    <3>2. CASE mapping = None
      BY <1>0, <1>3, <2>2, <3>2, States DEF OnNotification, Observe, ReadsNothing
    <3> QED
      BY <3>1, <3>2
  <2> QED
    BY <2>1, <2>2
<1>4. CASE OnInitializeResult
  BY <1>0, <1>4, States DEF OnInitializeResult, SelectMapping
<1>5. CASE OnResponse \/ OnQueryAnswer \/ OnServerStateChanged
  BY <1>0, <1>5 DEF OnResponse, OnQueryAnswer, OnServerStateChanged, AdoptIdentityState
<1>6. CASE UpstreamGone
  BY <1>0, <1>6 DEF UpstreamGone, UpstreamClosed, UpstreamExited, ClosePending
<1>7. CASE UpstreamNext
  <2>1. \A m : Writes(m) => UNCHANGED <<mapping, tracked>>
    BY DEF Writes
  <2>2. \A how : Ends(how) => UNCHANGED <<mapping, tracked>>
    BY DEF Ends
  <2>3. UNCHANGED <<mapping, tracked>>
    BY <1>7, <2>1, <2>2 DEF UpstreamNext, AnswersInitialize, Notifies, ChangesState,
                            AnswersQuery, Responds
  <2> QED
    BY <1>0, <2>3
<1>8. CASE DiskChanges
  BY <1>0, <1>8 DEF DiskChanges
<1>9. CASE UNCHANGED vars
  BY <1>0, <1>9 DEF vars
<1> QED
  BY <1>2, <1>3, <1>4, <1>5, <1>6, <1>7, <1>8, <1>9 DEF Next, OnUpstream

\* Reading a message leaves the queue alone or re-evaluates it.
LEMMA ReadsMoves ==
  ASSUME NEW s \in Signal \cup {None}, Reads(s)
  PROVE  UNCHANGED gateVars \/ \E t \in ServerStates : Releases(t)
  BY States DEF Reads, ReadsNothing, Apply

\* So does observing one, whether it selects a mapping or not.
LEMMA ObserveMoves ==
  ASSUME NEW name \in Name \cup {None}, NEW signal \in Signal \cup {None},
         Observe(name, signal)
  PROVE  UNCHANGED gateVars \/ \E t \in ServerStates : Releases(t)
<1>1. CASE mapping # None
  BY <1>1, ReadsMoves DEF Observe
<1>2. CASE mapping = None
  BY <1>2, States DEF Observe, ReadsNothing, Apply
<1> QED
  BY <1>1, <1>2

\* The queue moves when the client sends or cancels a request, when a state is read,
\* and when everything is refused.
LEMMA GateMoves ==
  ASSUME RelayInv, [Next]_vars
  PROVE  \/ UNCHANGED gateVars
         \/ \E s \in ServerStates : Releases(s)
         \/ \E code \in {RequestFailed, InternalError} : DrainGate(code)
         \/ \E r \in Request : ClientRequest(r) \/ ClientCancel(r)
<1>0. pipe \in Seq(Messages)
  BY DEF RelayInv, Typed
<1>1. ASSUME NEW predicted \in Signal \cup {None}, NEW watchedFiles, ClientNotifies(predicted, watchedFiles)
      PROVE  UNCHANGED gateVars \/ \E t \in ServerStates : Releases(t)
  BY <1>1, ReadsMoves DEF ClientNotifies
<1>2. CASE ClientShutdown \/ UpstreamGone
  BY <1>2 DEF ClientShutdown, UpstreamGone, UpstreamClosed, UpstreamExited, ClosePending
<1>3. CASE ClientNext
  BY <1>1, <1>2, <1>3 DEF ClientNext, ClientInitialize, ClientInitialized, ClientAsksState,
     ClientCloses
<1>4. CASE OnNotification
  <2>1. CASE Deaf \/ identity
    BY <1>4, <2>1 DEF OnNotification, ReadsNothing
  <2>2. CASE ~(Deaf \/ identity)
    <3>1. Take("notification") /\ Observe(Head(pipe).name, Head(pipe).signal)
      BY <1>4, <2>2 DEF OnNotification
    <3>2. Head(pipe) \in Messages /\ Head(pipe).kind = "notification"
      BY <1>0, <3>1, Taken
    <3> QED
      BY <3>1, <3>2, MessageFields, ObserveMoves
  <2> QED
    BY <2>1, <2>2
<1>5. CASE OnResponse \/ OnInitializeResult
  BY <1>5 DEF OnResponse, OnInitializeResult
<1>6. CASE OnQueryAnswer
  <2>1. Head(pipe) \in Messages /\ Head(pipe).kind = "queryAnswer"
    BY <1>0, <1>6, Taken DEF OnQueryAnswer
  <2>2. Head(pipe).state \in Signal \cup {Initializing, None}
    BY <2>1, MessageFields
  <2> QED
    BY <1>6, <2>2, States DEF OnQueryAnswer, AdoptIdentityState
<1>7. CASE OnServerStateChanged
  <2>1. Head(pipe) \in Messages /\ Head(pipe).kind = "serverStateChanged"
    BY <1>0, <1>7, Taken DEF OnServerStateChanged
  <2>2. Head(pipe).state \in Signal
    BY <2>1, MessageFields
  <2> QED
    BY <1>7, <2>2, States DEF OnServerStateChanged, AdoptIdentityState
<1>8. CASE UpstreamNext
  <2>1. \A m : Writes(m) => UNCHANGED gateVars
    BY DEF Writes
  <2>2. \A how : Ends(how) => UNCHANGED gateVars
    BY DEF Ends
  <2> QED
    BY <1>8, <2>1, <2>2 DEF UpstreamNext, AnswersInitialize, Notifies, ChangesState,
                            AnswersQuery, Responds
<1>9. CASE DiskChanges \/ UNCHANGED vars
  BY <1>9 DEF DiskChanges, vars
<1> QED
  BY <1>2, <1>3, <1>4, <1>5, <1>6, <1>7, <1>8, <1>9 DEF Next, OnUpstream

\* Only a client that is up makes the gate hold something.
LEMMA HoldsForOpen ==
  ASSUME RelayInv, [Next]_vars, held' # <<>>
  PROVE  held # <<>> \/ client = "open"
<1>1. ASSUME NEW s \in ServerStates, Releases(s)
      PROVE  held # <<>>
  BY <1>1, ReleaseCases DEF Releases
<1>2. ASSUME NEW r \in Request, ClientCancel(r)
      PROVE  held # <<>>
  BY <1>2 DEF ClientCancel
<1> QED
  BY <1>1, <1>2, GateMoves DEF gateVars, DrainGate, ClientRequest

\* The gate holds for a client that is up, as long as it is.
LEMMA HeldOpenStep == RelayInv /\ [Next]_vars => HeldOpen'
<1> SUFFICES ASSUME RelayInv, [Next]_vars, held' # <<>>
             PROVE  client' = "open" /\ ~clientDeclared' /\ WorthWaiting(Boundary')
  BY DEF HeldOpen
<1>0. /\ HeldOpen /\ Stage /\ OneHandshake /\ pipe \in Seq(Messages) /\ Len(pipe) \in Nat
  BY DEF RelayInv, Typed
<1>1. ~clientDeclared' /\ WorthWaiting(Boundary')
  <2>1. G!HeldWaits
    BY Vocabulary DEF RelayInv, HeldOpen, G!HeldWaits
  <2>2. G!TypeOK
    BY BoundaryTyped DEF RelayInv
  <2>3. G!HeldWaits'
    BY <2>1, <2>2, GateStep, G!HeldWaitsStep
  <2> QED
    BY <2>3, Vocabulary DEF G!HeldWaits
<1>2. client = "open"
  BY <1>0, HoldsForOpen DEF HeldOpen
<1>3. CASE OnInitializeResult
  <2>1. 1 \in 1..Len(pipe) /\ AnswersHandshake(1) /\ Running
    BY <1>0, <1>3, Taken DEF OnInitializeResult, AnswersHandshake, Take
  <2> QED
    BY <1>0, <1>2, <2>1 DEF OneHandshake
<1>4. CASE ClientShutdown
  BY <1>4 DEF ClientShutdown, DrainGate
<1>5. CASE UpstreamGone
  BY <1>5 DEF UpstreamGone, UpstreamClosed, UpstreamExited, ClosePending, DrainGate
<1> QED
  BY <1>1, <1>2, <1>3, <1>4, <1>5, HandshakeMoves DEF ClientInitialize, ClientInitialized, stageVars

--------------------------------------------------------------------------------
(* The theorems                                                             *)

\* The relay starts in the invariant.
LEMMA RelayInit == Init => RelayInv
<1> SUFFICES ASSUME Init
             PROVE  RelayInv
  OBVIOUS
<1>1. /\ <<>> \in Seq(Request) /\ <<>> \in Seq([id : Request, code : ErrorCodes])
      /\ <<>> \in Seq(Messages) /\ Len(<<>>) = 0
  BY EmptySeq
<1>2. Typed
  <2>1. /\ namedUnknown \in BOOLEAN /\ clientDeclared \in BOOLEAN /\ clientProgress \in BOOLEAN
        /\ initializeId \in BOOLEAN /\ handshakeDone \in BOOLEAN /\ identity \in BOOLEAN
        /\ queryPending \in BOOLEAN /\ standIn \in BOOLEAN /\ speaks \in BOOLEAN
        /\ stale \in BOOLEAN /\ untold \in BOOLEAN
    BY DEF Init
  <2>2. Len(pipe) <= MaxPipe
    BY <1>1, Constants DEF Init
  <2> QED
    BY <1>1, <2>1, <2>2, States DEF Init, Typed
<1>3. Stage /\ NothingObserved /\ HeldOpen /\ OwnState
  BY DEF Init, Stage, NothingObserved, HeldOpen, OwnState
<1>4. OneHandshake /\ DeclaredFirst
  BY <1>1 DEF Init, OneHandshake, DeclaredFirst
<1> QED
  BY <1>2, <1>3, <1>4 DEF RelayInv

\* Every step keeps it.
LEMMA RelayStep == RelayInv /\ [Next]_vars => RelayInv'
  BY TypedStep, StageStep, OneHandshakeStep, DeclaredFirstStep, OwnStateStep,
     NothingObservedStep, HeldOpenStep DEF RelayInv

\* The inductive invariant of the relay.
LEMMA RelayInvariant == Spec => []RelayInv
  BY RelayInit, RelayStep, PTL DEF Spec

\* Every variable keeps its type; only messages are in the pipe, and not more than
\* it holds.
THEOREM TypeCorrect == Spec => []TypeOK
<1>1. Typed => TypeOK
  <2>1. ASSUME Typed
        PROVE  Ids(held) \subseteq Request /\ Ids(arrived) \subseteq Request
               /\ Ids(forwarded) \subseteq Request
    BY <2>1, ElementOfSeq DEF Typed, Ids
  <2>2. ASSUME Typed
        PROVE  AnsweredIds \subseteq Request
    <3> DEFINE Answer == [id : Request, code : ErrorCodes]
    <3>1. answers \in Seq(Answer)
      BY <2>2 DEF Typed
    <3>2. \A i \in DOMAIN answers : answers[i] \in Answer
      <4> HIDE DEF Answer
      <4> QED
        BY <3>1, ElementOfSeq
    <3> QED
      BY <3>2 DEF AnsweredIds
  <2>3. Signal \subseteq ServerStates /\ Initializing \in ServerStates /\ Unobserved \in ServerStates
    BY States
  <2> QED
    BY <2>1, <2>2, <2>3 DEF Typed, TypeOK
<1> QED
  BY <1>1, RelayInvariant, PTL DEF RelayInv

\* The same gate under its two names.
LEMMA SameGate ==
  /\ TheGate!Init <=> G!Init
  /\ [TheGate!Next]_(TheGate!vars) <=> [G!Next]_(G!vars)
  /\ TheGate!OneFate <=> G!OneFate
  /\ TheGate!InOrder <=> G!InOrder
  /\ TheGate!HeldWaits <=> G!HeldWaits
<1>1. TheGate!Init <=> G!Init
  BY DEF TheGate!Init, G!Init, TheGate!Unobserved, G!Unobserved
<1>3. TheGate!Next <=> G!Next
  BY DEF TheGate!Next, G!Next, TheGate!AsksToDecide, G!AsksToDecide, TheGate!OnState,
         G!OnState, TheGate!Place, G!Place, TheGate!OnRequest, G!OnRequest, TheGate!Fresh,
         G!Fresh, TheGate!OnCancel, G!OnCancel, TheGate!Drain, G!Drain,
         TheGate!ServerStates, G!ServerStates, TheGate!Health, G!Health, TheGate!Readiness,
         G!Readiness, TheGate!ErrorCodes, G!ErrorCodes, TheGate!RequestFailed, G!RequestFailed,
         TheGate!RequestCancelled, G!RequestCancelled, TheGate!InternalError, G!InternalError,
         TheGate!Decision, G!Decision, TheGate!Verdict, G!Verdict, TheGate!Release, G!Release,
         TheGate!NothingReleased, G!NothingReleased, TheGate!Refusals, G!Refusals,
         TheGate!Ids, G!Ids, TheGate!IsFirst, G!IsFirst, TheGate!Without, G!Without
<1>4. TheGate!OneFate <=> G!OneFate
  BY DEF TheGate!OneFate, G!OneFate, TheGate!Distinct, G!Distinct, TheGate!AnsweredIds,
         G!AnsweredIds, TheGate!Ids, G!Ids
<1>5. TheGate!InOrder <=> G!InOrder
  BY DEF TheGate!InOrder, G!InOrder, TheGate!Ordered, G!Ordered, TheGate!Before, G!Before
<1>6. TheGate!HeldWaits <=> G!HeldWaits
  BY DEF TheGate!HeldWaits, G!HeldWaits, TheGate!WorthWaiting, G!WorthWaiting
<1>7. [TheGate!Next]_(TheGate!vars) <=> [G!Next]_(G!vars)
  BY <1>3 DEF TheGate!vars, G!vars
<1> QED
  BY <1>1, <1>4, <1>5, <1>6, <1>7

\* The relay implements the gate.
THEOREM RelayImplementsGate == Spec => ImplementsGate
<1>1. Init => TheGate!Init
  BY Vocabulary, SameGate DEF Init, G!Init, Boundary
<1>2. RelayInv /\ [Next]_vars => [TheGate!Next]_(TheGate!vars)
  BY GateStep, SameGate
<1> QED
  BY <1>1, <1>2, RelayInvariant, PTL DEF Spec, ImplementsGate, TheGate!Spec

\* What is proved of the gate is true of the gate inside the relay: requests wait
\* only while that makes sense, have one fate, and keep their order.
THEOREM GateInsideRelay ==
  Spec => [](TheGate!HeldWaits /\ TheGate!OneFate /\ TheGate!InOrder)
<1>1. Spec => G!Spec
  <2>1. Init => G!Init
    BY Vocabulary DEF Init, G!Init, Boundary
  <2> QED
    BY <2>1, GateStep, RelayInvariant, PTL DEF Spec, G!Spec
<1>2. TheGate!HeldWaits /\ TheGate!OneFate /\ TheGate!InOrder
        <=> G!HeldWaits /\ G!OneFate /\ G!InOrder
  BY SameGate
<1> QED
  BY <1>1, <1>2, G!WaitsOnlyWhileUseful, G!EveryRequestOneFate, G!RequestsKeepTheirOrder, PTL

\* While something is held, what could release it is read.
THEOREM SomeoneAlwaysListens == Spec => []SomeoneListens
<1>1. RelayInv => SomeoneListens
  BY NothingHeld DEF RelayInv, HeldOpen, Stage, SomeoneListens, Deaf, Unmapped
<1> QED
  BY <1>1, RelayInvariant, PTL

\* The id of initialize is kept exactly until its answer.
THEOREM InitializeIsAnsweredOnce == Spec => []InitializeAnsweredOnce
<1>1. RelayInv => InitializeAnsweredOnce
  BY DEF RelayInv, Stage, Typed, InitializeAnsweredOnce
<1> QED
  BY <1>1, RelayInvariant, PTL

--------------------------------------------------------------------------------
(* The end of the relay                                                     *)

\* A step that stops the relay leaves nothing behind, and nothing starts again.
LEMMA StopsCleanStep == RelayInv /\ StopsClean /\ [Next]_vars => StopsClean'
<1> SUFFICES ASSUME RelayInv, StopsClean, [Next]_vars
             PROVE  StopsClean'
  OBVIOUS
<1>0. Stage
  BY DEF RelayInv
<1> USE DEF StopsClean
<1>1. CASE UpstreamGone
  <2>1. upstream' = "dead" /\ ClosePending
    BY <1>1 DEF UpstreamGone, UpstreamClosed, UpstreamExited
  <2>2. held' = <<>> /\ client' # "asking"
    BY <1>0, <2>1 DEF ClosePending, DrainGate, Stage
  <2> QED
    BY <2>1, <2>2
<1>2. CASE ClientCloses
  BY <1>2 DEF ClientCloses
<1>3. ASSUME Running, UNCHANGED loop
      PROVE  StopsClean'
  BY <1>3 DEF Running
<1>4. CASE ClientNext /\ ~ClientCloses
  <2>1. Running /\ UNCHANGED loop
    BY <1>4 DEF ClientNext, ClientInitialize, ClientInitialized, ClientAsksState,
       ClientRequest, ClientCancel, ClientNotifies, ClientShutdown
  <2> QED
    BY <1>3, <2>1
<1>5. CASE OnUpstream
  <2>1. Running /\ UNCHANGED loop
    BY <1>5 DEF OnUpstream, OnNotification, OnResponse, OnInitializeResult, OnQueryAnswer,
                OnServerStateChanged, Take
  <2> QED
    BY <1>3, <2>1
<1>6. ASSUME NEW how, Ends(how)
      PROVE  StopsClean'
  BY <1>6 DEF Ends, gateVars
<1>7. CASE UpstreamNext /\ \A how \in {"mute", "dead"} : ~Ends(how)
  <2>1. \A m : Writes(m) => Running /\ UNCHANGED loop
    BY DEF Writes
  <2>2. Running /\ UNCHANGED loop
    BY <1>7, <2>1 DEF UpstreamNext, AnswersInitialize, Notifies, ChangesState, AnswersQuery, Responds
  <2> QED
    BY <1>3, <2>2
<1>8. CASE DiskChanges
  BY <1>8 DEF DiskChanges, gateVars, upstreamVars
<1>9. CASE UNCHANGED vars
  BY <1>9 DEF vars, gateVars, upstreamVars
<1> QED
  BY <1>1, <1>2, <1>4, <1>5, <1>6, <1>7, <1>8, <1>9 DEF Next, UpstreamNext

\* When the relay stops, the upstream is gone and everything it owed was answered.
THEOREM RelayStopsClean == Spec => []StopsClean
<1>1. Init => StopsClean
  BY DEF Init, StopsClean
<1> QED
  BY <1>1, RelayInvariant, StopsCleanStep, PTL DEF Spec

\* A step behind a shutdown sends nothing to the gate's server and asks nothing.
LEMMA QuietStep ==
  RelayInv /\ [Next]_vars
    => [client = "down" => forwarded' = forwarded /\ toAnswer' \subseteq toAnswer]_vars
<1> SUFFICES ASSUME RelayInv, [Next]_vars, client = "down"
             PROVE  forwarded' = forwarded /\ toAnswer' \subseteq toAnswer
  OBVIOUS
<1>0. held = <<>> /\ forwarded \in Seq(Request)
  BY DEF RelayInv, HeldOpen, Typed
<1>1. forwarded' = forwarded
  <2>1. ASSUME NEW s \in ServerStates, Releases(s)
        PROVE  forwarded' = forwarded
    <3>1. Release(held, s).forward = <<>>
      BY <1>0, ReleaseCases
    <3> QED
      BY <1>0, <2>1, <3>1, ConcatEmptySeq DEF Releases
  <2> QED
    BY <2>1, GateMoves DEF gateVars, DrainGate, ClientRequest, ClientCancel
<1>2. toAnswer' \subseteq toAnswer
  <2>1. CASE UpstreamNext /\ \A how \in {"mute", "dead"} : ~Ends(how)
    BY <2>1, WritesOne DEF WritesHandshake, WritesState, WritesQueryAnswer, WritesOther
  <2>2. CASE OnUpstream
    BY <2>2, TakesOne DEF OnInitializeResult, Take
  <2> QED
    BY <2>1, <2>2, PipeMoves DEF ClientInitialize, ClientInitialized, ClientShutdown, upstreamVars
<1> QED
  BY <1>1, <1>2

\* Behind a shutdown the server gets nothing of the proxy's own any more.
THEOREM NothingAfterShutdown == Spec => QuietAfterShutdown
  BY RelayInvariant, QuietStep, PTL DEF Spec, QuietAfterShutdown

--------------------------------------------------------------------------------
(* Files                                                                    *)

\* What a step takes from the next scan, it tells.
LEMMA NoChangeLostStep == NoChangeLost /\ [Next]_vars => NoChangeLost'
<1> SUFFICES ASSUME NoChangeLost, [Next]_vars
             PROVE  NoChangeLost'
  OBVIOUS
<1> USE DEF NoChangeLost
<1>s. ASSUME UNCHANGED diskVars
      PROVE  NoChangeLost'
  BY <1>s DEF diskVars
<1>1. ASSUME NEW declares, NEW progress, NEW watches, NEW inGit,
             ClientInitialize(declares, progress, watches, inGit)
      PROVE  NoChangeLost'
  BY <1>s, <1>1 DEF ClientInitialize, StartStandIn
<1>2. ASSUME NEW r, ClientRequest(r)
      PROVE  NoChangeLost'
  BY <1>s, <1>2 DEF ClientRequest, Scan
<1>3. ASSUME NEW predicted, NEW watchedFiles, ClientNotifies(predicted, watchedFiles)
      PROVE  NoChangeLost'
  BY <1>s, <1>3 DEF ClientNotifies
<1>4. CASE ClientNext
  BY <1>s, <1>1, <1>2, <1>3, <1>4 DEF ClientNext, ClientInitialized, ClientAsksState,
     ClientCancel, ClientShutdown, ClientCloses
<1>5. CASE OnUpstream
  BY <1>s, <1>5 DEF OnUpstream, OnNotification, OnResponse, OnInitializeResult, OnQueryAnswer,
                    OnServerStateChanged, Take
<1>6. CASE UpstreamGone
  BY <1>s, <1>6 DEF UpstreamGone, UpstreamClosed, UpstreamExited, ClosePending
<1>7. CASE UpstreamNext
  <2>1. \A m : Writes(m) => UNCHANGED diskVars
    BY DEF Writes
  <2>2. \A how : Ends(how) => UNCHANGED diskVars
    BY DEF Ends
  <2> QED
    BY <1>s, <1>7, <2>1, <2>2 DEF UpstreamNext, AnswersInitialize, Notifies, ChangesState,
                                  AnswersQuery, Responds
<1>8. CASE DiskChanges
  BY <1>8 DEF DiskChanges
<1>9. CASE UNCHANGED vars
  BY <1>s, <1>9 DEF vars
<1> QED
  BY <1>4, <1>5, <1>6, <1>7, <1>8, <1>9 DEF Next

\* A change of files that was not told will be found by the next scan.
THEOREM NoChangeIsLost == Spec => []NoChangeLost
<1>1. Init => NoChangeLost
  BY DEF Init, NoChangeLost
<1> QED
  BY <1>1, NoChangeLostStep, PTL DEF Spec

--------------------------------------------------------------------------------
(* One response                                                             *)

\* A response that is on its way, or was relayed, is one that the upstream wrote,
\* to a request that was forwarded to it.
ResponsesServed ==
  /\ \A i \in 1..Len(pipe) : pipe[i].kind = "response" => pipe[i].id \in served
  /\ relayed \subseteq served
  /\ served \subseteq Ids(forwarded)

\* What was forwarded stays forwarded.
LEMMA ForwardedGrows ==
  ASSUME RelayInv, [Next]_vars
  PROVE  Ids(forwarded) \subseteq Ids(forwarded')
<1>0. /\ forwarded \in Seq(Request) /\ held \in Seq(Request)
      /\ forwarded' \in Seq(Request)
  BY TypedStep DEF RelayInv, Typed
<1>1. ASSUME NEW s \in ServerStates, Releases(s)
      PROVE  Ids(forwarded) \subseteq Ids(forwarded')
  <2>1. PICK more \in Seq(Request) : more = Release(held, s).forward
    BY <1>0, ReleaseCases, EmptySeq
  <2>2. forwarded' = forwarded \o more
    BY <1>1, <2>1 DEF Releases
  <2>3. Ids(forwarded \o more) = Ids(forwarded) \cup Ids(more)
    BY <1>0, ConcatIds
  <2> QED
    BY <2>2, <2>3
<1>2. ASSUME NEW r \in Request, ClientRequest(r)
      PROVE  Ids(forwarded) \subseteq Ids(forwarded')
  <2>1. forwarded' = Append(forwarded, r) \/ forwarded' = forwarded
    <3>1. Decision(clientDeclared, Boundary) \in {"forward", "hold", "reject"}
      BY DEF Decision, Verdict
    <3> QED
      BY <1>2, <3>1 DEF ClientRequest
  <2>2. Ids(Append(forwarded, r)) = Ids(forwarded) \cup {r}
    BY <1>0, AppendIds
  <2>3. CASE forwarded' = Append(forwarded, r)
    BY <2>2, <2>3
  <2>4. CASE forwarded' = forwarded
    BY <2>4
  <2> QED
    BY <2>1, <2>3, <2>4
<1> QED
  BY <1>1, <1>2, GateMoves DEF gateVars, DrainGate, ClientCancel

\* Responses are written by the upstream and relayed by the loop.
LEMMA ResponseMoves ==
  ASSUME [Next]_vars
  PROVE  \/ UNCHANGED <<pipe, served, relayed>>
         \/ OnResponse
         \/ \E kind : kind # "response" /\ Take(kind) /\ UNCHANGED relayed
         \/ UpstreamNext
<1> USE DEF upstreamVars
<1>1. CASE ClientNext
  BY <1>1 DEF ClientNext, ClientInitialize, ClientInitialized, ClientAsksState, ClientRequest,
     ClientCancel, ClientNotifies, ClientShutdown, ClientCloses
<1>2. CASE OnUpstream
  BY <1>2 DEF OnUpstream, OnNotification, OnInitializeResult, OnQueryAnswer,
              OnServerStateChanged, AdoptIdentityState
<1>3. CASE UpstreamGone
  BY <1>3 DEF UpstreamGone, UpstreamClosed, UpstreamExited, ClosePending
<1>4. CASE DiskChanges \/ UNCHANGED vars
  BY <1>4 DEF DiskChanges, vars
<1> QED
  BY <1>1, <1>2, <1>3, <1>4 DEF Next

\* Only responses that were asked for are on their way.
LEMMA ResponsesServedStep ==
  RelayInv /\ ResponsesServed /\ [Next]_vars => ResponsesServed'
<1> SUFFICES ASSUME RelayInv, ResponsesServed, [Next]_vars
             PROVE  ResponsesServed'
  OBVIOUS
<1>0. /\ pipe \in Seq(Messages) /\ Len(pipe) \in Nat /\ RelayInv
      /\ Ids(forwarded) \subseteq Ids(forwarded')
  BY ForwardedGrows DEF RelayInv, Typed
<1> USE DEF ResponsesServed
<1>1. CASE UNCHANGED <<pipe, served, relayed>>
  BY <1>0, <1>1
<1>2. CASE OnResponse
  <2>1. /\ pipe[1].kind = "response" /\ 1 \in 1..Len(pipe)
        /\ \A i \in 1..Len(pipe') : i + 1 \in 1..Len(pipe) /\ pipe'[i] = pipe[i + 1]
        /\ relayed' = relayed \cup {pipe[1].id}
    BY <1>0, <1>2, Taken DEF OnResponse
  <2>2. UNCHANGED served
    BY <1>2 DEF OnResponse, Take
  <2> QED
    BY <1>0, <2>1, <2>2
<1>3. ASSUME NEW kind, Take(kind), UNCHANGED relayed
      PROVE  ResponsesServed'
  <2>1. \A i \in 1..Len(pipe') : i + 1 \in 1..Len(pipe) /\ pipe'[i] = pipe[i + 1]
    BY <1>0, <1>3, Taken
  <2>2. UNCHANGED served
    BY <1>3 DEF Take
  <2> QED
    BY <1>0, <1>3, <2>1, <2>2
<1>4. CASE UpstreamNext /\ \A how \in {"mute", "dead"} : ~Ends(how)
  <2>1. PICK m \in Messages : Writes(m) /\ WritesServed(m)
    BY <1>0, <1>4, WritesOne
  <2>2. /\ Len(pipe') = Len(pipe) + 1 /\ \A i \in 1..Len(pipe) : pipe'[i] = pipe[i]
        /\ pipe'[Len(pipe) + 1] = m
    BY <1>0, <2>1, Written
  <2>3. UNCHANGED relayed
    BY <2>1 DEF Writes
  <2>4. served \subseteq served' /\ served' \subseteq Ids(forwarded')
    BY <1>0, <2>1 DEF WritesServed
  <2>5. ASSUME NEW i \in 1..Len(pipe'), pipe'[i].kind = "response"
        PROVE  pipe'[i].id \in served'
    <3>1. CASE i \in 1..Len(pipe)
      BY <2>2, <2>4, <2>5, <3>1
    <3>2. CASE i = Len(pipe) + 1
      BY <2>1, <2>2, <2>5, <3>2 DEF WritesServed
    <3> QED
      BY <1>0, <2>2, <3>1, <3>2
  <2> QED
    BY <2>3, <2>4, <2>5
<1>5. ASSUME NEW how, Ends(how)
      PROVE  ResponsesServed'
  BY <1>1, <1>5 DEF Ends
<1> QED
  BY <1>1, <1>2, <1>3, <1>4, <1>5, ResponseMoves

\* The gate answers what it did not forward, the upstream what was forwarded: a
\* request has one response at most.
THEOREM OneResponseEach == Spec => []OneResponse
<1>1. Init => ResponsesServed
  BY EmptySeq DEF Init, ResponsesServed
<1>2. Spec => []ResponsesServed
  BY <1>1, ResponsesServedStep, RelayInvariant, PTL DEF Spec
<1>3. ResponsesServed /\ TheGate!OneFate => OneResponse
  <2>1. TheGate!OneFate => G!OneFate
    BY SameGate
  <2>2. G!AnsweredIds = AnsweredIds
    BY DEF G!AnsweredIds, AnsweredIds
  <2> QED
    BY <2>1, <2>2, Vocabulary DEF ResponsesServed, OneResponse, G!OneFate
<1> QED
  BY <1>2, <1>3, GateInsideRelay, PTL

--------------------------------------------------------------------------------
(* What the client knows                                                    *)

\* The client is told what a message moves, or nothing moves.
LEMMA ReadsKnows ==
  ASSUME RelayInv, ClientKnows, NEW s \in Signal \cup {None}, Reads(s),
         UNCHANGED <<handshakeDone, clientDeclared, identity>>
  PROVE  ClientKnows'
<1> USE DEF ClientKnows
<1>1. CASE s = None
  BY <1>1 DEF Reads, ReadsNothing, trackerVars
<1>2. CASE s # None /\ NotifiableChange(s, tracked)
  BY <1>2 DEF Reads, Apply, Notify
<1>3. CASE s # None /\ ~NotifiableChange(s, tracked)
  <2>1. s = tracked
    BY <1>3, NoChange, States DEF RelayInv, Typed
  <2> QED
    BY <1>3, <2>1 DEF Reads, Apply
<1> QED
  BY <1>1, <1>2, <1>3

\* A client that knew the state before a mapping is selected knew of none.
LEMMA ObserveKnows ==
  ASSUME RelayInv, ClientKnows, NEW name \in Name \cup {None}, NEW signal \in Signal \cup {None},
         Observe(name, signal), UNCHANGED <<handshakeDone, clientDeclared, identity>>
  PROVE  ClientKnows'
<1>1. CASE mapping # None
  BY <1>1, ReadsKnows DEF Observe
<1>2. CASE mapping = None /\ name \notin Name
  BY <1>2 DEF Observe, ReadsNothing, trackerVars, ClientKnows
<1>3. CASE mapping = None /\ name \in Name
  <2>1. /\ handshakeDone /\ clientDeclared /\ ~identity /\ told # None => told = Unobserved
        /\ mapping' = name /\ name # None
    BY <1>3, States DEF RelayInv, NothingObserved, ClientKnows, Observe
  <2>2. CASE signal = None
    BY <1>3, <2>1, <2>2 DEF Observe, ClientKnows
  <2>3. CASE signal # None /\ NotifiableChange(signal, InitialState[name])
    BY <1>3, <2>3 DEF Observe, Apply, Notify, ClientKnows
  <2>4. CASE signal # None /\ ~NotifiableChange(signal, InitialState[name])
    <3>1. signal = InitialState[name]
      BY <1>3, <2>4, NoChange, States
    <3> QED
      BY <1>3, <2>1, <2>4, <3>1 DEF Observe, Apply, ClientKnows
  <2> QED
    BY <2>2, <2>3, <2>4
<1> QED
  BY <1>1, <1>2, <1>3

\* No step hides a change from a client that subscribed.
LEMMA ClientKnowsStep == RelayInv /\ ClientKnows /\ [Next]_vars => ClientKnows'
<1> SUFFICES ASSUME RelayInv, ClientKnows, [Next]_vars
             PROVE  ClientKnows'
  OBVIOUS
<1>0. /\ pipe \in Seq(Messages) /\ Len(pipe) \in Nat /\ Stage /\ DeclaredFirst
      /\ RelayInv /\ ClientKnows
  BY DEF RelayInv, Typed
<1>s. ASSUME UNCHANGED <<handshakeDone, clientDeclared, identity, told, tracked, mapping>>
      PROVE  ClientKnows'
  BY <1>s DEF ClientKnows
<1> USE DEF trackerVars, sideVars
<1>1. ASSUME NEW declares, NEW progress, NEW watches, NEW inGit,
             ClientInitialize(declares, progress, watches, inGit)
      PROVE  ClientKnows'
  BY <1>0, <1>1 DEF ClientInitialize, Stage, ClientKnows
<1>2. CASE ClientAsksState
  BY <1>2 DEF ClientAsksState, ClientKnows
<1>3. ASSUME NEW predicted \in Signal \cup {None}, NEW watchedFiles,
             ClientNotifies(predicted, watchedFiles)
      PROVE  ClientKnows'
  <2>1. Reads(predicted) /\ UNCHANGED <<handshakeDone, clientDeclared, identity>>
    BY <1>3 DEF ClientNotifies
  <2> QED
    BY <1>0, <2>1, ReadsKnows
<1>4. ASSUME NEW r, ClientRequest(r) \/ ClientCancel(r)
      PROVE  ClientKnows'
  BY <1>s, <1>4 DEF ClientRequest, ClientCancel
<1>5. CASE ClientNext
  BY <1>s, <1>1, <1>2, <1>3, <1>4, <1>5 DEF ClientNext, ClientInitialized, ClientShutdown,
     ClientCloses
<1>6. CASE OnNotification
  <2>1. /\ Head(pipe) \in Messages /\ Head(pipe).kind = "notification"
        /\ UNCHANGED <<handshakeDone, clientDeclared, identity>>
    BY <1>0, <1>6, Taken DEF OnNotification
  <2>2. CASE Deaf \/ identity
    BY <1>s, <1>6, <2>2 DEF OnNotification, ReadsNothing
  <2>3. CASE ~(Deaf \/ identity)
    <3>1. Observe(Head(pipe).name, Head(pipe).signal)
      BY <1>6, <2>3 DEF OnNotification
    <3>2. Head(pipe).name \in Name \cup {None} /\ Head(pipe).signal \in Signal \cup {None}
      BY <2>1, MessageFields
    <3> QED
      BY <1>0, <2>1, <3>1, <3>2, ObserveKnows
  <2> QED
    BY <2>2, <2>3
<1>7. CASE OnInitializeResult
  BY <1>7 DEF OnInitializeResult, ClientKnows
<1>8. CASE OnServerStateChanged
  <2>1. 1 \in 1..Len(pipe) /\ TellsState(1)
    BY <1>0, <1>8, Taken DEF OnServerStateChanged, TellsState
  <2>2. identity
    BY <1>0, <2>1 DEF DeclaredFirst
  <2> QED
    BY <1>8, <2>2 DEF OnServerStateChanged, AdoptIdentityState, ClientKnows
<1>9. CASE OnResponse \/ OnQueryAnswer
  BY <1>s, <1>9 DEF OnResponse, OnQueryAnswer, AdoptIdentityState
<1>10. CASE UpstreamGone
  BY <1>s, <1>10 DEF UpstreamGone, UpstreamClosed, UpstreamExited, ClosePending
<1>11. CASE UpstreamNext
  <2>1. \A m : Writes(m) => UNCHANGED <<handshakeDone, clientDeclared, identity, told, tracked, mapping>>
    BY DEF Writes
  <2>2. \A how : Ends(how) => UNCHANGED <<handshakeDone, clientDeclared, identity, told, tracked, mapping>>
    BY DEF Ends
  <2> QED
    BY <1>s, <1>11, <2>1, <2>2 DEF UpstreamNext, AnswersInitialize, Notifies, ChangesState,
                                   AnswersQuery, Responds
<1>12. CASE DiskChanges \/ UNCHANGED vars
  BY <1>s, <1>12 DEF DiskChanges, vars
<1> QED
  BY <1>5, <1>6, <1>7, <1>8, <1>9, <1>10, <1>11, <1>12 DEF Next, OnUpstream

\* A client that subscribed and was told a state knows the state.
THEOREM SubscriberKnows == Spec => []ClientKnows
<1>1. Init => ClientKnows
  BY DEF Init, ClientKnows
<1> QED
  BY <1>1, ClientKnowsStep, RelayInvariant, PTL DEF Spec

--------------------------------------------------------------------------------
(* The state of an upstream that speaks the protocol                        *)

\* The state that message i tells.
Said(i) == IF pipe[i].state = None THEN Unobserved ELSE pipe[i].state

\* The last state on its way is the state of the upstream.
LastTold ==
  \A i \in 1..Len(pipe) :
    TellsState(i) /\ (\A j \in (i + 1)..Len(pipe) : ~TellsState(j)) => Said(i) = own

\* When no state is on its way and none was asked for, it was taken over.
TakenOver ==
  "query" \notin toAnswer /\ (\A i \in 1..Len(pipe) : ~TellsState(i)) => identityState = own

\* The state of the upstream is taken over from its messages.
LEMMA IdentityMoves ==
  ASSUME [Next]_vars
  PROVE  UNCHANGED identityState \/ OnQueryAnswer \/ OnServerStateChanged
<1> USE DEF sideVars
<1>1. CASE ClientNext
  BY <1>1 DEF ClientNext, ClientInitialize, ClientInitialized, ClientAsksState, ClientRequest,
     ClientCancel, ClientNotifies, ClientShutdown, ClientCloses
<1>2. CASE OnUpstream
  BY <1>2 DEF OnUpstream, OnNotification, OnResponse, OnInitializeResult
<1>3. CASE UpstreamGone
  BY <1>3 DEF UpstreamGone, UpstreamClosed, UpstreamExited, ClosePending
<1>4. CASE UpstreamNext
  <2>1. \A m : Writes(m) => UNCHANGED identityState
    BY DEF Writes
  <2>2. \A how : Ends(how) => UNCHANGED identityState
    BY DEF Ends
  <2> QED
    BY <1>4, <2>1, <2>2 DEF UpstreamNext, AnswersInitialize, Notifies, ChangesState,
                            AnswersQuery, Responds
<1>5. CASE DiskChanges \/ UNCHANGED vars
  BY <1>5 DEF DiskChanges, vars
<1> QED
  BY <1>1, <1>2, <1>3, <1>4, <1>5 DEF Next

\* Every step keeps the last state on its way, or takes it over.
LEMMA TakenOverStep ==
  RelayInv /\ LastTold /\ TakenOver /\ [Next]_vars => LastTold' /\ TakenOver'
<1> SUFFICES ASSUME RelayInv, LastTold, TakenOver, [Next]_vars
             PROVE  LastTold' /\ TakenOver'
  OBVIOUS
<1>0. /\ pipe \in Seq(Messages) /\ Len(pipe) \in Nat /\ RelayInv /\ own \in ServerStates
      /\ LastTold /\ TakenOver
  BY States DEF RelayInv, Typed
<1>s. ASSUME UNCHANGED <<pipe, own, identityState>>, toAnswer \cap {"query"} \subseteq toAnswer'
      PROVE  LastTold' /\ TakenOver'
  BY <1>0, <1>s DEF LastTold, TakenOver, TellsState, Said
<1>1. ASSUME NEW declares, NEW progress, NEW watches, NEW inGit,
             ClientInitialize(declares, progress, watches, inGit)
      PROVE  LastTold' /\ TakenOver'
  BY <1>s, <1>1 DEF ClientInitialize
<1>2. CASE ClientInitialized \/ ClientShutdown
  BY <1>s, <1>2 DEF ClientInitialized, ClientShutdown, sideVars, upstreamVars
<1>3. CASE UNCHANGED <<pipe, toAnswer, speaks, own>>
  <2>1. CASE UNCHANGED identityState
    BY <1>s, <1>3, <2>1
  <2>2. ~OnQueryAnswer /\ ~OnServerStateChanged
    <3>1. ASSUME NEW kind, Take(kind)
          PROVE  FALSE
      BY <1>0, <1>3, <3>1, Taken
    <3> QED
      BY <3>1 DEF OnQueryAnswer, OnServerStateChanged
  <2> QED
    BY <2>1, <2>2, IdentityMoves
<1>4. ASSUME NEW kind, Take(kind)
      PROVE  LastTold' /\ (pipe[1].kind = kind /\ ~TellsState(1) /\ UNCHANGED identityState => TakenOver')
  <2>1. /\ Len(pipe') = Len(pipe) - 1 /\ pipe[1].kind = kind /\ Len(pipe) >= 1
        /\ \A i \in 1..Len(pipe') : i + 1 \in 1..Len(pipe) /\ pipe'[i] = pipe[i + 1]
        /\ UNCHANGED <<own, toAnswer>>
    BY <1>0, <1>4, Taken DEF Take
  <2>2. \A i \in 1..Len(pipe') : (TellsState(i)' <=> TellsState(i + 1)) /\ Said(i)' = Said(i + 1)
    BY <2>1 DEF TellsState, Said
  <2>3. LastTold'
    <3>1. ASSUME NEW i \in 1..Len(pipe'), TellsState(i)',
                 \A j \in (i + 1)..Len(pipe') : ~TellsState(j)'
          PROVE  Said(i)' = own'
      <4>1. ASSUME NEW k \in ((i + 1) + 1)..Len(pipe)
            PROVE  ~TellsState(k)
        <5>1. k - 1 \in (i + 1)..Len(pipe') /\ (k - 1) + 1 = k
          BY <1>0, <2>1
        <5>2. k - 1 \in 1..Len(pipe')
          BY <5>1
        <5> QED
          BY <2>2, <3>1, <5>1, <5>2
      <4>2. i + 1 \in 1..Len(pipe) /\ TellsState(i + 1)
        BY <2>1, <2>2, <3>1
      <4>3. Said(i + 1) = own
        BY <1>0, <4>1, <4>2 DEF LastTold
      <4> QED
        BY <2>1, <2>2, <4>3
    <3> QED
      BY <3>1 DEF LastTold
  <2>4. ASSUME ~TellsState(1), UNCHANGED identityState
        PROVE  TakenOver'
    <3>1. ASSUME "query" \notin toAnswer', \A i \in 1..Len(pipe') : ~TellsState(i)'
          PROVE  \A k \in 1..Len(pipe) : ~TellsState(k)
      <4>1. ASSUME NEW k \in 1..Len(pipe), k # 1
            PROVE  ~TellsState(k)
        <5>1. k - 1 \in 1..Len(pipe') /\ (k - 1) + 1 = k
          BY <1>0, <2>1, <4>1
        <5> QED
          BY <2>2, <3>1, <5>1
      <4> QED
        BY <2>4, <4>1
    <3> QED
      BY <1>0, <2>1, <2>4, <3>1 DEF TakenOver
  <2> QED
    BY <2>3, <2>4
<1>5. CASE OnQueryAnswer \/ OnServerStateChanged
  <2>1. PICK kind : Take(kind) /\ kind \in {"queryAnswer", "serverStateChanged"}
    BY <1>5 DEF OnQueryAnswer, OnServerStateChanged
  <2>2. /\ Len(pipe') = Len(pipe) - 1 /\ pipe[1].kind = kind /\ Len(pipe) >= 1
        /\ pipe[1] \in Messages /\ Head(pipe) = pipe[1]
        /\ \A i \in 1..Len(pipe') : i + 1 \in 1..Len(pipe) /\ pipe'[i] = pipe[i + 1]
        /\ UNCHANGED <<own, toAnswer>>
    BY <1>0, <2>1, Taken DEF Take
  <2>3. identityState' = Said(1)
    <3>1. CASE OnQueryAnswer
      BY <2>2, <3>1 DEF OnQueryAnswer, AdoptIdentityState, Said
    <3>2. CASE OnServerStateChanged
      <4>1. Take("serverStateChanged")
        BY <3>2 DEF OnServerStateChanged
      <4>2. pipe[1].kind = "serverStateChanged"
        BY <1>0, <4>1, Taken
      <4>3. pipe[1].state # None
        BY <2>2, <4>2, MessageFields, States
      <4> QED
        BY <2>2, <3>2, <4>3 DEF OnServerStateChanged, AdoptIdentityState, Said
    <3> QED
      BY <1>5, <3>1, <3>2
  <2>4. ASSUME \A i \in 1..Len(pipe') : ~TellsState(i)'
        PROVE  Said(1) = own
    <3>1. ASSUME NEW k \in (1 + 1)..Len(pipe)
          PROVE  ~TellsState(k)
      <4>1. k - 1 \in 1..Len(pipe') /\ (k - 1) + 1 = k
        BY <1>0, <2>2
      <4>2. pipe'[k - 1] = pipe[k]
        BY <2>2, <4>1
      <4> QED
        BY <2>4, <4>1, <4>2 DEF TellsState
    <3>2. 1 \in 1..Len(pipe) /\ TellsState(1)
      BY <1>0, <2>1, <2>2 DEF TellsState
    <3> QED
      BY <1>0, <3>1, <3>2 DEF LastTold
  <2>5. TakenOver'
    BY <2>2, <2>3, <2>4 DEF TakenOver
  <2>6. LastTold'
    BY <1>4, <2>1
  <2> QED
    BY <2>5, <2>6
<1>6. CASE OnUpstream /\ ~(OnQueryAnswer \/ OnServerStateChanged)
  <2>1. PICK kind : Take(kind) /\ kind \notin {"queryAnswer", "serverStateChanged"}
    BY <1>6 DEF OnUpstream, OnNotification, OnResponse, OnInitializeResult
  <2>2. pipe[1].kind = kind /\ UNCHANGED identityState
    BY <1>0, <1>6, <2>1, Taken, IdentityMoves
  <2> QED
    BY <1>4, <2>1, <2>2 DEF TellsState
<1>7. CASE UpstreamNext /\ \A how \in {"mute", "dead"} : ~Ends(how)
  <2>1. PICK m \in Messages :
          /\ Writes(m)
          /\ WritesHandshake(m) \/ WritesState(m) \/ WritesQueryAnswer(m) \/ WritesOther(m)
    BY <1>0, <1>7, WritesOne
  <2>2. /\ Len(pipe') = Len(pipe) + 1 /\ \A i \in 1..Len(pipe) : pipe'[i] = pipe[i]
        /\ pipe'[Len(pipe) + 1] = m
    BY <1>0, <2>1, Written
  <2>3. UNCHANGED identityState
    BY <2>1 DEF Writes, sideVars
  <2>4. PICK last \in 1..Len(pipe') : last = Len(pipe) + 1
    BY <1>0, <2>2
  <2>5. /\ \A i \in 1..Len(pipe) : i \in 1..Len(pipe') /\ Said(i)' = Said(i)
        /\ \A i \in 1..Len(pipe) : TellsState(i)' <=> TellsState(i)
    BY <1>0, <2>2 DEF TellsState, Said
  <2>6. CASE WritesState(m) \/ WritesQueryAnswer(m)
    <3>1. TellsState(last)'
      BY <2>2, <2>4, <2>6 DEF TellsState, WritesState, WritesQueryAnswer
    <3>2. Said(last)' = own'
      BY <2>2, <2>4, <2>6, States DEF Said, WritesState, WritesQueryAnswer
    <3>3. TakenOver'
      BY <2>4, <3>1 DEF TakenOver
    <3>4. ASSUME NEW i \in 1..Len(pipe'), \A j \in (i + 1)..Len(pipe') : ~TellsState(j)'
          PROVE  i = last
      BY <1>0, <2>2, <2>4, <3>1, <3>4
    <3> QED
      BY <3>2, <3>3, <3>4 DEF LastTold
  <2>7. CASE WritesHandshake(m) \/ WritesOther(m)
    <3>1. /\ ~TellsState(last)' /\ UNCHANGED own
          /\ "query" \in toAnswer => "query" \in toAnswer'
      BY <2>2, <2>4, <2>7 DEF TellsState, WritesHandshake, WritesOther
    <3>2. ASSUME NEW i \in 1..Len(pipe'), TellsState(i)',
                 \A j \in (i + 1)..Len(pipe') : ~TellsState(j)'
          PROVE  Said(i)' = own'
      <4>1. i \in 1..Len(pipe)
        <5>1. i # last
          BY <3>1, <3>2
        <5> QED
          BY <1>0, <2>2, <2>4, <5>1
      <4>2. TellsState(i)
        BY <2>5, <3>2, <4>1
      <4>3. ASSUME NEW j \in (i + 1)..Len(pipe)
            PROVE  ~TellsState(j)
        <5>1. j \in 1..Len(pipe) /\ j \in (i + 1)..Len(pipe')
          BY <1>0, <2>2, <4>1
        <5> QED
          BY <2>5, <3>2, <5>1
      <4>4. Said(i) = own
        BY <1>0, <4>1, <4>2, <4>3 DEF LastTold
      <4> QED
        BY <2>5, <3>1, <4>1, <4>4
    <3>3. LastTold'
      BY <3>2 DEF LastTold
    <3>4. TakenOver'
      BY <1>0, <2>3, <2>5, <3>1 DEF TakenOver
    <3> QED
      BY <3>3, <3>4
  <2> QED
    BY <2>1, <2>6, <2>7
<1> QED
  BY <1>1, <1>2, <1>3, <1>5, <1>6, <1>7, PipeMoves

\* Once the query is answered, the boundary has the state that the upstream last told.
THEOREM BoundaryFollowsUpstream == Spec => []FollowsUpstream
<1>1. Init => LastTold /\ TakenOver
  BY EmptySeq DEF Init, LastTold, TakenOver
<1>2. Spec => [](LastTold /\ TakenOver)
  BY <1>1, TakenOverStep, RelayInvariant, PTL DEF Spec
<1>3. RelayInv /\ TakenOver => FollowsUpstream
  <2>1. ASSUME RelayInv, ~InPipe({"queryAnswer", "serverStateChanged"})
        PROVE  \A i \in 1..Len(pipe) : ~TellsState(i)
    <3>1. DOMAIN pipe = 1..Len(pipe)
      BY <2>1 DEF RelayInv, Typed
    <3> QED
      BY <2>1, <3>1 DEF InPipe, TellsState
  <2> QED
    BY <2>1 DEF TakenOver, FollowsUpstream
<1> QED
  BY <1>2, <1>3, RelayInvariant, PTL
================================================================================
