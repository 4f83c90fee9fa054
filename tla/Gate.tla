---------------------------------- MODULE Gate ----------------------------------
(***************************************************************************)
(* The gate of gate.rs: the downstream side stands in for a client that     *)
(* does not speak the protocol and holds its cross-workspace requests until *)
(* the state on the boundary lets them pass.                                *)
(*                                                                         *)
(* The gate does not own the state: its caller hands it over with every     *)
(* request, and calls on_state when it moved.  "state" is that value.  What *)
(* the gate relies on is stated in the guards of the actions its caller     *)
(* takes (AsksToDecide, Place and Fresh); Proxy is checked to keep to it.   *)
(***************************************************************************)
EXTENDS GateRules

CONSTANT Request          \* the ids of the client's cross-workspace requests

VARIABLES
  state,                  \* the state on the boundary, as the caller has it
  clientDecides,          \* the client declared experimental.serverState
  held,                   \* the requests waiting for ready, oldest first
  arrived,                \* history: every request given to the gate
  forwarded,              \* history: the requests sent upstream, in order
  answers                 \* history: the error responses sent to the client

vars == <<state, clientDecides, held, arrived, forwarded, answers>>

AnsweredIds == {answers[i].id : i \in DOMAIN answers}

TypeOK ==
  /\ state \in ServerStates
  /\ clientDecides \in BOOLEAN
  /\ held \in Seq(Request)
  /\ arrived \in Seq(Request)
  /\ forwarded \in Seq(Request)
  /\ answers \in Seq([id : Request, code : ErrorCodes])

--------------------------------------------------------------------------------

\* A gate is created with the proxy, before the server said anything.
Init ==
  /\ state = Unobserved
  /\ clientDecides = FALSE
  /\ held = <<>>
  /\ arrived = <<>>
  /\ forwarded = <<>>
  /\ answers = <<>>

\* set_client_decides.  The caller reads the declaration in initialize, before
\* any request of the client.
AsksToDecide(decides) ==
  /\ held = <<>>
  /\ clientDecides' = decides
  /\ UNCHANGED <<state, held, arrived, forwarded, answers>>

\* The ids of a client's requests are its own to keep apart.
Fresh(r) == r \notin Ids(arrived)

\* on_request for a cross-workspace method; the others are forwarded unseen.
OnRequest(r) ==
  /\ Fresh(r)
  /\ arrived' = Append(arrived, r)
  /\ CASE Decision(clientDecides, state) = "forward" ->
            forwarded' = Append(forwarded, r) /\ UNCHANGED <<held, answers>>
       [] Decision(clientDecides, state) = "hold" ->
            held' = Append(held, r) /\ UNCHANGED <<forwarded, answers>>
       [] Decision(clientDecides, state) = "reject" ->
            /\ answers' = Append(answers, [id |-> r, code |-> RequestFailed])
            /\ UNCHANGED <<held, forwarded>>
  /\ UNCHANGED <<state, clientDecides>>

\* The state on the boundary moved and the caller calls on_state.
OnState(s) ==
  LET out == Release(held, s) IN
  /\ state' = s
  /\ held' = out.held
  /\ forwarded' = forwarded \o out.forward
  /\ answers' = answers \o out.refuse
  /\ UNCHANGED <<clientDecides, arrived>>

\* The caller places a state without telling the gate (a mapping is selected,
\* or the upstream turns out to speak the protocol itself).
Place(s) ==
  /\ held = <<>>
  /\ state' = s
  /\ UNCHANGED <<clientDecides, held, arrived, forwarded, answers>>

\* Mutant: a cancelled request is answered but stays in the queue.
CancelKeepsHeld(r) ==
  /\ \E i \in DOMAIN held : IsFirst(held, i, r)
  /\ held' = held
  /\ answers' = Append(answers, [id |-> r, code |-> RequestCancelled])
  /\ UNCHANGED <<state, clientDecides, arrived, forwarded>>

\* $/cancelRequest for a held request; for any other the gate does nothing.
OnCancel(r) ==
  /\ \E i \in DOMAIN held :
       /\ IsFirst(held, i, r)
       /\ held' = Without(held, i)
  /\ answers' = Append(answers, [id |-> r, code |-> RequestCancelled])
  /\ UNCHANGED <<state, clientDecides, arrived, forwarded>>

\* Every held request is answered: the client asked for shutdown
\* (RequestFailed), or the upstream is gone (InternalError).
Drain(code) ==
  /\ code \in {RequestFailed, InternalError}
  /\ answers' = answers \o Refusals(held, code)
  /\ held' = <<>>
  /\ UNCHANGED <<state, clientDecides, arrived, forwarded>>

Next ==
  \/ \E decides \in BOOLEAN : AsksToDecide(decides)
  \/ \E s \in ServerStates : OnState(s) \/ Place(s)
  \/ \E r \in Request : OnRequest(r) \/ OnCancel(r)
  \/ \E code \in ErrorCodes : Drain(code)

Spec == Init /\ [][Next]_vars

--------------------------------------------------------------------------------
(* Properties                                                               *)

\* A request waits only while waiting makes sense: not for a broken server, not
\* for one that has no signal to wait for, not for a client that decides itself.
HeldWaits ==
  held # <<>> => WorthWaiting(state) /\ ~clientDecides

\* The queue, the server and the error responses share no request, each holds a
\* request once, and every request that arrived is in one of them: none is lost
\* by the gate and none is both forwarded and answered.
OneFate ==
  /\ Distinct(held)
  /\ Distinct(forwarded)
  /\ \A i, j \in DOMAIN answers : answers[i].id = answers[j].id => i = j
  /\ Ids(held) \cap Ids(forwarded) = {}
  /\ Ids(held) \cap AnsweredIds = {}
  /\ Ids(forwarded) \cap AnsweredIds = {}
  /\ Ids(arrived) = Ids(held) \cup Ids(forwarded) \cup AnsweredIds

\* x is listed before y in from.
Before(from, x, y) ==
  \E a, b \in DOMAIN from : a < b /\ from[a] = x /\ from[b] = y

\* The requests of line are listed in from in the order of line.
Ordered(line, from) ==
  \A i, j \in DOMAIN line : i < j => Before(from, line[i], line[j])

\* Requests reach the server, now and after a release, in the order in which the
\* client sent them, whatever was cancelled or refused in between.
InOrder == Ordered(forwarded \o held, arrived)

\* Nothing is sent to a server whose answer could not be trusted, unless the
\* client said that it decides for itself.
NothingSentTooEarly ==
  [][forwarded' # forwarded => clientDecides \/ Trustworthy(state')]_vars

\* The gate keeps the promises of Holding.
Promise == INSTANCE Holding WITH
  waiting <- held, passed <- forwarded, refused <- AnsweredIds

KeepsPromise == Promise!Spec
================================================================================
