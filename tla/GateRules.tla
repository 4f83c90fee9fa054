------------------------------- MODULE GateRules -------------------------------
(***************************************************************************)
(* The decisions of gate.rs as functions of the queue of held requests and *)
(* of the state on the boundary.  Gate builds the state machine of the     *)
(* component from them, Proxy the whole relay.                             *)
(***************************************************************************)
EXTENDS ServerState, Sequences, Naturals

\* The error codes of gate.rs by name: -32803, -32800 and -32603.
RequestFailed == "RequestFailed"
RequestCancelled == "RequestCancelled"
InternalError == "InternalError"
ErrorCodes == {RequestFailed, RequestCancelled, InternalError}

\* Mutant: readiness is consulted before health.
VerdictReadinessFirst(s) ==
  IF s.readiness \in {"ready", "unknown"} THEN "forward"
  ELSE IF s.health = "error" THEN "reject" ELSE "hold"

\* A row of the decision table.  Health is looked at first.
Verdict(s) ==
  IF s.health = "error" THEN "reject"
  ELSE IF s.readiness \in {"ready", "unknown"} THEN "forward" ELSE "hold"

\* What becomes of a cross-workspace request that arrives in state s.
Decision(clientDecides, s) == IF clientDecides THEN "forward" ELSE Verdict(s)

\* Mutant: a response carries the place in the queue for the id.
RefusalsByPlace(q, code) == [i \in DOMAIN q |-> [id |-> i, code |-> code]]

\* Error responses for every request of queue q, in the order of the queue.
Refusals(q, code) == [i \in DOMAIN q |-> [id |-> q[i], code |-> code]]

\* What a re-evaluation in state s does to the queue q: which requests stay
\* held, which go upstream and which are answered with an error.
NothingReleased(q) == [held |-> q, forward |-> <<>>, refuse |-> <<>>]

\* Mutant: a ready server releases the oldest request only.
ReleaseOldest(q, s) ==
  CASE Verdict(s) = "hold" \/ q = <<>> -> NothingReleased(q)
    [] Verdict(s) = "forward" /\ q # <<>> ->
         [held |-> Tail(q), forward |-> <<Head(q)>>, refuse |-> <<>>]
    [] Verdict(s) = "reject" /\ q # <<>> ->
         [held |-> <<>>, forward |-> <<>>, refuse |-> Refusals(q, RequestFailed)]

\* Mutant: the queue is released newest first.
ReleaseNewestFirst(q, s) ==
  CASE Verdict(s) = "hold" -> NothingReleased(q)
    [] Verdict(s) = "forward" ->
         [held |-> <<>>, forward |-> [i \in DOMAIN q |-> q[Len(q) + 1 - i]], refuse |-> <<>>]
    [] Verdict(s) = "reject" ->
         [held |-> <<>>, forward |-> <<>>, refuse |-> Refusals(q, RequestFailed)]

Release(q, s) ==
  CASE Verdict(s) = "hold" -> NothingReleased(q)
    [] Verdict(s) = "forward" -> [held |-> <<>>, forward |-> q, refuse |-> <<>>]
    [] Verdict(s) = "reject" ->
         [held |-> <<>>, forward |-> <<>>, refuse |-> Refusals(q, RequestFailed)]

\* The requests of queue q.
Ids(q) == {q[i] : i \in DOMAIN q}

\* Queue q has no request twice.
Distinct(q) == \A i, j \in DOMAIN q : q[i] = q[j] => i = j

\* Queue q without its i-th request.
Without(q, i) == SubSeq(q, 1, i - 1) \o SubSeq(q, i + 1, Len(q))

\* The position of the first request of q with this id.
IsFirst(q, i, id) == i \in DOMAIN q /\ q[i] = id /\ \A j \in 1..(i - 1) : q[j] # id
================================================================================
