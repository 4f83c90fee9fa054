------------------------------- MODULE GateProofs -------------------------------
(***************************************************************************)
(* What the gate guarantees for any number of requests, of states and of   *)
(* cancellations: the inductive invariants, one step per action of the     *)
(* gate.  The facts about its queues are in GateRulesProofs.                *)
(***************************************************************************)
EXTENDS Gate, GateRulesProofs

--------------------------------------------------------------------------------
(***************************************************************************)
(* Type correctness                                                         *)
(***************************************************************************)

\* Every step of the gate keeps its variables in their types.
LEMMA TypeStep == TypeOK /\ [Next]_vars => TypeOK'
<1> DEFINE Answer == [id : Request, code : ErrorCodes]
<1> SUFFICES ASSUME TypeOK, [Next]_vars
             PROVE  TypeOK'
  OBVIOUS
<1>0. /\ state \in ServerStates /\ clientDecides \in BOOLEAN
      /\ held \in Seq(Request) /\ arrived \in Seq(Request) /\ forwarded \in Seq(Request)
      /\ answers \in Seq(Answer)
  BY DEF TypeOK
<1>e. /\ <<>> \in Seq(Request) /\ <<>> \in Seq(Answer)
  OBVIOUS
<1>a. \A r \in Request, code \in ErrorCodes : [id |-> r, code |-> code] \in Answer
  OBVIOUS
<1>1. ASSUME NEW decides \in BOOLEAN, AsksToDecide(decides)
      PROVE  TypeOK'
  BY <1>0, <1>1 DEF AsksToDecide, TypeOK
<1>2. ASSUME NEW s \in ServerStates, OnState(s)
      PROVE  TypeOK'
  <2>1. /\ Release(held, s).held \in Seq(Request)
        /\ Release(held, s).forward \in Seq(Request)
        /\ Release(held, s).refuse \in Seq(Answer)
    <3>1. Refusals(held, RequestFailed) \in Seq(Answer)
      BY <1>0, Codes, RefusalsIds
    <3> HIDE DEF Answer
    <3> QED
      BY <1>0, <1>e, <3>1, ReleaseCases
  <2>2. /\ forwarded \o Release(held, s).forward \in Seq(Request)
        /\ answers \o Release(held, s).refuse \in Seq(Answer)
    <3> HIDE DEF Answer
    <3> QED
      BY <1>0, <2>1, ConcatProperties
  <2> QED
    BY <1>0, <1>2, <2>1, <2>2 DEF OnState, TypeOK
<1>3. ASSUME NEW s \in ServerStates, Place(s)
      PROVE  TypeOK'
  BY <1>0, <1>3 DEF Place, TypeOK
<1>4. ASSUME NEW r \in Request, OnRequest(r)
      PROVE  TypeOK'
  <2>1. /\ Append(held, r) \in Seq(Request)
        /\ Append(arrived, r) \in Seq(Request)
        /\ Append(forwarded, r) \in Seq(Request)
    BY <1>0, AppendIds
  <2>2. Append(answers, [id |-> r, code |-> RequestFailed]) \in Seq(Answer)
    <3>1. [id |-> r, code |-> RequestFailed] \in Answer
      BY <1>a, Codes
    <3> HIDE DEF Answer
    <3> QED
      BY <1>0, <3>1
  <2>3. Decision(clientDecides, state) \in {"forward", "hold", "reject"}
    BY <1>0, Verdicts
  <2>4. CASE Decision(clientDecides, state) = "forward"
    BY <1>0, <1>4, <2>1, <2>4 DEF OnRequest, TypeOK
  <2>5. CASE Decision(clientDecides, state) = "hold"
    BY <1>0, <1>4, <2>1, <2>5 DEF OnRequest, TypeOK
  <2>6. CASE Decision(clientDecides, state) = "reject"
    BY <1>0, <1>4, <2>1, <2>2, <2>6 DEF OnRequest, TypeOK
  <2> QED
    BY <2>3, <2>4, <2>5, <2>6
<1>5. ASSUME NEW r \in Request, OnCancel(r)
      PROVE  TypeOK'
  <2>1. PICK i \in 1..Len(held) : held' = Without(held, i)
    BY <1>0, <1>5 DEF OnCancel
  <2>2. held' \in Seq(Request)
    BY <1>0, <2>1, WithoutElements
  <2>3. Append(answers, [id |-> r, code |-> RequestCancelled]) \in Seq(Answer)
    <3>1. [id |-> r, code |-> RequestCancelled] \in Answer
      BY <1>a, Codes
    <3> HIDE DEF Answer
    <3> QED
      BY <1>0, <3>1
  <2> QED
    BY <1>0, <1>5, <2>2, <2>3 DEF OnCancel, TypeOK
<1>6. ASSUME NEW code \in ErrorCodes, Drain(code)
      PROVE  TypeOK'
  <2>1. Refusals(held, code) \in Seq(Answer)
    BY <1>0, RefusalsIds
  <2>2. answers \o Refusals(held, code) \in Seq(Answer)
    <3> HIDE DEF Answer
    <3> QED
      BY <1>0, <2>1, ConcatProperties
  <2> QED
    BY <1>0, <1>e, <1>6, <2>2 DEF Drain, TypeOK
<1>7. CASE UNCHANGED vars
  BY <1>0, <1>7 DEF vars, TypeOK
<1> QED
  BY <1>1, <1>2, <1>3, <1>4, <1>5, <1>6, <1>7 DEF Next

\* The gate's variables keep their types in every behaviour.
THEOREM TypeCorrect == Spec => []TypeOK
<1>1. Init => TypeOK
  <2>1. Unobserved \in ServerStates
    BY DEF Unobserved, ServerStates, Health, Readiness
  <2>2. <<>> \in Seq(Request) /\ <<>> \in Seq([id : Request, code : ErrorCodes])
    BY EmptySeq
  <2> QED
    BY <2>1, <2>2 DEF Init, TypeOK
<1> QED
  BY <1>1, TypeStep, PTL DEF Spec

--------------------------------------------------------------------------------
(***************************************************************************)
(* Waiting only while it makes sense                                        *)
(***************************************************************************)

\* Every step of the gate keeps HeldWaits.
LEMMA HeldWaitsStep == TypeOK /\ HeldWaits /\ [Next]_vars => HeldWaits'
<1> SUFFICES ASSUME TypeOK, HeldWaits, [Next]_vars
             PROVE  HeldWaits'
  OBVIOUS
<1>0. /\ state \in ServerStates /\ clientDecides \in BOOLEAN
      /\ held \in Seq(Request)
  BY DEF TypeOK
<1>1. ASSUME NEW decides \in BOOLEAN, AsksToDecide(decides)
      PROVE  HeldWaits'
  BY <1>1 DEF AsksToDecide, HeldWaits
<1>2. ASSUME NEW s \in ServerStates, OnState(s)
      PROVE  HeldWaits'
  <2>1. held' = <<>> \/ (held' = held /\ WorthWaiting(s))
    BY <1>0, <1>2, ReleaseCases DEF OnState
  <2> QED
    BY <1>2, <2>1 DEF OnState, HeldWaits
<1>3. ASSUME NEW s \in ServerStates, Place(s)
      PROVE  HeldWaits'
  BY <1>3 DEF Place, HeldWaits
<1>4. ASSUME NEW r \in Request, OnRequest(r)
      PROVE  HeldWaits'
  <2>1. CASE Decision(clientDecides, state) = "hold"
    BY <1>0, <1>4, <2>1, Verdicts DEF OnRequest, HeldWaits
  <2>2. CASE Decision(clientDecides, state) # "hold"
    <3>1. held' = held /\ state' = state /\ clientDecides' = clientDecides
      BY <1>0, <1>4, <2>2, Verdicts DEF OnRequest
    <3> QED
      BY <3>1 DEF HeldWaits, WorthWaiting
  <2> QED
    BY <2>1, <2>2
<1>5. ASSUME NEW r \in Request, OnCancel(r)
      PROVE  HeldWaits'
  <2>1. held # <<>>
    BY <1>0, <1>5 DEF OnCancel
  <2> QED
    BY <1>5, <2>1 DEF OnCancel, HeldWaits, WorthWaiting
<1>6. ASSUME NEW code \in ErrorCodes, Drain(code)
      PROVE  HeldWaits'
  BY <1>6 DEF Drain, HeldWaits
<1>7. CASE UNCHANGED vars
  BY <1>7 DEF vars, HeldWaits, WorthWaiting
<1> QED
  BY <1>1, <1>2, <1>3, <1>4, <1>5, <1>6, <1>7 DEF Next

\* No request ever waits for a server that is broken, for one that gives no
\* signal, or on behalf of a client that decides for itself.
THEOREM WaitsOnlyWhileUseful == Spec => []HeldWaits
<1>1. Init => TypeOK /\ HeldWaits
  <2>1. Init => HeldWaits
    BY DEF Init, HeldWaits
  <2>2. Unobserved \in ServerStates
    BY DEF Unobserved, ServerStates, Health, Readiness
  <2>3. <<>> \in Seq(Request) /\ <<>> \in Seq([id : Request, code : ErrorCodes])
    BY EmptySeq
  <2> QED
    BY <2>1, <2>2, <2>3 DEF Init, TypeOK
<1> QED
  BY <1>1, TypeStep, HeldWaitsStep, PTL DEF Spec

--------------------------------------------------------------------------------
(***************************************************************************)
(* One fate                                                                 *)
(***************************************************************************)

\* Every step of the gate keeps OneFate: a step moves requests between the three
\* places or adds a new one to exactly one of them.
LEMMA OneFateStep == TypeOK /\ OneFate /\ [Next]_vars => OneFate'
<1> DEFINE Answer == [id : Request, code : ErrorCodes]
<1> SUFFICES ASSUME TypeOK, OneFate, [Next]_vars
             PROVE  OneFate'
  OBVIOUS
<1>0. /\ state \in ServerStates /\ clientDecides \in BOOLEAN
      /\ held \in Seq(Request) /\ arrived \in Seq(Request) /\ forwarded \in Seq(Request)
      /\ answers \in Seq(Answer)
  BY DEF TypeOK
<1>f. /\ Distinct(held) /\ Distinct(forwarded) /\ DistinctAnswers(answers)
      /\ Ids(held) \cap Ids(forwarded) = {}
      /\ Ids(held) \cap AnsweredBy(answers) = {}
      /\ Ids(forwarded) \cap AnsweredBy(answers) = {}
      /\ Ids(arrived) = Ids(held) \cup Ids(forwarded) \cup AnsweredBy(answers)
  BY DEF OneFate, AnsweredIds, AnsweredBy, DistinctAnswers
<1>g. SUFFICES /\ Distinct(held') /\ Distinct(forwarded') /\ DistinctAnswers(answers')
               /\ Ids(held') \cap Ids(forwarded') = {}
               /\ Ids(held') \cap AnsweredBy(answers') = {}
               /\ Ids(forwarded') \cap AnsweredBy(answers') = {}
               /\ Ids(arrived') = Ids(held') \cup Ids(forwarded') \cup AnsweredBy(answers')
  BY DEF OneFate, AnsweredIds, AnsweredBy, DistinctAnswers, Ids, Distinct
<1> DEFINE Goal == /\ Distinct(held') /\ Distinct(forwarded') /\ DistinctAnswers(answers')
                   /\ Ids(held') \cap Ids(forwarded') = {}
                   /\ Ids(held') \cap AnsweredBy(answers') = {}
                   /\ Ids(forwarded') \cap AnsweredBy(answers') = {}
                   /\ Ids(arrived') = Ids(held') \cup Ids(forwarded') \cup AnsweredBy(answers')
<1>n. /\ Ids(<<>>) = {} /\ Distinct(<<>>)
      /\ AnsweredBy(<<>>) = {} /\ DistinctAnswers(<<>>)
  BY DEF Ids, Distinct, AnsweredBy, DistinctAnswers
<1>1. ASSUME NEW decides \in BOOLEAN, AsksToDecide(decides)
      PROVE  Goal
  BY <1>1, <1>f DEF AsksToDecide
\* Refusing everything that waits moves the queue into the answers.
<1>r. ASSUME NEW code \in ErrorCodes
      PROVE  /\ AnsweredBy(answers \o Refusals(held, code)) = AnsweredBy(answers) \cup Ids(held)
             /\ DistinctAnswers(answers \o Refusals(held, code))
  <2>1. /\ Refusals(held, code) \in Seq(Answer)
        /\ AnsweredBy(Refusals(held, code)) = Ids(held)
        /\ DistinctAnswers(Refusals(held, code))
    BY <1>0, <1>f, RefusalsIds
  <2>2. AnsweredBy(answers) \cap AnsweredBy(Refusals(held, code)) = {}
    BY <1>f, <2>1
  <2>3. /\ AnsweredBy(answers \o Refusals(held, code))
             = AnsweredBy(answers) \cup AnsweredBy(Refusals(held, code))
        /\ DistinctAnswers(answers \o Refusals(held, code))
    BY <1>0, <1>f, <2>1, <2>2, ConcatAnswers
  <2> QED
    BY <2>1, <2>3
<1>2. ASSUME NEW s \in ServerStates, OnState(s)
      PROVE  Goal
  <2> DEFINE out == Release(held, s)
  <2>1. /\ held' = out.held /\ forwarded' = forwarded \o out.forward
        /\ answers' = answers \o out.refuse /\ arrived' = arrived
    BY <1>2 DEF OnState
  <2>e. /\ forwarded \o <<>> = forwarded /\ answers \o <<>> = answers
    <3> HIDE DEF Answer
    <3> QED
      BY <1>0, ConcatEmptySeq
  <2>2. CASE out.held = held /\ out.forward = <<>> /\ out.refuse = <<>>
    <3>1. held' = held /\ forwarded' = forwarded /\ answers' = answers /\ arrived' = arrived
      BY <2>1, <2>2, <2>e
    <3> QED
      BY <1>f, <3>1
  <2>3. CASE out.held = <<>> /\ out.forward = held /\ out.refuse = <<>>
    <3>1. held' = <<>> /\ forwarded' = forwarded \o held /\ answers' = answers /\ arrived' = arrived
      BY <2>1, <2>3, <2>e
    <3>2. Ids(forwarded') = Ids(forwarded) \cup Ids(held) /\ Distinct(forwarded')
      BY <1>0, <1>f, <3>1, ConcatIds
    <3> QED
      BY <1>f, <1>n, <3>1, <3>2
  <2>4. CASE out.held = <<>> /\ out.forward = <<>> /\ out.refuse = Refusals(held, RequestFailed)
    <3>1. /\ held' = <<>> /\ forwarded' = forwarded /\ arrived' = arrived
          /\ answers' = answers \o Refusals(held, RequestFailed)
      BY <2>1, <2>4, <2>e
    <3>2. AnsweredBy(answers') = AnsweredBy(answers) \cup Ids(held) /\ DistinctAnswers(answers')
      BY <1>r, <3>1, Codes
    <3> QED
      BY <1>f, <1>n, <3>1, <3>2
  <2> QED
    BY <1>0, <2>2, <2>3, <2>4, ReleaseCases
<1>3. ASSUME NEW s \in ServerStates, Place(s)
      PROVE  Goal
  BY <1>3, <1>f DEF Place
<1>4. ASSUME NEW r \in Request, OnRequest(r)
      PROVE  Goal
  <2>1. /\ r \notin Ids(held) /\ r \notin Ids(forwarded) /\ r \notin AnsweredBy(answers)
        /\ arrived' = Append(arrived, r)
    BY <1>4, <1>f DEF OnRequest, Fresh
  <2>2. Ids(arrived') = Ids(arrived) \cup {r}
    BY <1>0, <2>1, AppendIds
  <2>3. Decision(clientDecides, state) \in {"forward", "hold", "reject"}
    BY <1>0, Verdicts
  <2>4. CASE Decision(clientDecides, state) = "forward"
    <3>1. forwarded' = Append(forwarded, r) /\ held' = held /\ answers' = answers
      BY <1>4, <2>4 DEF OnRequest
    <3>2. Ids(forwarded') = Ids(forwarded) \cup {r} /\ Distinct(forwarded')
      BY <1>0, <1>f, <2>1, <3>1, AppendIds
    <3> QED
      BY <1>f, <2>1, <2>2, <3>1, <3>2
  <2>5. CASE Decision(clientDecides, state) = "hold"
    <3>1. held' = Append(held, r) /\ forwarded' = forwarded /\ answers' = answers
      BY <1>4, <2>5 DEF OnRequest
    <3>2. Ids(held') = Ids(held) \cup {r} /\ Distinct(held')
      BY <1>0, <1>f, <2>1, <3>1, AppendIds
    <3> QED
      BY <1>f, <2>1, <2>2, <3>1, <3>2
  <2>6. CASE Decision(clientDecides, state) = "reject"
    <3>1. /\ answers' = Append(answers, [id |-> r, code |-> RequestFailed])
          /\ held' = held /\ forwarded' = forwarded
      BY <1>4, <2>6 DEF OnRequest
    <3>2. AnsweredBy(answers') = AnsweredBy(answers) \cup {r} /\ DistinctAnswers(answers')
      <4>1. [id |-> r, code |-> RequestFailed] \in Answer
        BY Codes
      <4> HIDE DEF Answer
      <4> QED
        BY <1>0, <1>f, <2>1, <3>1, <4>1, AppendAnswer
    <3> QED
      BY <1>f, <2>1, <2>2, <3>1, <3>2
  <2> QED
    BY <2>3, <2>4, <2>5, <2>6
<1>5. ASSUME NEW r \in Request, OnCancel(r)
      PROVE  Goal
  <2>1. PICK i \in 1..Len(held) : held[i] = r /\ held' = Without(held, i)
    BY <1>0, <1>5 DEF OnCancel, IsFirst
  <2>2. /\ answers' = Append(answers, [id |-> r, code |-> RequestCancelled])
        /\ forwarded' = forwarded /\ arrived' = arrived
    BY <1>5 DEF OnCancel
  <2>3. Ids(held') = Ids(held) \ {r} /\ Distinct(held')
    BY <1>0, <1>f, <2>1, WithoutIds
  <2>4. r \in Ids(held)
    BY <1>0, <2>1 DEF Ids
  <2>5. AnsweredBy(answers') = AnsweredBy(answers) \cup {r} /\ DistinctAnswers(answers')
    <3>1. [id |-> r, code |-> RequestCancelled] \in Answer
      BY Codes
    <3> HIDE DEF Answer
    <3> QED
      BY <1>0, <1>f, <2>2, <2>4, <3>1, AppendAnswer
  <2> QED
    BY <1>f, <2>2, <2>3, <2>4, <2>5
<1>6. ASSUME NEW code \in ErrorCodes, Drain(code)
      PROVE  Goal
  <2>1. /\ held' = <<>> /\ forwarded' = forwarded /\ arrived' = arrived
        /\ answers' = answers \o Refusals(held, code)
    BY <1>6 DEF Drain
  <2> QED
    BY <1>f, <1>n, <1>r, <2>1
<1>7. CASE UNCHANGED vars
  BY <1>7, <1>f DEF vars
<1> QED
  BY <1>1, <1>2, <1>3, <1>4, <1>5, <1>6, <1>7 DEF Next

\* No request is lost, and none is both sent to the server and refused.
THEOREM EveryRequestOneFate == Spec => []OneFate
<1>1. Init => OneFate
  BY DEF Init, OneFate, Distinct, Ids, AnsweredIds
<1> QED
  BY <1>1, TypeCorrect, OneFateStep, PTL DEF Spec

--------------------------------------------------------------------------------
(***************************************************************************)
(* Order                                                                    *)
(***************************************************************************)

\* A request that arrives last may stand last in the line.
LEMMA OrderedAppend ==
  ASSUME NEW line \in Seq(Request), NEW from \in Seq(Request), NEW r \in Request,
         Ordered(line, from), Ids(line) \subseteq Ids(from)
  PROVE  /\ Ordered(Append(line, r), Append(from, r))
         /\ Ordered(line, Append(from, r))
<1>1. /\ Len(line) \in Nat /\ Len(from) \in Nat
      /\ DOMAIN line = 1..Len(line) /\ DOMAIN from = 1..Len(from)
      /\ DOMAIN Append(line, r) = 1..(Len(line) + 1)
      /\ DOMAIN Append(from, r) = 1..(Len(from) + 1)
      /\ \A i \in 1..Len(line) : Append(line, r)[i] = line[i]
      /\ \A i \in 1..Len(from) : Append(from, r)[i] = from[i]
      /\ Append(line, r)[Len(line) + 1] = r
      /\ Append(from, r)[Len(from) + 1] = r
  OBVIOUS
<1>2. ASSUME NEW x, NEW y, Before(from, x, y)
      PROVE  Before(Append(from, r), x, y)
  <2>1. PICK a \in 1..Len(from), b \in 1..Len(from) : a < b /\ from[a] = x /\ from[b] = y
    BY <1>1, <1>2 DEF Before
  <2>2. /\ a \in 1..(Len(from) + 1) /\ b \in 1..(Len(from) + 1)
        /\ Append(from, r)[a] = x /\ Append(from, r)[b] = y
    BY <1>1, <2>1
  <2> QED
    BY <1>1, <2>1, <2>2 DEF Before
<1>3. ASSUME NEW x \in Ids(from)
      PROVE  Before(Append(from, r), x, r)
  <2>1. PICK a \in 1..Len(from) : from[a] = x
    BY <1>1 DEF Ids
  <2>2. /\ a \in 1..(Len(from) + 1) /\ Len(from) + 1 \in 1..(Len(from) + 1)
        /\ a < Len(from) + 1 /\ Append(from, r)[a] = x
    BY <1>1, <2>1
  <2> QED
    BY <1>1, <2>2 DEF Before
<1>4. Ordered(line, Append(from, r))
  BY <1>1, <1>2 DEF Ordered
<1>5. ASSUME NEW i \in 1..(Len(line) + 1), NEW j \in 1..(Len(line) + 1), i < j
      PROVE  Before(Append(from, r), Append(line, r)[i], Append(line, r)[j])
  <2>1. i \in 1..Len(line) /\ Append(line, r)[i] = line[i]
    BY <1>1, <1>5
  <2>2. CASE j \in 1..Len(line)
    <3>1. Before(from, line[i], line[j])
      BY <1>1, <1>5, <2>1, <2>2 DEF Ordered
    <3> QED
      BY <1>1, <1>2, <2>1, <2>2, <3>1
  <2>3. CASE j = Len(line) + 1
    <3>1. line[i] \in Ids(from)
      BY <1>1, <2>1 DEF Ids
    <3> QED
      BY <1>1, <1>3, <2>1, <2>3, <3>1
  <2> QED
    BY <1>1, <2>2, <2>3
<1>6. Ordered(Append(line, r), Append(from, r))
  BY <1>1, <1>5 DEF Ordered
<1> QED
  BY <1>4, <1>6

\* Leaving the line keeps the order of the others.
LEMMA OrderedWithout ==
  ASSUME NEW line \in Seq(Request), NEW from \in Seq(Request), NEW i \in 1..Len(line),
         Ordered(line, from)
  PROVE  Ordered(Without(line, i), from)
<1> DEFINE w == Without(line, i)
           at(j) == IF j < i THEN j ELSE j + 1
<1>1. /\ w \in Seq(Request)
      /\ Len(w) = Len(line) - 1
      /\ \A j \in 1..(Len(line) - 1) : w[j] = IF j < i THEN line[j] ELSE line[j + 1]
  BY WithoutElements
<1> HIDE DEF w
<1>2. /\ Len(line) \in Nat
      /\ DOMAIN line = 1..Len(line)
      /\ DOMAIN w = 1..(Len(line) - 1)
  BY <1>1
<1>3. \A j \in 1..(Len(line) - 1) : at(j) \in 1..Len(line) /\ w[j] = line[at(j)]
  BY <1>1, <1>2
<1>4. \A j, k \in 1..(Len(line) - 1) : j < k => at(j) < at(k)
  BY <1>2
<1> HIDE DEF at
<1>5. Ordered(w, from)
  BY <1>2, <1>3, <1>4 DEF Ordered
<1> QED
  BY <1>5 DEF w

\* So does dropping everything that stands behind some point.
LEMMA OrderedPrefix ==
  ASSUME NEW p \in Seq(Request), NEW q \in Seq(Request), NEW from \in Seq(Request),
         Ordered(p \o q, from)
  PROVE  Ordered(p, from)
<1>1. /\ Len(p) \in Nat /\ Len(q) \in Nat
      /\ DOMAIN p = 1..Len(p)
      /\ DOMAIN (p \o q) = 1..(Len(p) + Len(q))
      /\ \A i \in 1..Len(p) : (p \o q)[i] = p[i]
  BY ConcatProperties
<1>2. \A i \in 1..Len(p) : i \in 1..(Len(p) + Len(q))
  BY <1>1
<1> QED
  BY <1>1, <1>2 DEF Ordered

\* A request that leaves the queue leaves the line of forwarded and held requests.
LEMMA WithoutOfLine ==
  ASSUME NEW p \in Seq(Request), NEW q \in Seq(Request), NEW i \in 1..Len(q)
  PROVE  /\ Len(p) + i \in 1..Len(p \o q)
         /\ p \o Without(q, i) = Without(p \o q, Len(p) + i)
<1> DEFINE n == Len(p) + i
           w == Without(q, i)
           v == Without(p \o q, n)
<1>1. /\ p \o q \in Seq(Request)
      /\ Len(p) \in Nat /\ Len(q) \in Nat
      /\ Len(p \o q) = Len(p) + Len(q)
      /\ \A k \in 1..(Len(p) + Len(q)) : (p \o q)[k] = IF k <= Len(p) THEN p[k] ELSE q[k - Len(p)]
  BY ConcatProperties
<1>2. n \in 1..Len(p \o q)
  BY <1>1
<1>3. /\ w \in Seq(Request)
      /\ Len(w) = Len(q) - 1
      /\ \A j \in 1..(Len(q) - 1) : w[j] = IF j < i THEN q[j] ELSE q[j + 1]
  BY WithoutElements
<1>4. /\ v \in Seq(Request)
      /\ Len(v) = Len(p \o q) - 1
      /\ \A j \in 1..(Len(p \o q) - 1) : v[j] = IF j < n THEN (p \o q)[j] ELSE (p \o q)[j + 1]
  <2> HIDE DEF n
  <2> QED
    BY <1>1, <1>2, WithoutElements
<1> HIDE DEF w, v
<1>5. /\ p \o w \in Seq(Request)
      /\ Len(p \o w) = Len(p) + (Len(q) - 1)
      /\ \A k \in 1..(Len(p) + (Len(q) - 1)) : (p \o w)[k] = IF k <= Len(p) THEN p[k] ELSE w[k - Len(p)]
  <2>1. /\ p \o w \in Seq(Request)
        /\ Len(p \o w) = Len(p) + Len(w)
        /\ \A k \in 1..(Len(p) + Len(w)) : (p \o w)[k] = IF k <= Len(p) THEN p[k] ELSE w[k - Len(p)]
    BY <1>3, ConcatProperties
  <2> QED
    BY <1>3, <2>1
<1>6. ASSUME NEW k \in 1..(Len(p) + (Len(q) - 1))
      PROVE  (p \o w)[k] = v[k]
  <2>0. /\ k \in 1..(Len(p) + Len(q)) /\ k + 1 \in 1..(Len(p) + Len(q))
        /\ k \in 1..(Len(p \o q) - 1)
    BY <1>1
  <2>1. CASE k <= Len(p)
    <3>1. k < n
      BY <1>1, <2>1
    <3> QED
      BY <1>1, <1>4, <1>5, <2>0, <2>1, <3>1
  <2>2. CASE k > Len(p) /\ k < n
    <3>1. k - Len(p) \in 1..(Len(q) - 1) /\ k - Len(p) < i /\ ~(k <= Len(p))
      BY <1>1, <2>2
    <3>2. (p \o w)[k] = q[k - Len(p)]
      BY <1>3, <1>5, <3>1
    <3>3. v[k] = q[k - Len(p)]
      BY <1>1, <1>4, <2>0, <2>2, <3>1
    <3> QED
      BY <3>2, <3>3
  <2>3. CASE k >= n
    <3>1. /\ k - Len(p) \in 1..(Len(q) - 1) /\ ~(k - Len(p) < i)
          /\ ~(k <= Len(p)) /\ ~(k + 1 <= Len(p)) /\ ~(k < n)
          /\ (k + 1) - Len(p) = (k - Len(p)) + 1
      BY <1>1, <2>3
    <3>2. (p \o w)[k] = q[(k - Len(p)) + 1]
      BY <1>3, <1>5, <3>1
    <3>3. v[k] = q[(k + 1) - Len(p)]
      BY <1>1, <1>4, <2>0, <3>1
    <3> QED
      BY <3>1, <3>2, <3>3
  <2>4. k <= Len(p) \/ (k > Len(p) /\ k < n) \/ k >= n
    BY <1>1
  <2> QED
    BY <2>1, <2>2, <2>3, <2>4
<1>7. p \o w = v
  <2>1. Len(p \o w) = Len(v)
    BY <1>1, <1>4, <1>5
  <2> QED
    BY <1>4, <1>5, <1>6, <2>1, SeqEqual
<1> QED
  BY <1>2, <1>7 DEF w, v

\* Every step of the gate keeps InOrder.  A new request is forwarded at once only
\* when nobody is held (HeldWaits), so it always takes the last place.
LEMMA InOrderStep ==
  TypeOK /\ HeldWaits /\ OneFate /\ InOrder /\ [Next]_vars => InOrder'
<1> SUFFICES ASSUME TypeOK, HeldWaits, OneFate, InOrder, [Next]_vars
             PROVE  InOrder'
  OBVIOUS
<1> DEFINE line == forwarded \o held
<1>0. /\ state \in ServerStates /\ clientDecides \in BOOLEAN
      /\ held \in Seq(Request) /\ arrived \in Seq(Request) /\ forwarded \in Seq(Request)
  BY DEF TypeOK
<1>l. /\ line \in Seq(Request)
      /\ Ids(line) \subseteq Ids(arrived)
      /\ Ordered(line, arrived)
  <2>1. line \in Seq(Request) /\ Ids(line) = Ids(forwarded) \cup Ids(held)
    BY <1>0, ConcatIds
  <2> QED
    BY <2>1 DEF OneFate, InOrder
<1>e. forwarded \o <<>> = forwarded
  BY <1>0, ConcatEmptySeq
<1>s. SUFFICES Ordered(forwarded' \o held', arrived')
  BY DEF InOrder, Ordered, Before
<1> HIDE DEF line
<1>p. Ordered(forwarded, arrived)
  BY <1>0, <1>l, OrderedPrefix DEF line
<1>1. ASSUME NEW decides \in BOOLEAN, AsksToDecide(decides)
      PROVE  Ordered(forwarded' \o held', arrived')
  BY <1>1, <1>l DEF AsksToDecide, line
<1>2. ASSUME NEW s \in ServerStates, OnState(s)
      PROVE  Ordered(forwarded' \o held', arrived')
  <2>1. /\ arrived' = arrived
        /\ \/ held' = held /\ forwarded' = forwarded \o <<>>
           \/ held' = <<>> /\ forwarded' = forwarded \o held
           \/ held' = <<>> /\ forwarded' = forwarded \o <<>>
    BY <1>0, <1>2, ReleaseCases DEF OnState
  <2>2. line \o <<>> = line
    BY <1>l, ConcatEmptySeq
  <2> QED
    BY <1>e, <1>l, <1>p, <2>1, <2>2 DEF line
<1>3. ASSUME NEW s \in ServerStates, Place(s)
      PROVE  Ordered(forwarded' \o held', arrived')
  BY <1>3, <1>l DEF Place, line
<1>4. ASSUME NEW r \in Request, OnRequest(r)
      PROVE  Ordered(forwarded' \o held', arrived')
  <2>1. /\ Ordered(Append(line, r), Append(arrived, r))
        /\ Ordered(line, Append(arrived, r))
    BY <1>0, <1>l, OrderedAppend
  <2>2. arrived' = Append(arrived, r)
    BY <1>4 DEF OnRequest
  <2>3. CASE Decision(clientDecides, state) = "forward"
    <3>1. held = <<>>
      BY <1>0, <2>3, Verdicts DEF HeldWaits, WorthWaiting, Trustworthy
    <3>2. forwarded' = Append(forwarded, r) /\ held' = <<>>
      BY <1>4, <2>3, <3>1 DEF OnRequest
    <3>3. line = forwarded
      BY <1>e, <3>1 DEF line
    <3>4. Append(forwarded, r) \o <<>> = Append(forwarded, r)
      <4>1. Append(forwarded, r) \in Seq(Request)
        BY <1>0, AppendIds
      <4> QED
        BY <4>1, ConcatEmptySeq
    <3> QED
      BY <2>1, <2>2, <3>2, <3>3, <3>4
  <2>4. CASE Decision(clientDecides, state) = "hold"
    <3>1. held' = Append(held, r) /\ forwarded' = forwarded
      BY <1>4, <2>4 DEF OnRequest
    <3>2. forwarded \o Append(held, r) = Append(line, r)
      BY <1>0 DEF line
    <3> QED
      BY <2>1, <2>2, <3>1, <3>2
  <2>5. CASE Decision(clientDecides, state) = "reject"
    <3>1. held' = held /\ forwarded' = forwarded
      BY <1>4, <2>5 DEF OnRequest
    <3> QED
      BY <2>1, <2>2, <3>1 DEF line
  <2> QED
    BY <1>0, <2>3, <2>4, <2>5, Verdicts
<1>5. ASSUME NEW r \in Request, OnCancel(r)
      PROVE  Ordered(forwarded' \o held', arrived')
  <2>1. PICK i \in 1..Len(held) : held' = Without(held, i)
    BY <1>0, <1>5 DEF OnCancel
  <2>2. forwarded' = forwarded /\ arrived' = arrived
    BY <1>5 DEF OnCancel
  <2>3. /\ Len(forwarded) + i \in 1..Len(line)
        /\ forwarded \o Without(held, i) = Without(line, Len(forwarded) + i)
    BY <1>0, WithoutOfLine DEF line
  <2>4. Ordered(Without(line, Len(forwarded) + i), arrived)
    BY <1>0, <1>l, <2>3, OrderedWithout
  <2> QED
    BY <2>1, <2>2, <2>3, <2>4
<1>6. ASSUME NEW code \in ErrorCodes, Drain(code)
      PROVE  Ordered(forwarded' \o held', arrived')
  <2>1. held' = <<>> /\ forwarded' = forwarded /\ arrived' = arrived
    BY <1>6 DEF Drain
  <2> QED
    BY <1>e, <1>p, <2>1
<1>7. CASE UNCHANGED vars
  BY <1>7, <1>l DEF vars, line
<1> QED
  BY <1>1, <1>2, <1>3, <1>4, <1>5, <1>6, <1>7 DEF Next

\* The server never sees two requests in another order than the client sent them.
THEOREM RequestsKeepTheirOrder == Spec => []InOrder
<1>1. Init => InOrder
  <2>1. <<>> \o <<>> = <<>>
    BY EmptySeq, ConcatEmptySeq
  <2>2. Ordered(<<>>, <<>>)
    BY DEF Ordered
  <2> QED
    BY <2>1, <2>2 DEF Init, InOrder
<1> QED
  BY <1>1, TypeCorrect, WaitsOnlyWhileUseful, EveryRequestOneFate, InOrderStep, PTL DEF Spec

--------------------------------------------------------------------------------
(***************************************************************************)
(* Nothing too early                                                        *)
(***************************************************************************)

\* A step that sends something sends it to a server that can be trusted, or for a
\* client that decides for itself.
LEMMA SendingStep ==
  TypeOK /\ [Next]_vars
    => [forwarded' # forwarded => clientDecides \/ Trustworthy(state')]_vars
<1> SUFFICES ASSUME TypeOK, [Next]_vars, forwarded' # forwarded
             PROVE  clientDecides \/ Trustworthy(state')
  OBVIOUS
<1>0. /\ state \in ServerStates /\ clientDecides \in BOOLEAN
      /\ held \in Seq(Request) /\ forwarded \in Seq(Request)
  BY DEF TypeOK
<1>1. CASE \E s \in ServerStates : OnState(s)
  <2>1. PICK s \in ServerStates : OnState(s)
    BY <1>1
  <2>2. forwarded \o <<>> = forwarded
    BY <1>0, ConcatEmptySeq
  <2>3. forwarded' = forwarded \o Release(held, s).forward /\ state' = s
    BY <2>1 DEF OnState
  <2> QED
    BY <1>0, <2>2, <2>3, ReleaseCases
<1>2. CASE \E r \in Request : OnRequest(r)
  <2>1. PICK r \in Request : OnRequest(r)
    BY <1>2
  <2>2. Decision(clientDecides, state) = "forward" /\ state' = state
    BY <1>0, <2>1, Verdicts DEF OnRequest
  <2> QED
    BY <1>0, <2>2, Verdicts
<1> QED
  BY <1>1, <1>2 DEF Next, vars, AsksToDecide, Place, OnCancel, Drain

\* No request is ever sent to a server whose answer could not be trusted.
THEOREM NothingTooEarly == Spec => NothingSentTooEarly
  BY TypeCorrect, SendingStep, PTL DEF Spec, NothingSentTooEarly

--------------------------------------------------------------------------------
(***************************************************************************)
(* The gate implements the promise                                          *)
(***************************************************************************)

\* Every step of the gate is a step of Holding, or changes nothing it speaks of.
LEMMA PromiseStep ==
  TypeOK /\ HeldWaits /\ OneFate /\ [Next]_vars => [Promise!Next]_(Promise!vars)
<1> SUFFICES ASSUME TypeOK, HeldWaits, OneFate, [Next]_vars
             PROVE  Promise!Next \/ UNCHANGED <<held, forwarded, AnsweredIds>>
  BY DEF Promise!vars
<1> DEFINE Goal == Promise!Next \/ UNCHANGED <<held, forwarded, AnsweredIds>>
           Answer == [id : Request, code : ErrorCodes]
<1>0. /\ state \in ServerStates /\ clientDecides \in BOOLEAN
      /\ held \in Seq(Request) /\ arrived \in Seq(Request) /\ forwarded \in Seq(Request)
      /\ answers \in Seq(Answer)
  BY DEF TypeOK
<1>a. AnsweredIds = AnsweredBy(answers) /\ AnsweredIds' = AnsweredBy(answers')
  BY DEF AnsweredIds, AnsweredBy
<1>e. forwarded \o <<>> = forwarded /\ answers \o <<>> = answers
  <2> HIDE DEF Answer
  <2> QED
    BY <1>0, ConcatEmptySeq
\* Whatever refuses the whole queue is RefuseAll, or nothing when nobody waits.
<1>r. ASSUME NEW code \in ErrorCodes,
             held' = <<>>, forwarded' = forwarded, answers' = answers \o Refusals(held, code)
      PROVE  Goal
  <2>1. /\ Refusals(held, code) \in Seq(Answer)
        /\ AnsweredBy(Refusals(held, code)) = Ids(held)
    BY <1>0, RefusalsIds
  <2>2. AnsweredBy(answers') = AnsweredBy(answers) \cup Ids(held)
    BY <1>0, <1>r, <2>1, ConcatAnswers
  <2>3. CASE held = <<>>
    <3>1. Ids(held) = {}
      BY <2>3 DEF Ids
    <3> QED
      BY <1>a, <1>r, <2>2, <2>3, <3>1
  <2>4. CASE held # <<>>
    <3>1. Promise!RefuseAll
      BY <1>a, <1>r, <2>2, <2>4 DEF Promise!RefuseAll, Ids
    <3> QED
      BY <3>1 DEF Promise!Next
  <2> QED
    BY <2>3, <2>4
<1>1. ASSUME NEW decides \in BOOLEAN, AsksToDecide(decides)
      PROVE  Goal
  BY <1>1, <1>a DEF AsksToDecide
<1>2. ASSUME NEW s \in ServerStates, OnState(s)
      PROVE  Goal
  <2> DEFINE out == Release(held, s)
  <2>1. /\ held' = out.held /\ forwarded' = forwarded \o out.forward
        /\ answers' = answers \o out.refuse
    BY <1>2 DEF OnState
  <2>2. CASE out.held = held /\ out.forward = <<>> /\ out.refuse = <<>>
    BY <1>a, <1>e, <2>1, <2>2
  <2>3. CASE out.held = <<>> /\ out.forward = held /\ out.refuse = <<>>
    <3>1. held' = <<>> /\ forwarded' = forwarded \o held /\ answers' = answers
      BY <1>e, <2>1, <2>3
    <3>2. CASE held = <<>>
      BY <1>a, <1>e, <3>1, <3>2
    <3>3. CASE held # <<>>
      <4>1. Promise!PassAll
        BY <1>a, <3>1, <3>3 DEF Promise!PassAll
      <4> QED
        BY <4>1 DEF Promise!Next
    <3> QED
      BY <3>2, <3>3
  <2>4. CASE out.held = <<>> /\ out.forward = <<>> /\ out.refuse = Refusals(held, RequestFailed)
    <3>1. /\ held' = <<>> /\ forwarded' = forwarded
          /\ answers' = answers \o Refusals(held, RequestFailed)
      BY <1>e, <2>1, <2>4
    <3> QED
      BY <1>r, <3>1, Codes
  <2> QED
    BY <1>0, <2>2, <2>3, <2>4, ReleaseCases
<1>3. ASSUME NEW s \in ServerStates, Place(s)
      PROVE  Goal
  BY <1>3, <1>a DEF Place
<1>4. ASSUME NEW r \in Request, OnRequest(r)
      PROVE  Goal
  <2>1. Promise!New(r)
    <3>1. r \notin Ids(held) /\ r \notin Ids(forwarded) /\ r \notin AnsweredIds
      BY <1>4 DEF OnRequest, Fresh, OneFate
    <3> QED
      BY <3>1 DEF Promise!New, Promise!In, Ids
  <2>2. Decision(clientDecides, state) \in {"forward", "hold", "reject"}
    BY <1>0, Verdicts
  <2>3. Decision(clientDecides, state) # "hold" => held = <<>>
    BY <1>0, Verdicts DEF HeldWaits
  <2>4. CASE Decision(clientDecides, state) = "forward"
    <3>1. Promise!Pass(r)
      BY <1>4, <1>a, <2>1, <2>3, <2>4 DEF OnRequest, Promise!Pass
    <3> QED
      BY <3>1 DEF Promise!Next
  <2>5. CASE Decision(clientDecides, state) = "hold"
    <3>1. Promise!Wait(r)
      BY <1>4, <1>a, <2>1, <2>5 DEF OnRequest, Promise!Wait
    <3> QED
      BY <3>1 DEF Promise!Next
  <2>6. CASE Decision(clientDecides, state) = "reject"
    <3>1. /\ answers' = Append(answers, [id |-> r, code |-> RequestFailed])
          /\ held' = held /\ forwarded' = forwarded
      BY <1>4, <2>6 DEF OnRequest
    <3>2. AnsweredBy(answers') = AnsweredBy(answers) \cup {r}
      <4>1. [id |-> r, code |-> RequestFailed] \in Answer
        BY Codes
      <4> HIDE DEF Answer
      <4> QED
        BY <1>0, <3>1, <4>1, AppendAnswer
    <3>3. Promise!Refuse(r)
      BY <1>a, <2>1, <2>3, <2>6, <3>1, <3>2 DEF Promise!Refuse
    <3> QED
      BY <3>3 DEF Promise!Next
  <2> QED
    BY <2>2, <2>4, <2>5, <2>6
<1>5. ASSUME NEW r \in Request, OnCancel(r)
      PROVE  Goal
  <2>1. PICK i \in DOMAIN held : held[i] = r /\ held' = Without(held, i)
    BY <1>5 DEF OnCancel, IsFirst
  <2>2. forwarded' = forwarded /\ answers' = Append(answers, [id |-> r, code |-> RequestCancelled])
    BY <1>5 DEF OnCancel
  <2>3. AnsweredBy(answers') = AnsweredBy(answers) \cup {r}
    <3>1. [id |-> r, code |-> RequestCancelled] \in Answer
      BY Codes
    <3> HIDE DEF Answer
    <3> QED
      BY <1>0, <2>2, <3>1, AppendAnswer
  <2>4. Promise!Withdraw(r)
    BY <1>a, <2>1, <2>2, <2>3 DEF Promise!Withdraw, Without
  <2> QED
    BY <2>4 DEF Promise!Next
<1>6. ASSUME NEW code \in ErrorCodes, Drain(code)
      PROVE  Goal
  BY <1>6, <1>r DEF Drain
<1>7. CASE UNCHANGED vars
  BY <1>7, <1>a DEF vars
<1> QED
  BY <1>1, <1>2, <1>3, <1>4, <1>5, <1>6, <1>7 DEF Next

\* The gate keeps its promise to the client: Gate implements Holding.
THEOREM GateImplementsHolding == Spec => KeepsPromise
<1>1. Init => Promise!Init
  BY DEF Init, Promise!Init, AnsweredIds
<1> QED
  BY <1>1, TypeCorrect, WaitsOnlyWhileUseful, EveryRequestOneFate, PromiseStep, PTL
     DEF Spec, KeepsPromise, Promise!Spec
================================================================================
