---------------------------- MODULE GateRulesProofs ----------------------------
(***************************************************************************)
(* What the rules of the gate do to queues of any length: the facts that   *)
(* the proofs about the gate and about the relay around it share.          *)
(***************************************************************************)
EXTENDS GateRules, SequenceTheorems, TLAPS

(***************************************************************************)
(* Queues                                                                   *)
(***************************************************************************)

\* A function on 1..n is a sequence.
LEMMA SeqOfFunction ==
  ASSUME NEW S, NEW n \in Nat, NEW f \in [1..n -> S]
  PROVE  f \in Seq(S) /\ Len(f) = n
  OBVIOUS

\* Appending a request adds exactly it to the requests of a queue.
LEMMA AppendIds ==
  ASSUME NEW S, NEW q \in Seq(S), NEW r \in S
  PROVE  /\ Append(q, r) \in Seq(S)
         /\ Ids(Append(q, r)) = Ids(q) \cup {r}
         /\ r \notin Ids(q) /\ Distinct(q) => Distinct(Append(q, r))
<1>1. /\ Append(q, r) \in Seq(S)
      /\ Len(Append(q, r)) = Len(q) + 1
      /\ \A i \in 1..Len(q) : Append(q, r)[i] = q[i]
      /\ Append(q, r)[Len(q) + 1] = r
      /\ DOMAIN q = 1..Len(q)
      /\ DOMAIN Append(q, r) = 1..(Len(q) + 1)
      /\ Len(q) \in Nat
  OBVIOUS
<1>2. Ids(Append(q, r)) = Ids(q) \cup {r}
  BY <1>1 DEF Ids
<1>3. ASSUME r \notin Ids(q), Distinct(q)
      PROVE  Distinct(Append(q, r))
  BY <1>1, <1>3 DEF Distinct, Ids
<1> QED
  BY <1>1, <1>2, <1>3

\* The requests of a concatenation are those of its two parts.
LEMMA ConcatIds ==
  ASSUME NEW S, NEW p \in Seq(S), NEW q \in Seq(S)
  PROVE  /\ p \o q \in Seq(S)
         /\ Ids(p \o q) = Ids(p) \cup Ids(q)
         /\ Distinct(p) /\ Distinct(q) /\ Ids(p) \cap Ids(q) = {} => Distinct(p \o q)
<1>1. /\ p \o q \in Seq(S)
      /\ Len(p \o q) = Len(p) + Len(q)
      /\ \A i \in 1..Len(p) : (p \o q)[i] = p[i]
      /\ \A i \in 1..Len(q) : (p \o q)[Len(p) + i] = q[i]
      /\ \A i \in (Len(p) + 1)..(Len(p) + Len(q)) : (p \o q)[i] = q[i - Len(p)]
      /\ Len(p) \in Nat /\ Len(q) \in Nat
      /\ DOMAIN p = 1..Len(p) /\ DOMAIN q = 1..Len(q)
      /\ DOMAIN (p \o q) = 1..(Len(p) + Len(q))
  BY ConcatProperties
<1>2. Ids(p \o q) \subseteq Ids(p) \cup Ids(q)
  <2>1. SUFFICES ASSUME NEW i \in 1..(Len(p) + Len(q))
                 PROVE  (p \o q)[i] \in Ids(p) \cup Ids(q)
    BY <1>1 DEF Ids
  <2>2. CASE i <= Len(p)
    BY <1>1, <2>2 DEF Ids
  <2>3. CASE i > Len(p)
    <3>1. i - Len(p) \in 1..Len(q) /\ (p \o q)[i] = q[i - Len(p)]
      BY <1>1, <2>3
    <3> QED
      BY <1>1, <3>1 DEF Ids
  <2> QED
    BY <1>1, <2>2, <2>3
<1>3. Ids(p) \subseteq Ids(p \o q)
  <2>1. \A i \in 1..Len(p) : i \in 1..(Len(p) + Len(q))
    BY <1>1
  <2> QED
    BY <1>1, <2>1 DEF Ids
<1>4. Ids(q) \subseteq Ids(p \o q)
  <2>1. \A i \in 1..Len(q) : Len(p) + i \in 1..(Len(p) + Len(q))
    BY <1>1
  <2> QED
    BY <1>1, <2>1 DEF Ids
<1>5. ASSUME Distinct(p), Distinct(q), Ids(p) \cap Ids(q) = {}
      PROVE  Distinct(p \o q)
  <2>1. SUFFICES ASSUME NEW i \in 1..(Len(p) + Len(q)), NEW j \in 1..(Len(p) + Len(q)),
                        (p \o q)[i] = (p \o q)[j]
                 PROVE  i = j
    BY <1>1 DEF Distinct
  <2>2. CASE i <= Len(p) /\ j <= Len(p)
    BY <1>1, <1>5, <2>1, <2>2 DEF Distinct
  <2>3. CASE i > Len(p) /\ j > Len(p)
    <3>1. /\ i - Len(p) \in 1..Len(q) /\ (p \o q)[i] = q[i - Len(p)]
          /\ j - Len(p) \in 1..Len(q) /\ (p \o q)[j] = q[j - Len(p)]
      BY <1>1, <2>3
    <3>2. i - Len(p) = j - Len(p)
      BY <1>1, <1>5, <2>1, <3>1 DEF Distinct
    <3> QED
      BY <1>1, <3>2
  <2>4. CASE i <= Len(p) /\ j > Len(p)
    <3>1. j - Len(p) \in 1..Len(q) /\ (p \o q)[j] = q[j - Len(p)]
      BY <1>1, <2>4
    <3>2. (p \o q)[i] \in Ids(p) /\ (p \o q)[j] \in Ids(q)
      BY <1>1, <2>4, <3>1 DEF Ids
    <3> QED
      BY <1>5, <2>1, <3>2
  <2>5. CASE i > Len(p) /\ j <= Len(p)
    <3>1. i - Len(p) \in 1..Len(q) /\ (p \o q)[i] = q[i - Len(p)]
      BY <1>1, <2>5
    <3>2. (p \o q)[j] \in Ids(p) /\ (p \o q)[i] \in Ids(q)
      BY <1>1, <2>5, <3>1, SMTT(60) DEF Ids
    <3> QED
      BY <1>5, <2>1, <3>2
  <2> QED
    BY <1>1, <2>2, <2>3, <2>4, <2>5
<1> QED
  BY <1>1, <1>2, <1>3, <1>4, <1>5

\* Where the requests of a queue are once its i-th has left.
LEMMA WithoutElements ==
  ASSUME NEW S, NEW q \in Seq(S), NEW i \in 1..Len(q)
  PROVE  /\ Without(q, i) \in Seq(S)
         /\ Len(Without(q, i)) = Len(q) - 1
         /\ \A j \in 1..(Len(q) - 1) :
              Without(q, i)[j] = IF j < i THEN q[j] ELSE q[j + 1]
<1> DEFINE a == SubSeq(q, 1, i - 1)
           b == SubSeq(q, i + 1, Len(q))
<1>1. /\ Len(q) \in Nat
      /\ \A k \in 1..Len(q) : q[k] \in S
  BY ElementOfSeq
<1>2. /\ a \in Seq(S)
      /\ Len(a) = i - 1
      /\ \A k \in 1..(i - 1) : a[k] = q[k]
  <2>1. \A k \in 1..(i - 1) : q[k] \in S
    BY <1>1
  <2> QED
    BY <1>1, <2>1, SubSeqProperties
<1>3. /\ b \in Seq(S)
      /\ Len(b) = Len(q) - i
      /\ \A k \in 1..(Len(q) - i) : b[k] = q[k + i]
  <2>1. \A k \in (i + 1)..Len(q) : q[k] \in S
    BY <1>1
  <2>2. /\ b \in Seq(S)
        /\ Len(b) = IF i + 1 <= Len(q) THEN Len(q) - (i + 1) + 1 ELSE 0
        /\ \A k \in 1..(Len(q) - (i + 1) + 1) : b[k] = q[(i + 1) + k - 1]
    <3>1. i + 1 \in Int /\ Len(q) \in Int
      BY <1>1
    <3> HIDE DEF b
    <3> QED
      BY <2>1, <3>1, SubSeqProperties DEF b
  <2> HIDE DEF b
  <2>3. Len(b) = Len(q) - i
    BY <1>1, <2>2
  <2>4. \A k \in 1..(Len(q) - i) : b[k] = q[k + i]
    <3>1. Len(q) - (i + 1) + 1 = Len(q) - i
      BY <1>1
    <3>2. \A k \in 1..(Len(q) - i) : (i + 1) + k - 1 = k + i
      BY <1>1
    <3> QED
      BY <2>2, <3>1, <3>2
  <2> QED
    BY <2>2, <2>3, <2>4
<1>4. Without(q, i) = a \o b
  BY DEF Without
<1> HIDE DEF a, b
<1>5. /\ a \o b \in Seq(S)
      /\ Len(a \o b) = Len(q) - 1
      /\ \A k \in 1..(Len(q) - 1) : (a \o b)[k] = IF k <= i - 1 THEN a[k] ELSE b[k - (i - 1)]
  <2>1. /\ a \o b \in Seq(S)
        /\ Len(a \o b) = Len(a) + Len(b)
        /\ \A k \in 1..(Len(a) + Len(b)) :
             (a \o b)[k] = IF k <= Len(a) THEN a[k] ELSE b[k - Len(a)]
    BY <1>2, <1>3, ConcatProperties
  <2>2. Len(a) + Len(b) = Len(q) - 1
    BY <1>1, <1>2, <1>3
  <2> QED
    BY <1>2, <2>1, <2>2
<1>6. ASSUME NEW j \in 1..(Len(q) - 1)
      PROVE  (a \o b)[j] = IF j < i THEN q[j] ELSE q[j + 1]
  <2>1. (a \o b)[j] = IF j <= i - 1 THEN a[j] ELSE b[j - (i - 1)]
    BY <1>5
  <2>2. CASE j < i
    BY <1>1, <1>2, <2>1, <2>2
  <2>3. CASE j >= i
    <3>1. j - (i - 1) \in 1..(Len(q) - i) /\ (j - (i - 1)) + i = j + 1
      BY <1>1, <2>3
    <3> QED
      BY <1>1, <1>3, <2>1, <2>3, <3>1
  <2>4. j < i \/ j >= i
    BY <1>1
  <2> QED
    BY <2>2, <2>3, <2>4
<1> QED
  BY <1>4, <1>5, <1>6

\* In a queue of distinct requests, withdrawing one leaves exactly the others.
LEMMA WithoutIds ==
  ASSUME NEW S, NEW q \in Seq(S), NEW i \in 1..Len(q), Distinct(q)
  PROVE  /\ Ids(Without(q, i)) = Ids(q) \ {q[i]}
         /\ Distinct(Without(q, i))
<1> DEFINE w == Without(q, i)
<1>1. /\ w \in Seq(S)
      /\ Len(w) = Len(q) - 1
      /\ \A j \in 1..(Len(q) - 1) : w[j] = IF j < i THEN q[j] ELSE q[j + 1]
      /\ Len(q) \in Nat
      /\ DOMAIN q = 1..Len(q)
      /\ DOMAIN w = 1..(Len(q) - 1)
  <2>1. /\ w \in Seq(S)
        /\ Len(w) = Len(q) - 1
        /\ \A j \in 1..(Len(q) - 1) : w[j] = IF j < i THEN q[j] ELSE q[j + 1]
    BY WithoutElements
  <2> HIDE DEF w
  <2> QED
    BY <2>1
<1> HIDE DEF w
<1> DEFINE at(j) == IF j < i THEN j ELSE j + 1
<1>2. \A j \in 1..(Len(q) - 1) : at(j) \in 1..Len(q) /\ at(j) # i /\ w[j] = q[at(j)]
  BY <1>1
<1>3. \A j, k \in 1..(Len(q) - 1) : at(j) = at(k) => j = k
  BY <1>1
<1>4. Ids(w) \subseteq Ids(q) \ {q[i]}
  <2> HIDE DEF at
  <2> QED
    BY <1>1, <1>2 DEF Ids, Distinct
<1>5. Ids(q) \ {q[i]} \subseteq Ids(w)
  <2> HIDE DEF at
  <2>0. SUFFICES ASSUME NEW e \in Ids(q) \ {q[i]}
                 PROVE  \E j \in 1..(Len(q) - 1) : w[j] = e
    BY <1>1 DEF Ids
  <2>1. PICK k \in 1..Len(q) : k # i /\ e = q[k]
    BY <1>1 DEF Ids
  <2>2. CASE k < i
    <3>1. k \in 1..(Len(q) - 1) /\ w[k] = q[k]
      BY <1>1, <2>2
    <3> QED
      BY <2>1, <3>1
  <2>3. CASE k > i
    <3>1. /\ k - 1 \in 1..(Len(q) - 1)
          /\ ~(k - 1 < i)
          /\ (k - 1) + 1 = k
      BY <1>1, <2>3
    <3>2. w[k - 1] = q[k]
      BY <1>1, <3>1
    <3> QED
      BY <2>1, <3>1, <3>2
  <2> QED
    BY <1>1, <2>1, <2>2, <2>3
<1>6. Distinct(w)
  <2>1. SUFFICES ASSUME NEW j \in 1..(Len(q) - 1), NEW k \in 1..(Len(q) - 1), w[j] = w[k]
                 PROVE  j = k
    BY <1>1 DEF Distinct
  <2> HIDE DEF at
  <2>2. q[at(j)] = q[at(k)] /\ at(j) \in 1..Len(q) /\ at(k) \in 1..Len(q)
    BY <1>2, <2>1
  <2>3. at(j) = at(k)
    BY <1>1, <2>2 DEF Distinct
  <2> QED
    BY <1>3, <2>3
<1> QED
  BY <1>4, <1>5, <1>6 DEF w

\* The ids of the requests that a queue of error responses answers.
AnsweredBy(out) == {out[i].id : i \in DOMAIN out}

DistinctAnswers(out) == \A i, j \in DOMAIN out : out[i].id = out[j].id => i = j

\* Refusing a queue answers each of its requests, once.
LEMMA RefusalsIds ==
  ASSUME NEW R, NEW q \in Seq(R), NEW code \in ErrorCodes
  PROVE  /\ Refusals(q, code) \in Seq([id : R, code : ErrorCodes])
         /\ AnsweredBy(Refusals(q, code)) = Ids(q)
         /\ Distinct(q) => DistinctAnswers(Refusals(q, code))
<1>1. /\ Len(q) \in Nat
      /\ DOMAIN q = 1..Len(q)
      /\ \A i \in 1..Len(q) : q[i] \in R
  BY ElementOfSeq
<1>2. Refusals(q, code) \in [1..Len(q) -> [id : R, code : ErrorCodes]]
  BY <1>1 DEF Refusals
<1>3. Refusals(q, code) \in Seq([id : R, code : ErrorCodes])
  <2> HIDE DEF ErrorCodes
  <2> QED
    BY <1>1, <1>2, SeqOfFunction
<1>4. /\ DOMAIN Refusals(q, code) = 1..Len(q)
      /\ \A i \in 1..Len(q) : Refusals(q, code)[i].id = q[i]
  BY <1>1 DEF Refusals
<1> QED
  BY <1>1, <1>3, <1>4 DEF AnsweredBy, DistinctAnswers, Distinct, Ids

\* One more error response.
LEMMA AppendAnswer ==
  ASSUME NEW A, NEW q \in Seq(A), NEW r, NEW code, [id |-> r, code |-> code] \in A
  PROVE  LET out == Append(q, [id |-> r, code |-> code]) IN
         /\ AnsweredBy(out) = AnsweredBy(q) \cup {r}
         /\ r \notin AnsweredBy(q) /\ DistinctAnswers(q) => DistinctAnswers(out)
<1> DEFINE out == Append(q, [id |-> r, code |-> code])
<1>1. /\ Len(q) \in Nat
      /\ DOMAIN q = 1..Len(q)
      /\ DOMAIN out = 1..(Len(q) + 1)
      /\ \A i \in 1..Len(q) : out[i] = q[i]
      /\ out[Len(q) + 1] = [id |-> r, code |-> code]
  OBVIOUS
<1>2. out[Len(q) + 1].id = r
  BY <1>1
<1> HIDE DEF out
<1>3. AnsweredBy(out) = AnsweredBy(q) \cup {r}
  BY <1>1, <1>2 DEF AnsweredBy
<1>4. ASSUME r \notin AnsweredBy(q), DistinctAnswers(q)
      PROVE  DistinctAnswers(out)
  BY <1>1, <1>2, <1>4 DEF DistinctAnswers, AnsweredBy
<1> QED
  BY <1>3, <1>4 DEF out

\* More error responses after those already sent.
LEMMA ConcatAnswers ==
  ASSUME NEW A, NEW p \in Seq(A), NEW q \in Seq(A)
  PROVE  /\ p \o q \in Seq(A)
         /\ AnsweredBy(p \o q) = AnsweredBy(p) \cup AnsweredBy(q)
         /\ DistinctAnswers(p) /\ DistinctAnswers(q) /\ AnsweredBy(p) \cap AnsweredBy(q) = {}
              => DistinctAnswers(p \o q)
<1> DEFINE ids(s) == [i \in 1..Len(s) |-> s[i].id]
           R == {a.id : a \in A}
<1>1. ASSUME NEW s \in Seq(A)
      PROVE  /\ ids(s) \in Seq(R)
             /\ Ids(ids(s)) = AnsweredBy(s)
             /\ Distinct(ids(s)) <=> DistinctAnswers(s)
  <2>1. /\ Len(s) \in Nat
        /\ DOMAIN s = 1..Len(s)
        /\ \A i \in 1..Len(s) : s[i] \in A
    BY <1>1, ElementOfSeq
  <2>2. ids(s) \in [1..Len(s) -> R]
    BY <2>1
  <2>3. ids(s) \in Seq(R)
    <3> HIDE DEF ids
    <3> QED
      BY <2>1, <2>2, SeqOfFunction
  <2> QED
    BY <2>1, <2>3 DEF Ids, AnsweredBy, Distinct, DistinctAnswers
<1>2. /\ p \o q \in Seq(A)
      /\ Len(p \o q) = Len(p) + Len(q)
      /\ \A i \in 1..(Len(p) + Len(q)) :
           (p \o q)[i] = IF i <= Len(p) THEN p[i] ELSE q[i - Len(p)]
      /\ Len(p) \in Nat /\ Len(q) \in Nat
  BY ConcatProperties
<1> HIDE DEF R
<1>3. ids(p \o q) = ids(p) \o ids(q)
  <2>1. ids(p) \in Seq(R) /\ ids(q) \in Seq(R) /\ ids(p \o q) \in Seq(R)
    BY <1>1, <1>2
  <2>2. Len(ids(p)) = Len(p) /\ Len(ids(q)) = Len(q) /\ Len(ids(p \o q)) = Len(p) + Len(q)
    BY <1>2
  <2>3. /\ ids(p) \o ids(q) \in Seq(R)
        /\ Len(ids(p) \o ids(q)) = Len(ids(p)) + Len(ids(q))
        /\ \A i \in 1..(Len(ids(p)) + Len(ids(q))) :
             (ids(p) \o ids(q))[i] =
                IF i <= Len(ids(p)) THEN ids(p)[i] ELSE ids(q)[i - Len(ids(p))]
    <3> HIDE DEF ids
    <3> QED
      BY <2>1, ConcatProperties
  <2>4. ASSUME NEW i \in 1..(Len(p) + Len(q))
        PROVE  ids(p \o q)[i] = (ids(p) \o ids(q))[i]
    <3>1. ids(p \o q)[i] = (p \o q)[i].id
      BY <1>2
    <3>2. CASE i <= Len(p)
      <4>1. ids(p)[i] = p[i].id
        BY <1>2, <3>2
      <4>2. (ids(p) \o ids(q))[i] = ids(p)[i]
        <5> HIDE DEF ids
        <5> QED
          BY <2>2, <2>3, <3>2
      <4> QED
        BY <1>2, <3>1, <3>2, <4>1, <4>2
    <3>3. CASE i > Len(p)
      <4>1. i - Len(p) \in 1..Len(q) /\ ~(i <= Len(p))
        BY <1>2, <3>3
      <4>2. ids(q)[i - Len(p)] = q[i - Len(p)].id
        BY <4>1
      <4>3. (ids(p) \o ids(q))[i] = ids(q)[i - Len(p)]
        <5> HIDE DEF ids
        <5> QED
          BY <2>2, <2>3, <4>1
      <4> QED
        BY <1>2, <3>1, <4>1, <4>2, <4>3
    <3> QED
      BY <1>2, <3>2, <3>3
  <2> HIDE DEF ids
  <2> QED
    BY <2>1, <2>2, <2>3, <2>4, SeqEqual
<1>4. /\ Ids(ids(p) \o ids(q)) = Ids(ids(p)) \cup Ids(ids(q))
      /\ Distinct(ids(p)) /\ Distinct(ids(q)) /\ Ids(ids(p)) \cap Ids(ids(q)) = {}
           => Distinct(ids(p) \o ids(q))
  <2>1. ids(p) \in Seq(R) /\ ids(q) \in Seq(R)
    BY <1>1
  <2> HIDE DEF ids
  <2> QED
    BY <2>1, ConcatIds
<1> HIDE DEF ids
<1> QED
  BY <1>1, <1>2, <1>3, <1>4

--------------------------------------------------------------------------------
(***************************************************************************)
(* The rules                                                                *)
(***************************************************************************)

\* A verdict is one of three, and a gate that asks a client's own judgment never
\* holds; what is forwarded is answered by a server that can be trusted.
LEMMA Verdicts ==
  ASSUME NEW s \in ServerStates, NEW decides \in BOOLEAN
  PROVE  /\ Verdict(s) \in {"forward", "hold", "reject"}
         /\ Verdict(s) = "hold" <=> WorthWaiting(s)
         /\ Verdict(s) = "forward" <=> Trustworthy(s)
         /\ Decision(decides, s) \in {"forward", "hold", "reject"}
         /\ Decision(decides, s) = "hold" <=> ~decides /\ WorthWaiting(s)
         /\ Decision(decides, s) = "forward" <=> decides \/ Trustworthy(s)
BY DEF Verdict, Decision, ServerStates, Health, Readiness, WorthWaiting, Trustworthy

\* A re-evaluation keeps, forwards or refuses the whole queue.
LEMMA ReleaseCases ==
  ASSUME NEW q, NEW s \in ServerStates
  PROVE  LET out == Release(q, s) IN
         \/ /\ WorthWaiting(s)
            /\ out.held = q /\ out.forward = <<>> /\ out.refuse = <<>>
         \/ /\ Trustworthy(s)
            /\ out.held = <<>> /\ out.forward = q /\ out.refuse = <<>>
         \/ out.held = <<>> /\ out.forward = <<>> /\ out.refuse = Refusals(q, RequestFailed)
<1>1. Verdict(s) \in {"forward", "hold", "reject"}
  BY Verdicts
<1>2. CASE Verdict(s) = "hold"
  BY <1>2, Verdicts DEF Release, NothingReleased
<1>3. CASE Verdict(s) = "forward"
  BY <1>3, Verdicts DEF Release
<1>4. CASE Verdict(s) = "reject"
  BY <1>4 DEF Release
<1> QED
  BY <1>1, <1>2, <1>3, <1>4

\* The codes of the refusals are error codes.
LEMMA Codes == /\ RequestFailed \in ErrorCodes
               /\ RequestCancelled \in ErrorCodes
               /\ InternalError \in ErrorCodes
BY DEF ErrorCodes
================================================================================
