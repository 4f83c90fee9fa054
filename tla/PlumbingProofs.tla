----------------------------- MODULE PlumbingProofs -----------------------------
(***************************************************************************)
(* Proofs about Plumbing, for every stream a client may write and every size *)
(* of the pipes: the two safety properties, and the invariant they rest on.   *)
(* Both ways through the proxy are chains of queues.  Of each queue the        *)
(* invariant says which messages of the history it carries, and that its units *)
(* follow on one another as those of whole frames do.                         *)
(***************************************************************************)
EXTENDS Plumbing, TLAPS, SequenceTheorems, WellFoundedInduction

Kinds == {"length", "blank", "body"}
Following == [k \in Kinds |-> IF k = "length" THEN "blank" ELSE IF k = "blank" THEN "body" ELSE "length"]

\* A reader that has read nothing but frames, and the unit that is due to it.
Sound == {Fresh, [at |-> "header", sized |-> TRUE], [at |-> "body", sized |-> TRUE]}
Due(reader) ==
  IF reader.at = "start" THEN "length" ELSE IF reader.at = "header" THEN "blank" ELSE "body"

\* The units of a queue follow on one another; from is the kind of the first,
\* to is what has to come next.
Flows(queue, from, to) ==
  /\ from \in Kinds /\ to \in Kinds
  /\ \A i \in 1..Len(queue) : queue[i].kind \in Kinds
  /\ queue = <<>> => from = to
  /\ queue # <<>> => queue[1].kind = from /\ Following[queue[Len(queue)].kind] = to
  /\ \A i \in 1..(Len(queue) - 1) : queue[i + 1].kind = Following[queue[i].kind]

\* What each place of a queue holds of the messages: one, or none.
InUnits(queue) == [i \in 1..Len(queue) |-> IF queue[i].kind = "body" THEN {queue[i].msg} ELSE {}]
InEvents(queue, event) ==
  [i \in 1..Len(queue) |-> IF queue[i][1] = event THEN {queue[i][2]} ELSE {}]

\* The places hold the messages from + 1 to to of the history, in their order:
\* count says how far the history has come after each place.
Carries(places, from, to, history) ==
  /\ from \in Nat /\ to \in Nat
  /\ \E count \in [0..Len(places) -> from..to] :
       /\ count[0] = from /\ count[Len(places)] = to
       /\ \A i \in 1..Len(places) :
            \/ places[i] = {} /\ count[i] = count[i - 1]
            \/ /\ count[i] = count[i - 1] + 1 /\ count[i] <= Len(history)
               /\ places[i] = {history[count[i]]}

\* One history begins with the other, place by place.
Begins(part, whole) ==
  Len(part) <= Len(whole) /\ \A i \in 1..Len(part) : part[i] = whole[i]

\* What is left to write of a frame.
Rest(kind, msg) ==
  IF kind = "length" THEN Frame(msg)
  ELSE IF kind = "blank" THEN <<Unit("blank", msg), Unit("body", msg)>>
  ELSE <<Unit("body", msg)>>
RestTo(there, kind, msg) == To(there, Rest(kind, msg))

\* What a server owes for a message: lines of log, and the frame of the answer.
Log(log, u, m) == To("stderr", [i \in 1..log |-> u]) \o RestTo("stdout", "length", m)

\* What comes next into a pipe that the loop, that the server writes.
Coming(output, there) ==
  IF output # <<>> /\ output[1].to = there THEN output[1].unit.kind ELSE "length"

\* The loop has to write the message that follows number from of the history to
\* there, and then number to is written; or it has nothing to write there.
Holds(output, there, from, to, history) ==
  IF output # <<>> /\ output[1].to = there
  THEN to = from + 1 /\ to <= Len(history) /\ output[Len(output)].unit.msg = history[to]
  ELSE to = from

Events ==
  {<<e, m>> : e \in {"fromClient", "fromUpstream"}, m \in Nat}
    \cup {<<"clientClosed">>, <<"clientReadError">>, <<"upstreamClosed">>}
Readers == [at : {"start", "header", "body", "failed"}, sized : BOOLEAN]

--------------------------------------------------------------------------------
(* The invariant. *)

PipesTyped ==
  /\ pipe \in [Pipe -> Seq(Units)]
  /\ unwritten \in SUBSET Pipe /\ unread \in SUBSET Pipe
ClientTyped == todo \in Seq(Units) /\ received \in Seq(Nat) /\ sent \in Seq(Nat)
ProxyTyped ==
  /\ readers \in [{"in", "stdout"} -> Readers]
  /\ channel \in Seq(Events)
  /\ phase \in {"running", "ending", "reaping", "stopped"}
ServerTyped == exited \in BOOLEAN /\ got \in Seq(Nat) /\ said \in Seq(Nat)

\* The rest of one frame is what the loop has to write.
LoopWrites ==
  \/ outbox = <<>>
  \/ \E there \in {"stdin", "out"}, kind \in Kinds, m \in Nat : outbox = RestTo(there, kind, m)

\* Lines of log and then the rest of one frame are what the server has to write.
ServerOwes ==
  \/ owed = <<>>
  \/ \E kind \in Kinds, m \in Nat : owed = RestTo("stdout", kind, m)
  \/ \E log \in {1, 2}, u \in Units, m \in Nat :
       owed = Log(log, u, m)

\* The streams that the proxy writes, and the one the server writes, are whole
\* frames for the reader of each, up to where the stream was cut off.
ServerUnderstands ==
  /\ serverReader \in Sound
  /\ exited \/ Flows(pipe["stdin"], Due(serverReader), Coming(outbox, "stdin"))
ClientUnderstands ==
  /\ clientReader \in Sound
  /\ "out" \in unread \/ Flows(pipe["out"], Due(clientReader), Coming(outbox, "out"))
ProxyUnderstands ==
  \/ readers["stdout"] = Failed
  \/ /\ readers["stdout"] \in Sound
     /\ \E next \in Kinds :
          /\ Flows(pipe["stdout"], Due(readers["stdout"]), next)
          /\ "stdout" \notin unwritten => next = Coming(owed, "stdout")

\* The end of the server's stream is behind all that it said.
EndIsLast ==
  /\ readers["stdout"] = Failed => pipe["stdout"] = <<>> /\ "stdout" \in unwritten
  /\ \A i \in 1..Len(channel) :
       channel[i][1] = "upstreamClosed" =>
         /\ readers["stdout"] = Failed
         /\ \A j \in i..Len(channel) : channel[j][1] # "fromUpstream"
  /\ phase = "reaping" =>
       /\ readers["stdout"] = Failed
       /\ \A j \in 1..Len(channel) : channel[j][1] # "fromUpstream"

\* What the client sent is what the server got, and what is on its way.
SentChain(n, stdin, out, events, in, history) ==
  \E n1, n2, n3 \in 0..Len(history) :
    /\ Carries(InUnits(stdin), n, n1, history)
    /\ Holds(out, "stdin", n1, n2, history)
    /\ Carries(InEvents(events, "fromClient"), n2, n3, history)
    /\ Carries(InUnits(in), n3, Len(history), history)

SentArrives ==
  /\ "stdin" \in unread => exited
  /\ Begins(got, sent)
  /\ exited \/ SentChain(Len(got), pipe["stdin"], outbox, channel, pipe["in"], sent)

\* What the client reads in the end: what the server said, or a part of it and
\* the error.
ToldWithEnd(n) == Append(SubSeq(said, 1, n), ServerGone)
SaidChain(n, events, stdout, history) ==
  \E m \in 0..Len(history) :
    /\ Carries(InEvents(events, "fromUpstream"), n, m, history)
    /\ Carries(InUnits(stdout), m, Len(history), history)
OutChain(n, to, out, output, history) ==
  \E m \in 0..to : Carries(InUnits(out), n, m, history) /\ Holds(output, "out", m, to, history)

SaidArrives ==
  \/ /\ phase \in {"running", "stopped"}
     /\ Begins(received, said)
     /\ \/ "out" \in unread
        \/ \E n \in 0..Len(said) :
             /\ OutChain(Len(received), n, pipe["out"], outbox, said)
             /\ phase = "running" => SaidChain(n, channel, pipe["stdout"], said)
  \/ /\ phase # "running"
     /\ \E n \in 0..Len(said) :
          /\ Begins(received, ToldWithEnd(n))
          /\ phase = "reaping" => n = Len(said)
          /\ "out" \in unread \/ OutChain(Len(received), n + 1, pipe["out"], outbox, ToldWithEnd(n))

IInv ==
  /\ PipesTyped /\ ClientTyped /\ ProxyTyped /\ ServerTyped
  /\ LoopWrites /\ ServerOwes
  /\ ServerUnderstands /\ ClientUnderstands /\ ProxyUnderstands
  /\ EndIsLast /\ SentArrives /\ SaidArrives

--------------------------------------------------------------------------------
(* Induction: a set of naturals has a least member, so what a place passes on   *)
(* to the next one holds of all places.                                       *)

\* A set of natural numbers that is not empty has a least member.
LEMMA LeastNatural ==
  ASSUME NEW T \in SUBSET Nat, T # {}
  PROVE  \E m \in T : \A n \in T : m <= n
<1> DEFINE R == OpToRel(<, Nat)
<1>1. \A x, y \in Nat : x < y => <<x, y>> \in R
  BY DEF OpToRel
<1>2. IsWellFoundedOn(R, Nat)
  BY NatLessThanWellFounded
<1> HIDE DEF R
<1>3. PICK m \in T : \A n \in T : ~ (<<n, m>> \in R)
  BY <1>2, WFMin, Zenon
<1>4. \A n \in T : ~ (n < m)
  BY <1>3, <1>1
<1>. QED
  BY <1>3, <1>4

\* What holds at 0 and is passed on up to last holds up to last.
LEMMA UpTo ==
  ASSUME NEW last \in Nat, NEW Good, 0 \in Good,
         \A n \in 0..(last - 1) : n \in Good => n + 1 \in Good
  PROVE  \A n \in 0..last : n \in Good
<1> SUFFICES ASSUME NEW b \in 0..last, b \notin Good PROVE FALSE
  OBVIOUS
<1> DEFINE Bad == {n \in 0..last : n \notin Good}
<1>1. Bad \in SUBSET Nat /\ Bad # {}
  OBVIOUS
<1>2. PICK m \in Bad : \A n \in Bad : m <= n
  BY <1>1, LeastNatural
<1>3. m # 0 /\ m - 1 \in 0..(last - 1)
  BY <1>2
<1>4. m - 1 \in Good
  BY <1>2, <1>3
<1>. QED
  BY <1>2, <1>3, <1>4

--------------------------------------------------------------------------------
(* What a queue carries. *)

\* An empty queue carries nothing.
LEMMA CarriesNone ==
  ASSUME NEW places, Len(places) = 0, NEW n \in Nat, NEW history
  PROVE  Carries(places, n, n, history)
<1> DEFINE count == [i \in 0..0 |-> n]
<1>1. count \in [0..Len(places) -> n..n] /\ count[0] = n /\ count[Len(places)] = n
  OBVIOUS
<1>2. 1..Len(places) = {}
  OBVIOUS
<1> HIDE DEF count
<1>. QED
  BY <1>1, <1>2 DEF Carries

\* One more place at the end, with the next message or with none.
LEMMA CarriesLonger ==
  ASSUME NEW places, NEW longer, Len(places) \in Nat, Len(longer) = Len(places) + 1,
         \A i \in 1..Len(places) : longer[i] = places[i],
         NEW from, NEW to, NEW history, Carries(places, from, to, history)
  PROVE  /\ longer[Len(longer)] = {} => Carries(longer, from, to, history)
         /\ to + 1 <= Len(history) /\ longer[Len(longer)] = {history[to + 1]} =>
              Carries(longer, from, to + 1, history)
<1>1. from \in Nat /\ to \in Nat
  BY DEF Carries
<1>2. PICK count \in [0..Len(places) -> from..to] :
        /\ count[0] = from /\ count[Len(places)] = to
        /\ \A i \in 1..Len(places) :
             \/ places[i] = {} /\ count[i] = count[i - 1]
             \/ /\ count[i] = count[i - 1] + 1 /\ count[i] <= Len(history)
                /\ places[i] = {history[count[i]]}
  BY DEF Carries
<1>3. ASSUME NEW last \in {to, to + 1},
             \/ longer[Len(longer)] = {} /\ last = to
             \/ last = to + 1 /\ last <= Len(history) /\ longer[Len(longer)] = {history[last]}
      PROVE  Carries(longer, from, last, history)
  <2> DEFINE more == [i \in 0..Len(longer) |-> IF i = Len(longer) THEN last ELSE count[i]]
  <2>1. \A i \in 0..Len(places) : count[i] \in from..to /\ more[i] = count[i]
    BY <1>2
  <2>2. more \in [0..Len(longer) -> from..last] /\ more[Len(longer)] = last /\ more[0] = from
    BY <1>1, <1>2, <2>1
  <2>3. ASSUME NEW i \in 1..Len(longer)
        PROVE  \/ longer[i] = {} /\ more[i] = more[i - 1]
               \/ /\ more[i] = more[i - 1] + 1 /\ more[i] <= Len(history)
                  /\ longer[i] = {history[more[i]]}
    <3>1. CASE i = Len(longer)
      <4>1. i - 1 = Len(places) /\ more[i - 1] = to /\ more[i] = last
        BY <3>1, <2>1, <1>2
      <4>. QED
        BY <4>1, <3>1, <1>3
    <3>2. CASE i # Len(longer)
      <4>1. i \in 1..Len(places) /\ i - 1 \in 0..Len(places) /\ i \in 0..Len(places)
        BY <3>2
      <4>2. longer[i] = places[i] /\ more[i] = count[i] /\ more[i - 1] = count[i - 1]
        BY <4>1, <2>1
      <4>. QED
        BY <4>1, <4>2, <1>2
    <3>. QED
      BY <3>1, <3>2
  <2> HIDE DEF more
  <2>4. from \in Nat /\ last \in Nat
    BY <1>1
  <2>. QED
    BY <2>2, <2>3, <2>4 DEF Carries
<1>. QED
  BY <1>3, <1>1

\* One place less at the front: it held no message, or the next one.
LEMMA CarriesShorter ==
  ASSUME NEW places, NEW shorter, Len(shorter) \in Nat, Len(places) = Len(shorter) + 1,
         \A i \in 1..Len(shorter) : shorter[i] = places[i + 1],
         NEW from, NEW to, NEW history, Carries(places, from, to, history)
  PROVE  \/ places[1] = {} /\ Carries(shorter, from, to, history)
         \/ /\ from + 1 <= Len(history) /\ from + 1 <= to
            /\ places[1] = {history[from + 1]}
            /\ Carries(shorter, from + 1, to, history)
<1>1. from \in Nat /\ to \in Nat
  BY DEF Carries
<1>2. PICK count \in [0..Len(places) -> from..to] :
        /\ count[0] = from /\ count[Len(places)] = to
        /\ \A i \in 1..Len(places) :
             \/ places[i] = {} /\ count[i] = count[i - 1]
             \/ /\ count[i] = count[i - 1] + 1 /\ count[i] <= Len(history)
                /\ places[i] = {history[count[i]]}
  BY DEF Carries
<1>3. ASSUME NEW i \in 0..Len(places), i >= 1
      PROVE  count[i] >= count[1]
  <2> DEFINE Good == {n \in 0..(Len(places) - 1) : count[n + 1] >= count[1]}
  <2>1. 0 \in Good
    BY <1>2, <1>1
  <2>2. ASSUME NEW n \in 0..(Len(places) - 1 - 1), n \in Good PROVE n + 1 \in Good
    <3>1. n + 2 \in 1..Len(places) /\ n + 1 \in 0..Len(places) /\ n + 2 \in 0..Len(places) /\ 1 \in 0..Len(places)
      BY <2>2
    <3>2. count[n + 1] \in from..to /\ count[n + 2] \in from..to /\ count[1] \in from..to
      BY <3>1, <1>2
    <3>3. count[n + 2] = count[n + 1] \/ count[n + 2] = count[n + 1] + 1
      BY <3>1, <1>2
    <3>4. count[n + 1] >= count[1]
      BY <2>2
    <3>. QED
      BY <1>1, <3>2, <3>3, <3>4
  <2>3. \A n \in 0..(Len(places) - 1) : n \in Good
    <3>1. Len(places) - 1 \in Nat
      OBVIOUS
    <3> HIDE DEF Good
    <3>. QED
      BY <2>1, <2>2, <3>1, UpTo
  <2>4. i - 1 \in 0..(Len(places) - 1)
    BY <1>3
  <2>5. i - 1 \in Good
    BY <2>3, <2>4
  <2>. QED
    BY <2>5
<1>4. 1 \in 0..Len(places) /\ count[1] \in from..to
  BY <1>2
<1>5. Carries(shorter, count[1], to, history)
  <2> DEFINE less == [i \in 0..Len(shorter) |-> count[i + 1]]
  <2>1. ASSUME NEW i \in 0..Len(shorter) PROVE less[i] \in count[1]..to
    <3>1. i + 1 \in 0..Len(places) /\ i + 1 >= 1
      OBVIOUS
    <3>2. count[i + 1] \in from..to /\ count[i + 1] >= count[1]
      BY <3>1, <1>2, <1>3
    <3>. QED
      BY <3>2, <1>1, <1>4
  <2>2. less \in [0..Len(shorter) -> count[1]..to] /\ less[0] = count[1] /\ less[Len(shorter)] = to
    BY <2>1, <1>2
  <2>3. ASSUME NEW i \in 1..Len(shorter)
        PROVE  \/ shorter[i] = {} /\ less[i] = less[i - 1]
               \/ /\ less[i] = less[i - 1] + 1 /\ less[i] <= Len(history)
                  /\ shorter[i] = {history[less[i]]}
    <3>1. i + 1 \in 1..Len(places) /\ i \in 0..Len(shorter) /\ i - 1 \in 0..Len(shorter)
          /\ i + 1 - 1 = i /\ i - 1 + 1 = i
      OBVIOUS
    <3>2. less[i] = count[i + 1] /\ less[i - 1] = count[i] /\ shorter[i] = places[i + 1]
      BY <3>1
    <3>3. \/ places[i + 1] = {} /\ count[i + 1] = count[i]
          \/ /\ count[i + 1] = count[i] + 1 /\ count[i + 1] <= Len(history)
             /\ places[i + 1] = {history[count[i + 1]]}
      BY <3>1, <1>2
    <3>. QED
      BY <3>2, <3>3
  <2> HIDE DEF less
  <2>4. count[1] \in Nat
    BY <1>4, <1>1
  <2>. QED
    BY <1>1, <2>2, <2>3, <2>4 DEF Carries
<1>6. \/ places[1] = {} /\ count[1] = from
      \/ count[1] = from + 1 /\ count[1] <= Len(history) /\ places[1] = {history[count[1]]}
  <2>1. 1 \in 1..Len(places) /\ 1 - 1 = 0
    OBVIOUS
  <2>. QED
    BY <2>1, <1>2
<1>. QED
  BY <1>1, <1>4, <1>5, <1>6

\* Another history that is the same up to there does as well.
LEMMA CarriesOther ==
  ASSUME NEW places, NEW from, NEW to, NEW history, Carries(places, from, to, history),
         Len(places) \in Nat,
         NEW other, \A i \in 1..to : i <= Len(other) /\ other[i] = history[i]
  PROVE  Carries(places, from, to, other)
<1>1. from \in Nat /\ to \in Nat
  BY DEF Carries
<1>2. PICK count \in [0..Len(places) -> from..to] :
        /\ count[0] = from /\ count[Len(places)] = to
        /\ \A i \in 1..Len(places) :
             \/ places[i] = {} /\ count[i] = count[i - 1]
             \/ /\ count[i] = count[i - 1] + 1 /\ count[i] <= Len(history)
                /\ places[i] = {history[count[i]]}
  BY DEF Carries
<1>3. ASSUME NEW i \in 1..Len(places)
      PROVE  \/ places[i] = {} /\ count[i] = count[i - 1]
             \/ /\ count[i] = count[i - 1] + 1 /\ count[i] <= Len(other)
                /\ places[i] = {other[count[i]]}
  <2>1. count[i] \in from..to /\ count[i - 1] \in from..to
    BY <1>2
  <2>2. CASE count[i] = count[i - 1] + 1 /\ places[i] = {history[count[i]]}
    <3>1. count[i] \in 1..to
      BY <2>1, <2>2, <1>1
    <3>. QED
      BY <3>1, <2>2
  <2>. QED
    BY <2>2, <1>2
<1>. QED
  BY <1>1, <1>2, <1>3 DEF Carries

\* A queue with no message in any place carries none.
LEMMA CarriesNothing ==
  ASSUME NEW places, NEW from, NEW to, NEW history, Carries(places, from, to, history),
         Len(places) \in Nat, \A i \in 1..Len(places) : places[i] = {}
  PROVE  from = to
<1>1. PICK count \in [0..Len(places) -> from..to] :
        /\ count[0] = from /\ count[Len(places)] = to
        /\ \A i \in 1..Len(places) :
             \/ places[i] = {} /\ count[i] = count[i - 1]
             \/ places[i] = {history[count[i]]}
  BY DEF Carries
<1>2. \A i \in 1..Len(places) : count[i] = count[i - 1]
  BY <1>1
<1> DEFINE Good == {n \in 0..Len(places) : count[n] = from}
<1>3. 0 \in Good
  BY <1>1
<1>4. ASSUME NEW n \in 0..(Len(places) - 1), n \in Good PROVE n + 1 \in Good
  <2>1. n + 1 \in 1..Len(places) /\ n + 1 - 1 = n
    OBVIOUS
  <2>. QED
    BY <2>1, <1>2, <1>4
<1>5. \A n \in 0..Len(places) : n \in Good
  <2> HIDE DEF Good
  <2>. QED
    BY <1>3, <1>4, UpTo
<1>. QED
  BY <1>1, <1>5

--------------------------------------------------------------------------------
(* Units and events that join a queue and leave it. *)

\* The places of a queue of units.
LEMMA PlacesOfUnits ==
  ASSUME NEW queue \in Seq(Units)
  PROVE  /\ Len(InUnits(queue)) = Len(queue) /\ Len(queue) \in Nat
         /\ \A i \in 1..Len(queue) :
              InUnits(queue)[i] = IF queue[i].kind = "body" THEN {queue[i].msg} ELSE {}
BY DEF InUnits

\* The places of a queue of events.
LEMMA PlacesOfEvents ==
  ASSUME NEW queue \in Seq(Events), NEW event
  PROVE  /\ Len(InEvents(queue, event)) = Len(queue) /\ Len(queue) \in Nat
         /\ \A i \in 1..Len(queue) :
              InEvents(queue, event)[i] = IF queue[i][1] = event THEN {queue[i][2]} ELSE {}
BY DEF InEvents

\* A unit that is written into a pipe.
LEMMA UnitJoins ==
  ASSUME NEW queue \in Seq(Units), NEW unit \in Units,
         NEW from, NEW to, NEW history, Carries(InUnits(queue), from, to, history)
  PROVE  /\ unit.kind # "body" => Carries(InUnits(Append(queue, unit)), from, to, history)
         /\ unit.kind = "body" /\ to + 1 <= Len(history) /\ unit.msg = history[to + 1] =>
              Carries(InUnits(Append(queue, unit)), from, to + 1, history)
<1> DEFINE p == InUnits(queue)
           q == InUnits(Append(queue, unit))
<1>1. Append(queue, unit) \in Seq(Units) /\ Len(Append(queue, unit)) = Len(queue) + 1
      /\ (\A i \in 1..Len(queue) : Append(queue, unit)[i] = queue[i])
      /\ Append(queue, unit)[Len(queue) + 1] = unit
  OBVIOUS
<1>2. Len(p) \in Nat /\ Len(q) = Len(p) + 1 /\ Len(p) = Len(queue)
  BY <1>1, PlacesOfUnits
<1>3. /\ \A i \in 1..Len(queue) : p[i] = IF queue[i].kind = "body" THEN {queue[i].msg} ELSE {}
      /\ \A i \in 1..Len(Append(queue, unit)) : q[i] = IF Append(queue, unit)[i].kind = "body" THEN {Append(queue, unit)[i].msg} ELSE {}
  <2>1. \A i \in 1..Len(queue) : p[i] = IF queue[i].kind = "body" THEN {queue[i].msg} ELSE {}
    BY PlacesOfUnits
  <2>2. \A i \in 1..Len(Append(queue, unit)) : q[i] = IF Append(queue, unit)[i].kind = "body" THEN {Append(queue, unit)[i].msg} ELSE {}
    BY <1>1, PlacesOfUnits
  <2>. QED
    BY <2>1, <2>2
<1> HIDE DEF p, q
<1>4. \A i \in 1..Len(p) : q[i] = p[i]
  <2> TAKE i \in 1..Len(p)
  <2>1. i \in 1..Len(queue) /\ i \in 1..Len(Append(queue, unit)) /\ Append(queue, unit)[i] = queue[i]
    BY <1>1, <1>2
  <2>2. p[i] = IF queue[i].kind = "body" THEN {queue[i].msg} ELSE {}
    BY <2>1, <1>3
  <2>3. q[i] = IF queue[i].kind = "body" THEN {queue[i].msg} ELSE {}
    BY <2>1, <1>1, <1>3
  <2>. QED
    BY <2>2, <2>3
<1>5. q[Len(q)] = IF unit.kind = "body" THEN {unit.msg} ELSE {}
  <2>1. Len(q) \in 1..Len(Append(queue, unit)) /\ Append(queue, unit)[Len(q)] = unit
    BY <1>1, <1>2
  <2>. QED
    BY <2>1, <1>1, <1>3
<1>6. Carries(p, from, to, history)
  BY DEF p
<1>7. /\ q[Len(q)] = {} => Carries(q, from, to, history)
      /\ to + 1 <= Len(history) /\ q[Len(q)] = {history[to + 1]} => Carries(q, from, to + 1, history)
  BY <1>2, <1>4, <1>6, CarriesLonger
<1>. QED
  BY <1>5, <1>7 DEF q

\* A unit that is read from a pipe.
LEMMA UnitLeaves ==
  ASSUME NEW queue \in Seq(Units), queue # <<>>,
         NEW from, NEW to, NEW history, Carries(InUnits(queue), from, to, history)
  PROVE  /\ Head(queue).kind # "body" => Carries(InUnits(Tail(queue)), from, to, history)
         /\ Head(queue).kind = "body" =>
              /\ from + 1 <= Len(history) /\ from + 1 <= to
              /\ Head(queue).msg = history[from + 1]
              /\ Carries(InUnits(Tail(queue)), from + 1, to, history)
<1> DEFINE p == InUnits(queue)
           q == InUnits(Tail(queue))
<1>1. Tail(queue) \in Seq(Units) /\ Len(Tail(queue)) \in Nat /\ Len(queue) = Len(Tail(queue)) + 1
      /\ (\A i \in 1..Len(Tail(queue)) : Tail(queue)[i] = queue[i + 1]) /\ Head(queue) = queue[1]
  OBVIOUS
<1>2. Len(q) \in Nat /\ Len(p) = Len(q) + 1 /\ Len(q) = Len(Tail(queue))
  BY <1>1, PlacesOfUnits
<1>3. /\ \A i \in 1..Len(queue) : p[i] = IF queue[i].kind = "body" THEN {queue[i].msg} ELSE {}
      /\ \A i \in 1..Len(Tail(queue)) : q[i] = IF Tail(queue)[i].kind = "body" THEN {Tail(queue)[i].msg} ELSE {}
  <2>1. \A i \in 1..Len(queue) : p[i] = IF queue[i].kind = "body" THEN {queue[i].msg} ELSE {}
    BY PlacesOfUnits
  <2>2. \A i \in 1..Len(Tail(queue)) : q[i] = IF Tail(queue)[i].kind = "body" THEN {Tail(queue)[i].msg} ELSE {}
    BY <1>1, PlacesOfUnits
  <2>. QED
    BY <2>1, <2>2
<1> HIDE DEF p, q
<1>4. \A i \in 1..Len(q) : q[i] = p[i + 1]
  <2> TAKE i \in 1..Len(q)
  <2>1. i \in 1..Len(Tail(queue)) /\ i + 1 \in 1..Len(queue) /\ Tail(queue)[i] = queue[i + 1]
    BY <1>1, <1>2
  <2>2. p[i + 1] = IF queue[i + 1].kind = "body" THEN {queue[i + 1].msg} ELSE {}
    BY <2>1, <1>3
  <2>3. q[i] = IF queue[i + 1].kind = "body" THEN {queue[i + 1].msg} ELSE {}
    BY <2>1, <1>1, <1>3
  <2>. QED
    BY <2>2, <2>3
<1>5. p[1] = IF Head(queue).kind = "body" THEN {Head(queue).msg} ELSE {}
  <2>1. 1 \in 1..Len(queue)
    BY <1>1
  <2>. QED
    BY <2>1, <1>1, <1>3
<1>6. Carries(p, from, to, history)
  BY DEF p
<1>7. \/ p[1] = {} /\ Carries(q, from, to, history)
      \/ /\ from + 1 <= Len(history) /\ from + 1 <= to
         /\ p[1] = {history[from + 1]} /\ Carries(q, from + 1, to, history)
  BY <1>2, <1>4, <1>6, CarriesShorter
<1>. QED
  BY <1>5, <1>7 DEF q

\* An event that joins the channel: it is a message of the history, or not one
\* of its kind.
LEMMA EventJoins ==
  ASSUME NEW queue \in Seq(Events), NEW new \in Events, NEW event,
         NEW from, NEW to, NEW history, Carries(InEvents(queue, event), from, to, history)
  PROVE  /\ new[1] # event => Carries(InEvents(Append(queue, new), event), from, to, history)
         /\ new[1] = event /\ to + 1 <= Len(history) /\ new[2] = history[to + 1] =>
              Carries(InEvents(Append(queue, new), event), from, to + 1, history)
<1> DEFINE p == InEvents(queue, event)
           q == InEvents(Append(queue, new), event)
<1>1. Append(queue, new) \in Seq(Events) /\ Len(Append(queue, new)) = Len(queue) + 1
      /\ (\A i \in 1..Len(queue) : Append(queue, new)[i] = queue[i])
      /\ Append(queue, new)[Len(queue) + 1] = new
  OBVIOUS
<1>2. Len(p) \in Nat /\ Len(q) = Len(p) + 1 /\ Len(p) = Len(queue)
  BY <1>1, PlacesOfEvents
<1>3. /\ \A i \in 1..Len(queue) : p[i] = IF queue[i][1] = event THEN {queue[i][2]} ELSE {}
      /\ \A i \in 1..Len(Append(queue, new)) : q[i] = IF Append(queue, new)[i][1] = event THEN {Append(queue, new)[i][2]} ELSE {}
  <2>1. \A i \in 1..Len(queue) : p[i] = IF queue[i][1] = event THEN {queue[i][2]} ELSE {}
    BY PlacesOfEvents
  <2>2. \A i \in 1..Len(Append(queue, new)) : q[i] = IF Append(queue, new)[i][1] = event THEN {Append(queue, new)[i][2]} ELSE {}
    BY <1>1, PlacesOfEvents
  <2>. QED
    BY <2>1, <2>2
<1> HIDE DEF p, q
<1>4. \A i \in 1..Len(p) : q[i] = p[i]
  <2> TAKE i \in 1..Len(p)
  <2>1. i \in 1..Len(queue) /\ i \in 1..Len(Append(queue, new)) /\ Append(queue, new)[i] = queue[i]
    BY <1>1, <1>2
  <2>2. p[i] = IF queue[i][1] = event THEN {queue[i][2]} ELSE {}
    BY <2>1, <1>3
  <2>3. q[i] = IF queue[i][1] = event THEN {queue[i][2]} ELSE {}
    BY <2>1, <1>1, <1>3
  <2>. QED
    BY <2>2, <2>3
<1>5. q[Len(q)] = IF new[1] = event THEN {new[2]} ELSE {}
  <2>1. Len(q) \in 1..Len(Append(queue, new)) /\ Append(queue, new)[Len(q)] = new
    BY <1>1, <1>2
  <2>. QED
    BY <2>1, <1>1, <1>3
<1>6. Carries(p, from, to, history)
  BY DEF p
<1>7. /\ q[Len(q)] = {} => Carries(q, from, to, history)
      /\ to + 1 <= Len(history) /\ q[Len(q)] = {history[to + 1]} => Carries(q, from, to + 1, history)
  BY <1>2, <1>4, <1>6, CarriesLonger
<1>. QED
  BY <1>5, <1>7 DEF q

\* The event that the loop takes from the channel.
LEMMA EventLeaves ==
  ASSUME NEW queue \in Seq(Events), queue # <<>>, NEW event,
         NEW from, NEW to, NEW history, Carries(InEvents(queue, event), from, to, history)
  PROVE  /\ Head(queue)[1] # event => Carries(InEvents(Tail(queue), event), from, to, history)
         /\ Head(queue)[1] = event =>
              /\ from + 1 <= Len(history) /\ from + 1 <= to
              /\ Head(queue)[2] = history[from + 1]
              /\ Carries(InEvents(Tail(queue), event), from + 1, to, history)
<1> DEFINE p == InEvents(queue, event)
           q == InEvents(Tail(queue), event)
<1>1. Tail(queue) \in Seq(Events) /\ Len(Tail(queue)) \in Nat /\ Len(queue) = Len(Tail(queue)) + 1
      /\ (\A i \in 1..Len(Tail(queue)) : Tail(queue)[i] = queue[i + 1]) /\ Head(queue) = queue[1]
  OBVIOUS
<1>2. Len(q) \in Nat /\ Len(p) = Len(q) + 1 /\ Len(q) = Len(Tail(queue))
  BY <1>1, PlacesOfEvents
<1>3. /\ \A i \in 1..Len(queue) : p[i] = IF queue[i][1] = event THEN {queue[i][2]} ELSE {}
      /\ \A i \in 1..Len(Tail(queue)) : q[i] = IF Tail(queue)[i][1] = event THEN {Tail(queue)[i][2]} ELSE {}
  <2>1. \A i \in 1..Len(queue) : p[i] = IF queue[i][1] = event THEN {queue[i][2]} ELSE {}
    BY PlacesOfEvents
  <2>2. \A i \in 1..Len(Tail(queue)) : q[i] = IF Tail(queue)[i][1] = event THEN {Tail(queue)[i][2]} ELSE {}
    BY <1>1, PlacesOfEvents
  <2>. QED
    BY <2>1, <2>2
<1> HIDE DEF p, q
<1>4. \A i \in 1..Len(q) : q[i] = p[i + 1]
  <2> TAKE i \in 1..Len(q)
  <2>1. i \in 1..Len(Tail(queue)) /\ i + 1 \in 1..Len(queue) /\ Tail(queue)[i] = queue[i + 1]
    BY <1>1, <1>2
  <2>2. p[i + 1] = IF queue[i + 1][1] = event THEN {queue[i + 1][2]} ELSE {}
    BY <2>1, <1>3
  <2>3. q[i] = IF queue[i + 1][1] = event THEN {queue[i + 1][2]} ELSE {}
    BY <2>1, <1>1, <1>3
  <2>. QED
    BY <2>2, <2>3
<1>5. p[1] = IF Head(queue)[1] = event THEN {Head(queue)[2]} ELSE {}
  <2>1. 1 \in 1..Len(queue)
    BY <1>1
  <2>. QED
    BY <2>1, <1>1, <1>3
<1>6. Carries(p, from, to, history)
  BY DEF p
<1>7. \/ p[1] = {} /\ Carries(q, from, to, history)
      \/ /\ from + 1 <= Len(history) /\ from + 1 <= to
         /\ p[1] = {history[from + 1]} /\ Carries(q, from + 1, to, history)
  BY <1>2, <1>4, <1>6, CarriesShorter
<1>. QED
  BY <1>5, <1>7 DEF q

\* A channel without an event of the kind carries none.
LEMMA EventsNone ==
  ASSUME NEW queue \in Seq(Events), NEW event, \A i \in 1..Len(queue) : queue[i][1] # event,
         NEW from, NEW to, NEW history, Carries(InEvents(queue, event), from, to, history)
  PROVE  from = to
<1>1. Len(InEvents(queue, event)) = Len(queue) /\ Len(queue) \in Nat
  BY PlacesOfEvents
<1>2. \A i \in 1..Len(queue) : InEvents(queue, event)[i] = {}
  BY PlacesOfEvents
<1>. QED
  BY <1>1, <1>2, CarriesNothing

\* An empty pipe carries nothing.
LEMMA UnitsNone ==
  ASSUME NEW n \in Nat, NEW history
  PROVE  /\ Carries(InUnits(<<>>), n, n, history)
         /\ \A to : Carries(InUnits(<<>>), n, to, history) => to = n
<1>1. <<>> \in Seq(Units) /\ Len(<<>>) = 0
  OBVIOUS
<1>2. Len(InUnits(<<>>)) = 0
  BY <1>1, PlacesOfUnits
<1>3. Carries(InUnits(<<>>), n, n, history)
  BY <1>2, CarriesNone
<1>4. ASSUME NEW to, Carries(InUnits(<<>>), n, to, history) PROVE to = n
  <2>1. Len(InUnits(<<>>)) \in Nat /\ \A i \in 1..Len(InUnits(<<>>)) : InUnits(<<>>)[i] = {}
    BY <1>2
  <2>. QED
    BY <2>1, <1>4, CarriesNothing
<1>. QED
  BY <1>3, <1>4

\* So does an empty channel.
LEMMA NoEvents ==
  ASSUME NEW n \in Nat, NEW history, NEW event
  PROVE  Carries(InEvents(<<>>, event), n, n, history)
<1>1. <<>> \in Seq(Events) /\ Len(<<>>) = 0
  OBVIOUS
<1>2. Len(InEvents(<<>>, event)) = 0
  BY <1>1, PlacesOfEvents
<1>. QED
  BY <1>2, CarriesNone

--------------------------------------------------------------------------------
(* Frames: how the units of a stream follow on one another. *)

\* Only the empty sequence has length 0.
LEMMA EmptyQueue ==
  ASSUME NEW S, NEW queue \in Seq(S)
  PROVE  queue = <<>> <=> Len(queue) = 0
OBVIOUS

\* An empty queue: what came before it is what comes next.
LEMMA FlowsNone ==
  ASSUME NEW kind \in Kinds
  PROVE  /\ Flows(<<>>, kind, kind)
         /\ \A to : Flows(<<>>, kind, to) => to = kind
BY DEF Flows

\* A unit that is the next one joins the queue.
LEMMA FlowsJoins ==
  ASSUME NEW queue \in Seq(Units), NEW unit \in Units, NEW from, NEW to,
         Flows(queue, from, to), unit.kind = to
  PROVE  Flows(Append(queue, unit), from, Following[to])
<1> DEFINE q == Append(queue, unit)
<1>1. q \in Seq(Units) /\ q # <<>> /\ Len(q) = Len(queue) + 1 /\ Len(queue) \in Nat
      /\ (\A i \in 1..Len(queue) : q[i] = queue[i]) /\ q[Len(q)] = unit
  OBVIOUS
<1>2. from \in Kinds /\ to \in Kinds /\ Following[to] \in Kinds
  BY DEF Flows, Kinds, Following
<1>3. \A i \in 1..Len(q) : q[i].kind \in Kinds
  <2> TAKE i \in 1..Len(q)
  <2>1. i \in 1..Len(queue) \/ q[i] = unit
    BY <1>1
  <2>. QED
    BY <2>1, <1>1, <1>2 DEF Flows
<1>4. q[1].kind = from
  <2>1. CASE queue = <<>>
    <3>1. q[1] = unit /\ from = to
      BY <2>1, <1>1 DEF Flows
    <3>. QED
      BY <3>1
  <2>2. CASE queue # <<>>
    <3>1. 1 \in 1..Len(queue) /\ q[1] = queue[1]
      BY <2>2, <1>1
    <3>. QED
      BY <2>2, <3>1 DEF Flows
  <2>. QED
    BY <2>1, <2>2
<1>5. \A i \in 1..(Len(q) - 1) : q[i + 1].kind = Following[q[i].kind]
  <2> TAKE i \in 1..(Len(q) - 1)
  <2>1. CASE i = Len(queue)
    <3>1. q[i + 1] = unit /\ q[i] = queue[Len(queue)] /\ queue # <<>>
      BY <2>1, <1>1
    <3>. QED
      BY <3>1 DEF Flows
  <2>2. CASE i # Len(queue)
    <3>1. i \in 1..(Len(queue) - 1) /\ i \in 1..Len(queue) /\ i + 1 \in 1..Len(queue)
      BY <2>2, <1>1
    <3>2. q[i + 1] = queue[i + 1] /\ q[i] = queue[i]
      BY <3>1, <1>1
    <3>. QED
      BY <3>1, <3>2 DEF Flows
  <2>. QED
    BY <2>1, <2>2
<1> HIDE DEF q
<1>6. Flows(q, from, Following[to])
  BY <1>1, <1>2, <1>3, <1>4, <1>5 DEF Flows
<1>. QED
  BY <1>6 DEF q

\* The first unit leaves the queue.
LEMMA FlowsLeaves ==
  ASSUME NEW queue \in Seq(Units), queue # <<>>, NEW from, NEW to, Flows(queue, from, to)
  PROVE  Head(queue).kind = from /\ Flows(Tail(queue), Following[from], to)
<1> DEFINE q == Tail(queue)
<1>1. q \in Seq(Units) /\ Len(queue) = Len(q) + 1 /\ Len(q) \in Nat
      /\ (\A i \in 1..Len(q) : q[i] = queue[i + 1]) /\ Head(queue) = queue[1]
  OBVIOUS
<1>2. from \in Kinds /\ to \in Kinds /\ Following[from] \in Kinds
  BY DEF Flows, Kinds, Following
<1>3. Head(queue).kind = from
  BY <1>1 DEF Flows
<1>4. \A i \in 1..Len(q) : q[i].kind \in Kinds
  <2> TAKE i \in 1..Len(q)
  <2>1. i + 1 \in 1..Len(queue)
    BY <1>1
  <2>. QED
    BY <2>1, <1>1 DEF Flows
<1>5. q = <<>> => Following[from] = to
  <2>1. q = <<>> => Len(q) = 0
    BY <1>1, EmptyQueue
  <2>2. Len(queue) = 1 \/ q # <<>>
    BY <2>1, <1>1
  <2>. QED
    BY <2>2 DEF Flows
<1>6. q # <<>> => q[1].kind = Following[from] /\ Following[q[Len(q)].kind] = to
  <2> SUFFICES ASSUME q # <<>> PROVE q[1].kind = Following[from] /\ Following[q[Len(q)].kind] = to
    OBVIOUS
  <2>0. Len(q) # 0
    BY <1>1, EmptyQueue
  <2>1. 1 \in 1..(Len(queue) - 1) /\ q[1] = queue[1 + 1] /\ q[Len(q)] = queue[Len(queue)]
    BY <2>0, <1>1
  <2>. QED
    BY <2>1 DEF Flows
<1>7. \A i \in 1..(Len(q) - 1) : q[i + 1].kind = Following[q[i].kind]
  <2> TAKE i \in 1..(Len(q) - 1)
  <2>1. i + 1 \in 1..(Len(queue) - 1) /\ q[i] = queue[i + 1] /\ q[i + 1] = queue[i + 1 + 1]
    BY <1>1
  <2>. QED
    BY <2>1 DEF Flows
<1> HIDE DEF q
<1>8. Flows(q, Following[from], to)
  BY <1>1, <1>2, <1>4, <1>5, <1>6, <1>7 DEF Flows
<1>. QED
  BY <1>3, <1>8 DEF q

\* A reader of whole frames takes the unit that is due: it does not fail, it has
\* the next one due, and what completes a message is a body.
LEMMA ReaderGoesOn ==
  ASSUME NEW reader \in Sound, NEW unit \in Units, unit.kind = Due(reader)
  PROVE  /\ Due(reader) \in Kinds
         /\ AfterUnit(reader, unit) \in Sound /\ AfterUnit(reader, unit) # Failed
         /\ Due(AfterUnit(reader, unit)) = Following[Due(reader)]
         /\ Completes(reader, unit) <=> unit.kind = "body"
<1>1. CASE reader = Fresh
  <2>1. AfterUnit(reader, unit) = [at |-> "header", sized |-> TRUE] /\ Due(reader) = "length"
    BY <1>1 DEF AfterUnit, Fresh, Due
  <2>. QED
    BY <2>1, <1>1 DEF Sound, Failed, Fresh, Due, Following, Kinds, Completes
<1>2. CASE reader = [at |-> "header", sized |-> TRUE]
  <2>1. AfterUnit(reader, unit) = [at |-> "body", sized |-> TRUE] /\ Due(reader) = "blank"
    BY <1>2 DEF AfterUnit, Fresh, Due
  <2>. QED
    BY <2>1, <1>2 DEF Sound, Failed, Fresh, Due, Following, Kinds, Completes
<1>3. CASE reader = [at |-> "body", sized |-> TRUE]
  <2>1. AfterUnit(reader, unit) = Fresh /\ Due(reader) = "body"
    BY <1>3 DEF AfterUnit, Fresh, Due
  <2>. QED
    BY <2>1, <1>3 DEF Sound, Failed, Fresh, Due, Following, Kinds, Completes
<1>. QED
  BY <1>1, <1>2, <1>3 DEF Sound

\* The reader that has failed is none of these.
LEMMA SoundIsNotFailed == Failed \notin Sound
BY DEF Failed, Sound, Fresh

\* The rest of a frame: the first of its units, and the last.
LEMMA RestOfFrame ==
  ASSUME NEW there, NEW kind \in Kinds, NEW m \in Nat
  PROVE  /\ RestTo(there, kind, m) # <<>>
         /\ Head(RestTo(there, kind, m)) = RestTo(there, kind, m)[1]
         /\ RestTo(there, kind, m)[1] = [to |-> there, unit |-> Unit(kind, m)]
         /\ RestTo(there, kind, m)[Len(RestTo(there, kind, m))].unit.msg = m
<1>1. CASE kind = "length"
  <2>1. /\ RestTo(there, kind, m) = <<[to |-> there, unit |-> Unit("length", m)],
             [to |-> there, unit |-> Unit("blank", m)], [to |-> there, unit |-> Unit("body", m)]>>
        /\ RestTo(there, "blank", m) = <<[to |-> there, unit |-> Unit("blank", m)],
             [to |-> there, unit |-> Unit("body", m)]>>
    BY <1>1 DEF To, Rest, RestTo, Frame
  <2>. QED
    BY <2>1, <1>1 DEF Unit, Kinds
<1>2. CASE kind = "blank"
  <2>1. /\ RestTo(there, kind, m) = <<[to |-> there, unit |-> Unit("blank", m)],
             [to |-> there, unit |-> Unit("body", m)]>>
        /\ RestTo(there, "body", m) = <<[to |-> there, unit |-> Unit("body", m)]>>
    BY <1>2 DEF To, Rest, RestTo, Frame
  <2>. QED
    BY <2>1, <1>2 DEF Unit, Kinds
<1>3. CASE kind = "body"
  <2>1. RestTo(there, kind, m) = <<[to |-> there, unit |-> Unit("body", m)]>>
    BY <1>3 DEF To, Rest, RestTo, Frame
  <2>. QED
    BY <2>1, <1>3 DEF Unit, Kinds
<1>. QED
  BY <1>1, <1>2, <1>3 DEF Kinds

\* What is left of it once the first unit is written.
LEMMA RestGoesOn ==
  ASSUME NEW there, NEW kind \in Kinds, NEW m \in Nat
  PROVE  Tail(RestTo(there, kind, m)) = IF kind = "body" THEN <<>> ELSE RestTo(there, Following[kind], m)
<1>1. CASE kind = "length"
  <2>1. /\ RestTo(there, kind, m) = <<[to |-> there, unit |-> Unit("length", m)],
             [to |-> there, unit |-> Unit("blank", m)], [to |-> there, unit |-> Unit("body", m)]>>
        /\ RestTo(there, "blank", m) = <<[to |-> there, unit |-> Unit("blank", m)],
             [to |-> there, unit |-> Unit("body", m)]>>
    BY <1>1 DEF To, Rest, RestTo, Frame
  <2>. QED
    BY <2>1, <1>1 DEF Unit, Kinds, Following
<1>2. CASE kind = "blank"
  <2>1. /\ RestTo(there, kind, m) = <<[to |-> there, unit |-> Unit("blank", m)],
             [to |-> there, unit |-> Unit("body", m)]>>
        /\ RestTo(there, "body", m) = <<[to |-> there, unit |-> Unit("body", m)]>>
    BY <1>2 DEF To, Rest, RestTo, Frame
  <2>. QED
    BY <2>1, <1>2 DEF Unit, Kinds, Following
<1>3. CASE kind = "body"
  <2>1. RestTo(there, kind, m) = <<[to |-> there, unit |-> Unit("body", m)]>>
    BY <1>3 DEF To, Rest, RestTo, Frame
  <2>. QED
    BY <2>1, <1>3 DEF Unit, Kinds, Following
<1>. QED
  BY <1>1, <1>2, <1>3 DEF Kinds

\* After a unit of a frame what comes next is the unit that follows on it.
LEMMA ComingNext ==
  ASSUME NEW there, NEW kind \in Kinds, NEW m \in Nat
  PROVE  /\ Coming(RestTo(there, kind, m), there) = kind
         /\ Coming(Tail(RestTo(there, kind, m)), there) = Following[kind]
         /\ \A other : other # there =>
              /\ Coming(RestTo(there, kind, m), other) = "length"
              /\ Coming(Tail(RestTo(there, kind, m)), other) = "length"
<1>1. /\ RestTo(there, kind, m) # <<>>
      /\ RestTo(there, kind, m)[1].to = there /\ RestTo(there, kind, m)[1].unit.kind = kind
  <2>1. RestTo(there, kind, m) # <<>>
    BY RestOfFrame
  <2>2. RestTo(there, kind, m)[1] = [to |-> there, unit |-> Unit(kind, m)]
    BY RestOfFrame
  <2>. QED
    BY <2>1, <2>2 DEF Unit
<1>2. /\ Coming(RestTo(there, kind, m), there) = kind
      /\ \A other : other # there => Coming(RestTo(there, kind, m), other) = "length"
  BY <1>1 DEF Coming
<1>3. CASE kind = "body"
  <2>1. Tail(RestTo(there, kind, m)) = <<>> /\ Following[kind] = "length"
    BY RestGoesOn, <1>3 DEF Following, Kinds
  <2>. QED
    BY <2>1, <1>2 DEF Coming
<1>4. CASE kind # "body"
  <2>1. Tail(RestTo(there, kind, m)) = RestTo(there, Following[kind], m) /\ Following[kind] \in Kinds
    BY RestGoesOn, <1>4 DEF Following, Kinds
  <2>2. /\ RestTo(there, Following[kind], m) # <<>>
        /\ RestTo(there, Following[kind], m)[1].to = there
        /\ RestTo(there, Following[kind], m)[1].unit.kind = Following[kind]
    <3>1. RestTo(there, Following[kind], m) # <<>>
      BY <2>1, RestOfFrame
    <3>2. RestTo(there, Following[kind], m)[1] = [to |-> there, unit |-> Unit(Following[kind], m)]
      BY <2>1, RestOfFrame
    <3>. QED
      BY <3>1, <3>2 DEF Unit
  <2>. QED
    BY <2>1, <2>2, <1>2 DEF Coming
<1>. QED
  BY <1>3, <1>4

\* The messages of a stream of which is known what it carries.
LEMMA BodiesCarried ==
  ASSUME NEW queue \in Seq(Units), NEW history \in Seq(Nat), NEW from, NEW to,
         Carries(InUnits(queue), from, to, history), to <= Len(history)
  PROVE  Bodies(queue) = SubSeq(history, from + 1, to)
<1> DEFINE last == Len(queue)
           Step(f) == f = [n \in 0..last |-> IF n = 0 THEN <<>> ELSE Whole(f[n - 1], queue[n])]
<1>1. from \in Nat /\ to \in Nat /\ last \in Nat
  BY DEF Carries
<1>2. PICK count \in [0..last -> from..to] :
        /\ count[0] = from /\ count[last] = to
        /\ \A i \in 1..last :
             \/ InUnits(queue)[i] = {} /\ count[i] = count[i - 1]
             \/ /\ count[i] = count[i - 1] + 1 /\ count[i] <= Len(history)
                /\ InUnits(queue)[i] = {history[count[i]]}
  BY PlacesOfUnits DEF Carries
<1> DEFINE whole == [n \in 0..last |-> SubSeq(history, from + 1, count[n])]
<1>3. whole[0] = <<>>
  BY <1>1, <1>2
<1>4. ASSUME NEW n \in 1..last
      PROVE  whole[n] = Whole(whole[n - 1], queue[n])
  <2>1. InUnits(queue)[n] = IF queue[n].kind = "body" THEN {queue[n].msg} ELSE {}
    BY PlacesOfUnits
  <2>2. count[n] \in from..to /\ count[n - 1] \in from..to /\ n \in 0..last /\ n - 1 \in 0..last
    <3>1. n \in 0..last /\ n - 1 \in 0..last
      BY <1>1
    <3>. QED
      BY <3>1, <1>2
  <2>3. whole[n] = SubSeq(history, from + 1, count[n]) /\ whole[n - 1] = SubSeq(history, from + 1, count[n - 1])
    BY <2>2
  <2> HIDE DEF whole
  <2>4. CASE queue[n].kind # "body"
    <3>1. count[n] = count[n - 1]
      BY <2>1, <2>4, <1>2
    <3>. QED
      BY <3>1, <2>3, <2>4 DEF Whole
  <2>5. CASE queue[n].kind = "body"
    <3>1. count[n] = count[n - 1] + 1 /\ queue[n].msg = history[count[n - 1] + 1]
      BY <2>1, <2>5, <1>2
    <3>2. SubSeq(history, from + 1, count[n - 1] + 1)
            = Append(SubSeq(history, from + 1, count[n - 1]), history[count[n - 1] + 1])
      <4>1. count[n - 1] \in Nat /\ count[n - 1] >= from /\ count[n - 1] + 1 <= Len(history)
        BY <2>2, <3>1, <1>1
      <4>2. /\ from + 1 \in 1..Len(history)
            /\ count[n - 1] + 1 \in (from + 1)..Len(history)
            /\ count[n - 1] + 1 - 1 = count[n - 1]
        BY <4>1, <1>1
      <4>3. SubSeq(history, from + 1, count[n - 1] + 1)
              = SubSeq(history, from + 1, count[n - 1]) \o <<history[count[n - 1] + 1]>>
        <5> DEFINE first == from + 1
                   end == count[n - 1] + 1
        <5>1. first \in 1..Len(history) /\ end \in first..Len(history)
          BY <4>2
        <5>2. end - 1 = count[n - 1]
          BY <4>1
        <5>3. first = from + 1 /\ end = count[n - 1] + 1
          OBVIOUS
        <5> HIDE DEF first, end
        <5>4. SubSeq(history, first, end) = SubSeq(history, first, end - 1) \o <<history[end]>>
          BY <5>1, SubSeqRecursiveSecond
        <5>. QED
          BY <5>2, <5>3, <5>4
      <4>4. SubSeq(history, from + 1, count[n - 1]) \in Seq(Nat) /\ history[count[n - 1] + 1] \in Nat
        <5>1. count[n - 1] + 1 \in 1..Len(history)
          BY <4>1
        <5>2. history[count[n - 1] + 1] \in Nat
          BY <5>1
        <5>3. \A i \in (from + 1)..count[n - 1] : history[i] \in Nat
          <6> TAKE i \in (from + 1)..count[n - 1]
          <6>1. i \in 1..Len(history)
            BY <4>1, <1>1
          <6>. QED
            BY <6>1
        <5>4. from + 1 \in Int /\ count[n - 1] \in Int
          BY <4>1, <1>1
        <5>5. SubSeq(history, from + 1, count[n - 1]) \in Seq(Nat)
          BY <5>3, <5>4, SubSeqProperties
        <5>. QED
          BY <5>2, <5>5
      <4>. QED
        BY <4>3, <4>4, AppendIsConcat
    <3>. QED
      BY <3>1, <3>2, <2>3, <2>5 DEF Whole
  <2>. QED
    BY <2>4, <2>5
<1>5. Step(whole)
  <2>1. \A n \in 0..last : whole[n] = IF n = 0 THEN <<>> ELSE Whole(whole[n - 1], queue[n])
    <3> HIDE DEF whole
    <3> TAKE n \in 0..last
    <3>1. n = 0 \/ n \in 1..last
      BY <1>1
    <3>. QED
      BY <3>1, <1>3, <1>4
  <2>2. whole = [n \in 0..last |-> whole[n]]
    OBVIOUS
  <2> HIDE DEF whole
  <2>. QED
    BY <2>1, <2>2
<1>6. ASSUME NEW f, Step(f) PROVE f[last] = whole[last]
  <2> DEFINE Good == {n \in 0..last : f[n] = whole[n]}
  <2> HIDE DEF whole
  <2>1. \A n \in 0..last : f[n] = IF n = 0 THEN <<>> ELSE Whole(f[n - 1], queue[n])
    BY <1>6
  <2> HIDE DEF Step
  <2>2. 0 \in Good
    BY <2>1, <1>1, <1>3
  <2>3. ASSUME NEW n \in 0..(last - 1), n \in Good PROVE n + 1 \in Good
    <3>1. n + 1 \in 1..last /\ n + 1 \in 0..last /\ n + 1 - 1 = n
      BY <1>1
    <3>2. f[n] = whole[n]
      BY <2>3
    <3>3. f[n + 1] = Whole(f[n], queue[n + 1]) /\ whole[n + 1] = Whole(whole[n], queue[n + 1])
      BY <3>1, <2>1, <1>4
    <3>. QED
      BY <3>1, <3>2, <3>3
  <2>4. \A n \in 0..last : n \in Good
    <3> HIDE DEF Good
    <3>. QED
      BY <2>2, <2>3, <1>1, UpTo
  <2>. QED
    BY <2>4, <1>1
<1>7. Bodies(queue) = (CHOOSE f : Step(f))[last]
  BY DEF Bodies
<1>8. Step(CHOOSE f : Step(f))
  <2> HIDE DEF Step
  <2>. QED
    BY <1>5
<1>9. (CHOOSE f : Step(f))[last] = whole[last]
  <2> HIDE DEF Step, whole
  <2>. QED
    BY <1>6, <1>8
<1>10. whole[last] = SubSeq(history, from + 1, to)
  <2>1. last \in 0..last
    BY <1>1
  <2>. QED
    BY <2>1, <1>2
<1> HIDE DEF Step, whole, last
<1>. QED
  BY <1>7, <1>9, <1>10

--------------------------------------------------------------------------------
(* What the properties say follows from the invariant. *)

\* The first n messages of a history.
LEMMA FirstOf ==
  ASSUME NEW history \in Seq(Nat), NEW n \in 0..Len(history)
  PROVE  /\ SubSeq(history, 1, n) \in Seq(Nat) /\ Len(SubSeq(history, 1, n)) = n
         /\ \A i \in 1..n : SubSeq(history, 1, n)[i] = history[i]
OBVIOUS

\* A history that begins another one is a prefix of it.
LEMMA BeginsIsPrefix ==
  ASSUME NEW part \in Seq(Nat), NEW whole \in Seq(Nat), Begins(part, whole)
  PROVE  IsPrefix(part, whole) /\ part = SubSeq(whole, 1, Len(part))
<1>1. Len(part) \in Nat /\ Len(whole) \in Nat /\ Len(part) <= Len(whole)
      /\ \A i \in 1..Len(part) : part[i] = whole[i]
  BY DEF Begins
<1>2. SubSeq(whole, 1, Len(part)) \in Seq(Nat) /\ Len(SubSeq(whole, 1, Len(part))) = Len(part)
      /\ \A i \in 1..Len(part) : SubSeq(whole, 1, Len(part))[i] = whole[i]
  BY <1>1, FirstOf
<1>3. part = SubSeq(whole, 1, Len(part))
  BY <1>1, <1>2
<1>4. SubSeq(part, 1, Len(part)) = part
  BY SubSeqFull
<1>. QED
  BY <1>1, <1>3, <1>4 DEF IsPrefix

\* The history with the error at its end.
LEMMA ToldWithEndIs ==
  ASSUME NEW n \in 0..Len(said), said \in Seq(Nat)
  PROVE  /\ ToldWithEnd(n) \in Seq(Nat) /\ Len(ToldWithEnd(n)) = n + 1
         /\ ToldWithEnd(n)[n + 1] = ServerGone
         /\ \A i \in 1..n : ToldWithEnd(n)[i] = said[i]
<1> DEFINE part == SubSeq(said, 1, n)
<1>1. part \in Seq(Nat) /\ Len(part) = n /\ \A i \in 1..n : part[i] = said[i]
  BY FirstOf
<1> HIDE DEF part
<1>2. ToldWithEnd(n) = Append(part, ServerGone) /\ ServerGone \in Nat
  BY DEF ToldWithEnd, ServerGone, part
<1>. QED
  BY <1>1, <1>2

\* What the invariant says of the order is what WholeInOrder says.
LEMMA InvariantMeansOrder ==
  ASSUME IInv
  PROVE  WholeInOrder
<1>1. received \in Seq(Nat) /\ sent \in Seq(Nat) /\ got \in Seq(Nat) /\ said \in Seq(Nat)
  BY DEF IInv, ClientTyped, ServerTyped
<1>2. IsPrefix(got, sent)
  BY <1>1, BeginsIsPrefix DEF IInv, SentArrives
<1>3. serverReader # Failed /\ clientReader # Failed
  BY SoundIsNotFailed DEF IInv, ServerUnderstands, ClientUnderstands
<1>4. \E n \in 0..Len(said) : received \in {SubSeq(said, 1, n), Append(SubSeq(said, 1, n), ServerGone)}
  <2>1. CASE Begins(received, said)
    <3>1. Len(received) \in 0..Len(said)
      BY <1>1, <2>1 DEF Begins
    <3>. QED
      BY <1>1, <2>1, <3>1, BeginsIsPrefix
  <2>2. ASSUME NEW n \in 0..Len(said), Begins(received, ToldWithEnd(n))
        PROVE  \E k \in 0..Len(said) : received \in {SubSeq(said, 1, k), Append(SubSeq(said, 1, k), ServerGone)}
    <3>1. /\ ToldWithEnd(n) \in Seq(Nat) /\ Len(ToldWithEnd(n)) = n + 1
          /\ \A i \in 1..n : ToldWithEnd(n)[i] = said[i]
      BY <1>1, ToldWithEndIs
    <3>2. Len(received) \in Nat /\ Len(received) <= n + 1
      BY <1>1, <2>2, <3>1 DEF Begins
    <3>3. CASE Len(received) = n + 1
      <4>1. received = SubSeq(ToldWithEnd(n), 1, n + 1)
        BY <1>1, <2>2, <3>1, <3>3, BeginsIsPrefix
      <4>2. SubSeq(ToldWithEnd(n), 1, Len(ToldWithEnd(n))) = ToldWithEnd(n)
        BY <3>1, SubSeqFull
      <4>3. received = Append(SubSeq(said, 1, n), ServerGone)
        BY <4>1, <4>2, <3>1 DEF ToldWithEnd
      <4>. QED
        BY <4>3
    <3>4. CASE Len(received) # n + 1
      <4>1. Len(received) \in 0..n /\ Len(received) \in 0..Len(said)
        BY <3>2, <3>4
      <4>2. \A i \in 1..Len(received) : received[i] = said[i]
        <5> TAKE i \in 1..Len(received)
        <5>1. i \in 1..n
          BY <4>1
        <5>. QED
          BY <5>1, <2>2, <3>1 DEF Begins
      <4>3. Begins(received, said)
        BY <4>1, <4>2 DEF Begins
      <4>. QED
        BY <4>1, <4>3, <1>1, BeginsIsPrefix
    <3>. QED
      BY <3>3, <3>4
  <2>. QED
    BY <2>1, <2>2 DEF IInv, SaidArrives
<1>. QED
  BY <1>2, <1>3, <1>4 DEF WholeInOrder

\* What the loop holds for there is at most one message.
LEMMA HoldsAtMostOne ==
  ASSUME NEW output, NEW there, NEW from \in Nat, NEW to \in Nat, NEW history,
         Holds(output, there, from, to, history)
  PROVE  to = from \/ to = from + 1
BY DEF Holds

\* What the invariant says of the last words is what LastWords says: all that the
\* server said is in what the client got and in the pipe, and only the error may
\* still be with the loop.
LEMMA InvariantMeansLastWords ==
  ASSUME IInv
  PROVE  LastWords
<1> SUFFICES ASSUME phase = "reaping", "out" \notin unread
             PROVE  IsPrefix(said, received \o Bodies(pipe["out"]))
  BY DEF LastWords
<1>1. received \in Seq(Nat) /\ said \in Seq(Nat) /\ pipe["out"] \in Seq(Units)
  BY DEF IInv, ClientTyped, ServerTyped, PipesTyped, Pipe
<1> DEFINE told == ToldWithEnd(Len(said))
           n == Len(received)
<1>2. Begins(received, told) /\ OutChain(n, Len(said) + 1, pipe["out"], outbox, told)
  <2>1. PICK k \in 0..Len(said) :
          /\ Begins(received, ToldWithEnd(k)) /\ k = Len(said)
          /\ OutChain(Len(received), k + 1, pipe["out"], outbox, ToldWithEnd(k))
    BY DEF IInv, SaidArrives
  <2>. QED
    BY <2>1
<1>3. /\ told \in Seq(Nat) /\ Len(told) = Len(said) + 1 /\ Len(said) \in Nat
      /\ \A i \in 1..Len(said) : told[i] = said[i]
  BY <1>1, ToldWithEndIs
<1> HIDE DEF told
<1>4. PICK m \in 0..(Len(said) + 1) :
        Carries(InUnits(pipe["out"]), n, m, told) /\ Holds(outbox, "out", m, Len(said) + 1, told)
  BY <1>2 DEF OutChain
<1>5. m \in Nat /\ m >= Len(said) /\ m <= Len(told)
  BY <1>3, <1>4, HoldsAtMostOne
<1>6. Bodies(pipe["out"]) = SubSeq(told, n + 1, m)
  BY <1>1, <1>3, <1>4, <1>5, BodiesCarried
<1>7. n \in Nat /\ n <= m
  <2>1. n \in Nat
    BY <1>1
  <2>2. PICK count \in [0..Len(InUnits(pipe["out"])) -> n..m] : count[0] = n
    BY <1>4 DEF Carries
  <2>3. 0 \in 0..Len(InUnits(pipe["out"]))
    BY <1>1, PlacesOfUnits
  <2>. QED
    BY <2>1, <2>2, <2>3, <1>5
<1>8. received = SubSeq(told, 1, n)
  BY <1>1, <1>2, <1>3, BeginsIsPrefix
<1>9. received \o Bodies(pipe["out"]) = SubSeq(told, 1, m)
  <2>1. 1 \in 1..(Len(told) + 1) /\ n \in (1 - 1)..Len(told) /\ m \in n..Len(told)
    BY <1>5, <1>7, <1>3
  <2> HIDE DEF n
  <2>2. SubSeq(told, 1, n) \o SubSeq(told, n + 1, m) = SubSeq(told, 1, m)
    BY <1>3, <2>1, ConcatAdjacentSubSeq
  <2>. QED
    BY <2>2, <1>6, <1>8
<1>10. Begins(said, SubSeq(told, 1, m)) /\ SubSeq(told, 1, m) \in Seq(Nat)
  <2>1. SubSeq(told, 1, m) \in Seq(Nat) /\ Len(SubSeq(told, 1, m)) = m
        /\ \A i \in 1..m : SubSeq(told, 1, m)[i] = told[i]
    BY <1>3, <1>5
  <2>. QED
    BY <2>1, <1>3, <1>5 DEF Begins
<1>. QED
  BY <1>1, <1>9, <1>10, BeginsIsPrefix

--------------------------------------------------------------------------------
(* What a step leaves alone. *)

\* A write adds a unit to its pipe and to no other.
LEMMA Written ==
  ASSUME PipesTyped, NEW p \in Pipe, NEW unit \in Units, Write(p, unit)
  PROVE  /\ pipe' \in [Pipe -> Seq(Units)] /\ pipe'[p] = Append(pipe[p], unit)
         /\ \A q \in Pipe : q # p => pipe'[q] = pipe[q]
<1>1. pipe[p] \in Seq(Units) /\ pipe \in [Pipe -> Seq(Units)]
  BY DEF PipesTyped
<1>2. pipe' = [pipe EXCEPT ![p] = Append(pipe[p], unit)]
  BY DEF Write
<1>3. Append(pipe[p], unit) \in Seq(Units)
  BY <1>1
<1>. QED
  BY <1>1, <1>2, <1>3

\* A read takes the first unit of its pipe and of no other.
LEMMA Consumed ==
  ASSUME PipesTyped, NEW p \in Pipe, pipe[p] # <<>>, Consume(p)
  PROVE  /\ pipe' \in [Pipe -> Seq(Units)] /\ pipe'[p] = Tail(pipe[p])
         /\ \A q \in Pipe : q # p => pipe'[q] = pipe[q]
         /\ pipe[p] \in Seq(Units) /\ Head(pipe[p]) \in Units
<1>1. pipe[p] \in Seq(Units) /\ pipe \in [Pipe -> Seq(Units)]
  BY DEF PipesTyped
<1>2. pipe' = [pipe EXCEPT ![p] = Tail(pipe[p])]
  BY DEF Consume
<1>3. Tail(pipe[p]) \in Seq(Units) /\ Head(pipe[p]) \in Units
  BY <1>1
<1>. QED
  BY <1>1, <1>2, <1>3

\* The types of what a step does not touch.
LEMMA TypesKept ==
  /\ PipesTyped /\ UNCHANGED <<pipe, unwritten, unread>> => PipesTyped'
  /\ ClientTyped /\ UNCHANGED <<todo, received, sent>> => ClientTyped'
  /\ ProxyTyped /\ UNCHANGED <<readers, channel, phase>> => ProxyTyped'
  /\ ServerTyped /\ UNCHANGED <<exited, got, said>> => ServerTyped'
BY DEF PipesTyped, ClientTyped, ProxyTyped, ServerTyped

\* What the loop and the server have still to write.
LEMMA OutputKept ==
  /\ LoopWrites /\ UNCHANGED outbox => LoopWrites'
  /\ ServerOwes /\ UNCHANGED owed => ServerOwes'
BY DEF LoopWrites, ServerOwes

\* What the server reads.
LEMMA ServerKept ==
  ASSUME ServerUnderstands, UNCHANGED serverReader, exited => exited',
         pipe'["stdin"] = pipe["stdin"], Coming(outbox', "stdin") = Coming(outbox, "stdin")
  PROVE  ServerUnderstands'
BY DEF ServerUnderstands

\* What the client reads.
LEMMA ClientKept ==
  ASSUME ClientUnderstands, UNCHANGED clientReader, unread \subseteq unread',
         pipe'["out"] = pipe["out"], Coming(outbox', "out") = Coming(outbox, "out")
  PROVE  ClientUnderstands'
BY DEF ClientUnderstands

\* What the proxy reads of the server.
LEMMA ProxyKept ==
  ASSUME ProxyUnderstands, readers'["stdout"] = readers["stdout"],
         pipe'["stdout"] = pipe["stdout"], unwritten \subseteq unwritten',
         Coming(owed', "stdout") = Coming(owed, "stdout")
  PROVE  ProxyUnderstands'
BY DEF ProxyUnderstands

\* The place of the end of the server's stream.
LEMMA EndKept ==
  ASSUME EndIsLast, readers'["stdout"] = readers["stdout"],
         pipe'["stdout"] = pipe["stdout"], unwritten \subseteq unwritten',
         UNCHANGED channel, phase' = "reaping" => phase = "reaping"
  PROVE  EndIsLast'
BY DEF EndIsLast

\* The way from the client to the server.
LEMMA SentKept ==
  ASSUME SentArrives, "stdin" \in unread' => "stdin" \in unread \/ exited', exited => exited',
         UNCHANGED <<got, sent, channel>>, pipe'["stdin"] = pipe["stdin"], pipe'["in"] = pipe["in"],
         \A n, k, history : Holds(outbox, "stdin", n, k, history) => Holds(outbox', "stdin", n, k, history)
  PROVE  SentArrives'
<1>1. ASSUME SentChain(Len(got), pipe["stdin"], outbox, channel, pipe["in"], sent)
      PROVE  SentChain(Len(got), pipe'["stdin"], outbox', channel, pipe'["in"], sent)
  BY <1>1 DEF SentChain
<1>. QED
  BY <1>1 DEF SentArrives

\* The way from the server to the client.
LEMMA SaidKept ==
  ASSUME SaidArrives, unread \subseteq unread',
         UNCHANGED <<phase, received, said, channel, outbox>>,
         pipe'["out"] = pipe["out"], pipe'["stdout"] = pipe["stdout"]
  PROVE  SaidArrives'
BY DEF SaidArrives, ToldWithEnd

\* The invariant, part by part.
LEMMA Parts ==
  /\ IInv => /\ PipesTyped /\ ClientTyped /\ ProxyTyped /\ ServerTyped
             /\ LoopWrites /\ ServerOwes
             /\ ServerUnderstands /\ ClientUnderstands /\ ProxyUnderstands
             /\ EndIsLast /\ SentArrives /\ SaidArrives
BY DEF IInv

--------------------------------------------------------------------------------
(* The initial states. *)

\* The invariant holds when nothing was written yet.
LEMMA InitIInv == Init => IInv
<1> SUFFICES ASSUME Init PROVE IInv
  OBVIOUS
<1>1. PipesTyped /\ ClientTyped /\ ServerTyped
  <2>1. PipesTyped
    BY DEF Init, PipesTyped
  <2>2. todo \in Seq(Units)
    BY PlumbingAssumption DEF Init
  <2>3. ClientTyped
    BY <2>2 DEF Init, ClientTyped
  <2>4. exited = FALSE /\ got = <<>> /\ said = <<>> /\ <<>> \in Seq(Nat)
    BY DEF Init
  <2>5. ServerTyped
    BY <2>4, Zenon DEF ServerTyped
  <2>. QED
    BY <2>1, <2>3, <2>5
<1>2. ProxyTyped
  BY DEF Init, ProxyTyped, Fresh, Readers
<1>3. LoopWrites /\ ServerOwes
  BY DEF Init, LoopWrites, ServerOwes
<1>4. \A p \in Pipe : pipe[p] = <<>>
  BY DEF Init
<1>5. \A there : Coming(<<>>, there) = "length"
  BY DEF Coming
<1>6. Fresh \in Sound /\ Due(Fresh) = "length" /\ "length" \in Kinds
  BY DEF Sound, Due, Fresh, Kinds
<1>7. Flows(<<>>, "length", "length")
  BY <1>6, FlowsNone
<1>8. ServerUnderstands /\ ClientUnderstands
  BY <1>4, <1>5, <1>6, <1>7 DEF Init, ServerUnderstands, ClientUnderstands, Pipe
<1>9. ProxyUnderstands
  BY <1>4, <1>5, <1>6, <1>7 DEF Init, ProxyUnderstands, Pipe
<1>10. EndIsLast
  BY DEF Init, EndIsLast, Fresh, Failed
<1>11. /\ 0 \in 0..Len(<<>>) /\ Len(<<>>) = 0 /\ Begins(<<>>, <<>>)
       /\ Carries(InUnits(<<>>), 0, 0, <<>>)
       /\ \A event : Carries(InEvents(<<>>, event), 0, 0, <<>>)
       /\ \A there : Holds(<<>>, there, 0, 0, <<>>)
  <2>1. 0 \in 0..Len(<<>>) /\ Len(<<>>) = 0 /\ Begins(<<>>, <<>>)
    BY DEF Begins
  <2>2. Carries(InUnits(<<>>), 0, 0, <<>>)
    BY UnitsNone
  <2>3. \A event : Carries(InEvents(<<>>, event), 0, 0, <<>>)
    BY NoEvents
  <2>. QED
    BY <2>1, <2>2, <2>3 DEF Holds
<1>12. SentArrives
  <2>1. SentChain(0, <<>>, <<>>, <<>>, <<>>, <<>>)
    BY <1>11 DEF SentChain
  <2>. QED
    BY <1>4, <1>11, <2>1 DEF Init, SentArrives, Pipe
<1>13. SaidArrives
  <2>1. OutChain(0, 0, <<>>, <<>>, <<>>)
    BY <1>11 DEF OutChain
  <2>2. SaidChain(0, <<>>, <<>>, <<>>)
    BY <1>11 DEF SaidChain
  <2>3. pipe["out"] = <<>> /\ pipe["stdout"] = <<>>
    BY <1>4 DEF Pipe
  <2>4. /\ phase = "running" /\ received = <<>> /\ said = <<>> /\ outbox = <<>> /\ channel = <<>>
    BY DEF Init
  <2>. QED
    BY <1>11, <2>1, <2>2, <2>3, <2>4 DEF SaidArrives
<1>. QED
  BY <1>1, <1>2, <1>3, <1>8, <1>9, <1>10, <1>12, <1>13 DEF IInv

--------------------------------------------------------------------------------
(* The steps of the client. *)

\* A history grows by a message at its end, or not at all.
LEMMA Grown ==
  ASSUME NEW history \in Seq(Nat), NEW unit \in Units
  PROVE  LET longer == Whole(history, unit) IN
         /\ longer \in Seq(Nat) /\ Len(longer) >= Len(history)
         /\ \A i \in 1..Len(history) : i <= Len(longer) /\ longer[i] = history[i]
         /\ unit.kind # "body" => longer = history
         /\ unit.kind = "body" => Len(longer) = Len(history) + 1 /\ longer[Len(history) + 1] = unit.msg
<1>1. CASE unit.kind = "body"
  <2>1. Whole(history, unit) = Append(history, unit.msg) /\ unit.msg \in Nat
    BY <1>1 DEF Whole, Units
  <2>. QED
    BY <2>1, <1>1
<1>2. CASE unit.kind # "body"
  <2>1. Whole(history, unit) = history
    BY <1>2 DEF Whole
  <2>. QED
    BY <2>1, <1>2
<1>. QED
  BY <1>1, <1>2

\* What begins a history begins it still when it has grown.
LEMMA BeginsGrown ==
  ASSUME NEW part \in Seq(Nat), NEW history \in Seq(Nat), NEW longer \in Seq(Nat),
         Begins(part, history), Begins(history, longer)
  PROVE  Begins(part, longer)
<1>1. Len(part) \in Nat /\ Len(history) \in Nat /\ Len(longer) \in Nat
  OBVIOUS
<1>2. Len(part) <= Len(history) /\ Len(history) <= Len(longer)
  BY DEF Begins
<1>3. \A i \in 1..Len(part) : i \in 1..Len(history) /\ part[i] = longer[i]
  <2> TAKE i \in 1..Len(part)
  <2>1. i \in 1..Len(history)
    BY <1>1, <1>2
  <2>2. part[i] = history[i]
    BY DEF Begins
  <2>3. history[i] = longer[i]
    BY <2>1 DEF Begins
  <2>. QED
    BY <2>1, <2>2, <2>3
<1>. QED
  BY <1>1, <1>2, <1>3 DEF Begins

\* A queue that carries part of a history, or holds it, does so when it has grown.
LEMMA CarriedGrown ==
  ASSUME NEW history, NEW longer, Begins(history, longer), Len(history) \in Nat, Len(longer) \in Nat,
         NEW from \in Nat, NEW to \in 0..Len(history)
  PROVE  /\ \A places : Len(places) \in Nat /\ Carries(places, from, to, history) =>
                         Carries(places, from, to, longer)
         /\ \A output, there : Holds(output, there, from, to, history) =>
                                Holds(output, there, from, to, longer)
<1>1. \A i \in 1..to : i <= Len(longer) /\ longer[i] = history[i]
  BY DEF Begins
<1>2. ASSUME NEW places, Len(places) \in Nat, Carries(places, from, to, history)
      PROVE  Carries(places, from, to, longer)
  BY <1>1, <1>2, CarriesOther
<1>3. ASSUME NEW output, NEW there, Holds(output, there, from, to, history)
      PROVE  Holds(output, there, from, to, longer)
  BY <1>1, <1>3 DEF Holds
<1>. QED
  BY <1>2, <1>3

\* ClientWrites: the pipe carries the message once its body is written.
LEMMA ClientWritesKeeps ==
  ASSUME IInv, ClientWrites
  PROVE  IInv'
<1> DEFINE unit == Head(todo)
<1>1. /\ PipesTyped /\ ClientTyped /\ ProxyTyped /\ ServerTyped
      /\ LoopWrites /\ ServerOwes
      /\ ServerUnderstands /\ ClientUnderstands /\ ProxyUnderstands
      /\ EndIsLast /\ SentArrives /\ SaidArrives
  BY Parts
<1>2. /\ todo # <<>> /\ Write("in", unit) /\ todo' = Tail(todo) /\ sent' = Whole(sent, unit)
      /\ UNCHANGED <<unwritten, unread, clientReader, received, readers, channel, outbox, phase,
                     exited, serverReader, got, owed, said>>
  BY DEF ClientWrites, proxyVars, serverVars
<1>3. todo \in Seq(Units) /\ received \in Seq(Nat) /\ sent \in Seq(Nat)
  BY <1>1 DEF ClientTyped
<1>4. unit \in Units /\ Tail(todo) \in Seq(Units)
  BY <1>2, <1>3
<1> HIDE DEF unit
<1>5. /\ pipe' \in [Pipe -> Seq(Units)] /\ pipe'["in"] = Append(pipe["in"], unit)
      /\ pipe'["out"] = pipe["out"] /\ pipe'["stdin"] = pipe["stdin"] /\ pipe'["stdout"] = pipe["stdout"]
  <2>1. "in" \in Pipe /\ "out" \in Pipe /\ "stdin" \in Pipe /\ "stdout" \in Pipe
    BY DEF Pipe
  <2>. QED
    BY <1>1, <1>2, <1>4, <2>1, Written
<1>6. /\ sent' \in Seq(Nat) /\ Begins(sent, sent')
      /\ unit.kind # "body" => sent' = sent
      /\ unit.kind = "body" => Len(sent') = Len(sent) + 1 /\ sent'[Len(sent) + 1] = unit.msg
  BY <1>2, <1>3, <1>4, Grown DEF Begins
<1>7. PipesTyped'
  BY <1>1, <1>2, <1>5 DEF PipesTyped
<1>8. ClientTyped'
  BY <1>2, <1>3, <1>4, <1>6 DEF ClientTyped
<1>9. ProxyTyped' /\ ServerTyped' /\ LoopWrites' /\ ServerOwes'
  BY <1>1, <1>2, TypesKept, OutputKept
<1>10. ServerUnderstands' /\ ClientUnderstands' /\ ProxyUnderstands' /\ EndIsLast' /\ SaidArrives'
  BY <1>1, <1>2, <1>5, ServerKept, ClientKept, ProxyKept, EndKept, SaidKept
<1>11. SentArrives'
  <2>1. Begins(got, sent')
    BY <1>1, <1>3, <1>6, BeginsGrown DEF SentArrives, ServerTyped
  <2>2. ASSUME SentChain(Len(got), pipe["stdin"], outbox, channel, pipe["in"], sent)
        PROVE  SentChain(Len(got), pipe'["stdin"], outbox, channel, pipe'["in"], sent')
    <3>1. PICK n1 \in 0..Len(sent), n2 \in 0..Len(sent), n3 \in 0..Len(sent) :
            /\ Carries(InUnits(pipe["stdin"]), Len(got), n1, sent)
            /\ Holds(outbox, "stdin", n1, n2, sent)
            /\ Carries(InEvents(channel, "fromClient"), n2, n3, sent)
            /\ Carries(InUnits(pipe["in"]), n3, Len(sent), sent)
      BY <2>2 DEF SentChain
    <3>2. Len(sent) \in Nat /\ Len(sent') \in Nat
          /\ n1 \in 0..Len(sent') /\ n2 \in 0..Len(sent') /\ n3 \in 0..Len(sent')
          /\ Len(sent) \in 0..Len(sent) /\ n3 \in Nat
      BY <1>3, <1>6 DEF Begins
    <3>3. /\ pipe["stdin"] \in Seq(Units) /\ pipe["in"] \in Seq(Units) /\ channel \in Seq(Events)
      BY <1>1 DEF PipesTyped, ProxyTyped, Pipe
    <3>4. /\ Len(InUnits(pipe["stdin"])) \in Nat /\ Len(InUnits(pipe["in"])) \in Nat
          /\ Len(InEvents(channel, "fromClient")) \in Nat
      BY <3>3, PlacesOfUnits, PlacesOfEvents
    <3>5. Carries(InUnits(pipe["stdin"]), Len(got), n1, sent')
      BY <1>6, <3>1, <3>2, <3>4, CarriedGrown
    <3>6. Holds(outbox, "stdin", n1, n2, sent')
      BY <1>6, <3>1, <3>2, CarriedGrown
    <3>7. Carries(InEvents(channel, "fromClient"), n2, n3, sent')
      BY <1>6, <3>1, <3>2, <3>4, CarriedGrown
    <3>8. Carries(InUnits(pipe["in"]), n3, Len(sent), sent')
      BY <1>6, <3>1, <3>2, <3>4, CarriedGrown
    <3>9. Carries(InUnits(pipe'["in"]), n3, Len(sent'), sent')
      <4>1. /\ unit.kind # "body" => Carries(InUnits(pipe'["in"]), n3, Len(sent), sent')
            /\ unit.kind = "body" /\ Len(sent) + 1 <= Len(sent') /\ unit.msg = sent'[Len(sent) + 1] =>
                 Carries(InUnits(pipe'["in"]), n3, Len(sent) + 1, sent')
        BY <3>3, <3>8, <1>4, <1>5, UnitJoins
      <4>. QED
        BY <4>1, <3>2, <1>6
    <3>. QED
      BY <3>2, <3>5, <3>6, <3>7, <3>9, <1>5 DEF SentChain
  <2>. QED
    BY <2>1, <2>2, <1>1, <1>2 DEF SentArrives
<1>. QED
  BY <1>7, <1>8, <1>9, <1>10, <1>11 DEF IInv

\* A history that begins another and then has the next message of it begins it.
LEMMA BeginsNext ==
  ASSUME NEW part \in Seq(Nat), NEW history \in Seq(Nat), Begins(part, history),
         NEW m \in Nat, Len(part) + 1 <= Len(history), m = history[Len(part) + 1]
  PROVE  Begins(Append(part, m), history) /\ Append(part, m) \in Seq(Nat)
         /\ Len(Append(part, m)) = Len(part) + 1
<1> DEFINE longer == Append(part, m)
<1>1. longer \in Seq(Nat) /\ Len(longer) = Len(part) + 1 /\ longer[Len(part) + 1] = m
      /\ (\A i \in 1..Len(part) : longer[i] = part[i]) /\ Len(part) \in Nat
  OBVIOUS
<1> HIDE DEF longer
<1>2. \A i \in 1..Len(longer) : longer[i] = history[i]
  <2> TAKE i \in 1..Len(longer)
  <2>1. i \in 1..Len(part) \/ i = Len(part) + 1
    BY <1>1
  <2>. QED
    BY <2>1, <1>1 DEF Begins
<1>3. Begins(longer, history)
  BY <1>1, <1>2 DEF Begins
<1>. QED
  BY <1>1, <1>3 DEF longer

\* ClientReads: the client takes the unit that is due, and with the body the next
\* message of what it is told.
LEMMA ClientReadsKeeps ==
  ASSUME IInv, ClientReads
  PROVE  IInv'
<1> DEFINE unit == Head(pipe["out"])
<1>1. /\ PipesTyped /\ ClientTyped /\ ProxyTyped /\ ServerTyped
      /\ LoopWrites /\ ServerOwes
      /\ ServerUnderstands /\ ClientUnderstands /\ ProxyUnderstands
      /\ EndIsLast /\ SentArrives /\ SaidArrives
  BY Parts
<1>2. /\ pipe["out"] # <<>> /\ "out" \notin unread /\ Consume("out")
      /\ clientReader' = AfterUnit(clientReader, unit)
      /\ received' = IF Completes(clientReader, unit) THEN Append(received, unit.msg) ELSE received
      /\ UNCHANGED <<unwritten, unread, todo, sent, readers, channel, outbox, phase,
                     exited, serverReader, got, owed, said>>
  BY DEF ClientReads, proxyVars, serverVars
<1>3. todo \in Seq(Units) /\ received \in Seq(Nat) /\ sent \in Seq(Nat) /\ said \in Seq(Nat)
  BY <1>1 DEF ClientTyped, ServerTyped
<1>4. /\ pipe' \in [Pipe -> Seq(Units)] /\ pipe'["out"] = Tail(pipe["out"])
      /\ pipe'["in"] = pipe["in"] /\ pipe'["stdin"] = pipe["stdin"] /\ pipe'["stdout"] = pipe["stdout"]
      /\ pipe["out"] \in Seq(Units) /\ unit \in Units
  <2>1. "in" \in Pipe /\ "out" \in Pipe /\ "stdin" \in Pipe /\ "stdout" \in Pipe
    BY DEF Pipe
  <2>. QED
    BY <1>1, <1>2, <2>1, Consumed
<1> HIDE DEF unit
<1>5. /\ clientReader \in Sound
      /\ unit.kind = Due(clientReader)
      /\ Flows(pipe'["out"], Following[Due(clientReader)], Coming(outbox, "out"))
  <2>1. clientReader \in Sound /\ Flows(pipe["out"], Due(clientReader), Coming(outbox, "out"))
    BY <1>1, <1>2 DEF ClientUnderstands
  <2>. QED
    BY <2>1, <1>2, <1>4, FlowsLeaves DEF unit
<1>6. /\ clientReader' \in Sound /\ Due(clientReader') = Following[Due(clientReader)]
      /\ Completes(clientReader, unit) <=> unit.kind = "body"
  BY <1>2, <1>4, <1>5, ReaderGoesOn
<1>7. unit.msg \in Nat
  BY <1>4 DEF Units
<1>8. received' = IF unit.kind = "body" THEN Append(received, unit.msg) ELSE received
  BY <1>2, <1>6
<1>9. PipesTyped'
  BY <1>1, <1>2, <1>4 DEF PipesTyped
<1>10. ClientTyped'
  BY <1>2, <1>3, <1>7, <1>8 DEF ClientTyped
<1>11. ProxyTyped' /\ ServerTyped' /\ LoopWrites' /\ ServerOwes'
  BY <1>1, <1>2, TypesKept, OutputKept
<1>12. ServerUnderstands' /\ ProxyUnderstands' /\ EndIsLast' /\ SentArrives'
  BY <1>1, <1>2, <1>4, ServerKept, ProxyKept, EndKept, SentKept
<1>13. ClientUnderstands'
  BY <1>2, <1>5, <1>6 DEF ClientUnderstands
<1>14. ASSUME NEW history \in Seq(Nat), NEW to, Begins(received, history),
              OutChain(Len(received), to, pipe["out"], outbox, history)
       PROVE  /\ Begins(received', history)
              /\ OutChain(Len(received'), to, pipe'["out"], outbox, history)
  <2>1. PICK m \in 0..to : /\ Carries(InUnits(pipe["out"]), Len(received), m, history)
                           /\ Holds(outbox, "out", m, to, history)
    BY <1>14 DEF OutChain
  <2>2. CASE unit.kind = "body"
    <3>1. /\ Len(received) + 1 <= Len(history) /\ unit.msg = history[Len(received) + 1]
          /\ Carries(InUnits(pipe'["out"]), Len(received) + 1, m, history)
      BY <2>1, <2>2, <1>2, <1>4, UnitLeaves DEF unit
    <3>2. Begins(received', history) /\ Len(received') = Len(received) + 1
      BY <3>1, <2>2, <1>3, <1>7, <1>8, <1>14, BeginsNext
    <3>. QED
      BY <2>1, <3>1, <3>2 DEF OutChain
  <2>3. CASE unit.kind # "body"
    <3>1. Carries(InUnits(pipe'["out"]), Len(received), m, history)
      BY <2>1, <2>3, <1>2, <1>4, UnitLeaves DEF unit
    <3>. QED
      BY <2>1, <2>3, <3>1, <1>8, <1>14 DEF OutChain
  <2>. QED
    BY <2>2, <2>3
<1>15. SaidArrives'
  <2>1. CASE /\ phase \in {"running", "stopped"}
             /\ Begins(received, said)
             /\ \E n \in 0..Len(said) :
                  /\ OutChain(Len(received), n, pipe["out"], outbox, said)
                  /\ phase = "running" => SaidChain(n, channel, pipe["stdout"], said)
    <3>1. PICK n \in 0..Len(said) :
            /\ OutChain(Len(received), n, pipe["out"], outbox, said)
            /\ phase = "running" => SaidChain(n, channel, pipe["stdout"], said)
      BY <2>1
    <3>2. Begins(received', said) /\ OutChain(Len(received'), n, pipe'["out"], outbox, said)
      BY <2>1, <3>1, <1>3, <1>14
    <3>. QED
      BY <2>1, <3>1, <3>2, <1>2, <1>4 DEF SaidArrives
  <2>2. CASE /\ phase # "running"
             /\ \E n \in 0..Len(said) :
                  /\ Begins(received, ToldWithEnd(n))
                  /\ phase = "reaping" => n = Len(said)
                  /\ OutChain(Len(received), n + 1, pipe["out"], outbox, ToldWithEnd(n))
    <3>1. PICK n \in 0..Len(said) :
            /\ Begins(received, ToldWithEnd(n))
            /\ phase = "reaping" => n = Len(said)
            /\ OutChain(Len(received), n + 1, pipe["out"], outbox, ToldWithEnd(n))
      BY <2>2
    <3>2. ToldWithEnd(n) \in Seq(Nat)
      BY <1>3, ToldWithEndIs
    <3>3. /\ Begins(received', ToldWithEnd(n))
          /\ OutChain(Len(received'), n + 1, pipe'["out"], outbox, ToldWithEnd(n))
      BY <3>1, <3>2, <1>14
    <3>4. ToldWithEnd(n)' = ToldWithEnd(n)
      BY <1>2 DEF ToldWithEnd
    <3>5. /\ Begins(received', ToldWithEnd(n)')
          /\ OutChain(Len(received'), n + 1, pipe'["out"], outbox', ToldWithEnd(n)')
          /\ phase' # "running" /\ said' = said /\ phase' = phase
      BY <3>3, <3>4, <2>2, <1>2
    <3>. QED
      BY <3>1, <3>5 DEF SaidArrives, ToldWithEnd
  <2>. QED
    BY <2>1, <2>2, <1>1, <1>2 DEF SaidArrives
<1>. QED
  BY <1>9, <1>10, <1>11, <1>12, <1>13, <1>15 DEF IInv

\* ClientCloses: what it hangs up with is lost, but not taken for something else.
LEMMA ClientClosesKeeps ==
  ASSUME IInv, ClientCloses
  PROVE  IInv'
<1>1. /\ PipesTyped /\ ClientTyped /\ ProxyTyped /\ ServerTyped
      /\ LoopWrites /\ ServerOwes
      /\ ServerUnderstands /\ ClientUnderstands /\ ProxyUnderstands
      /\ EndIsLast /\ SentArrives /\ SaidArrives
  BY Parts
<1>2. /\ unwritten' = unwritten \cup {"in"} /\ unread' \in {unread, unread \cup {"out"}}
      /\ UNCHANGED <<pipe, todo, clientReader, received, sent, readers, channel, outbox, phase,
                     exited, serverReader, got, owed, said>>
  BY DEF ClientCloses, clientVars, proxyVars, serverVars
<1>3. unwritten \subseteq unwritten' /\ unread \subseteq unread' /\ ("stdin" \in unread' => "stdin" \in unread)
  BY <1>2
<1>4. PipesTyped'
  BY <1>1, <1>2 DEF PipesTyped, Pipe
<1>5. ClientTyped' /\ ProxyTyped' /\ ServerTyped' /\ LoopWrites' /\ ServerOwes'
  BY <1>1, <1>2, TypesKept, OutputKept
<1>6. /\ ServerUnderstands' /\ ClientUnderstands' /\ ProxyUnderstands'
      /\ EndIsLast' /\ SentArrives' /\ SaidArrives'
  BY <1>1, <1>2, <1>3, ServerKept, ClientKept, ProxyKept, EndKept, SentKept, SaidKept
<1>. QED
  BY <1>4, <1>5, <1>6 DEF IInv

--------------------------------------------------------------------------------
(* The steps of the threads that read. *)

\* An event that is neither a message of the server nor its end changes nothing
\* of their order.
LEMMA EndOther ==
  ASSUME EndIsLast, channel \in Seq(Events), NEW new \in Events,
         new[1] # "fromUpstream", new[1] # "upstreamClosed",
         channel' = Append(channel, new), readers'["stdout"] = readers["stdout"],
         pipe'["stdout"] = pipe["stdout"], UNCHANGED <<unwritten, phase>>
  PROVE  EndIsLast'
<1>1. /\ Len(channel') = Len(channel) + 1 /\ Len(channel) \in Nat
      /\ (\A i \in 1..Len(channel) : channel'[i] = channel[i]) /\ channel'[Len(channel) + 1] = new
  OBVIOUS
<1>2. ASSUME NEW i \in 1..Len(channel'), channel'[i][1] = "upstreamClosed"
      PROVE  /\ readers["stdout"] = Failed
             /\ \A j \in i..Len(channel') : channel'[j][1] # "fromUpstream"
  <2>1. i \in 1..Len(channel) /\ channel[i][1] = "upstreamClosed"
    BY <1>1, <1>2
  <2>2. readers["stdout"] = Failed /\ \A j \in i..Len(channel) : channel[j][1] # "fromUpstream"
    BY <2>1 DEF EndIsLast
  <2>3. ASSUME NEW j \in i..Len(channel') PROVE channel'[j][1] # "fromUpstream"
    <3>1. (j \in i..Len(channel) /\ j \in 1..Len(channel)) \/ j = Len(channel) + 1
      BY <1>1, <2>1
    <3>. QED
      BY <3>1, <1>1, <2>2
  <2>. QED
    BY <2>2, <2>3
<1>3. ASSUME phase = "reaping"
      PROVE  /\ readers["stdout"] = Failed
             /\ \A j \in 1..Len(channel') : channel'[j][1] # "fromUpstream"
  <2>1. readers["stdout"] = Failed /\ \A j \in 1..Len(channel) : channel[j][1] # "fromUpstream"
    BY <1>3 DEF EndIsLast
  <2>2. \A j \in 1..Len(channel') : j \in 1..Len(channel) \/ j = Len(channel) + 1
    BY <1>1
  <2>. QED
    BY <2>1, <2>2, <1>1
<1>4. readers["stdout"] = Failed => pipe["stdout"] = <<>> /\ "stdout" \in unwritten
  BY DEF EndIsLast
<1>. QED
  BY <1>2, <1>3, <1>4 DEF EndIsLast

\* Nor of what is on its way to the client.
LEMMA SaidOther ==
  ASSUME SaidArrives, channel \in Seq(Events), NEW new \in Events, new[1] # "fromUpstream",
         channel' = Append(channel, new), UNCHANGED <<unread, phase, received, said, outbox>>,
         pipe'["out"] = pipe["out"], pipe'["stdout"] = pipe["stdout"]
  PROVE  SaidArrives'
<1>1. ASSUME NEW n, SaidChain(n, channel, pipe["stdout"], said)
      PROVE  SaidChain(n, channel', pipe'["stdout"], said)
  <2>1. PICK m \in 0..Len(said) :
          /\ Carries(InEvents(channel, "fromUpstream"), n, m, said)
          /\ Carries(InUnits(pipe["stdout"]), m, Len(said), said)
    BY <1>1 DEF SaidChain
  <2>2. Carries(InEvents(channel', "fromUpstream"), n, m, said)
    BY <2>1, EventJoins
  <2>. QED
    BY <2>1, <2>2 DEF SaidChain
<1>. QED
  BY <1>1 DEF SaidArrives, ToldWithEnd

\* An event that is no message of the client changes nothing of what is on its
\* way to the server.
LEMMA SentOther ==
  ASSUME SentArrives, channel \in Seq(Events), NEW new \in Events, new[1] # "fromClient",
         channel' = Append(channel, new), UNCHANGED <<unread, exited, got, sent, outbox>>,
         pipe'["stdin"] = pipe["stdin"], pipe'["in"] = pipe["in"]
  PROVE  SentArrives'
<1>1. ASSUME SentChain(Len(got), pipe["stdin"], outbox, channel, pipe["in"], sent)
      PROVE  SentChain(Len(got), pipe'["stdin"], outbox, channel', pipe'["in"], sent)
  <2>1. PICK n1 \in 0..Len(sent), n2 \in 0..Len(sent), n3 \in 0..Len(sent) :
          /\ Carries(InUnits(pipe["stdin"]), Len(got), n1, sent)
          /\ Holds(outbox, "stdin", n1, n2, sent)
          /\ Carries(InEvents(channel, "fromClient"), n2, n3, sent)
          /\ Carries(InUnits(pipe["in"]), n3, Len(sent), sent)
    BY <1>1 DEF SentChain
  <2>2. Carries(InEvents(channel', "fromClient"), n2, n3, sent)
    BY <2>1, EventJoins
  <2>. QED
    BY <2>1, <2>2 DEF SentChain
<1>. QED
  BY <1>1 DEF SentArrives

\* A reader after a unit, and a reader that has failed, are readers.
LEMMA ReaderTyped ==
  /\ Failed \in Readers
  /\ \A reader \in Readers, unit \in Units : AfterUnit(reader, unit) \in Readers
<1>1. Failed \in Readers
  BY DEF Failed, Readers
<1>2. ASSUME NEW reader \in Readers, NEW unit \in Units
      PROVE  AfterUnit(reader, unit) \in Readers
  <2>1. [reader EXCEPT !.at = "header"] \in Readers /\ [reader EXCEPT !.at = "body"] \in Readers
    BY DEF Readers
  <2>. QED
    BY <1>1, <2>1 DEF AfterUnit, Readers, Fresh
<1>. QED
  BY <1>1, <1>2

\* A body that a reader has not refused completes a message.
LEMMA BodyCompletes ==
  ASSUME NEW reader, NEW unit, AfterUnit(reader, unit) # Failed, unit.kind = "body"
  PROVE  Completes(reader, unit)
BY DEF AfterUnit, Completes

\* The thread that reads the client: what it takes from the pipe as a message it
\* puts into the channel.
LEMMA ClientReaderReadsKeeps ==
  ASSUME IInv, ReaderReads("in", "fromClient")
  PROVE  IInv'
<1> DEFINE unit == Head(pipe["in"])
           new == <<"fromClient", unit.msg>>
<1>1. /\ PipesTyped /\ ClientTyped /\ ProxyTyped /\ ServerTyped
      /\ LoopWrites /\ ServerOwes
      /\ ServerUnderstands /\ ClientUnderstands /\ ProxyUnderstands
      /\ EndIsLast /\ SentArrives /\ SaidArrives
  BY Parts
<1>2. /\ pipe["in"] # <<>> /\ AfterUnit(readers["in"], unit) # Failed /\ Consume("in")
      /\ readers' = [readers EXCEPT !["in"] = AfterUnit(readers["in"], unit)]
      /\ channel' = IF Completes(readers["in"], unit) THEN Append(channel, new) ELSE channel
      /\ UNCHANGED <<unwritten, unread, outbox, phase, todo, clientReader, received, sent,
                     exited, serverReader, got, owed, said>>
  BY DEF ReaderReads, clientVars, serverVars
<1>3. readers \in [{"in", "stdout"} -> Readers] /\ channel \in Seq(Events)
  BY <1>1 DEF ProxyTyped
<1>4. /\ pipe' \in [Pipe -> Seq(Units)] /\ pipe'["in"] = Tail(pipe["in"])
      /\ pipe'["out"] = pipe["out"] /\ pipe'["stdin"] = pipe["stdin"] /\ pipe'["stdout"] = pipe["stdout"]
      /\ pipe["in"] \in Seq(Units) /\ unit \in Units
  <2>1. "in" \in Pipe /\ "out" \in Pipe /\ "stdin" \in Pipe /\ "stdout" \in Pipe
    BY DEF Pipe
  <2>. QED
    BY <1>1, <1>2, <2>1, Consumed
<1>5. Completes(readers["in"], unit) <=> unit.kind = "body"
  BY <1>2, BodyCompletes DEF Completes
<1> HIDE DEF unit
<1>6. unit.msg \in Nat
  BY <1>4 DEF Units
<1>7. new \in Events /\ new[1] = "fromClient" /\ new[2] = unit.msg
  BY <1>6 DEF Events
<1> HIDE DEF new
<1>8. channel' = IF unit.kind = "body" THEN Append(channel, new) ELSE channel
  BY <1>2, <1>5
<1>9. readers'["stdout"] = readers["stdout"] /\ readers' \in [{"in", "stdout"} -> Readers]
  BY <1>2, <1>3, <1>4, ReaderTyped
<1>10. PipesTyped'
  BY <1>1, <1>2, <1>4 DEF PipesTyped
<1>11. ProxyTyped'
  BY <1>1, <1>2, <1>3, <1>7, <1>8, <1>9 DEF ProxyTyped
<1>12. ClientTyped' /\ ServerTyped' /\ LoopWrites' /\ ServerOwes'
  BY <1>1, <1>2, TypesKept, OutputKept
<1>13. ServerUnderstands' /\ ClientUnderstands' /\ ProxyUnderstands'
  BY <1>1, <1>2, <1>4, <1>9, ServerKept, ClientKept, ProxyKept
<1>14. EndIsLast' /\ SaidArrives'
  <2>1. CASE unit.kind = "body"
    <3>1. channel' = Append(channel, new) /\ new[1] # "fromUpstream" /\ new[1] # "upstreamClosed"
      BY <2>1, <1>7, <1>8
    <3>2. EndIsLast'
      BY <3>1, <1>1, <1>2, <1>3, <1>4, <1>7, <1>9, EndOther
    <3>3. SaidArrives'
      BY <3>1, <1>1, <1>2, <1>3, <1>4, <1>7, SaidOther
    <3>. QED
      BY <3>2, <3>3
  <2>2. CASE unit.kind # "body"
    BY <2>2, <1>1, <1>2, <1>4, <1>8, <1>9, EndKept, SaidKept
  <2>. QED
    BY <2>1, <2>2
<1>15. SentArrives'
  <2>1. ASSUME SentChain(Len(got), pipe["stdin"], outbox, channel, pipe["in"], sent)
        PROVE  SentChain(Len(got), pipe'["stdin"], outbox, channel', pipe'["in"], sent)
    <3>1. PICK n1 \in 0..Len(sent), n2 \in 0..Len(sent), n3 \in 0..Len(sent) :
            /\ Carries(InUnits(pipe["stdin"]), Len(got), n1, sent)
            /\ Holds(outbox, "stdin", n1, n2, sent)
            /\ Carries(InEvents(channel, "fromClient"), n2, n3, sent)
            /\ Carries(InUnits(pipe["in"]), n3, Len(sent), sent)
      BY <2>1 DEF SentChain
    <3>2. CASE unit.kind = "body"
      <4>1. /\ n3 + 1 <= Len(sent) /\ unit.msg = sent[n3 + 1]
            /\ Carries(InUnits(pipe'["in"]), n3 + 1, Len(sent), sent)
        BY <3>1, <3>2, <1>2, <1>4, UnitLeaves DEF unit
      <4>2. Carries(InEvents(Append(channel, new), "fromClient"), n2, n3 + 1, sent)
        BY <3>1, <4>1, <1>3, <1>7, EventJoins
      <4>3. n3 + 1 \in 0..Len(sent) /\ channel' = Append(channel, new)
        BY <4>1, <3>2, <1>8
      <4>. QED
        BY <3>1, <4>1, <4>2, <4>3, <1>4 DEF SentChain
    <3>3. CASE unit.kind # "body"
      <4>1. Carries(InUnits(pipe'["in"]), n3, Len(sent), sent)
        BY <3>1, <3>3, <1>2, <1>4, UnitLeaves DEF unit
      <4>. QED
        BY <3>1, <3>3, <4>1, <1>4, <1>8 DEF SentChain
    <3>. QED
      BY <3>2, <3>3
  <2>. QED
    BY <2>1, <1>1, <1>2 DEF SentArrives
<1>. QED
  BY <1>10, <1>11, <1>12, <1>13, <1>14, <1>15 DEF IInv

\* The thread that reads the client has come to an end and tells the loop.
LEMMA ClientReaderEndsKeeps ==
  ASSUME IInv, ReaderEnds("in", "clientClosed", "clientReadError")
  PROVE  IInv'
<1>1. /\ PipesTyped /\ ClientTyped /\ ProxyTyped /\ ServerTyped
      /\ LoopWrites /\ ServerOwes
      /\ ServerUnderstands /\ ClientUnderstands /\ ProxyUnderstands
      /\ EndIsLast /\ SentArrives /\ SaidArrives
  BY Parts
<1>2. /\ \E new \in {<<"clientClosed">>, <<"clientReadError">>} : channel' = Append(channel, new)
      /\ readers' = [readers EXCEPT !["in"] = Failed]
      /\ UNCHANGED <<pipe, unwritten, unread, outbox, phase, todo, clientReader, received, sent,
                     exited, serverReader, got, owed, said>>
  BY DEF ReaderEnds, Finish, clientVars, serverVars
<1>3. readers \in [{"in", "stdout"} -> Readers] /\ channel \in Seq(Events)
  BY <1>1 DEF ProxyTyped
<1>4. PICK new \in {<<"clientClosed">>, <<"clientReadError">>} : channel' = Append(channel, new)
  BY <1>2
<1>5. new \in Events /\ new[1] # "fromClient" /\ new[1] # "fromUpstream" /\ new[1] # "upstreamClosed"
  BY <1>4 DEF Events
<1>6. readers'["stdout"] = readers["stdout"] /\ readers' \in [{"in", "stdout"} -> Readers]
  BY <1>2, <1>3, ReaderTyped
<1>7. ProxyTyped'
  BY <1>1, <1>2, <1>3, <1>4, <1>5, <1>6 DEF ProxyTyped
<1>8. PipesTyped' /\ ClientTyped' /\ ServerTyped' /\ LoopWrites' /\ ServerOwes'
  BY <1>1, <1>2, TypesKept, OutputKept
<1>9. ServerUnderstands' /\ ClientUnderstands' /\ ProxyUnderstands'
  BY <1>1, <1>2, <1>6, ServerKept, ClientKept, ProxyKept
<1>10. EndIsLast'
  BY <1>1, <1>2, <1>3, <1>4, <1>5, <1>6, EndOther
<1>11. SentArrives' /\ SaidArrives'
  BY <1>1, <1>2, <1>3, <1>4, <1>5, SentOther, SaidOther
<1>. QED
  BY <1>7, <1>8, <1>9, <1>10, <1>11 DEF IInv

\* The thread that reads the server: what it takes from the pipe as a message it
\* puts into the channel, and the end is not there yet.
LEMMA UpstreamReaderReadsKeeps ==
  ASSUME IInv, ReaderReads("stdout", "fromUpstream")
  PROVE  IInv'
<1> DEFINE unit == Head(pipe["stdout"])
           new == <<"fromUpstream", unit.msg>>
<1>1. /\ PipesTyped /\ ClientTyped /\ ProxyTyped /\ ServerTyped
      /\ LoopWrites /\ ServerOwes
      /\ ServerUnderstands /\ ClientUnderstands /\ ProxyUnderstands
      /\ EndIsLast /\ SentArrives /\ SaidArrives
  BY Parts
<1>2. /\ readers["stdout"].at \in {"start", "header", "body"} /\ phase # "stopped"
      /\ pipe["stdout"] # <<>> /\ Consume("stdout")
      /\ readers' = [readers EXCEPT !["stdout"] = AfterUnit(readers["stdout"], unit)]
      /\ channel' = IF Completes(readers["stdout"], unit) THEN Append(channel, new) ELSE channel
      /\ UNCHANGED <<unwritten, unread, outbox, phase, todo, clientReader, received, sent,
                     exited, serverReader, got, owed, said>>
  BY DEF ReaderReads, Reading, Relaying, clientVars, serverVars
<1>3. readers \in [{"in", "stdout"} -> Readers] /\ channel \in Seq(Events) /\ said \in Seq(Nat)
  BY <1>1 DEF ProxyTyped, ServerTyped
<1>4. /\ pipe' \in [Pipe -> Seq(Units)] /\ pipe'["stdout"] = Tail(pipe["stdout"])
      /\ pipe'["out"] = pipe["out"] /\ pipe'["stdin"] = pipe["stdin"] /\ pipe'["in"] = pipe["in"]
      /\ pipe["stdout"] \in Seq(Units) /\ unit \in Units
  <2>1. "in" \in Pipe /\ "out" \in Pipe /\ "stdin" \in Pipe /\ "stdout" \in Pipe
    BY DEF Pipe
  <2>. QED
    BY <1>1, <1>2, <2>1, Consumed
<1> HIDE DEF unit
<1>5. readers["stdout"] # Failed
  BY <1>2 DEF Failed
<1>6. PICK next \in Kinds :
        /\ readers["stdout"] \in Sound
        /\ Flows(pipe["stdout"], Due(readers["stdout"]), next)
        /\ "stdout" \notin unwritten => next = Coming(owed, "stdout")
  BY <1>1, <1>5 DEF ProxyUnderstands
<1>7. /\ unit.kind = Due(readers["stdout"])
      /\ Flows(pipe'["stdout"], Following[Due(readers["stdout"])], next)
  BY <1>2, <1>4, <1>6, FlowsLeaves DEF unit
<1>8. /\ readers'["stdout"] \in Sound /\ readers'["stdout"] # Failed
      /\ Due(readers'["stdout"]) = Following[Due(readers["stdout"])]
      /\ Completes(readers["stdout"], unit) <=> unit.kind = "body"
  <2>1. readers'["stdout"] = AfterUnit(readers["stdout"], unit)
    BY <1>2, <1>3
  <2>. QED
    BY <2>1, <1>4, <1>6, <1>7, ReaderGoesOn
<1>9. unit.msg \in Nat
  BY <1>4 DEF Units
<1>10. new \in Events /\ new[1] = "fromUpstream" /\ new[2] = unit.msg
  BY <1>9 DEF Events
<1> HIDE DEF new
<1>11. channel' = IF unit.kind = "body" THEN Append(channel, new) ELSE channel
  BY <1>2, <1>8
<1>12. PipesTyped'
  BY <1>1, <1>2, <1>4 DEF PipesTyped
<1>13. ProxyTyped'
  <2>1. readers' \in [{"in", "stdout"} -> Readers]
    BY <1>2, <1>3, <1>4, ReaderTyped
  <2>. QED
    BY <2>1, <1>1, <1>2, <1>3, <1>10, <1>11 DEF ProxyTyped
<1>14. ClientTyped' /\ ServerTyped' /\ LoopWrites' /\ ServerOwes'
  BY <1>1, <1>2, TypesKept, OutputKept
<1>15. ServerUnderstands' /\ ClientUnderstands'
  BY <1>1, <1>2, <1>4, ServerKept, ClientKept
<1>16. ProxyUnderstands'
  BY <1>2, <1>6, <1>7, <1>8 DEF ProxyUnderstands
<1>17. EndIsLast'
  <2>1. \A i \in 1..Len(channel) : channel[i][1] # "upstreamClosed"
    BY <1>1, <1>5 DEF EndIsLast
  <2>2. \A i \in 1..Len(channel') : channel'[i][1] # "upstreamClosed"
    <3>1. CASE unit.kind = "body"
      <4>1. /\ Len(channel') = Len(channel) + 1 /\ channel'[Len(channel) + 1] = new
            /\ \A i \in 1..Len(channel) : channel'[i] = channel[i]
        BY <3>1, <1>3, <1>10, <1>11
      <4>2. \A i \in 1..Len(channel') : i \in 1..Len(channel) \/ i = Len(channel) + 1
        BY <4>1, <1>3
      <4>. QED
        BY <4>1, <4>2, <2>1, <1>10
    <3>2. CASE unit.kind # "body"
      BY <3>2, <2>1, <1>11
    <3>. QED
      BY <3>1, <3>2
  <2>3. phase' # "reaping"
    BY <1>1, <1>2, <1>5 DEF EndIsLast
  <2>. QED
    BY <2>2, <2>3, <1>8 DEF EndIsLast
<1>18. SentArrives'
  <2>1. CASE unit.kind = "body"
    BY <2>1, <1>1, <1>2, <1>3, <1>4, <1>10, <1>11, SentOther
  <2>2. CASE unit.kind # "body"
    BY <2>2, <1>1, <1>2, <1>4, <1>11, SentKept
  <2>. QED
    BY <2>1, <2>2
<1>19. SaidArrives'
  <2>1. ASSUME NEW n, SaidChain(n, channel, pipe["stdout"], said)
        PROVE  SaidChain(n, channel', pipe'["stdout"], said)
    <3>1. PICK m \in 0..Len(said) :
            /\ Carries(InEvents(channel, "fromUpstream"), n, m, said)
            /\ Carries(InUnits(pipe["stdout"]), m, Len(said), said)
      BY <2>1 DEF SaidChain
    <3>2. CASE unit.kind = "body"
      <4>1. /\ m + 1 <= Len(said) /\ unit.msg = said[m + 1]
            /\ Carries(InUnits(pipe'["stdout"]), m + 1, Len(said), said)
        BY <3>1, <3>2, <1>2, <1>4, UnitLeaves DEF unit
      <4>2. Carries(InEvents(Append(channel, new), "fromUpstream"), n, m + 1, said)
        BY <3>1, <4>1, <1>3, <1>10, EventJoins
      <4>3. m + 1 \in 0..Len(said) /\ channel' = Append(channel, new)
        BY <4>1, <3>2, <1>11
      <4>. QED
        BY <4>1, <4>2, <4>3 DEF SaidChain
    <3>3. CASE unit.kind # "body"
      <4>1. Carries(InUnits(pipe'["stdout"]), m, Len(said), said)
        BY <3>1, <3>3, <1>2, <1>4, UnitLeaves DEF unit
      <4>. QED
        BY <3>1, <3>3, <4>1, <1>11 DEF SaidChain
    <3>. QED
      BY <3>2, <3>3
  <2>. QED
    BY <2>1, <1>1, <1>2, <1>4 DEF SaidArrives, ToldWithEnd
<1>. QED
  BY <1>12, <1>13, <1>14, <1>15, <1>16, <1>17, <1>18, <1>19 DEF IInv

\* The thread that reads the server has come to an end: the pipe is empty, for
\* the server writes nothing but frames, and so the end is behind every message.
LEMMA UpstreamReaderEndsKeeps ==
  ASSUME IInv, ReaderEnds("stdout", "upstreamClosed", "upstreamClosed")
  PROVE  IInv'
<1> DEFINE new == <<"upstreamClosed">>
<1>1. /\ PipesTyped /\ ClientTyped /\ ProxyTyped /\ ServerTyped
      /\ LoopWrites /\ ServerOwes
      /\ ServerUnderstands /\ ClientUnderstands /\ ProxyUnderstands
      /\ EndIsLast /\ SentArrives /\ SaidArrives
  BY Parts
<1>2. /\ readers["stdout"].at \in {"start", "header", "body"}
      /\ \/ Ended("stdout")
         \/ pipe["stdout"] # <<>> /\ AfterUnit(readers["stdout"], Head(pipe["stdout"])) = Failed
      /\ channel' = Append(channel, new)
      /\ readers' = [readers EXCEPT !["stdout"] = Failed]
      /\ UNCHANGED <<pipe, unwritten, unread, outbox, phase, todo, clientReader, received, sent,
                     exited, serverReader, got, owed, said>>
  BY DEF ReaderEnds, Reading, Finish, clientVars, serverVars
<1>3. /\ readers \in [{"in", "stdout"} -> Readers] /\ channel \in Seq(Events)
      /\ pipe["stdout"] \in Seq(Units)
  BY <1>1 DEF ProxyTyped, PipesTyped, Pipe
<1>4. new \in Events /\ new[1] = "upstreamClosed"
  BY DEF Events
<1> HIDE DEF new
<1>5. readers["stdout"] # Failed
  BY <1>2 DEF Failed
<1>6. Ended("stdout")
  <2>1. PICK next \in Kinds :
          readers["stdout"] \in Sound /\ Flows(pipe["stdout"], Due(readers["stdout"]), next)
    BY <1>1, <1>5 DEF ProxyUnderstands
  <2>2. CASE pipe["stdout"] # <<>>
    <3>1. Head(pipe["stdout"]).kind = Due(readers["stdout"])
      BY <2>1, <2>2, <1>3, FlowsLeaves
    <3>2. Head(pipe["stdout"]) \in Units
      BY <2>2, <1>3
    <3>3. AfterUnit(readers["stdout"], Head(pipe["stdout"])) # Failed
      BY <2>1, <3>1, <3>2, ReaderGoesOn
    <3>. QED
      BY <3>3, <1>2
  <2>. QED
    BY <2>2, <1>2
<1>7. readers'["stdout"] = Failed /\ readers' \in [{"in", "stdout"} -> Readers]
  BY <1>2, <1>3, ReaderTyped
<1>8. ProxyTyped'
  BY <1>1, <1>2, <1>3, <1>4, <1>7 DEF ProxyTyped
<1>9. PipesTyped' /\ ClientTyped' /\ ServerTyped' /\ LoopWrites' /\ ServerOwes'
  BY <1>1, <1>2, TypesKept, OutputKept
<1>10. ServerUnderstands' /\ ClientUnderstands' /\ ProxyUnderstands'
  BY <1>1, <1>2, <1>7, ServerKept, ClientKept DEF ProxyUnderstands
<1>11. EndIsLast'
  <2>1. \A i \in 1..Len(channel) : channel[i][1] # "upstreamClosed"
    BY <1>1, <1>5 DEF EndIsLast
  <2>2. /\ Len(channel') = Len(channel) + 1 /\ Len(channel) \in Nat
        /\ channel'[Len(channel) + 1] = new
        /\ \A i \in 1..Len(channel) : channel'[i] = channel[i]
    BY <1>2, <1>3, <1>4
  <2>3. ASSUME NEW i \in 1..Len(channel'), channel'[i][1] = "upstreamClosed"
        PROVE  \A j \in i..Len(channel') : channel'[j][1] # "fromUpstream"
    <3>1. i = Len(channel')
      BY <2>1, <2>2, <2>3
    <3>. QED
      BY <3>1, <2>2, <1>4
  <2>4. phase' # "reaping"
    BY <1>1, <1>2, <1>5 DEF EndIsLast
  <2>5. pipe' = pipe /\ unwritten' = unwritten
    BY <1>2
  <2>. QED
    BY <2>3, <2>4, <2>5, <1>6, <1>7 DEF EndIsLast, Ended
<1>12. SentArrives' /\ SaidArrives'
  BY <1>1, <1>2, <1>3, <1>4, SentOther, SaidOther
<1>. QED
  BY <1>8, <1>9, <1>10, <1>11, <1>12 DEF IInv

\* The thread that reads the log: nothing depends on what it takes.
LEMMA StderrRelayKeeps ==
  ASSUME IInv, StderrRelay
  PROVE  IInv'
<1>1. /\ PipesTyped /\ ClientTyped /\ ProxyTyped /\ ServerTyped
      /\ LoopWrites /\ ServerOwes
      /\ ServerUnderstands /\ ClientUnderstands /\ ProxyUnderstands
      /\ EndIsLast /\ SentArrives /\ SaidArrives
  BY Parts
<1>2. /\ pipe["stderr"] # <<>> /\ Consume("stderr")
      /\ UNCHANGED <<unwritten, unread, readers, channel, outbox, phase, todo, clientReader,
                     received, sent, exited, serverReader, got, owed, said>>
  BY DEF StderrRelay, clientVars, proxyVars, serverVars
<1>3. /\ pipe' \in [Pipe -> Seq(Units)]
      /\ pipe'["out"] = pipe["out"] /\ pipe'["stdin"] = pipe["stdin"]
      /\ pipe'["in"] = pipe["in"] /\ pipe'["stdout"] = pipe["stdout"]
  <2>1. /\ "stderr" \in Pipe /\ "in" \in Pipe /\ "out" \in Pipe /\ "stdin" \in Pipe
        /\ "stdout" \in Pipe
    BY DEF Pipe
  <2>. QED
    BY <1>1, <1>2, <2>1, Consumed
<1>4. PipesTyped'
  BY <1>1, <1>2, <1>3 DEF PipesTyped
<1>5. ClientTyped' /\ ProxyTyped' /\ ServerTyped' /\ LoopWrites' /\ ServerOwes'
  BY <1>1, <1>2, TypesKept, OutputKept
<1>6. /\ ServerUnderstands' /\ ClientUnderstands' /\ ProxyUnderstands'
      /\ EndIsLast' /\ SentArrives' /\ SaidArrives'
  BY <1>1, <1>2, <1>3, ServerKept, ClientKept, ProxyKept, EndKept, SentKept, SaidKept
<1>. QED
  BY <1>4, <1>5, <1>6 DEF IInv

--------------------------------------------------------------------------------
(* The steps of the loop. *)

\* What the loop holds for a pipe when it has nothing to write.
LEMMA HoldsNone ==
  \A there, from, to, history : Holds(<<>>, there, from, to, history) <=> to = from
BY DEF Holds

\* What it holds for it when it has the rest of a frame to write.
LEMMA HoldsRest ==
  ASSUME NEW there, NEW kind \in Kinds, NEW m \in Nat
  PROVE  \A from, to, history :
           Holds(RestTo(there, kind, m), there, from, to, history) <=>
             to = from + 1 /\ to <= Len(history) /\ m = history[to]
<1> DEFINE rest == RestTo(there, kind, m)
<1>1. rest # <<>> /\ rest[Len(rest)].unit.msg = m
  BY RestOfFrame
<1>2. rest[1] = [to |-> there, unit |-> Unit(kind, m)]
  BY RestOfFrame
<1> HIDE DEF rest
<1>3. rest[1].to = there
  BY <1>2
<1>4. \A from, to, history : Holds(rest, there, from, to, history) <=>
        to = from + 1 /\ to <= Len(history) /\ m = history[to]
  BY <1>1, <1>3 DEF Holds
<1>. QED
  BY <1>4 DEF rest

\* It holds nothing for the other pipe then.
LEMMA HoldsElsewhere ==
  ASSUME NEW there, NEW kind \in Kinds, NEW m \in Nat, NEW other, other # there
  PROVE  \A from, to, history :
           /\ Holds(RestTo(there, kind, m), other, from, to, history) <=> to = from
           /\ Holds(Tail(RestTo(there, kind, m)), other, from, to, history) <=> to = from
<1>1. ASSUME NEW k \in Kinds, NEW from, NEW to, NEW history
      PROVE  Holds(RestTo(there, k, m), other, from, to, history) <=> to = from
  <2> DEFINE rest == RestTo(there, k, m)
  <2>1. rest[1] = [to |-> there, unit |-> Unit(k, m)]
    BY RestOfFrame
  <2> HIDE DEF rest
  <2>2. rest[1].to # other
    BY <2>1
  <2>3. Holds(rest, other, from, to, history) <=> to = from
    BY <2>2 DEF Holds
  <2>. QED
    BY <2>3 DEF rest
<1>2. Following[kind] \in Kinds
  BY DEF Following, Kinds
<1>3. Tail(RestTo(there, kind, m)) = <<>> \/ Tail(RestTo(there, kind, m)) = RestTo(there, Following[kind], m)
  BY RestGoesOn
<1> DEFINE left == Tail(RestTo(there, kind, m))
<1>4. ASSUME NEW from, NEW to, NEW history
      PROVE  Holds(left, other, from, to, history) <=> to = from
  <2>1. CASE left = <<>>
    <3> HIDE DEF left
    <3>. QED
      BY <2>1 DEF Holds
  <2>2. CASE left = RestTo(there, Following[kind], m)
    <3> HIDE DEF left
    <3>1. Holds(RestTo(there, Following[kind], m), other, from, to, history) <=> to = from
      BY <1>1, <1>2
    <3>. QED
      BY <2>2, <3>1
  <2>. QED
    BY <2>1, <2>2, <1>3
<1>. QED
  BY <1>1, <1>4

\* The first unit of the rest of a frame.
LEMMA FirstOfRest ==
  ASSUME NEW there, NEW kind \in Kinds, NEW m \in Nat
  PROVE  Head(RestTo(there, kind, m)).to = there /\ Head(RestTo(there, kind, m)).unit = Unit(kind, m)
<1> DEFINE rest == RestTo(there, kind, m)
<1>1. Head(rest) = rest[1]
  BY RestOfFrame
<1>2. rest[1] = [to |-> there, unit |-> Unit(kind, m)]
  BY RestOfFrame
<1> HIDE DEF rest
<1>3. Head(rest).to = there /\ Head(rest).unit = Unit(kind, m)
  BY <1>1, <1>2
<1>. QED
  BY <1>3 DEF rest

\* What holds nothing for a pipe does not tell what comes next there.
LEMMA ComingNothing == \A there : Coming(<<>>, there) = "length"
BY DEF Coming

\* An event that the loop has taken leaves the end of the server where it was.
LEMMA EndTaken ==
  ASSUME EndIsLast, channel \in Seq(Events), channel # <<>>, channel' = Tail(channel),
         UNCHANGED <<readers, pipe, unwritten>>,
         phase' = "reaping" => Head(channel)[1] = "upstreamClosed"
  PROVE  EndIsLast'
<1>1. /\ Len(channel) = Len(channel') + 1 /\ Len(channel') \in Nat /\ Head(channel) = channel[1]
      /\ \A i \in 1..Len(channel') : channel'[i] = channel[i + 1]
  OBVIOUS
<1>2. ASSUME NEW i \in 1..Len(channel'), channel'[i][1] = "upstreamClosed"
      PROVE  /\ readers["stdout"] = Failed
             /\ \A j \in i..Len(channel') : channel'[j][1] # "fromUpstream"
  <2>1. i + 1 \in 1..Len(channel) /\ channel[i + 1][1] = "upstreamClosed"
    BY <1>1, <1>2
  <2>2. readers["stdout"] = Failed /\ \A j \in (i + 1)..Len(channel) : channel[j][1] # "fromUpstream"
    BY <2>1 DEF EndIsLast
  <2>3. ASSUME NEW j \in i..Len(channel') PROVE channel'[j][1] # "fromUpstream"
    <3>1. j + 1 \in (i + 1)..Len(channel) /\ channel'[j] = channel[j + 1]
      BY <1>1
    <3>. QED
      BY <3>1, <2>2
  <2>. QED
    BY <2>2, <2>3
<1>3. ASSUME phase' = "reaping"
      PROVE  /\ readers["stdout"] = Failed
             /\ \A j \in 1..Len(channel') : channel'[j][1] # "fromUpstream"
  <2>1. 1 \in 1..Len(channel) /\ channel[1][1] = "upstreamClosed"
    BY <1>1, <1>3
  <2>2. readers["stdout"] = Failed /\ \A j \in 1..Len(channel) : channel[j][1] # "fromUpstream"
    BY <2>1 DEF EndIsLast
  <2>3. \A j \in 1..Len(channel') : j + 1 \in 1..Len(channel) /\ channel'[j] = channel[j + 1]
    BY <1>1
  <2>. QED
    BY <2>2, <2>3
<1>4. readers["stdout"] = Failed => pipe["stdout"] = <<>> /\ "stdout" \in unwritten
  BY DEF EndIsLast
<1>. QED
  BY <1>2, <1>3, <1>4 DEF EndIsLast

\* A message of the client that the loop takes is the next one for the server.
LEMMA LoopRelaysFromClientKeeps ==
  ASSUME IInv, LoopRelays, Head(channel)[1] = "fromClient"
  PROVE  IInv'
<1> DEFINE m == Head(channel)[2]
<1>1. /\ PipesTyped /\ ClientTyped /\ ProxyTyped /\ ServerTyped
      /\ LoopWrites /\ ServerOwes
      /\ ServerUnderstands /\ ClientUnderstands /\ ProxyUnderstands
      /\ EndIsLast /\ SentArrives /\ SaidArrives
  BY Parts
<1>2. /\ phase = "running" /\ outbox = <<>> /\ channel # <<>>
      /\ outbox' = RestTo("stdin", "length", m)
      /\ channel' = Tail(channel)
      /\ UNCHANGED <<pipe, unwritten, unread, readers, phase, todo, clientReader, received, sent,
                     exited, serverReader, got, owed, said>>
  BY DEF LoopRelays, Receives, Idle, clientVars, serverVars, RestTo, Rest
<1>3. channel \in Seq(Events) /\ channel' \in Seq(Events) /\ Head(channel) \in Events
  BY <1>1, <1>2 DEF ProxyTyped
<1>4. m \in Nat /\ "length" \in Kinds
  BY <1>3 DEF Events, Kinds
<1> HIDE DEF m
<1>5. \A there \in {"stdin", "out"} : Coming(outbox', there) = Coming(outbox, there)
  BY <1>2, <1>4, ComingNothing, ComingNext
<1>6. ProxyTyped' /\ LoopWrites'
  BY <1>1, <1>2, <1>3, <1>4 DEF ProxyTyped, LoopWrites
<1>7. PipesTyped' /\ ClientTyped' /\ ServerTyped' /\ ServerOwes'
  BY <1>1, <1>2, TypesKept, OutputKept
<1>8. ServerUnderstands' /\ ClientUnderstands' /\ ProxyUnderstands'
  BY <1>1, <1>2, <1>5, ServerKept, ClientKept, ProxyKept
<1>9. EndIsLast'
  BY <1>1, <1>2, <1>3, EndTaken
<1>10. SentArrives'
  <2>1. ASSUME SentChain(Len(got), pipe["stdin"], outbox, channel, pipe["in"], sent)
        PROVE  SentChain(Len(got), pipe["stdin"], outbox', channel', pipe["in"], sent)
    <3>1. PICK n1 \in 0..Len(sent), n2 \in 0..Len(sent), n3 \in 0..Len(sent) :
            /\ Carries(InUnits(pipe["stdin"]), Len(got), n1, sent)
            /\ Holds(outbox, "stdin", n1, n2, sent)
            /\ Carries(InEvents(channel, "fromClient"), n2, n3, sent)
            /\ Carries(InUnits(pipe["in"]), n3, Len(sent), sent)
      BY <2>1 DEF SentChain
    <3>2. n2 = n1
      BY <3>1, <1>2, HoldsNone
    <3>3. /\ n2 + 1 <= Len(sent) /\ m = sent[n2 + 1]
          /\ Carries(InEvents(channel', "fromClient"), n2 + 1, n3, sent)
      BY <3>1, <1>2, <1>3, EventLeaves DEF m
    <3>4. Holds(outbox', "stdin", n1, n2 + 1, sent)
      BY <3>2, <3>3, <1>2, <1>4, HoldsRest
    <3>5. n2 + 1 \in 0..Len(sent)
      BY <3>3
    <3>. QED
      BY <3>1, <3>3, <3>4, <3>5 DEF SentChain
  <2>. QED
    BY <2>1, <1>1, <1>2 DEF SentArrives
<1>11. SaidArrives'
  <2>1. ASSUME NEW n, OutChain(Len(received), n, pipe["out"], outbox, said)
        PROVE  OutChain(Len(received), n, pipe["out"], outbox', said)
    BY <2>1, <1>2, <1>4, HoldsNone, HoldsElsewhere DEF OutChain
  <2>2. ASSUME NEW n, SaidChain(n, channel, pipe["stdout"], said)
        PROVE  SaidChain(n, channel', pipe["stdout"], said)
    <3>1. PICK k \in 0..Len(said) :
            /\ Carries(InEvents(channel, "fromUpstream"), n, k, said)
            /\ Carries(InUnits(pipe["stdout"]), k, Len(said), said)
      BY <2>2 DEF SaidChain
    <3>2. Carries(InEvents(channel', "fromUpstream"), n, k, said)
      BY <3>1, <1>2, <1>3, EventLeaves
    <3>. QED
      BY <3>1, <3>2 DEF SaidChain
  <2>. QED
    BY <2>1, <2>2, <1>1, <1>2 DEF SaidArrives
<1>. QED
  BY <1>6, <1>7, <1>8, <1>9, <1>10, <1>11 DEF IInv

\* A message of the server that the loop takes is the next one for the client.
LEMMA LoopRelaysFromUpstreamKeeps ==
  ASSUME IInv, LoopRelays, Head(channel)[1] = "fromUpstream"
  PROVE  IInv'
<1> DEFINE m == Head(channel)[2]
<1>1. /\ PipesTyped /\ ClientTyped /\ ProxyTyped /\ ServerTyped
      /\ LoopWrites /\ ServerOwes
      /\ ServerUnderstands /\ ClientUnderstands /\ ProxyUnderstands
      /\ EndIsLast /\ SentArrives /\ SaidArrives
  BY Parts
<1>2. /\ phase = "running" /\ outbox = <<>> /\ channel # <<>>
      /\ outbox' = RestTo("out", "length", m)
      /\ channel' = Tail(channel)
      /\ UNCHANGED <<pipe, unwritten, unread, readers, phase, todo, clientReader, received, sent,
                     exited, serverReader, got, owed, said>>
  BY DEF LoopRelays, Receives, Idle, clientVars, serverVars, RestTo, Rest
<1>3. channel \in Seq(Events) /\ channel' \in Seq(Events) /\ Head(channel) \in Events
  BY <1>1, <1>2 DEF ProxyTyped
<1>4. m \in Nat /\ "length" \in Kinds
  BY <1>3 DEF Events, Kinds
<1> HIDE DEF m
<1>5. \A there \in {"stdin", "out"} : Coming(outbox', there) = Coming(outbox, there)
  BY <1>2, <1>4, ComingNothing, ComingNext
<1>6. ProxyTyped' /\ LoopWrites'
  BY <1>1, <1>2, <1>3, <1>4 DEF ProxyTyped, LoopWrites
<1>7. PipesTyped' /\ ClientTyped' /\ ServerTyped' /\ ServerOwes'
  BY <1>1, <1>2, TypesKept, OutputKept
<1>8. ServerUnderstands' /\ ClientUnderstands' /\ ProxyUnderstands'
  BY <1>1, <1>2, <1>5, ServerKept, ClientKept, ProxyKept
<1>9. EndIsLast'
  BY <1>1, <1>2, <1>3, EndTaken
<1>10. SentArrives'
  <2>1. ASSUME SentChain(Len(got), pipe["stdin"], outbox, channel, pipe["in"], sent)
        PROVE  SentChain(Len(got), pipe["stdin"], outbox', channel', pipe["in"], sent)
    <3>1. PICK n1 \in 0..Len(sent), n2 \in 0..Len(sent), n3 \in 0..Len(sent) :
            /\ Carries(InUnits(pipe["stdin"]), Len(got), n1, sent)
            /\ Holds(outbox, "stdin", n1, n2, sent)
            /\ Carries(InEvents(channel, "fromClient"), n2, n3, sent)
            /\ Carries(InUnits(pipe["in"]), n3, Len(sent), sent)
      BY <2>1 DEF SentChain
    <3>2. Carries(InEvents(channel', "fromClient"), n2, n3, sent)
      BY <3>1, <1>2, <1>3, EventLeaves
    <3>3. Holds(outbox', "stdin", n1, n2, sent)
      BY <3>1, <1>2, <1>4, HoldsNone, HoldsElsewhere
    <3>. QED
      BY <3>1, <3>2, <3>3 DEF SentChain
  <2>. QED
    BY <2>1, <1>1, <1>2 DEF SentArrives
<1>11. SaidArrives'
  <2>1. Begins(received, said)
    BY <1>1, <1>2 DEF SaidArrives
  <2>2. CASE "out" \in unread
    BY <2>1, <2>2, <1>2 DEF SaidArrives
  <2>3. CASE "out" \notin unread
    <3>1. PICK n \in 0..Len(said) :
            /\ OutChain(Len(received), n, pipe["out"], outbox, said)
            /\ SaidChain(n, channel, pipe["stdout"], said)
      BY <2>3, <1>1, <1>2 DEF SaidArrives
    <3>2. PICK k \in 0..Len(said) :
            /\ Carries(InEvents(channel, "fromUpstream"), n, k, said)
            /\ Carries(InUnits(pipe["stdout"]), k, Len(said), said)
      BY <3>1 DEF SaidChain
    <3>3. /\ n + 1 <= Len(said) /\ m = said[n + 1]
          /\ Carries(InEvents(channel', "fromUpstream"), n + 1, k, said)
      BY <3>2, <1>2, <1>3, EventLeaves DEF m
    <3>4. SaidChain(n + 1, channel', pipe["stdout"], said)
      BY <3>2, <3>3 DEF SaidChain
    <3>5. Carries(InUnits(pipe["out"]), Len(received), n, said)
      BY <3>1, <1>2, HoldsNone DEF OutChain
    <3>6. Holds(outbox', "out", n, n + 1, said)
      BY <3>3, <1>2, <1>4, HoldsRest
    <3>7. n + 1 \in 0..Len(said) /\ n \in 0..(n + 1)
      BY <3>3
    <3>8. OutChain(Len(received), n + 1, pipe["out"], outbox', said)
      BY <3>5, <3>6, <3>7 DEF OutChain
    <3>. QED
      BY <2>1, <3>4, <3>7, <3>8, <1>2 DEF SaidArrives
  <2>. QED
    BY <2>2, <2>3
<1>. QED
  BY <1>6, <1>7, <1>8, <1>9, <1>10, <1>11 DEF IInv

\* A unit that goes from the loop into the pipe leaves the chain whole.
LEMMA UnitDelivered ==
  ASSUME NEW there, NEW kind \in Kinds, NEW m \in Nat, NEW queue \in Seq(Units),
         NEW from, NEW n1 \in Nat, NEW n2, NEW history,
         Carries(InUnits(queue), from, n1, history),
         Holds(RestTo(there, kind, m), there, n1, n2, history)
  PROVE  \E k \in {n1, n2} :
           /\ Carries(InUnits(Append(queue, Unit(kind, m))), from, k, history)
           /\ Holds(Tail(RestTo(there, kind, m)), there, k, n2, history)
<1>1. n2 = n1 + 1 /\ n2 <= Len(history) /\ m = history[n2]
  BY HoldsRest
<1>2. Unit(kind, m) \in Units /\ Unit(kind, m).kind = kind /\ Unit(kind, m).msg = m
  BY DEF Unit, Units, Kinds, Lines
<1>3. CASE kind = "body"
  <2>1. Tail(RestTo(there, kind, m)) = <<>>
    BY <1>3, RestGoesOn
  <2>2. Holds(<<>>, there, n2, n2, history)
    BY HoldsNone
  <2>3. Carries(InUnits(Append(queue, Unit(kind, m))), from, n2, history)
    BY <1>1, <1>2, <1>3, UnitJoins
  <2>. QED
    BY <2>1, <2>2, <2>3
<1>4. CASE kind # "body"
  <2>1. Tail(RestTo(there, kind, m)) = RestTo(there, Following[kind], m)
    BY <1>4, RestGoesOn
  <2>2. Following[kind] \in Kinds
    BY DEF Following, Kinds
  <2>3. Holds(RestTo(there, Following[kind], m), there, n1, n2, history)
    BY <1>1, <2>2, HoldsRest
  <2>4. Carries(InUnits(Append(queue, Unit(kind, m))), from, n1, history)
    BY <1>2, <1>4, UnitJoins
  <2>. QED
    BY <2>1, <2>3, <2>4
<1>. QED
  BY <1>3, <1>4

\* What the loop has to write, unit by unit.
LEMMA RestLeft ==
  ASSUME NEW there \in {"stdin", "out"}, NEW kind \in Kinds, NEW m \in Nat,
         \/ outbox' = <<>>
         \/ outbox' = Tail(RestTo(there, kind, m))
  PROVE  LoopWrites'
<1>1. CASE outbox' = <<>>
  BY <1>1 DEF LoopWrites
<1>2. CASE outbox' = RestTo(there, Following[kind], m)
  <2>1. Following[kind] \in Kinds
    BY DEF Following, Kinds
  <2>. QED
    BY <1>2, <2>1 DEF LoopWrites
<1>. QED
  BY <1>1, <1>2, RestGoesOn

\* A write that fails, and the rest of the message that is dropped: nobody reads
\* that pipe again.
LEMMA DropKeeps ==
  ASSUME IInv, Deliver, Head(outbox).to \in unread
  PROVE  IInv'
<1>1. /\ PipesTyped /\ ClientTyped /\ ProxyTyped /\ ServerTyped
      /\ LoopWrites /\ ServerOwes
      /\ ServerUnderstands /\ ClientUnderstands /\ ProxyUnderstands
      /\ EndIsLast /\ SentArrives /\ SaidArrives
  BY Parts
<1>2. /\ outbox # <<>> /\ outbox' = <<>>
      /\ UNCHANGED <<pipe, unwritten, unread, readers, channel, phase, todo, clientReader, received,
                     sent, exited, serverReader, got, owed, said>>
  BY DEF Deliver, clientVars, serverVars
<1>3. PICK there \in {"stdin", "out"}, kind \in Kinds, m \in Nat : outbox = RestTo(there, kind, m)
  BY <1>1, <1>2 DEF LoopWrites
<1>4. there \in unread
  <2>1. Head(RestTo(there, kind, m)).to = there
    BY FirstOfRest
  <2>. QED
    BY <2>1, <1>3
<1>5. \A other : other # there => Coming(outbox', other) = Coming(outbox, other)
  BY <1>2, <1>3, ComingNothing, ComingNext
<1>6. \A other, n, k, history :
        other # there /\ Holds(outbox, other, n, k, history) => Holds(outbox', other, n, k, history)
  BY <1>2, <1>3, HoldsNone, HoldsElsewhere
<1>7. PipesTyped' /\ ClientTyped' /\ ProxyTyped' /\ ServerTyped' /\ ServerOwes'
  BY <1>1, <1>2, TypesKept, OutputKept
<1>8. LoopWrites'
  BY <1>2 DEF LoopWrites
<1>9. ProxyUnderstands' /\ EndIsLast'
  BY <1>1, <1>2, ProxyKept, EndKept
<1>10. CASE there = "stdin"
  <2>1. exited
    BY <1>1, <1>4, <1>10 DEF SentArrives
  <2>2. ServerUnderstands'
    BY <2>1, <1>1, <1>2 DEF ServerUnderstands
  <2>3. ClientUnderstands'
    BY <1>1, <1>2, <1>5, <1>10, ClientKept
  <2>4. SentArrives'
    BY <2>1, <1>1, <1>2 DEF SentArrives
  <2>5. \A n, to, history : OutChain(n, to, pipe["out"], outbox, history) =>
                              OutChain(n, to, pipe["out"], outbox', history)
    BY <1>6, <1>10 DEF OutChain
  <2>6. SaidArrives'
    BY <2>5, <1>1, <1>2 DEF SaidArrives, ToldWithEnd
  <2>. QED
    BY <2>2, <2>3, <2>4, <2>6, <1>7, <1>8, <1>9 DEF IInv
<1>11. CASE there = "out"
  <2>1. ServerUnderstands'
    BY <1>1, <1>2, <1>5, <1>11, ServerKept
  <2>2. ClientUnderstands'
    BY <1>1, <1>2, <1>4, <1>11 DEF ClientUnderstands
  <2>3. SentArrives'
    BY <1>1, <1>2, <1>6, <1>11, SentKept
  <2>4. SaidArrives'
    BY <1>1, <1>2, <1>4, <1>11 DEF SaidArrives, ToldWithEnd
  <2>. QED
    BY <2>1, <2>2, <2>3, <2>4, <1>7, <1>8, <1>9 DEF IInv
<1>. QED
  BY <1>10, <1>11

\* A unit that the loop writes.
LEMMA WriteKeeps ==
  ASSUME IInv, Deliver, Head(outbox).to \notin unread
  PROVE  IInv'
<1>1. /\ PipesTyped /\ ClientTyped /\ ProxyTyped /\ ServerTyped
      /\ LoopWrites /\ ServerOwes
      /\ ServerUnderstands /\ ClientUnderstands /\ ProxyUnderstands
      /\ EndIsLast /\ SentArrives /\ SaidArrives
  BY Parts
<1>2. /\ outbox # <<>> /\ outbox' = Tail(outbox) /\ Write(Head(outbox).to, Head(outbox).unit)
      /\ UNCHANGED <<unwritten, unread, readers, channel, phase, todo, clientReader, received,
                     sent, exited, serverReader, got, owed, said>>
  BY DEF Deliver, clientVars, serverVars
<1>3. PICK there \in {"stdin", "out"}, kind \in Kinds, m \in Nat : outbox = RestTo(there, kind, m)
  BY <1>1, <1>2 DEF LoopWrites
<1> DEFINE unit == Unit(kind, m)
<1>4. unit \in Units /\ unit.kind = kind
  BY DEF Unit, Units, Kinds, Lines
<1> HIDE DEF unit
<1>5. Write(there, unit) /\ there \notin unread
  <2>1. Head(RestTo(there, kind, m)).to = there /\ Head(RestTo(there, kind, m)).unit = unit
    BY FirstOfRest DEF unit
  <2>. QED
    BY <2>1, <1>2, <1>3
<1>6. /\ pipe' \in [Pipe -> Seq(Units)] /\ pipe'[there] = Append(pipe[there], unit)
      /\ \A other \in Pipe : other # there => pipe'[other] = pipe[other]
      /\ there \in Pipe /\ pipe[there] \in Seq(Units)
  <2>1. there \in Pipe
    BY DEF Pipe
  <2>2. pipe[there] \in Seq(Units)
    BY <2>1, <1>1 DEF PipesTyped
  <2>. QED
    BY <2>1, <2>2, <1>1, <1>4, <1>5, Written
<1>7. pipe'["in"] = pipe["in"] /\ pipe'["stdout"] = pipe["stdout"]
  BY <1>6 DEF Pipe
<1>8. /\ Coming(outbox, there) = kind /\ Coming(outbox', there) = Following[kind]
      /\ \A other : other # there => Coming(outbox', other) = Coming(outbox, other)
  BY <1>2, <1>3, ComingNext
<1>9. \A other, n, k, history :
        other # there /\ Holds(outbox, other, n, k, history) => Holds(outbox', other, n, k, history)
  BY <1>2, <1>3, HoldsElsewhere
<1>10. \A from : Flows(pipe[there], from, Coming(outbox, there)) =>
                   Flows(pipe'[there], from, Coming(outbox', there))
  BY <1>4, <1>6, <1>8, FlowsJoins
<1>11. ASSUME NEW from, NEW n1 \in Nat, NEW n2, NEW history,
              Carries(InUnits(pipe[there]), from, n1, history), Holds(outbox, there, n1, n2, history)
       PROVE  \E k \in {n1, n2} :
                /\ Carries(InUnits(pipe'[there]), from, k, history)
                /\ Holds(outbox', there, k, n2, history)
  BY <1>2, <1>3, <1>6, <1>11, UnitDelivered DEF unit
<1>12. PipesTyped'
  BY <1>1, <1>2, <1>6 DEF PipesTyped
<1>13. ClientTyped' /\ ProxyTyped' /\ ServerTyped' /\ ServerOwes'
  BY <1>1, <1>2, TypesKept, OutputKept
<1>14. LoopWrites'
  BY <1>2, <1>3, RestLeft
<1>15. ProxyUnderstands' /\ EndIsLast'
  BY <1>1, <1>2, <1>7, ProxyKept, EndKept
<1>16. CASE there = "stdin"
  <2>1. pipe'["out"] = pipe["out"]
    BY <1>6, <1>16 DEF Pipe
  <2>2. ServerUnderstands'
    BY <1>1, <1>2, <1>10, <1>16 DEF ServerUnderstands
  <2>3. ClientUnderstands'
    BY <2>1, <1>1, <1>2, <1>8, <1>16, ClientKept
  <2>4. SentArrives'
    <3>1. ASSUME SentChain(Len(got), pipe["stdin"], outbox, channel, pipe["in"], sent)
          PROVE  SentChain(Len(got), pipe'["stdin"], outbox', channel, pipe'["in"], sent)
      <4>1. PICK n1 \in 0..Len(sent), n2 \in 0..Len(sent), n3 \in 0..Len(sent) :
              /\ Carries(InUnits(pipe["stdin"]), Len(got), n1, sent)
              /\ Holds(outbox, "stdin", n1, n2, sent)
              /\ Carries(InEvents(channel, "fromClient"), n2, n3, sent)
              /\ Carries(InUnits(pipe["in"]), n3, Len(sent), sent)
        BY <3>1 DEF SentChain
      <4>2. n1 \in Nat
        OBVIOUS
      <4>3. PICK k \in {n1, n2} :
              /\ Carries(InUnits(pipe'["stdin"]), Len(got), k, sent)
              /\ Holds(outbox', "stdin", k, n2, sent)
        BY <4>1, <4>2, <1>11, <1>16
      <4>4. k \in 0..Len(sent)
        OBVIOUS
      <4>. QED
        BY <4>1, <4>3, <4>4, <1>7 DEF SentChain
    <3>. QED
      BY <3>1, <1>1, <1>2 DEF SentArrives
  <2>5. \A n, to, history : OutChain(n, to, pipe["out"], outbox, history) =>
                              OutChain(n, to, pipe'["out"], outbox', history)
    BY <2>1, <1>9, <1>16 DEF OutChain
  <2>6. SaidArrives'
    BY <2>5, <1>1, <1>2, <1>7 DEF SaidArrives, ToldWithEnd
  <2>. QED
    BY <2>2, <2>3, <2>4, <2>6, <1>12, <1>13, <1>14, <1>15 DEF IInv
<1>17. CASE there = "out"
  <2>1. pipe'["stdin"] = pipe["stdin"]
    BY <1>6, <1>17 DEF Pipe
  <2>2. ServerUnderstands'
    BY <2>1, <1>1, <1>2, <1>8, <1>17, ServerKept
  <2>3. ClientUnderstands'
    BY <1>1, <1>2, <1>10, <1>17 DEF ClientUnderstands
  <2>4. SentArrives'
    BY <2>1, <1>1, <1>2, <1>7, <1>9, <1>17, SentKept
  <2>5. ASSUME NEW n, NEW to \in Nat, NEW history, OutChain(n, to, pipe["out"], outbox, history)
        PROVE  OutChain(n, to, pipe'["out"], outbox', history)
    <3>1. PICK k \in 0..to :
            Carries(InUnits(pipe["out"]), n, k, history) /\ Holds(outbox, "out", k, to, history)
      BY <2>5 DEF OutChain
    <3>2. k \in Nat
      OBVIOUS
    <3>3. PICK l \in {k, to} :
            Carries(InUnits(pipe'["out"]), n, l, history) /\ Holds(outbox', "out", l, to, history)
      BY <3>1, <3>2, <1>11, <1>17
    <3>4. l \in 0..to
      OBVIOUS
    <3>. QED
      BY <3>3, <3>4 DEF OutChain
  <2>6. \A n \in 0..Len(said) : n \in Nat /\ n + 1 \in Nat
    OBVIOUS
  <2>7. SaidArrives'
    BY <2>5, <2>6, <1>1, <1>2, <1>7 DEF SaidArrives, ToldWithEnd
  <2>. QED
    BY <2>2, <2>3, <2>4, <2>7, <1>12, <1>13, <1>14, <1>15 DEF IInv
<1>. QED
  BY <1>16, <1>17

\* Deliver: the chains go on from the loop into the pipes.
LEMMA DeliverKeeps ==
  ASSUME IInv, Deliver
  PROVE  IInv'
BY DropKeeps, WriteKeeps

\* The loop ends: what it still had to write is written, or the client that it
\* was for is gone.
LEMMA StopKeeps ==
  ASSUME IInv, Stop, exited' \in BOOLEAN, exited => exited',
         phase \in {"running", "ending", "reaping"},
         UNCHANGED <<pipe, todo, clientReader, received, sent, readers, channel, outbox,
                     serverReader, got, owed, said>>
  PROVE  IInv'
<1>1. /\ PipesTyped /\ ClientTyped /\ ProxyTyped /\ ServerTyped
      /\ LoopWrites /\ ServerOwes
      /\ ServerUnderstands /\ ClientUnderstands /\ ProxyUnderstands
      /\ EndIsLast /\ SentArrives /\ SaidArrives
  BY Parts
<1>2. /\ phase' = "stopped" /\ unwritten' = unwritten \cup {"out", "stdin"}
      /\ unread' = unread \cup {"in", "stdout", "stderr"}
  BY DEF Stop
<1>3. /\ unwritten \subseteq unwritten' /\ unread \subseteq unread'
      /\ ("stdin" \in unread' => "stdin" \in unread) /\ ("out" \in unread' => "out" \in unread)
  BY <1>2
<1>4. PipesTyped'
  BY <1>1, <1>2 DEF PipesTyped, Pipe
<1>5. ProxyTyped'
  BY <1>1, <1>2 DEF ProxyTyped
<1>6. ServerTyped'
  BY <1>1, Zenon DEF ServerTyped
<1>7. ClientTyped' /\ LoopWrites' /\ ServerOwes'
  BY <1>1, TypesKept, OutputKept
<1>8. ServerUnderstands' /\ ClientUnderstands' /\ ProxyUnderstands' /\ EndIsLast' /\ SentArrives'
  BY <1>1, <1>2, <1>3, ServerKept, ClientKept, ProxyKept, EndKept, SentKept
<1>9. SaidArrives'
  BY <1>1, <1>2, <1>3 DEF SaidArrives, ToldWithEnd
<1>. QED
  BY <1>4, <1>5, <1>6, <1>7, <1>8, <1>9 DEF IInv

\* The loop ends in three ways.
LEMMA EndsKeep ==
  ASSUME IInv, LoopOnClientEnd \/ Reap \/ LoopEnds
  PROVE  IInv'
<1>1. exited \in BOOLEAN
  BY DEF IInv, ServerTyped
<1>2. /\ Stop /\ (exited' = TRUE \/ exited' = exited) /\ phase \in {"running", "ending", "reaping"}
      /\ UNCHANGED <<pipe, todo, clientReader, received, sent, readers, channel, outbox,
                     serverReader, got, owed, said>>
  BY DEF LoopOnClientEnd, Reap, LoopEnds, Receives, Idle, clientVars, serverVars
<1>3. CASE exited' = TRUE
  <2>1. exited' \in BOOLEAN /\ (exited => exited')
    BY <1>3, Zenon
  <2>. QED
    BY <2>1, <1>2, StopKeeps
<1>4. CASE exited' = exited
  <2>1. exited' \in BOOLEAN /\ (exited => exited')
    BY <1>1, <1>4, Zenon
  <2>. QED
    BY <2>1, <1>2, StopKeeps
<1>. QED
  BY <1>2, <1>3, <1>4

\* What a queue carries is not less than nothing.
LEMMA CarriesForward ==
  ASSUME NEW places, Len(places) \in Nat, NEW from, NEW to, NEW history,
         Carries(places, from, to, history)
  PROVE  from \in Nat /\ to \in Nat /\ from <= to
<1>1. PICK count \in [0..Len(places) -> from..to] : count[0] = from
  BY DEF Carries
<1>2. 0 \in 0..Len(places)
  OBVIOUS
<1>3. from \in Nat /\ to \in Nat
  BY DEF Carries
<1>. QED
  BY <1>1, <1>2, <1>3

\* The error is told behind the n messages that are told or on their way.
LEMMA EndIsTold ==
  ASSUME received \in Seq(Nat), said \in Seq(Nat), pipe["out"] \in Seq(Units),
         NEW n \in 0..Len(said), Begins(received, said),
         "out" \in unread => Len(received) <= n,
         "out" \in unread \/ OutChain(Len(received), n, pipe["out"], <<>>, said)
  PROVE  /\ Begins(received, ToldWithEnd(n))
         /\ "out" \in unread \/ OutChain(Len(received), n + 1, pipe["out"],
                                         RestTo("out", "length", ServerGone), ToldWithEnd(n))
<1> DEFINE told == ToldWithEnd(n)
<1>1. /\ told \in Seq(Nat) /\ Len(told) = n + 1 /\ told[n + 1] = ServerGone
      /\ \A i \in 1..n : told[i] = said[i]
  BY ToldWithEndIs
<1> HIDE DEF told
<1>2. n \in Nat /\ Len(received) \in Nat /\ Len(InUnits(pipe["out"])) \in Nat /\ ServerGone \in Nat
      /\ "length" \in Kinds
  BY PlacesOfUnits DEF ServerGone, Kinds
<1>3. "out" \notin unread => Carries(InUnits(pipe["out"]), Len(received), n, said)
  BY HoldsNone DEF OutChain
<1>4. Len(received) <= n
  BY <1>2, <1>3, CarriesForward
<1>5. Begins(received, told)
  <2>1. \A i \in 1..Len(received) : i \in 1..n /\ received[i] = said[i]
    BY <1>2, <1>4 DEF Begins
  <2>2. \A i \in 1..Len(received) : received[i] = told[i]
    BY <2>1, <1>1
  <2>3. Len(received) <= Len(told)
    BY <1>1, <1>2, <1>4
  <2>. QED
    BY <2>2, <2>3 DEF Begins
<1>6. ASSUME "out" \notin unread
      PROVE  OutChain(Len(received), n + 1, pipe["out"], RestTo("out", "length", ServerGone), told)
  <2>1. Carries(InUnits(pipe["out"]), Len(received), n, told)
    <3>1. \A i \in 1..n : i <= Len(told) /\ told[i] = said[i]
      BY <1>1, <1>2
    <3>. QED
      BY <3>1, <1>2, <1>3, <1>6, CarriesOther
  <2>2. Holds(RestTo("out", "length", ServerGone), "out", n, n + 1, told)
    <3>1. \A from, to, history :
            to = from + 1 /\ to <= Len(history) /\ ServerGone = history[to] =>
              Holds(RestTo("out", "length", ServerGone), "out", from, to, history)
      BY <1>2, HoldsRest
    <3>2. n + 1 <= Len(told) /\ ServerGone = told[n + 1]
      BY <1>1, <1>2
    <3>. QED
      BY <3>1, <3>2
  <2>3. n \in 0..(n + 1)
    BY <1>2
  <2>. QED
    BY <2>1, <2>2, <2>3 DEF OutChain
<1>. QED
  BY <1>5, <1>6 DEF told

\* LoopOnUpstreamEnd: there is no message of the server left on its way to the
\* loop, so the error is behind all that it said.
LEMMA LoopOnUpstreamEndKeeps ==
  ASSUME IInv, LoopOnUpstreamEnd
  PROVE  IInv'
<1>1. /\ PipesTyped /\ ClientTyped /\ ProxyTyped /\ ServerTyped
      /\ LoopWrites /\ ServerOwes
      /\ ServerUnderstands /\ ClientUnderstands /\ ProxyUnderstands
      /\ EndIsLast /\ SentArrives /\ SaidArrives
  BY Parts
<1>2. /\ phase = "running" /\ outbox = <<>> /\ channel # <<>> /\ Head(channel)[1] = "upstreamClosed"
      /\ channel' = Tail(channel)
      /\ outbox' = RestTo("out", "length", ServerGone)
      /\ phase' = "reaping"
      /\ UNCHANGED <<pipe, unwritten, unread, readers, todo, clientReader, received, sent,
                     exited, serverReader, got, owed, said>>
  BY DEF LoopOnUpstreamEnd, Receives, Idle, clientVars, serverVars, RestTo, Rest
<1>3. /\ channel \in Seq(Events) /\ channel' \in Seq(Events) /\ received \in Seq(Nat)
      /\ said \in Seq(Nat) /\ pipe["out"] \in Seq(Units)
  BY <1>1, <1>2 DEF ProxyTyped, ClientTyped, ServerTyped, PipesTyped, Pipe
<1>4. ServerGone \in Nat /\ "length" \in Kinds
  BY DEF ServerGone, Kinds
<1>5. \A there \in {"stdin", "out"} : Coming(outbox', there) = Coming(outbox, there)
  BY <1>2, <1>4, ComingNothing, ComingNext
<1>6. ProxyTyped' /\ LoopWrites'
  BY <1>1, <1>2, <1>3, <1>4 DEF ProxyTyped, LoopWrites
<1>7. PipesTyped' /\ ClientTyped' /\ ServerTyped' /\ ServerOwes'
  BY <1>1, <1>2, TypesKept, OutputKept
<1>8. ServerUnderstands' /\ ClientUnderstands' /\ ProxyUnderstands'
  BY <1>1, <1>2, <1>5, ServerKept, ClientKept, ProxyKept
<1>9. EndIsLast'
  BY <1>1, <1>2, <1>3, EndTaken
<1>10. SentArrives'
  <2>1. ASSUME SentChain(Len(got), pipe["stdin"], outbox, channel, pipe["in"], sent)
        PROVE  SentChain(Len(got), pipe["stdin"], outbox', channel', pipe["in"], sent)
    <3>1. PICK n1 \in 0..Len(sent), n2 \in 0..Len(sent), n3 \in 0..Len(sent) :
            /\ Carries(InUnits(pipe["stdin"]), Len(got), n1, sent)
            /\ Holds(outbox, "stdin", n1, n2, sent)
            /\ Carries(InEvents(channel, "fromClient"), n2, n3, sent)
            /\ Carries(InUnits(pipe["in"]), n3, Len(sent), sent)
      BY <2>1 DEF SentChain
    <3>2. Carries(InEvents(channel', "fromClient"), n2, n3, sent)
      BY <3>1, <1>2, <1>3, EventLeaves
    <3>3. Holds(outbox', "stdin", n1, n2, sent)
      BY <3>1, <1>2, <1>4, HoldsNone, HoldsElsewhere
    <3>. QED
      BY <3>1, <3>2, <3>3 DEF SentChain
  <2>. QED
    BY <2>1, <1>1, <1>2 DEF SentArrives
<1>11. SaidArrives'
  <2>1. Begins(received, said)
    BY <1>1, <1>2 DEF SaidArrives
  <2>2. pipe["stdout"] = <<>> /\ \A i \in 1..Len(channel) : channel[i][1] # "fromUpstream"
    <3>1. 1 \in 1..Len(channel) /\ channel[1][1] = "upstreamClosed"
      BY <1>2, <1>3
    <3>. QED
      BY <3>1, <1>1 DEF EndIsLast
  <2>3. "out" \in unread \/ OutChain(Len(received), Len(said), pipe["out"], <<>>, said)
    <3>1. SUFFICES ASSUME "out" \notin unread
                   PROVE  OutChain(Len(received), Len(said), pipe["out"], <<>>, said)
      OBVIOUS
    <3>2. PICK n \in 0..Len(said) :
            /\ OutChain(Len(received), n, pipe["out"], <<>>, said)
            /\ SaidChain(n, channel, pipe["stdout"], said)
      BY <3>1, <1>1, <1>2 DEF SaidArrives
    <3>3. PICK k \in 0..Len(said) :
            /\ Carries(InEvents(channel, "fromUpstream"), n, k, said)
            /\ Carries(InUnits(<<>>), k, Len(said), said)
      BY <3>2, <2>2 DEF SaidChain
    <3>4. n = k
      BY <3>3, <2>2, <1>3, EventsNone
    <3>5. k \in Nat
      OBVIOUS
    <3>6. k = Len(said)
      BY <3>3, <3>5, UnitsNone
    <3>. QED
      BY <3>2, <3>4, <3>6
  <2>4. Len(said) \in 0..Len(said) /\ Len(received) <= Len(said)
    BY <2>1, <1>3 DEF Begins
  <2>5. /\ Begins(received, ToldWithEnd(Len(said)))
        /\ "out" \in unread \/ OutChain(Len(received), Len(said) + 1, pipe["out"], outbox',
                                        ToldWithEnd(Len(said)))
    BY <2>1, <2>3, <2>4, <1>2, <1>3, EndIsTold
  <2>. QED
    BY <2>4, <2>5, <1>2 DEF SaidArrives, ToldWithEnd
<1>. QED
  BY <1>6, <1>7, <1>8, <1>9, <1>10, <1>11 DEF IInv

\* LoopPolls: the error is behind what the client was told so far; the rest of
\* what the server said is lost.
LEMMA LoopPollsKeeps ==
  ASSUME IInv, LoopPolls
  PROVE  IInv'
<1>1. /\ PipesTyped /\ ClientTyped /\ ProxyTyped /\ ServerTyped
      /\ LoopWrites /\ ServerOwes
      /\ ServerUnderstands /\ ClientUnderstands /\ ProxyUnderstands
      /\ EndIsLast /\ SentArrives /\ SaidArrives
  BY Parts
<1>2. /\ phase = "running" /\ outbox = <<>>
      /\ outbox' = RestTo("out", "length", ServerGone)
      /\ phase' = "ending"
      /\ UNCHANGED <<pipe, unwritten, unread, readers, channel, todo, clientReader, received, sent,
                     exited, serverReader, got, owed, said>>
  BY DEF LoopPolls, Idle, clientVars, serverVars, RestTo, Rest
<1>3. received \in Seq(Nat) /\ said \in Seq(Nat) /\ pipe["out"] \in Seq(Units)
  BY <1>1 DEF ClientTyped, ServerTyped, PipesTyped, Pipe
<1>4. ServerGone \in Nat /\ "length" \in Kinds
  BY DEF ServerGone, Kinds
<1>5. \A there \in {"stdin", "out"} : Coming(outbox', there) = Coming(outbox, there)
  BY <1>2, <1>4, ComingNothing, ComingNext
<1>6. ProxyTyped' /\ LoopWrites'
  BY <1>1, <1>2, <1>4 DEF ProxyTyped, LoopWrites
<1>7. PipesTyped' /\ ClientTyped' /\ ServerTyped' /\ ServerOwes'
  BY <1>1, <1>2, TypesKept, OutputKept
<1>8. ServerUnderstands' /\ ClientUnderstands' /\ ProxyUnderstands' /\ EndIsLast'
  BY <1>1, <1>2, <1>5, ServerKept, ClientKept, ProxyKept, EndKept
<1>9. SentArrives'
  <2>1. \A n, k, history : Holds(outbox, "stdin", n, k, history) => Holds(outbox', "stdin", n, k, history)
    BY <1>2, <1>4, HoldsNone, HoldsElsewhere
  <2>. QED
    BY <2>1, <1>1, <1>2, SentKept
<1>10. SaidArrives'
  <2>1. Begins(received, said)
    BY <1>1, <1>2 DEF SaidArrives
  <2>2. PICK n \in 0..Len(said) :
          /\ "out" \in unread => Len(received) <= n
          /\ "out" \in unread \/ OutChain(Len(received), n, pipe["out"], <<>>, said)
    <3>1. Len(said) \in 0..Len(said) /\ Len(received) <= Len(said)
      BY <2>1, <1>3 DEF Begins
    <3>2. CASE "out" \in unread
      BY <3>1, <3>2
    <3>3. CASE "out" \notin unread
      BY <3>3, <1>1, <1>2 DEF SaidArrives
    <3>. QED
      BY <3>2, <3>3
  <2>3. /\ Begins(received, ToldWithEnd(n))
        /\ "out" \in unread \/ OutChain(Len(received), n + 1, pipe["out"], outbox', ToldWithEnd(n))
    BY <2>1, <2>2, <1>2, <1>3, EndIsTold
  <2>. QED
    BY <2>3, <1>2 DEF SaidArrives, ToldWithEnd
<1>. QED
  BY <1>6, <1>7, <1>8, <1>9, <1>10 DEF IInv

\* The loop takes the events one by one.
LEMMA LoopKeeps ==
  ASSUME IInv, Loop
  PROVE  IInv'
<1>1. CASE LoopRelays
  BY <1>1, LoopRelaysFromClientKeeps, LoopRelaysFromUpstreamKeeps DEF LoopRelays, Receives
<1>. QED
  BY <1>1, DeliverKeeps, EndsKeep, LoopOnUpstreamEndKeeps, LoopPollsKeeps DEF Loop

--------------------------------------------------------------------------------
(* The steps of the server. *)

\* One unit in front of three others, and two of them.
LEMMA InFront ==
  ASSUME NEW S, NEW u \in S, NEW a \in S, NEW b \in S, NEW c \in S
  PROVE  /\ <<u>> \o <<a, b, c>> = <<u, a, b, c>>
         /\ <<u, u>> \o <<a, b, c>> = <<u, u, a, b, c>>
<1> DEFINE one == <<u>> \o <<a, b, c>>
           two == <<u, u>> \o <<a, b, c>>
<1>1. <<u>> \in Seq(S) /\ <<u, u>> \in Seq(S) /\ <<a, b, c>> \in Seq(S)
  OBVIOUS
<1>2. one \in Seq(S) /\ Len(one) = 4 /\ one[1] = u /\ one[2] = a /\ one[3] = b /\ one[4] = c
  BY <1>1
<1>3. /\ two \in Seq(S) /\ Len(two) = 5
      /\ two[1] = u /\ two[2] = u /\ two[3] = a /\ two[4] = b /\ two[5] = c
  BY <1>1
<1> HIDE DEF one, two
<1>4. one = <<u, a, b, c>> /\ two = <<u, u, a, b, c>>
  BY <1>2, <1>3
<1>. QED
  BY <1>4 DEF one, two

\* The units of what a server owes.
LEMMA LogUnits ==
  ASSUME NEW u \in Units, NEW m \in Nat
  PROVE  \E line, a, b, c :
           /\ line.to = "stderr" /\ line.unit = u
           /\ Log(1, u, m) = <<line, a, b, c>> /\ Log(2, u, m) = <<line, line, a, b, c>>
           /\ RestTo("stdout", "length", m) = <<a, b, c>>
<1> DEFINE line == [to |-> "stderr", unit |-> u]
           a == [to |-> "stdout", unit |-> Unit("length", m)]
           b == [to |-> "stdout", unit |-> Unit("blank", m)]
           c == [to |-> "stdout", unit |-> Unit("body", m)]
           S == {line, a, b, c}
<1>1. RestTo("stdout", "length", m) = <<a, b, c>>
  BY DEF RestTo, Rest, To, Frame
<1>2. To("stderr", [i \in 1..1 |-> u]) = <<line>> /\ To("stderr", [i \in 1..2 |-> u]) = <<line, line>>
  BY DEF To
<1>3. line.to = "stderr" /\ line.unit = u
  OBVIOUS
<1>4. line \in S /\ a \in S /\ b \in S /\ c \in S
  OBVIOUS
<1> HIDE DEF line, a, b, c, S
<1>5. Log(1, u, m) = <<line>> \o <<a, b, c>> /\ Log(2, u, m) = <<line, line>> \o <<a, b, c>>
  BY <1>1, <1>2 DEF Log
<1>. QED
  BY <1>1, <1>3, <1>4, <1>5, InFront

\* Lines of log come first.
LEMMA LogFirst ==
  ASSUME NEW log \in {1, 2}, NEW u \in Units, NEW m \in Nat
  PROVE  /\ Head(Log(log, u, m)).to = "stderr" /\ Head(Log(log, u, m)).unit = u
         /\ Coming(Log(log, u, m), "stdout") = "length"
<1>1. PICK line, a, b, c :
        /\ line.to = "stderr" /\ line.unit = u
        /\ Log(1, u, m) = <<line, a, b, c>> /\ Log(2, u, m) = <<line, line, a, b, c>>
  BY LogUnits
<1> DEFINE q == Log(log, u, m)
<1>2. Head(q) = line /\ q[1] = line
  BY <1>1
<1> HIDE DEF q
<1>3. Head(q).to = "stderr" /\ Head(q).unit = u /\ Coming(q, "stdout") = "length"
  BY <1>1, <1>2 DEF Coming
<1>. QED
  BY <1>3 DEF q

\* The frame comes after them.
LEMMA LogGoesOn ==
  ASSUME NEW log \in {1, 2}, NEW u \in Units, NEW m \in Nat
  PROVE  Tail(Log(log, u, m)) = IF log = 2 THEN Log(1, u, m) ELSE RestTo("stdout", "length", m)
<1>1. PICK line, a, b, c :
        /\ Log(1, u, m) = <<line, a, b, c>> /\ Log(2, u, m) = <<line, line, a, b, c>>
        /\ RestTo("stdout", "length", m) = <<a, b, c>>
  BY LogUnits
<1>2. Tail(<<line, a, b, c>>) = <<a, b, c>> /\ Tail(<<line, line, a, b, c>>) = <<line, a, b, c>>
  OBVIOUS
<1>. QED
  BY <1>1, <1>2

\* ServerReads: the server takes the unit that is due, and with the body the next
\* message of what was sent.
LEMMA ServerReadsKeeps ==
  ASSUME IInv, ServerReads
  PROVE  IInv'
<1> DEFINE unit == Head(pipe["stdin"])
<1>1. /\ PipesTyped /\ ClientTyped /\ ProxyTyped /\ ServerTyped
      /\ LoopWrites /\ ServerOwes
      /\ ServerUnderstands /\ ClientUnderstands /\ ProxyUnderstands
      /\ EndIsLast /\ SentArrives /\ SaidArrives
  BY Parts
<1>2. /\ ~exited /\ owed = <<>> /\ pipe["stdin"] # <<>> /\ Consume("stdin")
      /\ serverReader' = AfterUnit(serverReader, unit)
      /\ IF Completes(serverReader, unit)
         THEN /\ got' = Append(got, unit.msg)
              /\ owed' = To("stderr", <<unit, unit>>) \o To("stdout", Frame(Answer(unit.msg)))
         ELSE UNCHANGED <<got, owed>>
      /\ UNCHANGED <<unwritten, unread, todo, clientReader, received, sent, readers, channel, outbox,
                     phase, exited, said>>
  BY DEF ServerReads, clientVars, proxyVars
<1>3. got \in Seq(Nat) /\ sent \in Seq(Nat) /\ said \in Seq(Nat)
  BY <1>1 DEF ServerTyped, ClientTyped
<1>4. /\ pipe' \in [Pipe -> Seq(Units)] /\ pipe'["stdin"] = Tail(pipe["stdin"])
      /\ pipe'["in"] = pipe["in"] /\ pipe'["out"] = pipe["out"] /\ pipe'["stdout"] = pipe["stdout"]
      /\ pipe["stdin"] \in Seq(Units) /\ unit \in Units
  <2>1. "in" \in Pipe /\ "out" \in Pipe /\ "stdin" \in Pipe /\ "stdout" \in Pipe
    BY DEF Pipe
  <2>. QED
    BY <1>1, <1>2, <2>1, Consumed
<1> HIDE DEF unit
<1>5. /\ serverReader \in Sound
      /\ unit.kind = Due(serverReader)
      /\ Flows(pipe'["stdin"], Following[Due(serverReader)], Coming(outbox, "stdin"))
  <2>1. serverReader \in Sound /\ Flows(pipe["stdin"], Due(serverReader), Coming(outbox, "stdin"))
    BY <1>1, <1>2 DEF ServerUnderstands
  <2>. QED
    BY <2>1, <1>2, <1>4, FlowsLeaves DEF unit
<1>6. /\ serverReader' \in Sound /\ Due(serverReader') = Following[Due(serverReader)]
      /\ Completes(serverReader, unit) <=> unit.kind = "body"
  BY <1>2, <1>4, <1>5, ReaderGoesOn
<1>7. unit.msg \in Nat /\ Answer(unit.msg) \in Nat
  <2>1. unit.msg \in Nat
    BY <1>4 DEF Units
  <2>. QED
    BY <2>1 DEF Answer
<1>8. got' = IF unit.kind = "body" THEN Append(got, unit.msg) ELSE got
  BY <1>2, <1>6
<1>9. owed' = IF unit.kind = "body" THEN Log(2, unit, Answer(unit.msg)) ELSE <<>>
  <2>1. [i \in 1..2 |-> unit] = <<unit, unit>>
    OBVIOUS
  <2>2. Log(2, unit, Answer(unit.msg))
          = To("stderr", <<unit, unit>>) \o To("stdout", Frame(Answer(unit.msg)))
    BY <2>1 DEF Log, RestTo, Rest
  <2>. QED
    BY <2>2, <1>2, <1>6
<1>10. Coming(owed', "stdout") = Coming(owed, "stdout")
  <2>1. Coming(Log(2, unit, Answer(unit.msg)), "stdout") = "length"
    BY <1>4, <1>7, LogFirst
  <2>. QED
    BY <2>1, <1>2, <1>9, ComingNothing
<1>11. PipesTyped'
  BY <1>1, <1>2, <1>4 DEF PipesTyped
<1>12. ServerTyped'
  <2>1. got' \in Seq(Nat)
    BY <1>3, <1>7, <1>8
  <2>2. exited \in BOOLEAN
    BY <1>1 DEF ServerTyped
  <2>. QED
    BY <2>1, <2>2, <1>2, <1>3, Zenon DEF ServerTyped
<1>13. ServerOwes'
  BY <1>4, <1>7, <1>9 DEF ServerOwes, Log
<1>14. ClientTyped' /\ ProxyTyped' /\ LoopWrites'
  BY <1>1, <1>2, TypesKept, OutputKept
<1>15. ServerUnderstands'
  BY <1>2, <1>5, <1>6 DEF ServerUnderstands
<1>16. ClientUnderstands' /\ ProxyUnderstands' /\ EndIsLast' /\ SaidArrives'
  BY <1>1, <1>2, <1>4, <1>10, ClientKept, ProxyKept, EndKept, SaidKept
<1>17. SentArrives'
  <2>1. Begins(got, sent) /\ SentChain(Len(got), pipe["stdin"], outbox, channel, pipe["in"], sent)
    BY <1>1, <1>2 DEF SentArrives
  <2>2. PICK n1 \in 0..Len(sent), n2 \in 0..Len(sent), n3 \in 0..Len(sent) :
          /\ Carries(InUnits(pipe["stdin"]), Len(got), n1, sent)
          /\ Holds(outbox, "stdin", n1, n2, sent)
          /\ Carries(InEvents(channel, "fromClient"), n2, n3, sent)
          /\ Carries(InUnits(pipe["in"]), n3, Len(sent), sent)
    BY <2>1 DEF SentChain
  <2>3. Begins(got', sent) /\ Carries(InUnits(pipe'["stdin"]), Len(got'), n1, sent)
    <3>1. CASE unit.kind = "body"
      <4>1. /\ Len(got) + 1 <= Len(sent) /\ unit.msg = sent[Len(got) + 1]
            /\ Carries(InUnits(pipe'["stdin"]), Len(got) + 1, n1, sent)
        BY <2>2, <3>1, <1>2, <1>4, UnitLeaves DEF unit
      <4>2. Begins(Append(got, unit.msg), sent) /\ Len(Append(got, unit.msg)) = Len(got) + 1
        BY <2>1, <4>1, <1>3, <1>7, BeginsNext
      <4>. QED
        BY <3>1, <4>1, <4>2, <1>8
    <3>2. CASE unit.kind # "body"
      <4>1. Carries(InUnits(pipe'["stdin"]), Len(got), n1, sent)
        BY <2>2, <3>2, <1>2, <1>4, UnitLeaves DEF unit
      <4>. QED
        BY <2>1, <3>2, <4>1, <1>8
    <3>. QED
      BY <3>1, <3>2
  <2>4. SentChain(Len(got'), pipe'["stdin"], outbox, channel, pipe'["in"], sent)
    BY <2>2, <2>3, <1>4 DEF SentChain
  <2>. QED
    BY <2>3, <2>4, <1>1, <1>2 DEF SentArrives
<1>. QED
  BY <1>11, <1>12, <1>13, <1>14, <1>15, <1>16, <1>17 DEF IInv

\* A line of the log: it goes nowhere that matters.
LEMMA LogKeeps ==
  ASSUME IInv, ServerWrites, NEW log \in {1, 2}, NEW u \in Units, NEW m \in Nat,
         owed = Log(log, u, m)
  PROVE  IInv'
<1>1. /\ PipesTyped /\ ClientTyped /\ ProxyTyped /\ ServerTyped
      /\ LoopWrites /\ ServerOwes
      /\ ServerUnderstands /\ ClientUnderstands /\ ProxyUnderstands
      /\ EndIsLast /\ SentArrives /\ SaidArrives
  BY Parts
<1>2. Head(owed).to = "stderr" /\ Head(owed).unit = u /\ Coming(owed, "stdout") = "length"
  <2>1. /\ Head(Log(log, u, m)).to = "stderr" /\ Head(Log(log, u, m)).unit = u
        /\ Coming(Log(log, u, m), "stdout") = "length"
    BY LogFirst
  <2>. QED
    BY <2>1
<1>3. /\ owed' = Tail(owed) /\ said' = said
      /\ pipe' = pipe \/ Write("stderr", u)
      /\ UNCHANGED <<unwritten, unread, todo, clientReader, received, sent, readers, channel, outbox,
                     phase, exited, serverReader, got>>
  BY <1>2 DEF ServerWrites, clientVars, proxyVars
<1>4. /\ pipe' \in [Pipe -> Seq(Units)]
      /\ pipe'["in"] = pipe["in"] /\ pipe'["out"] = pipe["out"]
      /\ pipe'["stdin"] = pipe["stdin"] /\ pipe'["stdout"] = pipe["stdout"]
  <2>1. /\ "stderr" \in Pipe /\ "in" \in Pipe /\ "out" \in Pipe /\ "stdin" \in Pipe
        /\ "stdout" \in Pipe
    BY DEF Pipe
  <2>2. CASE Write("stderr", u)
    BY <2>1, <2>2, <1>1, Written
  <2>3. CASE pipe' = pipe
    BY <2>3, <1>1 DEF PipesTyped
  <2>. QED
    BY <2>2, <2>3, <1>3
<1>5. owed' = IF log = 2 THEN Log(1, u, m) ELSE RestTo("stdout", "length", m)
  <2>1. Tail(Log(log, u, m)) = IF log = 2 THEN Log(1, u, m) ELSE RestTo("stdout", "length", m)
    BY LogGoesOn
  <2>. QED
    BY <2>1, <1>3
<1>6. "length" \in Kinds
  BY DEF Kinds
<1>7. Coming(owed', "stdout") = "length"
  <2>1. Coming(Log(1, u, m), "stdout") = "length"
    BY LogFirst
  <2>2. Coming(RestTo("stdout", "length", m), "stdout") = "length"
    BY <1>6, ComingNext
  <2>. QED
    BY <2>1, <2>2, <1>5
<1>8. ServerOwes'
  BY <1>5, <1>6 DEF ServerOwes, Log
<1>9. PipesTyped'
  BY <1>1, <1>3, <1>4 DEF PipesTyped
<1>10. ClientTyped' /\ ProxyTyped' /\ ServerTyped' /\ LoopWrites'
  BY <1>1, <1>3, TypesKept, OutputKept
<1>11. /\ ServerUnderstands' /\ ClientUnderstands' /\ ProxyUnderstands'
       /\ EndIsLast' /\ SentArrives' /\ SaidArrives'
  BY <1>1, <1>2, <1>3, <1>4, <1>7, ServerKept, ClientKept, ProxyKept, EndKept, SentKept, SaidKept
<1>. QED
  BY <1>8, <1>9, <1>10, <1>11 DEF IInv

\* A unit for a stdout that is closed is lost, and no more of it is said.
LEMMA LostKeeps ==
  ASSUME IInv, ServerWrites, NEW kind \in Kinds, NEW m \in Nat,
         owed = RestTo("stdout", kind, m), "stdout" \in unwritten
  PROVE  IInv'
<1>1. /\ PipesTyped /\ ClientTyped /\ ProxyTyped /\ ServerTyped
      /\ LoopWrites /\ ServerOwes
      /\ ServerUnderstands /\ ClientUnderstands /\ ProxyUnderstands
      /\ EndIsLast /\ SentArrives /\ SaidArrives
  BY Parts
<1>2. Head(owed).to = "stdout"
  BY FirstOfRest
<1>3. /\ owed' = Tail(owed)
      /\ UNCHANGED <<pipe, unwritten, unread, todo, clientReader, received, sent, readers, channel,
                     outbox, phase, exited, serverReader, got, said>>
  BY <1>2 DEF ServerWrites, clientVars, proxyVars
<1>4. ServerOwes'
  <2>1. Following[kind] \in Kinds
    BY DEF Following, Kinds
  <2>2. owed' = <<>> \/ owed' = RestTo("stdout", Following[kind], m)
    BY <1>3, RestGoesOn
  <2>. QED
    BY <2>1, <2>2 DEF ServerOwes
<1>5. PipesTyped' /\ ClientTyped' /\ ProxyTyped' /\ ServerTyped' /\ LoopWrites'
  BY <1>1, <1>3, TypesKept, OutputKept
<1>6. ProxyUnderstands'
  BY <1>1, <1>3 DEF ProxyUnderstands
<1>7. ServerUnderstands' /\ ClientUnderstands' /\ EndIsLast' /\ SentArrives' /\ SaidArrives'
  BY <1>1, <1>3, ServerKept, ClientKept, EndKept, SentKept, SaidKept
<1>. QED
  BY <1>4, <1>5, <1>6, <1>7 DEF IInv

\* A unit that the server writes to its stdout: the pipe carries the message once
\* its body is written.
LEMMA SaysKeeps ==
  ASSUME IInv, ServerWrites, NEW kind \in Kinds, NEW m \in Nat,
         owed = RestTo("stdout", kind, m), "stdout" \notin unwritten
  PROVE  IInv'
<1> DEFINE unit == Unit(kind, m)
<1>1. /\ PipesTyped /\ ClientTyped /\ ProxyTyped /\ ServerTyped
      /\ LoopWrites /\ ServerOwes
      /\ ServerUnderstands /\ ClientUnderstands /\ ProxyUnderstands
      /\ EndIsLast /\ SentArrives /\ SaidArrives
  BY Parts
<1>2. unit \in Units /\ unit.kind = kind
  BY DEF Unit, Units, Kinds, Lines
<1>3. Head(owed).to = "stdout" /\ Head(owed).unit = unit
  BY FirstOfRest
<1> HIDE DEF unit
<1>4. /\ owed' = Tail(owed) /\ Write("stdout", unit) /\ said' = Whole(said, unit)
      /\ UNCHANGED <<unwritten, unread, todo, clientReader, received, sent, readers, channel,
                     outbox, phase, exited, serverReader, got>>
  BY <1>3 DEF ServerWrites, clientVars, proxyVars
<1>5. /\ pipe' \in [Pipe -> Seq(Units)] /\ pipe'["stdout"] = Append(pipe["stdout"], unit)
      /\ pipe'["in"] = pipe["in"] /\ pipe'["out"] = pipe["out"] /\ pipe'["stdin"] = pipe["stdin"]
  <2>1. "in" \in Pipe /\ "out" \in Pipe /\ "stdin" \in Pipe /\ "stdout" \in Pipe
    BY DEF Pipe
  <2>. QED
    BY <1>1, <1>2, <1>4, <2>1, Written
<1>6. /\ received \in Seq(Nat) /\ said \in Seq(Nat) /\ channel \in Seq(Events)
      /\ pipe["stdout"] \in Seq(Units) /\ pipe["out"] \in Seq(Units)
  BY <1>1 DEF ClientTyped, ServerTyped, ProxyTyped, PipesTyped, Pipe
<1>7. /\ said' \in Seq(Nat) /\ Begins(said, said')
      /\ unit.kind # "body" => said' = said
      /\ unit.kind = "body" => Len(said') = Len(said) + 1 /\ said'[Len(said) + 1] = unit.msg
  BY <1>2, <1>4, <1>6, Grown DEF Begins
<1>8. ServerOwes'
  <2>1. Following[kind] \in Kinds
    BY DEF Following, Kinds
  <2>2. owed' = <<>> \/ owed' = RestTo("stdout", Following[kind], m)
    BY <1>4, RestGoesOn
  <2>. QED
    BY <2>1, <2>2 DEF ServerOwes
<1>9. PipesTyped'
  BY <1>1, <1>4, <1>5 DEF PipesTyped
<1>10. ServerTyped'
  BY <1>1, <1>4, <1>7, Zenon DEF ServerTyped
<1>11. ClientTyped' /\ ProxyTyped' /\ LoopWrites'
  BY <1>1, <1>4, TypesKept, OutputKept
<1>12. ServerUnderstands' /\ ClientUnderstands' /\ SentArrives'
  BY <1>1, <1>4, <1>5, ServerKept, ClientKept, SentKept
<1>13. readers["stdout"] # Failed /\ phase # "reaping"
  BY <1>1 DEF EndIsLast
<1>14. ProxyUnderstands'
  <2>1. Coming(owed, "stdout") = kind /\ Coming(owed', "stdout") = Following[kind]
    BY <1>4, ComingNext
  <2>2. /\ readers["stdout"] \in Sound
        /\ Flows(pipe["stdout"], Due(readers["stdout"]), kind)
    BY <2>1, <1>1, <1>13 DEF ProxyUnderstands
  <2>3. Flows(pipe'["stdout"], Due(readers["stdout"]), Following[kind])
    BY <2>2, <1>2, <1>5, <1>6, FlowsJoins
  <2>4. Following[kind] \in Kinds
    BY DEF Following, Kinds
  <2>. QED
    BY <2>1, <2>2, <2>3, <2>4, <1>4 DEF ProxyUnderstands
<1>15. EndIsLast'
  <2>1. \A i \in 1..Len(channel) : channel[i][1] # "upstreamClosed"
    BY <1>1, <1>13 DEF EndIsLast
  <2>. QED
    BY <2>1, <1>4, <1>13 DEF EndIsLast
<1>16. /\ Len(said) \in Nat /\ Len(said') \in Nat /\ Len(said) <= Len(said')
       /\ Len(InUnits(pipe["stdout"])) \in Nat /\ Len(InUnits(pipe["out"])) \in Nat
       /\ Len(InEvents(channel, "fromUpstream")) \in Nat
  BY <1>6, <1>7, PlacesOfUnits, PlacesOfEvents DEF Begins
<1>17. \A n \in 0..Len(said) : n \in 0..Len(said') /\ n \in Nat
  BY <1>16
<1>18. SaidArrives'
  <2>1. CASE phase \in {"running", "stopped"} /\ Begins(received, said) /\ "out" \in unread
    <3>1. Begins(received, said')
      BY <2>1, <1>6, <1>7, BeginsGrown
    <3>. QED
      BY <2>1, <3>1, <1>4 DEF SaidArrives
  <2>2. ASSUME phase \in {"running", "stopped"}, Begins(received, said), NEW n \in 0..Len(said),
               OutChain(Len(received), n, pipe["out"], outbox, said),
               phase = "running" => SaidChain(n, channel, pipe["stdout"], said)
        PROVE  SaidArrives'
    <3>1. Begins(received, said')
      BY <2>2, <1>6, <1>7, BeginsGrown
    <3>2. OutChain(Len(received), n, pipe["out"], outbox, said')
      <4>1. PICK k \in 0..n :
              /\ Carries(InUnits(pipe["out"]), Len(received), k, said)
              /\ Holds(outbox, "out", k, n, said)
        BY <2>2 DEF OutChain
      <4>2. k \in 0..Len(said) /\ k \in Nat /\ Len(received) \in Nat /\ n \in 0..Len(said)
        BY <1>6, <1>16
      <4>3. Carries(InUnits(pipe["out"]), Len(received), k, said')
        BY <4>1, <4>2, <1>7, <1>16, CarriedGrown
      <4>4. Holds(outbox, "out", k, n, said')
        BY <4>1, <4>2, <1>7, <1>16, CarriedGrown
      <4>. QED
        BY <4>3, <4>4 DEF OutChain
    <3>3. phase = "running" => SaidChain(n, channel, pipe'["stdout"], said')
      <4>1. SUFFICES ASSUME phase = "running"
                     PROVE  SaidChain(n, channel, pipe'["stdout"], said')
        OBVIOUS
      <4>2. PICK k \in 0..Len(said) :
              /\ Carries(InEvents(channel, "fromUpstream"), n, k, said)
              /\ Carries(InUnits(pipe["stdout"]), k, Len(said), said)
        BY <2>2, <4>1 DEF SaidChain
      <4>3. k \in Nat /\ n \in Nat /\ k \in 0..Len(said') /\ Len(said) \in 0..Len(said)
        BY <1>16, <1>17
      <4>4. Carries(InEvents(channel, "fromUpstream"), n, k, said')
        BY <4>2, <4>3, <1>7, <1>16, CarriedGrown
      <4>5. Carries(InUnits(pipe["stdout"]), k, Len(said), said')
        BY <4>2, <4>3, <1>7, <1>16, CarriedGrown
      <4>6. Carries(InUnits(pipe'["stdout"]), k, Len(said'), said')
        <5>1. /\ unit.kind # "body" => Carries(InUnits(pipe'["stdout"]), k, Len(said), said')
              /\ unit.kind = "body" /\ Len(said) + 1 <= Len(said') /\ unit.msg = said'[Len(said) + 1] =>
                   Carries(InUnits(pipe'["stdout"]), k, Len(said) + 1, said')
          BY <4>5, <1>2, <1>5, <1>6, UnitJoins
        <5>. QED
          BY <5>1, <1>7, <1>16
      <4>. QED
        BY <4>3, <4>4, <4>6 DEF SaidChain
    <3>. QED
      BY <2>2, <3>1, <3>2, <3>3, <1>4, <1>5, <1>17 DEF SaidArrives
  <2>3. ASSUME phase # "running", NEW n \in 0..Len(said), Begins(received, ToldWithEnd(n)),
               "out" \in unread \/ OutChain(Len(received), n + 1, pipe["out"], outbox, ToldWithEnd(n))
        PROVE  SaidArrives'
    <3>1. ToldWithEnd(n)' = ToldWithEnd(n)
      <4>1. SubSeq(said', 1, n) = SubSeq(said, 1, n)
        <5>1. \A i \in 1..n : said'[i] = said[i]
          <6>1. \A i \in 1..n : i \in 1..Len(said)
            BY <1>16
          <6>. QED
            BY <6>1, <1>7 DEF Begins
        <5>2. /\ SubSeq(said, 1, n) \in Seq(Nat) /\ Len(SubSeq(said, 1, n)) = n
              /\ \A i \in 1..n : SubSeq(said, 1, n)[i] = said[i]
          BY <1>6, FirstOf
        <5>3. /\ SubSeq(said', 1, n) \in Seq(Nat) /\ Len(SubSeq(said', 1, n)) = n
              /\ \A i \in 1..n : SubSeq(said', 1, n)[i] = said'[i]
          BY <1>7, <1>17, FirstOf
        <5>4. \A i \in 1..n : SubSeq(said', 1, n)[i] = SubSeq(said, 1, n)[i]
          BY <5>1, <5>2, <5>3
        <5>. QED
          BY <5>2, <5>3, <5>4
      <4>. QED
        BY <4>1 DEF ToldWithEnd
    <3>2. /\ phase' # "running" /\ phase' # "reaping" /\ n \in 0..Len(said')
          /\ Begins(received', ToldWithEnd(n)')
          /\ "out" \in unread' \/ OutChain(Len(received'), n + 1, pipe'["out"], outbox', ToldWithEnd(n)')
      BY <2>3, <3>1, <1>4, <1>5, <1>13, <1>17
    <3>. QED
      BY <3>2 DEF SaidArrives, ToldWithEnd
  <2>. QED
    BY <2>1, <2>2, <2>3, <1>1 DEF SaidArrives
<1>. QED
  BY <1>8, <1>9, <1>10, <1>11, <1>12, <1>14, <1>15, <1>18 DEF IInv

\* ServerWrites: a line of the log, or a unit of the answer.
LEMMA ServerWritesKeeps ==
  ASSUME IInv, ServerWrites
  PROVE  IInv'
<1>1. owed # <<>> /\ ServerOwes
  BY DEF ServerWrites, IInv
<1>2. CASE \E kind \in Kinds, m \in Nat : owed = RestTo("stdout", kind, m)
  BY <1>2, LostKeeps, SaysKeeps
<1>3. CASE \E log \in {1, 2}, u \in Units, m \in Nat : owed = Log(log, u, m)
  BY <1>3, LogKeeps
<1>. QED
  BY <1>1, <1>2, <1>3 DEF ServerOwes, Log

\* ServerCloses and ServerExits: what is said so far stays said.
LEMMA ServerEndsKeeps ==
  ASSUME IInv, ServerCloses \/ ServerExits
  PROVE  IInv'
<1>1. /\ PipesTyped /\ ClientTyped /\ ProxyTyped /\ ServerTyped
      /\ LoopWrites /\ ServerOwes
      /\ ServerUnderstands /\ ClientUnderstands /\ ProxyUnderstands
      /\ EndIsLast /\ SentArrives /\ SaidArrives
  BY Parts
<1>2. /\ UNCHANGED <<pipe, todo, clientReader, received, sent, readers, channel, outbox, phase,
                     serverReader, got, owed, said>>
      /\ unwritten' \in {unwritten, unwritten \cup {"stdout"}, unwritten \cup {"stdout", "stderr"}}
      /\ \/ exited' = exited /\ unread' = unread
         \/ exited' = TRUE /\ unread' = unread \cup {"stdin"}
  BY DEF ServerCloses, ServerExits, clientVars, proxyVars, serverVars
<1>3. exited \in BOOLEAN /\ got' \in Seq(Nat) /\ said' \in Seq(Nat)
  BY <1>1, <1>2 DEF ServerTyped
<1>4. exited' \in BOOLEAN /\ (exited => exited') /\ ("stdin" \in unread' => "stdin" \in unread \/ exited')
  <2>1. CASE exited' = exited /\ unread' = unread
    BY <2>1, <1>3, Zenon
  <2>2. CASE exited' = TRUE
    BY <2>2, Zenon
  <2>. QED
    BY <2>1, <2>2, <1>2
<1>5. unwritten \subseteq unwritten' /\ unread \subseteq unread' /\ ("out" \in unread' <=> "out" \in unread)
  BY <1>2
<1>6. PipesTyped'
  BY <1>1, <1>2 DEF PipesTyped, Pipe
<1>7. ServerTyped'
  BY <1>3, <1>4, Zenon DEF ServerTyped
<1>8. ClientTyped' /\ ProxyTyped' /\ LoopWrites' /\ ServerOwes'
  BY <1>1, <1>2, TypesKept, OutputKept
<1>9. /\ ServerUnderstands' /\ ClientUnderstands' /\ ProxyUnderstands'
      /\ EndIsLast' /\ SentArrives' /\ SaidArrives'
  BY <1>1, <1>2, <1>4, <1>5, ServerKept, ClientKept, ProxyKept, EndKept, SentKept, SaidKept
<1>. QED
  BY <1>6, <1>7, <1>8, <1>9 DEF IInv

--------------------------------------------------------------------------------
(* The theorems. *)

\* The invariant is kept by every step.
LEMMA NextIInv == IInv /\ [Next]_vars => IInv'
<1> SUFFICES ASSUME IInv, [Next]_vars PROVE IInv'
  OBVIOUS
<1>1. CASE ClientWrites
  BY <1>1, ClientWritesKeeps
<1>2. CASE ClientReads
  BY <1>2, ClientReadsKeeps
<1>3. CASE ClientCloses
  BY <1>3, ClientClosesKeeps
<1>4. CASE ClientReader
  BY <1>4, ClientReaderReadsKeeps, ClientReaderEndsKeeps DEF ClientReader
<1>5. CASE UpstreamReader
  BY <1>5, UpstreamReaderReadsKeeps, UpstreamReaderEndsKeeps DEF UpstreamReader
<1>6. CASE StderrRelay
  BY <1>6, StderrRelayKeeps
<1>7. CASE Loop
  BY <1>7, LoopKeeps
<1>8. CASE ServerReads
  BY <1>8, ServerReadsKeeps
<1>9. CASE ServerWrites
  BY <1>9, ServerWritesKeeps
<1>10. CASE ServerCloses \/ ServerExits
  BY <1>10, ServerEndsKeeps
<1>11. CASE UNCHANGED vars
  <2>1. /\ PipesTyped /\ ClientTyped /\ ProxyTyped /\ ServerTyped
        /\ LoopWrites /\ ServerOwes
        /\ ServerUnderstands /\ ClientUnderstands /\ ProxyUnderstands
        /\ EndIsLast /\ SentArrives /\ SaidArrives
    BY Parts
  <2>2. UNCHANGED <<pipe, unwritten, unread, todo, clientReader, received, sent, readers, channel,
                    outbox, phase, exited, serverReader, got, owed, said>>
    BY <1>11 DEF vars, clientVars, proxyVars, serverVars
  <2>3. PipesTyped' /\ ClientTyped' /\ ProxyTyped' /\ ServerTyped' /\ LoopWrites' /\ ServerOwes'
    BY <2>1, <2>2, TypesKept, OutputKept
  <2>4. /\ ServerUnderstands' /\ ClientUnderstands' /\ ProxyUnderstands'
        /\ EndIsLast' /\ SentArrives' /\ SaidArrives'
    BY <2>1, <2>2, ServerKept, ClientKept, ProxyKept, EndKept, SentKept, SaidKept
  <2>. QED
    BY <2>3, <2>4 DEF IInv
<1>. QED
  BY <1>1, <1>2, <1>3, <1>4, <1>5, <1>6, <1>7, <1>8, <1>9, <1>10, <1>11 DEF Next

\* Both ways through the proxy carry what was written, whole and in order, while the
\* proxy relays and when it stops on the end of the server's stdout, which is behind
\* all that the server said.  The way to the server is claimed as long as the server has
\* not exited; of a proxy whose poll found the exit, only that the client gets a beginning
\* of what the server said, and the error behind it.
THEOREM Invariant == Spec => []IInv
BY InitIInv, NextIInv, PTL DEF Spec

\* Each side reads whole messages of the other, in order, for every stream of the
\* client and every capacity of the pipes (read_message, deliver, run).
THEOREM ReadsWholeInOrder == Spec => []WholeInOrder
<1>1. IInv => WholeInOrder
  BY InvariantMeansOrder
<1>. QED
  BY <1>1, Invariant, PTL

\* What the server wrote before it closed its stdout is before the client when the
\* loop has come to that end and reaps the server (Event::UpstreamClosed, deliver).
THEOREM SpeaksItsLastWords == Spec => []LastWords
<1>1. IInv => LastWords
  BY InvariantMeansLastWords
<1>. QED
  BY <1>1, Invariant, PTL
==================================================================================
