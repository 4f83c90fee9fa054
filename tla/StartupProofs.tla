----------------------------- MODULE StartupProofs -----------------------------
(***************************************************************************)
(* Proofs about Startup, for all clients, servers and workspaces: what the      *)
(* handshake adds, which guarantees are given, and that coverage is promised of *)
(* one project only.                                                         *)
(***************************************************************************)
EXTENDS Startup, TLAPS, SequenceTheorems, FiniteSetTheorems, WellFoundedInduction

--------------------------------------------------------------------------------
(* Induction: a set of naturals has a least member, and what is passed on to    *)
(* the next number holds of all.                                              *)

\* A set of natural numbers that is not empty has a least member.
LEMMA LeastNatural ==
  ASSUME NEW T \in SUBSET Nat, T # {}
  PROVE  \E m \in T : \A n \in T : m <= n
<1> DEFINE R == OpToRel(<, Nat)
<1>1. \A x, y \in Nat : x < y => <<x, y>> \in R
  BY DEF OpToRel
<1>2. IsWellFoundedOn(R, Nat)
  BY NatLessThanWellFounded
<1> HIDE DEF R
<1>3. PICK m \in T : \A n \in T : ~ (<<n, m>> \in R)
  BY <1>2, WFMin, Zenon
<1>4. \A n \in T : ~ (n < m)
  BY <1>3, <1>1
<1>. QED
  BY <1>3, <1>4

\* What holds at 0 and is passed on up to last holds up to last.
LEMMA UpTo ==
  ASSUME NEW last \in Nat, NEW Good, 0 \in Good,
         \A n \in 0..(last - 1) : n \in Good => n + 1 \in Good
  PROVE  \A n \in 0..last : n \in Good
<1> SUFFICES ASSUME NEW b \in 0..last, b \notin Good PROVE FALSE
  OBVIOUS
<1> DEFINE Bad == {n \in 0..last : n \notin Good}
<1>1. Bad \in SUBSET Nat /\ Bad # {}
  OBVIOUS
<1>2. PICK m \in Bad : \A n \in Bad : m <= n
  BY <1>1, LeastNatural
<1>3. m # 0 /\ m - 1 \in 0..(last - 1)
  BY <1>2
<1>4. m - 1 \in Good
  BY <1>2, <1>3
<1>. QED
  BY <1>2, <1>3, <1>4

--------------------------------------------------------------------------------
(* Documents. *)

\* Two functions that start with the same and take the same steps are the same.
LEMMA LookupAlong ==
  ASSUME NEW node, NEW path, Len(path) \in Nat, NEW at,
         at = [n \in 0..Len(path) |-> at[n]],
         at[0] = node, \A n \in 1..Len(path) : at[n] = Get(at[n - 1], path[n])
  PROVE  Lookup(node, path) = at[Len(path)]
<1> DEFINE last == Len(path)
           Step(f) == f = [n \in 0..last |-> IF n = 0 THEN node ELSE Get(f[n - 1], path[n])]
<1>1. Step(at)
  <2>1. \A n \in 0..last : at[n] = IF n = 0 THEN node ELSE Get(at[n - 1], path[n])
    OBVIOUS
  <2>. QED
    BY <2>1
<1>2. ASSUME NEW f, Step(f) PROVE f[last] = at[last]
  <2> DEFINE Good == {n \in 0..last : f[n] = at[n]}
  <2>1. \A n \in 0..last : f[n] = IF n = 0 THEN node ELSE Get(f[n - 1], path[n])
    BY <1>2
  <2> HIDE DEF Step
  <2>2. 0 \in Good
    BY <2>1
  <2>3. ASSUME NEW n \in 0..(last - 1), n \in Good PROVE n + 1 \in Good
    <3>1. n + 1 \in 1..last /\ n + 1 \in 0..last /\ n + 1 - 1 = n
      OBVIOUS
    <3>2. f[n + 1] = Get(f[n], path[n + 1]) /\ at[n + 1] = Get(at[n], path[n + 1]) /\ f[n] = at[n]
      BY <3>1, <2>1, <2>3
    <3>. QED
      BY <3>1, <3>2
  <2> HIDE DEF Good
  <2>4. \A n \in 0..last : n \in Good
    BY <2>2, <2>3, UpTo
  <2>. QED
    BY <2>4 DEF Good
<1>3. Lookup(node, path) = (CHOOSE f : Step(f))[last]
  BY DEF Lookup
<1>4. Step(CHOOSE f : Step(f))
  <2> HIDE DEF Step
  <2>. QED
    BY <1>1
<1>. QED
  BY <1>2, <1>3, <1>4

\* A path step by step.
LEMMA LookupNone ==
  ASSUME NEW node
  PROVE  Lookup(node, <<>>) = node
<1> DEFINE path == <<>>
           at == [n \in 0..Len(path) |-> node]
<1>1. Len(path) = 0 /\ Len(path) \in Nat
  OBVIOUS
<1>2. at[0] = node /\ at[Len(path)] = node
  BY <1>1
<1>3. \A n \in 1..Len(path) : at[n] = Get(at[n - 1], path[n])
  BY <1>1
<1>4. at = [n \in 0..Len(path) |-> at[n]]
  OBVIOUS
<1> HIDE DEF at, path
<1>5. Lookup(node, path) = at[Len(path)]
  BY <1>1, <1>2, <1>3, <1>4, LookupAlong
<1>. QED
  BY <1>2, <1>5 DEF path

LEMMA LookupOne ==
  ASSUME NEW node, NEW a
  PROVE  Lookup(node, <<a>>) = Get(node, a)
<1> DEFINE path == <<a>>
           at == [n \in 0..Len(path) |-> IF n = 0 THEN node ELSE Get(node, a)]
<1>1. Len(path) = 1 /\ Len(path) \in Nat
  OBVIOUS
<1>2. at[0] = node /\ at[Len(path)] = Get(node, a)
  BY <1>1
<1>3. \A n \in 1..Len(path) : at[n] = Get(at[n - 1], path[n])
  BY <1>1
<1>4. at = [n \in 0..Len(path) |-> at[n]]
  OBVIOUS
<1> HIDE DEF at, path
<1>5. Lookup(node, path) = at[Len(path)]
  BY <1>1, <1>2, <1>3, <1>4, LookupAlong
<1>. QED
  BY <1>2, <1>5 DEF path

LEMMA LookupTwo ==
  ASSUME NEW node, NEW a, NEW b
  PROVE  Lookup(node, <<a, b>>) = Get(Get(node, a), b)
<1> DEFINE path == <<a, b>>
           at == [n \in 0..Len(path) |-> IF n = 0 THEN node ELSE IF n = 1 THEN Get(node, a) ELSE Get(Get(node, a), b)]
<1>1. Len(path) = 2 /\ Len(path) \in Nat
  OBVIOUS
<1>2. at[0] = node /\ at[Len(path)] = Get(Get(node, a), b)
  BY <1>1
<1>3. \A n \in 1..Len(path) : at[n] = Get(at[n - 1], path[n])
  BY <1>1
<1>4. at = [n \in 0..Len(path) |-> at[n]]
  OBVIOUS
<1> HIDE DEF at, path
<1>5. Lookup(node, path) = at[Len(path)]
  BY <1>1, <1>2, <1>3, <1>4, LookupAlong
<1>. QED
  BY <1>2, <1>5 DEF path

LEMMA LookupThree ==
  ASSUME NEW node, NEW a, NEW b, NEW c
  PROVE  Lookup(node, <<a, b, c>>) = Get(Get(Get(node, a), b), c)
<1> DEFINE path == <<a, b, c>>
           at == [n \in 0..Len(path) |-> IF n = 0 THEN node ELSE IF n = 1 THEN Get(node, a)
                                         ELSE IF n = 2 THEN Get(Get(node, a), b) ELSE Get(Get(Get(node, a), b), c)]
<1>1. Len(path) = 3 /\ Len(path) \in Nat
  OBVIOUS
<1>2. at[0] = node /\ at[Len(path)] = Get(Get(Get(node, a), b), c)
  BY <1>1
<1>3. \A n \in 1..Len(path) : at[n] = Get(at[n - 1], path[n])
  BY <1>1
<1>4. at = [n \in 0..Len(path) |-> at[n]]
  OBVIOUS
<1> HIDE DEF at, path
<1>5. Lookup(node, path) = at[Len(path)]
  BY <1>1, <1>2, <1>3, <1>4, LookupAlong
<1>. QED
  BY <1>2, <1>5 DEF path

LEMMA LookupFive ==
  ASSUME NEW node, NEW a, NEW b, NEW c, NEW d, NEW e
  PROVE  Lookup(node, <<a, b, c, d, e>>) = Get(Get(Get(Get(Get(node, a), b), c), d), e)
<1> DEFINE path == <<a, b, c, d, e>>
           two == Get(Get(node, a), b)
           at == [n \in 0..Len(path) |-> IF n = 0 THEN node ELSE IF n = 1 THEN Get(node, a) ELSE IF n = 2 THEN two
                                         ELSE IF n = 3 THEN Get(two, c) ELSE IF n = 4 THEN Get(Get(two, c), d)
                                         ELSE Get(Get(Get(two, c), d), e)]
<1>1. Len(path) = 5 /\ Len(path) \in Nat
  OBVIOUS
<1>2. at[0] = node /\ at[Len(path)] = Get(Get(Get(Get(Get(node, a), b), c), d), e)
  BY <1>1
<1>3. \A n \in 1..Len(path) : at[n] = Get(at[n - 1], path[n])
  BY <1>1
<1>4. at = [n \in 0..Len(path) |-> at[n]]
  OBVIOUS
<1> HIDE DEF at, path
<1>5. Lookup(node, path) = at[Len(path)]
  BY <1>1, <1>2, <1>3, <1>4, LookupAlong
<1>. QED
  BY <1>2, <1>5 DEF path

\* A field that is written is there, and the others stay.
LEMMA WithHas ==
  ASSUME NEW object, NEW key, NEW node
  PROVE  /\ IsObject(With(object, key, node))
         /\ Get(With(object, key, node), key) = node
         /\ DOMAIN With(object, key, node).fields = DOMAIN object.fields \cup {key}
         /\ IsObject(object) => \A other : other # key => Get(With(object, key, node), other) = Get(object, other)
BY DEF Get, With, IsObject, Object, Put

\* An entry is the field there is, or an empty object.
LEMMA EntryIs ==
  ASSUME NEW object, IsObject(object), NEW key
  PROVE  \/ key \in DOMAIN object.fields /\ Entry(object, key) = Get(object, key)
         \/ key \notin DOMAIN object.fields /\ Entry(object, key) = Empty /\ Get(object, key) = Absent
BY DEF Entry, Get

\* Nothing is found in what is no object, nor in an empty one.
LEMMA NothingIn ==
  ASSUME NEW node, ~IsObject(node) \/ node = Empty, NEW key
  PROVE  Get(node, key) = Absent
<1>1. DOMAIN Empty.fields = {}
  BY DEF Empty, Object
<1>. QED
  BY <1>1 DEF Get

LEMMA AbsentIs == ~IsObject(Absent) /\ Absent.kind = "absent" /\ DOMAIN Absent.fields = {} /\ ~IsObject(True)
BY DEF Absent, Leaf, IsObject, True

\* What an entry is after a field was written.
LEMMA EntryWith ==
  ASSUME NEW object, NEW key, NEW node
  PROVE  /\ Entry(With(object, key, node), key) = node
         /\ \A other : other # key => Entry(With(object, key, node), other) = Entry(object, other)
BY DEF Entry, With, Object, Put

\* A flag is set below an object, or nothing is done.
LEMMA SetTrueSets ==
  ASSUME NEW object, IsObject(object), NEW path, NEW parent, parent = Entry(object, path[1])
  PROVE  /\ IsObject(SetTrue(object, path))
         /\ \A other : other # path[1] =>
              /\ Get(SetTrue(object, path), other) = Get(object, other)
              /\ Entry(SetTrue(object, path), other) = Entry(object, other)
         /\ IsObject(parent) =>
              /\ Get(SetTrue(object, path), path[1]) = With(parent, path[2], True)
              /\ Entry(SetTrue(object, path), path[1]) = With(parent, path[2], True)
         /\ ~IsObject(parent) => SetTrue(object, path) = object
<1>1. CASE IsObject(parent)
  <2>1. SetTrue(object, path) = With(object, path[1], With(parent, path[2], True))
    BY <1>1 DEF SetTrue
  <2>. QED
    BY <1>1, <2>1, WithHas, EntryWith
<1>2. CASE ~IsObject(parent)
  BY <1>2 DEF SetTrue
<1>. QED
  BY <1>1, <1>2

\* Three flags are set one after the other.
LEMMA SetsThree ==
  ASSUME NEW object, NEW paths, Len(paths) = 3
  PROVE  SetAllTrue(object, paths) = SetTrue(SetTrue(SetTrue(object, paths[1]), paths[2]), paths[3])
<1> DEFINE one == SetTrue(object, paths[1])
           two == SetTrue(one, paths[2])
           three == SetTrue(two, paths[3])
           Step(f) == f = [n \in 0..Len(paths) |-> IF n = 0 THEN object ELSE SetTrue(f[n - 1], paths[n])]
           set == [n \in 0..Len(paths) |-> IF n = 0 THEN object ELSE IF n = 1 THEN one ELSE IF n = 2 THEN two ELSE three]
<1>1. Step(set)
  <2>1. ASSUME NEW n \in 0..Len(paths)
        PROVE  set[n] = IF n = 0 THEN object ELSE SetTrue(set[n - 1], paths[n])
    <3>1. n = 0 \/ n = 1 \/ n = 2 \/ n = 3
      OBVIOUS
    <3>. QED
      BY <3>1
  <2>2. set = [n \in 0..Len(paths) |-> set[n]]
    OBVIOUS
  <2> HIDE DEF set
  <2>. QED
    BY <2>1, <2>2
<1>2. ASSUME NEW f, Step(f) PROVE f[3] = three
  <2>1. f[0] = object /\ f[1] = SetTrue(f[0], paths[1])
    BY <1>2
  <2>2. f[2] = SetTrue(f[1], paths[2]) /\ f[3] = SetTrue(f[2], paths[3])
    BY <1>2
  <2>. QED
    BY <2>1, <2>2
<1>3. SetAllTrue(object, paths) = (CHOOSE f : Step(f))[3]
  BY DEF SetAllTrue
<1>4. Step(CHOOSE f : Step(f))
  <2> HIDE DEF Step
  <2>. QED
    BY <1>1
<1>. QED
  BY <1>2, <1>3, <1>4

Flags == Append(ClientCapabilitiesForAllMappings, ServerStateClientCapability)

\* The flags that a client gets: two are experimental, one is of its window.
LEMMA FlagsAre ==
  /\ Len(Flags) = 3
  /\ Flags[1][1] = "experimental" /\ Flags[1][2] = "serverStatusNotification"
  /\ Flags[2][1] = "window" /\ Flags[2][2] = "workDoneProgress"
  /\ Flags[3][1] = "experimental" /\ Flags[3][2] = "serverState"
<1> DEFINE all == ClientCapabilitiesForAllMappings
<1>1. all = <<<<"experimental", "serverStatusNotification">>, <<"window", "workDoneProgress">>>>
  BY DEF ClientCapabilitiesForAllMappings
<1>2. Len(all) = 2 /\ all \in Seq({all[1], all[2]})
  BY <1>1
<1>3. all[1] = <<"experimental", "serverStatusNotification">> /\ all[2] = <<"window", "workDoneProgress">>
  BY <1>1
<1> HIDE DEF all
<1> DEFINE S == {all[1], all[2], ServerStateClientCapability}
<1>4. all \in Seq(S) /\ ServerStateClientCapability \in S
  BY <1>2
<1>5. Flags = Append(all, ServerStateClientCapability)
  BY DEF Flags, all
<1> HIDE DEF S
<1>6. /\ Len(Flags) = 3 /\ Flags[3] = ServerStateClientCapability
      /\ Flags[1] = all[1] /\ Flags[2] = all[2]
  BY <1>2, <1>4, <1>5, AppendProperties
<1>. QED
  BY <1>3, <1>6 DEF ServerStateClientCapability

\* What the capabilities become.
LEMMA CapabilitiesBecome ==
  ASSUME NEW old, IsObject(old), NEW new, new = SetAllTrue(old, Flags),
         NEW e, e = Entry(old, "experimental"), NEW w, w = Entry(old, "window")
  PROVE  /\ IsObject(new)
         /\ \A key : key \notin {"experimental", "window"} => Get(new, key) = Get(old, key)
         /\ IsObject(e) => Get(new, "experimental") =
              With(With(e, "serverStatusNotification", True), "serverState", True)
         /\ ~IsObject(e) => Get(new, "experimental") = Get(old, "experimental")
         /\ IsObject(w) => Get(new, "window") = With(w, "workDoneProgress", True)
         /\ ~IsObject(w) => Get(new, "window") = Get(old, "window")
<1> DEFINE one == SetTrue(old, Flags[1])
           two == SetTrue(one, Flags[2])
<1>1. new = SetTrue(two, Flags[3])
  BY SetsThree, FlagsAre
<1>2. /\ IsObject(one)
      /\ \A key : key # "experimental" => Get(one, key) = Get(old, key) /\ Entry(one, key) = Entry(old, key)
      /\ IsObject(e) => Entry(one, "experimental") = With(e, "serverStatusNotification", True)
      /\ ~IsObject(e) => one = old
  BY SetTrueSets, FlagsAre
<1>3. /\ IsObject(two)
      /\ \A key : key # "window" => Get(two, key) = Get(one, key) /\ Entry(two, key) = Entry(one, key)
      /\ IsObject(w) => Get(two, "window") = With(w, "workDoneProgress", True)
      /\ ~IsObject(w) => two = one
  <2>1. Entry(one, "window") = w
    BY <1>2
  <2>. QED
    BY <1>2, <2>1, SetTrueSets, FlagsAre
<1> HIDE DEF one, two
<1>4. Entry(two, "experimental") = IF IsObject(e) THEN With(e, "serverStatusNotification", True) ELSE e
  BY <1>2, <1>3
<1>5. /\ IsObject(new)
      /\ \A key : key # "experimental" => Get(new, key) = Get(two, key)
      /\ IsObject(e) => Get(new, "experimental") =
           With(With(e, "serverStatusNotification", True), "serverState", True)
      /\ ~IsObject(e) => new = two
  BY <1>1, <1>3, <1>4, SetTrueSets, FlagsAre, WithHas
<1>. QED
  BY <1>2, <1>3, <1>5

\* What the client's initialize becomes.
LEMMA RequestBecomes ==
  ASSUME NEW params, IsObject(params), NEW command, NEW new, new = ToUpstream(params, command),
         NEW caps, caps = Entry(params, "capabilities"),
         NEW chosen, chosen = InitializationOptionsForCommand(UpstreamCommandBasename(command)),
         NEW written, written = Entry(params, "initializationOptions")
  PROVE  /\ IsObject(new)
         /\ \A key : key \notin {"capabilities", "initializationOptions"} => Get(new, key) = Get(params, key)
         /\ IsObject(caps) => Get(new, "capabilities") = SetAllTrue(caps, Flags)
         /\ ~IsObject(caps) => Get(new, "capabilities") = Get(params, "capabilities")
         /\ chosen # {} /\ IsObject(written) =>
              Get(new, "initializationOptions") =
                Object([key \in DOMAIN written.fields \cup chosen |->
                          IF key \in chosen THEN True ELSE written.fields[key]])
         /\ chosen = {} \/ ~IsObject(written) =>
              Get(new, "initializationOptions") = Get(params, "initializationOptions")
<1> DEFINE inner == InjectClientCapabilities(params, Flags)
<1>1. /\ IsObject(inner)
      /\ \A key : key # "capabilities" => Get(inner, key) = Get(params, key) /\ Entry(inner, key) = Entry(params, key)
      /\ IsObject(caps) => Get(inner, "capabilities") = SetAllTrue(caps, Flags)
      /\ ~IsObject(caps) => inner = params
  <2>1. CASE IsObject(caps)
    <3>1. inner = With(params, "capabilities", SetAllTrue(caps, Flags))
      BY <2>1 DEF InjectClientCapabilities
    <3>. QED
      BY <2>1, <3>1, WithHas, EntryWith
  <2>2. CASE ~IsObject(caps)
    BY <2>2 DEF InjectClientCapabilities
  <2>. QED
    BY <2>1, <2>2
<1>2. new = InjectInitializationOptions(inner, chosen)
  BY DEF ToUpstream, Flags
<1> HIDE DEF inner
<1>3. Entry(inner, "initializationOptions") = written
  BY <1>1
<1>4. CASE chosen # {} /\ IsObject(written)
  <2> DEFINE more == Object([key \in DOMAIN written.fields \cup chosen |->
                               IF key \in chosen THEN True ELSE written.fields[key]])
  <2>1. new = With(inner, "initializationOptions", more)
    BY <1>2, <1>3, <1>4 DEF InjectInitializationOptions
  <2> HIDE DEF more
  <2>2. /\ IsObject(new) /\ Get(new, "initializationOptions") = more
        /\ \A key : key # "initializationOptions" => Get(new, key) = Get(inner, key)
    BY <2>1, <1>1, WithHas
  <2>. QED
    BY <1>1, <1>4, <2>2 DEF more
<1>5. CASE chosen = {} \/ ~IsObject(written)
  <2>1. new = inner
    BY <1>2, <1>3, <1>5 DEF InjectInitializationOptions
  <2>. QED
    BY <1>1, <1>5, <2>1
<1>. QED
  BY <1>4, <1>5

\* The beginnings of short paths.
LEMMA Starts ==
  ASSUME NEW a, NEW b
  PROVE  /\ Len(<<a, b>>) = 2 /\ SubSeq(<<a, b>>, 1, 0) = <<>> /\ SubSeq(<<a, b>>, 1, 1) = <<a>>
         /\ \A c : /\ Len(<<a, b, c>>) = 3
                   /\ SubSeq(<<a, b, c>>, 1, 0) = <<>>
                   /\ SubSeq(<<a, b, c>>, 1, 1) = <<a>>
                   /\ SubSeq(<<a, b, c>>, 1, 2) = <<a, b>>
<1>1. SubSeq(<<a, b>>, 1, 1) = <<a>>
  <2> DEFINE s == SubSeq(<<a, b>>, 1, 1)
             t == <<a>>
             S == {a, b}
  <2>1. s \in Seq(S) /\ Len(s) = 1 /\ s[1] = a
    OBVIOUS
  <2>2. t \in Seq(S) /\ Len(t) = 1 /\ t[1] = a
    OBVIOUS
  <2>3. s = t
    <3> HIDE DEF s, t, S
    <3>1. \A i \in 1..Len(s) : s[i] = t[i]
      BY <2>1, <2>2
    <3>. QED
      BY <3>1, <2>1, <2>2, SeqEqual
  <2>. QED
    BY <2>3
<1>2. ASSUME NEW c PROVE SubSeq(<<a, b, c>>, 1, 1) = <<a>>
  <2> DEFINE s == SubSeq(<<a, b, c>>, 1, 1)
             t == <<a>>
             S == {a, b, c}
  <2>1. s \in Seq(S) /\ Len(s) = 1 /\ s[1] = a
    OBVIOUS
  <2>2. t \in Seq(S) /\ Len(t) = 1 /\ t[1] = a
    OBVIOUS
  <2>3. s = t
    <3> HIDE DEF s, t, S
    <3>1. \A i \in 1..Len(s) : s[i] = t[i]
      BY <2>1, <2>2
    <3>. QED
      BY <3>1, <2>1, <2>2, SeqEqual
  <2>. QED
    BY <2>3
<1>3. ASSUME NEW c PROVE SubSeq(<<a, b, c>>, 1, 2) = <<a, b>>
  <2> DEFINE s == SubSeq(<<a, b, c>>, 1, 2)
             t == <<a, b>>
             S == {a, b, c}
  <2>1. s \in Seq(S) /\ Len(s) = 2 /\ s[1] = a /\ s[2] = b
    OBVIOUS
  <2>2. t \in Seq(S) /\ Len(t) = 2 /\ t[1] = a /\ t[2] = b
    OBVIOUS
  <2>3. s = t
    <3> HIDE DEF s, t, S
    <3>1. \A i \in 1..Len(s) : s[i] = t[i]
      BY <2>1, <2>2
    <3>. QED
      BY <3>1, <2>1, <2>2, SeqEqual
  <2>. QED
    BY <2>3
<1>. QED
  BY <1>1, <1>2, <1>3

\* An entry that is an object, or is made, differs only where it is written.
LEMMA EntryKeeps ==
  ASSUME NEW object, IsObject(object), NEW key, NEW old, old = Get(object, key), NEW entry, entry = Entry(object, key),
         IsObject(entry)
  PROVE  /\ old.kind \in {"object", "absent", "null"}
         /\ DOMAIN old.fields = DOMAIN entry.fields
         /\ \A other : Get(entry, other) = Get(old, other)
<1>1. CASE entry = old
  BY <1>1 DEF IsObject
<1>2. CASE entry = Empty /\ old = Absent
  BY <1>2, NothingIn, AbsentIs DEF Empty, Object
<1>. QED
  BY <1>1, <1>2, EntryIs

\* What differs only in some fields differs only in more.
LEMMA SameButMore ==
  ASSUME NEW old, NEW new, NEW keys, NEW more, SameBut(old, new, keys), keys \subseteq more
  PROVE  SameBut(old, new, more)
BY DEF SameBut

\* At each level of the client's initialize only what is opted in is new.
LEMMA RequestLevels ==
  ASSUME NEW params, IsObject(params), NEW command, NEW new, new = ToUpstream(params, command),
         NEW chosen, chosen = InitializationOptionsForCommand(UpstreamCommandBasename(command)),
         NEW top, top = {"capabilities"} \cup (IF chosen = {} THEN {} ELSE {"initializationOptions"})
  PROVE  /\ SameBut(params, new, top)
         /\ SameBut(Get(params, "capabilities"), Get(new, "capabilities"), {"experimental", "window"})
         /\ SameBut(Get(Get(params, "capabilities"), "experimental"), Get(Get(new, "capabilities"), "experimental"),
                    {"serverStatusNotification", "serverState"})
         /\ SameBut(Get(Get(params, "capabilities"), "window"), Get(Get(new, "capabilities"), "window"),
                    {"workDoneProgress"})
         /\ SameBut(Get(params, "initializationOptions"), Get(new, "initializationOptions"), chosen)
<1> DEFINE caps == Entry(params, "capabilities")
           was == Get(params, "capabilities")
           is == Get(new, "capabilities")
           written == Entry(params, "initializationOptions")
           e == Entry(caps, "experimental")
           w == Entry(caps, "window")
<1>1. /\ IsObject(new)
      /\ \A key : key \notin {"capabilities", "initializationOptions"} => Get(new, key) = Get(params, key)
      /\ IsObject(caps) => is = SetAllTrue(caps, Flags)
      /\ ~IsObject(caps) => is = was
      /\ chosen # {} /\ IsObject(written) =>
           Get(new, "initializationOptions") =
             Object([key \in DOMAIN written.fields \cup chosen |->
                       IF key \in chosen THEN True ELSE written.fields[key]])
      /\ chosen = {} \/ ~IsObject(written) =>
           Get(new, "initializationOptions") = Get(params, "initializationOptions")
  BY RequestBecomes
<1>2. SameBut(params, new, top)
  BY <1>1 DEF SameBut, IsObject
<1>3. IsObject(caps) =>
        /\ IsObject(is)
        /\ \A key : key \notin {"experimental", "window"} => Get(is, key) = Get(caps, key)
        /\ IsObject(e) => Get(is, "experimental") =
             With(With(e, "serverStatusNotification", True), "serverState", True)
        /\ ~IsObject(e) => Get(is, "experimental") = Get(caps, "experimental")
        /\ IsObject(w) => Get(is, "window") = With(w, "workDoneProgress", True)
        /\ ~IsObject(w) => Get(is, "window") = Get(caps, "window")
  <2> SUFFICES ASSUME IsObject(caps) PROVE <1>3!2
    OBVIOUS
  <2> HIDE DEF caps, is
  <2>1. is = SetAllTrue(caps, Flags)
    BY <1>1
  <2>. QED
    BY <2>1, CapabilitiesBecome
<1>4. IsObject(caps) =>
        /\ was.kind \in {"object", "absent", "null"}
        /\ \A other : Get(caps, other) = Get(was, other)
  BY EntryKeeps
<1>5. SameBut(was, is, {"experimental", "window"})
  <2> HIDE DEF caps, was, is
  <2>. QED
    BY <1>1, <1>3, <1>4 DEF SameBut
<1>6. SameBut(Get(was, "experimental"), Get(is, "experimental"), {"serverStatusNotification", "serverState"})
  <2>1. CASE IsObject(caps) /\ IsObject(e)
    <3> DEFINE old == Get(caps, "experimental")
               more == With(e, "serverStatusNotification", True)
               all == With(more, "serverState", True)
    <3>1. /\ old.kind \in {"object", "absent", "null"}
          /\ \A other : Get(e, other) = Get(old, other)
      BY <2>1, EntryKeeps
    <3>2. IsObject(all) /\ \A other : other \notin {"serverStatusNotification", "serverState"} =>
                                  Get(all, other) = Get(e, other)
      BY <2>1, WithHas
    <3>3. Get(is, "experimental") = all /\ Get(was, "experimental") = old
      BY <2>1, <1>3, <1>4
    <3> HIDE DEF old, all, e, was, is
    <3>. QED
      BY <3>1, <3>2, <3>3 DEF SameBut
  <2>2. CASE ~IsObject(caps) \/ ~IsObject(e)
    <3>1. Get(is, "experimental") = Get(was, "experimental")
      BY <2>2, <1>1, <1>3, <1>4
    <3>. QED
      BY <3>1 DEF SameBut
  <2>. QED
    BY <2>1, <2>2
<1>7. SameBut(Get(was, "window"), Get(is, "window"), {"workDoneProgress"})
  <2>1. CASE IsObject(caps) /\ IsObject(w)
    <3> DEFINE old == Get(caps, "window")
               all == With(w, "workDoneProgress", True)
    <3>1. /\ old.kind \in {"object", "absent", "null"}
          /\ \A other : Get(w, other) = Get(old, other)
      BY <2>1, EntryKeeps
    <3>2. IsObject(all) /\ \A other : other # "workDoneProgress" => Get(all, other) = Get(w, other)
      BY <2>1, WithHas
    <3>3. Get(is, "window") = all /\ Get(was, "window") = old
      BY <2>1, <1>3, <1>4
    <3> HIDE DEF old, all, w, was, is
    <3>. QED
      BY <3>1, <3>2, <3>3 DEF SameBut
  <2>2. CASE ~IsObject(caps) \/ ~IsObject(w)
    <3>1. Get(is, "window") = Get(was, "window")
      BY <2>2, <1>1, <1>3, <1>4
    <3>. QED
      BY <3>1 DEF SameBut
  <2>. QED
    BY <2>1, <2>2
<1>8. SameBut(Get(params, "initializationOptions"), Get(new, "initializationOptions"), chosen)
  <2>1. CASE chosen # {} /\ IsObject(written)
    <3> DEFINE old == Get(params, "initializationOptions")
               all == Get(new, "initializationOptions")
    <3>1. /\ old.kind \in {"object", "absent", "null"}
          /\ DOMAIN old.fields = DOMAIN written.fields
          /\ \A other : Get(written, other) = Get(old, other)
      BY <2>1, EntryKeeps
    <3>2. all = Object([key \in DOMAIN written.fields \cup chosen |->
                          IF key \in chosen THEN True ELSE written.fields[key]])
      BY <1>1, <2>1
    <3>3. IsObject(all) /\ \A other : other \notin chosen => Get(all, other) = Get(written, other)
      BY <3>2, <2>1 DEF Object, IsObject, Get
    <3> HIDE DEF old, all, written
    <3>4. SameBut(old, all, chosen)
      BY <3>1, <3>3 DEF SameBut
    <3>. QED
      BY <3>4 DEF old, all
  <2>2. CASE chosen = {} \/ ~IsObject(written)
    BY <2>2, <1>1 DEF SameBut
  <2>. QED
    BY <2>1, <2>2
<1>. QED
  BY <1>2, <1>5, <1>6, <1>7, <1>8

\* Every opt-in that has a place in the client's initialize is there in the end.
LEMMA RequestOptsIn ==
  ASSUME NEW params, IsObject(params), HasValues(params), HasValues(Get(params, "capabilities")),
         NEW command, NEW new, new = ToUpstream(params, command),
         NEW chosen, chosen = InitializationOptionsForCommand(UpstreamCommandBasename(command))
  PROVE  /\ (/\ Get(params, "capabilities").kind \in {"object", "absent"}
             /\ Get(Get(params, "capabilities"), "experimental").kind \in {"object", "absent"}) =>
              /\ Get(Get(Get(new, "capabilities"), "experimental"), "serverStatusNotification") = True
              /\ Get(Get(Get(new, "capabilities"), "experimental"), "serverState") = True
         /\ (/\ Get(params, "capabilities").kind \in {"object", "absent"}
             /\ Get(Get(params, "capabilities"), "window").kind \in {"object", "absent"}) =>
              Get(Get(Get(new, "capabilities"), "window"), "workDoneProgress") = True
         /\ Get(params, "initializationOptions").kind \in {"object", "absent"} =>
              \A o \in chosen : Get(Get(new, "initializationOptions"), o) = True
<1> DEFINE caps == Entry(params, "capabilities")
           was == Get(params, "capabilities")
           is == Get(new, "capabilities")
           written == Entry(params, "initializationOptions")
           e == Entry(caps, "experimental")
           w == Entry(caps, "window")
<1>1. /\ IsObject(caps) => is = SetAllTrue(caps, Flags)
      /\ chosen # {} /\ IsObject(written) =>
           Get(new, "initializationOptions") =
             Object([key \in DOMAIN written.fields \cup chosen |->
                       IF key \in chosen THEN True ELSE written.fields[key]])
  BY RequestBecomes
<1>2. ASSUME NEW object, IsObject(object), HasValues(object), NEW key, Get(object, key).kind \in {"object", "absent"}
      PROVE  IsObject(Entry(object, key)) /\ (HasValues(Get(object, key)) => HasValues(Entry(object, key)))
  <2>1. \/ Entry(object, key) = Get(object, key) /\ IsObject(Get(object, key))
        \/ Entry(object, key) = Empty /\ Get(object, key) = Absent
    BY <1>2, EntryIs DEF HasValues, Get, IsObject
  <2>2. IsObject(Empty) /\ HasValues(Empty) /\ HasValues(Absent)
    BY DEF Empty, Object, IsObject, HasValues, Absent, Leaf
  <2>. QED
    BY <2>1, <2>2
<1>3. was.kind \in {"object", "absent"} => IsObject(caps) /\ HasValues(caps) /\ \A key : Get(caps, key) = Get(was, key)
  <2>1. IsObject(caps) => \A key : Get(caps, key) = Get(was, key)
    BY EntryKeeps
  <2>2. was.kind \in {"object", "absent"} => IsObject(caps) /\ (HasValues(was) => HasValues(caps))
    <3> HIDE DEF caps
    <3>. QED
      BY <1>2 DEF caps
  <2>3. HasValues(was)
    OBVIOUS
  <2>. QED
    BY <2>1, <2>2, <2>3
<1>4. ASSUME was.kind \in {"object", "absent"}
      PROVE  /\ IsObject(e) => Get(is, "experimental") =
                  With(With(e, "serverStatusNotification", True), "serverState", True)
             /\ IsObject(w) => Get(is, "window") = With(w, "workDoneProgress", True)
             /\ Get(was, "experimental").kind \in {"object", "absent"} => IsObject(e)
             /\ Get(was, "window").kind \in {"object", "absent"} => IsObject(w)
  <2> HIDE DEF caps, was, is
  <2>1. is = SetAllTrue(caps, Flags) /\ IsObject(caps) /\ HasValues(caps)
    BY <1>1, <1>3, <1>4
  <2>2. \A key : Get(caps, key) = Get(was, key)
    BY <1>3, <1>4
  <2>3. /\ IsObject(e) => Get(is, "experimental") =
             With(With(e, "serverStatusNotification", True), "serverState", True)
        /\ IsObject(w) => Get(is, "window") = With(w, "workDoneProgress", True)
    BY <2>1, CapabilitiesBecome
  <2>. QED
    BY <2>1, <2>2, <2>3, <1>2
<1>5. /\ Get(With(With(e, "serverStatusNotification", True), "serverState", True), "serverStatusNotification") = True
      /\ Get(With(With(e, "serverStatusNotification", True), "serverState", True), "serverState") = True
      /\ Get(With(w, "workDoneProgress", True), "workDoneProgress") = True
  <2> HIDE DEF e, w
  <2>. QED
    BY WithHas
<1>6. Get(params, "initializationOptions").kind \in {"object", "absent"} =>
        \A o \in chosen : Get(Get(new, "initializationOptions"), o) = True
  <2> SUFFICES ASSUME Get(params, "initializationOptions").kind \in {"object", "absent"}, NEW o \in chosen
               PROVE  Get(Get(new, "initializationOptions"), o) = True
    OBVIOUS
  <2>1. IsObject(written)
    BY <1>2
  <2>2. Get(new, "initializationOptions") =
          Object([key \in DOMAIN written.fields \cup chosen |-> IF key \in chosen THEN True ELSE written.fields[key]])
    BY <1>1, <2>1
  <2>. QED
    BY <2>2 DEF Object, Get, IsObject
<1>. QED
  BY <1>4, <1>5, <1>6

\* The ways to the opt-ins, and the opt-ins.
Root == <<>>
InCapabilities == <<"capabilities">>
InExperimental == <<"capabilities", "experimental">>
InWindow == <<"capabilities", "window">>
InOptions == <<"initializationOptions">>
Status == <<"capabilities", "experimental", "serverStatusNotification">>
WorkDone == <<"capabilities", "window", "workDoneProgress">>
State == <<"capabilities", "experimental", "serverState">>
Declaration == <<"capabilities", "experimental", "serverStateProvider">>
Option(o) == <<"initializationOptions", o>>

\* A path of three keys, and of two.
LEMMA ThreeKeys ==
  ASSUME NEW a, NEW b, NEW c, NEW path, path = <<a, b, c>>
  PROVE  /\ Len(path) = 3 /\ path[1] = a /\ path[2] = b /\ path[3] = c
         /\ SubSeq(path, 1, 0) = <<>> /\ SubSeq(path, 1, 1) = <<a>> /\ SubSeq(path, 1, 2) = <<a, b>>
<1>1. /\ Len(<<a, b, c>>) = 3 /\ SubSeq(<<a, b, c>>, 1, 0) = <<>>
      /\ SubSeq(<<a, b, c>>, 1, 1) = <<a>> /\ SubSeq(<<a, b, c>>, 1, 2) = <<a, b>>
  BY Starts
<1>2. path[1] = a /\ path[2] = b /\ path[3] = c
  OBVIOUS
<1>. QED
  BY <1>1, <1>2

LEMMA TwoKeys ==
  ASSUME NEW a, NEW b, NEW path, path = <<a, b>>
  PROVE  /\ Len(path) = 2 /\ path[1] = a /\ path[2] = b
         /\ SubSeq(path, 1, 0) = <<>> /\ SubSeq(path, 1, 1) = <<a>>
<1>1. Len(<<a, b>>) = 2 /\ SubSeq(<<a, b>>, 1, 0) = <<>> /\ SubSeq(<<a, b>>, 1, 1) = <<a>>
  BY Starts
<1>2. path[1] = a /\ path[2] = b
  OBVIOUS
<1>. QED
  BY <1>1, <1>2

LEMMA StatusIs ==
  /\ Len(Status) = 3 /\ SubSeq(Status, 1, 0) = Root /\ SubSeq(Status, 1, 1) = InCapabilities
  /\ SubSeq(Status, 1, 2) = InExperimental
  /\ Status[1] = "capabilities" /\ Status[2] = "experimental" /\ Status[3] = "serverStatusNotification"
BY ThreeKeys DEF Status, Root, InCapabilities, InExperimental

LEMMA WorkDoneIs ==
  /\ Len(WorkDone) = 3 /\ SubSeq(WorkDone, 1, 0) = Root /\ SubSeq(WorkDone, 1, 1) = InCapabilities
  /\ SubSeq(WorkDone, 1, 2) = InWindow
  /\ WorkDone[1] = "capabilities" /\ WorkDone[2] = "window" /\ WorkDone[3] = "workDoneProgress"
BY ThreeKeys DEF WorkDone, Root, InCapabilities, InWindow

LEMMA StateIs ==
  /\ Len(State) = 3 /\ SubSeq(State, 1, 0) = Root /\ SubSeq(State, 1, 1) = InCapabilities
  /\ SubSeq(State, 1, 2) = InExperimental
  /\ State[1] = "capabilities" /\ State[2] = "experimental" /\ State[3] = "serverState"
BY ThreeKeys DEF State, Root, InCapabilities, InExperimental

LEMMA DeclarationIs ==
  /\ Len(Declaration) = 3 /\ SubSeq(Declaration, 1, 0) = Root /\ SubSeq(Declaration, 1, 1) = InCapabilities
  /\ SubSeq(Declaration, 1, 2) = InExperimental
  /\ Declaration[1] = "capabilities" /\ Declaration[2] = "experimental" /\ Declaration[3] = "serverStateProvider"
BY ThreeKeys DEF Declaration, Root, InCapabilities, InExperimental

LEMMA OptionIs ==
  ASSUME NEW o
  PROVE  /\ Len(Option(o)) = 2 /\ SubSeq(Option(o), 1, 0) = Root /\ SubSeq(Option(o), 1, 1) = InOptions
         /\ Option(o)[1] = "initializationOptions" /\ Option(o)[2] = o
BY TwoKeys DEF Option, Root, InOptions

\* What lies at the end of each way, and of each path.
LEMMA At ==
  ASSUME NEW node
  PROVE  /\ Lookup(node, Root) = node
         /\ Lookup(node, InCapabilities) = Get(node, "capabilities")
         /\ Lookup(node, InOptions) = Get(node, "initializationOptions")
         /\ Lookup(node, InExperimental) = Get(Get(node, "capabilities"), "experimental")
         /\ Lookup(node, InWindow) = Get(Get(node, "capabilities"), "window")
         /\ Lookup(node, Status) = Get(Get(Get(node, "capabilities"), "experimental"), "serverStatusNotification")
         /\ Lookup(node, WorkDone) = Get(Get(Get(node, "capabilities"), "window"), "workDoneProgress")
         /\ Lookup(node, State) = Get(Get(Get(node, "capabilities"), "experimental"), "serverState")
         /\ Lookup(node, Declaration) = Get(Get(Get(node, "capabilities"), "experimental"), "serverStateProvider")
         /\ \A o : Lookup(node, Option(o)) = Get(Get(node, "initializationOptions"), o)
<1>1. Lookup(node, Root) = node
  BY LookupNone DEF Root
<1>2. /\ Lookup(node, InCapabilities) = Get(node, "capabilities")
      /\ Lookup(node, InOptions) = Get(node, "initializationOptions")
  BY LookupOne DEF InCapabilities, InOptions
<1>3. Lookup(node, InExperimental) = Get(Get(node, "capabilities"), "experimental")
  BY LookupTwo DEF InExperimental
<1>4. Lookup(node, InWindow) = Get(Get(node, "capabilities"), "window")
  BY LookupTwo DEF InWindow
<1>5. Lookup(node, Status) = Get(Get(Get(node, "capabilities"), "experimental"), "serverStatusNotification")
  BY LookupThree DEF Status
<1>6. Lookup(node, WorkDone) = Get(Get(Get(node, "capabilities"), "window"), "workDoneProgress")
  BY LookupThree DEF WorkDone
<1>7. Lookup(node, State) = Get(Get(Get(node, "capabilities"), "experimental"), "serverState")
  BY LookupThree DEF State
<1>8. Lookup(node, Declaration) = Get(Get(Get(node, "capabilities"), "experimental"), "serverStateProvider")
  BY LookupThree DEF Declaration
<1>9. ASSUME NEW o PROVE Lookup(node, Option(o)) = Get(Get(node, "initializationOptions"), o)
  BY LookupTwo DEF Option
<1>. QED
  BY <1>1, <1>2, <1>3, <1>4, <1>5, <1>6, <1>7, <1>8, <1>9

Chosen == InitializationOptionsForCommand(UpstreamCommandBasename(Server.command))
Onward(paths, way, n) == {p[n + 1] : p \in {q \in paths : SubSeq(q, 1, n) = way}}

LEMMA OptInsAre == OptIns = {Status, WorkDone, State} \cup {Option(o) : o \in Chosen}
BY DEF OptIns, Status, WorkDone, State, Option, Chosen

\* A path that starts with a way goes on with its next key.
LEMMA GoesOn ==
  ASSUME NEW paths, NEW p \in paths, NEW n, NEW way, SubSeq(p, 1, n) = way, NEW next, next = n + 1
  PROVE  p[next] \in Onward(paths, way, n)
BY DEF Onward

\* Where the opt-ins go on from each way.
LEMMA OnwardHas ==
  /\ {"capabilities"} \cup (IF Chosen = {} THEN {} ELSE {"initializationOptions"}) \subseteq Onward(OptIns, Root, 0)
  /\ {"experimental", "window"} \subseteq Onward(OptIns, InCapabilities, 1)
  /\ {"serverStatusNotification", "serverState"} \subseteq Onward(OptIns, InExperimental, 2)
  /\ {"workDoneProgress"} \subseteq Onward(OptIns, InWindow, 2)
  /\ Chosen \subseteq Onward(OptIns, InOptions, 1)
<1>1. Status \in OptIns /\ WorkDone \in OptIns /\ State \in OptIns /\ \A o \in Chosen : Option(o) \in OptIns
  BY OptInsAre
<1>2. 1 = 0 + 1 /\ 2 = 1 + 1 /\ 3 = 2 + 1
  OBVIOUS
<1>3. /\ Status[1] \in Onward(OptIns, Root, 0)
      /\ Status[2] \in Onward(OptIns, InCapabilities, 1)
      /\ Status[3] \in Onward(OptIns, InExperimental, 2)
  BY <1>1, <1>2, StatusIs, GoesOn, Zenon
<1>4. WorkDone[2] \in Onward(OptIns, InCapabilities, 1) /\ WorkDone[3] \in Onward(OptIns, InWindow, 2)
  BY <1>1, <1>2, WorkDoneIs, GoesOn, Zenon
<1>5. State[3] \in Onward(OptIns, InExperimental, 2)
  BY <1>1, <1>2, StateIs, GoesOn, Zenon
<1>6. ASSUME NEW o \in Chosen
      PROVE  "initializationOptions" \in Onward(OptIns, Root, 0) /\ o \in Onward(OptIns, InOptions, 1)
  <2>1. Option(o)[1] \in Onward(OptIns, Root, 0) /\ Option(o)[2] \in Onward(OptIns, InOptions, 1)
    BY <1>1, <1>2, OptionIs, GoesOn, Zenon
  <2>. QED
    BY <2>1, OptionIs
<1>. QED
  BY <1>3, <1>4, <1>5, <1>6, StatusIs, WorkDoneIs, StateIs

\* What is added is said way by way.
LEMMA AddsOnlyIs ==
  ASSUME NEW before, NEW after, NEW paths,
         \A path \in paths : \A n \in 0..(Len(path) - 1) :
           SameBut(Lookup(before, SubSeq(path, 1, n)), Lookup(after, SubSeq(path, 1, n)),
                   Onward(paths, SubSeq(path, 1, n), n))
  PROVE  AddsOnly(before, after, paths)
BY DEF AddsOnly, Onward

\* The client's initialize with opt-ins in it, and nothing else.
LEMMA RequestOnlyAdds ==
  ASSUME NEW params, IsObject(params), HasValues(params), HasValues(Get(params, "capabilities")),
         NEW new, new = ToUpstream(params, Server.command)
  PROVE  /\ AddsOnly(params, new, OptIns)
         /\ \A path \in OptIns : HasPlace(params, path) => Lookup(new, path) = True
<1> DEFINE Kept(way, n) == SameBut(Lookup(params, way), Lookup(new, way), Onward(OptIns, way, n))
           Free(way) == Lookup(params, way).kind \in {"object", "absent"}
<1>1. /\ SameBut(params, new, {"capabilities"} \cup (IF Chosen = {} THEN {} ELSE {"initializationOptions"}))
      /\ SameBut(Get(params, "capabilities"), Get(new, "capabilities"), {"experimental", "window"})
      /\ SameBut(Get(Get(params, "capabilities"), "experimental"), Get(Get(new, "capabilities"), "experimental"),
                 {"serverStatusNotification", "serverState"})
      /\ SameBut(Get(Get(params, "capabilities"), "window"), Get(Get(new, "capabilities"), "window"),
                 {"workDoneProgress"})
      /\ SameBut(Get(params, "initializationOptions"), Get(new, "initializationOptions"), Chosen)
  BY RequestLevels DEF Chosen
<1>2. /\ Kept(Root, 0) /\ Kept(InCapabilities, 1) /\ Kept(InExperimental, 2) /\ Kept(InWindow, 2)
      /\ Kept(InOptions, 1)
  <2>1. Kept(Root, 0)
    BY <1>1, At, OnwardHas, SameButMore
  <2>2. Kept(InCapabilities, 1)
    BY <1>1, At, OnwardHas, SameButMore
  <2>3. Kept(InExperimental, 2)
    BY <1>1, At, OnwardHas, SameButMore
  <2>4. Kept(InWindow, 2)
    BY <1>1, At, OnwardHas, SameButMore
  <2>5. Kept(InOptions, 1)
    BY <1>1, At, OnwardHas, SameButMore
  <2>. QED
    BY <2>1, <2>2, <2>3, <2>4, <2>5
<1>3. /\ Free(InCapabilities) /\ Free(InExperimental) => Lookup(new, Status) = True /\ Lookup(new, State) = True
      /\ Free(InCapabilities) /\ Free(InWindow) => Lookup(new, WorkDone) = True
      /\ Free(InOptions) => \A o \in Chosen : Lookup(new, Option(o)) = True
  BY RequestOptsIn, At DEF Chosen
<1>4. ASSUME NEW path \in OptIns
      PROVE  /\ \A n \in 0..(Len(path) - 1) : Kept(SubSeq(path, 1, n), n)
             /\ (\A n \in 1..(Len(path) - 1) : Free(SubSeq(path, 1, n))) => Lookup(new, path) = True
  <2> HIDE DEF Kept, Free
  <2>0. path = Status \/ path = WorkDone \/ path = State \/ \E o \in Chosen : path = Option(o)
    BY OptInsAre
  <2>1. CASE path = Status
    <3>1. 0..(Len(path) - 1) = {0, 1, 2} /\ 1..(Len(path) - 1) = {1, 2}
      BY <2>1, StatusIs
    <3>. QED
      BY <2>1, <3>1, StatusIs, <1>2, <1>3
  <2>2. CASE path = WorkDone
    <3>1. 0..(Len(path) - 1) = {0, 1, 2} /\ 1..(Len(path) - 1) = {1, 2}
      BY <2>2, WorkDoneIs
    <3>. QED
      BY <2>2, <3>1, WorkDoneIs, <1>2, <1>3
  <2>3. CASE path = State
    <3>1. 0..(Len(path) - 1) = {0, 1, 2} /\ 1..(Len(path) - 1) = {1, 2}
      BY <2>3, StateIs
    <3>. QED
      BY <2>3, <3>1, StateIs, <1>2, <1>3
  <2>4. ASSUME NEW o \in Chosen, path = Option(o)
        PROVE  /\ \A n \in 0..(Len(path) - 1) : Kept(SubSeq(path, 1, n), n)
               /\ (\A n \in 1..(Len(path) - 1) : Free(SubSeq(path, 1, n))) => Lookup(new, path) = True
    <3> DEFINE option == Option(o)
    <3>1. Len(option) = 2 /\ SubSeq(option, 1, 0) = Root /\ SubSeq(option, 1, 1) = InOptions
      BY OptionIs, Zenon
    <3>2. Free(InOptions) => Lookup(new, option) = True
      BY <1>3
    <3> HIDE DEF option
    <3>3. path = option
      BY <2>4 DEF option
    <3>4. 0..(Len(path) - 1) = {0, 1} /\ 1..(Len(path) - 1) = {1}
      <4>1. Len(path) = 2
        BY <3>1, <3>3, Zenon
      <4>2. 0..(2 - 1) = {0, 1} /\ 1..(2 - 1) = {1}
        OBVIOUS
      <4>. QED
        BY <4>1, <4>2, Zenon
    <3>. QED
      BY <3>1, <3>2, <3>3, <3>4, <1>2
  <2>. QED
    BY <2>0, <2>1, <2>2, <2>3, <2>4
<1>5. AddsOnly(params, new, OptIns)
  BY <1>4, AddsOnlyIs
<1>. QED
  BY <1>4, <1>5 DEF HasPlace

\* The server's answer as it was, or with a declaration where there was none.
LEMMA AnswerBecomes ==
  ASSUME NEW result, NEW provider, NEW new, new = DeclareServerStateProvider(result, provider).result,
         NEW caps, caps = Entry(result, "capabilities"), NEW slot, slot = Entry(caps, "experimental"),
         NEW e, e = IF slot = Null THEN Empty ELSE slot
  PROVE  \/ new = result
         \/ /\ IsObject(result) /\ IsObject(caps) /\ IsObject(e) /\ ~IsObject(Get(e, "serverStateProvider"))
            /\ new = With(result, "capabilities",
                       With(caps, "experimental", With(e, "serverStateProvider", provider)))
<1>1. \A action, r : Outcome(action, r).result = r
  BY DEF Outcome
<1>. QED
  BY <1>1, Zenon DEF DeclareServerStateProvider

LEMMA AnswerOnlyAdds ==
  ASSUME NEW result, NEW provider, NEW new, new = DeclareServerStateProvider(result, provider).result
  PROVE  /\ AddsOnly(result, new, {Declaration})
         /\ IsObject(Lookup(result, Declaration)) => new = result
<1> DEFINE caps == Entry(result, "capabilities")
           slot == Entry(caps, "experimental")
           e == IF slot = Null THEN Empty ELSE slot
           was == Get(result, "capabilities")
           is == Get(new, "capabilities")
           declared == With(e, "serverStateProvider", provider)
           Kept(way, n) == SameBut(Lookup(result, way), Lookup(new, way), Onward({Declaration}, way, n))
<1>1. CASE new = result
  BY <1>1, AddsOnlyIs DEF SameBut
<1>2. CASE /\ IsObject(result) /\ IsObject(caps) /\ IsObject(e) /\ ~IsObject(Get(e, "serverStateProvider"))
           /\ new = With(result, "capabilities", With(caps, "experimental", declared))
  <2>1. IsObject(new) /\ is = With(caps, "experimental", declared)
        /\ \A key : key # "capabilities" => Get(new, key) = Get(result, key)
    BY <1>2, WithHas
  <2>2. IsObject(is) /\ Get(is, "experimental") = declared
        /\ \A key : key # "experimental" => Get(is, key) = Get(caps, key)
    <3> HIDE DEF is, caps, declared
    <3>. QED
      BY <2>1, <1>2, WithHas
  <2>3. IsObject(declared) /\ \A key : key # "serverStateProvider" => Get(declared, key) = Get(e, key)
    <3> HIDE DEF e
    <3>. QED
      BY <1>2, WithHas
  <2>4. was.kind \in {"object", "absent", "null"} /\ \A other : Get(caps, other) = Get(was, other)
    BY <1>2, EntryKeeps
  <2>5. /\ Get(caps, "experimental").kind \in {"object", "absent", "null"}
        /\ \A other : Get(e, other) = Get(Get(caps, "experimental"), other)
    <3> HIDE DEF caps
    <3>1. CASE slot = Null
      <4>1. Get(caps, "experimental") = Null
        <5>1. Null # Empty
          BY DEF Null, Empty, Leaf, Object
        <5>. QED
          BY <1>2, <3>1, <5>1, EntryIs
      <4>2. Null.kind = "null" /\ ~IsObject(Null)
        BY DEF Null, Leaf, IsObject
      <4>3. e = Empty
        BY <3>1
      <4>. QED
        BY <4>1, <4>2, <4>3, NothingIn
    <3>2. CASE slot # Null
      BY <1>2, <3>2, EntryKeeps
    <3>. QED
      BY <3>1, <3>2
  <2> HIDE DEF caps, slot, e, was, is, declared
  <2>6. SameBut(result, new, {"capabilities"})
    BY <1>2, <2>1 DEF SameBut, IsObject
  <2>7. SameBut(was, is, {"experimental"})
    BY <2>2, <2>4 DEF SameBut
  <2>8. SameBut(Get(was, "experimental"), Get(is, "experimental"), {"serverStateProvider"})
    <3>1. Get(was, "experimental") = Get(caps, "experimental")
      BY <2>4
    <3>. QED
      BY <2>2, <2>3, <2>5, <3>1 DEF SameBut
  <2>9. /\ Declaration[1] \in Onward({Declaration}, Root, 0)
        /\ Declaration[2] \in Onward({Declaration}, InCapabilities, 1)
        /\ Declaration[3] \in Onward({Declaration}, InExperimental, 2)
    <3>1. 1 = 0 + 1 /\ 2 = 1 + 1 /\ 3 = 2 + 1 /\ Declaration \in {Declaration}
      OBVIOUS
    <3>. QED
      BY <3>1, DeclarationIs, GoesOn, Zenon
  <2>10. Kept(Root, 0)
    BY <2>6, <2>9, At, DeclarationIs, SameButMore
  <2>11. Kept(InCapabilities, 1)
    BY <2>7, <2>9, At, DeclarationIs, SameButMore DEF was, is
  <2>12. Kept(InExperimental, 2)
    BY <2>8, <2>9, At, DeclarationIs, SameButMore DEF was, is
  <2>13. \A path \in {Declaration} : \A n \in 0..(Len(path) - 1) : Kept(SubSeq(path, 1, n), n)
    <3> HIDE DEF Kept
    <3>1. 0..(Len(Declaration) - 1) = {0, 1, 2}
      BY DeclarationIs
    <3>. QED
      BY <3>1, DeclarationIs, <2>10, <2>11, <2>12
  <2>14. AddsOnly(result, new, {Declaration})
    BY <2>13, AddsOnlyIs
  <2>15. ~IsObject(Lookup(result, Declaration))
    <3>1. Lookup(result, Declaration) = Get(Get(was, "experimental"), "serverStateProvider")
      BY At DEF was
    <3>2. Get(was, "experimental") = Get(caps, "experimental")
      BY <2>4
    <3>. QED
      BY <3>1, <3>2, <2>5, <1>2
  <2>. QED
    BY <2>14, <2>15
<1>. QED
  BY <1>1, <1>2, AnswerBecomes

--------------------------------------------------------------------------------
(* The handshake. *)

\* What is added to a sequence is its last.
LEMMA LastAdded ==
  ASSUME NEW S, NEW s \in Seq(S), NEW x \in S
  PROVE  /\ Append(s, x) \in Seq(S) /\ Append(s, x) # <<>> /\ Last(Append(s, x)) = x
         /\ Len(s) + 1 \in DOMAIN Append(s, x) /\ Append(s, x)[Len(s) + 1] = x
         /\ \A i \in DOMAIN s : i \in DOMAIN Append(s, x) /\ Append(s, x)[i] = s[i]
BY DEF Last

\* The last of a sequence is one of its members.
LEMMA LastIn ==
  ASSUME NEW S, NEW s \in Seq(S), s # <<>>
  PROVE  Last(s) \in S /\ Len(s) \in DOMAIN s /\ s[Len(s)] = Last(s)
BY DEF Last

\* The client sends what it may, and the last request is what it sent, rewritten.
SentIsRewritten ==
  /\ tries \in Seq(scenario.params)
  /\ sent = Absent \/ (tries # <<>> /\ sent = ToUpstream(Last(tries), Server.command))

\* The last answer is the server's, with a declaration added or as it was.
AnswerIsDeclared ==
  /\ AddsOnly(answer.from, answer.to, {Declaration})
  /\ IsObject(Lookup(answer.from, Declaration)) => answer.to = answer.from

\* A progress the client is asked for is one it declared in the request that succeeded.
ProgressIsDeclared ==
  /\ declaresProgress => tries # <<>> /\ DeclaresWorkDoneProgress(Last(tries))
  /\ waiting => promised = {}
  /\ asked => promised # {} /\ tries # <<>> /\ DeclaresWorkDoneProgress(Last(tries))

HandshakeInv == scenario \in Scenarios /\ SentIsRewritten /\ AnswerIsDeclared /\ ProgressIsDeclared

LEMMA HandshakeInit == Init => HandshakeInv
<1> SUFFICES ASSUME Init PROVE HandshakeInv
  OBVIOUS
<1>1. AnswerIsDeclared
  <2>1. answer.from = Absent /\ answer.to = Absent
    BY DEF Init, NoAnswer
  <2>. QED
    BY <2>1, AddsOnlyIs DEF AnswerIsDeclared, SameBut
<1>. QED
  BY <1>1 DEF Init, HandshakeInv, SentIsRewritten, ProgressIsDeclared

LEMMA HandshakeStep == HandshakeInv /\ [Next]_vars => HandshakeInv'
<1> SUFFICES ASSUME HandshakeInv, [Next]_vars PROVE HandshakeInv'
  OBVIOUS
<1>1. scenario' = scenario
  BY DEF Next, vars, ClientInitializes, ServerAnnounces, ServerAnswers, ServerCreatesProgress, FileChanges,
         ClientTells, ClientAddsFolder
<1>5. CASE ClientInitializes
  <2>1. PICK params \in scenario.params :
          /\ tries' = Append(tries, params) /\ sent' = ToUpstream(params, Server.command)
          /\ declaresProgress' = DeclaresWorkDoneProgress(params)
    BY <1>5 DEF ClientInitializes
  <2>2. tries' \in Seq(scenario.params) /\ tries' # <<>> /\ Last(tries') = params
    <3>1. tries \in Seq(scenario.params)
      BY DEF HandshakeInv, SentIsRewritten
    <3>2. /\ Append(tries, params) \in Seq(scenario.params) /\ Append(tries, params) # <<>>
          /\ Last(Append(tries, params)) = params
      BY <3>1, LastAdded
    <3>. QED
      BY <2>1, <3>2, Zenon
  <2>3. SentIsRewritten'
    BY <1>1, <2>1, <2>2 DEF SentIsRewritten, Server
  <2>4. promised = {} /\ UNCHANGED <<asked, promised, answer>>
    BY <1>5 DEF ClientInitializes
  <2>5. ~asked /\ asked' = asked
    BY <2>4 DEF HandshakeInv, ProgressIsDeclared
  <2>6. ProgressIsDeclared'
    BY <2>1, <2>2, <2>4, <2>5 DEF ProgressIsDeclared
  <2>. QED
    BY <1>1, <2>3, <2>4, <2>6 DEF HandshakeInv, AnswerIsDeclared
<1>2. ASSUME ~ClientInitializes PROVE SentIsRewritten' /\ tries' = tries
  <2>1. UNCHANGED <<sent, tries>>
    BY <1>2 DEF Next, vars, ServerAnnounces, ServerAnswers, ServerCreatesProgress, FileChanges,
           ClientTells, ClientAddsFolder
  <2>. QED
    BY <1>1, <2>1 DEF HandshakeInv, SentIsRewritten, Server
<1>3. AnswerIsDeclared'
  <2>1. CASE answer' = answer
    BY <2>1 DEF HandshakeInv, AnswerIsDeclared
  <2>2. CASE ServerAnswers
    <3>1. PICK result : answer' = [from |-> result, to |-> DeclareServerStateProvider(result, Object(Provider')).result]
      BY <2>2 DEF ServerAnswers
    <3>2. /\ AddsOnly(result, DeclareServerStateProvider(result, Object(Provider')).result, {Declaration})
          /\ IsObject(Lookup(result, Declaration)) =>
               DeclareServerStateProvider(result, Object(Provider')).result = result
      BY AnswerOnlyAdds
    <3>3. answer'.from = result /\ answer'.to = DeclareServerStateProvider(result, Object(Provider')).result
      BY <3>1
    <3>. QED
      BY <3>2, <3>3 DEF AnswerIsDeclared
  <2>. QED
    BY <2>1, <2>2 DEF Next, vars, ClientInitializes, ServerAnnounces, ServerCreatesProgress, FileChanges,
                      ClientTells, ClientAddsFolder
<1>4. ASSUME ~ClientInitializes PROVE ProgressIsDeclared'
  <2>0. tries' = tries
    BY <1>2, <1>4
  <2>1. CASE UNCHANGED <<progress, waiting, promised>>
    BY <2>0, <2>1 DEF HandshakeInv, ProgressIsDeclared, progress
  <2>2. CASE ServerAnswers
    <3>1. waiting /\ ~waiting' /\ UNCHANGED <<declaresProgress, asked>>
      BY <2>2 DEF ServerAnswers, progress
    <3>2. ~asked
      BY <3>1 DEF HandshakeInv, ProgressIsDeclared
    <3>. QED
      BY <2>0, <3>1, <3>2 DEF HandshakeInv, ProgressIsDeclared
  <2>3. CASE ServerCreatesProgress
    BY <2>0, <2>3 DEF HandshakeInv, ProgressIsDeclared, ServerCreatesProgress
  <2>. QED
    BY <1>4, <2>1, <2>2, <2>3 DEF Next, vars, progress, ServerAnnounces, FileChanges, ClientTells,
                            ClientAddsFolder
<1>. QED
  BY <1>1, <1>2, <1>3, <1>4, <1>5 DEF HandshakeInv

\* What was sent and answered is always the rewriting of what was said.
THEOREM HandshakeInvariant == Spec => []HandshakeInv
BY HandshakeInit, HandshakeStep, PTL DEF Spec

\* Whatever the client declares and the server answers, the handshake only adds: the
\* opt-ins to the client's initialize, where they have a place in it, and one
\* declaration to the server's answer (initialize.rs).
THEOREM OnlyAdds == Spec => []HandshakeOnlyAdds
<1>1. HandshakeInv => HandshakeOnlyAdds
  <2> SUFFICES ASSUME HandshakeInv PROVE HandshakeOnlyAdds
    OBVIOUS
  <2>2. ASSUME sent # Absent
        PROVE  /\ AddsOnly(Last(tries), sent, OptIns)
               /\ \A path \in OptIns : HasPlace(Last(tries), path) => Lookup(sent, path) = True
    <3>1. tries \in Seq(scenario.params) /\ tries # <<>> /\ sent = ToUpstream(Last(tries), Server.command)
      BY <2>2 DEF HandshakeInv, SentIsRewritten
    <3>2. PICK params : params = Last(tries)
      OBVIOUS
    <3>3. params \in scenario.params
      BY <3>1, <3>2, LastIn
    <3>4. IsObject(params) /\ HasValues(params) /\ HasValues(Get(params, "capabilities"))
      BY <3>3, StartupAssumption DEF HandshakeInv
    <3>. QED
      BY <3>1, <3>2, <3>4, RequestOnlyAdds
  <2>3. Declaration = <<"capabilities", "experimental", "serverStateProvider">>
    BY DEF Declaration
  <2>. QED
    BY <2>2, <2>3 DEF HandshakeInv, AnswerIsDeclared, ProgressIsDeclared, HandshakeOnlyAdds
<1>. QED
  BY <1>1, HandshakeInvariant, PTL

--------------------------------------------------------------------------------
(* The mapping. *)

\* A mapping is what it says under its four names.
IsMapping(m) ==
  m = [name |-> m.name, tested |-> m.tested, symbolLimit |-> m.symbolLimit, layouts |-> m.layouts]

\* What is learnt of the roots is the layouts.
LEMMA LearnsRoots ==
  ASSUME NEW m, IsMapping(m), NEW params, NEW new, new = LearnWorkspaceRoots(m, params)
  PROVE  IsMapping(new) /\ new.name = m.name /\ new.tested = m.tested /\ new.symbolLimit = m.symbolLimit
BY DEF LearnWorkspaceRoots, IsMapping

\* What is learnt of the options is the limit.
LEMMA LearnsOptions ==
  ASSUME NEW m, IsMapping(m), NEW written, NEW new, new = LearnInitializationOptions(m, written)
  PROVE  /\ IsMapping(new) /\ new.name = m.name /\ new.tested = m.tested /\ new.layouts = m.layouts
         /\ m.name = "rust-analyzer" => new.symbolLimit = IF written = "absent" THEN m.symbolLimit ELSE written
BY DEF LearnInitializationOptions, IsMapping

\* What is learnt of a version is whether it is tested.
LEMMA LearnsTested ==
  ASSUME NEW m, IsMapping(m), NEW verdict, NEW new, new = [m EXCEPT !.tested = verdict]
  PROVE  /\ IsMapping(new) /\ new.name = m.name /\ new.symbolLimit = m.symbolLimit /\ new.layouts = m.layouts
         /\ new.tested = verdict
BY DEF IsMapping

LEMMA LearnsIdentity ==
  ASSUME NEW m, IsMapping(m), NEW info, NEW new, new = LearnIdentity(m, info)
  PROVE  /\ IsMapping(new) /\ new.name = m.name /\ new.symbolLimit = m.symbolLimit /\ new.layouts = m.layouts
         /\ m.name \notin {"pyright", "basedpyright"} => new = m
         /\ new.tested => m.tested \/ ForVersion(info.name, info.version)
<1>1. CASE m.name \in {"pyright", "basedpyright"}
  <2>1. new = [m EXCEPT !.tested = ForVersion(info.name, info.version)]
    BY <1>1 DEF LearnIdentity
  <2> DEFINE verdict == ForVersion(info.name, info.version)
  <2>2. /\ IsMapping(new) /\ new.name = m.name /\ new.symbolLimit = m.symbolLimit /\ new.layouts = m.layouts
        /\ new.tested = verdict
    BY <2>1, LearnsTested
  <2> HIDE DEF verdict
  <2>3. new.tested => m.tested \/ verdict
    BY <2>2, Zenon
  <2>. QED
    BY <1>1, <2>2, <2>3 DEF verdict
<1>2. CASE m.name \notin {"pyright", "basedpyright"}
  BY <1>2 DEF LearnIdentity
<1>. QED
  BY <1>1, <1>2

LEMMA LearnsAnnounced ==
  ASSUME NEW m, IsMapping(m), NEW info, NEW new, new = Interpret(m, info)
  PROVE  /\ IsMapping(new) /\ new.name = m.name /\ new.symbolLimit = m.symbolLimit /\ new.layouts = m.layouts
         /\ m.name # "typescript-language-server" => new = m
<1>1. new = m \/ new = [m EXCEPT !.tested = ForVersion(m.name, info.version)]
  BY DEF Interpret
<1>2. m.name # "typescript-language-server" => new = m
  BY DEF Interpret
<1>. QED
  BY <1>1, <1>2, LearnsTested

\* A new mapping.
LEMMA NewMappingIs ==
  ASSUME NEW name, NEW version, NEW m, m = NewMapping(name, version)
  PROVE  /\ IsMapping(m) /\ m.name = name /\ m.tested = ForVersion(name, version) /\ m.symbolLimit = "128"
         /\ m.layouts = <<>>
BY DEF NewMapping, IsMapping, LearnSymbolLimit

\* Only a name that says its version has one that is tested.
LEMMA TestedIsVersioned ==
  ASSUME NEW name, NEW version, ForVersion(name, version)
  PROVE  /\ name \in Versioned
         /\ name = "typescript-language-server" => version \in Tested[name]
<1>1. CASE name \in Versioned
  BY <1>1 DEF ForVersion, TypescriptForVersion, Versioned
<1>2. CASE name \notin Versioned
  BY <1>2 DEF ForVersion, Versioned
<1>. QED
  BY <1>1, <1>2

--------------------------------------------------------------------------------
(* What is promised. *)

\* The limit the client set is the one the server is told of.
LEMMA NoLimitIn ==
  ASSUME NEW params, Get(params, "initializationOptions").kind \in {"absent", "null"}
  PROVE  SymbolLimit(params) = "absent"
<1> DEFINE written == Get(params, "initializationOptions")
<1>1. SymbolLimit(params) = Get(Get(Get(Get(written, "workspace"), "symbol"), "search"), "limit").kind
  BY LookupFive DEF SymbolLimit
<1>2. ~IsObject(written)
  BY DEF IsObject
<1> HIDE DEF written
<1>3. Get(written, "workspace") = Absent
  BY <1>2, NothingIn
<1>4. Get(Absent, "symbol") = Absent /\ Get(Absent, "search") = Absent /\ Get(Absent, "limit") = Absent
  BY AbsentIs, NothingIn
<1>. QED
  BY <1>1, <1>3, <1>4, AbsentIs

LEMMA LimitIsSent ==
  ASSUME NEW params, IsObject(params), NEW command
  PROVE  SymbolLimit(ToUpstream(params, command)) = SymbolLimit(params)
<1> DEFINE new == ToUpstream(params, command)
           chosen == InitializationOptionsForCommand(UpstreamCommandBasename(command))
           old == Get(params, "initializationOptions")
           is == Get(new, "initializationOptions")
<1>1. SymbolLimit(params) = Get(Get(Get(Get(old, "workspace"), "symbol"), "search"), "limit").kind
  BY LookupFive DEF SymbolLimit
<1>2. SymbolLimit(new) = Get(Get(Get(Get(is, "workspace"), "symbol"), "search"), "limit").kind
  BY LookupFive DEF SymbolLimit
<1>3. SameBut(old, is, chosen)
  BY RequestLevels
<1>4. "workspace" \notin chosen
  BY DEF InitializationOptionsForCommand
<1> HIDE DEF new, chosen, old, is
<1>5. Get(is, "workspace") = Get(old, "workspace")
  <2>1. CASE "workspace" \in DOMAIN old.fields \cup DOMAIN is.fields
    BY <1>3, <1>4, <2>1 DEF SameBut
  <2>2. CASE "workspace" \notin DOMAIN old.fields \cup DOMAIN is.fields
    BY <2>2 DEF Get
  <2>. QED
    BY <2>1, <2>2
<1>. QED
  BY <1>1, <1>2, <1>5 DEF new

\* The server is one whose product and version were tested.
IsTested(s) == s.server.product \in Versioned /\ s.server.version \in Tested[s.server.product]

\* What is read of a server's name and version is true of it.
TrueOf(info, s) ==
  /\ info.name \in Unversioned \cup {s.server.product}
  /\ ForVersion(info.name, info.version) => IsTested(s)

\* The limit of one of these requests, and of the last one if that has a limit.
IsLimit(written, requests) ==
  /\ written \in {SymbolLimit(requests[i]) : i \in DOMAIN requests}
  /\ SymbolLimit(Last(requests)) \in {written, "absent"}

\* A request with a limit has the last one, and one without leaves it.
LEMMA LimitsGrow ==
  ASSUME NEW S, NEW requests \in Seq(S), NEW params \in S, NEW new, new = Append(requests, params)
  PROVE  /\ IsLimit(SymbolLimit(params), new)
         /\ \A written : requests # <<>> /\ IsLimit(written, requests) /\ SymbolLimit(params) = "absent"
                           => IsLimit(written, new)
<1>1. /\ Last(new) = params /\ Len(requests) + 1 \in DOMAIN new /\ new[Len(requests) + 1] = params
      /\ \A i \in DOMAIN requests : i \in DOMAIN new /\ new[i] = requests[i]
  <2>1. /\ Last(Append(requests, params)) = params /\ Len(requests) + 1 \in DOMAIN Append(requests, params)
        /\ Append(requests, params)[Len(requests) + 1] = params
        /\ \A i \in DOMAIN requests :
             i \in DOMAIN Append(requests, params) /\ Append(requests, params)[i] = requests[i]
    BY LastAdded
  <2>. QED
    BY <2>1, Zenon
<1>2. IsLimit(SymbolLimit(params), new)
  BY <1>1 DEF IsLimit
<1>3. ASSUME NEW written, IsLimit(written, requests), SymbolLimit(params) = "absent"
      PROVE  IsLimit(written, new)
  <2>1. PICK i \in DOMAIN requests : written = SymbolLimit(requests[i])
    BY <1>3 DEF IsLimit
  <2>2. written \in {SymbolLimit(new[k]) : k \in DOMAIN new}
    BY <1>1, <2>1
  <2>. QED
    BY <1>1, <1>3, <2>2 DEF IsLimit
<1>. QED
  BY <1>2, <1>3

\* The mapping is one for this server and the requests of this client.
SoundFor(m, s, requests) ==
  /\ IsMapping(m) /\ m.name \in Known /\ m.name \in Unversioned \cup {s.server.product}
  /\ m.tested => IsTested(s)
  /\ m.name = "rust-analyzer" =>
       \E written : IsLimit(written, requests) /\ m.symbolLimit = LearnSymbolLimit(written)

\* What is promised holds for this server and the requests of this client.
KeptFor(provider, s, requests) ==
  /\ provider # NotificationsOnly => IsTested(s)
  /\ \A c \in provider.coverage : s.server.product = "rust-analyzer" =>
       \E written : /\ IsLimit(written, requests)
                    /\ c.capped = {<<"workspace/symbol", LearnSymbolLimit(written)>>}

\* A name that a server says, or is known by, is true of it.
LEMMA NamesAreTrue ==
  ASSUME NEW s \in Scenarios
  PROVE  /\ \A a \in s.server.announces : TrueOf(a, s)
         /\ \A r \in s.server.results : \A info \in ServerInfo(r) \cup IdentityFromInitializeResult(r) : TrueOf(info, s)
<1>1. \A info \in s.server.announces \cup UNION {ServerInfo(r) : r \in s.server.results} :
        /\ info.name = s.server.product
        /\ ForVersion(info.name, info.version) => s.server.version \in Tested[s.server.product]
  BY StartupAssumption, Zenon
<1>2. ASSUME NEW info \in s.server.announces \cup UNION {ServerInfo(r) : r \in s.server.results}
      PROVE  TrueOf(info, s)
  <2>1. /\ info.name = s.server.product
        /\ ForVersion(info.name, info.version) => s.server.version \in Tested[s.server.product]
    BY <1>1
  <2>. QED
    BY <2>1, TestedIsVersioned DEF TrueOf, IsTested
<1>3. ASSUME NEW r, NEW info \in IdentityFromInitializeResult(r)
      PROVE  TrueOf(info, s)
  <2>1. info.name \in {"nextflow-language-server", "haskell-language-server"}
    BY <1>3 DEF IdentityFromInitializeResult
  <2>2. info.name \in Unversioned /\ info.name \notin Versioned
    BY <2>1 DEF Unversioned, Versioned
  <2>. QED
    BY <2>2, TestedIsVersioned DEF TrueOf
<1>. QED
  BY <1>2, <1>3

\* A new mapping that has learnt the options is sound.
LEMMA AdoptedIsSound ==
  ASSUME NEW s, NEW requests, NEW info, TrueOf(info, s), info.name \in Known, NEW roots, NEW m,
         IsMapping(roots), roots.name = info.name, roots.tested = ForVersion(info.name, info.version),
         roots.symbolLimit = "128", NEW written, IsLimit(written, requests),
         m = LearnInitializationOptions(roots, written)
  PROVE  SoundFor(m, s, requests)
<1> DEFINE verdict == ForVersion(info.name, info.version)
<1>1. /\ IsMapping(m) /\ m.name = info.name /\ m.tested = verdict
      /\ m.name = "rust-analyzer" => m.symbolLimit = LearnSymbolLimit(written)
  BY LearnsOptions DEF LearnSymbolLimit
<1>2. info.name \in Unversioned \cup {s.server.product} /\ (verdict => IsTested(s))
  BY DEF TrueOf
<1> HIDE DEF verdict
<1>3. m.tested => IsTested(s)
  BY <1>1, <1>2, Zenon
<1>. QED
  BY <1>1, <1>2, <1>3 DEF SoundFor

\* A sound mapping that learns the options of one more request, and the roots, is sound.
LEMMA RememberedIsSound ==
  ASSUME NEW s, NEW m, NEW S, NEW requests \in Seq(S), requests # <<>>, SoundFor(m, s, requests),
         NEW params \in S, NEW more, more = Append(requests, params), NEW new,
         new = LearnInitializationOptions(LearnWorkspaceRoots(m, params), SymbolLimit(params))
  PROVE  SoundFor(new, s, more)
<1> DEFINE roots == LearnWorkspaceRoots(m, params)
<1>1. IsMapping(roots) /\ roots.name = m.name /\ roots.tested = m.tested /\ roots.symbolLimit = m.symbolLimit
  BY LearnsRoots DEF SoundFor
<1> HIDE DEF roots
<1>2. /\ IsMapping(new) /\ new.name = m.name /\ new.tested = m.tested
      /\ m.name = "rust-analyzer" =>
           new.symbolLimit = IF SymbolLimit(params) = "absent" THEN m.symbolLimit ELSE SymbolLimit(params)
  BY <1>1, LearnsOptions DEF roots
<1>3. ASSUME m.name = "rust-analyzer"
      PROVE  \E written : IsLimit(written, more) /\ new.symbolLimit = LearnSymbolLimit(written)
  <2>1. CASE SymbolLimit(params) = "absent"
    <3>1. PICK written : IsLimit(written, requests) /\ m.symbolLimit = LearnSymbolLimit(written)
      BY <1>3 DEF SoundFor
    <3>2. IsLimit(written, more)
      BY <2>1, <3>1, LimitsGrow
    <3>. QED
      BY <1>2, <1>3, <2>1, <3>1, <3>2
  <2>2. CASE SymbolLimit(params) # "absent"
    <3>1. IsLimit(SymbolLimit(params), more)
      BY LimitsGrow
    <3>2. new.symbolLimit = LearnSymbolLimit(SymbolLimit(params))
      BY <1>2, <1>3, <2>2 DEF LearnSymbolLimit
    <3>. QED
      BY <3>1, <3>2
  <2>. QED
    BY <2>1, <2>2
<1>. QED
  BY <1>2, <1>3 DEF SoundFor

LEMMA IdentifiedIsSound ==
  ASSUME NEW s, NEW m, NEW requests, SoundFor(m, s, requests), NEW info, TrueOf(info, s),
         NEW new, new = LearnIdentity(m, info)
  PROVE  SoundFor(new, s, requests)
<1>1. /\ IsMapping(new) /\ new.name = m.name /\ new.symbolLimit = m.symbolLimit
      /\ new.tested => m.tested \/ ForVersion(info.name, info.version)
  BY LearnsIdentity DEF SoundFor
<1>. QED
  BY <1>1 DEF SoundFor, TrueOf

LEMMA InterpretedIsSound ==
  ASSUME NEW s \in Scenarios, NEW m, NEW requests, SoundFor(m, s, requests), NEW info \in s.server.announces,
         NEW new, new = Interpret(m, info)
  PROVE  SoundFor(new, s, requests)
<1> DEFINE verdict == ForVersion(m.name, info.version)
<1>1. CASE new = m
  BY <1>1
<1>2. CASE /\ m.name = "typescript-language-server"
           /\ info.method = "$/typescriptVersion" /\ info.version # "absent"
           /\ new = [m EXCEPT !.tested = verdict]
  <2>1. m.name = s.server.product
    BY <1>2 DEF SoundFor, Unversioned
  <2>2. info.version = s.server.version
    BY <1>2, StartupAssumption
  <2>3. verdict => IsTested(s)
    BY <1>2, <2>1, <2>2, TestedIsVersioned DEF IsTested
  <2>4. IsMapping(new) /\ new.name = m.name /\ new.symbolLimit = m.symbolLimit /\ new.tested = verdict
    BY <1>2, LearnsTested DEF SoundFor
  <2> HIDE DEF verdict
  <2>5. new.tested => IsTested(s)
    BY <2>3, <2>4, Zenon
  <2>. QED
    BY <2>4, <2>5 DEF SoundFor
<1>. QED
  BY <1>1, <1>2 DEF Interpret

\* What a sound mapping declares may be promised.
LEMMA ProviderIsKept ==
  ASSUME NEW s, NEW m, NEW requests, SoundFor(m, s, requests)
  PROVE  KeptFor(ProviderOf(m), s, requests)
<1>1. NotificationsOnly.coverage = {}
  BY DEF NotificationsOnly
<1>2. m.name \in Unversioned => ProviderOf(m) = NotificationsOnly
  BY DEF ProviderOf, Unversioned
<1>3. ~m.tested => ProviderOf(m) = NotificationsOnly
  <2> SUFFICES ASSUME ~m.tested PROVE ProviderOf(m) = NotificationsOnly
    OBVIOUS
  <2>1. \A provider : IfTested(m, provider) = NotificationsOnly
    BY DEF IfTested
  <2>2. m.name \in Known
    BY DEF SoundFor
  <2>. QED
    BY <1>2, <2>1, <2>2 DEF ProviderOf, Known, Versioned, ClangdGuarantees, DartGuarantees, GoplsGuarantees,
       JdtlsGuarantees, MetalsGuarantees, NilGuarantees, NixdGuarantees, PyrightGuarantees, RustAnalyzerGuarantees,
       TypescriptGuarantees
<1>4. ASSUME m.tested, m.name = "rust-analyzer"
      PROVE  \A c \in ProviderOf(m).coverage : c.capped = {<<"workspace/symbol", m.symbolLimit>>}
  <2>1. ProviderOf(m) = RustAnalyzerGuarantees(m)
    BY <1>4 DEF ProviderOf, Unversioned
  <2>2. RustAnalyzerGuarantees(m) = Workspace({<<"workspace/symbol", m.symbolLimit>>}, AllFileChanges)
    BY <1>4 DEF RustAnalyzerGuarantees, IfTested
  <2>. QED
    BY <2>1, <2>2 DEF Workspace
<1>5. CASE m.name \in Unversioned \/ ~m.tested
  BY <1>1, <1>2, <1>3, <1>5 DEF KeptFor
<1>6. CASE m.name \notin Unversioned /\ m.tested
  BY <1>4, <1>6 DEF KeptFor, SoundFor
<1>. QED
  BY <1>5, <1>6

LEMMA NothingIsKept ==
  ASSUME NEW s, NEW requests
  PROVE  KeptFor(NotificationsOnly, s, requests)
BY DEF KeptFor, NotificationsOnly

\* Before its first initialize the client is promised nothing, and after it the proxy
\* knows the options and the server the opt-ins.
InitializeIsRemembered ==
  /\ tries \in Seq(scenario.params)
  /\ tries = <<>> => mapping = {} /\ ~waiting /\ promised = {} /\ options = "absent"
  /\ tries # <<>> => sent = ToUpstream(Last(tries), Server.command) /\ IsLimit(options, tries)

\* The mapping is sound, and what was promised stands.
GuaranteesInv ==
  /\ scenario \in Scenarios
  /\ InitializeIsRemembered
  /\ \A m \in mapping : SoundFor(m, scenario, tries)
  /\ \A provider \in promised : KeptFor(provider, scenario, tries)

LEMMA GuaranteesInit == Init => GuaranteesInv
BY DEF Init, GuaranteesInv, InitializeIsRemembered

LEMMA RememberStep == GuaranteesInv /\ [Next]_vars => InitializeIsRemembered'
<1> SUFFICES ASSUME GuaranteesInv, [Next]_vars PROVE InitializeIsRemembered'
  OBVIOUS
<1>1. CASE ClientInitializes
  <2>1. PICK params \in scenario.params :
          /\ tries' = Append(tries, params) /\ sent' = ToUpstream(params, Server.command) /\ UNCHANGED scenario
          /\ options' = IF Get(params, "initializationOptions").kind \in {"absent", "null"} THEN options
                        ELSE SymbolLimit(params)
    BY <1>1 DEF ClientInitializes, RememberInitialize
  <2>2. Get(params, "initializationOptions").kind \in {"absent", "null"} => SymbolLimit(params) = "absent"
    BY NoLimitIn
  <2>3. tries \in Seq(scenario.params)
    BY DEF GuaranteesInv, InitializeIsRemembered
  <2>4. tries' \in Seq(scenario.params) /\ tries' # <<>> /\ Last(tries') = params
    <3>1. /\ Append(tries, params) \in Seq(scenario.params) /\ Append(tries, params) # <<>>
          /\ Last(Append(tries, params)) = params
      BY <2>3, LastAdded
    <3>. QED
      BY <2>1, <3>1, Zenon
  <2>5. /\ IsLimit(SymbolLimit(params), tries')
        /\ \A written : tries # <<>> /\ IsLimit(written, tries) /\ SymbolLimit(params) = "absent"
                          => IsLimit(written, tries')
    BY <2>1, <2>3, LimitsGrow
  <2>6. IsLimit(options', tries')
    <3>1. CASE options' = SymbolLimit(params)
      BY <2>5, <3>1
    <3>2. CASE options' = options /\ SymbolLimit(params) = "absent"
      <4>1. CASE tries = <<>>
        BY <2>5, <3>2, <4>1 DEF GuaranteesInv, InitializeIsRemembered
      <4>2. CASE tries # <<>>
        BY <2>5, <3>2, <4>2 DEF GuaranteesInv, InitializeIsRemembered
      <4>. QED
        BY <4>1, <4>2
    <3>. QED
      BY <2>1, <2>2, <3>1, <3>2
  <2>. QED
    BY <2>1, <2>4, <2>6 DEF InitializeIsRemembered, Server
<1>2. CASE UNCHANGED <<scenario, tries, sent, options>>
  <2> USE DEF GuaranteesInv, InitializeIsRemembered
  <2>1. CASE tries = <<>>
    <3>1. UNCHANGED mapping /\ UNCHANGED waiting /\ UNCHANGED promised
      BY <2>1, <1>2, LastAdded DEF Next, vars, ClientInitializes, ServerAnnounces, ServerAnswers,
         ServerCreatesProgress, FileChanges, ClientTells, ClientAddsFolder
    <3>. QED
      BY <1>2, <2>1, <3>1
  <2>2. CASE tries # <<>>
    BY <1>2, <2>2 DEF Server
  <2>. QED
    BY <2>1, <2>2
<1>. QED
  BY <1>1, <1>2 DEF Next, vars, ServerAnnounces, ServerAnswers, ServerCreatesProgress, FileChanges,
     ClientTells, ClientAddsFolder

\* What is adopted is sound.
LEMMA AdoptKeepsSound ==
  ASSUME GuaranteesInv, tries # <<>>, NEW info, TrueOf(info, scenario), Adopt(info)
  PROVE  \A m \in mapping' : SoundFor(m, scenario, tries)
<1>1. CASE info.name \in Known
  <2> DEFINE new == NewMapping(info.name, info.version)
             roots == LearnWorkspaceRoots(new, Last(tries))
  <2>1. mapping' = {LearnInitializationOptions(roots, options)} /\ IsLimit(options, tries)
    BY <1>1 DEF Adopt, GuaranteesInv, InitializeIsRemembered
  <2>2. /\ IsMapping(new) /\ new.name = info.name /\ new.tested = ForVersion(info.name, info.version)
        /\ new.symbolLimit = "128"
    BY NewMappingIs
  <2>3. /\ IsMapping(roots) /\ roots.name = info.name /\ roots.tested = ForVersion(info.name, info.version)
        /\ roots.symbolLimit = "128"
    <3> HIDE DEF new
    <3>1. /\ IsMapping(roots) /\ roots.name = new.name /\ roots.tested = new.tested
          /\ roots.symbolLimit = new.symbolLimit
      BY <2>2, LearnsRoots
    <3>. QED
      BY <2>2, <3>1, Zenon
  <2> HIDE DEF roots
  <2>4. SoundFor(LearnInitializationOptions(roots, options), scenario, tries)
    BY <1>1, <2>1, <2>3, AdoptedIsSound
  <2>. QED
    BY <2>1, <2>4
<1>2. CASE info.name \notin Known
  BY <1>2 DEF Adopt, GuaranteesInv
<1>. QED
  BY <1>1, <1>2

\* What one more initialize leaves of the mapping is sound.
LEMMA RetryKeepsSound ==
  ASSUME GuaranteesInv, ClientInitializes
  PROVE  \A m \in mapping' : SoundFor(m, scenario, tries')
<1>1. PICK params \in scenario.params :
        /\ tries' = Append(tries, params)
        /\ mapping' = {LearnInitializationOptions(LearnWorkspaceRoots(m, params), SymbolLimit(params))
                         : m \in mapping}
  BY DEF ClientInitializes, RememberInitialize
<1>2. tries \in Seq(scenario.params) /\ (mapping # {} => tries # <<>>)
  BY DEF GuaranteesInv, InitializeIsRemembered
<1>3. ASSUME NEW m \in mapping
      PROVE  SoundFor(LearnInitializationOptions(LearnWorkspaceRoots(m, params), SymbolLimit(params)),
                      scenario, tries')
  <2>1. SoundFor(m, scenario, tries) /\ tries # <<>>
    BY <1>2 DEF GuaranteesInv
  <2>. QED
    BY <1>1, <1>2, <2>1, RememberedIsSound
<1>. QED
  BY <1>1, <1>3

LEMMA MappingStep ==
  ASSUME GuaranteesInv, [Next]_vars, ~ClientInitializes
  PROVE  \A m \in mapping' : SoundFor(m, scenario, tries)
<1>2. CASE ServerAnnounces
  <2>1. PICK info \in Announcements :
          IF mapping = {} THEN Adopt([name |-> info.name, version |-> info.version])
          ELSE mapping' = {Interpret(m, info) : m \in mapping}
    BY <1>2 DEF ServerAnnounces
  <2>2. info \in Server.announces /\ tries # <<>>
    BY <1>2 DEF ServerAnnounces, Announcements
  <2>3. CASE mapping = {}
    <3> DEFINE said == [name |-> info.name, version |-> info.version]
    <3>1. TrueOf(info, scenario)
      BY <2>2, NamesAreTrue DEF GuaranteesInv, Server
    <3>2. TrueOf(said, scenario)
      BY <3>1 DEF TrueOf
    <3>3. Adopt(said)
      BY <2>1, <2>3
    <3> HIDE DEF said
    <3>. QED
      BY <2>2, <3>2, <3>3, AdoptKeepsSound
  <2>4. CASE mapping # {}
    <3>1. mapping' = {Interpret(m, info) : m \in mapping}
      BY <2>1, <2>4
    <3>2. \A m \in mapping : SoundFor(Interpret(m, info), scenario, tries)
      BY <2>2, InterpretedIsSound DEF GuaranteesInv, Server
    <3>. QED
      BY <3>1, <3>2
  <2>. QED
    BY <2>3, <2>4
<1>3. CASE ServerAnswers
  <2>1. PICK result \in Server.results :
          SelectMapping(IF ServerInfo(result) # {} THEN ServerInfo(result)
                        ELSE IdentityFromInitializeResult(result))
    BY <1>3 DEF ServerAnswers
  <2> DEFINE infos == IF ServerInfo(result) # {} THEN ServerInfo(result)
                      ELSE IdentityFromInitializeResult(result)
  <2>2. \A info \in infos : TrueOf(info, scenario)
    BY NamesAreTrue DEF GuaranteesInv, Server
  <2>3. tries # <<>>
    BY <1>3 DEF ServerAnswers, GuaranteesInv, InitializeIsRemembered
  <2>4. SelectMapping(infos)
    BY <2>1
  <2> HIDE DEF infos
  <2>5. CASE mapping' = mapping
    BY <2>5 DEF GuaranteesInv
  <2>6. ASSUME NEW info \in infos, mapping' = {LearnIdentity(m, info) : m \in mapping}
        PROVE  \A m \in mapping' : SoundFor(m, scenario, tries)
    BY <2>6, <2>2, IdentifiedIsSound DEF GuaranteesInv
  <2>7. ASSUME NEW info \in infos, Adopt(info)
        PROVE  \A m \in mapping' : SoundFor(m, scenario, tries)
    BY <2>2, <2>3, <2>7, AdoptKeepsSound
  <2>. QED
    BY <2>4, <2>5, <2>6, <2>7 DEF SelectMapping
<1>4. CASE ClientTells
  <2>1. \/ mapping' = mapping
        \/ \E m \in mapping : \E layouts : mapping' = {[m EXCEPT !.layouts = layouts]}
    BY <1>4 DEF ClientTells
  <2>2. ASSUME NEW m \in mapping, NEW layouts, mapping' = {[m EXCEPT !.layouts = layouts]}
        PROVE  \A n \in mapping' : SoundFor(n, scenario, tries)
    <3>1. SoundFor(m, scenario, tries)
      BY DEF GuaranteesInv
    <3> DEFINE new == [m EXCEPT !.layouts = layouts]
    <3>2. IsMapping(new) /\ new.name = m.name /\ new.tested = m.tested /\ new.symbolLimit = m.symbolLimit
      BY <3>1 DEF SoundFor, IsMapping
    <3>3. SoundFor(new, scenario, tries)
      BY <3>1, <3>2 DEF SoundFor
    <3>. QED
      BY <2>2, <3>3
  <2>. QED
    BY <2>1, <2>2 DEF GuaranteesInv
<1>5. CASE mapping' = mapping
  BY <1>5 DEF GuaranteesInv
<1>. QED
  BY <1>2, <1>3, <1>4, <1>5 DEF Next, vars, ServerCreatesProgress, FileChanges, ClientAddsFolder

LEMMA GuaranteesStep == GuaranteesInv /\ [Next]_vars => GuaranteesInv'
<1> SUFFICES ASSUME GuaranteesInv, [Next]_vars PROVE GuaranteesInv'
  OBVIOUS
<1>1. scenario' = scenario
  BY DEF Next, vars, ClientInitializes, ServerAnnounces, ServerAnswers, ServerCreatesProgress, FileChanges,
         ClientTells, ClientAddsFolder
<1>2. InitializeIsRemembered'
  BY RememberStep
<1>5. CASE ClientInitializes
  <2>1. \A m \in mapping' : SoundFor(m, scenario, tries')
    BY <1>5, RetryKeepsSound
  <2>2. promised' = {}
    BY <1>5 DEF ClientInitializes
  <2>. QED
    BY <1>1, <1>2, <2>1, <2>2 DEF GuaranteesInv
<1>6. ASSUME ~ClientInitializes PROVE tries' = tries
  BY <1>6 DEF Next, vars, ServerAnnounces, ServerAnswers, ServerCreatesProgress, FileChanges,
     ClientTells, ClientAddsFolder
<1>3. ASSUME ~ClientInitializes PROVE \A m \in mapping' : SoundFor(m, scenario, tries)
  BY <1>3, MappingStep
<1>4. ASSUME ~ClientInitializes PROVE \A provider \in promised' : KeptFor(provider, scenario, tries)
  <2>1. CASE ServerAnswers
    <3>1. promised' \subseteq {Provider', NotificationsOnly}
      <4>1. PICK result \in Server.results :
              LET outcome == DeclareServerStateProvider(result, Object(Provider')) IN
              promised' = CASE outcome.action = "notASuccess" -> {}
                            [] outcome.action = "declared" -> {Provider'}
                            [] outcome.action \in {"unrewritable", "upstreamDeclares"} -> {NotificationsOnly}
        BY <2>1 DEF ServerAnswers
      <4> DEFINE action == DeclareServerStateProvider(result, Object(Provider')).action
      <4>2. action \in {"notASuccess", "declared", "unrewritable", "upstreamDeclares"}
        BY DEF DeclareServerStateProvider, Outcome
      <4> HIDE DEF action
      <4>. QED
        BY <4>1, <4>2 DEF action
    <3>2. KeptFor(Provider', scenario, tries)
      <4>1. CASE mapping' = {}
        BY <4>1, NothingIsKept DEF Provider
      <4>2. CASE mapping' # {}
        <5>1. PICK m \in mapping' : Provider' = ProviderOf(m)
          BY <4>2 DEF Provider
        <5>. QED
          BY <5>1, <1>3, <1>4, ProviderIsKept
      <4>. QED
        BY <4>1, <4>2
    <3>. QED
      BY <3>1, <3>2, NothingIsKept
  <2>2. CASE promised' = promised
    BY <2>2 DEF GuaranteesInv
  <2>. QED
    BY <1>4, <2>1, <2>2 DEF Next, vars, ServerAnnounces, ServerCreatesProgress, FileChanges,
       ClientTells, ClientAddsFolder
<1>. QED
  BY <1>1, <1>2, <1>3, <1>4, <1>5, <1>6 DEF GuaranteesInv

\* The mapping is always sound, and what was promised stands.
THEOREM GuaranteesInvariant == Spec => []GuaranteesInv
BY GuaranteesInit, GuaranteesStep, PTL DEF Spec

\* Guarantees are given only for what was tested, and a limit that is promised is the
\* one the last initialize wrote, where it wrote one, or else one that an earlier
\* initialize wrote, or the server's own.
THEOREM TestedOnly == Spec => []GuaranteesAreTested
<1>1. GuaranteesInv => GuaranteesAreTested
  <2> SUFFICES ASSUME GuaranteesInv, NEW provider \in promised
               PROVE  /\ provider # NotificationsOnly =>
                           Server.product \in Versioned /\ Server.version \in Tested[Server.product]
                      /\ \A c \in provider.coverage : Server.product = "rust-analyzer" =>
                           \E limit \in {SymbolLimit(tries[i]) : i \in DOMAIN tries} :
                             /\ c.capped = {<<"workspace/symbol", LearnSymbolLimit(limit)>>}
                             /\ SymbolLimit(sent) \in {limit, "absent"}
    BY DEF GuaranteesAreTested
  <2>1. KeptFor(provider, scenario, tries)
    BY DEF GuaranteesInv
  <2>2. SymbolLimit(sent) = SymbolLimit(Last(tries))
    <3>1. tries \in Seq(scenario.params) /\ tries # <<>> /\ sent = ToUpstream(Last(tries), Server.command)
      BY DEF GuaranteesInv, InitializeIsRemembered
    <3>2. PICK params : params = Last(tries)
      OBVIOUS
    <3>3. params \in scenario.params
      BY <3>1, <3>2, LastIn
    <3>4. IsObject(params)
      BY <3>3, StartupAssumption DEF GuaranteesInv
    <3>. QED
      BY <3>1, <3>2, <3>4, LimitIsSent
  <2>. QED
    BY <2>1, <2>2 DEF KeptFor, IsLimit, IsTested, Server
<1>. QED
  BY <1>1, GuaranteesInvariant, PTL

\* What a cut of a path leaves to one segment.
Piece(pattern, path, k, from, to) ==
  IF pattern[k] = AnyDirectories
  THEN from <= to /\ \A i \in (from + 1)..to : path[i] \notin Hidden
  ELSE to = from + 1 /\ MatchesSegment(pattern[k], path[to])

\* The last i segments span the last j names.
EndSpans(pattern, path, i, j) ==
  \E cut \in [0..Len(pattern) -> 0..Len(path)] :
    /\ cut[Len(pattern) - i] = Len(path) - j /\ cut[Len(pattern)] = Len(path)
    /\ \A k \in (Len(pattern) - i + 1)..Len(pattern) : Piece(pattern, path, k, cut[k - 1], cut[k])

\* One segment more: it spans what is left to it.
NextMatches(pattern, path, i, j, M) ==
  LET segment == pattern[Len(pattern) - i + 1] IN
  IF segment = AnyDirectories
  THEN \E skip \in 0..j :
         /\ \A k \in 1..skip : path[Len(path) - j + k] \notin Hidden
         /\ M[i - 1][j - skip]
  ELSE j > 0 /\ MatchesSegment(segment, path[Len(path) - j + 1]) /\ M[i - 1][j - 1]

LEMMA NoSegments ==
  ASSUME NEW pattern, NEW path, Len(pattern) \in Nat, Len(path) \in Nat, NEW j \in 0..Len(path)
  PROVE  EndSpans(pattern, path, 0, j) <=> j = 0
<1>1. ASSUME EndSpans(pattern, path, 0, j) PROVE j = 0
  BY <1>1 DEF EndSpans
<1>2. ASSUME j = 0 PROVE EndSpans(pattern, path, 0, j)
  <2> DEFINE cut == [k \in 0..Len(pattern) |-> Len(path)]
  <2>1. cut \in [0..Len(pattern) -> 0..Len(path)] /\ cut[Len(pattern)] = Len(path)
    OBVIOUS
  <2>2. (Len(pattern) - 0 + 1)..Len(pattern) = {}
    OBVIOUS
  <2>3. cut[Len(pattern) - 0] = Len(path) - j
    BY <1>2, <2>1
  <2> HIDE DEF cut
  <2>. QED
    BY <2>1, <2>2, <2>3 DEF EndSpans
<1>. QED
  BY <1>1, <1>2

LEMMA OneSegmentMore ==
  ASSUME NEW pattern, NEW path, Len(pattern) \in Nat, Len(path) \in Nat,
         NEW i \in 1..Len(pattern), NEW j \in 0..Len(path), NEW M,
         \A n \in 0..Len(path) : M[i - 1][n] <=> EndSpans(pattern, path, i - 1, n)
  PROVE  EndSpans(pattern, path, i, j) <=> NextMatches(pattern, path, i, j, M)
<1> DEFINE last == Len(pattern)
           end == Len(path)
           first == last - i + 1
<1>1. first \in 1..last /\ first - 1 = last - i /\ last - (i - 1) = first /\ first - 1 \in 0..last
      /\ last - (i - 1) + 1 = first + 1
  OBVIOUS
<1>2. ASSUME EndSpans(pattern, path, i, j) PROVE NextMatches(pattern, path, i, j, M)
  <2>1. PICK cut \in [0..last -> 0..end] :
          /\ cut[last - i] = end - j /\ cut[last] = end
          /\ \A k \in first..last : Piece(pattern, path, k, cut[k - 1], cut[k])
    BY <1>2 DEF EndSpans
  <2> DEFINE to == cut[first]
             left == end - to
  <2>2. to \in 0..end /\ left \in 0..end /\ end - left = to
    BY <1>1
  <2>3. EndSpans(pattern, path, i - 1, left)
    <3>1. \A k \in (first + 1)..last : Piece(pattern, path, k, cut[k - 1], cut[k])
      BY <2>1, <1>1
    <3>2. cut[last - (i - 1)] = end - left
      BY <1>1, <2>2
    <3>. QED
      BY <2>1, <3>1, <3>2, <1>1 DEF EndSpans
  <2>4. M[i - 1][left]
    BY <2>2, <2>3
  <2>5. Piece(pattern, path, first, end - j, to)
    BY <2>1, <1>1
  <2> HIDE DEF to
  <2>6. CASE pattern[first] = AnyDirectories
    <3>1. end - j <= to /\ \A n \in (end - j + 1)..to : path[n] \notin Hidden
      BY <2>5, <2>6 DEF Piece
    <3> DEFINE skip == to - (end - j)
    <3>2. skip \in 0..j /\ j - skip = left
      BY <3>1, <2>2
    <3>3. \A k \in 1..skip : path[end - j + k] \notin Hidden
      BY <3>1, <3>2, <2>2
    <3> HIDE DEF skip, left
    <3>. QED
      BY <2>4, <2>6, <3>2, <3>3 DEF NextMatches
  <2>7. CASE pattern[first] # AnyDirectories
    <3>1. to = end - j + 1 /\ MatchesSegment(pattern[first], path[to])
      BY <2>5, <2>7 DEF Piece
    <3>2. j > 0 /\ j - 1 = left
      BY <3>1, <2>2
    <3> HIDE DEF left
    <3>. QED
      BY <2>4, <2>7, <3>1, <3>2 DEF NextMatches
  <2>. QED
    BY <2>6, <2>7
<1>3. ASSUME NEW left \in 0..end, EndSpans(pattern, path, i - 1, left), Piece(pattern, path, first, end - j, end - left)
      PROVE  EndSpans(pattern, path, i, j)
  <2>1. PICK rest \in [0..last -> 0..end] :
          /\ rest[first] = end - left /\ rest[last] = end
          /\ \A k \in (first + 1)..last : Piece(pattern, path, k, rest[k - 1], rest[k])
    BY <1>1, <1>3 DEF EndSpans
  <2> DEFINE cut == [k \in 0..last |-> IF k = first - 1 THEN end - j ELSE rest[k]]
  <2>2. cut \in [0..last -> 0..end]
    BY <2>1
  <2>3. cut[last - i] = end - j /\ cut[last] = end /\ cut[first] = end - left
    BY <1>1, <2>1
  <2>4. ASSUME NEW k \in first..last PROVE Piece(pattern, path, k, cut[k - 1], cut[k])
    <3>1. CASE k = first
      BY <1>1, <1>3, <2>3, <3>1
    <3>2. CASE k # first
      <4>1. k \in (first + 1)..last /\ k \in 0..last /\ k - 1 \in 0..last /\ k # first - 1 /\ k - 1 # first - 1
        <5>1. last \in Nat
          OBVIOUS
        <5> HIDE DEF first, last
        <5>. QED
          BY <1>1, <3>2, <5>1
      <4>2. cut[k] = rest[k] /\ cut[k - 1] = rest[k - 1]
        BY <4>1
      <4>. QED
        BY <2>1, <4>1, <4>2
    <3>. QED
      BY <3>1, <3>2
  <2> HIDE DEF cut
  <2>. QED
    BY <2>2, <2>3, <2>4 DEF EndSpans
<1>4. ASSUME NextMatches(pattern, path, i, j, M) PROVE EndSpans(pattern, path, i, j)
  <2>1. CASE pattern[first] = AnyDirectories
    <3>1. PICK skip \in 0..j :
            /\ \A k \in 1..skip : path[end - j + k] \notin Hidden
            /\ M[i - 1][j - skip]
      BY <1>4, <2>1 DEF NextMatches
    <3> DEFINE left == j - skip
    <3>2. left \in 0..end /\ end - left = end - j + skip
      OBVIOUS
    <3>3. EndSpans(pattern, path, i - 1, left)
      BY <3>1, <3>2
    <3>4. \A n \in (end - j + 1)..(end - left) : path[n] \notin Hidden
      <4> TAKE n \in (end - j + 1)..(end - left)
      <4>1. n - (end - j) \in 1..skip /\ end - j + (n - (end - j)) = n
        BY <3>2
      <4>. QED
        BY <3>1, <4>1
    <3>5. Piece(pattern, path, first, end - j, end - left)
      BY <2>1, <3>2, <3>4 DEF Piece
    <3>. QED
      BY <1>3, <3>2, <3>3, <3>5
  <2>2. CASE pattern[first] # AnyDirectories
    <3>1. j > 0 /\ MatchesSegment(pattern[first], path[end - j + 1]) /\ M[i - 1][j - 1]
      BY <1>4, <2>2 DEF NextMatches
    <3> DEFINE left == j - 1
    <3>2. left \in 0..end /\ end - left = end - j + 1
      BY <3>1
    <3>3. EndSpans(pattern, path, i - 1, left)
      BY <3>1, <3>2
    <3>5. Piece(pattern, path, first, end - j, end - left)
      BY <2>2, <3>1, <3>2 DEF Piece
    <3>. QED
      BY <1>3, <3>2, <3>3, <3>5
  <2>. QED
    BY <2>1, <2>2
<1>. QED
  BY <1>2, <1>4

\* Matching is spanning.
LEMMA MatchesIsSpans ==
  ASSUME NEW pattern, NEW path, Len(pattern) \in Nat, Len(path) \in Nat, DOMAIN pattern = 1..Len(pattern)
  PROVE  Matches(pattern, path) <=> Spans(pattern, path)
<1> DEFINE last == Len(pattern)
           end == Len(path)
           Row(i, M) == [j \in 0..end |-> IF i = 0 THEN j = 0 ELSE NextMatches(pattern, path, i, j, M)]
           Step(M) == M = [i \in 0..last |-> Row(i, M)]
           S == [i \in 0..last |-> [j \in 0..end |-> EndSpans(pattern, path, i, j)]]
<1>0. last \in Nat
  OBVIOUS
<1>1. Matches(pattern, path) <=> (CHOOSE M : Step(M))[last][end]
  BY DEF Matches, NextMatches
<1>2. Step(S)
  <2>1. ASSUME NEW i \in 0..last, NEW j \in 0..end
        PROVE  EndSpans(pattern, path, i, j) <=> IF i = 0 THEN j = 0 ELSE NextMatches(pattern, path, i, j, S)
    <3>1. CASE i = 0
      BY <3>1, NoSegments
    <3>2. CASE i # 0
      <4>1. i \in 1..last /\ i - 1 \in 0..last
        BY <3>2
      <4>2. \A n \in 0..end : S[i - 1][n] <=> EndSpans(pattern, path, i - 1, n)
        BY <4>1
      <4> HIDE DEF S
      <4>. QED
        BY <3>2, <4>1, <4>2, OneSegmentMore
    <3>. QED
      BY <3>1, <3>2
  <2> HIDE DEF S
  <2>2. ASSUME NEW i \in 0..last
        PROVE  [j \in 0..end |-> EndSpans(pattern, path, i, j)] = Row(i, S)
    <3>1. ASSUME NEW j \in 0..end
          PROVE  EndSpans(pattern, path, i, j) = (IF i = 0 THEN j = 0 ELSE NextMatches(pattern, path, i, j, S))
      <4>1. EndSpans(pattern, path, i, j) \in BOOLEAN /\ NextMatches(pattern, path, i, j, S) \in BOOLEAN
        BY DEF EndSpans, NextMatches
      <4>. QED
        BY <2>1, <4>1
    <3>. QED
      BY <3>1
  <2> HIDE DEF Row
  <2>. QED
    BY <2>2 DEF S
<1>3. ASSUME NEW M, Step(M) PROVE M[last][end] <=> EndSpans(pattern, path, last, end)
  <2>1. ASSUME NEW i \in 0..last, NEW j \in 0..end
        PROVE  M[i][j] <=> IF i = 0 THEN j = 0 ELSE NextMatches(pattern, path, i, j, M)
    <3>1. M[i] = Row(i, M)
      <4> HIDE DEF Row
      <4>. QED
        BY <1>3
    <3>. QED
      BY <3>1
  <2> DEFINE Good == {i \in 0..last : \A j \in 0..end : M[i][j] <=> EndSpans(pattern, path, i, j)}
  <2> HIDE DEF Step, Row
  <2>2. 0 \in Good
    BY <2>1, NoSegments
  <2>3. ASSUME NEW i \in 0..(last - 1), i \in Good PROVE i + 1 \in Good
    <3>1. i + 1 \in 1..last /\ i + 1 \in 0..last /\ i + 1 - 1 = i /\ i + 1 # 0
      OBVIOUS
    <3>2. \A n \in 0..end : M[i + 1 - 1][n] <=> EndSpans(pattern, path, i + 1 - 1, n)
      BY <3>1, <2>3
    <3>3. \A j \in 0..end : EndSpans(pattern, path, i + 1, j) <=> NextMatches(pattern, path, i + 1, j, M)
      BY <3>1, <3>2, OneSegmentMore
    <3>4. \A j \in 0..end : M[i + 1][j] <=> EndSpans(pattern, path, i + 1, j)
      BY <3>1, <3>3, <2>1
    <3>. QED
      BY <3>1, <3>4
  <2> HIDE DEF Good
  <2>4. \A i \in 0..last : i \in Good
    <3> HIDE DEF last
    <3>. QED
      BY <1>0, <2>2, <2>3, UpTo
  <2>. QED
    BY <2>4 DEF Good
<1>4. EndSpans(pattern, path, last, end) <=> Spans(pattern, path)
  <2>1. last - last = 0 /\ end - end = 0 /\ (last - last) + 1 = 1
    OBVIOUS
  <2>. QED
    BY <2>1 DEF EndSpans, Spans, Piece
<1>5. Step(CHOOSE M : Step(M))
  <2> HIDE DEF Step
  <2>. QED
    BY <1>2
<1>. QED
  BY <1>1, <1>3, <1>4, <1>5

\* The names and segments there are.  That a literal is a string is not known to the
\* provers, so the literals are named.
Words == STRING \cup {AnyDirectories, Star, "node_modules", "bower_components", "jspm_packages"}

LEMMA SequencesOver ==
  ASSUME NEW S, NEW T, S \subseteq T
  PROVE  Seq(S) \subseteq Seq(T)
OBVIOUS

LEMMA ShortSequences ==
  ASSUME NEW S, NEW a \in S, NEW b \in S
  PROVE  <<a>> \in Seq(S) /\ <<a, b>> \in Seq(S)
OBVIOUS

LEMMA WordsAndStrings ==
  /\ Seq(STRING) \subseteq Seq(Words)
  /\ <<AnyDirectories, Star>> \in Seq(Words)
  /\ <<"node_modules">> \in Seq(Words) /\ <<"bower_components">> \in Seq(Words)
  /\ <<"jspm_packages">> \in Seq(Words)
<1>1. STRING \subseteq Words
  BY DEF Words
<1>2. Seq(STRING) \subseteq Seq(Words)
  BY <1>1, SequencesOver
<1>3. <<AnyDirectories, Star>> \in Seq(Words)
  BY ShortSequences DEF Words
<1>4. <<"node_modules">> \in Seq(Words)
  BY ShortSequences DEF Words
<1>5. <<"bower_components">> \in Seq(Words)
  BY ShortSequences DEF Words
<1>6. <<"jspm_packages">> \in Seq(Words)
  BY ShortSequences DEF Words
<1>. QED
  BY <1>2, <1>3, <1>4, <1>5, <1>6

\* The segments are kept one by one.
Keeps(f, pattern) ==
  /\ f[0] = <<>>
  /\ \A n \in 0..(Len(pattern) - 1) :
       f[n + 1] = IF pattern[n + 1] = "." THEN f[n] ELSE Append(f[n], pattern[n + 1])

LEMMA SegmentsAre ==
  ASSUME NEW pattern, Len(pattern) \in Nat
  PROVE  \E f : Segments(pattern) = f[Len(pattern)] /\ Keeps(f, pattern)
<1> DEFINE last == Len(pattern)
           Next1(before, n) == IF pattern[n] = "." THEN before ELSE Append(before, pattern[n])
           Kept(f, n) == IF n = 0 THEN <<>> ELSE Next1(f[n - 1], n)
           Upto(f, end) == f = [n \in 0..end |-> Kept(f, n)]
           Good == {end \in 0..last : \E f : Upto(f, end)}
<1>0. last \in Nat
  OBVIOUS
<1>1. 0 \in Good
  <2> DEFINE f == [n \in 0..0 |-> <<>>]
  <2>1. f = [n \in 0..0 |-> Kept(f, n)]
    OBVIOUS
  <2> HIDE DEF f, Kept
  <2>2. Upto(f, 0)
    BY <2>1
  <2> HIDE DEF Upto
  <2>. QED
    BY <2>2
<1>2. ASSUME NEW end \in 0..(last - 1), end \in Good PROVE end + 1 \in Good
  <2>1. PICK f : Upto(f, end)
    BY <1>2
  <2> DEFINE g == [n \in 0..(end + 1) |-> IF n <= end THEN f[n] ELSE Next1(f[end], n)]
  <2> HIDE DEF Next1
  <2>2. ASSUME NEW n \in 0..(end + 1) PROVE g[n] = Kept(g, n)
    <3>1. CASE n = 0
      <4>1. f[0] = <<>>
        BY <2>1
      <4>. QED
        BY <3>1, <4>1
    <3>2. CASE n # 0 /\ n <= end
      <4>1. n \in 0..end /\ n - 1 \in 0..(end + 1) /\ n - 1 <= end
        BY <3>2
      <4>2. f[n] = Next1(f[n - 1], n)
        BY <2>1, <3>2, <4>1
      <4>. QED
        BY <3>2, <4>1, <4>2
    <3>3. CASE n = end + 1
      BY <3>3
    <3>. QED
      BY <3>1, <3>2, <3>3
  <2>3. g = [n \in 0..(end + 1) |-> g[n]]
    OBVIOUS
  <2> HIDE DEF g, Kept
  <2>4. Upto(g, end + 1)
    BY <2>2, <2>3
  <2> HIDE DEF Upto
  <2>5. end + 1 \in 0..last
    BY <1>0
  <2>. QED
    BY <2>4, <2>5
<1>3. \A end \in 0..last : end \in Good
  <2> HIDE DEF Good, last
  <2>. QED
    BY <1>0, <1>1, <1>2, UpTo
<1>4. \E f : Upto(f, last)
  <2>1. last \in Good
    <3>1. last \in 0..last
      BY <1>0
    <3> HIDE DEF Good, last
    <3>. QED
      BY <1>3, <3>1
  <2> HIDE DEF Upto
  <2>. QED
    BY <2>1
<1>5. Segments(pattern) = (CHOOSE f : Upto(f, last))[last]
  BY DEF Segments
<1> DEFINE kept == CHOOSE f : Upto(f, last)
<1>6. Upto(kept, last)
  <2> HIDE DEF Upto
  <2>. QED
    BY <1>4
<1> HIDE DEF kept
<1>7. Keeps(kept, pattern)
  <2>1. kept[0] = <<>>
    BY <1>6, <1>0
  <2>2. ASSUME NEW n \in 1..last PROVE kept[n] = Next1(kept[n - 1], n)
    <3>1. n \in 0..last /\ n # 0
      OBVIOUS
    <3> HIDE DEF last, Next1
    <3>. QED
      BY <1>6, <3>1
  <2>3. ASSUME NEW n \in 0..(last - 1) PROVE kept[n + 1] = Next1(kept[n], n + 1)
    <3>1. n + 1 \in 1..last /\ n + 1 - 1 = n
      OBVIOUS
    <3>2. kept[n + 1] = Next1(kept[n + 1 - 1], n + 1)
      BY <2>2, <3>1
    <3>. QED
      BY <3>1, <3>2
  <2>. QED
    BY <2>1, <2>3 DEF Keeps
<1>. QED
  BY <1>5, <1>7 DEF kept

\* The segments of a sequence of strings are one.
LEMMA SegmentsAreStrings ==
  ASSUME NEW pattern \in Seq(Words)
  PROVE  Segments(pattern) \in Seq(Words)
<1>1. Len(pattern) \in Nat /\ \A n \in 1..Len(pattern) : pattern[n] \in Words
  OBVIOUS
<1>2. PICK f : Segments(pattern) = f[Len(pattern)] /\ Keeps(f, pattern)
  BY <1>1, SegmentsAre
<1> DEFINE Good == {n \in 0..Len(pattern) : f[n] \in Seq(Words)}
<1>3. 0 \in Good
  <2>1. f[0] = <<>> /\ <<>> \in Seq(Words)
    BY <1>2 DEF Keeps
  <2>2. 0 \in 0..Len(pattern)
    BY <1>1
  <2>. QED
    BY <2>1, <2>2
<1>4. ASSUME NEW n \in 0..(Len(pattern) - 1), n \in Good PROVE n + 1 \in Good
  <2>1. n + 1 \in 1..Len(pattern) /\ n + 1 \in 0..Len(pattern)
    BY <1>1
  <2>2. f[n] \in Seq(Words) /\ pattern[n + 1] \in Words
    BY <1>1, <1>4, <2>1
  <2>3. f[n + 1] = f[n] \/ f[n + 1] = Append(f[n], pattern[n + 1])
    BY <1>2 DEF Keeps
  <2>4. Append(f[n], pattern[n + 1]) \in Seq(Words)
    BY <2>2, AppendProperties
  <2>. QED
    BY <2>1, <2>2, <2>3, <2>4
<1>5. \A n \in 0..Len(pattern) : n \in Good
  <2> HIDE DEF Good
  <2>. QED
    BY <1>1, <1>3, <1>4, UpTo
<1>. QED
  BY <1>1, <1>2, <1>5

\* Nothing is kept of what is all ".".
LEMMA NothingKept ==
  ASSUME NEW pattern, Len(pattern) \in Nat, NEW f, Keeps(f, pattern),
         NEW m \in 0..Len(pattern), \A n \in 1..m : pattern[n] = "."
  PROVE  f[m] = <<>>
<1> DEFINE Good == {n \in 0..m : f[n] = <<>>}
<1>1. 0 \in Good
  BY DEF Keeps
<1>2. ASSUME NEW n \in 0..(m - 1), n \in Good PROVE n + 1 \in Good
  <2>1. n \in 0..(Len(pattern) - 1) /\ n + 1 \in 1..m /\ n + 1 \in 0..m
    OBVIOUS
  <2>2. f[n + 1] = f[n]
    BY <2>1 DEF Keeps
  <2>. QED
    BY <1>2, <2>1, <2>2
<1>3. m \in Nat /\ m \in 0..m
  OBVIOUS
<1> HIDE DEF Good
<1>4. m \in Good
  BY <1>1, <1>2, <1>3, UpTo
<1>. QED
  BY <1>4 DEF Good

\* What is kept after a beginning of which nothing is kept is what is kept of the rest.
LEMMA KeptOfRest ==
  ASSUME NEW pattern, Len(pattern) \in Nat, NEW f, Keeps(f, pattern),
         NEW m \in 0..Len(pattern), NEW rest, NEW g, Keeps(g, rest), f[m] = g[0], Len(rest) = Len(pattern) - m,
         \A n \in 1..Len(rest) : rest[n] = pattern[m + n]
  PROVE  g[Len(rest)] = f[Len(pattern)]
<1> DEFINE count == Len(rest)
<1>0. count \in Nat /\ count = Len(pattern) - m /\ \A n \in 1..count : rest[n] = pattern[m + n]
  OBVIOUS
<1> DEFINE Good == {n \in 0..count : g[n] = f[m + n]}
<1>1. 0 \in Good
  <2>1. m + 0 = m
    OBVIOUS
  <2>. QED
    BY <2>1
<1>2. ASSUME NEW n \in 0..(count - 1), n \in Good PROVE n + 1 \in Good
  <2>1. /\ n + 1 \in 1..count /\ n + 1 \in 0..count /\ n \in 0..(Len(rest) - 1) /\ n \in Nat
        /\ m + n \in 0..(Len(pattern) - 1) /\ m + (n + 1) = (m + n) + 1
    BY <1>0
  <2>2. rest[n + 1] = pattern[(m + n) + 1]
    BY <1>0, <2>1
  <2>3. g[n + 1] = IF rest[n + 1] = "." THEN g[n] ELSE Append(g[n], rest[n + 1])
    BY <2>1 DEF Keeps
  <2> DEFINE k == m + n
  <2>4. f[k + 1] = IF pattern[k + 1] = "." THEN f[k] ELSE Append(f[k], pattern[k + 1])
    <3>1. k \in 0..(Len(pattern) - 1)
      BY <2>1
    <3> HIDE DEF k
    <3>. QED
      BY <3>1 DEF Keeps
  <2>5. g[n] = f[k]
    BY <1>2
  <2>. QED
    BY <2>1, <2>2, <2>3, <2>4, <2>5
<1>3. count \in 0..count /\ m + count = Len(pattern)
  BY <1>0
<1>4. count \in Good
  <2> HIDE DEF Good, count
  <2>. QED
    BY <1>0, <1>1, <1>2, <1>3, UpTo
<1>. QED
  BY <1>3, <1>4

\* A leading "./" says nothing of the segments.
LEMMA SegmentsNormalized ==
  ASSUME NEW pattern \in Seq(Words)
  PROVE  Segments(NormalizeEntry(pattern)) = Segments(pattern) /\ NormalizeEntry(pattern) \in Seq(Words)
<1> DEFINE written == {i \in DOMAIN pattern : pattern[i] # "."}
<1>1. Len(pattern) \in Nat /\ DOMAIN pattern = 1..Len(pattern) /\ Len(pattern) \in 0..Len(pattern)
  OBVIOUS
<1>2. PICK f : Segments(pattern) = f[Len(pattern)] /\ Keeps(f, pattern)
  BY <1>1, SegmentsAre
<1>3. CASE written = {}
  <2>1. NormalizeEntry(pattern) = <<>> /\ <<>> \in Seq(Words) /\ Len(<<>>) = 0
    BY <1>3 DEF NormalizeEntry
  <2>2. Segments(<<>>) = <<>>
    <3>1. PICK g : Segments(<<>>) = g[Len(<<>>)] /\ Keeps(g, <<>>)
      BY <2>1, SegmentsAre
    <3>. QED
      BY <2>1, <3>1 DEF Keeps
  <2>3. \A n \in 1..Len(pattern) : pattern[n] = "."
    BY <1>1, <1>3
  <2>4. f[Len(pattern)] = <<>>
    BY <1>1, <1>2, <2>3, NothingKept
  <2>. QED
    BY <2>1, <2>2, <2>4, <1>2
<1>4. CASE written # {}
  <2> DEFINE m == Min(written)
             rest == SubSeq(pattern, m, Len(pattern))
             count == Len(pattern) - (m - 1)
  <2>1. m \in written /\ \A i \in written : m <= i
    <3>1. written \in SUBSET Nat
      BY <1>1
    <3>2. \E i \in written : \A n \in written : i <= n
      BY <1>4, <3>1, LeastNatural
    <3>. QED
      BY <3>2 DEF Min
  <2>2. NormalizeEntry(pattern) = rest
    BY <1>4 DEF NormalizeEntry
  <2> HIDE DEF m
  <2>3. m \in 1..Len(pattern) /\ m - 1 \in 0..Len(pattern)
    BY <1>1, <2>1
  <2>4. \A n \in 1..(m - 1) : pattern[n] = "."
    BY <1>1, <2>1, <2>3
  <2>5. /\ rest \in Seq(Words) /\ Len(rest) = count /\ count \in Nat
        /\ \A n \in 1..count : rest[n] = pattern[m - 1 + n]
    BY <1>1, <2>3
  <2>6. f[m - 1] = <<>>
    BY <1>1, <1>2, <2>3, <2>4, NothingKept
  <2> HIDE DEF rest, written, count
  <2>7. PICK g : Segments(rest) = g[Len(rest)] /\ Keeps(g, rest)
    BY <2>5, SegmentsAre
  <2>8. g[count] = f[Len(pattern)]
    <3> DEFINE start == m - 1
    <3>1. start \in 0..Len(pattern) /\ f[start] = g[0] /\ \A n \in 1..Len(rest) : rest[n] = pattern[start + n]
      BY <2>3, <2>5, <2>6, <2>7 DEF Keeps
    <3>2. Len(rest) = Len(pattern) - start
      BY <2>5 DEF count
    <3> HIDE DEF start
    <3>3. g[Len(rest)] = f[Len(pattern)]
      BY <1>1, <1>2, <2>7, <3>1, <3>2, KeptOfRest
    <3>. QED
      BY <2>5, <3>3
  <2>. QED
    BY <1>2, <2>2, <2>5, <2>7, <2>8
<1>. QED
  BY <1>3, <1>4

--------------------------------------------------------------------------------
(* Projects. *)

\* What is compiled is a sequence of strings, and the same when it is normalized first.
LEMMA CompileIs ==
  ASSUME NEW pattern \in Seq(Words)
  PROVE  Compile(pattern) \in Seq(Words) /\ Compile(NormalizeEntry(pattern)) = Compile(pattern)
<1>1. Segments(pattern) \in Seq(Words)
  BY SegmentsAreStrings
<1>2. <<AnyDirectories, Star>> \in Seq(Words)
  BY WordsAndStrings
<1>3. Segments(pattern) \o <<AnyDirectories, Star>> \in Seq(Words)
  BY <1>1, <1>2, ConcatProperties
<1>4. Segments(NormalizeEntry(pattern)) = Segments(pattern)
  BY SegmentsNormalized
<1>. QED
  BY <1>1, <1>3, <1>4 DEF Compile

LEMMA SpansCompiled ==
  ASSUME NEW pattern \in Seq(Words), NEW path \in Seq(Words)
  PROVE  Matches(Compile(NormalizeEntry(pattern)), path) <=> Spans(Compile(pattern), path)
<1>1. Compile(pattern) \in Seq(Words) /\ Compile(NormalizeEntry(pattern)) = Compile(pattern)
  BY CompileIs
<1> DEFINE compiled == Compile(pattern)
<1>2. compiled \in Seq(Words)
  BY <1>1
<1> HIDE DEF compiled
<1>3. Len(compiled) \in Nat /\ DOMAIN compiled = 1..Len(compiled) /\ Len(path) \in Nat
  BY <1>2
<1>4. Matches(compiled, path) <=> Spans(compiled, path)
  BY <1>3, MatchesIsSpans
<1>. QED
  BY <1>1, <1>4 DEF compiled

LEMMA WrittenAreStrings ==
  ASSUME NEW config, IsContent(config)
  PROVE  WrittenInclude(config) \subseteq Seq(Words) /\ WrittenExclude(config) \subseteq Seq(Words)
<1>1. <<AnyDirectories, Star>> \in Seq(Words)
  BY WordsAndStrings
<1>2. <<"node_modules">> \in Seq(Words) /\ <<"bower_components">> \in Seq(Words) /\ <<"jspm_packages">> \in Seq(Words)
  BY WordsAndStrings
<1>3. DefaultExclude \subseteq Seq(Words)
  BY <1>2 DEF DefaultExclude
<1>4. UNION config.include \subseteq Seq(Words) /\ UNION config.exclude \subseteq Seq(Words)
      /\ config.outDir \subseteq Seq(Words)
  BY WordsAndStrings DEF IsContent
<1>5. WrittenInclude(config) \in {UNION config.include, {}, {<<AnyDirectories, Star>>}}
  BY DEF WrittenInclude
<1>6. WrittenExclude(config) \in {UNION config.exclude, DefaultExclude \cup config.outDir}
  BY DEF WrittenExclude
<1>7. WrittenInclude(config) \subseteq Seq(Words)
  BY <1>1, <1>4, <1>5
<1>8. WrittenExclude(config) \subseteq Seq(Words)
  BY <1>3, <1>4, <1>6
<1>. QED
  BY <1>7, <1>8

\* What the scope that was read takes in is in the project.
LEMMA TakenIsInProject ==
  ASSUME NEW config, IsContent(config), NEW scope \in ReadScope(config), NEW source \in Seq(Words),
         TakesIn(scope, source)
  PROVE  InProject(config, source)
<1>1. /\ scope.files = {NormalizeEntry(p) : p \in UNION config.files}
      /\ scope.include = {Compile(p) : p \in {NormalizeEntry(q) : q \in WrittenInclude(config)}}
      /\ scope.exclude = {Compile(p) : p \in {NormalizeEntry(q) : q \in WrittenExclude(config)}}
  BY DEF ReadScope
<1>2. CASE source \in scope.files
  <2>1. \E files \in config.files : \E f \in files : NormalizeEntry(f) = source
    BY <1>1, <1>2
  <2>. QED
    BY <2>1 DEF InProject
<1>3. CASE /\ \E p \in scope.include : Matches(p, source)
           /\ ~ \E p \in scope.exclude : \E end \in DOMAIN source : Matches(p, SubSeq(source, 1, end))
  <2>1. PICK q \in WrittenInclude(config) : Matches(Compile(NormalizeEntry(q)), source)
    BY <1>1, <1>3
  <2>2. Spans(Compile(q), source)
    BY <2>1, WrittenAreStrings, SpansCompiled
  <2>3. ASSUME NEW p \in WrittenExclude(config), NEW n \in DOMAIN source
        PROVE  ~Spans(Compile(p), SubSeq(source, 1, n))
    <3>1. Compile(NormalizeEntry(p)) \in scope.exclude
      BY <1>1
    <3>2. ~Matches(Compile(NormalizeEntry(p)), SubSeq(source, 1, n))
      BY <1>3, <3>1
    <3>3. SubSeq(source, 1, n) \in Seq(Words)
      OBVIOUS
    <3>. QED
      BY <3>2, <3>3, WrittenAreStrings, SpansCompiled
  <2>. QED
    BY <2>2, <2>3 DEF InProject
<1>. QED
  BY <1>2, <1>3 DEF TakesIn

--------------------------------------------------------------------------------
(* Layouts. *)

ConfigsOf(folder) == {path \in Walk(DOMAIN folder) : IsConfigFile(path)}
SourcesOf(folder) == {path \in Walk(DOMAIN folder) : ~IsConfigFile(path) /\ IsSource(path)}

\* The layout says what the one configuration of the folder says.
ConfigKnown(layout, folder) ==
  \E path \in DOMAIN folder :
    /\ ConfigsOf(folder) = {path} /\ Len(path) = 1
    /\ ~folder[path].extends
    /\ layout.allowJs => AllowJs(folder[path], path)
    /\ layout.scope = ReadScope(folder[path])

\* The layout takes a source in.
TakenIn(layout, source) ==
  /\ layout.allowJs \/ Name(source) \notin Javascript
  /\ \A scope \in layout.scope : TakesIn(scope, source)

ConfigTold(i, pending) == \E change \in pending : change.folder = i /\ IsConfigChange(change.path)
SourceTold(i, source, pending) ==
  \E change \in pending : change.folder = i /\ change.path = source /\ change.type = Created

\* What a complete layout says of a folder is true, but for what the client has yet to tell.
RootKnown(layout, i, folder, pending) ==
  /\ layout.root = i
  /\ layout.complete =>
       /\ layout.scope # {} /\ \A a, b \in layout.scope : a = b
       /\ ConfigTold(i, pending) \/ ConfigKnown(layout, folder)
       /\ \A source \in SourcesOf(folder) : TakenIn(layout, source) \/ SourceTold(i, source, pending)

\* A folder that is assessed is known.
LEMMA AssessedIsKnown ==
  ASSUME NEW folder, IsFolder(folder), NEW l, l = AssessFolder(DOMAIN folder, folder), l.complete
  PROVE  /\ l.scope # {} /\ \A a, b \in l.scope : a = b
         /\ ConfigKnown(l, folder)
         /\ \A source \in SourcesOf(folder) : TakenIn(l, source)
<1> DEFINE configs == ConfigsOf(folder)
           sources == SourcesOf(folder)
           path == CHOOSE c \in configs : TRUE
           config == folder[path]
           allowJs == AllowJs(config, path)
           complete == [complete |-> /\ ~config.extends
                                     /\ \A source \in sources :
                                          /\ allowJs \/ Name(source) \notin Javascript
                                          /\ \A scope \in ReadScope(config) : TakesIn(scope, source),
                        allowJs |-> allowJs, scope |-> ReadScope(config)]
<1>1. \A b : ~Incomplete(b).complete
  BY DEF Incomplete
<1>2. Cardinality(configs) = 1 /\ (\A c \in configs : Len(c) = 1) /\ ReadScope(config) # {} /\ l = complete
  <2>1. \/ l = Incomplete(FALSE) \/ l = Incomplete(allowJs)
        \/ Cardinality(configs) = 1 /\ (\A c \in configs : Len(c) = 1) /\ ReadScope(config) # {} /\ l = complete
    BY Zenon DEF AssessFolder, ConfigsOf, SourcesOf
  <2>. QED
    BY <1>1, <2>1
<1>3. PICK c : configs = {c}
  <2>1. IsFiniteSet(configs)
    <3>1. configs \subseteq DOMAIN folder /\ IsFiniteSet(DOMAIN folder)
      BY DEF ConfigsOf, Walk, IsFolder
    <3>. QED
      BY <3>1, FS_Subset
  <2>. QED
    BY <1>2, <2>1, FS_Singleton
<1>4. path = c /\ path \in DOMAIN folder
  BY <1>3 DEF ConfigsOf, Walk
<1>5. l.scope = ReadScope(config) /\ l.allowJs = allowJs /\ ~config.extends
      /\ \A source \in sources : TakenIn(l, source)
  <2> HIDE DEF sources, config, allowJs
  <2>1. l.scope = ReadScope(config) /\ l.allowJs = allowJs
    BY <1>2
  <2>2. /\ ~config.extends
        /\ \A source \in sources :
             /\ allowJs \/ Name(source) \notin Javascript
             /\ \A scope \in ReadScope(config) : TakesIn(scope, source)
    BY <1>2
  <2>. QED
    BY <2>1, <2>2 DEF TakenIn
<1>6. \A a, b \in ReadScope(config) : a = b
  BY DEF ReadScope
<1>. QED
  BY <1>2, <1>3, <1>4, <1>5, <1>6 DEF ConfigKnown

--------------------------------------------------------------------------------
(* What is known of a layout, as the workspace changes and the client tells of it. *)

LEMMA AssessRootIsKnown ==
  ASSUME NEW i, IsFolder(folders[i]), NEW pending
  PROVE  RootKnown(AssessRoot(i), i, folders[i], pending)
<1> DEFINE folder == folders[i]
           l == AssessFolder(DOMAIN folder, folder)
           new == AssessRoot(i)
<1>1. new.root = i /\ new.complete = l.complete /\ new.allowJs = l.allowJs /\ new.scope = l.scope
  BY DEF AssessRoot
<1>2. l.complete =>
        /\ l.scope # {} /\ \A a, b \in l.scope : a = b
        /\ ConfigKnown(l, folder)
        /\ \A source \in SourcesOf(folder) : TakenIn(l, source)
  BY AssessedIsKnown
<1> HIDE DEF l, new, folder
<1>3. ConfigKnown(l, folder) => ConfigKnown(new, folder)
  BY <1>1 DEF ConfigKnown
<1>4. \A source : TakenIn(l, source) => TakenIn(new, source)
  BY <1>1 DEF TakenIn
<1>5. RootKnown(new, i, folder, pending)
  BY <1>1, <1>2, <1>3, <1>4 DEF RootKnown
<1>. QED
  BY <1>5 DEF new, folder

\* More to tell takes nothing away.
LEMMA KnownWithMore ==
  ASSUME NEW layout, NEW i, NEW folder, NEW pending, RootKnown(layout, i, folder, pending),
         NEW more, pending \subseteq more
  PROVE  RootKnown(layout, i, folder, more)
BY DEF RootKnown, ConfigTold, SourceTold

\* A configuration that a change spares is known still, and one that it does not is told of.
LEMMA ConfigSpared ==
  ASSUME NEW layout, NEW folder, NEW new, NEW path,
         ConfigKnown(layout, folder), ~IsConfigChange(path),
         DOMAIN new \ {path} = DOMAIN folder \ {path},
         \A p \in DOMAIN folder \ {path} : new[p] = folder[p]
  PROVE  ConfigKnown(layout, new)
<1>1. PICK c \in DOMAIN folder :
        /\ ConfigsOf(folder) = {c} /\ Len(c) = 1
        /\ ~folder[c].extends
        /\ layout.allowJs => AllowJs(folder[c], c)
        /\ layout.scope = ReadScope(folder[c])
  BY DEF ConfigKnown
<1>2. \A p : p \in ConfigsOf(folder) \/ p \in ConfigsOf(new) => p # path
  BY DEF ConfigsOf, Walk, IsConfigChange
<1>3. ConfigsOf(new) = ConfigsOf(folder)
  BY <1>2 DEF ConfigsOf, Walk
<1>4. c \in DOMAIN new /\ new[c] = folder[c]
  BY <1>1, <1>2
<1>. QED
  BY <1>1, <1>3, <1>4 DEF ConfigKnown

\* A file that is written or removed, and will be told of.
LEMMA KnownAfterChange ==
  ASSUME NEW layout, NEW i, NEW folder, NEW pending, RootKnown(layout, i, folder, pending),
         NEW new, NEW path, NEW type,
         DOMAIN new \ {path} = DOMAIN folder \ {path},
         \A p \in DOMAIN folder \ {path} : new[p] = folder[p],
         path \in DOMAIN new \ DOMAIN folder => type = Created
  PROVE  RootKnown(layout, i, new, pending \cup {[folder |-> i, path |-> path, type |-> type]})
<1> DEFINE change == [folder |-> i, path |-> path, type |-> type]
           all == pending \cup {change}
<1>1. change.folder = i /\ change.path = path /\ change.type = type /\ change \in all /\ pending \subseteq all
  OBVIOUS
<1> HIDE DEF change, all
<1>2. ConfigTold(i, pending) => ConfigTold(i, all)
  BY <1>1 DEF ConfigTold
<1>3. IsConfigChange(path) => ConfigTold(i, all)
  BY <1>1 DEF ConfigTold
<1>4. ConfigKnown(layout, folder) /\ ~IsConfigChange(path) => ConfigKnown(layout, new)
  BY ConfigSpared
<1>5. ASSUME NEW source \in SourcesOf(new), layout.complete
      PROVE  TakenIn(layout, source) \/ SourceTold(i, source, all)
  <2>1. CASE source \in SourcesOf(folder)
    BY <1>1, <1>5, <2>1 DEF RootKnown, SourceTold
  <2>2. CASE source \notin SourcesOf(folder)
    <3>1. source = path /\ path \in DOMAIN new \ DOMAIN folder
      BY <1>5, <2>2 DEF SourcesOf, Walk
    <3>. QED
      BY <1>1, <3>1 DEF SourceTold
  <2>. QED
    BY <2>1, <2>2
<1>6. RootKnown(layout, i, new, all)
  BY <1>2, <1>3, <1>4, <1>5 DEF RootKnown
<1>. QED
  BY <1>6 DEF all, change

\* What was told, where it leaves the layout as it was.
LEMMA KnownWhenTold ==
  ASSUME NEW layout, NEW i, NEW folder, NEW pending, RootKnown(layout, i, folder, pending),
         NEW told, ~ConfigTold(i, told),
         \A change \in told :
           ~(change.type = Created /\ change.folder = i /\ NewSourceOutside(layout, change.path))
  PROVE  RootKnown(layout, i, folder, pending \ told)
<1>1. ConfigTold(i, pending) => ConfigTold(i, pending \ told)
  BY DEF ConfigTold
<1>2. ASSUME NEW source \in SourcesOf(folder), layout.complete
      PROVE  TakenIn(layout, source) \/ SourceTold(i, source, pending \ told)
  <2>1. CASE SourceTold(i, source, told)
    <3>1. ~NewSourceOutside(layout, source)
      BY <2>1 DEF SourceTold
    <3>2. Inside(source) /\ ~IsConfigFile(source) /\ IsSource(source)
      BY DEF SourcesOf, Walk
    <3>3. (Name(source) \in Javascript => layout.allowJs) /\ \E scope \in layout.scope : TakesIn(scope, source)
      BY <3>1, <3>2 DEF NewSourceOutside
    <3>4. \A a, b \in layout.scope : a = b
      BY <1>2 DEF RootKnown
    <3>. QED
      BY <3>3, <3>4 DEF TakenIn
  <2>2. CASE ~SourceTold(i, source, told)
    BY <1>2, <2>2 DEF SourceTold, RootKnown
  <2>. QED
    BY <2>1, <2>2
<1>. QED
  BY <1>1, <1>2 DEF RootKnown

\* What is known of a complete layout, with nothing left to tell, makes a project.
LEMMA KnownIsProject ==
  ASSUME NEW layout, layout.complete, Len(folders) = 1, IsFolder(folders[1]),
         RootKnown(layout, 1, folders[1], {})
  PROVE  OneProject
<1> DEFINE folder == folders[1]
           seen == {p \in DOMAIN folder : \A n \in DOMAIN p : p[n] \notin SkippedDirs}
           configs == {p \in seen : Name(p) \in ConfigNames}
<1>1. ConfigKnown(layout, folder) /\ \A source \in SourcesOf(folder) : TakenIn(layout, source)
  BY DEF RootKnown, ConfigTold, SourceTold
<1>2. seen = Walk(DOMAIN folder) /\ configs = ConfigsOf(folder)
  BY DEF Walk, Inside, ConfigsOf, IsConfigFile
<1>3. PICK path \in DOMAIN folder :
        /\ ConfigsOf(folder) = {path} /\ Len(path) = 1
        /\ ~folder[path].extends
        /\ layout.allowJs => AllowJs(folder[path], path)
        /\ layout.scope = ReadScope(folder[path])
  BY <1>1 DEF ConfigKnown
<1>4. ASSUME NEW source \in seen \ configs, Name(source) \in Typescript \cup Javascript
      PROVE  /\ Name(source) \in Javascript => AllowJs(folder[path], path)
             /\ InProject(folder[path], source)
  <2>1. source \in SourcesOf(folder)
    BY <1>2, <1>4 DEF SourcesOf, ConfigsOf, IsSource
  <2>2. TakenIn(layout, source)
    BY <1>1, <2>1
  <2>3. PICK scope \in layout.scope : TakesIn(scope, source)
    BY <2>2 DEF RootKnown, TakenIn
  <2>4. IsContent(folder[path]) /\ source \in Seq(Words)
    <3>1. source \in DOMAIN folder
      BY <2>1 DEF SourcesOf, Walk
    <3>. QED
      BY <3>1, WordsAndStrings DEF IsFolder
  <2>. QED
    BY <1>3, <2>2, <2>3, <2>4, TakenIsInProject DEF TakenIn
<1>5. path \in configs /\ configs = {path}
  BY <1>2, <1>3
<1>6. \A source \in seen \ configs : Name(source) \in Typescript \cup Javascript =>
        /\ Name(source) \in Javascript => AllowJs(folder[path], path)
        /\ InProject(folder[path], source)
  BY <1>4
<1> HIDE DEF seen, configs
<1>7. \E p \in configs :
        /\ configs = {p} /\ Len(p) = 1
        /\ ~folder[p].extends
        /\ \A source \in seen \ configs : Name(source) \in Typescript \cup Javascript =>
             /\ Name(source) \in Javascript => AllowJs(folder[p], p)
             /\ InProject(folder[p], source)
  BY <1>3, <1>5, <1>6
<1>. QED
  BY <1>7 DEF OneProject, seen, configs

--------------------------------------------------------------------------------
(* The promise of coverage. *)

Typescripts == "typescript-language-server"

\* Coverage is promised, and not withdrawn.
Standing == ~withdrawn /\ \E provider \in promised : provider.coverage # {}

\* The disk holds folders.
Disk ==
  /\ Len(folders) \in Nat /\ folders = [i \in 1..Len(folders) |-> folders[i]]
  /\ \A i \in 1..Len(folders) : IsFolder(folders[i])

\* The mapping has a layout for each folder, and what they say is known.
LayoutsKnown(m) ==
  m.name = Typescripts =>
    /\ m.layouts = [i \in 1..Len(folders) |-> m.layouts[i]]
    /\ \A i \in 1..Len(folders) : RootKnown(m.layouts[i], i, folders[i], untold)

\* Until something is promised the layouts are known, and from then on for as long as
\* the promise stands.
CoverageInv ==
  /\ Disk
  /\ waiting => promised = {}
  /\ promised = {} => Len(folders) = Len(scenario.folders)
  /\ \A m, n \in mapping : m = n
  /\ Server.product = Typescripts =>
       /\ promised = {} \/ Standing => \A m \in mapping : LayoutsKnown(m)
       /\ Standing => \E m \in mapping : m.name = Typescripts /\ m.tested /\ WorkspaceComplete(m.layouts)

LEMMA LengthIs ==
  ASSUME NEW n \in Nat, NEW f, f = [i \in 1..n |-> f[i]]
  PROVE  Len(f) = n /\ DOMAIN f = 1..n /\ f \in Seq({f[i] : i \in 1..n})
<1> DEFINE S == {f[i] : i \in 1..n}
<1>1. f \in [1..n -> S]
  OBVIOUS
<1> HIDE DEF S
<1>2. f \in Seq(S)
  BY <1>1
<1>3. Len(f) = n /\ DOMAIN f = 1..n
  BY <1>1, <1>2
<1>. QED
  BY <1>2, <1>3 DEF S

\* Every folder there was, and another.
LEMMA DiskGrows ==
  ASSUME Disk, NEW i \in 1..Len(folders), folders' = Append(folders, folders[i])
  PROVE  Disk'
<1> DEFINE n == Len(folders)
           S == {folders[k] : k \in 1..n}
<1>1. n \in Nat /\ folders = [k \in 1..n |-> folders[k]]
  BY DEF Disk
<1>2. folders \in Seq(S) /\ folders[i] \in S
  BY <1>1, LengthIs
<1>3. folders' \in Seq(S) /\ Len(folders') = n + 1
  BY <1>2, AppendProperties
<1>4. \A folder \in S : IsFolder(folder)
  BY DEF Disk
<1> HIDE DEF n, S
<1>5. Len(folders') \in Nat /\ folders' = [k \in 1..Len(folders') |-> folders'[k]]
  BY <1>1, <1>3
<1>6. \A k \in 1..Len(folders') : folders'[k] \in S
  BY <1>3
<1>7. \A k \in 1..Len(folders') : IsFolder(folders'[k])
  BY <1>4, <1>6
<1>. QED
  BY <1>5, <1>7 DEF Disk

\* One folder is another, and the others are as they were.
LEMMA DiskChanges ==
  ASSUME Disk, NEW i \in 1..Len(folders), NEW folder, IsFolder(folder),
         folders' = [folders EXCEPT ![i] = folder]
  PROVE  /\ Disk' /\ Len(folders') = Len(folders) /\ folders'[i] = folder
         /\ \A k \in 1..Len(folders) \ {i} : folders'[k] = folders[k]
<1> DEFINE n == Len(folders)
<1>1. n \in Nat /\ folders = [k \in 1..n |-> folders[k]]
  BY DEF Disk
<1>2. \A k \in 1..n : IsFolder(folders[k])
  BY DEF Disk
<1> HIDE DEF n
<1>3. folders' = [k \in 1..n |-> IF k = i THEN folder ELSE folders[k]] /\ i \in 1..n
  BY <1>1 DEF n
<1>4. folders'[i] = folder /\ \A k \in 1..n \ {i} : folders'[k] = folders[k]
  BY <1>3
<1>5. folders' = [k \in 1..n |-> folders'[k]]
  BY <1>3
<1>6. Len(folders') = n
  BY <1>1, <1>5, LengthIs
<1>7. \A k \in 1..n : IsFolder(folders'[k])
  BY <1>2, <1>4
<1>. QED
  BY <1>1, <1>4, <1>5, <1>6, <1>7 DEF Disk, n

\* A folder stays one when a file is written in it or removed.
LEMMA WrittenIsFolder ==
  ASSUME NEW folder, IsFolder(folder), NEW path \in DOMAIN Contents, NEW content \in Contents[path],
         NEW new, new = Put(folder, path, content)
  PROVE  IsFolder(new) /\ DOMAIN new = DOMAIN folder \cup {path}
<1>1. DOMAIN new = DOMAIN folder \cup {path} /\ new[path] = content
      /\ \A p \in DOMAIN folder \ {path} : new[p] = folder[p]
  BY DEF Put
<1>2. path \in Seq(STRING) \ {<<>>} /\ IsContent(content)
  BY StartupAssumption
<1>3. IsFiniteSet(DOMAIN folder \cup {path})
  BY FS_AddElement DEF IsFolder
<1>. QED
  BY <1>1, <1>2, <1>3 DEF IsFolder

LEMMA RemovedIsFolder ==
  ASSUME NEW folder, IsFolder(folder), NEW path, NEW new, new = Restrict(folder, DOMAIN folder \ {path})
  PROVE  IsFolder(new) /\ DOMAIN new = DOMAIN folder \ {path}
<1>1. DOMAIN new = DOMAIN folder \ {path}
      /\ \A p \in DOMAIN folder \ {path} : new[p] = folder[p]
  BY DEF Restrict
<1>2. IsFiniteSet(DOMAIN folder \ {path})
  BY FS_Subset DEF IsFolder
<1>. QED
  BY <1>1, <1>2 DEF IsFolder

\* A file on disk is written or removed: the layouts are known as before.
LEMMA FileStep ==
  ASSUME Disk, FileChanges
  PROVE  /\ Disk' /\ Len(folders') = Len(folders)
         /\ \A m \in mapping : LayoutsKnown(m) => LayoutsKnown(m)'
<1>1. PICK i, path, new, type :
        /\ i \in DOMAIN folders /\ path \in DOMAIN Contents
        /\ folders' = [folders EXCEPT ![i] = new]
        /\ untold' = untold \cup {[folder |-> i, path |-> path, type |-> type]}
        /\ \/ \E content \in Contents[path] :
                new = Put(folders[i], path, content)
                /\ type = IF path \in DOMAIN folders[i] THEN Changed ELSE Created
           \/ new = Restrict(folders[i], DOMAIN folders[i] \ {path}) /\ type = Deleted
  BY DEF FileChanges
<1>2. i \in 1..Len(folders) /\ IsFolder(folders[i])
  BY <1>1, LengthIs DEF Disk
<1>3. /\ IsFolder(new) /\ DOMAIN new \ {path} = DOMAIN folders[i] \ {path}
      /\ \A p \in DOMAIN folders[i] \ {path} : new[p] = folders[i][p]
      /\ path \in DOMAIN new \ DOMAIN folders[i] => type = Created
  <2> DEFINE folder == folders[i]
  <2>0. IsFolder(folder)
    BY <1>2
  <2> HIDE DEF folder
  <2>1. ASSUME NEW content \in Contents[path], new = Put(folder, path, content),
               type = IF path \in DOMAIN folder THEN Changed ELSE Created
        PROVE  /\ IsFolder(new) /\ DOMAIN new \ {path} = DOMAIN folder \ {path}
               /\ \A p \in DOMAIN folder \ {path} : new[p] = folder[p]
               /\ path \in DOMAIN new \ DOMAIN folder => type = Created
    <3>1. IsFolder(new) /\ DOMAIN new = DOMAIN folder \cup {path}
      BY <1>1, <2>0, <2>1, WrittenIsFolder
    <3>2. \A p \in DOMAIN folder \ {path} : new[p] = folder[p]
      BY <2>1 DEF Put
    <3>. QED
      BY <2>1, <3>1, <3>2
  <2>2. ASSUME new = Restrict(folder, DOMAIN folder \ {path})
        PROVE  /\ IsFolder(new) /\ DOMAIN new \ {path} = DOMAIN folder \ {path}
               /\ \A p \in DOMAIN folder \ {path} : new[p] = folder[p]
               /\ path \in DOMAIN new \ DOMAIN folder => type = Created
    <3>1. IsFolder(new) /\ DOMAIN new = DOMAIN folder \ {path}
      BY <2>0, <2>2, RemovedIsFolder
    <3>2. \A p \in DOMAIN folder \ {path} : new[p] = folder[p]
      BY <2>2 DEF Restrict
    <3>. QED
      BY <3>1, <3>2
  <2>. QED
    BY <1>1, <2>1, <2>2 DEF folder
<1>4. /\ Disk' /\ Len(folders') = Len(folders) /\ folders'[i] = new
      /\ \A k \in 1..Len(folders) \ {i} : folders'[k] = folders[k]
  BY <1>1, <1>2, <1>3, DiskChanges
<1>5. ASSUME NEW m \in mapping, m.name = Typescripts, LayoutsKnown(m), NEW k \in 1..Len(folders)
      PROVE  RootKnown(m.layouts[k], k, folders'[k], untold')
  <2>1. RootKnown(m.layouts[k], k, folders[k], untold)
    BY <1>5 DEF LayoutsKnown
  <2>2. CASE k = i
    BY <1>1, <1>3, <1>4, <2>1, <2>2, KnownAfterChange
  <2>3. CASE k # i
    BY <1>1, <1>4, <2>1, <2>3, KnownWithMore
  <2>. QED
    BY <2>2, <2>3
<1>6. \A m \in mapping : LayoutsKnown(m) => LayoutsKnown(m)'
  BY <1>4, <1>5 DEF LayoutsKnown
<1>. QED
  BY <1>4, <1>6

\* What is assessed is known.
LEMMA AssessedAreKnown ==
  ASSUME Disk, scenario \in Scenarios, Len(folders) = Len(scenario.folders), Server.product = Typescripts,
         NEW m, IsMapping(m), NEW params \in scenario.params, NEW new, new = LearnWorkspaceRoots(m, params)
  PROVE  LayoutsKnown(new)
<1>1. CASE m.name = Typescripts
  <2> DEFINE roots == WorkspaceRoots(params, FolderOf)
             n == Len(folders)
  <2>1. roots = [i \in DOMAIN scenario.folders |-> i]
    BY StartupAssumption DEF Server, Typescripts
  <2>2. n \in Nat /\ DOMAIN scenario.folders = 1..n
    <3>1. Len(scenario.folders) \in Nat
          /\ scenario.folders = [i \in 1..Len(scenario.folders) |-> scenario.folders[i]]
      BY StartupAssumption
    <3>. QED
      BY <3>1 DEF Disk
  <2>3. new.layouts = Assess(roots) /\ new.name = Typescripts
    BY <1>1 DEF LearnWorkspaceRoots, Typescripts, IsMapping
  <2> HIDE DEF roots, n
  <2>4. new.layouts = [i \in 1..n |-> AssessRoot(i)]
    BY <2>1, <2>2, <2>3 DEF Assess
  <2>5. \A i \in 1..n : RootKnown(AssessRoot(i), i, folders[i], untold)
    BY AssessRootIsKnown DEF Disk, n
  <2>6. new.layouts = [i \in 1..n |-> new.layouts[i]] /\ \A i \in 1..n : new.layouts[i] = AssessRoot(i)
    BY <2>4
  <2>. QED
    BY <2>5, <2>6 DEF LayoutsKnown, n
<1>2. CASE m.name # Typescripts
  <2>1. new.name # Typescripts
    BY <1>2, LearnsRoots
  <2>. QED
    BY <2>1 DEF LayoutsKnown
<1>. QED
  BY <1>1, <1>2

LEMMA KnownByLayouts ==
  ASSUME NEW m, LayoutsKnown(m), NEW new, new.name = m.name, new.layouts = m.layouts
  PROVE  LayoutsKnown(new)
BY DEF LayoutsKnown

--------------------------------------------------------------------------------
(* Each step keeps what is known. *)

\* What is learnt of the options or of the version leaves the layouts.
LEMMA AdoptedIsKnown ==
  ASSUME Disk, scenario \in Scenarios, Len(folders) = Len(scenario.folders), Server.product = Typescripts,
         \A m, n \in mapping : m = n, \A m \in mapping : LayoutsKnown(m), NEW info, Adopt(info),
         tries \in Seq(scenario.params), tries # <<>>
  PROVE  \A m \in mapping' : LayoutsKnown(m)
<1>1. CASE info.name \in Known
  <2> DEFINE new == NewMapping(info.name, info.version)
             roots == LearnWorkspaceRoots(new, Last(tries))
             m == LearnInitializationOptions(roots, options)
  <2>1. mapping' = {m}
    BY <1>1 DEF Adopt
  <2>2. IsMapping(new)
    BY NewMappingIs
  <2> HIDE DEF new
  <2>3. LayoutsKnown(roots) /\ IsMapping(roots)
    <3>1. Last(tries) \in scenario.params
      BY LastIn
    <3>. QED
      BY <2>2, <3>1, AssessedAreKnown, LearnsRoots
  <2> HIDE DEF roots
  <2>4. m.name = roots.name /\ m.layouts = roots.layouts
    BY <2>3, LearnsOptions
  <2> HIDE DEF m
  <2>5. LayoutsKnown(m)
    BY <2>3, <2>4, KnownByLayouts
  <2>. QED
    BY <2>1, <2>5
<1>2. CASE info.name \notin Known
  BY <1>2 DEF Adopt
<1>. QED
  BY <1>1, <1>2

\* There is one mapping at most.
LEMMA OneMapping ==
  ASSUME \A m, n \in mapping : m = n, [Next]_vars
  PROVE  \A m, n \in mapping' : m = n
<1>1. ASSUME NEW info, Adopt(info)
      PROVE  \A m, n \in mapping' : m = n
  BY <1>1 DEF Adopt
<1>2. CASE ClientInitializes
  BY <1>2 DEF ClientInitializes, RememberInitialize
<1>3. CASE ServerAnnounces
  BY <1>1, <1>3 DEF ServerAnnounces
<1>4. CASE ServerAnswers
  <2>1. \/ mapping' = mapping \/ \E info : Adopt(info)
        \/ \E info : mapping' = {LearnIdentity(m, info) : m \in mapping}
    BY <1>4 DEF ServerAnswers, SelectMapping
  <2>. QED
    BY <1>1, <2>1
<1>5. CASE ClientTells
  BY <1>5 DEF ClientTells
<1>6. CASE mapping' = mapping
  BY <1>6
<1>. QED
  BY <1>2, <1>3, <1>4, <1>5, <1>6 DEF Next, vars, ServerCreatesProgress, FileChanges, ClientAddsFolder

\* The layouts after a step that promises nothing yet, or keeps a promise that stands.
LEMMA AnnouncedKeepsKnown ==
  ASSUME GuaranteesInv, CoverageInv, Server.product = Typescripts, promised = {} \/ Standing, ServerAnnounces
  PROVE  \A m \in mapping' : LayoutsKnown(m)
<1>1. PICK info \in Announcements :
        IF mapping = {} THEN Adopt([name |-> info.name, version |-> info.version])
        ELSE mapping' = {Interpret(m, info) : m \in mapping}
  BY DEF ServerAnnounces
<1>2. \A m \in mapping : LayoutsKnown(m) /\ IsMapping(m)
  BY DEF CoverageInv, GuaranteesInv, SoundFor
<1>3. CASE mapping = {}
  <2>1. promised = {}
    BY <1>3 DEF CoverageInv
  <2> DEFINE said == [name |-> info.name, version |-> info.version]
  <2>2. Adopt(said)
    BY <1>1, <1>3
  <2> HIDE DEF said
  <2>3. tries \in Seq(scenario.params) /\ tries # <<>>
    BY DEF ServerAnnounces, GuaranteesInv, InitializeIsRemembered
  <2>. QED
    BY <1>3, <2>1, <2>2, <2>3, AdoptedIsKnown DEF CoverageInv, GuaranteesInv
<1>4. CASE mapping # {}
  <2>1. mapping' = {Interpret(m, info) : m \in mapping}
    BY <1>1, <1>4
  <2>2. \A m \in mapping : LayoutsKnown(Interpret(m, info))
    BY <1>2, LearnsAnnounced, KnownByLayouts
  <2>. QED
    BY <2>1, <2>2
<1>. QED
  BY <1>3, <1>4

LEMMA AnsweredKeepsKnown ==
  ASSUME GuaranteesInv, CoverageInv, Server.product = Typescripts, ServerAnswers
  PROVE  \A m \in mapping' : LayoutsKnown(m)
<1>1. promised = {}
  BY DEF CoverageInv, ServerAnswers
<1>2. \A m \in mapping : LayoutsKnown(m) /\ IsMapping(m)
  BY <1>1 DEF CoverageInv, GuaranteesInv, SoundFor
<1>3. \/ mapping' = mapping \/ \E info : Adopt(info)
      \/ \E info : mapping' = {LearnIdentity(m, info) : m \in mapping}
  BY DEF ServerAnswers, SelectMapping
<1>4. ASSUME NEW info, mapping' = {LearnIdentity(m, info) : m \in mapping}
      PROVE  \A m \in mapping' : LayoutsKnown(m)
  <2>1. \A m \in mapping : LayoutsKnown(LearnIdentity(m, info))
    BY <1>2, LearnsIdentity, KnownByLayouts
  <2>. QED
    BY <1>4, <2>1
<1>5. ASSUME NEW info, Adopt(info)
      PROVE  \A m \in mapping' : LayoutsKnown(m)
  <2>1. tries \in Seq(scenario.params) /\ tries # <<>>
    BY DEF ServerAnswers, GuaranteesInv, InitializeIsRemembered
  <2>. QED
    BY <1>1, <1>2, <1>5, <2>1, AdoptedIsKnown DEF CoverageInv, GuaranteesInv
<1>. QED
  BY <1>2, <1>3, <1>4, <1>5

LEMMA InitializedIsKnown ==
  ASSUME GuaranteesInv, CoverageInv, Server.product = Typescripts, ClientInitializes
  PROVE  \A m \in mapping' : LayoutsKnown(m)
<1>0. PICK params \in scenario.params :
        \E written : mapping' = {LearnInitializationOptions(LearnWorkspaceRoots(m, params), written) : m \in mapping}
  BY DEF ClientInitializes, RememberInitialize
<1>1. PICK written :
        mapping' = {LearnInitializationOptions(LearnWorkspaceRoots(m, params), written) : m \in mapping}
  BY <1>0
<1>2. ASSUME NEW m \in mapping
      PROVE  LayoutsKnown(LearnInitializationOptions(LearnWorkspaceRoots(m, params), written))
  <2> DEFINE roots == LearnWorkspaceRoots(m, params)
  <2>1. IsMapping(m)
    BY DEF GuaranteesInv, SoundFor
  <2>2. LayoutsKnown(roots) /\ IsMapping(roots)
    BY <2>1, AssessedAreKnown, LearnsRoots DEF ClientInitializes, CoverageInv, GuaranteesInv
  <2> HIDE DEF roots
  <2>3. LayoutsKnown(LearnInitializationOptions(roots, written))
    BY <2>2, LearnsOptions, KnownByLayouts
  <2>. QED
    BY <2>3 DEF roots
<1>. QED
  BY <1>1, <1>2

\* What the client tells is known then: the folder was read again, or its layout stands.
LEMMA ToldKeepsKnown ==
  ASSUME GuaranteesInv, CoverageInv, Server.product = Typescripts, ClientTells, Standing, ~withdrawn'
  PROVE  /\ \A m \in mapping' : LayoutsKnown(m)'
         /\ \E m \in mapping' : m.name = Typescripts /\ m.tested /\ WorkspaceComplete(m.layouts)
<1>1. PICK t \in mapping : t.name = Typescripts /\ t.tested /\ WorkspaceComplete(t.layouts)
  BY DEF CoverageInv
<1>2. Watches(t)
  BY <1>1 DEF Watches, DeclaresCoverage, Standing, Typescripts
<1> DEFINE n == Len(folders)
<1>3. PICK told, new :
        /\ told \in SUBSET untold
        /\ untold' = untold \ told /\ new = Reassessed(t.layouts, told)
        /\ mapping' = {[t EXCEPT !.layouts = new]} /\ withdrawn' = LayoutBrokenBy(new, told)
  <2>1. \A m \in mapping : m = t
    BY <1>1 DEF CoverageInv
  <2>. QED
    BY <1>2, <2>1 DEF ClientTells
<1>4. PICK m : mapping' = {m} /\ m = [t EXCEPT !.layouts = new]
  BY <1>3
<1>5. m.name = t.name /\ m.tested = t.tested /\ m.layouts = new
  BY <1>4 DEF GuaranteesInv, SoundFor, IsMapping
<1>6. t.layouts = [i \in 1..n |-> t.layouts[i]]
      /\ \A i \in 1..n : RootKnown(t.layouts[i], i, folders[i], untold)
  BY <1>1 DEF CoverageInv, LayoutsKnown
<1>7. new = [i \in 1..n |->
               IF \E change \in told : change.folder = t.layouts[i].root /\ IsConfigChange(change.path)
               THEN AssessRoot(t.layouts[i].root) ELSE t.layouts[i]]
  BY <1>3, <1>6 DEF Reassessed
<1>8. WorkspaceComplete(new) /\ \A change \in told, i \in DOMAIN new :
        ~(change.type = Created /\ change.folder = new[i].root /\ NewSourceOutside(new[i], change.path))
  BY <1>3 DEF LayoutBrokenBy
<1>9. UNCHANGED folders /\ Disk
  BY DEF ClientTells, CoverageInv
<1> HIDE DEF n
<1>10. new = [i \in 1..n |-> new[i]]
  BY <1>7
<1>11. ASSUME NEW i \in 1..n
       PROVE  RootKnown(new[i], i, folders[i], untold')
  <2>1. t.layouts[i].root = i
    BY <1>6 DEF RootKnown
  <2>2. new[i] = IF ConfigTold(i, told) THEN AssessRoot(i) ELSE t.layouts[i]
    BY <1>7, <2>1 DEF ConfigTold
  <2>3. CASE ConfigTold(i, told)
    <3>1. IsFolder(folders[i])
      BY <1>9 DEF Disk, n
    <3>. QED
      BY <2>2, <2>3, <3>1, AssessRootIsKnown
  <2>4. CASE ~ConfigTold(i, told)
    <3>1. new[i] = t.layouts[i] /\ new[i].root = i /\ i \in DOMAIN new
      BY <1>10, <2>1, <2>2, <2>4
    <3>2. \A change \in told :
            ~(change.type = Created /\ change.folder = i /\ NewSourceOutside(new[i], change.path))
      BY <1>8, <3>1
    <3>. QED
      BY <1>3, <1>6, <2>4, <3>1, <3>2, KnownWhenTold
  <2>. QED
    BY <2>3, <2>4
<1>12. LayoutsKnown(m)'
  BY <1>5, <1>9, <1>10, <1>11 DEF LayoutsKnown, n
<1>13. m.name = Typescripts /\ m.tested /\ WorkspaceComplete(m.layouts)
  BY <1>1, <1>5, <1>8, Zenon
<1>. QED
  BY <1>4, <1>12, <1>13

\* Coverage is promised by a mapping of this name that found the workspace complete.
LEMMA CoverageIsDeclared ==
  ASSUME NEW m, m.name \in Unversioned \cup {Typescripts}, ProviderOf(m).coverage # {}
  PROVE  m.name = Typescripts /\ m.tested /\ WorkspaceComplete(m.layouts)
<1>1. NotificationsOnly.coverage = {} /\ \A c : FreshnessOnly(c).coverage = {}
  BY DEF NotificationsOnly, FreshnessOnly
<1>2. m.name \in Unversioned => ProviderOf(m) = NotificationsOnly
  BY DEF ProviderOf, Unversioned
<1>3. m.name = Typescripts
  BY <1>1, <1>2
<1>4. ProviderOf(m) = TypescriptGuarantees(m)
  BY <1>3 DEF ProviderOf, Typescripts, Unversioned
<1>5. TypescriptGuarantees(m) =
        IF m.tested THEN IF DeclaresCoverage(m) THEN Workspace({}, {Changed}) ELSE FreshnessOnly({Changed})
        ELSE NotificationsOnly
  BY DEF TypescriptGuarantees, IfTested
<1>6. DeclaresCoverage(m)
  BY <1>1, <1>4, <1>5
<1>. QED
  BY <1>3, <1>6 DEF DeclaresCoverage

\* A version that is said again is the version that was tested.
LEMMA StaysTested ==
  ASSUME GuaranteesInv, Server.product = Typescripts, NEW t \in mapping, t.name = Typescripts, t.tested,
         NEW info \in Announcements, NEW new, new = Interpret(t, info)
  PROVE  new.tested
<1>1. IsMapping(t) /\ IsTested(scenario)
  BY DEF GuaranteesInv, SoundFor
<1>2. CASE new = t
  BY <1>2
<1>3. CASE /\ info.method = "$/typescriptVersion" /\ info.version # "absent"
           /\ new = [t EXCEPT !.tested = ForVersion(t.name, info.version)]
  <2>1. info.version = Server.version
    BY <1>3, StartupAssumption DEF Announcements, GuaranteesInv, Server
  <2>2. ForVersion(t.name, info.version) <=> info.version \in Tested[t.name]
    BY DEF ForVersion, TypescriptForVersion, Typescripts
  <2>3. ForVersion(t.name, info.version)
    BY <1>1, <2>1, <2>2 DEF IsTested, Server
  <2> DEFINE verdict == ForVersion(t.name, info.version)
  <2>4. new.tested = verdict
    BY <1>1, <1>3, LearnsTested
  <2> HIDE DEF verdict
  <2>5. verdict
    BY <2>3 DEF verdict
  <2>. QED
    BY <2>4, <2>5, Zenon
<1>. QED
  BY <1>2, <1>3 DEF Interpret

\* What was known is known while neither the disk changes nor the client tells.
LEMMA SameKnown ==
  ASSUME UNCHANGED folders, UNCHANGED untold, NEW m
  PROVE  LayoutsKnown(m)' <=> LayoutsKnown(m)
BY DEF LayoutsKnown

\* Nothing is promised that was not, but in an answer; and what is withdrawn stays so.
LEMMA StandingBefore ==
  ASSUME CoverageInv, [Next]_vars, promised' = {} \/ Standing'
  PROVE  promised = {} \/ Standing
<1>1. CASE ServerAnswers
  BY <1>1 DEF ServerAnswers, CoverageInv
<1>2. CASE UNCHANGED promised /\ (withdrawn => withdrawn')
  BY <1>2 DEF Standing
<1>3. CASE ClientTells
  BY <1>2, <1>3 DEF ClientTells, Watches
<1>4. CASE ClientAddsFolder
  BY <1>2, <1>4 DEF ClientAddsFolder
<1>. QED
  BY <1>1, <1>2, <1>3, <1>4 DEF Next, vars, disk, ClientInitializes, ServerAnnounces, ServerCreatesProgress, FileChanges

\* The folders, and the promise that comes with the answer.
LEMMA DiskStep ==
  ASSUME CoverageInv, [Next]_vars
  PROVE  /\ Disk' /\ (waiting' => promised' = {})
         /\ promised' = {} => Len(folders') = Len(scenario'.folders)
<1> USE DEF CoverageInv
<1>1. CASE UNCHANGED folders /\ UNCHANGED scenario
  <2>1. Disk'
    BY <1>1 DEF Disk
  <2>2. /\ waiting' => promised' = {}
        /\ promised' = {} => promised = {}
    BY DEF Next, vars, ClientInitializes, ServerAnnounces, ServerAnswers, ServerCreatesProgress, FileChanges,
       ClientTells, ClientAddsFolder
  <2>. QED
    BY <1>1, <2>1, <2>2
<1>2. CASE FileChanges
  BY <1>2, FileStep DEF FileChanges
<1>3. CASE ClientAddsFolder
  <2>1. PICK i \in DOMAIN folders : folders' = Append(folders, folders[i])
    BY <1>3 DEF ClientAddsFolder
  <2>2. i \in 1..Len(folders)
    BY LengthIs DEF Disk
  <2>. QED
    BY <1>3, <2>1, <2>2, DiskGrows DEF ClientAddsFolder
<1>. QED
  BY <1>1, <1>2, <1>3 DEF Next, vars, disk, ClientInitializes, ServerAnnounces, ServerAnswers, ServerCreatesProgress,
     ClientTells

\* The layouts are known after a step, as long as they have to be.
LEMMA KnownStep ==
  ASSUME GuaranteesInv, CoverageInv, [Next]_vars, Server.product = Typescripts, promised' = {} \/ Standing'
  PROVE  \A m \in mapping' : LayoutsKnown(m)'
<1>1. promised = {} \/ Standing
  BY StandingBefore
<1>2. \A m \in mapping : LayoutsKnown(m)
  BY <1>1 DEF CoverageInv
<1>3. CASE ClientInitializes
  BY <1>3, InitializedIsKnown, SameKnown DEF ClientInitializes, disk
<1>4. CASE ServerAnnounces
  BY <1>1, <1>4, AnnouncedKeepsKnown, SameKnown DEF ServerAnnounces, disk
<1>5. CASE ServerAnswers
  BY <1>5, AnsweredKeepsKnown, SameKnown DEF ServerAnswers, disk
<1>6. CASE FileChanges
  BY <1>2, <1>6, FileStep DEF FileChanges, CoverageInv
<1>7. CASE ClientTells
  <2>1. Standing /\ ~withdrawn'
    BY <1>1, <1>7 DEF ClientTells, Standing
  <2>. QED
    BY <1>7, <2>1, ToldKeepsKnown
<1>8. CASE ClientAddsFolder
  <2>1. Standing /\ ~withdrawn' /\ withdrawn' = (withdrawn \/ \E m \in mapping : Watches(m))
    BY <1>1, <1>8 DEF ClientAddsFolder, Standing
  <2>2. \E m \in mapping : Watches(m)
    BY <2>1 DEF CoverageInv, Watches, DeclaresCoverage, Standing, Typescripts
  <2>. QED
    BY <2>1, <2>2
<1>9. CASE UNCHANGED mapping /\ UNCHANGED folders /\ UNCHANGED untold
  BY <1>2, <1>9, SameKnown
<1>. QED
  BY <1>3, <1>4, <1>5, <1>6, <1>7, <1>8, <1>9 DEF Next, vars, disk, ServerCreatesProgress

\* The promise comes with an answer from a mapping that found the workspace complete, and
\* stands while it is.
LEMMA StandingStep ==
  ASSUME GuaranteesInv, CoverageInv, [Next]_vars, Server.product = Typescripts, Standing'
  PROVE  \E m \in mapping' : m.name = Typescripts /\ m.tested /\ WorkspaceComplete(m.layouts)
<1>1. promised = {} \/ Standing
  BY StandingBefore
<1>2. CASE ServerAnswers
  <2>1. PICK result :
          LET outcome == DeclareServerStateProvider(result, Object(Provider')) IN
          promised' = CASE outcome.action = "notASuccess" -> {}
                        [] outcome.action = "declared" -> {Provider'}
                        [] outcome.action \in {"unrewritable", "upstreamDeclares"} -> {NotificationsOnly}
    BY <1>2 DEF ServerAnswers
  <2> DEFINE action == DeclareServerStateProvider(result, Object(Provider')).action
  <2>2. action \in {"notASuccess", "declared", "unrewritable", "upstreamDeclares"}
    BY DEF DeclareServerStateProvider, Outcome
  <2> HIDE DEF action
  <2>3. promised' \subseteq {Provider', NotificationsOnly}
    BY <2>1, <2>2 DEF action
  <2>4. NotificationsOnly.coverage = {}
    BY DEF NotificationsOnly
  <2>5. Provider'.coverage # {}
    BY <2>3, <2>4 DEF Standing
  <2>6. PICK m \in mapping' : Provider' = ProviderOf(m)
    BY <2>4, <2>5 DEF Provider
  <2>8. ~ClientInitializes
    BY <1>2 DEF ServerAnswers, ClientInitializes
  <2>7. m.name \in Unversioned \cup {Typescripts}
    BY <2>8, MappingStep DEF SoundFor, Server
  <2>. QED
    BY <2>5, <2>6, <2>7, CoverageIsDeclared
<1>3. CASE UNCHANGED promised
  <2>1. Standing
    BY <1>1, <1>3 DEF Standing
  <2>2. PICK t \in mapping : t.name = Typescripts /\ t.tested /\ WorkspaceComplete(t.layouts)
    BY <2>1 DEF CoverageInv
  <2>3. CASE ServerAnnounces
    <3>1. PICK info \in Announcements : mapping' = {Interpret(m, info) : m \in mapping}
      BY <2>2, <2>3 DEF ServerAnnounces
    <3>2. PICK new : new = Interpret(t, info)
      OBVIOUS
    <3>3. new.name = Typescripts /\ new.layouts = t.layouts
      BY <2>2, <3>2, LearnsAnnounced DEF GuaranteesInv, SoundFor
    <3>4. new.tested
      BY <2>2, <3>2, StaysTested
    <3>5. WorkspaceComplete(new.layouts)
      BY <2>2, <3>3
    <3>. QED
      BY <3>1, <3>2, <3>3, <3>4, <3>5
  <2>4. CASE ClientTells
    BY <2>1, <2>4, ToldKeepsKnown DEF Standing
  <2>5. CASE UNCHANGED mapping
    BY <2>2, <2>5
  <2>6. CASE ClientInitializes
    BY <2>1, <2>6 DEF ClientInitializes, Standing
  <2>. QED
    BY <2>3, <2>4, <2>5, <2>6, <1>2 DEF Next, vars, ServerCreatesProgress, FileChanges, ClientAddsFolder
<1>. QED
  BY <1>2, <1>3 DEF Next, vars, ClientInitializes, ServerAnnounces, ServerCreatesProgress, FileChanges,
     ClientTells, ClientAddsFolder

LEMMA CoverageInit == Init => CoverageInv
<1> SUFFICES ASSUME Init PROVE CoverageInv
  OBVIOUS
<1>1. scenario \in Scenarios /\ folders = scenario.folders /\ mapping = {} /\ promised = {} /\ ~waiting
  BY DEF Init
<1>2. Disk
  <2>1. Len(folders) \in Nat /\ folders = [i \in 1..Len(folders) |-> folders[i]]
    BY <1>1, StartupAssumption
  <2>2. \A i \in DOMAIN folders : IsFolder(folders[i])
    BY <1>1, StartupAssumption
  <2>. QED
    BY <2>1, <2>2, LengthIs DEF Disk
<1>. QED
  BY <1>1, <1>2 DEF CoverageInv, Standing

LEMMA CoverageStep == GuaranteesInv /\ CoverageInv /\ [Next]_vars => CoverageInv'
<1> SUFFICES ASSUME GuaranteesInv, CoverageInv, [Next]_vars PROVE CoverageInv'
  OBVIOUS
<1>1. scenario' = scenario
  BY DEF Next, vars, ClientInitializes, ServerAnnounces, ServerAnswers, ServerCreatesProgress, FileChanges,
     ClientTells, ClientAddsFolder
<1>2. /\ Disk' /\ (waiting' => promised' = {})
      /\ promised' = {} => Len(folders') = Len(scenario'.folders)
  BY DiskStep
<1>3. \A m, n \in mapping' : m = n
  BY OneMapping DEF CoverageInv
<1>4. ASSUME Server.product = Typescripts
      PROVE  /\ promised' = {} \/ Standing' => \A m \in mapping' : LayoutsKnown(m)'
             /\ Standing' => \E m \in mapping' : m.name = Typescripts /\ m.tested /\ WorkspaceComplete(m.layouts)
  BY <1>4, KnownStep, StandingStep
<1>5. Server' = Server
  BY <1>1 DEF Server
<1>. QED
  BY <1>2, <1>3, <1>4, <1>5 DEF CoverageInv

\* The layouts are always known, as long as they have to be.
THEOREM CoverageInvariant == Spec => []CoverageInv
BY CoverageInit, CoverageStep, GuaranteesInvariant, PTL DEF Spec

\* While coverage is promised and not withdrawn, the workspace is one project, once the
\* client has told of every change.
THEOREM CoverageKept == Spec => []CoverageHolds
<1>1. CoverageInv => CoverageHolds
  <2> SUFFICES ASSUME CoverageInv, Server.product = Typescripts, Standing, untold = {}
               PROVE  OneProject
    BY DEF CoverageHolds, Standing, Typescripts
  <2>1. PICK m \in mapping : m.name = Typescripts /\ WorkspaceComplete(m.layouts)
    BY DEF CoverageInv
  <2>2. /\ m.layouts = [i \in 1..Len(folders) |-> m.layouts[i]] /\ Len(folders) \in Nat
        /\ \A i \in 1..Len(folders) : RootKnown(m.layouts[i], i, folders[i], {})
        /\ \A i \in 1..Len(folders) : IsFolder(folders[i])
    BY <2>1 DEF CoverageInv, LayoutsKnown, Disk
  <2>3. Len(m.layouts) = Len(folders)
    BY <2>2, LengthIs
  <2>4. Len(folders) = 1 /\ m.layouts[1].complete
    BY <2>1, <2>3 DEF WorkspaceComplete
  <2>5. RootKnown(m.layouts[1], 1, folders[1], {}) /\ IsFolder(folders[1])
    BY <2>2, <2>4
  <2>. QED
    BY <2>4, <2>5, KnownIsProject
<1>. QED
  BY <1>1, CoverageInvariant, PTL

================================================================================
