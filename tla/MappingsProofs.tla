---------------------------- MODULE MappingsProofs ----------------------------
(*****************************************************************************)
(* Every mapping tells the truth of its server, for all sets of tokens,      *)
(* folders, projects and files and all bounds.                               *)
(*                                                                           *)
(* For each server there is a relation, DartFits(a, w) and so on, of what    *)
(* the mapping a keeps to the work w that the server has under way, and four *)
(* or five lemmas: the words that its module takes from Mapping are those of *)
(* this one (Words); the relation holds when the mapping is selected (Start),*)
(* and after each thing the server says (Speech) or the client announces     *)
(* (Client); and where it holds, the state of the mapping is Sound (Sound).  *)
(* First come the mappings that follow operations by their tokens or titles  *)
(* (dart, gleam, nil, nixd, haxe, expert, metals, gopls, typescript), then   *)
(* those whose servers say more than beginnings and ends: counts, log lines, *)
(* statuses, databases and scans.                                            *)
(*                                                                           *)
(* Then the inductive invariant Inv: the mapping fits the work of the server *)
(* that is there, and its state is the one on the boundary.  The invariants  *)
(* of Mappings follow from it; that nothing is withheld needs OneFolder, for *)
(* the reason that the run pyright shows: with several folders a pyright     *)
(* that logs a search again does not say of which folder it takes the        *)
(* completion back.                                                          *)
(*****************************************************************************)
EXTENDS Mappings, TLAPS, FiniteSetTheorems, SequenceTheorems

\* What is read is the state of the mapping, and when nothing is read it has not moved.
ReadsState(a, r) == \/ r.read = {} /\ r.next.state = a.state
                    \/ r.read = {r.next.state}

\* A state that says neither more nor less than what is true of the server.
Sound(s, complete, blind, healths) ==
  /\ s \in ServerStates
  /\ s.readiness = "ready" => complete
  /\ complete \/ blind => s.readiness \in {"ready", "unknown"}
  /\ s.readiness = "unknown" => blind
  /\ s.health \in healths

\* A state from its two parts.
State(health, readiness) == [health |-> health, readiness |-> readiness]

--------------------------------------------------------------------------------
\* The tokens that are open for one of the titles; a token is open for one at most.
TokensOf(open, titles) == {t \in Token : \E x \in titles : <<t, x>> \in open}

\* A token is open for one of all the titles at most.
OneTitle(open, all) ==
  /\ open \subseteq Token \X all
  /\ \A t \in Token, x, y \in all : <<t, x>> \in open /\ <<t, y>> \in open => x = y

\* No token is open before anything begins.
LEMMA NothingOpen == \A all, titles : OneTitle({}, all) /\ TokensOf({}, titles) = {}
BY DEF OneTitle, TokensOf

\* A token that was not open is open for its title only.
LEMMA Opened ==
  ASSUME NEW open, NEW all, OneTitle(open, all), NEW t \in Token, NEW x \in all, NEW p, p = <<t, x>>,
         ~\E q \in open : q[1] = p[1], NEW titles
  PROVE  /\ OneTitle(open \cup {p}, all)
         /\ t \notin TokensOf(open, titles)
         /\ x \in titles => TokensOf(open \cup {p}, titles) = TokensOf(open, titles) \cup {t}
         /\ x \notin titles => TokensOf(open \cup {p}, titles) = TokensOf(open, titles)
<1>1. \A y : <<t, y>> \notin open
  OBVIOUS
<1>2. OneTitle(open \cup {p}, all)
  <2>1. open \cup {p} \subseteq Token \X all
    BY DEF OneTitle
  <2>2. ASSUME NEW s \in Token, NEW y \in all, NEW z \in all,
               <<s, y>> \in open \cup {p}, <<s, z>> \in open \cup {p}
        PROVE  y = z
    <3>1. CASE s = t
      BY <1>1, <2>2, <3>1
    <3>2. CASE s # t
      BY <2>2, <3>2 DEF OneTitle
    <3> QED
      BY <3>1, <3>2
  <2> QED
    BY <2>1, <2>2 DEF OneTitle
<1>3. /\ t \notin TokensOf(open, titles)
      /\ x \in titles => TokensOf(open \cup {p}, titles) = TokensOf(open, titles) \cup {t}
      /\ x \notin titles => TokensOf(open \cup {p}, titles) = TokensOf(open, titles)
  BY <1>1 DEF TokensOf
<1> QED
  BY <1>2, <1>3

\* Of a token that ends, nothing is left.
LEMMA Closed ==
  ASSUME NEW open, NEW all, OneTitle(open, all), NEW t \in Token, NEW x \in all, NEW p, p = <<t, x>>,
         p \in open, NEW titles
  PROVE  /\ OneTitle(open \ {p}, all)
         /\ x \in titles => /\ t \in TokensOf(open, titles)
                            /\ TokensOf(open \ {p}, titles) = TokensOf(open, titles) \ {t}
         /\ x \notin titles => /\ t \notin TokensOf(open, titles)
                               /\ TokensOf(open \ {p}, titles) = TokensOf(open, titles)
<1>3. \A y : <<t, y>> \in open => y = x
  BY DEF OneTitle
<1>4. OneTitle(open \ {p}, all)
  BY DEF OneTitle
<1>5. /\ x \in titles => t \in TokensOf(open, titles) /\ TokensOf(open \ {p}, titles) = TokensOf(open, titles) \ {t}
      /\ x \notin titles => t \notin TokensOf(open, titles) /\ TokensOf(open \ {p}, titles) = TokensOf(open, titles)
  BY <1>3 DEF TokensOf
<1> QED
  BY <1>4, <1>5

\* A token that is not open is open for no title.
LEMMA Strays ==
  ASSUME NEW open, NEW t, ~\E p \in open : p[1] = t, NEW titles
  PROVE  t \notin TokensOf(open, titles)
BY DEF TokensOf

\* Something is open for one of the titles.
LEMMA SomeOpen ==
  ASSUME NEW open, NEW all, OneTitle(open, all), NEW titles
  PROVE  (\E p \in open : p[2] \in titles) <=> TokensOf(open, titles) # {}
<1>1. ASSUME NEW p \in open, p[2] \in titles PROVE TokensOf(open, titles) # {}
  <2>1. PICK t \in Token, x \in all : p = <<t, x>>
    BY DEF OneTitle
  <2> QED
    BY <1>1, <2>1 DEF TokensOf
<1>2. ASSUME NEW t \in TokensOf(open, titles) PROVE \E p \in open : p[2] \in titles
  <2>1. PICK x \in titles : <<t, x>> \in open
    BY DEF TokensOf
  <2>2. <<t, x>>[2] = x
    OBVIOUS
  <2> QED
    BY <2>1, <2>2
<1> QED
  BY <1>1, <1>2


\* What happens to the tokens of each title when one is opened or closed.
Grows(open, new, t, x, all) ==
  /\ OneTitle(new, all)
  /\ \A titles :
       /\ t \notin TokensOf(open, titles)
       /\ x \in titles => TokensOf(new, titles) = TokensOf(open, titles) \cup {t}
       /\ x \notin titles => TokensOf(new, titles) = TokensOf(open, titles)

Shrinks(open, new, t, x, all) ==
  /\ OneTitle(new, all)
  /\ \A titles :
       /\ x \in titles => /\ t \in TokensOf(open, titles)
                          /\ TokensOf(new, titles) = TokensOf(open, titles) \ {t}
       /\ x \notin titles => /\ t \notin TokensOf(open, titles)
                             /\ TokensOf(new, titles) = TokensOf(open, titles)

\* The work of a server, with other operations open.
WithOpen(w, new) == [w EXCEPT !.open = new]

\* The work of a server after an operation of title x has ended.
AfterEnd(w, new, x) ==
  IF x = "request" THEN [w EXCEPT !.open = new]
  ELSE [w EXCEPT !.open = new, !.ended = @ \cup {x}, !.last = x]

\* What a server says when an operation begins, and what it has under way then.
LEMMA BeginsGrow ==
  ASSUME NEW w, NEW all, OneTitle(w.open, all), NEW titles, titles \subseteq all, NEW u \in Begins(w, titles)
  PROVE  \E t \in Token, x \in titles, new \in SUBSET (Token \X all) :
           /\ DOMAIN u = {"says", "work"}
           /\ u.says = [is |-> "begin", token |-> t, title |-> x]
           /\ u.work = WithOpen(w, new)
           /\ new = w.open \cup {<<t, x>>}
           /\ Grows(w.open, new, t, x, all)
<1>1. PICK p \in Token \X titles :
        /\ ~\E q \in w.open : q[1] = p[1]
        /\ u = [says |-> [is |-> "begin", token |-> p[1], title |-> p[2]],
                work |-> [w EXCEPT !.open = @ \cup {p}]]
  BY DEF Begins, BeginsOf, IsOpen
<1>2. PICK t \in Token, x \in titles : p = <<t, x>>
  OBVIOUS
<1>3. PICK new : new = w.open \cup {p}
  OBVIOUS
<1>4. /\ DOMAIN u = {"says", "work"}
      /\ u.says = [is |-> "begin", token |-> t, title |-> x] /\ u.work = WithOpen(w, new)
  BY <1>1, <1>2, <1>3 DEF WithOpen
<1>5. Grows(w.open, new, t, x, all)
  <2>1. OneTitle(new, all)
    BY <1>1, <1>2, <1>3, Opened
  <2>2. ASSUME NEW some
        PROVE  /\ t \notin TokensOf(w.open, some)
               /\ x \in some => TokensOf(new, some) = TokensOf(w.open, some) \cup {t}
               /\ x \notin some => TokensOf(new, some) = TokensOf(w.open, some)
    BY <1>1, <1>2, <1>3, Opened
  <2> QED
    BY <2>1, <2>2 DEF Grows
<1>6. new \in SUBSET (Token \X all)
  BY <1>5 DEF Grows, OneTitle
<1> QED
  BY <1>2, <1>3, <1>4, <1>5, <1>6

\* What a server says when an operation ends, and what it has under way then.
LEMMA EndsShrink ==
  ASSUME NEW w, NEW all, OneTitle(w.open, all), NEW u \in Ends(w)
  PROVE  \E t \in Token, x \in all, new \in SUBSET (Token \X all) :
           /\ <<t, x>> \in w.open
           /\ u.says = [is |-> "end", token |-> t]
           /\ u.work = AfterEnd(w, new, x)
           /\ new = w.open \ {<<t, x>>}
           /\ Shrinks(w.open, new, t, x, all)
<1>1. PICK p \in w.open : u = [says |-> [is |-> "end", token |-> p[1]], work |-> EndOf(w, p)]
  BY DEF Ends
<1>2. PICK t \in Token, x \in all : p = <<t, x>>
  BY DEF OneTitle
<1>3. PICK new : new = w.open \ {p}
  OBVIOUS
<1>4. u.says = [is |-> "end", token |-> t] /\ u.work = AfterEnd(w, new, x)
  BY <1>1, <1>2, <1>3 DEF EndOf, AfterEnd
<1>5. Shrinks(w.open, new, t, x, all)
  BY <1>2, <1>3, Closed, SMTT(60) DEF Shrinks
<1>6. new \in SUBSET (Token \X all)
  BY <1>5 DEF Shrinks, OneTitle
<1> QED
  BY <1>2, <1>3, <1>4, <1>5, <1>6


\* The same for tokens that are named for what they are for.
NamesOf(open, all) == {n \in all : <<n, n>> \in open}

\* Every open token is named for what it is for.
FixedOnly(open, all) == open \subseteq Fixed(all)

\* What happens to the names when one is opened, and when one is closed.
FixedGrows(open, new, n, all) ==
  /\ FixedOnly(new, all)
  /\ n \notin NamesOf(open, all) /\ NamesOf(new, all) = NamesOf(open, all) \cup {n}

FixedShrinks(open, new, n, all) ==
  /\ FixedOnly(new, all)
  /\ n \in NamesOf(open, all) /\ NamesOf(new, all) = NamesOf(open, all) \ {n}

\* BeginsGrow for tokens that are named for what they are for.
LEMMA FixedBegins ==
  ASSUME NEW w, NEW all, FixedOnly(w.open, all), NEW names, names \subseteq all,
         NEW u \in BeginsOf(w, Fixed(names))
  PROVE  \E n \in names, new \in SUBSET Fixed(all) :
           /\ DOMAIN u = {"says", "work"}
           /\ u.says = [is |-> "begin", token |-> n, title |-> n]
           /\ u.work = WithOpen(w, new)
           /\ FixedGrows(w.open, new, n, all)
<1>1. PICK p \in Fixed(names) :
        /\ ~\E q \in w.open : q[1] = p[1]
        /\ u = [says |-> [is |-> "begin", token |-> p[1], title |-> p[2]],
                work |-> [w EXCEPT !.open = @ \cup {p}]]
  BY DEF BeginsOf, IsOpen
<1>2. PICK n \in names : p = <<n, n>>
  BY DEF Fixed
<1>3. PICK new : new = w.open \cup {p}
  OBVIOUS
<1>4. /\ DOMAIN u = {"says", "work"}
      /\ u.says = [is |-> "begin", token |-> n, title |-> n] /\ u.work = WithOpen(w, new)
  BY <1>1, <1>2, <1>3 DEF WithOpen
<1>5. FixedOnly(new, all)
  BY <1>2, <1>3 DEF Fixed, FixedOnly
<1>6. NamesOf(new, all) = NamesOf(w.open, all) \cup {n} /\ n \notin NamesOf(w.open, all)
  BY <1>1, <1>2, <1>3 DEF NamesOf
<1>7. new \in SUBSET Fixed(all) /\ FixedGrows(w.open, new, n, all)
  BY <1>5, <1>6 DEF FixedGrows, FixedOnly
<1> QED
  BY <1>2, <1>4, <1>7

\* EndsShrink for tokens that are named for what they are for.
LEMMA FixedEnds ==
  ASSUME NEW w, NEW all, FixedOnly(w.open, all), NEW u \in Ends(w)
  PROVE  \E n \in all, new \in SUBSET Fixed(all) :
           /\ u.says = [is |-> "end", token |-> n]
           /\ u.work = AfterEnd(w, new, n)
           /\ FixedShrinks(w.open, new, n, all)
<1>1. PICK p \in w.open : u = [says |-> [is |-> "end", token |-> p[1]], work |-> EndOf(w, p)]
  BY DEF Ends
<1>2. PICK n \in all : p = <<n, n>>
  BY DEF Fixed, FixedOnly
<1>3. PICK new : new = w.open \ {p}
  OBVIOUS
<1>4. u.says = [is |-> "end", token |-> n] /\ u.work = AfterEnd(w, new, n)
  BY <1>1, <1>2, <1>3 DEF EndOf, AfterEnd
<1>5. FixedOnly(new, all)
  BY <1>2, <1>3 DEF Fixed, FixedOnly
<1>6. NamesOf(new, all) = NamesOf(w.open, all) \ {n} /\ n \in NamesOf(w.open, all)
  BY <1>1, <1>2, <1>3 DEF NamesOf
<1>7. new \in SUBSET Fixed(all) /\ FixedShrinks(w.open, new, n, all)
  BY <1>5, <1>6 DEF FixedShrinks, FixedOnly
<1> QED
  BY <1>2, <1>4, <1>7

\* Something is open for one of the titles exactly when one of the names is open.
LEMMA SomeNameOpen ==
  ASSUME NEW w, NEW all, FixedOnly(w.open, all), NEW titles, titles \subseteq all
  PROVE  Open(w, titles) <=> \E n \in titles : n \in NamesOf(w.open, all)
<1>1. ASSUME NEW p \in w.open, p[2] \in titles PROVE \E n \in titles : n \in NamesOf(w.open, all)
  <2>1. PICK n \in all : p = <<n, n>>
    BY DEF Fixed, FixedOnly
  <2> QED
    BY <1>1, <2>1 DEF NamesOf
<1>2. ASSUME NEW n \in titles, n \in NamesOf(w.open, all) PROVE \E p \in w.open : p[2] \in titles
  <2>1. <<n, n>> \in w.open /\ <<n, n>>[2] = n
    BY <1>2 DEF NamesOf
  <2> QED
    BY <2>1
<1> QED
  BY <1>1, <1>2 DEF Open

\* No name is open before anything begins.
LEMMA NoNames == \A all : FixedOnly({}, all) /\ NamesOf({}, all) = {}
BY DEF NamesOf, FixedOnly

\* A mapping that says its state, one that is silent about a state that has not moved, and one
\* that speaks if its state moved: all three read their state.
LEMMA SaysReads == ASSUME NEW a, NEW b PROVE ReadsState(a, Says(b)) /\ Says(b).next = b
BY Zenon DEF Says, ReadsState

\* A mapping that is silent reads its state when that has not moved.
LEMMA SilentReads ==
  ASSUME NEW a, NEW b, b.state = a.state PROVE ReadsState(a, Silent(b)) /\ Silent(b).next = b
BY Zenon DEF Silent, ReadsState

\* A mapping that speaks when its state has moved reads its state.
LEMMA MovedReads == ASSUME NEW a, NEW b PROVE ReadsState(a, SaysIfMoved(a, b)) /\ SaysIfMoved(a, b).next = b
BY SaysReads, SilentReads DEF SaysIfMoved

\* What the Dart analysis server may have open, and what of it is loading.
DartTitles == {"ANALYZING", "request"}

\* The mapping of Dart says "indexing" while the analysis is open and "ready" once one ended.
DartFits(a, w) ==
  /\ DOMAIN w = {"open", "ended", "last"} /\ FixedOnly(w.open, DartTitles)
  /\ DOMAIN a = {"state"} /\ a.state \in ServerStates /\ a.state.health = "unknown"
  /\ a.state.readiness = IF "ANALYZING" \in NamesOf(w.open, DartTitles) THEN "indexing"
                         ELSE IF "ANALYZING" \in w.ended THEN "ready" ELSE "initializing"

\* The words of Mapping mean the same in the instance Dart of them.
LEMMA DartWords ==
  /\ \A w, pairs : Da!BeginsOf(w, pairs) = BeginsOf(w, pairs)
  /\ \A w : Da!Ends(w) = Ends(w)
  /\ \A w, titles : Da!Open(w, titles) <=> Open(w, titles)
  /\ \A names : Da!Fixed(names) = Fixed(names)
  /\ \A a : Da!Says(a) = Says(a) /\ Da!Silent(a) = Silent(a)
BY DEF Da!BeginsOf, Da!IsOpen, BeginsOf, IsOpen, Da!Ends, Ends, Da!EndOf, EndOf,
   Da!Open, Open, Da!Says, Says, Da!Silent, Silent, Da!Fixed, Fixed

\* Before the Dart analysis server says anything, the mapping that was selected for it fits.
LEMMA DartStart == DartFits(Da!Start, Da!Silence)
<1>1. PICK w : w = Da!Silence
  OBVIOUS
<1>2. w = [open |-> {}, ended |-> {}, last |-> "nothing"]
  BY <1>1 DEF Da!Silence, Da!NoWork
<1>3. FixedOnly(w.open, DartTitles) /\ NamesOf(w.open, DartTitles) = {}
  BY <1>2, NoNames
<1> QED
  BY <1>1, <1>2, <1>3 DEF DartFits, Da!Start, Da!Initializing, ServerStates, Health, Readiness

\* Whatever the Dart analysis server says next, the mapping that reads it fits the work that follows.
LEMMA DartSpeech ==
  ASSUME NEW a, NEW w, DartFits(a, w), NEW u \in Da!Speech(w),
         NEW r, r = Da!Interpret(a, u.says)
  PROVE  DartFits(r.next, u.work) /\ ReadsState(a, r)
<1>0. FixedOnly(w.open, DartTitles) /\ DartTitles \subseteq DartTitles
  BY DEF DartFits
<1>1. CASE u \in BeginsOf(w, Fixed(DartTitles))
  <2>1. PICK n \in DartTitles, new \in SUBSET Fixed(DartTitles) :
           /\ u.says = [is |-> "begin", token |-> n, title |-> n]
           /\ u.work = WithOpen(w, new)
           /\ FixedGrows(w.open, new, n, DartTitles)
    BY <1>0, <1>1, FixedBegins
  <2>2. PICK b : b = [a EXCEPT !.state.readiness = "indexing"]
    OBVIOUS
  <2>3. r = IF n = "ANALYZING" THEN Says(b) ELSE Silent(a)
    BY <2>1, <2>2, DartWords DEF Da!Interpret
  <2>4. IF n = "ANALYZING" THEN DartFits(b, u.work) ELSE DartFits(a, u.work)
    BY <2>1, <2>2 DEF WithOpen, DartFits, FixedGrows, ServerStates, Health, Readiness
  <2> QED
    BY <2>3, <2>4, SaysReads, SilentReads
<1>2. CASE u \in Ends(w)
  <2>1. PICK n \in DartTitles, new \in SUBSET Fixed(DartTitles) :
           /\ u.says = [is |-> "end", token |-> n]
           /\ u.work = AfterEnd(w, new, n)
           /\ FixedShrinks(w.open, new, n, DartTitles)
    BY <1>0, <1>2, FixedEnds
  <2>2. PICK b : b = [a EXCEPT !.state.readiness = "ready"]
    OBVIOUS
  <2>3. r = IF n = "ANALYZING" THEN Says(b) ELSE Silent(a)
    BY <2>1, <2>2, DartWords DEF Da!Interpret
  <2>4. /\ DOMAIN u.work = {"open", "ended", "last"} /\ u.work.open = new
        /\ u.work.ended = IF n = "request" THEN w.ended ELSE w.ended \cup {n}
    BY <2>1 DEF AfterEnd, DartFits
  <2>5. n = "ANALYZING" \/ n = "request"
    BY DEF DartTitles
  <2>6. CASE n = "ANALYZING"
    <3>1. DartFits(b, u.work)
      BY <2>1, <2>2, <2>4, <2>6 DEF FixedShrinks, DartFits, ServerStates, Health, Readiness
    <3> QED
      BY <2>3, <2>6, <3>1, SaysReads
  <2>7. CASE n = "request"
    <3>1. DartFits(a, u.work)
      BY <2>1, <2>4, <2>7 DEF FixedShrinks, DartFits
    <3> QED
      BY <2>3, <2>7, <3>1, SilentReads
  <2> QED
    BY <2>5, <2>6, <2>7
<1> QED
  BY <1>1, <1>2, DartWords DEF Da!Speech, DartTitles

\* A mapping that fits says neither more nor less than what is true of the Dart analysis server.
LEMMA DartSound ==
  ASSUME NEW a, NEW w, DartFits(a, w)
  PROVE  Sound(a.state, Da!Complete(w), FALSE, {"unknown"})
<1>1. Da!Open(w, {"ANALYZING"}) <=> "ANALYZING" \in NamesOf(w.open, DartTitles)
  BY SomeNameOpen, DartWords DEF DartFits, DartTitles
<1> QED
  BY <1>1 DEF DartFits, Sound, Da!Complete, Da!Ended

\* What gleam may have open, and what of it is loading.
GleamTitles == {"downloading-dependencies", "request"}

\* The mapping of gleam waits for the first download to end, and for each that is open.
GleamFits(a, w) ==
  /\ DOMAIN w = {"open", "ended", "last"} /\ FixedOnly(w.open, GleamTitles)
  /\ DOMAIN a = {"state"} /\ a.state \in ServerStates /\ a.state.health = "unknown"
  /\ a.state.readiness =
       IF "downloading-dependencies" \notin w.ended THEN "initializing"
       ELSE IF "downloading-dependencies" \in NamesOf(w.open, GleamTitles) THEN "indexing"
       ELSE "ready"

\* The words of Mapping mean the same in the instance Gleam of them.
LEMMA GleamWords ==
  /\ \A w, pairs : Gl!BeginsOf(w, pairs) = BeginsOf(w, pairs)
  /\ \A w : Gl!Ends(w) = Ends(w)
  /\ \A w, titles : Gl!Open(w, titles) <=> Open(w, titles)
  /\ \A names : Gl!Fixed(names) = Fixed(names)
  /\ \A a : Gl!Says(a) = Says(a) /\ Gl!Silent(a) = Silent(a)
BY DEF Gl!BeginsOf, Gl!IsOpen, BeginsOf, IsOpen, Gl!Ends, Ends, Gl!EndOf, EndOf,
   Gl!Open, Open, Gl!Says, Says, Gl!Silent, Silent, Gl!Fixed, Fixed

\* Before gleam says anything, the mapping that was selected for it fits.
LEMMA GleamStart == GleamFits(Gl!Start, Gl!Silence)
<1>1. PICK w : w = Gl!Silence
  OBVIOUS
<1>2. w = [open |-> {}, ended |-> {}, last |-> "nothing"]
  BY <1>1 DEF Gl!Silence, Gl!NoWork
<1>3. FixedOnly(w.open, GleamTitles) /\ NamesOf(w.open, GleamTitles) = {}
  BY <1>2, NoNames
<1> QED
  BY <1>1, <1>2, <1>3 DEF GleamFits, Gl!Start, Gl!Initializing, ServerStates, Health, Readiness

\* Whatever gleam says next, the mapping that reads it fits the work that follows.
LEMMA GleamSpeech ==
  ASSUME NEW a, NEW w, GleamFits(a, w), NEW u \in Gl!Speech(w),
         NEW r, r = Gl!Interpret(a, u.says)
  PROVE  GleamFits(r.next, u.work) /\ ReadsState(a, r)
<1>0. FixedOnly(w.open, GleamTitles)
  BY DEF GleamFits
<1>1. ASSUME NEW names, names \subseteq GleamTitles, u \in BeginsOf(w, Fixed(names))
      PROVE  GleamFits(r.next, u.work) /\ ReadsState(a, r)
  <2>1. PICK n \in names, new \in SUBSET Fixed(GleamTitles) :
           /\ u.says = [is |-> "begin", token |-> n, title |-> n]
           /\ u.work = WithOpen(w, new)
           /\ FixedGrows(w.open, new, n, GleamTitles)
    BY <1>0, <1>1, FixedBegins
  <2>2. PICK b : b = [a EXCEPT !.state.readiness = "indexing"]
    OBVIOUS
  <2>3. r = IF n = "downloading-dependencies" /\ a.state.readiness = "ready" THEN Says(b) ELSE Silent(a)
    BY <2>1, <2>2, GleamWords DEF Gl!Interpret, Gl!OnBegin, Gl!DependencyToken
  <2>4. CASE n = "downloading-dependencies" /\ a.state.readiness = "ready"
    <3>1. GleamFits(b, u.work)
      BY <2>1, <2>2, <2>4 DEF WithOpen, GleamFits, FixedGrows, ServerStates, Health, Readiness
    <3> QED
      BY <2>3, <2>4, <3>1, SaysReads
  <2>5. CASE ~(n = "downloading-dependencies" /\ a.state.readiness = "ready")
    <3>1. GleamFits(a, u.work)
      BY <2>1, <2>5 DEF WithOpen, GleamFits, FixedGrows
    <3> QED
      BY <2>3, <2>5, <3>1, SilentReads
  <2> QED
    BY <2>4, <2>5
<1>2. CASE u \in Ends(w)
  <2>1. PICK n \in GleamTitles, new \in SUBSET Fixed(GleamTitles) :
           /\ u.says = [is |-> "end", token |-> n]
           /\ u.work = AfterEnd(w, new, n)
           /\ FixedShrinks(w.open, new, n, GleamTitles)
    BY <1>0, <1>2, FixedEnds
  <2>2. PICK b : b = [a EXCEPT !.state.readiness = "ready"]
    OBVIOUS
  <2>3. r = IF n = "downloading-dependencies" THEN Says(b) ELSE Silent(a)
    BY <2>1, <2>2, GleamWords DEF Gl!Interpret, Gl!DependencyToken
  <2>4. /\ DOMAIN u.work = {"open", "ended", "last"} /\ u.work.open = new
        /\ u.work.ended = IF n = "request" THEN w.ended ELSE w.ended \cup {n}
    BY <2>1 DEF AfterEnd, GleamFits
  <2>5. n = "downloading-dependencies" \/ n = "request"
    BY DEF GleamTitles
  <2>6. CASE n = "downloading-dependencies"
    <3>1. GleamFits(b, u.work)
      BY <2>1, <2>2, <2>4, <2>6 DEF FixedShrinks, GleamFits, ServerStates, Health, Readiness
    <3> QED
      BY <2>3, <2>6, <3>1, SaysReads
  <2>7. CASE n = "request"
    <3>1. GleamFits(a, u.work)
      BY <2>1, <2>4, <2>7 DEF FixedShrinks, GleamFits
    <3> QED
      BY <2>3, <2>7, <3>1, SilentReads
  <2> QED
    BY <2>5, <2>6, <2>7
<1>3. {"downloading-dependencies"} \subseteq GleamTitles /\ GleamTitles \subseteq GleamTitles
  BY DEF GleamTitles
<1>4. \/ u \in BeginsOf(w, Fixed({"downloading-dependencies"})) 
      \/ u \in BeginsOf(w, Fixed(GleamTitles))
      \/ u \in Ends(w)
  BY GleamWords DEF Gl!Speech, Gl!DependencyToken, GleamTitles
<1> QED
  BY <1>1, <1>2, <1>3, <1>4

\* What gleam has open while it loads.
GleamLoads == {"downloading-dependencies"}

\* A mapping that fits says neither more nor less than what is true of gleam.
LEMMA GleamSound ==
  ASSUME NEW a, NEW w, GleamFits(a, w)
  PROVE  Sound(a.state, Gl!Complete(w), FALSE, {"unknown"})
<1>1. FixedOnly(w.open, GleamTitles) /\ GleamLoads \subseteq GleamTitles
  BY DEF GleamFits, GleamLoads, GleamTitles
<1>2. Open(w, GleamLoads) <=> \E n \in GleamLoads : n \in NamesOf(w.open, GleamTitles)
  BY <1>1, SomeNameOpen
<1>3. Open(w, {"downloading-dependencies"}) <=> "downloading-dependencies" \in NamesOf(w.open, GleamTitles)
  BY <1>2 DEF GleamLoads
<1> QED
  BY <1>3, GleamWords DEF GleamFits, Sound, Gl!Complete, Gl!Ended, Gl!DependencyToken

--------------------------------------------------------------------------------
\* What nil may have open, and what of it is loading.
NilTitles == {"nixosOptions", "flakeArchive", "request"}
\* What nil has open while it loads.
NilNames == {"nixosOptions", "flakeArchive"}

\* The mapping of nil has the loads that are open, and knows whether one has begun.
NilFits(a, w) ==
  /\ DOMAIN w = {"open", "ended", "last", "lock", "begun", "complaint"}
  /\ FixedOnly(w.open, NilTitles) /\ w.begun \in BOOLEAN /\ w.lock \in BOOLEAN
  /\ DOMAIN a = {"state", "open", "hasBegun"} /\ a.state \in ServerStates
  /\ a.open = NamesOf(w.open, NilTitles) \ {"request"}
  /\ a.hasBegun = w.begun /\ (a.open # {} => w.begun)
  /\ a.state.health = w.complaint
  /\ a.state.readiness = IF a.open # {} THEN "indexing" ELSE IF w.begun THEN "ready"
                         ELSE IF w.lock THEN "initializing" ELSE "unknown"

\* The words of Mapping mean the same in the instance Nil of them.
LEMMA NilWords ==
  /\ \A w, pairs : Nl!BeginsOf(w, pairs) = BeginsOf(w, pairs)
  /\ \A w : Nl!Ends(w) = Ends(w)
  /\ \A w, titles : Nl!Open(w, titles) <=> Open(w, titles)
  /\ \A names : Nl!Fixed(names) = Fixed(names)
  /\ \A a : Nl!Says(a) = Says(a) /\ Nl!Silent(a) = Silent(a)
  /\ \A a, b : Nl!SaysIfMoved(a, b) = SaysIfMoved(a, b)
BY DEF Nl!BeginsOf, Nl!IsOpen, BeginsOf, IsOpen, Nl!Ends, Ends, Nl!EndOf, EndOf,
   Nl!Open, Open, Nl!Says, Says, Nl!Silent, Silent, Nl!Fixed, Fixed, Nl!SaysIfMoved, SaysIfMoved

\* Before nil says anything, the mapping fits, for each of the workspaces.
LEMMA NilStart ==
  ASSUME NEW ws \in Nl!Workspaces
  PROVE  NilFits(Nl!Start(ws.folders), Nl!Silence(ws.loads))
<1>1. PICK w : w = Nl!Silence(ws.loads)
  OBVIOUS
<1>2. w = [open |-> {}, ended |-> {}, last |-> "nothing", lock |-> ws.loads, begun |-> FALSE, complaint |-> "unknown"]
  BY <1>1 DEF Nl!Silence
<1>3. FixedOnly(w.open, NilTitles) /\ NamesOf(w.open, NilTitles) = {}
  BY <1>2, NoNames
<1>4. ws.loads \in BOOLEAN /\ (ws.loads <=> Nl!AnyFolderHasANixpkgsFlakeLock(ws.folders))
  <2>1. PICK fs \in SUBSET {Nl!Loading, Nl!Conventional, Nl!OtherInput, Nl!NoNode, {}} :
          /\ ws.folders = fs
          /\ ws.loads = (fs \cap {Nl!Loading, Nl!Conventional} # {})
    BY DEF Nl!Workspaces
  <2>2. Nl!FlakeLockHasNixpkgsInput(Nl!Loading)
    BY DEF Nl!FlakeLockHasNixpkgsInput, Nl!Loading, Nl!Lock
  <2>3. Nl!FlakeLockHasNixpkgsInput(Nl!Conventional)
    BY DEF Nl!FlakeLockHasNixpkgsInput, Nl!Conventional, Nl!Lock
  <2>4. ~Nl!FlakeLockHasNixpkgsInput(Nl!OtherInput)
    BY DEF Nl!FlakeLockHasNixpkgsInput, Nl!OtherInput, Nl!Lock
  <2>5. ~Nl!FlakeLockHasNixpkgsInput(Nl!NoNode)
    BY DEF Nl!FlakeLockHasNixpkgsInput, Nl!NoNode, Nl!Lock
  <2>6. ~Nl!FlakeLockHasNixpkgsInput({})
    BY DEF Nl!FlakeLockHasNixpkgsInput
  <2>7. \A f \in fs : Nl!FlakeLockHasNixpkgsInput(f) <=> f \in {Nl!Loading, Nl!Conventional}
    BY <2>1, <2>2, <2>3, <2>4, <2>5, <2>6
  <2> QED
    BY <2>1, <2>7 DEF Nl!AnyFolderHasANixpkgsFlakeLock
<1>5. PICK a : a = [state |-> Nl!Initializing, open |-> {}, hasBegun |-> FALSE]
  OBVIOUS
<1>6. PICK b : b = [a EXCEPT !.state.readiness = "unknown"]
  OBVIOUS
<1>7. Nl!Start(ws.folders) = IF ws.loads THEN a ELSE b
  BY <1>4, <1>5, <1>6 DEF Nl!Start, Nl!LearnWorkspaceFolders
<1>8. CASE ws.loads
  BY <1>1, <1>2, <1>3, <1>4, <1>5, <1>7, <1>8 DEF NilFits, Nl!Initializing, ServerStates, Health, Readiness
<1>9. CASE ~ws.loads
  BY <1>1, <1>2, <1>3, <1>4, <1>5, <1>6, <1>7, <1>9 DEF NilFits, Nl!Initializing, ServerStates, Health, Readiness
<1> QED
  BY <1>4, <1>8, <1>9

\* Whatever nil says next, the mapping that reads it fits the work that follows.
LEMMA NilSpeech ==
  ASSUME NEW a, NEW w, NilFits(a, w), NEW u \in Nl!Speech(w),
         NEW r, r = Nl!Interpret(a, u.says)
  PROVE  NilFits(r.next, u.work) /\ ReadsState(a, r)
<1>0. FixedOnly(w.open, NilTitles) /\ NilTitles \subseteq NilTitles
  BY DEF NilFits
<1>1. ASSUME NEW v \in BeginsOf(w, Fixed(NilTitles)),
             u = IF v.says.token \in Nl!KnownTokens
                 THEN [v EXCEPT !.work.begun = TRUE, !.work.complaint = "ok"] ELSE v
      PROVE  NilFits(r.next, u.work) /\ ReadsState(a, r)
  <2>1. PICK n \in NilTitles, new \in SUBSET Fixed(NilTitles) :
           /\ DOMAIN v = {"says", "work"}
           /\ v.says = [is |-> "begin", token |-> n, title |-> n]
           /\ v.work = WithOpen(w, new)
           /\ FixedGrows(w.open, new, n, NilTitles)
    BY <1>0, FixedBegins
  <2>2. u.says = v.says
    BY <1>1, <2>1
  <2>4. CASE n \in NilNames
    <3>1. PICK b : b = [state |-> [health |-> "ok", readiness |-> "indexing"],
                        open |-> a.open \cup {n}, hasBegun |-> TRUE]
      OBVIOUS
    <3>2. r = SaysIfMoved(a, b)
      BY <2>1, <2>2, <2>4, <3>1, NilWords DEF Nl!Interpret, Nl!OnBegin, Nl!KnownTokens, NilNames
    <3>3. u.work = [v.work EXCEPT !.begun = TRUE, !.complaint = "ok"]
      BY <1>1, <2>1, <2>4 DEF Nl!KnownTokens, NilNames
    <3>4. /\ DOMAIN u.work = {"open", "ended", "last", "lock", "begun", "complaint"}
          /\ u.work.open = new /\ u.work.begun = TRUE /\ u.work.complaint = "ok" /\ u.work.lock = w.lock
      BY <2>1, <3>3 DEF NilFits, WithOpen
    <3>5. b.open = NamesOf(new, NilTitles) \ {"request"} /\ b.open # {}
      BY <2>1, <2>4, <3>1 DEF NilFits, FixedGrows, NilNames
    <3>6. NilFits(b, u.work)
      BY <2>1, <3>1, <3>4, <3>5 DEF NilFits, FixedGrows, ServerStates, Health, Readiness
    <3> QED
      BY <3>2, <3>6, MovedReads
  <2>5. CASE n = "request"
    <3>1. u = v /\ r = Silent(a)
      BY <1>1, <2>1, <2>5, NilWords DEF Nl!Interpret, Nl!KnownTokens
    <3>2. a.open = NamesOf(new, NilTitles) \ {"request"}
      BY <2>1, <2>5 DEF NilFits, FixedGrows
    <3>3. NilFits(a, u.work)
      BY <2>1, <3>1, <3>2 DEF NilFits, FixedGrows, WithOpen
    <3> QED
      BY <3>1, <3>3, SilentReads
  <2> QED
    BY <2>4, <2>5 DEF NilTitles, NilNames
<1>2. CASE u \in Ends(w)
  <2>1. PICK n \in NilTitles, new \in SUBSET Fixed(NilTitles) :
           /\ u.says = [is |-> "end", token |-> n]
           /\ u.work = AfterEnd(w, new, n)
           /\ FixedShrinks(w.open, new, n, NilTitles)
    BY <1>0, <1>2, FixedEnds
  <2>2. /\ DOMAIN u.work = {"open", "ended", "last", "lock", "begun", "complaint"}
        /\ u.work.open = new /\ u.work.begun = w.begun /\ u.work.complaint = w.complaint /\ u.work.lock = w.lock
    BY <2>1 DEF AfterEnd, NilFits
  <2>3. CASE n \in NilNames
    <3>1. PICK b : b = [a EXCEPT !.open = @ \ {n}]
      OBVIOUS
    <3>2. PICK c : c = [b EXCEPT !.state.readiness = "ready"]
      OBVIOUS
    <3>3. n \in a.open
      BY <2>1, <2>3 DEF NilFits, FixedShrinks, NilNames
    <3>4. r = IF b.open # {} THEN Silent(b) ELSE Says(c)
      BY <2>1, <3>1, <3>2, <3>3, NilWords DEF Nl!Interpret, Nl!OnEnd
    <3>5. b.open = NamesOf(new, NilTitles) \ {"request"} /\ b.state = a.state /\ a.open # {}
      BY <2>1, <3>1, <3>3 DEF NilFits, FixedShrinks
    <3>6. CASE b.open # {}
      <4>1. NilFits(b, u.work)
        BY <2>1, <2>2, <3>1, <3>5, <3>6 DEF NilFits, FixedShrinks
      <4> QED
        BY <3>4, <3>5, <3>6, <4>1, SilentReads
    <3>7. CASE b.open = {}
      <4>1. NilFits(c, u.work)
        BY <2>1, <2>2, <3>1, <3>2, <3>5, <3>7 DEF NilFits, FixedShrinks, ServerStates, Health, Readiness
      <4> QED
        BY <3>4, <3>7, <4>1, SaysReads
    <3> QED
      BY <3>6, <3>7
  <2>4. CASE n = "request"
    <3>1. n \notin a.open /\ a.open = NamesOf(new, NilTitles) \ {"request"}
      BY <2>1, <2>4 DEF NilFits, FixedShrinks
    <3>2. r = Silent(a)
      BY <2>1, <3>1, NilWords DEF Nl!Interpret
    <3>3. NilFits(a, u.work)
      BY <2>1, <2>2, <3>1 DEF NilFits, FixedShrinks
    <3> QED
      BY <3>2, <3>3, SilentReads
  <2> QED
    BY <2>3, <2>4 DEF NilTitles, NilNames
<1>3. CASE u \in Nl!Complaints(w)
  <2>1. CASE u = Nl!Notes(w, [is |-> "message", type |-> 1], "complaint", "error")
    <3>1. PICK b : b = [a EXCEPT !.state.health = "error"]
      OBVIOUS
    <3>2. u.says = [is |-> "message", type |-> 1] /\ u.work = [w EXCEPT !.complaint = "error"]
      BY <2>1 DEF Nl!Notes
    <3>3. r = SaysIfMoved(a, b)
      BY <3>1, <3>2, NilWords DEF Nl!Interpret, Nl!OnError
    <3>4. NilFits(b, u.work)
      BY <3>1, <3>2 DEF NilFits, ServerStates, Health, Readiness
    <3> QED
      BY <3>3, <3>4, MovedReads
  <2>2. CASE u = [says |-> [is |-> "message", type |-> 2],
                  work |-> [w EXCEPT !.complaint = "warning", !.lock = @ /\ w.begun]]
    <3>1. PICK b : b = [a EXCEPT !.state.health = "warning",
                           !.state.readiness = IF a.hasBegun THEN @ ELSE "unknown"]
      OBVIOUS
    <3>2. u.says = [is |-> "message", type |-> 2] /\ u.work = [w EXCEPT !.complaint = "warning", !.lock = @ /\ w.begun]
      BY <2>2
    <3>3. r = SaysIfMoved(a, b)
      BY <3>1, <3>2, NilWords DEF Nl!Interpret, Nl!OnWarning
    <3>4. NilFits(b, u.work)
      <4>1. CASE w.begun
        <5>1. b = [a EXCEPT !.state.health = "warning", !.state.readiness = @]
          BY <3>1, <4>1 DEF NilFits
        <5> QED
          BY <3>2, <4>1, <5>1 DEF NilFits, ServerStates, Health, Readiness
      <4>2. CASE ~w.begun
        <5>1. b = [a EXCEPT !.state.health = "warning", !.state.readiness = "unknown"]
          BY <3>1, <4>2 DEF NilFits
        <5> QED
          BY <3>2, <4>2, <5>1 DEF NilFits, ServerStates, Health, Readiness
      <4> QED
        BY <4>1, <4>2 DEF NilFits
    <3> QED
      BY <3>3, <3>4, MovedReads
  <2>3. CASE u = [says |-> [is |-> "message", type |-> 3], work |-> w]
    <3>1. r = Silent(a)
      BY <2>3, NilWords DEF Nl!Interpret
    <3> QED
      BY <2>3, <3>1, SilentReads
  <2> QED
    BY <1>3, <2>1, <2>2, <2>3 DEF Nl!Complaints
<1> QED
  BY <1>0, <1>1, <1>2, <1>3, NilWords DEF Nl!Speech, Nl!Loads, NilTitles

\* A mapping that fits says neither more nor less than what is true of nil.
LEMMA NilSound ==
  ASSUME NEW a, NEW w, NilFits(a, w)
  PROVE  Sound(a.state, Nl!Complete(w), Nl!Blind(w), Nl!Healths(w))
<1>1. FixedOnly(w.open, NilTitles) /\ NilNames \subseteq NilTitles
  BY DEF NilFits, NilNames, NilTitles
<1>2. Open(w, NilNames) <=> a.open # {}
  <2>1. Open(w, NilNames) <=> \E n \in NilNames : n \in NamesOf(w.open, NilTitles)
    BY <1>1, SomeNameOpen
  <2>2. a.open = NamesOf(w.open, NilTitles) \cap NilNames
    BY DEF NilFits, NamesOf, NilNames, NilTitles
  <2> QED
    BY <2>1, <2>2
<1>3. Open(w, Nl!KnownTokens) <=> Open(w, NilNames)
  BY <1>1 DEF Open, FixedOnly, Fixed, NilTitles, NilNames, Nl!KnownTokens
<1> QED
  BY <1>2, <1>3, NilWords DEF NilFits, Sound, Nl!Complete, Nl!Blind, Nl!Healths

\* What nixd has open while it loads.
NixdLoads == {"evaluating"}
\* What nixd may have open, and what of it is loading.
NixdTitles == {"evaluating", "request"}

\* The words of Mapping mean the same in the instance Nixd of them.
LEMMA NixdWords ==
  /\ \A w, titles : Nd!Begins(w, titles) = Begins(w, titles)
  /\ \A w : Nd!Ends(w) = Ends(w) /\ Nd!StrayEnds(w) = StrayEnds(w)
  /\ \A w, titles : Nd!Open(w, titles) <=> Open(w, titles)
  /\ \A a : Nd!Says(a) = Says(a) /\ Nd!Silent(a) = Silent(a)
BY DEF Nd!Begins, Nd!BeginsOf, Nd!IsOpen, Begins, BeginsOf, IsOpen, Nd!Ends, Ends, Nd!EndOf, EndOf,
   Nd!StrayEnds, StrayEnds, Nd!Open, Open, Nd!Says, Says, Nd!Silent, Silent

\* The mapping of nixd has the tokens of the evaluations that are open.
NixdFits(a, w) ==
  /\ DOMAIN w = {"open", "ended", "last"}
  /\ OneTitle(w.open, NixdTitles)
  /\ DOMAIN a = {"state", "open"} /\ a.state \in ServerStates
  /\ a.open = TokensOf(w.open, NixdLoads)
  /\ a.state.health = "unknown"
  /\ a.state.readiness = IF a.open # {} THEN "indexing"
                         ELSE IF "evaluating" \in w.ended THEN "ready" ELSE "initializing"

\* Before nixd says anything, the mapping that was selected for it fits.
LEMMA NixdStart == NixdFits(Nd!Start, Nd!Silence)
<1>1. PICK w : w = Nd!Silence
  OBVIOUS
<1>2. w = [open |-> {}, ended |-> {}, last |-> "nothing"]
  BY <1>1 DEF Nd!Silence, Nd!NoWork
<1>3. OneTitle(w.open, NixdTitles) /\ TokensOf(w.open, NixdLoads) = {}
  BY <1>2, NothingOpen
<1> QED
  BY <1>1, <1>2, <1>3 DEF NixdFits, Nd!Start, Nd!Initializing, ServerStates, Health, Readiness

\* Whatever nixd says next, the mapping that reads it fits the work that follows.
LEMMA NixdSpeech ==
  ASSUME NEW a, NEW w, NixdFits(a, w), NEW u \in Nd!Speech(w),
         NEW r, r = Nd!Interpret(a, u.says)
  PROVE  NixdFits(r.next, u.work) /\ ReadsState(a, r)
<1>0. /\ OneTitle(w.open, NixdTitles) /\ NixdTitles \subseteq NixdTitles
      /\ a.open = TokensOf(w.open, NixdLoads)
  BY DEF NixdFits
<1>1. CASE u \in Begins(w, NixdTitles)
  <2>1. PICK t \in Token, x \in NixdTitles, new \in SUBSET (Token \X NixdTitles) :
           /\ u.says = [is |-> "begin", token |-> t, title |-> x]
           /\ u.work = WithOpen(w, new)
           /\ new = w.open \cup {<<t, x>>}
           /\ Grows(w.open, new, t, x, NixdTitles)
    BY <1>0, <1>1, BeginsGrow, ZenonT(60)
  <2>4. CASE x = "evaluating"
    <3>1. OneTitle(new, NixdTitles) /\ TokensOf(new, NixdLoads) = a.open \cup {t}
      BY <1>0, <2>1, <2>4 DEF NixdLoads, Grows
    <3>2. PICK b : b = [a EXCEPT !.open = @ \cup {t}, !.state.readiness = "indexing"]
      OBVIOUS
    <3>3. r = Says(b)
      BY <2>1, <2>4, <3>2, NixdWords DEF Nd!Interpret, Nd!OnBegin
    <3>4. NixdFits(b, u.work)
      BY <2>1, <3>1, <3>2 DEF WithOpen, NixdFits, ServerStates, Health, Readiness
    <3> QED
      BY <3>3, <3>4, SaysReads
  <2>5. CASE x = "request"
    <3>1. OneTitle(new, NixdTitles) /\ TokensOf(new, NixdLoads) = a.open
      BY <1>0, <2>1, <2>5 DEF NixdLoads, Grows
    <3>2. r = Silent(a)
      BY <2>1, <2>5, NixdWords DEF Nd!Interpret
    <3>4. NixdFits(a, u.work)
      BY <2>1, <3>1 DEF WithOpen, NixdFits
    <3> QED
      BY <3>2, <3>4, SilentReads
  <2> QED
    BY <2>4, <2>5 DEF NixdTitles
<1>2. CASE u \in Ends(w)
  <2>1. PICK t \in Token, x \in NixdTitles, new \in SUBSET (Token \X NixdTitles) :
           /\ <<t, x>> \in w.open
           /\ u.says = [is |-> "end", token |-> t]
           /\ u.work = AfterEnd(w, new, x)
           /\ Shrinks(w.open, new, t, x, NixdTitles)
    BY <1>0, <1>2, EndsShrink
  <2>4. CASE x = "evaluating"
    <3>0. x \in NixdLoads
      BY <2>4 DEF NixdLoads
    <3>1. OneTitle(new, NixdTitles) /\ t \in a.open /\ TokensOf(new, NixdLoads) = a.open \ {t}
      BY <1>0, <2>1, <3>0 DEF Shrinks
    <3>2. PICK b : b = [a EXCEPT !.open = @ \ {t}]
      OBVIOUS
    <3>3. PICK c : c = [b EXCEPT !.state.readiness = "ready"]
      OBVIOUS
    <3>4. r = IF b.open # {} THEN Silent(b) ELSE Says(c)
      BY <2>1, <3>1, <3>2, <3>3, NixdWords DEF Nd!Interpret, Nd!OnEnd
    <3>5. /\ DOMAIN u.work = {"open", "ended", "last"}
          /\ u.work.open = new /\ u.work.ended = w.ended \cup {x}
      BY <2>1, <2>4 DEF AfterEnd, NixdFits
    <3>6. CASE b.open # {}
      <4>1. NixdFits(b, u.work) /\ b.state = a.state
        BY <3>1, <3>2, <3>5, <3>6 DEF NixdFits
      <4> QED
        BY <3>4, <3>6, <4>1, SilentReads
    <3>7. CASE b.open = {}
      <4>1. NixdFits(c, u.work)
        BY <2>4, <3>1, <3>2, <3>3, <3>5, <3>7 DEF NixdFits, ServerStates, Health, Readiness
      <4> QED
        BY <3>4, <3>7, <4>1, SaysReads
    <3> QED
      BY <3>6, <3>7
  <2>5. CASE x = "request"
    <3>1. OneTitle(new, NixdTitles) /\ t \notin a.open /\ TokensOf(new, NixdLoads) = a.open
      BY <1>0, <2>1, <2>5 DEF NixdLoads, Shrinks
    <3>2. r = Silent(a)
      BY <2>1, <3>1, NixdWords DEF Nd!Interpret
    <3>3. DOMAIN u.work = {"open", "ended", "last"} /\ u.work.open = new /\ u.work.ended = w.ended
      BY <2>1, <2>5 DEF AfterEnd, NixdFits
    <3>4. NixdFits(a, u.work)
      BY <3>1, <3>3 DEF NixdFits
    <3> QED
      BY <3>2, <3>4, SilentReads
  <2> QED
    BY <2>4, <2>5 DEF NixdTitles
<1>3. CASE u \in StrayEnds(w)
  <2>1. PICK t \in Token : ~(\E q \in w.open : q[1] = t) /\ u = [says |-> [is |-> "end", token |-> t], work |-> w]
    BY <1>3 DEF StrayEnds, IsOpen
  <2>2. t \notin a.open
    BY <1>0, <2>1, Strays
  <2>3. r = Silent(a)
    BY <2>1, <2>2, NixdWords DEF Nd!Interpret
  <2> QED
    BY <2>1, <2>3, SilentReads
<1> QED
  BY <1>1, <1>2, <1>3, NixdWords DEF Nd!Speech, NixdTitles

\* A mapping that fits says neither more nor less than what is true of nixd.
LEMMA NixdSound ==
  ASSUME NEW a, NEW w, NixdFits(a, w)
  PROVE  Sound(a.state, Nd!Complete(w), FALSE, {"unknown"})
<1>1. Nd!Open(w, {"evaluating"}) <=> a.open # {}
  BY SomeOpen, NixdWords DEF NixdFits, Open, NixdLoads
<1> QED
  BY <1>1 DEF NixdFits, Sound, Nd!Complete, Nd!Ended

\* What haxe-language-server has open while it loads.
HaxeLoads == {"buildingCache", "parsingClasspaths"}
\* What haxe-language-server may have open, and what of it is loading.
HaxeTitles == {"buildingCache", "parsingClasspaths", "request"}

\* The mapping of haxe has the tokens of the builds that are open; the compiler's health is its own.
HaxeFits(a, w) ==
  /\ DOMAIN w = {"open", "ended", "last", "compiler"} /\ w.compiler \in Health
  /\ OneTitle(w.open, HaxeTitles)
  /\ DOMAIN a = {"state", "open"} /\ a.state \in ServerStates
  /\ a.open = TokensOf(w.open, HaxeLoads)
  /\ a.state.health = w.compiler
  /\ a.state.readiness = IF w.ended \cap Hx!StartupTitles = {} THEN "initializing"
                         ELSE IF a.open = {} THEN "ready" ELSE a.state.readiness
  /\ a.state.readiness = "ready" => a.open = {}
  /\ a.state.readiness # "unknown"

\* The words of Mapping mean the same in the instance HaxeLanguageServer of them.
LEMMA HaxeWords ==
  /\ \A w, titles : Hx!Begins(w, titles) = Begins(w, titles)
  /\ \A w : Hx!Ends(w) = Ends(w) /\ Hx!StrayEnds(w) = StrayEnds(w)
  /\ \A w, titles : Hx!Open(w, titles) <=> Open(w, titles)
  /\ \A a : Hx!Says(a) = Says(a) /\ Hx!Silent(a) = Silent(a)
  /\ \A a, b : Hx!SaysIfMoved(a, b) = SaysIfMoved(a, b)
BY DEF Hx!Begins, Hx!BeginsOf, Hx!IsOpen, Begins, BeginsOf, IsOpen, Hx!Ends, Ends, Hx!EndOf, EndOf,
   Hx!StrayEnds, StrayEnds, Hx!Open, Open, Hx!Says, Says, Hx!Silent, Silent, Hx!SaysIfMoved, SaysIfMoved

\* Before haxe-language-server says anything, the mapping that was selected for it fits.
LEMMA HaxeStart == HaxeFits(Hx!Start, Hx!Silence)
<1>1. PICK w : w = Hx!Silence
  OBVIOUS
<1>2. w = [open |-> {}, ended |-> {}, last |-> "nothing", compiler |-> "unknown"]
  BY <1>1 DEF Hx!Silence
<1>3. OneTitle(w.open, HaxeTitles) /\ TokensOf(w.open, HaxeLoads) = {}
  BY <1>2, NothingOpen
<1> QED
  BY <1>1, <1>2, <1>3 DEF HaxeFits, Hx!Start, Hx!Initializing, ServerStates, Health, Readiness

\* Whatever haxe-language-server says next, the mapping that reads it fits the work that follows.
LEMMA HaxeSpeech ==
  ASSUME NEW a, NEW w, HaxeFits(a, w), NEW u \in Hx!Speech(w),
         NEW r, r = Hx!Interpret(a, u.says)
  PROVE  HaxeFits(r.next, u.work) /\ ReadsState(a, r)
<1>0. /\ OneTitle(w.open, HaxeTitles) /\ HaxeTitles \subseteq HaxeTitles
      /\ a.open = TokensOf(w.open, HaxeLoads)
  BY DEF HaxeFits
<1>1. CASE u \in Begins(w, HaxeTitles)
  <2>1. PICK t \in Token, x \in HaxeTitles, new \in SUBSET (Token \X HaxeTitles) :
           /\ u.says = [is |-> "begin", token |-> t, title |-> x]
           /\ u.work = WithOpen(w, new)
           /\ new = w.open \cup {<<t, x>>}
           /\ Grows(w.open, new, t, x, HaxeTitles)
    BY <1>0, <1>1, BeginsGrow, ZenonT(60)
  <2>4. CASE x \in HaxeLoads
    <3>1. OneTitle(new, HaxeTitles) /\ TokensOf(new, HaxeLoads) = a.open \cup {t}
      BY <1>0, <2>1, <2>4 DEF Grows
    <3>2. PICK b : b = [a EXCEPT !.open = @ \cup {t}]
      OBVIOUS
    <3>3. PICK c : c = [b EXCEPT !.state.readiness = "indexing"]
      OBVIOUS
    <3>4. x \in Hx!StartupTitles
      BY <2>4 DEF HaxeLoads, Hx!StartupTitles
    <3>5. r = IF a.state.readiness # "ready" THEN Silent(b) ELSE Says(c)
      BY <2>1, <3>2, <3>3, <3>4, HaxeWords DEF Hx!Interpret, Hx!OnBegin
    <3>6. CASE a.state.readiness # "ready"
      <4>1. HaxeFits(b, u.work) /\ b.state = a.state
        BY <2>1, <3>1, <3>2, <3>6 DEF WithOpen, HaxeFits
      <4> QED
        BY <3>5, <3>6, <4>1, SilentReads
    <3>7. CASE a.state.readiness = "ready"
      <4>1. HaxeFits(c, u.work)
        BY <2>1, <3>1, <3>2, <3>3, <3>7 DEF WithOpen, HaxeFits, ServerStates, Health, Readiness
      <4> QED
        BY <3>5, <3>7, <4>1, SaysReads
    <3> QED
      BY <3>6, <3>7
  <2>5. CASE x = "request"
    <3>0. x \notin HaxeLoads
      BY <2>5 DEF HaxeLoads
    <3>1. OneTitle(new, HaxeTitles) /\ TokensOf(new, HaxeLoads) = a.open
      BY <1>0, <2>1, <3>0 DEF Grows
    <3>2. r = Silent(a)
      BY <2>1, <2>5, HaxeWords DEF Hx!Interpret, Hx!StartupTitles
    <3>4. HaxeFits(a, u.work)
      BY <2>1, <3>1 DEF WithOpen, HaxeFits
    <3> QED
      BY <3>2, <3>4, SilentReads
  <2> QED
    BY <2>4, <2>5 DEF HaxeTitles, HaxeLoads
<1>2. CASE u \in Ends(w)
  <2>1. PICK t \in Token, x \in HaxeTitles, new \in SUBSET (Token \X HaxeTitles) :
           /\ <<t, x>> \in w.open
           /\ u.says = [is |-> "end", token |-> t]
           /\ u.work = AfterEnd(w, new, x)
           /\ Shrinks(w.open, new, t, x, HaxeTitles)
    BY <1>0, <1>2, EndsShrink
  <2>4. CASE x \in HaxeLoads
    <3>0. x # "request" /\ x \in Hx!StartupTitles
      BY <2>4 DEF HaxeLoads, Hx!StartupTitles
    <3>1. OneTitle(new, HaxeTitles) /\ t \in a.open /\ TokensOf(new, HaxeLoads) = a.open \ {t}
      BY <1>0, <2>1, <2>4 DEF Shrinks
    <3>2. PICK b : b = [a EXCEPT !.open = @ \ {t}]
      OBVIOUS
    <3>3. PICK c : c = [b EXCEPT !.state.readiness = "ready"]
      OBVIOUS
    <3>4. r = IF b.open # {} \/ a.state.readiness = "ready" THEN Silent(b) ELSE Says(c)
      BY <2>1, <3>1, <3>2, <3>3, HaxeWords DEF Hx!Interpret, Hx!OnEnd
    <3>5. /\ DOMAIN u.work = {"open", "ended", "last", "compiler"}
          /\ u.work.open = new /\ u.work.ended = w.ended \cup {x} /\ u.work.compiler = w.compiler
      BY <2>1, <3>0 DEF AfterEnd, HaxeFits
    <3>6. u.work.ended \cap Hx!StartupTitles # {} /\ a.state.readiness # "ready"
      BY <3>0, <3>1, <3>5 DEF HaxeFits
    <3>7. CASE b.open # {}
      <4>1. HaxeFits(b, u.work) /\ b.state = a.state
        BY <3>1, <3>2, <3>5, <3>6, <3>7 DEF HaxeFits
      <4> QED
        BY <3>4, <3>7, <4>1, SilentReads
    <3>8. CASE b.open = {}
      <4>1. HaxeFits(c, u.work)
        BY <3>1, <3>2, <3>3, <3>5, <3>6, <3>8 DEF HaxeFits, ServerStates, Health, Readiness
      <4> QED
        BY <3>4, <3>6, <3>8, <4>1, SaysReads
    <3> QED
      BY <3>7, <3>8
  <2>5. CASE x = "request"
    <3>0. x \notin HaxeLoads
      BY <2>5 DEF HaxeLoads
    <3>1. OneTitle(new, HaxeTitles) /\ t \notin a.open /\ TokensOf(new, HaxeLoads) = a.open
      BY <1>0, <2>1, <3>0 DEF Shrinks
    <3>2. r = Silent(a)
      BY <2>1, <3>1, HaxeWords DEF Hx!Interpret
    <3>3. /\ DOMAIN u.work = {"open", "ended", "last", "compiler"}
          /\ u.work.open = new /\ u.work.ended = w.ended /\ u.work.compiler = w.compiler
      BY <2>1, <2>5 DEF AfterEnd, HaxeFits
    <3>4. HaxeFits(a, u.work)
      BY <3>1, <3>3 DEF HaxeFits
    <3> QED
      BY <3>2, <3>4, SilentReads
  <2> QED
    BY <2>4, <2>5 DEF HaxeTitles, HaxeLoads
<1>3. CASE u \in StrayEnds(w)
  <2>1. PICK t \in Token : ~(\E q \in w.open : q[1] = t) /\ u = [says |-> [is |-> "end", token |-> t], work |-> w]
    BY <1>3 DEF StrayEnds, IsOpen
  <2>2. t \notin a.open
    BY <1>0, <2>1, Strays
  <2>3. r = Silent(a)
    BY <2>1, <2>2, HaxeWords DEF Hx!Interpret
  <2> QED
    BY <2>1, <2>3, SilentReads
<1>4. ASSUME NEW s \in {"connected", "versionCheckFailed", "invalidArgument", "keepsCrashing"},
             NEW h \in Health, h = IF s = "connected" THEN "ok" ELSE "error",
             u = Hx!Notes(w, [is |-> s], "compiler", h)
      PROVE  HaxeFits(r.next, u.work) /\ ReadsState(a, r)
  <2>1. u.says = [is |-> s] /\ u.work = [w EXCEPT !.compiler = h]
    BY <1>4 DEF Hx!Notes
  <2>2. PICK b : b = [a EXCEPT !.state.health = h]
    OBVIOUS
  <2>3. r = SaysIfMoved(a, b)
    BY <1>4, <2>1, <2>2, HaxeWords DEF Hx!Interpret, Hx!SetHealth
  <2>4. HaxeFits(b, u.work)
    BY <2>1, <2>2 DEF HaxeFits, ServerStates, Readiness
  <2> QED
    BY <2>3, <2>4, MovedReads
<1>5. CASE u = [says |-> [is |-> "otherMessage"], work |-> w]
  <2>1. r = Silent(a)
    BY <1>5, HaxeWords DEF Hx!Interpret
  <2> QED
    BY <1>5, <2>1, SilentReads
<1> QED
  <2>1. \/ u \in Begins(w, HaxeTitles) \/ u \in Ends(w) \/ u \in StrayEnds(w)
        \/ u = Hx!Notes(w, [is |-> "connected"], "compiler", "ok")
        \/ u = [says |-> [is |-> "otherMessage"], work |-> w]
        \/ \E s \in {"versionCheckFailed", "invalidArgument", "keepsCrashing"} :
             u = Hx!Notes(w, [is |-> s], "compiler", "error")
    BY Zenon, HaxeWords DEF Hx!Speech, HaxeTitles
  <2>2. CASE u = Hx!Notes(w, [is |-> "connected"], "compiler", "ok")
    BY <1>4, <2>2 DEF Health
  <2>3. ASSUME NEW s \in {"versionCheckFailed", "invalidArgument", "keepsCrashing"},
               u = Hx!Notes(w, [is |-> s], "compiler", "error")
        PROVE  HaxeFits(r.next, u.work) /\ ReadsState(a, r)
    BY <1>4, <2>3 DEF Health
  <2> QED
    BY <1>1, <1>2, <1>3, <1>5, <2>1, <2>2, <2>3

\* A mapping that fits says neither more nor less than what is true of haxe-language-server.
LEMMA HaxeSound ==
  ASSUME NEW a, NEW w, HaxeFits(a, w)
  PROVE  Sound(a.state, Hx!Complete(w), FALSE, Hx!Healths(w))
<1>1. Open(w, HaxeLoads) <=> a.open # {}
  BY SomeOpen DEF HaxeFits, Open
<1>2. Open(w, Hx!StartupTitles) <=> Open(w, HaxeLoads)
  BY DEF Open, Hx!StartupTitles, HaxeLoads, HaxeFits, OneTitle, HaxeTitles
<1> QED
  BY <1>1, <1>2, HaxeWords DEF HaxeFits, Sound, Hx!Complete, Hx!Ended, Hx!Healths

\* Tokens with their phase, kept by the mapping as the server has them.
PhasesOf(open, phases) == {p \in open : p[2] \in phases}

\* The pair of a token that is open for a phase is the only one with that token.
LEMMA Phase ==
  ASSUME NEW open, NEW all, OneTitle(open, all), NEW phases, NEW t \in Token, NEW x \in all,
         <<t, x>> \in open, NEW found, found = {p \in PhasesOf(open, phases) : p[1] = t}
  PROVE  IF x \in phases THEN found = {<<t, x>>} ELSE found = {}
<1>1. \A p \in open : p[1] = t => p = <<t, x>>
  BY DEF OneTitle
<1> QED
  BY <1>1 DEF PhasesOf

\* What expert may have open, and what of it is loading.
ExpertTitles == {"engine", "building", "indexing", "request"}

\* The mapping of expert has the tokens of its phases, and knows whether indexing ended last.
ExpertFits(a, w) ==
  /\ DOMAIN w = {"open", "ended", "last"}
  /\ OneTitle(w.open, ExpertTitles)
  /\ DOMAIN a = {"state", "open", "lastEndedIndexing"} /\ a.state \in ServerStates
  /\ a.open = PhasesOf(w.open, Ex!Phases)
  /\ a.lastEndedIndexing \in BOOLEAN
  /\ a.lastEndedIndexing <=> w.last = "indexing"
  /\ a.state.health = "unknown"
  /\ a.state.readiness \in {"initializing", "indexing", "ready"}
  /\ a.state.readiness = "ready" <=> a.open = {} /\ a.lastEndedIndexing

\* The words of Mapping mean the same in the instance Expert of them.
LEMMA ExpertWords ==
  /\ \A w, titles : Ex!Begins(w, titles) = Begins(w, titles)
  /\ \A w : Ex!Ends(w) = Ends(w)
  /\ \A w, titles : Ex!Open(w, titles) <=> Open(w, titles)
  /\ \A a : Ex!Says(a) = Says(a) /\ Ex!Silent(a) = Silent(a)
BY DEF Ex!Begins, Ex!BeginsOf, Ex!IsOpen, Begins, BeginsOf, IsOpen, Ex!Ends, Ends, Ex!EndOf, EndOf,
   Ex!Open, Open, Ex!Says, Says, Ex!Silent, Silent

\* Before expert says anything, the mapping that was selected for it fits.
LEMMA ExpertStart == ExpertFits(Ex!Start, Ex!Silence)
<1>1. PICK w : w = Ex!Silence
  OBVIOUS
<1>2. w = [open |-> {}, ended |-> {}, last |-> "nothing"]
  BY <1>1 DEF Ex!Silence, Ex!NoWork
<1>3. OneTitle(w.open, ExpertTitles) /\ PhasesOf(w.open, Ex!Phases) = {}
  BY <1>2, NothingOpen DEF PhasesOf
<1> QED
  BY <1>1, <1>2, <1>3 DEF ExpertFits, Ex!Start, Ex!Initializing, ServerStates, Health, Readiness

\* Whatever expert says next, the mapping that reads it fits the work that follows.
LEMMA ExpertSpeech ==
  ASSUME NEW a, NEW w, ExpertFits(a, w), NEW u \in Ex!Speech(w),
         NEW r, r = Ex!Interpret(a, u.says)
  PROVE  ExpertFits(r.next, u.work) /\ ReadsState(a, r)
<1>0. /\ OneTitle(w.open, ExpertTitles) /\ ExpertTitles \subseteq ExpertTitles
      /\ a.open = PhasesOf(w.open, Ex!Phases)
  BY DEF ExpertFits
<1>1. CASE u \in Begins(w, ExpertTitles)
  <2>1. PICK t \in Token, x \in ExpertTitles, new \in SUBSET (Token \X ExpertTitles) :
           /\ u.says = [is |-> "begin", token |-> t, title |-> x]
           /\ u.work = WithOpen(w, new)
           /\ new = w.open \cup {<<t, x>>}
           /\ Grows(w.open, new, t, x, ExpertTitles)
    BY <1>0, <1>1, BeginsGrow, ZenonT(60)
  <2>2. OneTitle(new, ExpertTitles)
    BY <2>1 DEF Grows
  <2>4. CASE x \in Ex!Phases
    <3>1. PhasesOf(new, Ex!Phases) = a.open \cup {<<t, x>>}
      <4>1. PICK phases : phases = Ex!Phases
        OBVIOUS
      <4>2. x \in phases
        BY <2>4, <4>1
      <4>3. PhasesOf(new, phases) = PhasesOf(w.open, phases) \cup {<<t, x>>}
        BY <2>1, <4>2 DEF PhasesOf
      <4> QED
        BY <1>0, <4>1, <4>3
    <3>2. PICK b : b = [a EXCEPT !.open = @ \cup {<<t, x>>}, !.state.readiness = "indexing"]
      OBVIOUS
    <3>3. r = Says(b)
      BY <2>1, <2>4, <3>2, ExpertWords DEF Ex!Interpret, Ex!OnBegin
    <3>4. b.open # {}
      BY <3>2 DEF ExpertFits
    <3>5. ExpertFits(b, u.work)
      BY <2>1, <2>2, <3>1, <3>2, <3>4 DEF WithOpen, ExpertFits, ServerStates, Health, Readiness
    <3> QED
      BY <3>3, <3>5, SaysReads
  <2>5. CASE x \notin Ex!Phases
    <3>1. PhasesOf(new, Ex!Phases) = a.open
      <4>1. PICK phases : phases = Ex!Phases
        OBVIOUS
      <4>2. x \notin phases
        BY <2>5, <4>1
      <4>3. PhasesOf(new, phases) = PhasesOf(w.open, phases)
        BY <2>1, <4>2 DEF PhasesOf
      <4> QED
        BY <1>0, <4>1, <4>3
    <3>2. r = Silent(a)
      BY <2>1, <2>5, ExpertWords DEF Ex!Interpret
    <3>3. ExpertFits(a, u.work)
      BY <2>1, <2>2, <3>1 DEF WithOpen, ExpertFits
    <3> QED
      BY <3>2, <3>3, SilentReads
  <2> QED
    BY <2>4, <2>5
<1>2. CASE u \in Ends(w)
  <2>1. PICK t \in Token, x \in ExpertTitles, new \in SUBSET (Token \X ExpertTitles) :
           /\ <<t, x>> \in w.open
           /\ u.says = [is |-> "end", token |-> t]
           /\ u.work = AfterEnd(w, new, x)
           /\ new = w.open \ {<<t, x>>}
           /\ Shrinks(w.open, new, t, x, ExpertTitles)
    BY <1>0, <1>2, EndsShrink
  <2>2. OneTitle(new, ExpertTitles)
    BY <2>1 DEF Shrinks
  <2>3. PICK found : found = {p \in a.open : p[1] = t}
    OBVIOUS
  <2>4. CASE x \in Ex!Phases
    <3>0. x # "request" /\ found = {<<t, x>>}
      BY <1>0, <2>1, <2>3, <2>4, Phase DEF Ex!Phases
    <3>1. PhasesOf(new, Ex!Phases) = a.open \ {<<t, x>>}
      <4>1. PICK phases : phases = Ex!Phases
        OBVIOUS
      <4>2. x \in phases
        BY <2>4, <4>1
      <4>3. PhasesOf(new, phases) = PhasesOf(w.open, phases) \ {<<t, x>>}
        BY <2>1, <4>2 DEF PhasesOf
      <4> QED
        BY <1>0, <4>1, <4>3
    <3>2. PICK p : p = <<t, x>>
      OBVIOUS
    <3>11. p[2] = x
      BY <3>2
    <3>3. PICK b : b = [a EXCEPT !.open = @ \ {p}, !.lastEndedIndexing = p[2] = "indexing"]
      OBVIOUS
    <3>4. PICK c : c = [b EXCEPT !.state.readiness = "ready"]
      OBVIOUS
    <3>5. r = Ex!OnEnd(a, p)
      <4>1. (CHOOSE q \in found : TRUE) = p /\ found # {}
        BY <3>0, <3>2
      <4>2. u.says.is = "end" /\ u.says.token = t
        BY <2>1
      <4>3. r = LET ended == {q \in a.open : q[1] = t}
                IN  IF ended = {} THEN Ex!Silent(a) ELSE Ex!OnEnd(a, CHOOSE q \in ended : TRUE)
        BY <4>2 DEF Ex!Interpret
      <4>4. r = IF found = {} THEN Ex!Silent(a) ELSE Ex!OnEnd(a, CHOOSE q \in found : TRUE)
        BY <2>3, <4>3
      <4> QED
        BY <4>1, <4>4
    <3>6. r = Says(IF b.open = {} /\ b.lastEndedIndexing THEN c ELSE b)
      BY <3>3, <3>4, <3>5, ExpertWords DEF Ex!OnEnd
    <3>7. /\ DOMAIN u.work = {"open", "ended", "last"}
          /\ u.work.open = new /\ u.work.last = x
      BY <2>1, <3>0 DEF AfterEnd, ExpertFits
    <3>8. b.open = PhasesOf(new, Ex!Phases) /\ a.open # {}
      BY <1>0, <3>0, <3>1, <3>2, <3>3, <2>3 DEF ExpertFits
    <3>9. CASE b.open = {} /\ b.lastEndedIndexing
      <4>1. ExpertFits(c, u.work)
        BY <2>2, <3>2, <3>11, <3>3, <3>4, <3>7, <3>8, <3>9 DEF ExpertFits, ServerStates, Health, Readiness
      <4> QED
        BY <3>6, <3>9, <4>1, SaysReads
    <3>10. CASE ~(b.open = {} /\ b.lastEndedIndexing)
      <4>1. ExpertFits(b, u.work)
        BY <2>2, <3>2, <3>11, <3>3, <3>7, <3>8, <3>10 DEF ExpertFits
      <4> QED
        BY <3>6, <3>10, <4>1, SaysReads
    <3> QED
      BY <3>9, <3>10
  <2>5. CASE x \notin Ex!Phases
    <3>0. x = "request" /\ found = {}
      BY <1>0, <2>1, <2>3, <2>5, Phase DEF Ex!Phases, ExpertTitles
    <3>1. PhasesOf(new, Ex!Phases) = a.open
      <4>1. PICK phases : phases = Ex!Phases
        OBVIOUS
      <4>2. x \notin phases
        BY <2>5, <4>1
      <4>3. PhasesOf(new, phases) = PhasesOf(w.open, phases)
        BY <2>1, <4>2 DEF PhasesOf
      <4> QED
        BY <1>0, <4>1, <4>3
    <3>2. r = Silent(a)
      BY <2>1, <2>3, <3>0, ExpertWords DEF Ex!Interpret
    <3>3. /\ DOMAIN u.work = {"open", "ended", "last"}
          /\ u.work.open = new /\ u.work.last = w.last
      BY <2>1, <3>0 DEF AfterEnd, ExpertFits
    <3>4. ExpertFits(a, u.work)
      BY <2>2, <3>1, <3>3 DEF ExpertFits
    <3> QED
      BY <3>2, <3>4, SilentReads
  <2> QED
    BY <2>4, <2>5
<1> QED
  BY <1>1, <1>2, ExpertWords DEF Ex!Speech, ExpertTitles

\* A mapping that fits says neither more nor less than what is true of expert.
LEMMA ExpertSound ==
  ASSUME NEW a, NEW w, ExpertFits(a, w)
  PROVE  Sound(a.state, Ex!Complete(w), FALSE, {"unknown"})
<1>1. Open(w, Ex!Phases) <=> a.open # {}
  BY DEF ExpertFits, PhasesOf, Open
<1> QED
  BY <1>1, ExpertWords DEF ExpertFits, Sound, Ex!Complete

\* What metals may have open, and what of it is loading.
MetalsTitles == {"bspConfig", "importing", "indexing", "compiling", "request"}

\* Metals has nothing under way, ended an import and owes nothing.
MetalsDone(a, w) ==
  /\ a.open = {}
  /\ "indexing" \in w.ended
  /\ w.last \in {"indexing", "compiling"}
  /\ w.owes = {}

\* The mapping of metals has the tokens of its phases, and what is owed to the last changes.
MetalsFits(a, w) ==
  /\ DOMAIN w = {"open", "ended", "last", "owes", "module"}
  /\ OneTitle(w.open, MetalsTitles)
  /\ w.owes \subseteq {"compile", "import"} /\ w.module \in Health
  /\ DOMAIN a = {"state", "open", "imported", "pendingImport"} /\ a.state \in ServerStates
  /\ a.open = PhasesOf(w.open, Me!Phases)
  /\ a.imported \in BOOLEAN /\ (a.imported <=> "indexing" \in w.ended)
  /\ a.pendingImport \in BOOLEAN /\ (a.pendingImport <=> "import" \in w.owes)
  /\ a.state.health = w.module
  /\ a.state.readiness \in {"initializing", "indexing", "ready"}
  /\ a.state.readiness = "ready" <=> MetalsDone(a, w)

\* The words of Mapping mean the same in the instance Metals of them.
LEMMA MetalsWords ==
  /\ \A w, titles : Me!Begins(w, titles) = Begins(w, titles)
  /\ \A w, p : Me!EndOf(w, p) = EndOf(w, p)
  /\ \A w, titles : Me!Open(w, titles) <=> Open(w, titles)
  /\ \A a : Me!Says(a) = Says(a) /\ Me!Silent(a) = Silent(a)
BY DEF Me!Begins, Me!BeginsOf, Me!IsOpen, Begins, BeginsOf, IsOpen, Me!EndOf, EndOf,
   Me!Open, Open, Me!Says, Says, Me!Silent, Silent

\* Before metals says anything, the mapping that was selected for it fits.
LEMMA MetalsStart == MetalsFits(Me!Start, Me!Silence)
<1>1. PICK w : w = Me!Silence
  OBVIOUS
<1>2. w = [open |-> {}, ended |-> {}, last |-> "nothing", owes |-> {}, module |-> "unknown"]
  BY <1>1 DEF Me!Silence
<1>3. OneTitle(w.open, MetalsTitles) /\ PhasesOf(w.open, Me!Phases) = {}
  BY <1>2, NothingOpen DEF PhasesOf
<1>4. PICK a : a = Me!Start
  OBVIOUS
<1>5. /\ DOMAIN a = {"state", "open", "imported", "pendingImport"}
      /\ a.state \in ServerStates /\ a.state.health = "unknown" /\ a.state.readiness = "initializing"
      /\ a.open = {} /\ a.imported = FALSE /\ a.pendingImport = FALSE
  BY <1>4 DEF Me!Start, Me!Initializing, ServerStates, Health, Readiness
<1>6. /\ DOMAIN w = {"open", "ended", "last", "owes", "module"}
      /\ w.ended = {} /\ w.owes = {} /\ w.module = "unknown"
  BY <1>2
<1>7. MetalsFits(a, w)
  BY <1>3, <1>5, <1>6 DEF MetalsFits, MetalsDone, Health
<1> QED
  BY <1>1, <1>4, <1>7

\* The mapping of metals reads the beginning of an operation.
LEMMA MetalsBegins ==
  ASSUME NEW a, NEW w, MetalsFits(a, w), NEW u \in Begins(w, MetalsTitles),
         NEW r, r = Me!Interpret(a, u.says)
  PROVE  MetalsFits(r.next, u.work) /\ ReadsState(a, r)
<1>0. /\ OneTitle(w.open, MetalsTitles) /\ MetalsTitles \subseteq MetalsTitles
      /\ a.open = PhasesOf(w.open, Me!Phases)
  BY DEF MetalsFits
<1>1. PICK t \in Token, x \in MetalsTitles, new \in SUBSET (Token \X MetalsTitles) :
         /\ u.says = [is |-> "begin", token |-> t, title |-> x]
         /\ u.work = WithOpen(w, new)
         /\ new = w.open \cup {<<t, x>>}
         /\ Grows(w.open, new, t, x, MetalsTitles)
  BY <1>0, BeginsGrow, ZenonT(60)
<1>2. OneTitle(new, MetalsTitles)
  BY <1>1 DEF Grows
<1>3. PICK phases : phases = Me!Phases
  OBVIOUS
<1>4. CASE x \in phases
  <2>1. PhasesOf(new, phases) = PhasesOf(w.open, phases) \cup {<<t, x>>}
    BY <1>1, <1>4 DEF PhasesOf
  <2>2. PICK b : b = [a EXCEPT !.open = @ \cup {<<t, x>>}, !.state.readiness = "indexing"]
    OBVIOUS
  <2>3. r = Says(b)
    BY <1>1, <1>3, <1>4, <2>2, MetalsWords DEF Me!Interpret, Me!OnProgress, Me!OnBegin
  <2>4. b.open # {} /\ b.open = PhasesOf(new, Me!Phases)
    BY <1>0, <1>3, <2>1, <2>2 DEF MetalsFits
  <2>5. MetalsFits(b, u.work)
    BY <1>1, <1>2, <2>2, <2>4 DEF WithOpen, MetalsFits, MetalsDone, ServerStates, Readiness
  <2> QED
    BY <2>3, <2>5, SaysReads
<1>5. CASE x \notin phases
  <2>1. PhasesOf(new, phases) = PhasesOf(w.open, phases)
    BY <1>1, <1>5 DEF PhasesOf
  <2>2. r = Silent(a)
    BY <1>1, <1>3, <1>5, MetalsWords DEF Me!Interpret, Me!OnProgress
  <2>3. a.open = PhasesOf(new, Me!Phases)
    BY <1>0, <1>3, <2>1
  <2>4. MetalsFits(a, u.work)
    BY <1>1, <1>2, <2>3 DEF WithOpen, MetalsFits, MetalsDone
  <2> QED
    BY <2>2, <2>4, SilentReads
<1> QED
  BY <1>4, <1>5

\* The mapping of metals reads the end of an operation, which pays for what was owed.
LEMMA MetalsEnds ==
  ASSUME NEW a, NEW w, MetalsFits(a, w), NEW p \in w.open,
         NEW u, u = [says |-> [is |-> "end", token |-> p[1]],
                     work |-> [Me!EndOf(w, p) EXCEPT !.owes = @ \ Me!Paid(p[2])]],
         NEW r, r = Me!Interpret(a, u.says)
  PROVE  MetalsFits(r.next, u.work) /\ ReadsState(a, r)
<1>0. /\ OneTitle(w.open, MetalsTitles)
      /\ a.open = PhasesOf(w.open, Me!Phases)
  BY DEF MetalsFits
<1>1. PICK t \in Token, x \in MetalsTitles : p = <<t, x>>
  BY <1>0 DEF OneTitle
<1>2. p[1] = t /\ p[2] = x
  BY <1>1
<1>3. PICK new : new = w.open \ {p}
  OBVIOUS
<1>4. OneTitle(new, MetalsTitles)
  BY <1>0, <1>1, <1>3, Closed
<1>5. PICK paid : paid = Me!Paid(x)
  OBVIOUS
<1>6. /\ u.says = [is |-> "end", token |-> t]
      /\ u.work = [EndOf(w, p) EXCEPT !.owes = @ \ paid]
  BY <1>2, <1>5, MetalsWords
<1>7. /\ DOMAIN u.work = {"open", "ended", "last", "owes", "module"} /\ u.work.open = new
      /\ u.work.module = w.module /\ u.work.owes = w.owes \ paid
      /\ u.work.ended = IF x = "request" THEN w.ended ELSE w.ended \cup {x}
      /\ u.work.last = IF x = "request" THEN w.last ELSE x
  BY <1>2, <1>3, <1>6, ZenonT(60) DEF EndOf, MetalsFits
<1>8. PICK phases : phases = Me!Phases
  OBVIOUS
<1>9. PICK found : found = {q \in a.open : q[1] = t}
  OBVIOUS
<1>10. IF x \in phases THEN found = {p} ELSE found = {}
  BY <1>0, <1>1, <1>8, <1>9, Phase
<1>11. r = IF found = {} THEN Silent(a) ELSE Me!OnEnd(a, CHOOSE q \in found : TRUE)
  <2>1. u.says.is = "end" /\ u.says.token = t
    BY <1>6
  <2>2. r = LET ended == {q \in a.open : q[1] = t}
            IN  IF ended = {} THEN Me!Silent(a) ELSE Me!OnEnd(a, CHOOSE q \in ended : TRUE)
    <3>1. r = Me!OnProgress(a, u.says)
      BY <2>1 DEF Me!Interpret
    <3> QED
      BY <2>1, <3>1 DEF Me!OnProgress
  <2> QED
    BY <1>9, <2>2, MetalsWords
<1>12. CASE x \in phases
  <2>1. r = Me!OnEnd(a, p)
    <3>1. (CHOOSE q \in found : TRUE) = p /\ found # {}
      BY <1>10, <1>12
    <3> QED
      BY <1>11, <3>1
  <2>2. PhasesOf(new, phases) = PhasesOf(w.open, phases) \ {p} /\ p \in PhasesOf(w.open, phases)
    BY <1>2, <1>3, <1>12 DEF PhasesOf
  <2>3. PICK b : b = [a EXCEPT !.open = @ \ {p},
                               !.imported = @ \/ x = "indexing",
                               !.pendingImport = @ /\ x # "indexing"]
    OBVIOUS
  <2>4. PICK c : c = [b EXCEPT !.state.readiness = "ready"]
    OBVIOUS
  <2>5. r = Says(IF b.open = {} /\ Me!Completes(b, p) THEN c ELSE b)
    BY <1>2, <2>1, <2>3, <2>4, MetalsWords DEF Me!OnEnd
  <2>6. b.open = PhasesOf(new, Me!Phases) /\ a.open # {}
    BY <1>0, <1>8, <2>2, <2>3 DEF MetalsFits
  <2>7. x # "request" /\ x \in {"bspConfig", "importing", "indexing", "compiling"}
    BY <1>8, <1>12 DEF Me!Phases
  <2>8. paid = IF x = "indexing" THEN {"compile", "import"} ELSE IF x = "compiling" THEN {"compile"} ELSE {}
    BY <1>5, <2>7 DEF Me!Paid
  <2>9. /\ DOMAIN b = {"state", "open", "imported", "pendingImport"} /\ b.state = a.state
        /\ b.imported \in BOOLEAN /\ (b.imported <=> "indexing" \in u.work.ended)
        /\ b.pendingImport \in BOOLEAN /\ (b.pendingImport <=> "import" \in u.work.owes)
    <3>1. /\ DOMAIN b = {"state", "open", "imported", "pendingImport"} /\ b.state = a.state
          /\ b.imported = (a.imported \/ x = "indexing")
          /\ b.pendingImport = (a.pendingImport /\ x # "indexing")
      BY <2>3 DEF MetalsFits
    <3>2. CASE x = "indexing"
      BY <1>7, <2>7, <2>8, <3>1, <3>2 DEF MetalsFits
    <3>3. CASE x # "indexing"
      BY <1>7, <2>7, <2>8, <3>1, <3>3 DEF MetalsFits
    <3> QED
      BY <3>2, <3>3
  <2>10. u.work.owes \subseteq {"compile", "import"}
    BY <1>7 DEF MetalsFits
  <2>11. MetalsDone(b, u.work) <=> b.open = {} /\ Me!Completes(b, p)
    <3>1. "indexing" \in u.work.ended /\ x = "indexing" => u.work.owes = {}
      BY <1>7, <2>8 DEF MetalsFits
    <3>2. x = "compiling" => (u.work.owes = {} <=> "import" \notin u.work.owes)
      BY <1>7, <2>8 DEF MetalsFits
    <3>3. u.work.last = x
      BY <1>7, <2>7
    <3>4. x = "indexing" => "indexing" \in u.work.ended
      BY <1>7, <2>7
    <3> QED
      BY <1>2, <2>9, <3>1, <3>2, <3>3, <3>4 DEF MetalsDone, Me!Completes
  <2>12. CASE b.open = {} /\ Me!Completes(b, p)
    <3>1. r = Says(c)
      BY <2>5, <2>12
    <3>2. /\ DOMAIN c = {"state", "open", "imported", "pendingImport"} /\ c.open = b.open
          /\ c.imported = b.imported /\ c.pendingImport = b.pendingImport /\ c.state \in ServerStates
          /\ c.state.readiness = "ready" /\ c.state.health = w.module
      BY <2>4, <2>9 DEF MetalsFits, ServerStates, Readiness
    <3>3. MetalsDone(c, u.work)
      BY <2>11, <2>12, <3>2 DEF MetalsDone
    <3>4. MetalsFits(c, u.work)
      BY <1>4, <1>7, <2>6, <2>9, <2>10, <3>2, <3>3 DEF MetalsFits
    <3> QED
      BY <3>1, <3>4, SaysReads
  <2>13. CASE ~(b.open = {} /\ Me!Completes(b, p))
    <3>1. r = Says(b)
      BY <2>5, <2>13
    <3>2. a.state.readiness # "ready"
      BY <2>6 DEF MetalsFits, MetalsDone
    <3>3. MetalsFits(b, u.work)
      BY <1>4, <1>7, <2>6, <2>9, <2>10, <2>11, <2>13, <3>2 DEF MetalsFits
    <3> QED
      BY <3>1, <3>3, SaysReads
  <2> QED
    BY <2>12, <2>13
<1>13. CASE x \notin phases
  <2>1. x = "request" /\ found = {}
    BY <1>8, <1>10, <1>13 DEF Me!Phases, MetalsTitles
  <2>2. r = Silent(a)
    BY <1>11, <2>1
  <2>3. PhasesOf(new, phases) = PhasesOf(w.open, phases)
    BY <1>2, <1>3, <1>13 DEF PhasesOf
  <2>4. a.open = PhasesOf(new, Me!Phases)
    BY <1>0, <1>8, <2>3
  <2>5. paid = {}
    BY <1>5, <2>1 DEF Me!Paid
  <2>6. u.work.owes = w.owes /\ u.work.ended = w.ended /\ u.work.last = w.last
    BY <1>7, <2>1, <2>5
  <2>7. MetalsFits(a, u.work)
    BY <1>4, <1>7, <2>4, <2>6 DEF MetalsFits, MetalsDone
  <2> QED
    BY <2>2, <2>7, SilentReads
<1> QED
  BY <1>12, <1>13

\* The three parts of what metals says apart from beginnings.
MetalsStatuses(w) ==
  {Me!Notes(w, [is |-> "status", type |-> "module", level |-> l], "module", Me!Levels[l])
            : l \in DOMAIN Me!Levels}
MetalsOthers(w) ==
  {[says |-> [is |-> "status", type |-> "metals", level |-> "error"], work |-> w]}
MetalsEndings(w) ==
  {[says |-> [is |-> "end", token |-> p[1]],
    work |-> [Me!EndOf(w, p) EXCEPT !.owes = @ \ Me!Paid(p[2])]] : p \in w.open}

\* Whatever metals says next, the mapping that reads it fits the work that follows.
LEMMA MetalsSpeech ==
  ASSUME NEW a, NEW w, MetalsFits(a, w), NEW u \in Me!Speech(w),
         NEW r, r = Me!Interpret(a, u.says)
  PROVE  MetalsFits(r.next, u.work) /\ ReadsState(a, r)
<1>1. CASE u \in Begins(w, MetalsTitles)
  BY <1>1, MetalsBegins
<1>2. CASE u \in MetalsEndings(w)
  BY <1>2, MetalsEnds DEF MetalsEndings
<1>3. CASE u \in MetalsStatuses(w)
  <2>1. PICK l \in {"error", "warn", "info"} :
          u = Me!Notes(w, [is |-> "status", type |-> "module", level |-> l], "module", Me!Levels[l])
    BY <1>3 DEF MetalsStatuses, Me!Levels
  <2>2. PICK h \in Health : h = IF l = "error" THEN "error" ELSE IF l = "warn" THEN "warning" ELSE "ok"
    BY DEF Health
  <2>3. Me!Levels[l] = h
    BY <2>2 DEF Me!Levels
  <2>4. /\ u.says = [is |-> "status", type |-> "module", level |-> l]
        /\ u.work = [w EXCEPT !.module = h]
    BY <2>1, <2>3 DEF Me!Notes
  <2>5. PICK b : b = [a EXCEPT !.state.health = h]
    OBVIOUS
  <2>6. r = Says(b)
    BY <2>2, <2>4, <2>5, MetalsWords DEF Me!Interpret, Me!OnStatus
  <2>7. MetalsFits(b, u.work)
    BY <2>4, <2>5 DEF MetalsFits, MetalsDone, ServerStates
  <2> QED
    BY <2>6, <2>7, SaysReads
<1>4. CASE u \in MetalsOthers(w)
  <2>1. u.says = [is |-> "status", type |-> "metals", level |-> "error"] /\ u.work = w
    BY <1>4 DEF MetalsOthers
  <2>2. r = Silent(a)
    BY <2>1, MetalsWords DEF Me!Interpret, Me!OnStatus
  <2> QED
    BY <2>1, <2>2, SilentReads
<1>5. Me!Speech(w) = ((Begins(w, MetalsTitles) \cup MetalsEndings(w)) \cup MetalsStatuses(w)) \cup MetalsOthers(w)
  BY MetalsWords DEF Me!Speech, MetalsTitles, MetalsEndings, MetalsStatuses, MetalsOthers
<1> QED
  BY <1>1, <1>2, <1>3, <1>4, <1>5

\* The mapping tells the files of a build, and the sources, as metals does.
LEMMA MetalsFiles ==
  \A n \in Me!Names : /\ Me!IsBuildFile(n) <=> n \in Me!Builds
                      /\ Me!IsSourceFile(n) <=> n \in Me!Sources
BY DEF Me!Names, Me!Builds, Me!Sources, Me!IsBuildFile, Me!IsSourceFile

\* What a change calls for.
MetalsOwes(c) ==
  /\ Me!Owed(c) \subseteq {"compile", "import"}
  /\ "import" \in Me!Owed(c) <=> Me!IsBuildFile(c.name) \/ (Me!IsSourceFile(c.name) /\ c.kind # "changed")
  /\ "compile" \in Me!Owed(c) <=> Me!IsSourceFile(c.name) /\ c.kind = "changed"

\* The changes that a client announces, two in a message.
MetalsChanges == [name : Me!Names, kind : {"created", "changed", "deleted"}]

MetalsBeside == {Me!Recompiled, [name |-> <<"notes", ".txt">>, kind |-> "created"]}

MetalsAnnounced == {{c, d} : c \in MetalsChanges, d \in MetalsBeside}

\* Whatever the client of metals announces, the mapping fits the work that follows.
LEMMA MetalsClient ==
  ASSUME NEW a, NEW w, MetalsFits(a, w), NEW u \in Me!ClientSpeech(w),
         NEW r, r = Me!ObserveClient(a, u.says)
  PROVE  MetalsFits(r.next, u.work) /\ ReadsState(a, r)
<1>00. Me!ClientSpeech(w) =
         {Me!Notes(w, [changes |-> changes], "owes", w.owes \cup UNION {Me!Owed(e) : e \in changes})
            : changes \in MetalsAnnounced}
  BY DEF Me!ClientSpeech, MetalsAnnounced, MetalsChanges, MetalsBeside
<1>0. PICK changes \in MetalsAnnounced :
        u = Me!Notes(w, [changes |-> changes], "owes", w.owes \cup UNION {Me!Owed(e) : e \in changes})
  BY <1>00
<1>1. PICK c \in MetalsChanges, d \in MetalsBeside : changes = {c, d}
  BY DEF MetalsAnnounced
<1>2. d \in MetalsChanges
  BY DEF MetalsChanges, MetalsBeside, Me!Recompiled, Me!Names, Me!Sources
<1>3. PICK owes : owes = w.owes \cup UNION {Me!Owed(e) : e \in changes}
  OBVIOUS
<1>4. u.says.changes = {c, d} /\ u.work = [w EXCEPT !.owes = owes]
  BY <1>0, <1>1, <1>3 DEF Me!Notes
<1>5. \A e \in MetalsChanges : MetalsOwes(e)
  <2>1. \A n \in Me!Names : ~(n \in Me!Builds /\ n \in Me!Sources)
    BY DEF Me!Builds, Me!Sources
  <2> QED
    BY <2>1, MetalsFiles DEF MetalsOwes, MetalsChanges, Me!Owed
<1>6. PICK sourceChanged \in BOOLEAN : sourceChanged <=> \E e \in {c, d} : Me!IsSourceFile(e.name) /\ e.kind = "changed"
  OBVIOUS
<1>7. PICK buildChanged \in BOOLEAN :
        buildChanged <=> \E e \in {c, d} :
          Me!IsBuildFile(e.name) \/ (Me!IsSourceFile(e.name) /\ e.kind # "changed")
  OBVIOUS
<1>8. /\ owes \subseteq {"compile", "import"}
      /\ "import" \in owes <=> "import" \in w.owes \/ buildChanged
      /\ "compile" \in owes <=> "compile" \in w.owes \/ sourceChanged
  <2>1. MetalsOwes(c) /\ MetalsOwes(d)
    BY <1>2, <1>5
  <2>2. owes = (w.owes \cup Me!Owed(c)) \cup Me!Owed(d)
    BY <1>1, <1>3
  <2>3. w.owes \subseteq {"compile", "import"}
    BY DEF MetalsFits
  <2> QED
    BY <1>6, <1>7, <2>1, <2>2, <2>3 DEF MetalsOwes
<1>9. PICK b : b = [a EXCEPT !.pendingImport = @ \/ buildChanged]
  OBVIOUS
<1>10. PICK e : e = [b EXCEPT !.state.readiness = "indexing"]
  OBVIOUS
<1>11. r = IF a.state.readiness # "ready" \/ ~(sourceChanged \/ buildChanged) THEN Silent(b) ELSE Says(e)
  <2>1. sourceChanged = (\E f \in u.says.changes : Me!IsSourceFile(f.name) /\ f.kind = "changed")
    BY <1>4, <1>6
  <2>2. buildChanged = (\E f \in u.says.changes :
          Me!IsBuildFile(f.name) \/ (Me!IsSourceFile(f.name) /\ f.kind # "changed"))
    BY <1>4, <1>7
  <2> QED
    BY <1>9, <1>10, <2>1, <2>2, MetalsWords DEF Me!ObserveClient
<1>12. /\ DOMAIN b = {"state", "open", "imported", "pendingImport"} /\ b.state = a.state
       /\ b.open = a.open /\ b.imported = a.imported
       /\ b.pendingImport \in BOOLEAN /\ (b.pendingImport <=> "import" \in owes)
  BY <1>8, <1>9 DEF MetalsFits
<1>13. CASE sourceChanged \/ buildChanged
  <2>1. owes # {}
    BY <1>8, <1>13
  <2>2. CASE a.state.readiness # "ready"
    <3>1. MetalsFits(b, u.work)
      BY <1>4, <1>8, <1>12, <2>1, <2>2 DEF MetalsFits, MetalsDone
    <3> QED
      BY <1>11, <1>12, <2>2, <3>1, SilentReads
  <2>3. CASE a.state.readiness = "ready"
    <3>1. /\ DOMAIN e = DOMAIN b /\ e.open = b.open /\ e.imported = b.imported
          /\ e.pendingImport = b.pendingImport /\ e.state \in ServerStates
          /\ e.state.readiness = "indexing" /\ e.state.health = b.state.health
      BY <1>10, <1>12 DEF MetalsFits, ServerStates, Readiness
    <3>2. MetalsFits(e, u.work)
      BY <1>4, <1>8, <1>12, <2>1, <3>1 DEF MetalsFits, MetalsDone
    <3> QED
      BY <1>11, <1>13, <2>3, <3>2, SaysReads
  <2> QED
    BY <2>2, <2>3
<1>14. CASE ~(sourceChanged \/ buildChanged)
  <2>1. owes = w.owes
    <3>1. w.owes \subseteq {"compile", "import"}
      BY DEF MetalsFits
    <3>2. \A x \in {"compile", "import"} : x \in owes <=> x \in w.owes
      BY <1>8, <1>14
    <3>3. \A x : x \in owes <=> x \in w.owes
      BY <1>8, <3>1, <3>2
    <3> QED
      BY <3>3
  <2>2. MetalsFits(b, u.work)
    BY <1>4, <1>12, <2>1 DEF MetalsFits, MetalsDone
  <2> QED
    BY <1>11, <1>12, <1>14, <2>2, SilentReads
<1> QED
  BY <1>13, <1>14

\* A mapping that fits says neither more nor less than what is true of metals.
LEMMA MetalsSound ==
  ASSUME NEW a, NEW w, MetalsFits(a, w)
  PROVE  Sound(a.state, Me!Complete(w), FALSE, Me!Healths(w))
<1>1. Open(w, Me!Phases) <=> a.open # {}
  BY DEF MetalsFits, PhasesOf, Open
<1> QED
  BY <1>1, MetalsWords DEF MetalsFits, MetalsDone, Sound, Me!Complete, Me!Ended, Me!Healths

\* The titles of gopls, and those that mean something to the mapping.
GoplsTitles == {"setup", "failure", "request"}
GoplsSetups == {"setup"}
GoplsFailures == {"failure"}

\* No load is open, and one ended.
GoplsDone(a, w) == a.loading = {} /\ "setup" \in w.ended

\* What is known of the work of gopls.
GoplsWork == {"open", "ended", "last", "failing", "round", "recovered"}

\* The health that the work of gopls gives cause for.
GoplsHealth(a, w) ==
  IF a.failure # {} THEN "error" ELSE IF w.recovered = TRUE THEN "ok" ELSE w.round

\* The mapping of gopls has the tokens of the loads that are open, and that of the failure,
\* and knows whether a folder of the round has failed.
GoplsFits(a, w) ==
  /\ DOMAIN w = GoplsWork /\ w.failing \in BOOLEAN /\ w.recovered \in BOOLEAN
  /\ w.round \in {"unknown", "ok", "error"}
  /\ OneTitle(w.open, GoplsTitles)
  /\ DOMAIN a = {"state", "loading", "failedInRound", "failure"} /\ a.state \in ServerStates
  /\ a.failedInRound = w.failing
  /\ a.loading = TokensOf(w.open, GoplsSetups)
  /\ a.failure = TokensOf(w.open, GoplsFailures)
  /\ \A s, t \in a.failure : s = t
  /\ a.state.health = GoplsHealth(a, w)
  /\ a.state.readiness \in {"initializing", "indexing", "ready"}
  /\ a.state.readiness = "ready" <=> GoplsDone(a, w)

\* The words of Mapping mean the same in the instance Gopls of them.
LEMMA GoplsWords ==
  /\ \A w, titles : Go!Begins(w, titles) = Begins(w, titles)
  /\ \A w : Go!StrayEnds(w) = StrayEnds(w)
  /\ \A w, p : Go!EndOf(w, p) = EndOf(w, p)
  /\ \A w, titles : Go!Open(w, titles) <=> Open(w, titles)
  /\ \A a : Go!Says(a) = Says(a) /\ Go!Silent(a) = Silent(a)
BY DEF Go!Begins, Go!BeginsOf, Go!IsOpen, Begins, BeginsOf, IsOpen, Go!EndOf, EndOf,
   Go!StrayEnds, StrayEnds, Go!Open, Open, Go!Says, Says, Go!Silent, Silent

\* Before gopls says anything, the mapping that was selected for it fits.
LEMMA GoplsStart == GoplsFits(Go!Start, Go!Silence)
<1>1. PICK w : w = Go!Silence
  OBVIOUS
<1>2. w = [open |-> {}, ended |-> {}, last |-> "nothing",
           failing |-> FALSE, round |-> "unknown", recovered |-> FALSE]
  BY <1>1 DEF Go!Silence
<1>3. OneTitle(w.open, GoplsTitles) /\ TokensOf(w.open, GoplsSetups) = {} /\ TokensOf(w.open, GoplsFailures) = {}
  BY <1>2, NothingOpen
<1>4. PICK a : a = Go!Start
  OBVIOUS
<1>5. /\ DOMAIN a = {"state", "loading", "failedInRound", "failure"}
      /\ a.state \in ServerStates /\ a.state.health = "unknown" /\ a.state.readiness = "initializing"
      /\ a.loading = {} /\ a.failedInRound = FALSE /\ a.failure = {}
  BY <1>4 DEF Go!Start, Go!Initializing, ServerStates, Health, Readiness
<1>6. /\ DOMAIN w = GoplsWork /\ w.ended = {}
      /\ w.failing = FALSE /\ w.round = "unknown" /\ w.recovered = FALSE
  BY <1>2 DEF GoplsWork
<1>7. GoplsFits(a, w)
  BY <1>3, <1>5, <1>6 DEF GoplsFits, GoplsDone, GoplsHealth
<1> QED
  BY <1>1, <1>4, <1>7

\* The mapping of gopls reads the beginning of an operation, which may be that of a round or
\* of a failure.
LEMMA GoplsBegins ==
  ASSUME NEW a, NEW w, GoplsFits(a, w), NEW v \in Begins(w, Go!Titles(w)), NEW u, u = Go!Begun(w, v),
         NEW r, r = Go!Interpret(a, u.says)
  PROVE  GoplsFits(r.next, u.work) /\ ReadsState(a, r)
<1>0. /\ OneTitle(w.open, GoplsTitles)
      /\ a.loading = TokensOf(w.open, GoplsSetups) /\ a.failure = TokensOf(w.open, GoplsFailures)
  BY DEF GoplsFits
<1>1. PICK titles : titles = Go!Titles(w)
  OBVIOUS
<1>2. titles \subseteq GoplsTitles /\ ("failure" \in titles => ~Go!Open(w, {"failure"}))
  BY <1>1 DEF Go!Titles, GoplsTitles
<1>3. "failure" \in titles => a.failure = {}
  <2>1. Open(w, GoplsFailures) <=> a.failure # {}
    BY <1>0, SomeOpen DEF Open
  <2> QED
    BY <1>2, <2>1, GoplsWords DEF GoplsFailures
<1>4. PICK t \in Token, x \in titles, new \in SUBSET (Token \X GoplsTitles) :
         /\ DOMAIN v = {"says", "work"}
         /\ v.says = [is |-> "begin", token |-> t, title |-> x]
         /\ v.work = WithOpen(w, new)
         /\ Grows(w.open, new, t, x, GoplsTitles)
  <2>1. v \in Begins(w, titles) /\ OneTitle(w.open, GoplsTitles)
    BY <1>0, <1>1
  <2> QED
    BY <1>2, <2>1, BeginsGrow, ZenonT(60)
<1>5. /\ OneTitle(new, GoplsTitles)
      /\ \A some : /\ x \in some => TokensOf(new, some) = TokensOf(w.open, some) \cup {t}
                   /\ x \notin some => TokensOf(new, some) = TokensOf(w.open, some)
  BY <1>4 DEF Grows
<1>9. /\ DOMAIN v.work = GoplsWork /\ v.work.open = new /\ v.work.ended = w.ended
      /\ v.work.failing = w.failing /\ v.work.round = w.round /\ v.work.recovered = w.recovered
  BY <1>4 DEF WithOpen, GoplsFits, GoplsWork
<1>6. CASE x = "setup"
  <2>1. x \in GoplsSetups /\ x \notin GoplsFailures
    BY <1>6 DEF GoplsSetups, GoplsFailures
  <2>2. TokensOf(new, GoplsSetups) = a.loading \cup {t} /\ TokensOf(new, GoplsFailures) = a.failure
    BY <1>0, <1>5, <2>1
  <2>3. Go!Open(w, {"setup"}) <=> a.loading # {}
    BY <1>0, SomeOpen, GoplsWords DEF Open, GoplsSetups
  <2>4. /\ u.says = v.says
        /\ DOMAIN u.work = GoplsWork /\ u.work.open = new /\ u.work.ended = w.ended
        /\ u.work.failing = (w.failing /\ a.loading # {})
        /\ u.work.round = w.round /\ u.work.recovered = w.recovered
    <3>1. v.says.title = "setup"
      BY <1>4, <1>6
    <3>2. CASE a.loading = {}
      <4>1. u = [v EXCEPT !.work.failing = FALSE]
        BY <2>3, <3>1, <3>2 DEF Go!Begun
      <4>2. u.says = v.says /\ u.work = [v.work EXCEPT !.failing = FALSE]
        BY <1>4, <4>1
      <4> QED
        BY <1>9, <3>2, <4>2 DEF GoplsWork
    <3>3. CASE a.loading # {}
      <4>1. u = v
        BY <2>3, <3>3 DEF Go!Begun
      <4>2. w.failing \in BOOLEAN
        BY DEF GoplsFits
      <4> QED
        BY <1>9, <3>3, <4>1, <4>2
    <3> QED
      BY <3>2, <3>3
  <2>5. PICK b : b = [a EXCEPT !.failedInRound = @ /\ a.loading # {},
                               !.loading = @ \cup {t}, !.state.readiness = "indexing"]
    OBVIOUS
  <2>6. r = Says(b)
    <3>1. r = Go!OnBegin(a, t, "setup")
      BY <1>4, <1>6, <2>4 DEF Go!Interpret
    <3> QED
      BY <2>5, <3>1, GoplsWords DEF Go!OnBegin
  <2>7. /\ DOMAIN b = {"state", "loading", "failedInRound", "failure"}
        /\ b.failedInRound = (a.failedInRound /\ a.loading # {})
        /\ b.loading = a.loading \cup {t} /\ b.failure = a.failure
        /\ b.state \in ServerStates /\ b.state.health = a.state.health /\ b.state.readiness = "indexing"
    BY <2>5 DEF GoplsFits, ServerStates, Readiness
  <2>8. b.failedInRound = u.work.failing /\ u.work.failing \in BOOLEAN
    <3>1. a.failedInRound = w.failing
      BY DEF GoplsFits
    <3> QED
      BY <2>4, <2>7, <3>1
  <2>10. b.state.health = GoplsHealth(b, u.work)
    BY <2>4, <2>7 DEF GoplsFits, GoplsHealth
  <2>9. GoplsFits(b, u.work)
    BY <1>5, <2>2, <2>4, <2>7, <2>8, <2>10 DEF GoplsFits, GoplsDone
  <2> QED
    BY <2>6, <2>9, SaysReads
<1>7. CASE x = "failure"
  <2>1. x \notin GoplsSetups /\ x \in GoplsFailures
    BY <1>7 DEF GoplsSetups, GoplsFailures
  <2>2. TokensOf(new, GoplsSetups) = a.loading /\ TokensOf(new, GoplsFailures) = {t}
    BY <1>0, <1>3, <1>5, <1>7, <2>1
  <2>3. u = v
    BY <1>4, <1>7 DEF Go!Begun
  <2>5. PICK b : b = [a EXCEPT !.failure = {t}, !.state.health = "error"]
    OBVIOUS
  <2>6. r = Says(b)
    <3>1. r = Go!OnBegin(a, t, "failure")
      BY <1>4, <1>7, <2>3 DEF Go!Interpret
    <3>2. Go!OnBegin(a, t, "failure") = Go!Says([a EXCEPT !.failure = {t}, !.state.health = "error"])
      BY DEF Go!OnBegin
    <3> QED
      BY <2>5, <3>1, <3>2, GoplsWords
  <2>7. /\ DOMAIN b = {"state", "loading", "failedInRound", "failure"}
        /\ b.failedInRound = a.failedInRound
        /\ b.loading = a.loading /\ b.failure = {t}
        /\ b.state \in ServerStates /\ b.state.health = "error" /\ b.state.readiness = a.state.readiness
    BY <2>5 DEF GoplsFits, ServerStates, Health
  <2>8. b.state.health = GoplsHealth(b, u.work)
    BY <2>7 DEF GoplsHealth
  <2>9. GoplsFits(b, u.work)
    BY <1>5, <1>9, <2>2, <2>3, <2>7, <2>8 DEF GoplsFits, GoplsDone
  <2> QED
    BY <2>6, <2>9, SaysReads
<1>8. CASE x = "request"
  <2>1. x \notin GoplsSetups /\ x \notin GoplsFailures
    BY <1>8 DEF GoplsSetups, GoplsFailures
  <2>2. TokensOf(new, GoplsSetups) = a.loading /\ TokensOf(new, GoplsFailures) = a.failure
    BY <1>0, <1>5, <2>1
  <2>3. u = v
    BY <1>4, <1>8 DEF Go!Begun
  <2>6. r = Silent(a)
    BY <1>4, <1>8, <2>3, GoplsWords DEF Go!Interpret, Go!OnBegin
  <2>7. a.state.health = GoplsHealth(a, u.work)
    BY <1>9, <2>3 DEF GoplsFits, GoplsHealth
  <2>9. GoplsFits(a, u.work)
    BY <1>5, <1>9, <2>2, <2>3, <2>7 DEF GoplsFits, GoplsDone
  <2> QED
    BY <2>6, <2>9, SilentReads
<1> QED
  BY <1>2, <1>6, <1>7, <1>8 DEF GoplsTitles

\* What an end leaves of the work of gopls.
GoplsEnded(w, next, new, x, failed) ==
  /\ DOMAIN next = GoplsWork /\ next.open = new
  /\ next.ended = IF x = "request" THEN w.ended ELSE w.ended \cup {x}
  /\ x = "setup" => next.failing = (w.failing \/ failed)
  /\ x # "setup" => next.failing = w.failing
  /\ x = "setup" /\ ~Open(next, GoplsSetups)
       => next.recovered = FALSE /\ next.round = IF w.failing \/ failed THEN "error" ELSE "ok"
  /\ ~(x = "setup" /\ ~Open(next, GoplsSetups)) => next.round = w.round
  /\ x = "failure" => next.recovered = TRUE
  /\ x = "request" \/ (x = "setup" /\ Open(next, GoplsSetups)) => next.recovered = w.recovered

\* The end of an operation of gopls leaves that.
LEMMA GoplsEnding ==
  ASSUME NEW w, DOMAIN w = GoplsWork, NEW t, NEW x \in GoplsTitles, NEW failed \in BOOLEAN,
         NEW p, p = <<t, x>>, NEW new, new = w.open \ {p}, NEW next, next = Go!Ending(w, p, failed)
  PROVE  GoplsEnded(w, next, new, x, failed)
<1>1. p = <<t, x>>
  OBVIOUS
<1>2. PICK v : v = EndOf(w, p)
  OBVIOUS
<1>3. PICK fails : fails = (w.failing \/ failed)
  OBVIOUS
<1>4. /\ DOMAIN v = GoplsWork /\ v.open = w.open \ {p}
      /\ v.ended = IF x = "request" THEN w.ended ELSE w.ended \cup {x}
      /\ v.failing = w.failing /\ v.round = w.round /\ v.recovered = w.recovered
  BY <1>1, <1>2 DEF EndOf, GoplsWork
<1>5. next = CASE x = "setup" /\ Open(v, {"setup"}) -> [v EXCEPT !.failing = fails]
               [] x = "setup" /\ ~Open(v, {"setup"}) ->
                    [v EXCEPT !.failing = fails, !.recovered = FALSE,
                              !.round = IF fails THEN "error" ELSE "ok"]
               [] x = "failure" -> [v EXCEPT !.recovered = TRUE]
               [] OTHER -> v
  <2>1. p[2] = x
    BY <1>1
  <2>2. Go!EndOf(w, p) = v /\ (Go!Open(v, {"setup"}) <=> Open(v, {"setup"}))
    BY <1>2, GoplsWords
  <2> QED
    BY <1>1, <1>3, <2>1, <2>2 DEF Go!Ending
<1>6. CASE x = "setup" /\ Open(v, {"setup"})
  <2>1. next = [v EXCEPT !.failing = fails]
    BY <1>5, <1>6
  <2>2. next.open = v.open
    BY <1>4, <2>1 DEF GoplsWork
  <2>3. Open(next, GoplsSetups)
    BY <1>6, <2>2 DEF Open, GoplsSetups
  <2> QED
    BY <1>1, <1>3, <1>4, <1>6, <2>1, <2>3 DEF GoplsWork, GoplsEnded
<1>7. CASE x = "setup" /\ ~Open(v, {"setup"})
  <2>1. next = [v EXCEPT !.failing = fails, !.recovered = FALSE,
                         !.round = IF fails THEN "error" ELSE "ok"]
    BY <1>5, <1>7
  <2>2. next.open = v.open
    BY <1>4, <2>1 DEF GoplsWork
  <2>3. ~Open(next, GoplsSetups)
    BY <1>7, <2>2 DEF Open, GoplsSetups
  <2> QED
    BY <1>1, <1>3, <1>4, <1>7, <2>1, <2>3 DEF GoplsWork, GoplsEnded
<1>8. CASE x = "failure"
  <2>1. next = [v EXCEPT !.recovered = TRUE]
    BY <1>5, <1>8
  <2> QED
    BY <1>1, <1>4, <1>8, <2>1 DEF GoplsWork, GoplsEnded
<1>9. CASE x = "request"
  <2>1. next = v
    BY <1>5, <1>9
  <2> QED
    BY <1>1, <1>4, <1>9, <2>1 DEF GoplsEnded
<1> QED
  BY <1>6, <1>7, <1>8, <1>9 DEF GoplsTitles

\* The token of an operation of gopls that ended is taken from where it was.
GoplsTaken(open, new, t, x) ==
  /\ OneTitle(new, GoplsTitles)
  /\ \A some : /\ x \in some => /\ t \in TokensOf(open, some)
                                /\ TokensOf(new, some) = TokensOf(open, some) \ {t}
               /\ x \notin some => /\ t \notin TokensOf(open, some)
                                   /\ TokensOf(new, some) = TokensOf(open, some)

\* It is, when the operation ends.
LEMMA GoplsCloses ==
  ASSUME NEW open, OneTitle(open, GoplsTitles), NEW t \in Token, NEW x \in GoplsTitles, NEW p, p = <<t, x>>,
         p \in open, NEW new, new = open \ {p}
  PROVE  GoplsTaken(open, new, t, x)
<1>1. OneTitle(new, GoplsTitles)
  BY Closed
<1>2. ASSUME NEW some
      PROVE  /\ x \in some => /\ t \in TokensOf(open, some)
                              /\ TokensOf(new, some) = TokensOf(open, some) \ {t}
             /\ x \notin some => /\ t \notin TokensOf(open, some)
                                 /\ TokensOf(new, some) = TokensOf(open, some)
  BY Closed
<1> QED
  BY <1>1, <1>2 DEF GoplsTaken

\* The mapping of gopls reads the end of an operation, with or without a failure.
LEMMA GoplsEnds ==
  ASSUME NEW a, NEW w, GoplsFits(a, w), NEW t \in Token, NEW x \in GoplsTitles,
         <<t, x>> \in w.open, NEW failed \in BOOLEAN, failed => x = "setup",
         NEW m, m.is = "end", m.token = t, ("failed" \in DOMAIN m) = failed,
         NEW next, next = Go!Ending(w, <<t, x>>, failed),
         NEW r, r = Go!Interpret(a, m)
  PROVE  GoplsFits(r.next, next) /\ ReadsState(a, r)
<1>0. /\ OneTitle(w.open, GoplsTitles)
      /\ a.loading = TokensOf(w.open, GoplsSetups) /\ a.failure = TokensOf(w.open, GoplsFailures)
      /\ DOMAIN w = GoplsWork
  BY DEF GoplsFits
<1>12. PICK p : p = <<t, x>>
  OBVIOUS
<1>5. PICK new : new = w.open \ {p}
  OBVIOUS
<1>10. p \in w.open /\ next = Go!Ending(w, p, failed)
  BY <1>12
<1>13. GoplsTaken(w.open, new, t, x)
  BY <1>0, <1>12, <1>5, <1>10, GoplsCloses, Zenon
<1>1. /\ OneTitle(new, GoplsTitles)
      /\ \A some : /\ x \in some => /\ t \in TokensOf(w.open, some)
                                    /\ TokensOf(new, some) = TokensOf(w.open, some) \ {t}
                   /\ x \notin some => /\ t \notin TokensOf(w.open, some)
                                       /\ TokensOf(new, some) = TokensOf(w.open, some)
  BY <1>13, Zenon DEF GoplsTaken
<1>11. GoplsEnded(w, next, new, x, failed)
  BY <1>0, <1>12, <1>5, <1>10, GoplsEnding, Zenon
<1>6. /\ DOMAIN next = GoplsWork /\ next.open = new
      /\ next.ended = IF x = "request" THEN w.ended ELSE w.ended \cup {x}
      /\ x = "setup" => next.failing = (w.failing \/ failed)
      /\ x # "setup" => next.failing = w.failing
      /\ x = "setup" /\ ~Open(next, GoplsSetups)
           => next.recovered = FALSE /\ next.round = IF w.failing \/ failed THEN "error" ELSE "ok"
      /\ ~(x = "setup" /\ ~Open(next, GoplsSetups)) => next.round = w.round
      /\ x = "failure" => next.recovered = TRUE
      /\ x = "request" \/ (x = "setup" /\ Open(next, GoplsSetups)) => next.recovered = w.recovered
  BY <1>11, Zenon DEF GoplsEnded
<1>7. Open(next, GoplsSetups) <=> TokensOf(new, GoplsSetups) # {}
  BY <1>1, <1>6, SomeOpen DEF Open
<1>8. /\ w.failing \in BOOLEAN /\ w.recovered \in BOOLEAN /\ w.round \in {"unknown", "ok", "error"}
      /\ a.failedInRound = w.failing
  BY DEF GoplsFits
<1>9. next.failing \in BOOLEAN /\ next.recovered \in BOOLEAN /\ next.round \in {"unknown", "ok", "error"}
  <2>1. CASE x = "setup" /\ ~Open(next, GoplsSetups)
    BY <1>6, <1>8, <2>1
  <2>2. CASE x = "setup" /\ Open(next, GoplsSetups)
    BY <1>6, <1>8, <2>2
  <2>3. CASE x # "setup"
    <3>1. x \in {"failure", "request"}
      BY <2>3 DEF GoplsTitles
    <3> QED
      BY <1>6, <1>8, <2>3, <3>1
  <2> QED
    BY <2>1, <2>2, <2>3
<1>2. CASE x = "setup"
  <2>1. x \in GoplsSetups /\ x \notin GoplsFailures
    BY <1>2 DEF GoplsSetups, GoplsFailures
  <2>2. /\ t \in a.loading /\ t \notin a.failure
        /\ TokensOf(new, GoplsSetups) = a.loading \ {t} /\ TokensOf(new, GoplsFailures) = a.failure
    BY <1>0, <1>1, <2>1
  <2>3. PICK b : b = [a EXCEPT !.loading = a.loading \ {t}, !.failedInRound = @ \/ failed]
    OBVIOUS
  <2>4. PICK h : h = Go!HealthAfterRound(b)
    OBVIOUS
  <2>5. PICK s : s = [health |-> h, readiness |-> "ready"]
    OBVIOUS
  <2>6. PICK c : c = [b EXCEPT !.state = s]
    OBVIOUS
  <2>7. r = IF a.loading \ {t} # {} THEN Says(b) ELSE Says(c)
    <3>1. r = Go!OnSetupEnd(a, t, failed)
      <4>1. t \in a.loading \ a.failure
        BY <2>2
      <4> QED
        BY <2>2, <4>1 DEF Go!Interpret
    <3> QED
      BY <2>3, <2>4, <2>5, <2>6, <3>1, GoplsWords DEF Go!OnSetupEnd
  <2>8. /\ DOMAIN b = {"state", "loading", "failedInRound", "failure"}
        /\ b.failedInRound = (a.failedInRound \/ failed)
        /\ b.loading = a.loading \ {t} /\ b.failure = a.failure /\ b.state = a.state
    BY <2>3 DEF GoplsFits
  <2>9. b.failedInRound = next.failing
    BY <1>2, <1>6, <1>8, <2>8
  <2>10. a.loading # {} /\ "setup" \in next.ended
    BY <1>2, <1>6, <2>2
  <2>11. CASE a.loading \ {t} # {}
    <3>1. next.round = w.round /\ next.recovered = w.recovered
      BY <1>2, <1>6, <1>7, <2>2, <2>11
    <3>2. b.state.health = GoplsHealth(b, next)
      BY <2>8, <3>1 DEF GoplsFits, GoplsHealth
    <3>3. b.state.readiness # "ready"
      BY <2>8, <2>10 DEF GoplsFits, GoplsDone
    <3>4. GoplsFits(b, next)
      BY <1>1, <1>6, <1>9, <2>2, <2>8, <2>9, <2>11, <3>2, <3>3 DEF GoplsFits, GoplsDone
    <3> QED
      BY <2>7, <2>11, <3>4, SaysReads
  <2>12. CASE a.loading \ {t} = {}
    <3>0. /\ next.recovered = FALSE
          /\ next.round = IF w.failing \/ failed THEN "error" ELSE "ok"
      BY <1>2, <1>6, <1>7, <2>2, <2>12
    <3>1. h = IF b.failedInRound THEN "error" ELSE IF b.failure = {} THEN "ok" ELSE b.state.health
      BY <2>4 DEF Go!HealthAfterRound
    <3>2. a.failure # {} => a.state.health = "error"
      BY DEF GoplsFits, GoplsHealth
    <3>5. h = IF a.failure # {} THEN "error" ELSE next.round
      <4>1. b.failedInRound <=> w.failing \/ failed
        BY <1>8, <2>8
      <4>2. CASE w.failing \/ failed
        BY <3>0, <3>1, <4>1, <4>2
      <4>3. CASE ~(w.failing \/ failed)
        BY <2>8, <3>0, <3>1, <3>2, <4>1, <4>3
      <4> QED
        BY <4>2, <4>3
    <3>3. /\ DOMAIN c = {"state", "loading", "failedInRound", "failure"}
          /\ c.failedInRound = b.failedInRound /\ c.loading = {} /\ c.failure = a.failure
          /\ c.state \in ServerStates /\ c.state.health = h /\ c.state.readiness = "ready"
      BY <1>9, <2>5, <2>6, <2>8, <2>12, <3>5 DEF ServerStates, Health, Readiness
    <3>6. c.state.health = GoplsHealth(c, next)
      BY <3>0, <3>3, <3>5 DEF GoplsHealth
    <3>7. a.failure = {} \/ ~(\E q, o \in a.failure : q # o)
      BY DEF GoplsFits
    <3>4. GoplsFits(c, next)
      BY <1>1, <1>6, <1>9, <2>2, <2>9, <2>10, <2>12, <3>3, <3>6, <3>7 DEF GoplsFits, GoplsDone
    <3> QED
      BY <2>7, <2>12, <3>4, SaysReads
  <2> QED
    BY <2>11, <2>12
<1>3. CASE x = "failure"
  <2>1. x \notin GoplsSetups /\ x \in GoplsFailures
    BY <1>3 DEF GoplsSetups, GoplsFailures
  <2>2. /\ t \in a.failure
        /\ TokensOf(new, GoplsSetups) = a.loading /\ TokensOf(new, GoplsFailures) = a.failure \ {t}
    BY <1>0, <1>1, <2>1
  <2>3. a.failure \ {t} = {}
    BY <2>2 DEF GoplsFits
  <2>4. PICK b : b = [a EXCEPT !.failure = {}, !.state.health = "ok"]
    OBVIOUS
  <2>5. r = Says(b)
    BY <2>2, <2>4, GoplsWords DEF Go!Interpret, Go!OnFailureEnd
  <2>6. /\ DOMAIN b = {"state", "loading", "failedInRound", "failure"}
        /\ b.failedInRound = a.failedInRound
        /\ b.loading = a.loading /\ b.failure = {}
        /\ b.state \in ServerStates /\ b.state.health = "ok" /\ b.state.readiness = a.state.readiness
    BY <2>4 DEF GoplsFits, ServerStates, Health
  <2>7. GoplsDone(b, next) <=> GoplsDone(a, w)
    BY <1>3, <1>6, <2>6 DEF GoplsDone
  <2>8. next.failing = w.failing /\ b.state.health = GoplsHealth(b, next)
    BY <1>3, <1>6, <2>6 DEF GoplsHealth
  <2>9. GoplsFits(b, next)
    BY <1>1, <1>6, <1>8, <1>9, <2>2, <2>3, <2>6, <2>7, <2>8 DEF GoplsFits
  <2> QED
    BY <2>5, <2>9, SaysReads
<1>4. CASE x = "request"
  <2>1. x \notin GoplsSetups /\ x \notin GoplsFailures
    BY <1>4 DEF GoplsSetups, GoplsFailures
  <2>2. /\ t \notin a.loading /\ t \notin a.failure
        /\ TokensOf(new, GoplsSetups) = a.loading /\ TokensOf(new, GoplsFailures) = a.failure
    BY <1>0, <1>1, <2>1
  <2>3. r = Silent(a)
    BY <2>2, GoplsWords DEF Go!Interpret
  <2>4. /\ next.failing = w.failing /\ next.round = w.round /\ next.recovered = w.recovered
        /\ next.ended = w.ended
    BY <1>4, <1>6
  <2>5. a.state.health = GoplsHealth(a, next)
    BY <2>4 DEF GoplsFits, GoplsHealth
  <2>6. GoplsFits(a, next)
    BY <1>1, <1>6, <1>8, <1>9, <2>2, <2>4, <2>5 DEF GoplsFits, GoplsDone
  <2> QED
    BY <2>3, <2>6, SilentReads
<1> QED
  BY <1>2, <1>3, <1>4 DEF GoplsTitles

\* What gopls says when an operation begins.
GoplsBegun(w) == {Go!Begun(w, v) : v \in Begins(w, Go!Titles(w))}

\* Whatever gopls says next, the mapping that reads it fits the work that follows.
LEMMA GoplsSpeech ==
  ASSUME NEW a, NEW w, GoplsFits(a, w), NEW u \in Go!Speech(w),
         NEW r, r = Go!Interpret(a, u.says)
  PROVE  GoplsFits(r.next, u.work) /\ ReadsState(a, r)
<1>0. /\ OneTitle(w.open, GoplsTitles)
      /\ a.loading = TokensOf(w.open, GoplsSetups) /\ a.failure = TokensOf(w.open, GoplsFailures)
  BY DEF GoplsFits
<1>1. CASE u \in GoplsBegun(w)
  BY <1>1, GoplsBegins DEF GoplsBegun
<1>2. ASSUME NEW failed \in BOOLEAN, NEW p \in w.open, failed => p[2] = "setup",
             u.says.is = "end", u.says.token = p[1], ("failed" \in DOMAIN u.says) = failed,
             u.work = Go!Ending(w, p, failed)
      PROVE  GoplsFits(r.next, u.work) /\ ReadsState(a, r)
  <2>1. PICK t \in Token, x \in GoplsTitles : p = <<t, x>>
    BY <1>0 DEF OneTitle
  <2>2. PICK m : m = u.says
    OBVIOUS
  <2>3. PICK next : next = u.work
    OBVIOUS
  <2>4. /\ m.is = "end" /\ m.token = t /\ ("failed" \in DOMAIN m) = failed
        /\ next = Go!Ending(w, <<t, x>>, failed) /\ <<t, x>> \in w.open
        /\ failed => x = "setup"
        /\ r = Go!Interpret(a, m)
    BY <1>2, <2>1, <2>2, <2>3
  <2>5. GoplsFits(r.next, next) /\ ReadsState(a, r)
    BY <2>4, GoplsEnds
  <2> QED
    BY <2>3, <2>5
<1>3. CASE u \in Go!GoodEnds(w)
  <2>1. PICK p \in w.open :
          u = [says |-> [is |-> "end", token |-> p[1]], work |-> Go!Ending(w, p, FALSE)]
    BY <1>3 DEF Go!GoodEnds
  <2>2. ("failed" \in DOMAIN u.says) = FALSE
    BY <2>1
  <2> QED
    BY <1>2, <2>1, <2>2
<1>6. CASE u \in Go!FailedEnds(w)
  <2>1. PICK p \in w.open :
          /\ p[2] = "setup"
          /\ u = [says |-> [is |-> "end", token |-> p[1], failed |-> TRUE],
                  work |-> Go!Ending(w, p, TRUE)]
    BY <1>6 DEF Go!FailedEnds
  <2>2. ("failed" \in DOMAIN u.says) = TRUE
    BY <2>1
  <2> QED
    BY <1>2, <2>1, <2>2
<1>4. CASE u \in StrayEnds(w)
  <2>1. PICK t \in Token : ~(\E q \in w.open : q[1] = t) /\ u = [says |-> [is |-> "end", token |-> t], work |-> w]
    BY <1>4 DEF StrayEnds, IsOpen
  <2>2. t \notin a.loading /\ t \notin a.failure
    BY <1>0, <2>1, Strays
  <2>3. r = Silent(a)
    BY <2>1, <2>2, GoplsWords DEF Go!Interpret
  <2> QED
    BY <2>1, <2>3, SilentReads
<1>5. Go!Speech(w) = ((GoplsBegun(w) \cup Go!GoodEnds(w)) \cup Go!FailedEnds(w)) \cup StrayEnds(w)
  BY GoplsWords DEF Go!Speech, GoplsBegun
<1> QED
  BY <1>1, <1>3, <1>4, <1>5, <1>6

\* A mapping that fits says neither more nor less than what is true of gopls.
LEMMA GoplsSound ==
  ASSUME NEW a, NEW w, GoplsFits(a, w)
  PROVE  Sound(a.state, Go!Complete(w), FALSE, Go!Healths(w))
<1>0. OneTitle(w.open, GoplsTitles)
  BY DEF GoplsFits
<1>1. (Open(w, GoplsSetups) <=> a.loading # {}) /\ (Open(w, GoplsFailures) <=> a.failure # {})
  BY <1>0, SomeOpen DEF GoplsFits, Open
<1>2. Go!Complete(w) <=> GoplsDone(a, w)
  BY <1>1, GoplsWords DEF Go!Complete, Go!Ended, GoplsDone, GoplsSetups
<1>3. Go!Open(w, {"failure"}) <=> a.failure # {}
  BY <1>1, GoplsWords DEF GoplsFailures
<1>4. a.state.health \in Go!Healths(w)
  <2>1. a.state.health = GoplsHealth(a, w) /\ w.recovered \in BOOLEAN
    BY DEF GoplsFits
  <2>2. CASE a.failure # {}
    BY <1>3, <2>1, <2>2 DEF GoplsHealth, Go!Healths
  <2>3. CASE a.failure = {} /\ w.recovered
    BY <1>3, <2>1, <2>3 DEF GoplsHealth, Go!Healths
  <2>4. CASE a.failure = {} /\ ~w.recovered
    BY <1>3, <2>1, <2>4 DEF GoplsHealth, Go!Healths
  <2> QED
    BY <2>1, <2>2, <2>3, <2>4
<1> QED
  BY <1>2, <1>4 DEF GoplsFits, Sound

\* What typescript-language-server has open while it loads.
TsLoads == {"load"}
\* What typescript-language-server may have open, and what of it is loading.
TsTitles == {"load", "request"}

\* The mapping of typescript has the tokens of the loads that are open, and what it knows of the install.
TsFits(a, w) ==
  /\ DOMAIN w = {"open", "ended", "last", "exited", "tested", "complete", "broken"}
  /\ w.exited \in BOOLEAN /\ w.broken \in BOOLEAN
  /\ OneTitle(w.open, TsTitles)
  /\ DOMAIN a = {"state", "loading", "versionIsTested", "layoutComplete", "layoutChanged"}
  /\ a.state \in ServerStates
  /\ a.loading = TokensOf(w.open, TsLoads)
  /\ a.versionIsTested = w.tested /\ a.layoutComplete = w.complete /\ a.layoutChanged = w.broken
  /\ a.state.readiness = IF w.broken THEN "unknown" ELSE IF a.loading # {} THEN "indexing"
                         ELSE IF "load" \in w.ended THEN "ready" ELSE "initializing"
  /\ IF w.exited THEN a.state.health = "error" ELSE a.state.health \in {"unknown", "ok"}
  /\ ~w.exited /\ a.loading = {} /\ "load" \in w.ended => a.state.health = "ok"

\* The words of Mapping mean the same in the instance TypescriptLanguageServer of them.
LEMMA TsWords ==
  /\ \A w, titles : Ts!Begins(w, titles) = Begins(w, titles)
  /\ \A w : Ts!Ends(w) = Ends(w) /\ Ts!StrayEnds(w) = StrayEnds(w)
  /\ \A w, titles : Ts!Open(w, titles) <=> Open(w, titles)
  /\ \A a : Ts!Says(a) = Says(a) /\ Ts!Silent(a) = Silent(a)
BY DEF Ts!Begins, Ts!BeginsOf, Ts!IsOpen, Begins, BeginsOf, IsOpen, Ts!Ends, Ends, Ts!EndOf, EndOf,
   Ts!StrayEnds, StrayEnds, Ts!Open, Open, Ts!Says, Says, Ts!Silent, Silent

\* Before typescript-language-server says anything, the mapping fits, for each kind of install.
LEMMA TsStart ==
  ASSUME NEW tested \in BOOLEAN, NEW complete \in BOOLEAN
  PROVE  TsFits(Ts!Start(tested, complete), Ts!Silence(tested, complete))
<1>1. PICK w : w = Ts!Silence(tested, complete)
  OBVIOUS
<1>2. w = [open |-> {}, ended |-> {}, last |-> "nothing", exited |-> FALSE,
           tested |-> tested, complete |-> complete, broken |-> FALSE]
  BY <1>1 DEF Ts!Silence
<1>3. OneTitle(w.open, TsTitles) /\ TokensOf(w.open, TsLoads) = {}
  BY <1>2, NothingOpen
<1> QED
  BY <1>1, <1>2, <1>3 DEF TsFits, Ts!Start, Ts!Initializing, ServerStates, Health, Readiness

\* Whatever typescript-language-server says next, the mapping that reads it fits the work that follows.
LEMMA TsSpeech ==
  ASSUME NEW a, NEW w, TsFits(a, w), NEW u \in Ts!Speech(w),
         NEW r, r = Ts!Interpret(a, u.says)
  PROVE  TsFits(r.next, u.work) /\ ReadsState(a, r)
<1>0. /\ OneTitle(w.open, TsTitles) /\ TsTitles \subseteq TsTitles
      /\ a.loading = TokensOf(w.open, TsLoads)
  BY DEF TsFits
<1>1. CASE u \in Begins(w, TsTitles)
  <2>1. PICK t \in Token, x \in TsTitles, new \in SUBSET (Token \X TsTitles) :
           /\ u.says = [is |-> "begin", token |-> t, title |-> x]
           /\ u.work = WithOpen(w, new)
           /\ new = w.open \cup {<<t, x>>}
           /\ Grows(w.open, new, t, x, TsTitles)
    BY <1>0, <1>1, BeginsGrow, ZenonT(60)
  <2>4. CASE x = "load"
    <3>0. x \in TsLoads
      BY <2>4 DEF TsLoads
    <3>1. OneTitle(new, TsTitles) /\ TokensOf(new, TsLoads) = a.loading \cup {t}
      BY <1>0, <2>1, <3>0 DEF Grows
    <3>2. PICK b : b = [a EXCEPT !.loading = @ \cup {t}]
      OBVIOUS
    <3>3. PICK c : c = [b EXCEPT !.state.readiness = "indexing"]
      OBVIOUS
    <3>4. r = Says(IF a.layoutChanged THEN b ELSE c)
      BY <2>1, <2>4, <3>2, <3>3, TsWords DEF Ts!Interpret, Ts!OnBegin
    <3>5. CASE w.broken
      <4>1. r = Says(b)
        BY <3>4, <3>5 DEF TsFits
      <4>2. TsFits(b, u.work)
        BY <2>1, <3>1, <3>2, <3>5 DEF WithOpen, TsFits
      <4> QED
        BY <4>1, <4>2, SaysReads
    <3>6. CASE ~w.broken
      <4>1. r = Says(c)
        BY <3>4, <3>6 DEF TsFits
      <4>2. TsFits(c, u.work)
        BY <2>1, <3>1, <3>2, <3>3, <3>6 DEF WithOpen, TsFits, ServerStates, Health, Readiness
      <4> QED
        BY <4>1, <4>2, SaysReads
    <3> QED
      BY <3>5, <3>6
  <2>5. CASE x = "request"
    <3>1. OneTitle(new, TsTitles) /\ TokensOf(new, TsLoads) = a.loading
      BY <1>0, <2>1, <2>5 DEF TsLoads, Grows
    <3>2. r = Silent(a)
      BY <2>1, <2>5, TsWords DEF Ts!Interpret
    <3>4. TsFits(a, u.work)
      BY <2>1, <3>1 DEF WithOpen, TsFits
    <3> QED
      BY <3>2, <3>4, SilentReads
  <2> QED
    BY <2>4, <2>5 DEF TsTitles
<1>2. CASE u \in Ends(w)
  <2>1. PICK t \in Token, x \in TsTitles, new \in SUBSET (Token \X TsTitles) :
           /\ <<t, x>> \in w.open
           /\ u.says = [is |-> "end", token |-> t]
           /\ u.work = AfterEnd(w, new, x)
           /\ Shrinks(w.open, new, t, x, TsTitles)
    BY <1>0, <1>2, EndsShrink
  <2>2. /\ DOMAIN u.work = {"open", "ended", "last", "exited", "tested", "complete", "broken"}
        /\ u.work.open = new /\ u.work.ended = IF x = "request" THEN w.ended ELSE w.ended \cup {x}
        /\ u.work.exited = w.exited /\ u.work.tested = w.tested /\ u.work.complete = w.complete
        /\ u.work.broken = w.broken
    BY <2>1 DEF AfterEnd, TsFits
  <2>4. CASE x = "load"
    <3>0. x \in TsLoads
      BY <2>4 DEF TsLoads
    <3>1. OneTitle(new, TsTitles) /\ t \in a.loading /\ TokensOf(new, TsLoads) = a.loading \ {t}
      BY <1>0, <2>1, <3>0 DEF Shrinks
    <3>2. PICK b : b = [a EXCEPT !.loading = @ \ {t}]
      OBVIOUS
    <3>3. PICK s \in ServerStates :
            s = [health |-> IF a.state.health = "error" THEN "error" ELSE "ok",
                 readiness |-> IF a.layoutChanged THEN a.state.readiness ELSE "ready"]
      BY DEF TsFits, ServerStates, Health, Readiness
    <3>9. PICK c : c = [b EXCEPT !.state = s]
      OBVIOUS
    <3>4. r = IF b.loading # {} THEN Silent(b) ELSE Says(c)
      <4>1. r = Ts!OnEnd(a, t)
        BY <2>1, <3>1 DEF Ts!Interpret
      <4>2. b.loading = a.loading \ {t}
        BY <3>2 DEF TsFits
      <4> QED
        BY <3>2, <3>3, <3>9, <4>1, <4>2, TsWords DEF Ts!OnEnd
    <3>6. CASE b.loading # {}
      <4>1. TsFits(b, u.work) /\ b.state = a.state
        BY <2>2, <3>1, <3>2, <3>6 DEF TsFits
      <4> QED
        BY <3>4, <3>6, <4>1, SilentReads
    <3>7. CASE b.loading = {}
      <4>1. TsFits(c, u.work)
        BY <2>2, <2>4, <3>1, <3>2, <3>3, <3>7, <3>9 DEF TsFits
      <4> QED
        BY <3>4, <3>7, <4>1, SaysReads
    <3> QED
      BY <3>6, <3>7
  <2>5. CASE x = "request"
    <3>1. OneTitle(new, TsTitles) /\ t \notin a.loading /\ TokensOf(new, TsLoads) = a.loading
      BY <1>0, <2>1, <2>5 DEF TsLoads, Shrinks
    <3>2. r = Silent(a)
      BY <2>1, <3>1, TsWords DEF Ts!Interpret
    <3>4. TsFits(a, u.work)
      BY <2>2, <2>5, <3>1 DEF TsFits
    <3> QED
      BY <3>2, <3>4, SilentReads
  <2> QED
    BY <2>4, <2>5 DEF TsTitles
<1>3. CASE u \in StrayEnds(w)
  <2>1. PICK t \in Token : ~(\E q \in w.open : q[1] = t) /\ u = [says |-> [is |-> "end", token |-> t], work |-> w]
    BY <1>3 DEF StrayEnds, IsOpen
  <2>2. t \notin a.loading
    BY <1>0, <2>1, Strays
  <2>3. r = Silent(a)
    BY <2>1, <2>2, TsWords DEF Ts!Interpret
  <2> QED
    BY <2>1, <2>3, SilentReads
<1>4. CASE u = Ts!Notes(w, [is |-> "exited"], "exited", TRUE)
  <2>1. u.says = [is |-> "exited"] /\ u.work = [w EXCEPT !.exited = TRUE]
    BY <1>4 DEF Ts!Notes
  <2>2. PICK b : b = [a EXCEPT !.state.health = "error"]
    OBVIOUS
  <2>3. r = Says(b)
    BY <2>1, <2>2, TsWords DEF Ts!Interpret
  <2>4. TsFits(b, u.work)
    BY <2>1, <2>2 DEF TsFits, ServerStates, Health, Readiness
  <2> QED
    BY <2>3, <2>4, SaysReads
<1>5. ASSUME NEW tested \in BOOLEAN, u = Ts!Notes(w, [is |-> "version", tested |-> tested], "tested", tested)
      PROVE  TsFits(r.next, u.work) /\ ReadsState(a, r)
  <2>1. u.says = [is |-> "version", tested |-> tested] /\ u.work = [w EXCEPT !.tested = tested]
    BY <1>5 DEF Ts!Notes
  <2>2. PICK b : b = [a EXCEPT !.versionIsTested = tested]
    OBVIOUS
  <2>3. r = Silent(b)
    BY <2>1, <2>2, TsWords DEF Ts!Interpret
  <2>4. TsFits(b, u.work) /\ b.state = a.state
    BY <2>1, <2>2 DEF TsFits
  <2> QED
    BY <2>3, <2>4, SilentReads
<1> QED
  BY <1>1, <1>2, <1>3, <1>4, <1>5, TsWords DEF Ts!Speech, TsTitles

\* Whatever the client of typescript-language-server announces, the mapping fits the work that follows.
LEMMA TsClient ==
  ASSUME NEW a, NEW w, TsFits(a, w), NEW u \in Ts!ClientSpeech(w),
         NEW r, r = Ts!ObserveClient(a, u.says)
  PROVE  TsFits(r.next, u.work) /\ ReadsState(a, r)
<1>1. CASE u = Ts!Notes(w, [is |-> "layoutBroken"], "broken", w.broken \/ (w.tested /\ w.complete))
  <2>1. u.says = [is |-> "layoutBroken"] /\ u.work = [w EXCEPT !.broken = w.broken \/ (w.tested /\ w.complete)]
    BY <1>1 DEF Ts!Notes
  <2>2. PICK b : b = [a EXCEPT !.layoutChanged = TRUE, !.state.readiness = "unknown"]
    OBVIOUS
  <2>3. r = IF ~a.layoutChanged /\ Ts!DeclaresCoverage(a) THEN Says(b) ELSE Silent(a)
    BY <2>1, <2>2, TsWords DEF Ts!ObserveClient
  <2>4. CASE ~w.broken /\ w.tested /\ w.complete
    <3>1. (w.broken \/ (w.tested /\ w.complete)) = TRUE
      BY <2>4
    <3>2. u.work = [w EXCEPT !.broken = TRUE]
      BY <2>1, <3>1
    <3>3. r = Says(b)
      BY <2>3, <2>4 DEF TsFits, Ts!DeclaresCoverage
    <3>4. TsFits(b, u.work)
      BY <2>2, <2>4, <3>2 DEF TsFits, ServerStates, Health, Readiness
    <3> QED
      BY <3>3, <3>4, SaysReads
  <2>5. CASE ~(~w.broken /\ w.tested /\ w.complete)
    <3>1. (w.broken \/ (w.tested /\ w.complete)) = w.broken
      BY <2>5 DEF TsFits
    <3>2. u.work = [w EXCEPT !.broken = w.broken]
      BY <2>1, <3>1
    <3>3. r = Silent(a)
      BY <2>3, <2>5 DEF TsFits, Ts!DeclaresCoverage
    <3>4. TsFits(a, u.work)
      BY <3>2 DEF TsFits
    <3> QED
      BY <3>3, <3>4, SilentReads
  <2> QED
    BY <2>4, <2>5
<1>2. CASE u = [says |-> [is |-> "layoutKept"], work |-> w]
  <2>1. r = Silent(a)
    BY <1>2, TsWords DEF Ts!ObserveClient
  <2> QED
    BY <1>2, <2>1, SilentReads
<1> QED
  BY <1>1, <1>2 DEF Ts!ClientSpeech

\* A mapping that fits says neither more nor less than what is true of typescript-language-server.
LEMMA TsSound ==
  ASSUME NEW a, NEW w, TsFits(a, w)
  PROVE  Sound(a.state, Ts!Complete(w), Ts!Blind(w), Ts!Healths(w))
<1>1. Open(w, TsLoads) <=> a.loading # {}
  BY SomeOpen DEF TsFits, Open
<1>2. Open(w, {"load"}) <=> Open(w, TsLoads)
  BY DEF Open, TsLoads
<1> QED
  BY <1>1, <1>2, TsWords DEF TsFits, Sound, Ts!Complete, Ts!Ended, Ts!Blind, Ts!Healths

--------------------------------------------------------------------------------
(* The servers that say more than beginnings and ends. *)

\* The mapping of crystalline is ready when the server has said so.
CrystallineFits(a, w) ==
  /\ w \in [ready : BOOLEAN]
  /\ a = [state |-> State("unknown", IF w.ready THEN "ready" ELSE "initializing")]

\* Before crystalline says anything, the mapping that was selected for it fits.
LEMMA CrystallineStart == CrystallineFits(Cr!Start, Cr!Silence)
BY DEF CrystallineFits, Cr!Start, Cr!Silence, Cr!Initializing, State

\* Whatever crystalline says next, the mapping that reads it fits the work that follows.
LEMMA CrystallineSpeech ==
  ASSUME NEW a, NEW w, CrystallineFits(a, w), NEW u \in Cr!Speech(w),
         NEW r, r = Cr!Interpret(a, u.says)
  PROVE  CrystallineFits(r.next, u.work) /\ ReadsState(a, r)
<1>2. PICK t \in {"projects", "ready"} :
         u = [says |-> [log |-> t], work |-> [w EXCEPT !.ready = w.ready \/ t = "ready"]]
  BY DEF Cr!Speech, Cr!Notes
<1>3. u.work = [ready |-> w.ready \/ t = "ready"]
  BY <1>2 DEF CrystallineFits
<1>4. CASE t = "ready"
  BY <1>2, <1>3, <1>4 DEF CrystallineFits, State, Cr!Interpret, Cr!Silent, Cr!Says, ReadsState
<1>5. CASE t # "ready"
  BY <1>2, <1>3, <1>5 DEF CrystallineFits, State, Cr!Interpret, Cr!Silent, Cr!Says, ReadsState
<1> QED
  BY <1>4, <1>5

\* A mapping that fits says neither more nor less than what is true of crystalline.
LEMMA CrystallineSound ==
  ASSUME NEW a, NEW w, CrystallineFits(a, w)
  PROVE  Sound(a.state, Cr!Complete(w), FALSE, {"unknown"})
BY DEF CrystallineFits, State, Sound, Cr!Complete, ServerStates, Health, Readiness

--------------------------------------------------------------------------------
\* Sorbet
SorbetFits(a, w) ==
  /\ DOMAIN w = {"depth", "ended"} /\ w.depth \in Nat /\ w.ended \in BOOLEAN
  /\ DOMAIN a = {"state", "openOperations"} /\ a.state \in ServerStates
  /\ a.openOperations = w.depth
  /\ a.state.health = "unknown"
  /\ a.state.readiness = IF ~w.ended THEN "initializing" ELSE IF w.depth = 0 THEN "ready" ELSE "indexing"

\* The words of Mapping mean the same in the instance Sorbet of them.
LEMMA SorbetWords ==
  /\ \A a : So!Says(a) = Says(a) /\ So!Silent(a) = Silent(a)
BY DEF So!Says, Says, So!Silent, Silent

\* Before sorbet says anything, the mapping that was selected for it fits.
LEMMA SorbetStart == SorbetFits(So!Start, So!Silence)
BY DEF SorbetFits, So!Start, So!Silence, So!Initializing, ServerStates, Health, Readiness

\* Whatever sorbet says next, the mapping that reads it fits the work that follows.
LEMMA SorbetSpeech ==
  ASSUME NEW a, NEW w, SorbetFits(a, w), NEW u \in So!Speech(w),
         NEW r, r = So!Interpret(a, u.says)
  PROVE  SorbetFits(r.next, u.work) /\ ReadsState(a, r)
<1>1. ASSUME NEW s \in {"start", "end"}, u = [says |-> So!Operation("References", s), work |-> w]
      PROVE  SorbetFits(r.next, u.work) /\ ReadsState(a, r)
  <2>1. r = Silent(a)
    BY <1>1, SorbetWords DEF So!Interpret, So!RequestTied, So!Operation
  <2> QED
    BY <1>1, <2>1, SilentReads
<1>2. ASSUME NEW d \in {w.depth + 1}, u = So!Notes(w, So!Operation("Indexing", "start"), "depth", d)
      PROVE  SorbetFits(r.next, u.work) /\ ReadsState(a, r)
  <2>1. u.says = So!Operation("Indexing", "start") /\ u.work = [w EXCEPT !.depth = w.depth + 1]
    BY <1>2 DEF So!Notes
  <2>2. PICK b : b = [a EXCEPT !.openOperations = @ + 1,
                       !.state.readiness = IF @ = "ready" THEN "indexing" ELSE @]
    OBVIOUS
  <2>3. r = Says(b)
    BY <2>1, <2>2, SorbetWords DEF So!Interpret, So!RequestTied, So!Operation, So!OnStart
  <2>4. SorbetFits(b, u.work)
    BY <2>1, <2>2 DEF SorbetFits, ServerStates, Health, Readiness
  <2> QED
    BY <2>3, <2>4, SaysReads
<1>3. ASSUME u = [says |-> So!Operation("Indexing", "end"),
                  work |-> IF w.depth = 0 THEN w
                           ELSE [depth |-> w.depth - 1, ended |-> w.ended \/ w.depth = 1]]
      PROVE  SorbetFits(r.next, u.work) /\ ReadsState(a, r)
  <2>1. u.says = So!Operation("Indexing", "end")
    BY <1>3
  <2>2. PICK b : b = [a EXCEPT !.openOperations = @ - 1,
                       !.state.readiness = IF a.openOperations = 1 THEN "ready" ELSE @]
    OBVIOUS
  <2>3. r = IF a.openOperations = 0 THEN Silent(a) ELSE Says(b)
    BY <2>1, <2>2, SorbetWords DEF So!Interpret, So!RequestTied, So!Operation, So!OnEnd
  <2>4. CASE w.depth = 0
    <3>1. r = Silent(a) /\ u.work = w
      BY <1>3, <2>3, <2>4 DEF SorbetFits
    <3> QED
      BY <3>1, SilentReads
  <2>5. CASE w.depth # 0
    <3>1. r = Says(b)
      BY <2>3, <2>5 DEF SorbetFits
    <3>2. u.work = [depth |-> w.depth - 1, ended |-> w.ended \/ w.depth = 1]
      BY <1>3, <2>5
    <3>3. SorbetFits(b, u.work)
      <4>1. CASE w.depth = 1
        <5>1. (w.ended \/ w.depth = 1) = TRUE /\ w.depth - 1 = 0
          BY <4>1
        <5>2. u.work = [depth |-> 0, ended |-> TRUE]
          BY <3>2, <5>1
        <5> QED
          BY <2>2, <4>1, <5>2 DEF SorbetFits, ServerStates, Health, Readiness
      <4>2. CASE w.depth # 1
        <5>1. u.work = [depth |-> w.depth - 1, ended |-> w.ended]
          BY <3>2, <4>2 DEF SorbetFits
        <5>2. b = [a EXCEPT !.openOperations = @ - 1, !.state.readiness = @]
          BY <2>2, <4>2 DEF SorbetFits
        <5> QED
          BY <2>5, <4>2, <5>1, <5>2 DEF SorbetFits, ServerStates, Health, Readiness
      <4> QED
        BY <4>1, <4>2
    <3> QED
      BY <3>1, <3>3, SaysReads
  <2> QED
    BY <2>4, <2>5
<1> QED
  BY <1>1, <1>2, <1>3 DEF So!Speech

\* A mapping that fits says neither more nor less than what is true of sorbet.
LEMMA SorbetSound ==
  ASSUME NEW a, NEW w, SorbetFits(a, w)
  PROVE  Sound(a.state, So!Complete(w), FALSE, {"unknown"})
BY DEF SorbetFits, Sound, So!Complete

--------------------------------------------------------------------------------
\* The mapping of haskell-language-server has the files whose cradle is broken.
HlsFits(a, w) ==
  /\ DOMAIN w = {"broken"} /\ w.broken \in [File -> BOOLEAN]
  /\ DOMAIN a = {"state", "cradleFailures"} /\ a.state \in ServerStates
  /\ a.cradleFailures = {f \in File : w.broken[f]}
  /\ a.state.readiness = "unknown"
  /\ a.state.health = IF a.cradleFailures # {} THEN "error" ELSE "unknown"

\* The words of Mapping mean the same in the instance HaskellLanguageServer of them.
LEMMA HlsWords == \A a, b : Hs!SaysIfMoved(a, b) = SaysIfMoved(a, b)
BY DEF Hs!Says, Says, Hs!Silent, Silent, Hs!SaysIfMoved, SaysIfMoved

\* Before haskell-language-server says anything, the mapping that was selected for it fits.
LEMMA HlsStart == HlsFits(Hs!Start, Hs!Silence)
BY DEF HlsFits, Hs!Start, Hs!Silence, Hs!Unobserved, ServerStates, Health, Readiness

\* Whatever haskell-language-server says next, the mapping that reads it fits the work that follows.
LEMMA HlsSpeech ==
  ASSUME NEW a, NEW w, HlsFits(a, w), NEW u \in Hs!Speech(w),
         NEW r, r = Hs!Interpret(a, u.says)
  PROVE  HlsFits(r.next, u.work) /\ ReadsState(a, r)
<1>1. PICK f \in File, c \in BOOLEAN :
        u = [says |-> [uri |-> f, cradle |-> c], work |-> [w EXCEPT !.broken[f] = c]]
  BY DEF Hs!Speech
<1>2. PICK failures : failures = IF c THEN a.cradleFailures \cup {f} ELSE a.cradleFailures \ {f}
  OBVIOUS
<1>3. PICK b : b = [a EXCEPT !.cradleFailures = failures,
                             !.state.health = IF failures # {} THEN "error" ELSE "unknown"]
  OBVIOUS
<1>4. u.says.uri = f /\ u.says.cradle = c /\ u.work = [w EXCEPT !.broken[f] = c]
  BY <1>1
<1>5. r = SaysIfMoved(a, b)
  BY <1>2, <1>3, <1>4, HlsWords DEF Hs!Interpret
<1>6. /\ DOMAIN u.work = {"broken"} /\ u.work.broken = [w.broken EXCEPT ![f] = c]
  BY <1>4 DEF HlsFits
<1>7. failures = {g \in File : u.work.broken[g]}
  BY <1>2, <1>6 DEF HlsFits
<1>8. HlsFits(b, u.work)
  BY <1>3, <1>6, <1>7 DEF HlsFits, ServerStates, Health, Readiness
<1> QED
  BY <1>5, <1>8, MovedReads

\* A mapping that fits says neither more nor less than what is true of haskell-language-server.
LEMMA HlsSound ==
  ASSUME NEW a, NEW w, HlsFits(a, w)
  PROVE  Sound(a.state, Hs!Complete(w), Hs!Blind(w), Hs!Healths(w))
BY DEF HlsFits, Sound, Hs!Complete, Hs!Blind, Hs!Healths

\* The mapping of rust-analyzer has the health that was last told, and the tracker has its readiness.
RustFits(a, s, w) ==
  /\ DOMAIN w = {"loaded", "health", "announced"} /\ w.loaded \in BOOLEAN /\ w.announced \in BOOLEAN
  /\ DOMAIN a = {"lastHealth"} /\ a.lastHealth = w.health
  /\ s \in ServerStates /\ s.health = w.health
  /\ s.readiness \in {"initializing", "indexing", "ready"}
  /\ s.readiness = "ready" <=> w.loaded /\ ~w.announced

\* The mapping has no state of its own: what it reads goes to the tracker.
ReadsRust(a, s, w, r) ==
  \/ r.read = {} /\ RustFits(a, s, w)
  \/ \E t \in ServerStates : r.read = {t} /\ RustFits(a, t, w)

\* Before rust-analyzer says anything, the mapping that was selected for it fits.
LEMMA RustStart == RustFits(Ra!Start, Initializing, Ra!Silence)
BY DEF RustFits, Ra!Start, Ra!Silence, Initializing, ServerStates, Health, Readiness

\* Whatever rust-analyzer says next, the mapping and the tracker fit the work that follows.
LEMMA RustSpeech ==
  ASSUME NEW a, NEW s, NEW w, RustFits(a, s, w), NEW u \in Ra!Speech(w),
         NEW r, r = Ra!Interpret(a, u.says)
  PROVE  ReadsRust(r.next, s, u.work, r)
<1>0. PICK m \in Ra!Statuses :
        u = [says |-> m,
             work |-> IF m.health = "unknown" \/ m.ready = "null" THEN w
                      ELSE [loaded |-> Ra!Loaded(m), announced |-> FALSE,
                            health |-> IF m.missingWorkspace /\ m.health = "warning" THEN "error"
                                       ELSE m.health]]
  BY Zenon DEF Ra!Speech
<1>1. /\ u.says = m
      /\ u.work = IF m.health = "unknown" \/ m.ready = "null" THEN w
                  ELSE [loaded |-> Ra!Loaded(m), announced |-> FALSE,
                        health |-> IF m.missingWorkspace /\ m.health = "warning" THEN "error"
                                   ELSE m.health]
  BY <1>0
<1>2. /\ m.health \in {"ok", "warning", "error", "unknown"} /\ m.quiescent \in BOOLEAN
      /\ m.ready \in {"yes", "no", "absent", "null"} /\ m.missingWorkspace \in BOOLEAN
  BY DEF Ra!Statuses
<1>3. CASE m.health = "unknown" \/ m.ready = "null"
  <2>1. ~Ra!Readable(m)
    BY <1>3 DEF Ra!Readable
  <2>2. r = Ra!Silent(a) /\ u.work = w
    BY <1>1, <1>3, <2>1 DEF Ra!Interpret
  <2> QED
    BY <2>2 DEF Ra!Silent, ReadsRust
<1>4. CASE ~(m.health = "unknown" \/ m.ready = "null")
  <2>1. Ra!Readable(m)
    BY <1>2, <1>4 DEF Ra!Readable
  <2>2. PICK h \in Health : h = Ra!HealthOf(m)
    BY <1>2 DEF Ra!HealthOf, Health
  <2>9. PICK q \in Readiness : q = Ra!ReadinessOf(m)
    BY DEF Ra!ReadinessOf, Readiness
  <2>3. PICK t \in ServerStates : t = [health |-> h, readiness |-> q]
    BY DEF ServerStates
  <2>4. r = [next |-> [lastHealth |-> h], read |-> {t}]
    BY <1>1, <2>1, <2>2, <2>3, <2>9 DEF Ra!Interpret
  <2>5. PICK l \in BOOLEAN : l = Ra!Loaded(m)
    BY <1>2 DEF Ra!Loaded
  <2>6. u.work = [loaded |-> l, announced |-> FALSE, health |-> h]
    BY <1>1, <1>2, <1>4, <2>2, <2>5 DEF Ra!HealthOf
  <2>7. t.readiness = IF l THEN "ready" ELSE "indexing"
    BY <1>2, <2>3, <2>5, <2>9 DEF Ra!Loaded, Ra!ReadinessOf
  <2>8. RustFits(r.next, t, u.work)
    BY <2>3, <2>4, <2>6, <2>7 DEF RustFits
  <2> QED
    BY <2>4, <2>8 DEF ReadsRust
<1> QED
  BY <1>3, <1>4

\* The mapping tells the files that are watched as rust-analyzer does.
LEMMA RustSources ==
  /\ \A n \in Ra!Names : Ra!IsWatchedFile(n) <=> n \in Ra!Sources
  /\ ~Ra!IsWatchedFile(Ra!Aside.name)
BY DEF Ra!Names, Ra!Sources, Ra!IsWatchedFile, Ra!Aside

\* Whatever the client of rust-analyzer announces, they fit the work that follows.
LEMMA RustClient ==
  ASSUME NEW a, NEW s, NEW w, RustFits(a, s, w), NEW u \in Ra!ClientSpeech(w),
         NEW r, r = Ra!ObserveClient(a, u.says)
  PROVE  ReadsRust(r.next, s, u.work, r)
<1>1. PICK c \in [name : Ra!Names, kind : {"created", "changed", "deleted", "other"}] :
        u = Ra!Notes(w, [changes |-> {Ra!Aside, c}], "announced",
              w.announced \/ (c.name \in Ra!Sources /\ c.kind \in {"created", "deleted"}))
  BY DEF Ra!ClientSpeech
<1>2. PICK news \in BOOLEAN : news <=> c.name \in Ra!Sources /\ c.kind \in {"created", "deleted"}
  OBVIOUS
<1>3. u.says.changes = {Ra!Aside, c} /\ u.work = [w EXCEPT !.announced = w.announced \/ news]
  BY <1>1, <1>2 DEF Ra!Notes
<1>4. Ra!Reindexes(u.says.changes, {"created", "deleted"}) <=> news
  BY <1>2, <1>3, RustSources DEF Ra!Reindexes, Ra!WatchedFileChanges
<1>5. CASE news
  <2>1. PICK t \in ServerStates : t = [health |-> a.lastHealth, readiness |-> "indexing"]
    BY DEF RustFits, ServerStates, Health, Readiness
  <2>2. r = [next |-> a, read |-> {t}]
    BY <1>4, <1>5, <2>1 DEF Ra!ObserveClient, Ra!Predicts
  <2>3. u.work = [w EXCEPT !.announced = TRUE]
    <3>1. (w.announced \/ news) = TRUE
      BY <1>5
    <3> QED
      BY <1>3, <3>1
  <2>4. RustFits(r.next, t, u.work)
    BY <2>1, <2>2, <2>3 DEF RustFits
  <2> QED
    BY <2>2, <2>4 DEF ReadsRust
<1>6. CASE ~news
  <2>1. r = Ra!Silent(a)
    BY <1>4, <1>6 DEF Ra!ObserveClient
  <2>2. u.work = [w EXCEPT !.announced = w.announced]
    <3>1. (w.announced \/ news) = w.announced
      BY <1>6 DEF RustFits
    <3> QED
      BY <1>3, <3>1
  <2>3. RustFits(a, s, u.work)
    BY <2>2 DEF RustFits
  <2> QED
    BY <2>1, <2>3 DEF Ra!Silent, ReadsRust
<1> QED
  BY <1>5, <1>6

\* What the tracker has of rust-analyzer says neither more nor less than what is true of it.
LEMMA RustSound ==
  ASSUME NEW a, NEW s, NEW w, RustFits(a, s, w)
  PROVE  Sound(s, Ra!Complete(w), FALSE, Ra!Healths(w)) /\ a.lastHealth = s.health
BY DEF RustFits, Sound, Ra!Complete, Ra!Healths

--------------------------------------------------------------------------------
\* A project with problems is a warning unless the server is in error.
JdtlsHealth(status, problems) ==
  IF status # "error" /\ problems # {} THEN "warning" ELSE status

\* The mapping of jdtls has the status and the projects with problems.
JdtlsFits(a, w) ==
  /\ DOMAIN w = {"serviceReady", "status", "problems"} /\ w.serviceReady \in BOOLEAN /\ w.status \in Health
  /\ DOMAIN a = {"state", "statusHealth", "projectWarnings"} /\ a.state \in ServerStates
  /\ a.statusHealth = w.status
  /\ a.projectWarnings = w.problems \cap ProjectUri
  /\ a.state.readiness = IF w.serviceReady THEN "ready" ELSE "initializing"
  /\ a.state.health = JdtlsHealth(a.statusHealth, a.projectWarnings)

\* The words of Mapping mean the same in the instance Jdtls of them.
LEMMA JdtlsWords ==
  /\ \A a, b : Jd!SaysIfMoved(a, b) = SaysIfMoved(a, b)
  /\ \A a : Jd!Silent(a) = Silent(a)
BY DEF Jd!Says, Says, Jd!Silent, Silent, Jd!SaysIfMoved, SaysIfMoved

\* Before jdtls says anything, the mapping that was selected for it fits.
LEMMA JdtlsStart == JdtlsFits(Jd!Start, Jd!Silence)
BY DEF JdtlsFits, JdtlsHealth, Jd!Start, Jd!Silence, Jd!Initializing, ServerStates, Health, Readiness

\* The three parts of what jdtls says.
JdtlsStatuses(w) ==
  {Jd!Notes(w, Jd!Status("ServiceReady", "none"), "serviceReady", TRUE),
   Jd!Notes(w, Jd!Status("ProjectStatus", "OK"), "status", "ok"),
   Jd!Notes(w, Jd!Status("ProjectStatus", "WARNING"), "status", "warning"),
   Jd!Notes(w, Jd!Status("Error", "none"), "status", "error")}

JdtlsOthers(w) ==
  {[says |-> Jd!Status("ProjectStatus", "other"), work |-> w],
   [says |-> Jd!Status("Started", "none"), work |-> w]}

JdtlsReports(w) == {Jd!Diagnostics(w, uri, b) : uri \in ProjectUri \cup {"source"}, b \in BOOLEAN}

\* Whatever jdtls says next, the mapping that reads it fits the work that follows.
LEMMA JdtlsSpeech ==
  ASSUME NEW a, NEW w, JdtlsFits(a, w), NEW u \in Jd!Speech(w),
         NEW r, r = Jd!Interpret(a, u.says)
  PROVE  JdtlsFits(r.next, u.work) /\ ReadsState(a, r)
<1>1. CASE u = Jd!Notes(w, Jd!Status("ServiceReady", "none"), "serviceReady", TRUE)
  <2>1. u.says = Jd!Status("ServiceReady", "none") /\ u.work = [w EXCEPT !.serviceReady = TRUE]
    BY <1>1 DEF Jd!Notes
  <2>2. PICK b : b = [a EXCEPT !.state.readiness = "ready"]
    OBVIOUS
  <2>3. r = SaysIfMoved(a, b)
    BY <2>1, <2>2, JdtlsWords DEF Jd!Interpret, Jd!OnStatus, Jd!Status
  <2>4. JdtlsFits(b, u.work)
    BY <2>1, <2>2 DEF JdtlsFits, ServerStates, Health, Readiness
  <2> QED
    BY <2>3, <2>4, MovedReads
<1>2. ASSUME NEW message \in {"OK", "WARNING", "none"}, NEW type \in {"ProjectStatus", "Error"},
             NEW status \in Health,
             \/ type = "ProjectStatus" /\ message = "OK" /\ status = "ok"
             \/ type = "ProjectStatus" /\ message = "WARNING" /\ status = "warning"
             \/ type = "Error" /\ message = "none" /\ status = "error",
             u = Jd!Notes(w, Jd!Status(type, message), "status", status)
      PROVE  JdtlsFits(r.next, u.work) /\ ReadsState(a, r)
  <2>1. u.says = Jd!Status(type, message) /\ u.work = [w EXCEPT !.status = status]
    BY <1>2 DEF Jd!Notes
  <2>2. PICK b : b = [a EXCEPT !.statusHealth = status]
    OBVIOUS
  <2>3. PICK c : c = [b EXCEPT !.state.health = JdtlsHealth(b.statusHealth, b.projectWarnings)]
    OBVIOUS
  <2>4. r = Jd!RecomputeHealth(a, b)
    BY <1>2, <2>1, <2>2 DEF Jd!Interpret, Jd!OnStatus, Jd!Status
  <2>5. r = SaysIfMoved(a, c)
    BY <2>3, <2>4, JdtlsWords DEF Jd!RecomputeHealth, JdtlsHealth
  <2>6. JdtlsHealth(b.statusHealth, b.projectWarnings) \in Health
    BY <2>2 DEF JdtlsFits, JdtlsHealth, Health
  <2>7. JdtlsFits(c, u.work)
    BY <2>1, <2>2, <2>3, <2>6 DEF JdtlsFits, ServerStates, Readiness
  <2> QED
    BY <2>5, <2>7, MovedReads
<1>3. ASSUME NEW type \in {"ProjectStatus", "Started"}, NEW message \in {"other", "none"},
             type = "ProjectStatus" => message = "other",
             u = [says |-> Jd!Status(type, message), work |-> w]
      PROVE  JdtlsFits(r.next, u.work) /\ ReadsState(a, r)
  <2>1. r = Silent(a)
    BY <1>3, JdtlsWords DEF Jd!Interpret, Jd!OnStatus, Jd!Status
  <2> QED
    BY <1>3, <2>1, SilentReads
<1>4. ASSUME NEW uri, NEW severe \in BOOLEAN, u = Jd!Diagnostics(w, uri, severe)
      PROVE  JdtlsFits(r.next, u.work) /\ ReadsState(a, r)
  <2>0. PICK problems : problems = IF severe THEN w.problems \cup {uri} ELSE w.problems \ {uri}
    OBVIOUS
  <2>1. /\ u.says = [is |-> "diagnostics", uri |-> uri, severe |-> severe]
        /\ u.work = [w EXCEPT !.problems = problems]
    BY <1>4, <2>0 DEF Jd!Diagnostics, Jd!Notes
  <2>2. CASE uri \notin ProjectUri
    <3>1. r = Silent(a)
      BY <2>1, <2>2, JdtlsWords DEF Jd!Interpret, Jd!OnDiagnostics
    <3>2. problems \cap ProjectUri = w.problems \cap ProjectUri
      BY <2>0, <2>2
    <3>3. JdtlsFits(a, u.work)
      BY <2>1, <3>2 DEF JdtlsFits
    <3> QED
      BY <3>1, <3>3, SilentReads
  <2>3. CASE uri \in ProjectUri
    <3>1. PICK warnings : warnings = IF severe THEN a.projectWarnings \cup {uri} ELSE a.projectWarnings \ {uri}
      OBVIOUS
    <3>2. PICK b : b = [a EXCEPT !.projectWarnings = warnings]
      OBVIOUS
    <3>3. PICK c : c = [b EXCEPT !.state.health = JdtlsHealth(b.statusHealth, b.projectWarnings)]
      OBVIOUS
    <3>4. r = Jd!RecomputeHealth(a, b)
      BY <2>1, <2>3, <3>1, <3>2 DEF Jd!Interpret, Jd!OnDiagnostics
    <3>5. r = SaysIfMoved(a, c)
      BY <3>3, <3>4, JdtlsWords DEF Jd!RecomputeHealth, JdtlsHealth
    <3>6. JdtlsHealth(b.statusHealth, b.projectWarnings) \in Health
      BY <3>2 DEF JdtlsFits, JdtlsHealth, Health
    <3>7. warnings = problems \cap ProjectUri
      BY <2>0, <2>3, <3>1 DEF JdtlsFits
    <3>8. JdtlsFits(c, u.work)
      BY <2>1, <3>2, <3>3, <3>6, <3>7 DEF JdtlsFits, ServerStates, Readiness
    <3> QED
      BY <3>5, <3>8, MovedReads
  <2> QED
    BY <2>2, <2>3
<1> QED
  <2>1. Jd!Speech(w) = (JdtlsStatuses(w) \cup JdtlsOthers(w)) \cup JdtlsReports(w)
    BY DEF Jd!Speech, JdtlsStatuses, JdtlsOthers, JdtlsReports
  <2>2. CASE u \in JdtlsStatuses(w)
    BY <1>1, <1>2, <2>2 DEF JdtlsStatuses, Health
  <2>3. CASE u \in JdtlsOthers(w)
    BY <1>3, <2>3 DEF JdtlsOthers
  <2>4. CASE u \in JdtlsReports(w)
    BY <1>4, <2>4 DEF JdtlsReports
  <2> QED
    BY <2>1, <2>2, <2>3, <2>4

\* A mapping that fits says neither more nor less than what is true of jdtls.
LEMMA JdtlsSound ==
  ASSUME NEW a, NEW w, JdtlsFits(a, w)
  PROVE  Sound(a.state, Jd!Complete(w), FALSE, Jd!Healths(w))
BY DEF JdtlsFits, JdtlsHealth, Sound, Jd!Complete, Jd!Healths

\* The phases of a folder.
PyrightPhases == {"absent", "started", "searching", "enumerated"}

\* The folders that pyright has begun with, and those that it is done with.
PyrightBegun(w) == {f \in DOMAIN w.folder : w.folder[f] # "absent"}
PyrightEnumerated(w) == {f \in DOMAIN w.folder : w.folder[f] = "enumerated"}

\* With one folder at most, or without the message that takes a completion back, every
\* completion is counted for the folder it is of.
OneFolder == \A d, e \in LoudFolder : d = e

\* Each folder is in a phase.
PyrightPhased(w) == w.folder \in [IF w.loud THEN LoudFolder ELSE Folder -> PyrightPhases]

\* The mapping of pyright counts the folders that were begun and those that were enumerated.
PyrightFits(a, w) ==
  /\ DOMAIN w = {"folder", "loud"} /\ w.loud \in BOOLEAN
  /\ PyrightPhased(w)
  /\ DOMAIN a = {"state", "instances", "completed"} /\ a.state \in ServerStates
  /\ IsFiniteSet(PyrightBegun(w)) /\ a.instances = Cardinality(PyrightBegun(w))
  /\ a.completed \in Nat /\ a.completed <= Cardinality(PyrightEnumerated(w))
  /\ OneFolder \/ ~w.loud => a.completed = Cardinality(PyrightEnumerated(w))
  /\ a.state.health = "unknown"
  /\ a.state.readiness \in {"initializing", "indexing", "ready"}
  /\ a.state.readiness = "ready" <=> a.instances # 0 /\ a.completed = a.instances

\* The words of Mapping mean the same in the instance Pyright of them.
LEMMA PyrightWords ==
  /\ \A a : Py!Says(a) = Says(a) /\ Py!Silent(a) = Silent(a)
BY DEF Py!Says, Says, Py!Silent, Silent

\* Before pyright says anything, the mapping fits, however much pyright logs.
LEMMA PyrightStart == ASSUME NEW loud \in BOOLEAN PROVE PyrightFits(Py!Start, Py!Silence(loud))
<1>1. PICK F : F = IF loud THEN LoudFolder ELSE Folder
  OBVIOUS
<1>2. PICK w : w = Py!Silence(loud)
  OBVIOUS
<1>3. w = [folder |-> [f \in F |-> "absent"], loud |-> loud]
  BY <1>1, <1>2 DEF Py!Silence
<1>4. PyrightBegun(w) = {} /\ PyrightEnumerated(w) = {}
  BY <1>3 DEF PyrightBegun, PyrightEnumerated
<1>5. PICK a : a = Py!Start
  OBVIOUS
<1>6. /\ DOMAIN a = {"state", "instances", "completed"} /\ a.state \in ServerStates
      /\ a.state.health = "unknown" /\ a.state.readiness = "initializing"
      /\ a.instances = 0 /\ a.completed = 0
  BY <1>5 DEF Py!Start, Py!Initializing, ServerStates, Health, Readiness
<1>7. /\ DOMAIN w = {"folder", "loud"} /\ w.loud \in BOOLEAN
      /\ PyrightPhased(w)
  BY <1>1, <1>3 DEF PyrightPhases, PyrightPhased
<1>8. PyrightFits(a, w)
  BY <1>4, <1>6, <1>7, FS_EmptySet DEF PyrightFits
<1> QED
  BY <1>2, <1>5, <1>8

\* What a step of one folder does to the two counts.
LEMMA PyrightSteps ==
  ASSUME NEW a, NEW w, PyrightFits(a, w), NEW f \in DOMAIN w.folder,
         NEW phase \in {"started", "searching", "enumerated"},
         NEW v, v = [w EXCEPT !.folder[f] = phase]
  PROVE  /\ DOMAIN v = {"folder", "loud"} /\ v.loud = w.loud
         /\ PyrightPhased(v)
         /\ PyrightBegun(v) = PyrightBegun(w) \cup {f}
         /\ IsFiniteSet(PyrightBegun(v)) /\ IsFiniteSet(PyrightEnumerated(v))
         /\ IsFiniteSet(PyrightEnumerated(w)) /\ PyrightEnumerated(w) \subseteq PyrightBegun(w)
         /\ Cardinality(PyrightBegun(w)) \in Nat /\ Cardinality(PyrightEnumerated(w)) \in Nat
         /\ Cardinality(PyrightEnumerated(w)) <= Cardinality(PyrightBegun(w))
         /\ Cardinality(PyrightBegun(v)) =
              Cardinality(PyrightBegun(w)) + (IF f \in PyrightBegun(w) THEN 0 ELSE 1)
         /\ Cardinality(PyrightEnumerated(v)) =
              Cardinality(PyrightEnumerated(w))
                + (IF phase = "enumerated" THEN IF f \in PyrightEnumerated(w) THEN 0 ELSE 1
                   ELSE IF f \in PyrightEnumerated(w) THEN 0 - 1 ELSE 0)
<1>1. /\ DOMAIN v = {"folder", "loud"} /\ v.loud = w.loud /\ v.folder = [w.folder EXCEPT ![f] = phase]
  BY DEF PyrightFits, PyrightPhased
<1>2. PyrightPhased(v)
  BY <1>1 DEF PyrightFits, PyrightPhases, PyrightPhased
<1>3. /\ PyrightBegun(v) = PyrightBegun(w) \cup {f}
      /\ PyrightEnumerated(v) = IF phase = "enumerated" THEN PyrightEnumerated(w) \cup {f}
                                ELSE PyrightEnumerated(w) \ {f}
      /\ PyrightEnumerated(w) \subseteq PyrightBegun(w)
  BY <1>1 DEF PyrightBegun, PyrightEnumerated
<1>4. IsFiniteSet(PyrightBegun(w))
  BY DEF PyrightFits
<1>5. IsFiniteSet(PyrightEnumerated(w))
  BY <1>3, <1>4, FS_Subset
<1>6. /\ Cardinality(PyrightBegun(w)) \in Nat /\ Cardinality(PyrightEnumerated(w)) \in Nat
      /\ Cardinality(PyrightEnumerated(w)) <= Cardinality(PyrightBegun(w))
  BY <1>3, <1>4, <1>5, FS_Subset, FS_CardinalityType
<1>7. /\ IsFiniteSet(PyrightBegun(w) \cup {f})
      /\ Cardinality(PyrightBegun(w) \cup {f}) =
           Cardinality(PyrightBegun(w)) + (IF f \in PyrightBegun(w) THEN 0 ELSE 1)
  BY <1>4, <1>6, FS_AddElement
<1>8. /\ IsFiniteSet(PyrightEnumerated(w) \cup {f})
      /\ Cardinality(PyrightEnumerated(w) \cup {f}) =
           Cardinality(PyrightEnumerated(w)) + (IF f \in PyrightEnumerated(w) THEN 0 ELSE 1)
  BY <1>5, <1>6, FS_AddElement
<1>9. /\ IsFiniteSet(PyrightEnumerated(w) \ {f})
      /\ Cardinality(PyrightEnumerated(w) \ {f}) =
           Cardinality(PyrightEnumerated(w)) + (IF f \in PyrightEnumerated(w) THEN 0 - 1 ELSE 0)
  BY <1>5, <1>6, FS_RemoveElement
<1>10. IsFiniteSet(PyrightEnumerated(v))
  BY <1>3, <1>8, <1>9
<1>11. Cardinality(PyrightEnumerated(v)) =
              Cardinality(PyrightEnumerated(w))
                + (IF phase = "enumerated" THEN IF f \in PyrightEnumerated(w) THEN 0 ELSE 1
                   ELSE IF f \in PyrightEnumerated(w) THEN 0 - 1 ELSE 0)
  <2>1. CASE phase = "enumerated"
    BY <1>3, <1>8, <2>1
  <2>2. CASE phase # "enumerated"
    BY <1>3, <1>9, <2>2
  <2> QED
    BY <2>1, <2>2
<1> QED
  BY <1>1, <1>2, <1>3, <1>4, <1>5, <1>6, <1>7, <1>10, <1>11

\* When the counts are as they should be, the state is too.
LEMMA PyrightStarted ==
  ASSUME NEW a, NEW w, PyrightFits(a, w), NEW f \in DOMAIN w.folder, w.folder[f] = "absent",
         NEW v, v = [w EXCEPT !.folder[f] = "started"],
         NEW r, r = Py!OnServiceStarted(a)
  PROVE  PyrightFits(r.next, v) /\ ReadsState(a, r)
<1>0. PICK i \in Nat, e \in Nat : i = Cardinality(PyrightBegun(w)) /\ e = Cardinality(PyrightEnumerated(w)) /\ e <= i
  BY PyrightSteps
<1>1. f \notin PyrightBegun(w) /\ f \notin PyrightEnumerated(w)
  BY DEF PyrightBegun, PyrightEnumerated
<1>2. /\ DOMAIN v = {"folder", "loud"} /\ v.loud = w.loud
      /\ PyrightPhased(v)
      /\ IsFiniteSet(PyrightBegun(v))
      /\ Cardinality(PyrightBegun(v)) = i + 1
      /\ Cardinality(PyrightEnumerated(v)) = e
  <2>1. PICK phase \in {"started", "searching", "enumerated"} : phase = "started"
    OBVIOUS
  <2>2. v = [w EXCEPT !.folder[f] = phase]
    BY <2>1
  <2>3. /\ DOMAIN v = {"folder", "loud"} /\ v.loud = w.loud
        /\ PyrightPhased(v)
    BY <2>2, PyrightSteps
  <2>5. IsFiniteSet(PyrightBegun(v))
    BY <2>2, PyrightSteps
  <2>4. /\ Cardinality(PyrightBegun(v)) = i + (IF f \in PyrightBegun(w) THEN 0 ELSE 1)
        /\ Cardinality(PyrightEnumerated(v)) =
              e + (IF phase = "enumerated" THEN IF f \in PyrightEnumerated(w) THEN 0 ELSE 1
                   ELSE IF f \in PyrightEnumerated(w) THEN 0 - 1 ELSE 0)
    BY <1>0, <2>2, PyrightSteps
  <2> QED
    BY <1>1, <2>1, <2>3, <2>4, <2>5
<1>3. PICK b : b = [a EXCEPT !.instances = @ + 1, !.state.readiness = IF @ = "ready" THEN "indexing" ELSE @]
  OBVIOUS
<1>4. r = Says(b)
  BY <1>3, PyrightWords DEF Py!OnServiceStarted
<1>5. /\ DOMAIN b = {"state", "instances", "completed"} /\ b.state \in ServerStates
      /\ b.instances = i + 1 /\ b.completed = a.completed /\ b.state.health = "unknown"
      /\ b.state.readiness \in {"initializing", "indexing"}
  BY <1>0, <1>3 DEF PyrightFits, ServerStates, Readiness
<1>6. PyrightFits(b, v)
  BY <1>0, <1>2, <1>5 DEF PyrightFits
<1> QED
  BY <1>4, <1>6, SaysReads

\* The mapping of pyright reads that a folder is searched, for the first time or again.
LEMMA PyrightSearches ==
  ASSUME NEW a, NEW w, PyrightFits(a, w), NEW f \in DOMAIN w.folder,
         w.folder[f] = "started" \/ (w.loud /\ w.folder[f] = "enumerated"),
         NEW v, v = [w EXCEPT !.folder[f] = "searching"],
         NEW r, r = IF w.loud THEN Py!OnSearching(a) ELSE Silent(a)
  PROVE  PyrightFits(r.next, v) /\ ReadsState(a, r)
<1>0. PICK i \in Nat, e \in Nat : i = Cardinality(PyrightBegun(w)) /\ e = Cardinality(PyrightEnumerated(w)) /\ e <= i
  BY PyrightSteps
<1>1. f \in PyrightBegun(w) /\ (f \in PyrightEnumerated(w) <=> w.folder[f] = "enumerated")
  BY DEF PyrightBegun, PyrightEnumerated
<1>2. /\ DOMAIN v = {"folder", "loud"} /\ v.loud = w.loud
      /\ PyrightPhased(v)
      /\ IsFiniteSet(PyrightBegun(v))
      /\ Cardinality(PyrightBegun(v)) = i
      /\ Cardinality(PyrightEnumerated(v)) = e + (IF w.folder[f] = "enumerated" THEN 0 - 1 ELSE 0)
  <2>1. PICK phase \in {"started", "searching", "enumerated"} : phase = "searching"
    OBVIOUS
  <2>2. v = [w EXCEPT !.folder[f] = phase]
    BY <2>1
  <2>3. /\ DOMAIN v = {"folder", "loud"} /\ v.loud = w.loud
        /\ PyrightPhased(v)
    BY <2>2, PyrightSteps
  <2>5. IsFiniteSet(PyrightBegun(v))
    BY <2>2, PyrightSteps
  <2>4. /\ Cardinality(PyrightBegun(v)) = i + (IF f \in PyrightBegun(w) THEN 0 ELSE 1)
        /\ Cardinality(PyrightEnumerated(v)) =
              e + (IF phase = "enumerated" THEN IF f \in PyrightEnumerated(w) THEN 0 ELSE 1
                   ELSE IF f \in PyrightEnumerated(w) THEN 0 - 1 ELSE 0)
    BY <1>0, <2>2, PyrightSteps
  <2> QED
    BY <1>1, <2>1, <2>3, <2>4, <2>5
<1>3. i # 0
  BY <1>0, <1>1, FS_EmptySet DEF PyrightFits
<1>4. CASE ~w.loud
  <2>1. r = Silent(a) /\ w.folder[f] = "started"
    BY <1>4
  <2>2. PyrightFits(a, v)
    BY <1>0, <1>2, <1>4, <2>1 DEF PyrightFits
  <2> QED
    BY <2>1, <2>2, SilentReads
<1>5. CASE w.loud
  <2>1. PICK b : b = [a EXCEPT !.completed = IF @ = 0 THEN 0 ELSE @ - 1, !.state.readiness = "indexing"]
    OBVIOUS
  <2>2. r = Says(b)
    BY <1>0, <1>3, <1>5, <2>1, PyrightWords DEF Py!OnSearching, PyrightFits
  <2>3. /\ DOMAIN b = {"state", "instances", "completed"} /\ b.state \in ServerStates
        /\ b.instances = i /\ b.completed = (IF a.completed = 0 THEN 0 ELSE a.completed - 1)
        /\ b.state.health = "unknown" /\ b.state.readiness = "indexing"
    BY <1>0, <2>1 DEF PyrightFits, ServerStates, Readiness
  <2>4. ASSUME OneFolder PROVE e = IF w.folder[f] = "enumerated" THEN 1 ELSE 0
    <3>1. DOMAIN w.folder = LoudFolder
      BY <1>5 DEF PyrightFits, PyrightPhased
    <3>2. DOMAIN w.folder = {f}
      BY <2>4, <3>1 DEF OneFolder
    <3>3. PyrightEnumerated(w) = IF w.folder[f] = "enumerated" THEN {f} ELSE {}
      BY <3>2 DEF PyrightEnumerated
    <3> QED
      BY <1>0, <3>3, FS_EmptySet, FS_Singleton
  <2>5. PICK k \in Nat : k = Cardinality(PyrightEnumerated(v)) /\ k = e + (IF w.folder[f] = "enumerated" THEN 0 - 1 ELSE 0)
    <3>1. w.folder[f] = "enumerated" => e # 0
      BY <1>0, <1>1, FS_EmptySet, PyrightSteps
    <3> QED
      BY <1>2, <3>1
  <2>6. /\ b.completed \in Nat /\ b.completed <= k /\ b.completed # i
        /\ OneFolder => b.completed = k
    <3>1. a.completed \in Nat /\ a.completed <= e /\ (OneFolder => a.completed = e)
      BY <1>0 DEF PyrightFits
    <3> QED
      BY <1>0, <1>3, <2>3, <2>4, <2>5, <3>1
  <2>7. PyrightFits(b, v)
    BY <1>2, <1>5, <2>3, <2>5, <2>6 DEF PyrightFits
  <2> QED
    BY <2>2, <2>7, SaysReads
<1> QED
  BY <1>4, <1>5 DEF PyrightFits

\* The mapping of pyright reads that a folder is enumerated.
LEMMA PyrightEnumerates ==
  ASSUME NEW a, NEW w, PyrightFits(a, w), NEW f \in DOMAIN w.folder, w.folder[f] = "searching",
         NEW v, v = [w EXCEPT !.folder[f] = "enumerated"],
         NEW r, r = Py!OnEnumerated(a)
  PROVE  PyrightFits(r.next, v) /\ ReadsState(a, r)
<1>0. PICK i \in Nat, e \in Nat : i = Cardinality(PyrightBegun(w)) /\ e = Cardinality(PyrightEnumerated(w)) /\ e <= i
  BY PyrightSteps
<1>1. f \in PyrightBegun(w) /\ f \notin PyrightEnumerated(w)
  BY DEF PyrightBegun, PyrightEnumerated
<1>2. /\ DOMAIN v = {"folder", "loud"} /\ v.loud = w.loud
      /\ PyrightPhased(v)
      /\ IsFiniteSet(PyrightBegun(v))
      /\ Cardinality(PyrightBegun(v)) = i
      /\ Cardinality(PyrightEnumerated(v)) = e + 1
      /\ PyrightEnumerated(v) \subseteq PyrightBegun(v)
  <2>1. PICK phase \in {"started", "searching", "enumerated"} : phase = "enumerated"
    OBVIOUS
  <2>2. v = [w EXCEPT !.folder[f] = phase]
    BY <2>1
  <2>3. /\ DOMAIN v = {"folder", "loud"} /\ v.loud = w.loud
        /\ PyrightPhased(v)
    BY <2>2, PyrightSteps
  <2>5. IsFiniteSet(PyrightBegun(v))
    BY <2>2, PyrightSteps
  <2>4. /\ Cardinality(PyrightBegun(v)) = i + (IF f \in PyrightBegun(w) THEN 0 ELSE 1)
        /\ Cardinality(PyrightEnumerated(v)) =
              e + (IF phase = "enumerated" THEN IF f \in PyrightEnumerated(w) THEN 0 ELSE 1
                   ELSE IF f \in PyrightEnumerated(w) THEN 0 - 1 ELSE 0)
    BY <1>0, <2>2, PyrightSteps
  <2>6. PyrightEnumerated(v) \subseteq PyrightBegun(v)
    BY DEF PyrightEnumerated, PyrightBegun
  <2>7. Cardinality(PyrightBegun(v)) = i /\ Cardinality(PyrightEnumerated(v)) = e + 1
    BY <1>0, <1>1, <2>1, <2>4
  <2> QED
    BY <2>3, <2>5, <2>6, <2>7
<1>3. e + 1 <= i
  BY <1>0, <1>2, FS_Subset
<1>4. PICK b : b = [a EXCEPT !.completed = @ + 1]
  OBVIOUS
<1>5. PICK c : c = [b EXCEPT !.state.readiness = "ready"]
  OBVIOUS
<1>6. ~(a.completed >= a.instances)
  BY <1>0, <1>3 DEF PyrightFits
<1>7. r = Says(IF b.completed = b.instances THEN c ELSE b)
  BY <1>4, <1>5, <1>6, PyrightWords DEF Py!OnEnumerated
<1>8. /\ DOMAIN b = {"state", "instances", "completed"} /\ b.state = a.state
      /\ b.instances = i /\ b.completed = a.completed + 1
  BY <1>0, <1>4 DEF PyrightFits
<1>9. a.state.readiness # "ready"
  BY <1>6 DEF PyrightFits
<1>10. CASE b.completed = b.instances
  <2>1. r = Says(c)
    BY <1>7, <1>10
  <2>2. /\ DOMAIN c = {"state", "instances", "completed"} /\ c.state \in ServerStates
        /\ c.instances = i /\ c.completed = a.completed + 1
        /\ c.state.health = "unknown" /\ c.state.readiness = "ready"
    BY <1>5, <1>8 DEF PyrightFits, ServerStates, Readiness
  <2>3. PyrightFits(c, v)
    BY <1>0, <1>2, <1>3, <1>8, <1>10, <2>2 DEF PyrightFits
  <2> QED
    BY <2>1, <2>3, SaysReads
<1>11. CASE b.completed # b.instances
  <2>1. r = Says(b)
    BY <1>7, <1>11
  <2>3. PyrightFits(b, v)
    BY <1>0, <1>2, <1>3, <1>8, <1>9, <1>11 DEF PyrightFits
  <2> QED
    BY <2>1, <2>3, SaysReads
<1> QED
  BY <1>10, <1>11

\* A line of the log is about one folder, which moves to another phase.
PyrightMoves(w, u, text, f, to) == u.says.log = text /\ u.work = [w EXCEPT !.folder[f] = to]

\* Each line of the log moves one folder that is where it should be.
LEMMA PyrightLogs ==
  ASSUME NEW w, NEW text, NEW from, NEW to, NEW u \in Py!Logs(w, text, from, to)
  PROVE  \E f \in DOMAIN w.folder : w.folder[f] \in from /\ PyrightMoves(w, u, text, f, to)
<1>1. PICK f \in Py!FoldersIn(w, from) : u = [says |-> [log |-> text], work |-> [w EXCEPT !.folder[f] = to]]
  BY DEF Py!Logs
<1>2. f \in DOMAIN w.folder /\ w.folder[f] \in from
  BY DEF Py!FoldersIn
<1>3. PyrightMoves(w, u, text, f, to)
  BY <1>1 DEF PyrightMoves
<1> QED
  BY <1>2, <1>3

\* How pyright says that it searches, and when it does so.
PyrightLevel(w) == IF w.loud THEN "searching" ELSE "other"
PyrightAgain(w) == {"started"} \cup (IF w.loud THEN {"enumerated"} ELSE {})

\* Whatever pyright says next, the mapping that reads it fits the work that follows.
LEMMA PyrightSpeech ==
  ASSUME NEW a, NEW w, PyrightFits(a, w), NEW u \in Py!Speech(w),
         NEW r, r = Py!Interpret(a, u.says)
  PROVE  PyrightFits(r.next, u.work) /\ ReadsState(a, r)
<1>1. CASE u \in Py!Logs(w, "service started", {"absent"}, "started")
  <2>1. PICK f \in DOMAIN w.folder :
          w.folder[f] \in {"absent"} /\ PyrightMoves(w, u, "service started", f, "started")
    BY <1>1, PyrightLogs
  <2>2. u.says.log = "service started" /\ u.work = [w EXCEPT !.folder[f] = "started"]
    BY <2>1 DEF PyrightMoves
  <2>3. r = Py!OnServiceStarted(a) /\ w.folder[f] = "absent"
    BY <2>1, <2>2 DEF Py!Interpret, Py!OnLog
  <2> QED
    BY <2>2, <2>3, PyrightStarted
<1>2. CASE u \in Py!Logs(w, PyrightLevel(w), PyrightAgain(w), "searching")
  <2>1. PICK f \in DOMAIN w.folder :
          w.folder[f] \in PyrightAgain(w) /\ PyrightMoves(w, u, PyrightLevel(w), f, "searching")
    BY <1>2, PyrightLogs
  <2>2. w.folder[f] = "started" \/ (w.loud /\ w.folder[f] = "enumerated")
    BY <2>1 DEF PyrightAgain
  <2>3. u.says.log = PyrightLevel(w) /\ u.work = [w EXCEPT !.folder[f] = "searching"]
    BY <2>1 DEF PyrightMoves
  <2>4. r = IF w.loud THEN Py!OnSearching(a) ELSE Silent(a)
    BY <2>3, PyrightWords DEF Py!Interpret, Py!OnLog, PyrightLevel
  <2> QED
    BY <2>2, <2>3, <2>4, PyrightSearches
<1>3. ASSUME NEW text \in {"found", "none found"}, u \in Py!Logs(w, text, {"searching"}, "enumerated")
      PROVE  PyrightFits(r.next, u.work) /\ ReadsState(a, r)
  <2>1. PICK f \in DOMAIN w.folder :
          w.folder[f] \in {"searching"} /\ PyrightMoves(w, u, text, f, "enumerated")
    BY <1>3, PyrightLogs
  <2>2. u.says.log = text /\ u.work = [w EXCEPT !.folder[f] = "enumerated"] /\ w.folder[f] = "searching"
    BY <2>1 DEF PyrightMoves
  <2>3. r = Py!OnEnumerated(a)
    BY <2>2 DEF Py!Interpret, Py!OnLog
  <2> QED
    BY <2>2, <2>3, PyrightEnumerates
<1>4. CASE u \in {[says |-> [log |-> "other"], work |-> w]}
  <2>1. u.says.log = "other" /\ u.work = w
    BY <1>4
  <2>2. r = Silent(a)
    BY <2>1, PyrightWords DEF Py!Interpret, Py!OnLog
  <2> QED
    BY <2>1, <2>2, SilentReads
<1>5. Py!Speech(w) =
        (((Py!Logs(w, "service started", {"absent"}, "started")
             \cup Py!Logs(w, PyrightLevel(w), PyrightAgain(w), "searching"))
            \cup Py!Logs(w, "found", {"searching"}, "enumerated"))
           \cup Py!Logs(w, "none found", {"searching"}, "enumerated"))
          \cup {[says |-> [log |-> "other"], work |-> w]}
  BY DEF Py!Speech, PyrightLevel, PyrightAgain
<1> QED
  BY <1>1, <1>2, <1>3, <1>4, <1>5

\* A mapping that fits claims too much never, and too little never if there is one folder.
LEMMA PyrightSound ==
  ASSUME NEW a, NEW w, PyrightFits(a, w)
  PROVE  /\ a.state.health = "unknown" /\ a.state \in ServerStates /\ a.state.readiness # "unknown"
         /\ a.state.readiness = "ready" => Py!Complete(w)
         /\ OneFolder /\ Py!Complete(w) => a.state.readiness = "ready"
<1>1. PyrightEnumerated(w) \subseteq PyrightBegun(w) /\ IsFiniteSet(PyrightBegun(w))
  BY DEF PyrightFits, PyrightEnumerated, PyrightBegun
<1>2. Py!Complete(w) <=> PyrightEnumerated(w) # {} /\ PyrightEnumerated(w) = PyrightBegun(w)
  BY DEF Py!Complete, Py!FoldersIn, PyrightFits, PyrightPhased, PyrightEnumerated, PyrightBegun, PyrightPhases
<1>3. /\ IsFiniteSet(PyrightEnumerated(w))
      /\ Cardinality(PyrightEnumerated(w)) <= Cardinality(PyrightBegun(w))
      /\ Cardinality(PyrightEnumerated(w)) \in Nat /\ Cardinality(PyrightBegun(w)) \in Nat
      /\ Cardinality(PyrightEnumerated(w)) = Cardinality(PyrightBegun(w)) <=> PyrightEnumerated(w) = PyrightBegun(w)
      /\ Cardinality(PyrightEnumerated(w)) = 0 <=> PyrightEnumerated(w) = {}
  BY <1>1, FS_Subset, FS_CardinalityType, FS_EmptySet
<1> QED
  BY <1>2, <1>3 DEF PyrightFits

\* The titles of clangd, its index, and the names of its directories.
ClangdTitles == {"backgroundIndexProgress", "request"}
ClangdIndex == {"backgroundIndexProgress"}
ClangdNames == {"src", "build", "compile_commands.json"}

\* The index is being built.
ClangdIndexing(w) == "backgroundIndexProgress" \in NamesOf(w.open, ClangdTitles)

\* The mapping of clangd looks for a database once, at the first document; it knows where clangd looks.
ClangdFits(a, w) ==
  /\ DOMAIN w = {"open", "ended", "last", "opened", "blind", "told", "files"}
  /\ FixedOnly(w.open, ClangdTitles) /\ w.opened \in BOOLEAN /\ w.blind \in BOOLEAN
  /\ w.told \subseteq Seq(ClangdNames)
  /\ DOMAIN a = {"state", "databaseProbed", "compileCommandsDir"} /\ a.state \in ServerStates
  /\ a.compileCommandsDir = w.told /\ a.databaseProbed = w.opened
  /\ w.blind => w.opened
  /\ ClangdIndexing(w) \/ "backgroundIndexProgress" \in w.ended => w.opened /\ ~w.blind
  /\ a.state.health = "unknown"
  /\ a.state.readiness = IF w.blind THEN "unknown"
                         ELSE IF ClangdIndexing(w) THEN "indexing"
                         ELSE IF "backgroundIndexProgress" \in w.ended THEN "ready" ELSE "initializing"

\* The words of Mapping mean the same in the instance Clangd of them.
LEMMA ClangdWords ==
  /\ \A w, pairs : Cd!BeginsOf(w, pairs) = BeginsOf(w, pairs)
  /\ \A w : Cd!Ends(w) = Ends(w)
  /\ \A w, titles : Cd!Open(w, titles) <=> Open(w, titles)
  /\ \A names : Cd!Fixed(names) = Fixed(names)
  /\ \A a : Cd!Says(a) = Says(a) /\ Cd!Silent(a) = Silent(a)
BY DEF Cd!BeginsOf, Cd!IsOpen, BeginsOf, IsOpen, Cd!Ends, Cd!EndOf, Ends, EndOf,
   Cd!Open, Open, Cd!Fixed, Fixed, Cd!Says, Says, Cd!Silent, Silent

\* Each of the launches means the same to the mapping and to clangd.
LEMMA ClangdLaunches ==
  ASSUME NEW args \in Cd!Launches
  PROVE  Cd!CompileCommandsDirArgument(args) = Cd!Told(args) /\ Cd!Told(args) \in {{}, {<<"src">>}, {<<"build">>}}
<1>1. CASE args = <<>>
  BY <1>1 DEF Cd!CompileCommandsDirArgument, Cd!Told
<1>2. CASE args = <<Cd!Argument("text", <<"--log">>)>>
  <2>1. DOMAIN args = {1} /\ args[1].is = "text" /\ args[1].path = <<"--log">>
    BY <1>2 DEF Cd!Argument
  <2> QED
    BY <2>1 DEF Cd!CompileCommandsDirArgument, Cd!Told
<1>3. CASE args = <<Cd!Argument("flag", <<"--compile-commands-dir">>)>>
  <2>1. DOMAIN args = {1} /\ Len(args) = 1 /\ args[1].is = "flag" /\ args[1].path = <<"--compile-commands-dir">>
    BY <1>3 DEF Cd!Argument
  <2> QED
    BY <2>1 DEF Cd!CompileCommandsDirArgument, Cd!Told
<1>4. CASE args = <<Cd!Argument("text", <<"--log">>), Cd!Argument("flag=", <<"build">>)>>
  <2>1. /\ DOMAIN args = {1, 2} /\ args[1].is = "text" /\ args[1].path = <<"--log">>
        /\ args[2].is = "flag=" /\ args[2].path = <<"build">>
    BY <1>4 DEF Cd!Argument
  <2>2. PICK flags : flags = {i \in DOMAIN args : args[i].is # "text"}
    OBVIOUS
  <2>3. flags = {2}
    BY <2>1, <2>2
  <2>4. PICK first : first = {i \in flags : \A j \in flags : i <= j}
    OBVIOUS
  <2>5. first = {2}
    BY <2>3, <2>4
  <2>6. Cd!CompileCommandsDirArgument(args) =
          {args[i].path : i \in {j \in first : args[j].is = "flag="}}
            \cup {args[i + 1].path : i \in {j \in first : args[j].is = "flag" /\ j < Len(args)}}
    BY <2>2, <2>4 DEF Cd!CompileCommandsDirArgument
  <2>7. {args[i].path : i \in {j \in first : args[j].is = "flag="}} = {<<"build">>}
    BY <2>1, <2>5
  <2>8. {args[i + 1].path : i \in {j \in first : args[j].is = "flag" /\ j < Len(args)}} = {}
    BY <2>1, <2>5
  <2>9. Cd!Told(args) = {<<"build">>}
    BY <2>1 DEF Cd!Told
  <2>10. PICK build : build = {<<"build">>}
    OBVIOUS
  <2>11. Cd!CompileCommandsDirArgument(args) = build \cup {}
    BY <2>6, <2>7, <2>8, <2>10, Zenon
  <2>12. Cd!CompileCommandsDirArgument(args) = build
    BY <2>11
  <2> QED
    BY <2>9, <2>10, <2>12
<1>5. CASE args = <<Cd!Argument("flag", <<"--compile-commands-dir">>), Cd!Argument("text", <<"src">>),
                    Cd!Argument("flag=", <<"build">>)>>
  <2>1. /\ DOMAIN args = {1, 2, 3} /\ Len(args) = 3
        /\ args[1].is = "flag" /\ args[1].path = <<"--compile-commands-dir">>
        /\ args[2].is = "text" /\ args[2].path = <<"src">>
        /\ args[3].is = "flag=" /\ args[3].path = <<"build">>
    BY <1>5 DEF Cd!Argument
  <2>2. PICK flags : flags = {i \in DOMAIN args : args[i].is # "text"}
    OBVIOUS
  <2>3. flags = {1, 3}
    BY <2>1, <2>2
  <2>4. PICK first : first = {i \in flags : \A j \in flags : i <= j}
    OBVIOUS
  <2>5. first = {1}
    BY <2>3, <2>4
  <2>6. Cd!CompileCommandsDirArgument(args) =
          {args[i].path : i \in {j \in first : args[j].is = "flag="}}
            \cup {args[i + 1].path : i \in {j \in first : args[j].is = "flag" /\ j < Len(args)}}
    BY <2>2, <2>4 DEF Cd!CompileCommandsDirArgument
  <2>7. {args[i].path : i \in {j \in first : args[j].is = "flag="}} = {}
    BY <2>1, <2>5
  <2>8. {args[i + 1].path : i \in {j \in first : args[j].is = "flag" /\ j < Len(args)}} = {<<"src">>}
    BY <2>1, <2>5
  <2>9. Cd!Told(args) = {<<"src">>}
    BY <2>1 DEF Cd!Told
  <2>10. PICK src : src = {<<"src">>}
    OBVIOUS
  <2>11. Cd!CompileCommandsDirArgument(args) = {} \cup src
    BY <2>6, <2>7, <2>8, <2>10, Zenon
  <2>12. Cd!CompileCommandsDirArgument(args) = src
    BY <2>11
  <2> QED
    BY <2>9, <2>10, <2>12
<1> QED
  BY <1>1, <1>2, <1>3, <1>4, <1>5 DEF Cd!Launches

\* Sequences of one and of two elements.
LEMMA ShortSeqs == ASSUME NEW x, NEW y PROVE <<x>> \in Seq({x, y}) /\ <<x, y>> \in Seq({x, y})
OBVIOUS

\* Where clangd is told to look is a path.
LEMMA ClangdDirectories ==
  ASSUME NEW told \in {{}, {<<"src">>}, {<<"build">>}} PROVE told \subseteq Seq(ClangdNames)
<1>1. ASSUME NEW x \in ClangdNames PROVE <<x>> \in Seq(ClangdNames)
  OBVIOUS
<1>2. "src" \in ClangdNames /\ "build" \in ClangdNames
  BY DEF ClangdNames
<1>3. <<"src">> \in Seq(ClangdNames) /\ <<"build">> \in Seq(ClangdNames)
  BY <1>1, <1>2
<1>4. told = {} \/ told = {<<"src">>} \/ told = {<<"build">>}
  OBVIOUS
<1>5. CASE told = {}
  BY <1>5
<1>6. ASSUME NEW d, d \in Seq(ClangdNames), told = {d} PROVE told \subseteq Seq(ClangdNames)
  BY <1>6
<1> QED
  BY <1>3, <1>4, <1>5, <1>6, Zenon

\* Before clangd says anything, the mapping fits, for each of the launches.
LEMMA ClangdStart ==
  ASSUME NEW args \in Cd!Launches, NEW files
  PROVE  ClangdFits(Cd!Start(args), Cd!Silence(Cd!Told(args), files))
<1>1. PICK w : w = Cd!Silence(Cd!Told(args), files)
  OBVIOUS
<1>2. PICK a : a = Cd!Start(args)
  OBVIOUS
<1>3. /\ DOMAIN w = {"open", "ended", "last", "opened", "blind", "told", "files"}
      /\ w.open = {} /\ w.ended = {} /\ w.opened = FALSE /\ w.blind = FALSE /\ w.told = Cd!Told(args)
  BY <1>1 DEF Cd!Silence
<1>4. /\ DOMAIN a = {"state", "databaseProbed", "compileCommandsDir"}
      /\ a.compileCommandsDir = Cd!Told(args) /\ a.databaseProbed = FALSE
      /\ a.state \in ServerStates /\ a.state.health = "unknown" /\ a.state.readiness = "initializing"
  BY <1>2, ClangdLaunches DEF Cd!Start, Cd!Initializing, ServerStates, Health, Readiness
<1>5. w.told \subseteq Seq(ClangdNames)
  BY <1>3, ClangdLaunches, ClangdDirectories
<1>6. FixedOnly(w.open, ClangdTitles) /\ ~ClangdIndexing(w)
  BY <1>3, NoNames DEF ClangdIndexing
<1>7. ClangdFits(a, w)
  BY <1>3, <1>4, <1>5, <1>6 DEF ClangdFits
<1> QED
  BY <1>1, <1>2, <1>7

\* A document that has no database above it is one that clangd has none for.
LEMMA ClangdReach ==
  ASSUME NEW S, NEW p \in Seq(S), p # <<>>, NEW files
  PROVE  Cd!DatabaseReachableFrom(Cd!Front(p), files) <=>
           \E file \in files : \E d \in Cd!Databases : \E n \in 0..(Len(p) - 1) : file = SubSeq(p, 1, n) \o d
<1>1. PICK l \in Nat : l = Len(p) /\ l # 0
  BY LenProperties, EmptySeq
<1>2. \A i \in 1..l : p[i] \in S
  BY <1>1, ElementOfSeq
<1>3. PICK k \in Nat : k = l - 1
  BY <1>1
<1>4. PICK f : f = Cd!Front(p)
  OBVIOUS
<1>5. f = SubSeq(p, 1, k)
  BY <1>1, <1>3, <1>4 DEF Cd!Front
<1>6. f \in Seq(S) /\ Len(f) = k
  <2>1. 1 \in Int /\ k \in Int /\ \A i \in 1..k : p[i] \in S
    BY <1>2, <1>3
  <2> QED
    BY <1>5, <2>1, SubSeqProperties
<1>7. ASSUME NEW n \in 0..k PROVE SubSeq(f, 1, n) = SubSeq(p, 1, n)
  <2>1. CASE n = 0
    BY <2>1, SubSeqEmpty
  <2>2. CASE n # 0
    <3>1. 1 \in 1..Len(p) /\ k \in 1..Len(p) /\ 1 \in 1..k - 1 + 1 /\ n \in 1..k - 1 + 1
      BY <1>1, <1>3, <2>2
    <3>2. SubSeq(SubSeq(p, 1, k), 1, n) = SubSeq(p, 1 + 1 - 1, 1 + n - 1)
      BY <3>1, SubSeqOfSubSeq
    <3> QED
      BY <1>5, <3>2
  <2> QED
    BY <2>1, <2>2
<1>8. Cd!DatabaseReachableFrom(f, files) <=> \E n \in 0..k : \E d \in Cd!Databases : SubSeq(p, 1, n) \o d \in files
  BY <1>6, <1>7 DEF Cd!DatabaseReachableFrom
<1> QED
  BY <1>1, <1>3, <1>4, <1>8

\* The mapping finds a database for a document exactly when clangd does.
LEMMA ClangdFinds ==
  ASSUME NEW a, NEW w, ClangdFits(a, w), NEW p \in Cd!Documents, p # <<>>,
         NEW m, m.path = p, m.files = w.files
  PROVE  Cd!Found(a, m) <=> Cd!Sees(w, p)
<1>1. a.compileCommandsDir = w.told
  BY DEF ClangdFits
<1>2. CASE w.told = {}
  <2>1. p \in Seq({"src", "main.c"})
    <3>1. p = <<"main.c">> \/ p = <<"src", "main.c">>
      BY DEF Cd!Documents
    <3>2. <<"main.c">> \in Seq({"main.c", "src"}) /\ {"main.c", "src"} = {"src", "main.c"}
      BY ShortSeqs
    <3>3. <<"src", "main.c">> \in Seq({"src", "main.c"})
      BY ShortSeqs
    <3> QED
      BY <3>1, <3>2, <3>3
  <2> QED
    BY <1>1, <1>2, <2>1, ClangdReach DEF Cd!Found, Cd!Sees
<1>3. CASE w.told # {}
  <2>1. ASSUME NEW dir \in w.told PROVE dir \o Cd!CompileCommands = Append(dir, "compile_commands.json")
    <3>1. dir \in Seq(ClangdNames) /\ "compile_commands.json" \in ClangdNames
      BY DEF ClangdFits, ClangdNames
    <3> QED
      BY <3>1, AppendIsConcat DEF Cd!CompileCommands
  <2> QED
    BY <1>1, <1>3, <2>1 DEF Cd!Found, Cd!Sees
<1> QED
  BY <1>2, <1>3

\* What clangd may begin with: its index only after a document was opened.
ClangdKinds(w) == IF w.opened THEN ClangdTitles ELSE {"request"}

\* The index is open when its name is.
LEMMA ClangdOpen ==
  ASSUME NEW w, FixedOnly(w.open, ClangdTitles)
  PROVE  Open(w, ClangdIndex) <=> ClangdIndexing(w)
<1>1. ClangdIndex \subseteq ClangdTitles
  BY DEF ClangdIndex, ClangdTitles
<1>2. Open(w, ClangdIndex) <=> \E n \in ClangdIndex : n \in NamesOf(w.open, ClangdTitles)
  BY <1>1, SomeNameOpen
<1> QED
  BY <1>2 DEF ClangdIndex, ClangdIndexing

\* The mapping of clangd reads the beginning of an operation.
LEMMA ClangdBegins ==
  ASSUME NEW a, NEW w, ClangdFits(a, w), NEW v \in BeginsOf(w, Fixed(ClangdKinds(w))),
         NEW u, u = [v EXCEPT !.work.blind = @ /\ ~Open(v.work, ClangdIndex)],
         NEW r, r = Cd!Interpret(a, u.says)
  PROVE  ClangdFits(r.next, u.work) /\ ReadsState(a, r)
<1>0. /\ FixedOnly(w.open, ClangdTitles) /\ ClangdKinds(w) \subseteq ClangdTitles
      /\ ClangdIndex \subseteq ClangdTitles
  BY DEF ClangdFits, ClangdKinds, ClangdTitles, ClangdIndex
<1>1. PICK n \in ClangdKinds(w), new \in SUBSET Fixed(ClangdTitles) :
        /\ DOMAIN v = {"says", "work"}
        /\ v.says = [is |-> "begin", token |-> n, title |-> n]
        /\ v.work = WithOpen(w, new)
        /\ FixedGrows(w.open, new, n, ClangdTitles)
  BY <1>0, FixedBegins
<1>2. /\ FixedOnly(new, ClangdTitles) /\ n \notin NamesOf(w.open, ClangdTitles)
      /\ NamesOf(new, ClangdTitles) = NamesOf(w.open, ClangdTitles) \cup {n}
  BY <1>1 DEF FixedGrows
<1>3. PICK k : k = v.work
  OBVIOUS
<1>4. k = [w EXCEPT !.open = new] /\ k.open = new
  BY <1>1, <1>3 DEF WithOpen, ClangdFits
<1>5. Open(k, ClangdIndex) <=> ClangdIndexing(k)
  <2>1. FixedOnly(k.open, ClangdTitles)
    BY <1>2, <1>4
  <2> QED
    BY <2>1, ClangdOpen
<1>6. PICK blind \in BOOLEAN : blind = (w.blind /\ ~ClangdIndexing(k))
  BY Zenon
<1>7. PICK w2 : w2 = u.work
  OBVIOUS
<1>8. w2 = [w EXCEPT !.open = new, !.blind = blind]
  <2>1. u = [v EXCEPT !.work.blind = @ /\ ~ClangdIndexing(k)]
    BY <1>3, <1>5
  <2>2. (k.blind /\ ~ClangdIndexing(k)) = blind
    BY <1>4, <1>6 DEF ClangdFits
  <2>3. w2 = [k EXCEPT !.blind = blind]
    BY <1>1, <1>3, <1>7, <2>1, <2>2
  <2> QED
    BY <1>4, <2>3 DEF ClangdFits
<1>9. u.says.is = "begin" /\ u.says.token = n
  BY <1>1
<1>10. /\ DOMAIN w2 = {"open", "ended", "last", "opened", "blind", "told", "files"}
       /\ w2.open = new /\ w2.opened = w.opened /\ w2.told = w.told /\ w2.ended = w.ended /\ w2.blind = blind
  BY <1>8 DEF ClangdFits
<1>11. CASE n = "backgroundIndexProgress"
  <2>1. ClangdIndexing(k) /\ ClangdIndexing(w2) /\ ~blind
    BY <1>2, <1>4, <1>6, <1>10, <1>11 DEF ClangdIndexing
  <2>2. w.opened
    BY <1>1, <1>11 DEF ClangdKinds
  <2>3. PICK b : b = [a EXCEPT !.state.readiness = "indexing"]
    OBVIOUS
  <2>4. r = Says(b)
    BY <1>9, <1>11, <2>3, ClangdWords DEF Cd!Interpret
  <2>5. /\ DOMAIN b = {"state", "databaseProbed", "compileCommandsDir"} /\ b.state \in ServerStates
        /\ b.compileCommandsDir = w.told /\ b.databaseProbed = w.opened
        /\ b.state.health = "unknown" /\ b.state.readiness = "indexing"
    BY <2>3 DEF ClangdFits, ServerStates, Readiness
  <2>6. ClangdFits(b, w2)
    BY <1>2, <1>10, <2>1, <2>2, <2>5 DEF ClangdFits
  <2> QED
    BY <1>7, <2>4, <2>6, SaysReads
<1>12. CASE n # "backgroundIndexProgress"
  <2>1. (ClangdIndexing(k) <=> ClangdIndexing(w)) /\ (ClangdIndexing(w2) <=> ClangdIndexing(w))
    BY <1>2, <1>4, <1>10, <1>12 DEF ClangdIndexing
  <2>2. blind = w.blind
    BY <1>6, <2>1 DEF ClangdFits
  <2>3. r = Silent(a)
    BY <1>9, <1>12, ClangdWords DEF Cd!Interpret
  <2>4. ClangdFits(a, w2)
    BY <1>2, <1>10, <2>1, <2>2 DEF ClangdFits
  <2> QED
    BY <1>7, <2>3, <2>4, SilentReads
<1> QED
  BY <1>11, <1>12

\* The mapping of clangd reads the end of an operation.
LEMMA ClangdEnds ==
  ASSUME NEW a, NEW w, ClangdFits(a, w), NEW u \in Ends(w), NEW r, r = Cd!Interpret(a, u.says)
  PROVE  ClangdFits(r.next, u.work) /\ ReadsState(a, r)
<1>0. FixedOnly(w.open, ClangdTitles)
  BY DEF ClangdFits
<1>1. PICK n \in ClangdTitles, new \in SUBSET Fixed(ClangdTitles) :
        /\ u.says = [is |-> "end", token |-> n]
        /\ u.work = AfterEnd(w, new, n)
        /\ FixedShrinks(w.open, new, n, ClangdTitles)
  BY <1>0, FixedEnds
<1>2. /\ FixedOnly(new, ClangdTitles) /\ n \in NamesOf(w.open, ClangdTitles)
      /\ NamesOf(new, ClangdTitles) = NamesOf(w.open, ClangdTitles) \ {n}
  BY <1>1 DEF FixedShrinks
<1>3. PICK w2 : w2 = u.work
  OBVIOUS
<1>4. /\ DOMAIN w2 = {"open", "ended", "last", "opened", "blind", "told", "files"}
      /\ w2.open = new /\ w2.opened = w.opened /\ w2.told = w.told /\ w2.blind = w.blind
      /\ w2.ended = IF n = "request" THEN w.ended ELSE w.ended \cup {n}
  BY <1>1, <1>3 DEF AfterEnd, ClangdFits
<1>5. u.says.is = "end" /\ u.says.token = n
  BY <1>1
<1>6. CASE n = "backgroundIndexProgress"
  <2>1. ClangdIndexing(w) /\ ~ClangdIndexing(w2) /\ "backgroundIndexProgress" \in w2.ended
    BY <1>2, <1>4, <1>6 DEF ClangdIndexing
  <2>2. PICK b : b = [a EXCEPT !.state.readiness = "ready"]
    OBVIOUS
  <2>3. r = Says(b)
    BY <1>5, <1>6, <2>2, ClangdWords DEF Cd!Interpret
  <2>4. /\ DOMAIN b = {"state", "databaseProbed", "compileCommandsDir"} /\ b.state \in ServerStates
        /\ b.compileCommandsDir = w.told /\ b.databaseProbed = w.opened
        /\ b.state.health = "unknown" /\ b.state.readiness = "ready"
    BY <2>2 DEF ClangdFits, ServerStates, Readiness
  <2>5. ClangdFits(b, w2)
    BY <1>2, <1>4, <2>1, <2>4 DEF ClangdFits
  <2> QED
    BY <1>3, <2>3, <2>5, SaysReads
<1>7. CASE n # "backgroundIndexProgress"
  <2>1. n = "request" /\ w2.ended = w.ended
    BY <1>4, <1>7 DEF ClangdTitles
  <2>2. ClangdIndexing(w2) <=> ClangdIndexing(w)
    BY <1>2, <1>4, <1>7 DEF ClangdIndexing
  <2>3. r = Silent(a)
    BY <1>5, <1>7, ClangdWords DEF Cd!Interpret
  <2>4. ClangdFits(a, w2)
    BY <1>2, <1>4, <2>1, <2>2 DEF ClangdFits
  <2> QED
    BY <1>3, <2>3, <2>4, SilentReads
<1> QED
  BY <1>6, <1>7

\* What clangd says when an operation begins.
ClangdBegun(w) ==
  {[v EXCEPT !.work.blind = @ /\ ~Open(v.work, ClangdIndex)] : v \in BeginsOf(w, Fixed(ClangdKinds(w)))}

\* Whatever clangd says next, the mapping that reads it fits the work that follows.
LEMMA ClangdSpeech ==
  ASSUME NEW a, NEW w, ClangdFits(a, w), NEW u \in Cd!Speech(w), NEW r, r = Cd!Interpret(a, u.says)
  PROVE  ClangdFits(r.next, u.work) /\ ReadsState(a, r)
<1>1. PICK kinds : kinds = BeginsOf(w, Fixed(ClangdKinds(w)))
  OBVIOUS
<1>2. kinds = Cd!BeginsOf(w, IF w.opened THEN Cd!Fixed({"backgroundIndexProgress", "request"})
                              ELSE Cd!Fixed({"request"}))
  <2>1. CASE w.opened
    BY <1>1, <2>1, ClangdWords DEF ClangdKinds, ClangdTitles
  <2>2. CASE ~w.opened
    BY <1>1, <2>2, ClangdWords DEF ClangdKinds
  <2> QED
    BY <2>1, <2>2
<1>3. u \in {[v EXCEPT !.work.blind = @ /\ ~Cd!Open(v.work, {"backgroundIndexProgress"})] : v \in kinds}
       \/ u \in Cd!Ends(w)
  BY <1>2 DEF Cd!Speech
<1>4. ASSUME NEW v \in kinds, u = [v EXCEPT !.work.blind = @ /\ ~Cd!Open(v.work, {"backgroundIndexProgress"})]
      PROVE  ClangdFits(r.next, u.work) /\ ReadsState(a, r)
  <2>1. Cd!Open(v.work, {"backgroundIndexProgress"}) <=> Open(v.work, ClangdIndex)
    BY ClangdWords DEF ClangdIndex
  <2>2. u = [v EXCEPT !.work.blind = @ /\ ~Open(v.work, ClangdIndex)]
    BY <1>4, <2>1
  <2> QED
    BY <1>1, <2>2, ClangdBegins
<1>5. u \in Ends(w) => ClangdFits(r.next, u.work) /\ ReadsState(a, r)
  BY ClangdEnds
<1> QED
  BY <1>3, <1>4, <1>5, ClangdWords

\* Whatever the client of clangd announces, the mapping fits the work that follows.
LEMMA ClangdClient ==
  ASSUME NEW a, NEW w, ClangdFits(a, w), NEW u \in Cd!ClientSpeech(w), NEW r, r = Cd!ObserveClient(a, u.says)
  PROVE  ClangdFits(r.next, u.work) /\ ReadsState(a, r)
<1>1. PICK p \in Cd!Documents :
        u = [says |-> [is |-> "didOpen", path |-> p, files |-> w.files],
             work |-> [w EXCEPT !.opened = @ \/ p # <<>>,
                                !.blind = @ \/ (p # <<>> /\ ~w.opened /\ ~Cd!Sees(w, p))]]
  BY DEF Cd!ClientSpeech
<1>2. PICK m : m = u.says
  OBVIOUS
<1>3. m.is = "didOpen" /\ m.path = p /\ m.files = w.files
  BY <1>1, <1>2
<1>4. PICK opened \in BOOLEAN : opened = (w.opened \/ p # <<>>)
  BY Zenon
<1>5. PICK blind \in BOOLEAN : blind = (w.blind \/ (p # <<>> /\ ~w.opened /\ ~Cd!Sees(w, p)))
  BY Zenon
<1>6. PICK v : v = u.work
  OBVIOUS
<1>7. v = [w EXCEPT !.opened = opened, !.blind = blind]
  BY <1>1, <1>4, <1>5, <1>6
<1>8. /\ DOMAIN v = {"open", "ended", "last", "opened", "blind", "told", "files"}
      /\ v.open = w.open /\ v.opened = opened /\ v.told = w.told /\ v.ended = w.ended /\ v.blind = blind
  BY <1>7 DEF ClangdFits
<1>9. ClangdIndexing(v) <=> ClangdIndexing(w)
  BY <1>8 DEF ClangdIndexing
<1>10. CASE w.opened \/ p = <<>>
  <2>1. opened = w.opened /\ blind = w.blind
    BY <1>4, <1>5, <1>10 DEF ClangdFits
  <2>2. r = Silent(a)
    BY <1>2, <1>3, <1>10, ClangdWords DEF Cd!ObserveClient, ClangdFits
  <2>3. ClangdFits(a, v)
    BY <1>8, <1>9, <2>1 DEF ClangdFits
  <2> QED
    BY <1>6, <2>2, <2>3, SilentReads
<1>11. CASE ~w.opened /\ p # <<>>
  <2>1. /\ opened /\ ~w.blind /\ ~ClangdIndexing(w) /\ "backgroundIndexProgress" \notin w.ended
        /\ a.state.readiness = "initializing"
    BY <1>4, <1>11 DEF ClangdFits
  <2>2. blind <=> ~Cd!Sees(w, p)
    BY <1>5, <1>11, <2>1
  <2>3. Cd!Found(a, m) <=> Cd!Sees(w, p)
    BY <1>3, <1>11, ClangdFinds
  <2>4. PICK b : b = [a EXCEPT !.databaseProbed = TRUE]
    OBVIOUS
  <2>5. PICK c : c = [a EXCEPT !.databaseProbed = TRUE, !.state.readiness = "unknown"]
    OBVIOUS
  <2>6. r = IF blind THEN Says(c) ELSE Silent(b)
    <3>1. ~(a.databaseProbed \/ m.is # "didOpen" \/ m.path = <<>>)
      BY <1>3, <1>11 DEF ClangdFits
    <3>2. r = IF Cd!Found(a, m) THEN Silent(b) ELSE Says(c)
      BY <1>2, <2>4, <2>5, <3>1, ClangdWords DEF Cd!ObserveClient
    <3> QED
      BY <2>2, <2>3, <3>2
  <2>7. CASE blind
    <3>1. /\ DOMAIN c = {"state", "databaseProbed", "compileCommandsDir"} /\ c.state \in ServerStates
          /\ c.compileCommandsDir = w.told /\ c.databaseProbed = TRUE
          /\ c.state.health = "unknown" /\ c.state.readiness = "unknown"
      BY <2>5 DEF ClangdFits, ServerStates, Readiness
    <3>2. ClangdFits(c, v)
      BY <1>8, <1>9, <2>1, <2>7, <3>1 DEF ClangdFits
    <3> QED
      BY <1>6, <2>6, <2>7, <3>2, SaysReads
  <2>8. CASE ~blind
    <3>1. /\ DOMAIN b = {"state", "databaseProbed", "compileCommandsDir"} /\ b.state = a.state
          /\ b.compileCommandsDir = w.told /\ b.databaseProbed = TRUE
      BY <2>4 DEF ClangdFits
    <3>2. ClangdFits(b, v)
      BY <1>8, <1>9, <2>1, <2>8, <3>1 DEF ClangdFits
    <3> QED
      BY <1>6, <2>6, <2>8, <3>1, <3>2, SilentReads
  <2> QED
    BY <2>7, <2>8
<1> QED
  BY <1>10, <1>11

\* A mapping that fits says neither more nor less than what is true of clangd.
LEMMA ClangdSound ==
  ASSUME NEW a, NEW w, ClangdFits(a, w)
  PROVE  Sound(a.state, Cd!Complete(w), Cd!Blind(w), {"unknown"})
<1>1. Open(w, ClangdIndex) <=> ClangdIndexing(w)
  BY ClangdOpen DEF ClangdFits
<1>2. Cd!Complete(w) <=> ~ClangdIndexing(w) /\ "backgroundIndexProgress" \in w.ended
  BY <1>1, ClangdWords DEF Cd!Complete, Cd!Ended, ClangdIndex
<1> QED
  BY <1>2 DEF ClangdFits, Sound, Cd!Blind

\* An interval from 1 has one length.
LEMMA Intervals == ASSUME NEW m \in Nat, NEW n \in Nat, 1..m = 1..n PROVE m = n
<1>1. CASE m < n
  <2>1. n \in 1..n /\ ~(n \in 1..m)
    BY <1>1
  <2> QED
    BY <2>1
<1>2. CASE n < m
  <2>1. m \in 1..m /\ ~(m \in 1..n)
    BY <1>2
  <2> QED
    BY <2>1
<1> QED
  BY <1>1, <1>2

\* A function on an interval from 1 is a sequence, of that length.
LEMMA FunctionIsSeq ==
  ASSUME NEW S, NEW n \in Nat, NEW s \in [1..n -> S] PROVE s \in Seq(S) /\ Len(s) = n
<1>1. s \in Seq(S)
  BY SeqDef
<1>2. Len(s) \in Nat /\ DOMAIN s = 1..Len(s)
  BY <1>1, LenProperties
<1>3. DOMAIN s = 1..n
  OBVIOUS
<1> QED
  BY <1>1, <1>2, <1>3, Intervals

\* The reverse of a sequence, element by element.
LEMMA Reversed ==
  ASSUME NEW S, NEW s \in Seq(S)
  PROVE  /\ Nx!Reverse(s) \in Seq(S) /\ Len(Nx!Reverse(s)) = Len(s)
         /\ \A i \in 1..Len(s) : Nx!Reverse(s)[i] = s[Len(s) - i + 1]
<1>1. PICK n \in Nat : n = Len(s)
  BY LenProperties
<1>2. \A i \in 1..n : s[n - i + 1] \in S
  <2>1. TAKE i \in 1..n
  <2>2. n - i + 1 \in 1..Len(s)
    BY <1>1
  <2> QED
    BY <1>1, <2>2, ElementOfSeq
<1>3. Nx!Reverse(s) = [i \in 1..n |-> s[n - i + 1]]
  BY <1>1 DEF Nx!Reverse
<1>4. Nx!Reverse(s) \in [1..n -> S]
  BY <1>2, <1>3
<1> QED
  BY <1>1, <1>3, <1>4, FunctionIsSeq

\* A suffix, element by element.
LEMMA Suffixes ==
  ASSUME NEW S, NEW s \in Seq(S), NEW t \in Seq(S)
  PROVE  Nx!IsSuffix(s, t) <=> /\ Len(s) <= Len(t)
                               /\ \A i \in 1..Len(s) : s[i] = t[Len(t) - Len(s) + i]
<1>1. PICK m \in Nat, n \in Nat : m = Len(s) /\ n = Len(t)
  BY LenProperties
<1>2. PICK a \in Seq(S) : a = Nx!Reverse(s) /\ Len(a) = m /\ \A i \in 1..m : a[i] = s[m - i + 1]
  BY <1>1, Reversed
<1>3. PICK b \in Seq(S) : b = Nx!Reverse(t) /\ Len(b) = n /\ \A i \in 1..n : b[i] = t[n - i + 1]
  BY <1>1, Reversed
<1>4. Nx!IsSuffix(s, t) <=> m <= n /\ SubSeq(a, 1, m) = SubSeq(b, 1, m)
  BY <1>1, <1>2, <1>3 DEF Nx!IsSuffix, Nx!IsPrefix
<1>5. ASSUME m <= n
      PROVE  SubSeq(a, 1, m) = SubSeq(b, 1, m) <=> \A i \in 1..m : s[i] = t[n - m + i]
  <2>1. \A i \in 1..m : a[i] \in S /\ b[i] \in S
    <3>1. TAKE i \in 1..m
    <3>2. i \in 1..Len(a) /\ i \in 1..Len(b)
      BY <1>2, <1>3, <1>5
    <3> QED
      BY <3>2, ElementOfSeq
  <2>2. /\ SubSeq(a, 1, m) \in Seq(S) /\ Len(SubSeq(a, 1, m)) = m
        /\ \A i \in 1..m : SubSeq(a, 1, m)[i] = a[i]
    <3>1. SubSeq(a, 1, m) = a
      BY <1>2, SubSeqFull
    <3> QED
      BY <1>2, <3>1
  <2>3. /\ SubSeq(b, 1, m) \in Seq(S) /\ Len(SubSeq(b, 1, m)) = IF 1 <= m THEN m - 1 + 1 ELSE 0
        /\ \A i \in 1..m - 1 + 1 : SubSeq(b, 1, m)[i] = b[1 + i - 1]
    <3>1. 1 \in Int /\ m \in Int /\ \A i \in 1..m : b[i] \in S
      BY <2>1
    <3> QED
      BY <3>1, SubSeqProperties
  <2>4. Len(SubSeq(b, 1, m)) = m /\ \A i \in 1..m : SubSeq(b, 1, m)[i] = b[i]
    BY <2>3
  <2>5. SubSeq(a, 1, m) = SubSeq(b, 1, m) <=> \A i \in 1..m : a[i] = b[i]
    <3>1. ASSUME \A i \in 1..m : a[i] = b[i] PROVE SubSeq(a, 1, m) = SubSeq(b, 1, m)
      <4>1. \A i \in 1..Len(SubSeq(a, 1, m)) : SubSeq(a, 1, m)[i] = SubSeq(b, 1, m)[i]
        BY <2>2, <2>4, <3>1
      <4> QED
        BY <2>2, <2>3, <2>4, <4>1, SeqEqual
    <3>2. ASSUME SubSeq(a, 1, m) = SubSeq(b, 1, m) PROVE \A i \in 1..m : a[i] = b[i]
      BY <2>2, <2>4, <3>2
    <3> QED
      BY <3>1, <3>2
  <2>6. ASSUME \A i \in 1..m : a[i] = b[i], NEW i \in 1..m PROVE s[i] = t[n - m + i]
    <3>1. PICK k \in 1..m : k = m - i + 1
      OBVIOUS
    <3>2. k \in 1..n /\ m - k + 1 = i /\ n - k + 1 = n - m + i
      BY <1>5, <3>1
    <3>3. a[k] = s[i]
      BY <1>2, <3>2
    <3>4. b[k] = t[n - m + i]
      BY <1>3, <3>2
    <3> QED
      BY <2>6, <3>3, <3>4
  <2>7. ASSUME \A i \in 1..m : s[i] = t[n - m + i], NEW k \in 1..m PROVE a[k] = b[k]
    <3>1. PICK i \in 1..m : i = m - k + 1
      OBVIOUS
    <3>2. k \in 1..n /\ m - k + 1 = i /\ n - k + 1 = n - m + i
      BY <1>5, <3>1
    <3>3. a[k] = s[i]
      BY <1>2, <3>2
    <3>4. b[k] = t[n - m + i]
      BY <1>3, <3>2
    <3> QED
      BY <2>7, <3>3, <3>4
  <2> QED
    BY <2>5, <2>6, <2>7
<1> QED
  BY <1>1, <1>4, <1>5

\* A pattern ends the first n segments of a path if and only if it is a part that ends there.
LEMMA PartsEnd ==
  ASSUME NEW S, NEW p \in Seq(S), p # <<>>, NEW f \in Seq(S), NEW n \in 0..Len(f)
  PROVE  Nx!IsSuffix(p, SubSeq(f, 1, n)) <=> \E i \in DOMAIN f : SubSeq(f, i, n) = p
<1>1. PICK l \in Nat, m \in Nat : l = Len(f) /\ m = Len(p) /\ m # 0 /\ DOMAIN f = 1..l
  BY LenProperties, EmptySeq
<1>2. n \in Nat /\ n <= l
  BY <1>1
<1>3. \A i \in 1..l : f[i] \in S
  BY <1>1, ElementOfSeq
<1>4. ASSUME NEW i \in 1..l
      PROVE  /\ SubSeq(f, i, n) \in Seq(S) /\ Len(SubSeq(f, i, n)) = IF i <= n THEN n - i + 1 ELSE 0
             /\ \A k \in 1..n - i + 1 : SubSeq(f, i, n)[k] = f[i + k - 1]
  <2>1. i \in Int /\ n \in Int /\ \A k \in i..n : f[k] \in S
    BY <1>2, <1>3
  <2> QED
    BY <2>1, SubSeqProperties
<1>5. PICK g : g = SubSeq(f, 1, n)
  OBVIOUS
<1>6. g \in Seq(S) /\ Len(g) = n /\ \A k \in 1..n : g[k] = f[k]
  <2>1. 1 \in Int /\ n \in Int /\ \A k \in 1..n : f[k] \in S
    BY <1>2, <1>3
  <2>2. /\ SubSeq(f, 1, n) \in Seq(S) /\ Len(SubSeq(f, 1, n)) = IF 1 <= n THEN n - 1 + 1 ELSE 0
        /\ \A k \in 1..n - 1 + 1 : SubSeq(f, 1, n)[k] = f[1 + k - 1]
    BY <2>1, SubSeqProperties
  <2> QED
    BY <1>2, <1>5, <2>2
<1>7. Nx!IsSuffix(p, g) <=> m <= n /\ \A i \in 1..m : p[i] = g[n - m + i]
  BY <1>1, <1>6, Suffixes
<1>8. ASSUME m <= n, \A i \in 1..m : p[i] = g[n - m + i]
      PROVE  \E i \in 1..l : SubSeq(f, i, n) = p
  <2>1. PICK i \in 1..l : i = n - m + 1
    BY <1>1, <1>2, <1>8
  <2>2. Len(SubSeq(f, i, n)) = m /\ SubSeq(f, i, n) \in Seq(S)
    BY <1>1, <1>2, <1>4, <2>1
  <2>3. ASSUME NEW k \in 1..m PROVE SubSeq(f, i, n)[k] = p[k]
    <3>1. k \in 1..n - i + 1 /\ i + k - 1 = n - m + k /\ n - m + k \in 1..n
      BY <1>2, <1>8, <2>1
    <3>2. SubSeq(f, i, n)[k] = f[n - m + k]
      BY <1>4, <3>1
    <3> QED
      BY <1>6, <1>8, <3>1, <3>2
  <2>4. SubSeq(f, i, n) = p
    BY <1>1, <2>2, <2>3, SeqEqual
  <2> QED
    BY <2>4
<1>9. ASSUME NEW i \in 1..l, SubSeq(f, i, n) = p
      PROVE  m <= n /\ \A k \in 1..m : p[k] = g[n - m + k]
  <2>1. i <= n /\ m = n - i + 1
    BY <1>1, <1>2, <1>4, <1>9
  <2>2. ASSUME NEW k \in 1..m PROVE p[k] = g[n - m + k]
    <3>1. k \in 1..n - i + 1 /\ i + k - 1 = n - m + k /\ n - m + k \in 1..n
      BY <1>2, <2>1
    <3>2. p[k] = f[n - m + k]
      BY <1>4, <1>9, <3>1
    <3> QED
      BY <1>6, <3>1, <3>2
  <2> QED
    BY <1>2, <2>1, <2>2
<1> QED
  BY <1>1, <1>5, <1>7, <1>8, <1>9

\* The work of nextflow's server: one scan at most, of paths, with patterns that are not empty.
NextflowWork(w) ==
  /\ DOMAIN w = {"folders", "disk", "exclude", "open", "initialized", "unscanned", "dirty"}
  /\ w.open \subseteq Token /\ \A t, u \in w.open : t = u
  /\ w.disk \subseteq Seq(STRING) /\ \A d \in w.folders : Len(d) \in Nat
  /\ w.exclude \subseteq Seq(STRING) \ {<<>>}

\* The mapping keeps what the server has under way.
NextflowAgrees(a, w) ==
  /\ DOMAIN a = {"state", "folders", "exclude", "initializing", "initialized", "expected", "pending"}
  /\ a.folders = w.folders /\ a.exclude = w.exclude /\ a.initializing = w.open
  /\ a.initialized = w.initialized /\ a.expected = w.unscanned /\ a.pending = w.dirty
  /\ a.state \in ServerStates /\ a.state.health = "unknown"

\* The state follows from what the mapping keeps.
NextflowFits(a, w) ==
  /\ NextflowWork(w)
  /\ NextflowAgrees(a, w)
  /\ a.state.readiness = Nx!ReadinessOf(a)

\* The words of Mapping mean the same in the instance Nextflow of them.
LEMMA NextflowWords ==
  /\ \A a : Nx!Says(a) = Says(a) /\ Nx!Silent(a) = Silent(a)
  /\ \A a, b : Nx!SaysIfMoved(a, b) = SaysIfMoved(a, b)
BY DEF Nx!Says, Says, Nx!Silent, Silent, Nx!SaysIfMoved, SaysIfMoved

\* The mapping of nextflow gives its server one of three states of readiness.
LEMMA NextflowReadiness == ASSUME NEW a PROVE Nx!ReadinessOf(a) \in {"initializing", "indexing", "ready"}
BY DEF Nx!ReadinessOf

\* Before nextflow's server says anything, the mapping that was selected for it fits.
LEMMA NextflowStart ==
  ASSUME NEW disk \in SUBSET File, NEW folders \in NextflowFolders,
         File \subseteq Seq(STRING)
  PROVE  NextflowFits(Nx!Start(folders), Nx!Silence(folders, disk))
<1>1. PICK w : w = Nx!Silence(folders, disk)
  OBVIOUS
<1>2. PICK a : a = Nx!Start(folders)
  OBVIOUS
<1>3. /\ DOMAIN w = {"folders", "disk", "exclude", "open", "initialized", "unscanned", "dirty"}
      /\ w.folders = folders /\ w.disk = disk /\ w.exclude = {} /\ w.open = {} /\ w.initialized = FALSE
      /\ w.unscanned = {} /\ w.dirty = {}
  BY <1>1 DEF Nx!Silence
<1>4. /\ DOMAIN a = {"state", "folders", "exclude", "initializing", "initialized", "expected", "pending"}
      /\ a.folders = folders /\ a.exclude = {} /\ a.initializing = {} /\ a.initialized = FALSE
      /\ a.expected = {} /\ a.pending = {} /\ a.state = Initializing
  BY <1>2 DEF Nx!Start, Nx!Initializing, Initializing
<1>5. ASSUME NEW d \in folders PROVE Len(d) \in Nat
  <2>1. PICK x : d = <<x>>
    BY DEF NextflowFolders
  <2> QED
    BY <2>1
<1>6. NextflowWork(w)
  BY <1>3, <1>5 DEF NextflowWork
<1>9. a.state \in ServerStates /\ a.state.health = "unknown"
  BY <1>4 DEF Initializing, ServerStates, Health, Readiness
<1>7. NextflowAgrees(a, w)
  BY <1>3, <1>4, <1>9 DEF NextflowAgrees
<1>8. a.state.readiness = Nx!ReadinessOf(a)
  BY <1>4 DEF Initializing, Nx!ReadinessOf
<1> QED
  BY <1>1, <1>2, <1>6, <1>7, <1>8 DEF NextflowFits

\* After its bookkeeping the mapping says how ready that makes the server.
LEMMA NextflowMoves ==
  ASSUME NEW a, NEW b, NEW v, NextflowWork(v), NextflowAgrees(b, v), b.state = a.state,
         NEW r, r = Nx!Moved(b)
  PROVE  NextflowFits(r.next, v) /\ ReadsState(a, r)
<1>1. PICK q \in {"initializing", "indexing", "ready"} : q = Nx!ReadinessOf(b)
  BY NextflowReadiness
<1>2. PICK c : c = [b EXCEPT !.state.readiness = q]
  OBVIOUS
<1>3. r = SaysIfMoved(b, c)
  BY <1>1, <1>2, NextflowWords DEF Nx!Moved
<1>4. r.next = c /\ ReadsState(b, r)
  BY <1>3, MovedReads
<1>5. ReadsState(a, r)
  BY <1>4 DEF ReadsState
<1>6. NextflowAgrees(c, v) /\ c.state.readiness = q
  BY <1>2 DEF NextflowAgrees, ServerStates, Readiness
<1>7. /\ c.initializing = b.initializing /\ c.initialized = b.initialized
      /\ c.expected = b.expected /\ c.pending = b.pending
  BY <1>2 DEF NextflowAgrees
<1>8. Nx!ReadinessOf(c) = q
  BY <1>1, <1>7 DEF Nx!ReadinessOf
<1> QED
  BY <1>4, <1>5, <1>6, <1>8 DEF NextflowFits

\* A walk from the folders finds what the server scans.
LEMMA NextflowWalk ==
  ASSUME NEW w, NextflowWork(w)
  PROVE  Nx!WorkspaceScripts(w.folders, w.exclude, w.disk) = Nx!Scanned(w)
<1>1. ASSUME NEW f \in w.disk, NEW d \in w.folders
      PROVE  (\A n \in Len(d)..Len(f) : ~Nx!IsExcluded(SubSeq(f, 1, n), w.exclude))
               <=> ~\E i \in DOMAIN f, j \in Len(d)..Len(f) : SubSeq(f, i, j) \in w.exclude
  <2>1. f \in Seq(STRING) /\ Len(f) \in Nat /\ Len(d) \in Nat
    BY LenProperties DEF NextflowWork
  <2>2. ASSUME NEW n \in Len(d)..Len(f)
        PROVE  Nx!IsExcluded(SubSeq(f, 1, n), w.exclude) <=> \E i \in DOMAIN f : SubSeq(f, i, n) \in w.exclude
    <3>1. n \in 0..Len(f)
      BY <2>1
    <3>2. \A p \in w.exclude : Nx!IsSuffix(p, SubSeq(f, 1, n)) <=> \E i \in DOMAIN f : SubSeq(f, i, n) = p
      BY <2>1, <3>1, PartsEnd DEF NextflowWork
    <3> QED
      BY <3>2 DEF Nx!IsExcluded
  <2> QED
    BY <2>2
<1>2. ASSUME NEW d \in w.folders
      PROVE  Nx!Visit(d, w.exclude, w.disk) =
               {f \in w.disk : Nx!IsPrefix(d, f)
                                 /\ ~\E i \in DOMAIN f, j \in Len(d)..Len(f) : SubSeq(f, i, j) \in w.exclude}
  BY <1>1 DEF Nx!Visit
<1>3. ASSUME NEW f
      PROVE  f \in Nx!WorkspaceScripts(w.folders, w.exclude, w.disk) <=> f \in Nx!Scanned(w)
  <2>1. f \in Nx!WorkspaceScripts(w.folders, w.exclude, w.disk)
          <=> \E d \in w.folders : f \in Nx!Visit(d, w.exclude, w.disk)
    BY DEF Nx!WorkspaceScripts
  <2>2. f \in Nx!Scanned(w) <=>
          f \in w.disk /\ \E d \in w.folders :
            /\ Nx!IsPrefix(d, f)
            /\ ~\E i \in DOMAIN f, j \in Len(d)..Len(f) : SubSeq(f, i, j) \in w.exclude
    BY DEF Nx!Scanned
  <2> QED
    BY <1>2, <2>1, <2>2
<1> QED
  BY <1>3

\* The mapping of nextflow reads the beginning of the initialization.
LEMMA NextflowBegins ==
  ASSUME NEW a, NEW w, NextflowFits(a, w), NEW u \in Nx!Begun(w), NEW r, r = Nx!Interpret(a, u.says)
  PROVE  NextflowFits(r.next, u.work) /\ ReadsState(a, r)
<1>1. PICK t \in Token \ w.open, title \in Nx!Titles(w) :
        u = [says |-> [is |-> "begin", token |-> t, title |-> title],
             work |-> IF title = "initializing" THEN [w EXCEPT !.open = {t}] ELSE w]
  BY DEF Nx!Begun
<1>2. /\ u.says.is = "begin" /\ u.says.token = t /\ u.says.title = title
      /\ u.work = IF title = "initializing" THEN [w EXCEPT !.open = {t}] ELSE w
  BY <1>1
<1>3. title = "initializing" => w.open = {}
  BY DEF Nx!Titles
<1>4. r = IF title = "initializing" THEN Nx!Moved([a EXCEPT !.initializing = {t}]) ELSE Silent(a)
  BY <1>2, NextflowWords DEF Nx!Interpret, Nx!OnProgress
<1>5. CASE title = "initializing"
  <2>1. PICK b : b = [a EXCEPT !.initializing = {t}]
    OBVIOUS
  <2>2. PICK v : v = [w EXCEPT !.open = {t}]
    OBVIOUS
  <2>3. NextflowWork(v)
    BY <2>2 DEF NextflowFits, NextflowWork
  <2>4. NextflowAgrees(b, v) /\ b.state = a.state
    BY <2>1, <2>2 DEF NextflowFits, NextflowWork, NextflowAgrees
  <2>5. r = Nx!Moved(b) /\ u.work = v
    BY <1>2, <1>4, <1>5, <2>1, <2>2
  <2> QED
    BY <2>3, <2>4, <2>5, NextflowMoves
<1>6. CASE title # "initializing"
  BY <1>2, <1>4, <1>6, SilentReads
<1> QED
  BY <1>5, <1>6

\* The mapping of nextflow reads the end of the initialization, and scans the folders.
LEMMA NextflowEnds ==
  ASSUME NEW a, NEW w, NextflowFits(a, w), NEW u \in Nx!Finished(w), NEW r, r = Nx!Interpret(a, u.says)
  PROVE  NextflowFits(r.next, u.work) /\ ReadsState(a, r)
<1>1. PICK t \in Token :
        u = IF t \in w.open
              THEN [says |-> [is |-> "end", token |-> t, disk |-> w.disk],
                    work |-> [w EXCEPT !.open = {}, !.initialized = TRUE, !.unscanned = Nx!Scanned(w)]]
              ELSE [says |-> [is |-> "end", token |-> t, disk |-> w.disk], work |-> w]
  BY DEF Nx!Finished
<1>2. PICK m : m = u.says
  OBVIOUS
<1>3. m.is = "end" /\ m.token = t /\ m.disk = w.disk
  BY <1>1, <1>2
<1>4. r = IF a.initializing = {t}
            THEN Nx!Moved([a EXCEPT !.initializing = {}, !.initialized = TRUE,
                                    !.expected = Nx!WorkspaceScripts(a.folders, a.exclude, w.disk)])
            ELSE Silent(a)
  BY <1>2, <1>3, NextflowWords DEF Nx!Interpret, Nx!OnProgress
<1>5. a.initializing = w.open /\ a.folders = w.folders /\ a.exclude = w.exclude
      /\ (t \in w.open <=> w.open = {t})
  BY DEF NextflowFits, NextflowWork, NextflowAgrees
<1>6. CASE t \in w.open
  <2>1. PICK scan : scan = Nx!Scanned(w) /\ scan = Nx!WorkspaceScripts(w.folders, w.exclude, w.disk)
    BY NextflowWalk DEF NextflowFits
  <2>2. PICK b : b = [a EXCEPT !.initializing = {}, !.initialized = TRUE, !.expected = scan]
    OBVIOUS
  <2>3. PICK v : v = [w EXCEPT !.open = {}, !.initialized = TRUE, !.unscanned = scan]
    OBVIOUS
  <2>4. NextflowWork(v)
    BY <2>3 DEF NextflowFits, NextflowWork
  <2>5. NextflowAgrees(b, v) /\ b.state = a.state
    BY <2>2, <2>3 DEF NextflowFits, NextflowWork, NextflowAgrees
  <2>6. r = Nx!Moved(b) /\ u.work = v
    BY <1>1, <1>4, <1>5, <1>6, <2>1, <2>2, <2>3
  <2> QED
    BY <2>4, <2>5, <2>6, NextflowMoves
<1>7. CASE t \notin w.open
  <2>1. r = Silent(a) /\ u.work = w
    BY <1>1, <1>4, <1>5, <1>7
  <2> QED
    BY <2>1, SilentReads
<1> QED
  BY <1>6, <1>7

\* What the diagnostics of files or their deletion takes off both lists.
LEMMA NextflowDiagnosed ==
  ASSUME NEW a, NEW w, NextflowFits(a, w), NEW files, NEW disk \in SUBSET w.disk,
         NEW v, v = [w EXCEPT !.disk = disk, !.unscanned = @ \ files, !.dirty = @ \ files],
         NEW r, r = Nx!Moved(Nx!Diagnosed(a, files))
  PROVE  NextflowFits(r.next, v) /\ ReadsState(a, r)
<1>1. PICK b : b = [a EXCEPT !.expected = @ \ files, !.pending = @ \ files]
  OBVIOUS
<1>2. r = Nx!Moved(b)
  BY <1>1 DEF Nx!Diagnosed
<1>3. NextflowWork(v)
  BY DEF NextflowFits, NextflowWork
<1>4. NextflowAgrees(b, v) /\ b.state = a.state
  BY <1>1 DEF NextflowFits, NextflowWork, NextflowAgrees
<1> QED
  BY <1>2, <1>3, <1>4, NextflowMoves

\* The mapping of nextflow reads the diagnostics of a file.
LEMMA NextflowParses ==
  ASSUME NEW a, NEW w, NextflowFits(a, w), NEW u \in Nx!Parsed(w), NEW r, r = Nx!Interpret(a, u.says)
  PROVE  NextflowFits(r.next, u.work) /\ ReadsState(a, r)
<1>1. PICK f : u = [says |-> [is |-> "diagnostics", file |-> f],
                    work |-> IF w.open # {} THEN w ELSE [w EXCEPT !.unscanned = @ \ {f}, !.dirty = @ \ {f}]]
  BY DEF Nx!Parsed
<1>2. u.says.is = "diagnostics" /\ u.says.file = f /\ a.initializing = w.open
  BY <1>1 DEF NextflowFits, NextflowAgrees
<1>3. r = IF w.open # {} THEN Silent(a) ELSE Nx!Moved(Nx!Diagnosed(a, {f}))
  BY <1>2, NextflowWords DEF Nx!Interpret, Nx!OnDiagnostics
<1>4. CASE w.open # {}
  BY <1>1, <1>3, <1>4, SilentReads
<1>5. CASE w.open = {}
  <2>1. u.work = [w EXCEPT !.disk = w.disk, !.unscanned = @ \ {f}, !.dirty = @ \ {f}]
    BY <1>1, <1>5 DEF NextflowFits, NextflowWork
  <2> QED
    BY <1>3, <1>5, <2>1, NextflowDiagnosed
<1> QED
  BY <1>4, <1>5

\* Whatever nextflow's server says next, the mapping that reads it fits the work that follows.
LEMMA NextflowSpeech ==
  ASSUME NEW a, NEW w, NextflowFits(a, w), NEW u \in Nx!Speech(w), NEW r, r = Nx!Interpret(a, u.says)
  PROVE  NextflowFits(r.next, u.work) /\ ReadsState(a, r)
<1>1. Nx!Speech(w) = (Nx!Begun(w) \cup Nx!Finished(w)) \cup Nx!Parsed(w)
  BY DEF Nx!Speech
<1> QED
  BY <1>1, NextflowBegins, NextflowEnds, NextflowParses

\* A mapping that fits says neither more nor less than what is true of nextflow's server.
LEMMA NextflowSound ==
  ASSUME NEW a, NEW w, NextflowFits(a, w)
  PROVE  Sound(a.state, Nx!Complete(w), FALSE, {"unknown"})
BY DEF NextflowFits, NextflowAgrees, Sound, Nx!Complete, Nx!ReadinessOf

\* A part of a path is a path.
LEMMA PartsOfPaths ==
  ASSUME NEW S, NEW f \in Seq(S), NEW p \in Nx!SubSeqs(f)
  PROVE  p \in Seq(S)
<1>1. PICK l \in Nat : l = Len(f)
  BY LenProperties
<1>2. PICK i \in 0..l, j \in 0..l : p = SubSeq(f, i + 1, j)
  BY <1>1 DEF Nx!SubSeqs
<1>3. PICK m \in Int : m = i + 1
  BY <1>1, <1>2
<1>4. ASSUME NEW k \in m..j PROVE f[k] \in S
  <2>1. k \in 1..Len(f)
    BY <1>1, <1>2, <1>3
  <2> QED
    BY <2>1, ElementOfSeq
<1>5. j \in Int
  BY <1>2
<1> QED
  BY <1>2, <1>3, <1>4, <1>5, SubSeqProperties

\* The patterns are paths that are not empty.
LEMMA NextflowPatterns ==
  ASSUME File \subseteq Seq(STRING)
  PROVE  Nx!Patterns \subseteq Seq(STRING) \ {<<>>}
<1>1. ASSUME NEW p \in Nx!Patterns PROVE p \in Seq(STRING) /\ p # <<>>
  <2>1. PICK f \in File : p # <<>> /\ p \in Nx!SubSeqs(f)
    BY DEF Nx!Patterns
  <2> QED
    BY <2>1, PartsOfPaths
<1> QED
  BY <1>1

\* The mapping of nextflow reads the configuration.
LEMMA NextflowConfigured ==
  ASSUME NEW a, NEW w, NextflowFits(a, w), File \subseteq Seq(STRING),
         NEW u \in Nx!Configured(w), NEW r, r = Nx!ObserveClient(a, u.says)
  PROVE  NextflowFits(r.next, u.work) /\ ReadsState(a, r)
<1>1. CASE u = [says |-> [is |-> "configuration", carries |-> FALSE], work |-> w]
  <2>1. u.work = w /\ u.says.is = "configuration" /\ u.says.carries = FALSE
    BY <1>1
  <2>2. r = Silent(a)
    BY <2>1, NextflowWords DEF Nx!ObserveClient
  <2> QED
    BY <2>1, <2>2, SilentReads
<1>2. ASSUME NEW e \in {{}} \cup {{p} : p \in Nx!Patterns},
             u = Nx!Notes(w, [is |-> "configuration", carries |-> TRUE, exclude |-> e], "exclude", e)
      PROVE  NextflowFits(r.next, u.work) /\ ReadsState(a, r)
  <2>1. /\ u.work = [w EXCEPT !.exclude = e]
        /\ u.says.is = "configuration" /\ u.says.carries = TRUE /\ u.says.exclude = e
    BY <1>2 DEF Nx!Notes
  <2>2. PICK b : b = [a EXCEPT !.exclude = e]
    OBVIOUS
  <2>3. PICK v : v = [w EXCEPT !.exclude = e]
    OBVIOUS
  <2>4. r = Silent(b)
    BY <2>1, <2>2, NextflowWords DEF Nx!ObserveClient
  <2>5. e \subseteq Seq(STRING) \ {<<>>}
    BY NextflowPatterns
  <2>6. NextflowWork(v)
    BY <2>3, <2>5 DEF NextflowFits, NextflowWork
  <2>7. NextflowAgrees(b, v) /\ b.state = a.state
    BY <2>2, <2>3 DEF NextflowFits, NextflowWork, NextflowAgrees
  <2>8. Nx!ReadinessOf(b) = Nx!ReadinessOf(a)
    <3>1. /\ b.initializing = a.initializing /\ b.initialized = a.initialized
          /\ b.expected = a.expected /\ b.pending = a.pending
      BY <2>2 DEF NextflowFits, NextflowAgrees
    <3> QED
      BY <3>1 DEF Nx!ReadinessOf
  <2>9. NextflowFits(b, v)
    BY <2>6, <2>7, <2>8 DEF NextflowFits
  <2> QED
    BY <2>1, <2>3, <2>4, <2>7, <2>9, SilentReads
<1> QED
  BY <1>1, <1>2 DEF Nx!Configured

\* The mapping of nextflow reads that a document has changed.
LEMMA NextflowAnnounced ==
  ASSUME NEW a, NEW w, NextflowFits(a, w), NEW u \in Nx!Announced(w), NEW r, r = Nx!ObserveClient(a, u.says)
  PROVE  NextflowFits(r.next, u.work) /\ ReadsState(a, r)
<1>1. PICK f \in File \cup Stray :
        u = Nx!Notes(w, [is |-> "document", file |-> f], "dirty", w.dirty \cup ({f} \cap Nx!Served(w)))
  BY DEF Nx!Announced
<1>2. /\ u.work = [w EXCEPT !.dirty = w.dirty \cup ({f} \cap Nx!Served(w))]
      /\ u.says.is = "document" /\ u.says.file = f
  BY <1>1 DEF Nx!Notes
<1>3. Nx!UnderAFolder(a, f) <=> f \in Nx!Served(w)
  BY DEF Nx!UnderAFolder, Nx!Served, NextflowFits, NextflowAgrees
<1>4. r = IF f \in Nx!Served(w) THEN Nx!Moved([a EXCEPT !.pending = @ \cup {f}]) ELSE Silent(a)
  BY <1>2, <1>3, NextflowWords DEF Nx!ObserveClient
<1>5. CASE f \in Nx!Served(w)
  <2>1. PICK b : b = [a EXCEPT !.pending = @ \cup {f}]
    OBVIOUS
  <2>2. PICK v : v = [w EXCEPT !.dirty = w.dirty \cup {f}]
    OBVIOUS
  <2>3. NextflowWork(v)
    BY <2>2 DEF NextflowFits, NextflowWork
  <2>4. NextflowAgrees(b, v) /\ b.state = a.state
    BY <2>1, <2>2 DEF NextflowFits, NextflowWork, NextflowAgrees
  <2>5. w.dirty \cup ({f} \cap Nx!Served(w)) = w.dirty \cup {f}
    BY <1>5
  <2>6. r = Nx!Moved(b) /\ u.work = v
    BY <1>2, <1>4, <1>5, <2>1, <2>2, <2>5
  <2> QED
    BY <2>3, <2>4, <2>6, NextflowMoves
<1>6. CASE f \notin Nx!Served(w)
  <2>1. w.dirty \cup ({f} \cap Nx!Served(w)) = w.dirty
    BY <1>6
  <2>2. PICK v : v = [w EXCEPT !.dirty = w.dirty]
    OBVIOUS
  <2>3. NextflowWork(v)
    BY <2>2 DEF NextflowFits, NextflowWork
  <2>4. NextflowAgrees(a, v)
    BY <2>2 DEF NextflowFits, NextflowWork, NextflowAgrees
  <2>5. u.work = v /\ NextflowFits(a, v)
    BY <1>2, <2>1, <2>2, <2>3, <2>4 DEF NextflowFits
  <2> QED
    BY <1>4, <1>6, <2>5, SilentReads
<1> QED
  BY <1>5, <1>6

\* The mapping of nextflow reads that files have changed.
LEMMA NextflowWatched ==
  ASSUME NEW a, NEW w, NextflowFits(a, w), NEW u \in Nx!Watched(w), NEW r, r = Nx!ObserveClient(a, u.says)
  PROVE  NextflowFits(r.next, u.work) /\ ReadsState(a, r)
<1>1. PICK d \in SUBSET File, t \in 1..3 : u = Nx!Changed(w, d, t)
  BY DEF Nx!Watched
<1>2. PICK changes : changes = {[file |-> f, type |-> t] : f \in d}
  OBVIOUS
<1>3. PICK m : m = u.says
  OBVIOUS
<1>4. /\ m.is = "watchedFiles" /\ m.changes = changes
      /\ u.work = IF t # 3 THEN w ELSE [w EXCEPT !.disk = @ \ d, !.unscanned = @ \ d, !.dirty = @ \ d]
  BY <1>1, <1>2, <1>3 DEF Nx!Changed
<1>5. PICK files : files = {c.file : c \in {x \in changes : x.type = 3}}
  OBVIOUS
<1>6. r = Nx!Moved(Nx!Diagnosed(a, files))
  BY <1>3, <1>4, <1>5 DEF Nx!ObserveClient
<1>7. \A x \in changes : x.type = t /\ x.file \in d
  BY <1>2
<1>8. CASE t = 3
  <2>1. PICK disk \in SUBSET w.disk : disk = w.disk \ d
    OBVIOUS
  <2>2. u.work = [w EXCEPT !.disk = disk, !.unscanned = @ \ d, !.dirty = @ \ d]
    BY <1>4, <1>8, <2>1 DEF NextflowFits, NextflowWork
  <2>3. files \subseteq d
    BY <1>5, <1>7
  <2>4. ASSUME NEW f \in d PROVE f \in files
    <3>1. PICK x : x = [file |-> f, type |-> t]
      OBVIOUS
    <3>2. x \in changes
      BY <1>2, <3>1
    <3>3. x.type = 3 /\ x.file = f
      BY <1>8, <3>1
    <3> QED
      BY <1>5, <3>2, <3>3
  <2>5. files = d
    BY <2>3, <2>4
  <2> QED
    BY <1>6, <2>2, <2>5, NextflowDiagnosed
<1>9. CASE t # 3
  <2>1. files = {}
    BY <1>5, <1>7, <1>9
  <2>2. PICK b : b = [a EXCEPT !.expected = @ \ files, !.pending = @ \ files]
    OBVIOUS
  <2>3. NextflowAgrees(b, w) /\ b.state = a.state /\ NextflowWork(w)
    BY <2>1, <2>2 DEF NextflowFits, NextflowAgrees
  <2>4. r = Nx!Moved(b) /\ u.work = w
    BY <1>4, <1>6, <1>9, <2>2 DEF Nx!Diagnosed
  <2> QED
    BY <2>3, <2>4, NextflowMoves
<1> QED
  BY <1>8, <1>9

\* Whatever the client of nextflow's server announces, the mapping fits the work that follows.
LEMMA NextflowClient ==
  ASSUME NEW a, NEW w, NextflowFits(a, w), File \subseteq Seq(STRING),
         NEW u \in Nx!ClientSpeech(w), NEW r, r = Nx!ObserveClient(a, u.says)
  PROVE  NextflowFits(r.next, u.work) /\ ReadsState(a, r)
<1>1. Nx!ClientSpeech(w) = (Nx!Configured(w) \cup Nx!Announced(w)) \cup Nx!Watched(w)
  BY DEF Nx!ClientSpeech
<1> QED
  BY <1>1, NextflowConfigured, NextflowAnnounced, NextflowWatched

--------------------------------------------------------------------------------
(* The inductive invariant: the mapping of the server that is there knows what the *)
(* server has under way as far as its state depends on it, and that state is the   *)
(* one on the boundary.                                                            *)
MappingFits ==
  /\ server = "clangd" => ClangdFits(mapping, work)
  /\ server = "crystalline" => CrystallineFits(mapping, work)
  /\ server = "dart" => DartFits(mapping, work)
  /\ server = "expert" => ExpertFits(mapping, work)
  /\ server = "gleam" => GleamFits(mapping, work)
  /\ server = "gopls" => GoplsFits(mapping, work)
  /\ server = "hls" => HlsFits(mapping, work)
  /\ server = "haxe" => HaxeFits(mapping, work)
  /\ server = "jdtls" => JdtlsFits(mapping, work)
  /\ server = "metals" => MetalsFits(mapping, work)
  /\ server = "nextflow" => NextflowFits(mapping, work)
  /\ server = "nil" => NilFits(mapping, work)
  /\ server = "nixd" => NixdFits(mapping, work)
  /\ server = "pyright" => PyrightFits(mapping, work)
  /\ server = "rust-analyzer" => RustFits(mapping, tracked, work)
  /\ server = "sorbet" => SorbetFits(mapping, work)
  /\ server = "typescript" => TsFits(mapping, work)

\* The inductive invariant of the mappings.
Inv ==
  /\ server \in Servers
  /\ server # "rust-analyzer" => mapping.state = tracked
  /\ MappingFits

\* What the mapping reads of what the server or the client says becomes the boundary's.
LEMMA Adopted ==
  ASSUME Inv, server # "rust-analyzer", NEW r, ReadsState(mapping, r), Apply(r)
  PROVE  /\ mapping' = r.next /\ mapping'.state = tracked'
         /\ server' = server /\ server' \in Servers
<1>1. mapping' = r.next /\ server' = server /\ server \in Servers /\ mapping.state = tracked
  BY DEF Apply, Inv
<1>2. CASE r.read = {} /\ r.next.state = mapping.state
  BY <1>1, <1>2 DEF Apply
<1>3. CASE r.read = {r.next.state}
  <2>1. (CHOOSE s \in r.read : TRUE) = r.next.state
    BY <1>3
  <2> QED
    BY <1>1, <1>3, <2>1 DEF Apply
<1> QED
  BY <1>1, <1>2, <1>3 DEF ReadsState

\* The same for rust-analyzer, whose state is the tracker's alone.
LEMMA AdoptedOfRust ==
  ASSUME Inv, server = "rust-analyzer", NEW r, NEW v, ReadsRust(r.next, tracked, v, r), Apply(r), work' = v
  PROVE  Inv'
<1>1. mapping' = r.next /\ server' = server /\ server \in Servers
  BY DEF Apply, Inv
<1>2. RustFits(r.next, tracked', v)
  <2>1. CASE r.read = {} /\ RustFits(r.next, tracked, v)
    BY <2>1 DEF Apply
  <2>2. ASSUME NEW t \in ServerStates, r.read = {t}, RustFits(r.next, t, v) PROVE RustFits(r.next, tracked', v)
    <3>1. (CHOOSE s \in r.read : TRUE) = t
      BY <2>2
    <3> QED
      BY <2>2, <3>1 DEF Apply
  <2> QED
    BY <2>1, <2>2 DEF ReadsRust
<1> QED
  BY <1>1, <1>2 DEF Inv, MappingFits

\* Whatever the server says, the mapping keeps up with it.
LEMMA ServerKeepsInv ==
  ASSUME Inv, ServerSpeaks
  PROVE  Inv'
<1>1. ASSUME ClangdSpeaks PROVE Inv'
  <2>1. PICK u \in Cd!Speech(work) : Apply(Cd!Interpret(mapping, u.says)) /\ work' = u.work
    BY <1>1 DEF ClangdSpeaks
  <2>2. PICK r : r = Cd!Interpret(mapping, u.says)
    OBVIOUS
  <2>3. server = "clangd" /\ ClangdFits(mapping, work)
    BY <1>1 DEF ClangdSpeaks, Inv, MappingFits
  <2>4. ClangdFits(r.next, u.work) /\ ReadsState(mapping, r)
    BY <2>2, <2>3, ClangdSpeech
  <2>5. /\ mapping' = r.next /\ mapping'.state = tracked'
        /\ server' = server /\ server' \in Servers
    BY <2>1, <2>2, <2>3, <2>4, Adopted
  <2> QED
    BY <2>1, <2>3, <2>4, <2>5 DEF Inv, MappingFits
<1>2. ASSUME CrystallineSpeaks PROVE Inv'
  <2>1. PICK u \in Cr!Speech(work) : Apply(Cr!Interpret(mapping, u.says)) /\ work' = u.work
    BY <1>2 DEF CrystallineSpeaks
  <2>2. PICK r : r = Cr!Interpret(mapping, u.says)
    OBVIOUS
  <2>3. server = "crystalline" /\ CrystallineFits(mapping, work)
    BY <1>2 DEF CrystallineSpeaks, Inv, MappingFits
  <2>4. CrystallineFits(r.next, u.work) /\ ReadsState(mapping, r)
    BY <2>2, <2>3, CrystallineSpeech
  <2>5. /\ mapping' = r.next /\ mapping'.state = tracked'
        /\ server' = server /\ server' \in Servers
    BY <2>1, <2>2, <2>3, <2>4, Adopted
  <2> QED
    BY <2>1, <2>3, <2>4, <2>5 DEF Inv, MappingFits
<1>3. ASSUME DartSpeaks PROVE Inv'
  <2>1. PICK u \in Da!Speech(work) : Apply(Da!Interpret(mapping, u.says)) /\ work' = u.work
    BY <1>3 DEF DartSpeaks
  <2>2. PICK r : r = Da!Interpret(mapping, u.says)
    OBVIOUS
  <2>3. server = "dart" /\ DartFits(mapping, work)
    BY <1>3 DEF DartSpeaks, Inv, MappingFits
  <2>4. DartFits(r.next, u.work) /\ ReadsState(mapping, r)
    BY <2>2, <2>3, DartSpeech
  <2>5. /\ mapping' = r.next /\ mapping'.state = tracked'
        /\ server' = server /\ server' \in Servers
    BY <2>1, <2>2, <2>3, <2>4, Adopted
  <2> QED
    BY <2>1, <2>3, <2>4, <2>5 DEF Inv, MappingFits
<1>4. ASSUME ExpertSpeaks PROVE Inv'
  <2>1. PICK u \in Ex!Speech(work) : Apply(Ex!Interpret(mapping, u.says)) /\ work' = u.work
    BY <1>4 DEF ExpertSpeaks
  <2>2. PICK r : r = Ex!Interpret(mapping, u.says)
    OBVIOUS
  <2>3. server = "expert" /\ ExpertFits(mapping, work)
    BY <1>4 DEF ExpertSpeaks, Inv, MappingFits
  <2>4. ExpertFits(r.next, u.work) /\ ReadsState(mapping, r)
    BY <2>2, <2>3, ExpertSpeech
  <2>5. /\ mapping' = r.next /\ mapping'.state = tracked'
        /\ server' = server /\ server' \in Servers
    BY <2>1, <2>2, <2>3, <2>4, Adopted
  <2> QED
    BY <2>1, <2>3, <2>4, <2>5 DEF Inv, MappingFits
<1>5. ASSUME GleamSpeaks PROVE Inv'
  <2>1. PICK u \in Gl!Speech(work) : Apply(Gl!Interpret(mapping, u.says)) /\ work' = u.work
    BY <1>5 DEF GleamSpeaks
  <2>2. PICK r : r = Gl!Interpret(mapping, u.says)
    OBVIOUS
  <2>3. server = "gleam" /\ GleamFits(mapping, work)
    BY <1>5 DEF GleamSpeaks, Inv, MappingFits
  <2>4. GleamFits(r.next, u.work) /\ ReadsState(mapping, r)
    BY <2>2, <2>3, GleamSpeech
  <2>5. /\ mapping' = r.next /\ mapping'.state = tracked'
        /\ server' = server /\ server' \in Servers
    BY <2>1, <2>2, <2>3, <2>4, Adopted
  <2> QED
    BY <2>1, <2>3, <2>4, <2>5 DEF Inv, MappingFits
<1>6. ASSUME GoplsSpeaks PROVE Inv'
  <2>1. PICK u \in Go!Speech(work) : Apply(Go!Interpret(mapping, u.says)) /\ work' = u.work
    BY <1>6 DEF GoplsSpeaks
  <2>2. PICK r : r = Go!Interpret(mapping, u.says)
    OBVIOUS
  <2>3. server = "gopls" /\ GoplsFits(mapping, work)
    BY <1>6 DEF GoplsSpeaks, Inv, MappingFits
  <2>4. GoplsFits(r.next, u.work) /\ ReadsState(mapping, r)
    BY <2>2, <2>3, GoplsSpeech
  <2>5. /\ mapping' = r.next /\ mapping'.state = tracked'
        /\ server' = server /\ server' \in Servers
    BY <2>1, <2>2, <2>3, <2>4, Adopted
  <2> QED
    BY <2>1, <2>3, <2>4, <2>5 DEF Inv, MappingFits
<1>7. ASSUME HlsSpeaks PROVE Inv'
  <2>1. PICK u \in Hs!Speech(work) : Apply(Hs!Interpret(mapping, u.says)) /\ work' = u.work
    BY <1>7 DEF HlsSpeaks
  <2>2. PICK r : r = Hs!Interpret(mapping, u.says)
    OBVIOUS
  <2>3. server = "hls" /\ HlsFits(mapping, work)
    BY <1>7 DEF HlsSpeaks, Inv, MappingFits
  <2>4. HlsFits(r.next, u.work) /\ ReadsState(mapping, r)
    BY <2>2, <2>3, HlsSpeech
  <2>5. /\ mapping' = r.next /\ mapping'.state = tracked'
        /\ server' = server /\ server' \in Servers
    BY <2>1, <2>2, <2>3, <2>4, Adopted
  <2> QED
    BY <2>1, <2>3, <2>4, <2>5 DEF Inv, MappingFits
<1>8. ASSUME HaxeSpeaks PROVE Inv'
  <2>1. PICK u \in Hx!Speech(work) : Apply(Hx!Interpret(mapping, u.says)) /\ work' = u.work
    BY <1>8 DEF HaxeSpeaks
  <2>2. PICK r : r = Hx!Interpret(mapping, u.says)
    OBVIOUS
  <2>3. server = "haxe" /\ HaxeFits(mapping, work)
    BY <1>8 DEF HaxeSpeaks, Inv, MappingFits
  <2>4. HaxeFits(r.next, u.work) /\ ReadsState(mapping, r)
    BY <2>2, <2>3, HaxeSpeech
  <2>5. /\ mapping' = r.next /\ mapping'.state = tracked'
        /\ server' = server /\ server' \in Servers
    BY <2>1, <2>2, <2>3, <2>4, Adopted
  <2> QED
    BY <2>1, <2>3, <2>4, <2>5 DEF Inv, MappingFits
<1>9. ASSUME JdtlsSpeaks PROVE Inv'
  <2>1. PICK u \in Jd!Speech(work) : Apply(Jd!Interpret(mapping, u.says)) /\ work' = u.work
    BY <1>9 DEF JdtlsSpeaks
  <2>2. PICK r : r = Jd!Interpret(mapping, u.says)
    OBVIOUS
  <2>3. server = "jdtls" /\ JdtlsFits(mapping, work)
    BY <1>9 DEF JdtlsSpeaks, Inv, MappingFits
  <2>4. JdtlsFits(r.next, u.work) /\ ReadsState(mapping, r)
    BY <2>2, <2>3, JdtlsSpeech
  <2>5. /\ mapping' = r.next /\ mapping'.state = tracked'
        /\ server' = server /\ server' \in Servers
    BY <2>1, <2>2, <2>3, <2>4, Adopted
  <2> QED
    BY <2>1, <2>3, <2>4, <2>5 DEF Inv, MappingFits
<1>10. ASSUME MetalsSpeaks PROVE Inv'
  <2>1. PICK u \in Me!Speech(work) : Apply(Me!Interpret(mapping, u.says)) /\ work' = u.work
    BY <1>10 DEF MetalsSpeaks
  <2>2. PICK r : r = Me!Interpret(mapping, u.says)
    OBVIOUS
  <2>3. server = "metals" /\ MetalsFits(mapping, work)
    BY <1>10 DEF MetalsSpeaks, Inv, MappingFits
  <2>4. MetalsFits(r.next, u.work) /\ ReadsState(mapping, r)
    BY <2>2, <2>3, MetalsSpeech
  <2>5. /\ mapping' = r.next /\ mapping'.state = tracked'
        /\ server' = server /\ server' \in Servers
    BY <2>1, <2>2, <2>3, <2>4, Adopted
  <2> QED
    BY <2>1, <2>3, <2>4, <2>5 DEF Inv, MappingFits
<1>11. ASSUME NextflowSpeaks PROVE Inv'
  <2>1. PICK u \in Nx!Speech(work) : Apply(Nx!Interpret(mapping, u.says)) /\ work' = u.work
    BY <1>11 DEF NextflowSpeaks
  <2>2. PICK r : r = Nx!Interpret(mapping, u.says)
    OBVIOUS
  <2>3. server = "nextflow" /\ NextflowFits(mapping, work)
    BY <1>11 DEF NextflowSpeaks, Inv, MappingFits
  <2>4. NextflowFits(r.next, u.work) /\ ReadsState(mapping, r)
    BY <2>2, <2>3, NextflowSpeech
  <2>5. /\ mapping' = r.next /\ mapping'.state = tracked'
        /\ server' = server /\ server' \in Servers
    BY <2>1, <2>2, <2>3, <2>4, Adopted
  <2> QED
    BY <2>1, <2>3, <2>4, <2>5 DEF Inv, MappingFits
<1>12. ASSUME NilSpeaks PROVE Inv'
  <2>1. PICK u \in Nl!Speech(work) : Apply(Nl!Interpret(mapping, u.says)) /\ work' = u.work
    BY <1>12 DEF NilSpeaks
  <2>2. PICK r : r = Nl!Interpret(mapping, u.says)
    OBVIOUS
  <2>3. server = "nil" /\ NilFits(mapping, work)
    BY <1>12 DEF NilSpeaks, Inv, MappingFits
  <2>4. NilFits(r.next, u.work) /\ ReadsState(mapping, r)
    BY <2>2, <2>3, NilSpeech
  <2>5. /\ mapping' = r.next /\ mapping'.state = tracked'
        /\ server' = server /\ server' \in Servers
    BY <2>1, <2>2, <2>3, <2>4, Adopted
  <2> QED
    BY <2>1, <2>3, <2>4, <2>5 DEF Inv, MappingFits
<1>13. ASSUME NixdSpeaks PROVE Inv'
  <2>1. PICK u \in Nd!Speech(work) : Apply(Nd!Interpret(mapping, u.says)) /\ work' = u.work
    BY <1>13 DEF NixdSpeaks
  <2>2. PICK r : r = Nd!Interpret(mapping, u.says)
    OBVIOUS
  <2>3. server = "nixd" /\ NixdFits(mapping, work)
    BY <1>13 DEF NixdSpeaks, Inv, MappingFits
  <2>4. NixdFits(r.next, u.work) /\ ReadsState(mapping, r)
    BY <2>2, <2>3, NixdSpeech
  <2>5. /\ mapping' = r.next /\ mapping'.state = tracked'
        /\ server' = server /\ server' \in Servers
    BY <2>1, <2>2, <2>3, <2>4, Adopted
  <2> QED
    BY <2>1, <2>3, <2>4, <2>5 DEF Inv, MappingFits
<1>14. ASSUME PyrightSpeaks PROVE Inv'
  <2>1. PICK u \in Py!Speech(work) : Apply(Py!Interpret(mapping, u.says)) /\ work' = u.work
    BY <1>14 DEF PyrightSpeaks
  <2>2. PICK r : r = Py!Interpret(mapping, u.says)
    OBVIOUS
  <2>3. server = "pyright" /\ PyrightFits(mapping, work)
    BY <1>14 DEF PyrightSpeaks, Inv, MappingFits
  <2>4. PyrightFits(r.next, u.work) /\ ReadsState(mapping, r)
    BY <2>2, <2>3, PyrightSpeech
  <2>5. /\ mapping' = r.next /\ mapping'.state = tracked'
        /\ server' = server /\ server' \in Servers
    BY <2>1, <2>2, <2>3, <2>4, Adopted
  <2> QED
    BY <2>1, <2>3, <2>4, <2>5 DEF Inv, MappingFits
<1>15. ASSUME RustAnalyzerSpeaks PROVE Inv'
  <2>1. PICK u \in Ra!Speech(work) : Apply(Ra!Interpret(mapping, u.says)) /\ work' = u.work
    BY <1>15 DEF RustAnalyzerSpeaks
  <2>2. PICK r : r = Ra!Interpret(mapping, u.says)
    OBVIOUS
  <2>3. server = "rust-analyzer" /\ RustFits(mapping, tracked, work)
    BY <1>15 DEF RustAnalyzerSpeaks, Inv, MappingFits
  <2>4. ReadsRust(r.next, tracked, u.work, r)
    BY <2>2, <2>3, RustSpeech
  <2> QED
    BY <2>1, <2>2, <2>3, <2>4, AdoptedOfRust
<1>16. ASSUME SorbetSpeaks PROVE Inv'
  <2>1. PICK u \in So!Speech(work) : Apply(So!Interpret(mapping, u.says)) /\ work' = u.work
    BY <1>16 DEF SorbetSpeaks
  <2>2. PICK r : r = So!Interpret(mapping, u.says)
    OBVIOUS
  <2>3. server = "sorbet" /\ SorbetFits(mapping, work)
    BY <1>16 DEF SorbetSpeaks, Inv, MappingFits
  <2>4. SorbetFits(r.next, u.work) /\ ReadsState(mapping, r)
    BY <2>2, <2>3, SorbetSpeech
  <2>5. /\ mapping' = r.next /\ mapping'.state = tracked'
        /\ server' = server /\ server' \in Servers
    BY <2>1, <2>2, <2>3, <2>4, Adopted
  <2> QED
    BY <2>1, <2>3, <2>4, <2>5 DEF Inv, MappingFits
<1>17. ASSUME TypescriptSpeaks PROVE Inv'
  <2>1. PICK u \in Ts!Speech(work) : Apply(Ts!Interpret(mapping, u.says)) /\ work' = u.work
    BY <1>17 DEF TypescriptSpeaks
  <2>2. PICK r : r = Ts!Interpret(mapping, u.says)
    OBVIOUS
  <2>3. server = "typescript" /\ TsFits(mapping, work)
    BY <1>17 DEF TypescriptSpeaks, Inv, MappingFits
  <2>4. TsFits(r.next, u.work) /\ ReadsState(mapping, r)
    BY <2>2, <2>3, TsSpeech
  <2>5. /\ mapping' = r.next /\ mapping'.state = tracked'
        /\ server' = server /\ server' \in Servers
    BY <2>1, <2>2, <2>3, <2>4, Adopted
  <2> QED
    BY <2>1, <2>3, <2>4, <2>5 DEF Inv, MappingFits
<1> QED
  BY <1>1, <1>2, <1>3, <1>4, <1>5, <1>6, <1>7, <1>8, <1>9, <1>10, <1>11, <1>12, <1>13, <1>14, <1>15, <1>16, <1>17 DEF ServerSpeaks

\* Whatever the client announces, too.
LEMMA ClientKeepsInv ==
  ASSUME Inv, ClientSpeaks
  PROVE  Inv'
<1>1. ASSUME ClientOfClangd PROVE Inv'
  <2>1. PICK u \in Cd!ClientSpeech(work) : Apply(Cd!ObserveClient(mapping, u.says)) /\ work' = u.work
    BY <1>1 DEF ClientOfClangd
  <2>2. PICK r : r = Cd!ObserveClient(mapping, u.says)
    OBVIOUS
  <2>3. server = "clangd" /\ ClangdFits(mapping, work)
    BY <1>1 DEF ClientOfClangd, Inv, MappingFits
  <2>4. ClangdFits(r.next, u.work) /\ ReadsState(mapping, r)
    BY <2>2, <2>3, ClangdClient
  <2>5. /\ mapping' = r.next /\ mapping'.state = tracked'
        /\ server' = server /\ server' \in Servers
    BY <2>1, <2>2, <2>3, <2>4, Adopted
  <2> QED
    BY <2>1, <2>3, <2>4, <2>5 DEF Inv, MappingFits
<1>2. ASSUME ClientOfMetals PROVE Inv'
  <2>1. PICK u \in Me!ClientSpeech(work) : Apply(Me!ObserveClient(mapping, u.says)) /\ work' = u.work
    BY <1>2 DEF ClientOfMetals
  <2>2. PICK r : r = Me!ObserveClient(mapping, u.says)
    OBVIOUS
  <2>3. server = "metals" /\ MetalsFits(mapping, work)
    BY <1>2 DEF ClientOfMetals, Inv, MappingFits
  <2>4. MetalsFits(r.next, u.work) /\ ReadsState(mapping, r)
    BY <2>2, <2>3, MetalsClient
  <2>5. /\ mapping' = r.next /\ mapping'.state = tracked'
        /\ server' = server /\ server' \in Servers
    BY <2>1, <2>2, <2>3, <2>4, Adopted
  <2> QED
    BY <2>1, <2>3, <2>4, <2>5 DEF Inv, MappingFits
<1>3. ASSUME ClientOfNextflow PROVE Inv'
  <2>1. PICK u \in Nx!ClientSpeech(work) : Apply(Nx!ObserveClient(mapping, u.says)) /\ work' = u.work
    BY <1>3 DEF ClientOfNextflow
  <2>2. PICK r : r = Nx!ObserveClient(mapping, u.says)
    OBVIOUS
  <2>3. server = "nextflow" /\ NextflowFits(mapping, work)
    BY <1>3 DEF ClientOfNextflow, Inv, MappingFits
  <2>4. NextflowFits(r.next, u.work) /\ ReadsState(mapping, r)
    BY <2>2, <2>3, NextflowClient, MappingsAssumption DEF MappingsAssumption
  <2>5. /\ mapping' = r.next /\ mapping'.state = tracked'
        /\ server' = server /\ server' \in Servers
    BY <2>1, <2>2, <2>3, <2>4, Adopted
  <2> QED
    BY <2>1, <2>3, <2>4, <2>5 DEF Inv, MappingFits
<1>4. ASSUME ClientOfRustAnalyzer PROVE Inv'
  <2>1. PICK u \in Ra!ClientSpeech(work) : Apply(Ra!ObserveClient(mapping, u.says)) /\ work' = u.work
    BY <1>4 DEF ClientOfRustAnalyzer
  <2>2. PICK r : r = Ra!ObserveClient(mapping, u.says)
    OBVIOUS
  <2>3. server = "rust-analyzer" /\ RustFits(mapping, tracked, work)
    BY <1>4 DEF ClientOfRustAnalyzer, Inv, MappingFits
  <2>4. ReadsRust(r.next, tracked, u.work, r)
    BY <2>2, <2>3, RustClient
  <2> QED
    BY <2>1, <2>2, <2>3, <2>4, AdoptedOfRust
<1>5. ASSUME ClientOfTypescript PROVE Inv'
  <2>1. PICK u \in Ts!ClientSpeech(work) : Apply(Ts!ObserveClient(mapping, u.says)) /\ work' = u.work
    BY <1>5 DEF ClientOfTypescript
  <2>2. PICK r : r = Ts!ObserveClient(mapping, u.says)
    OBVIOUS
  <2>3. server = "typescript" /\ TsFits(mapping, work)
    BY <1>5 DEF ClientOfTypescript, Inv, MappingFits
  <2>4. TsFits(r.next, u.work) /\ ReadsState(mapping, r)
    BY <2>2, <2>3, TsClient
  <2>5. /\ mapping' = r.next /\ mapping'.state = tracked'
        /\ server' = server /\ server' \in Servers
    BY <2>1, <2>2, <2>3, <2>4, Adopted
  <2> QED
    BY <2>1, <2>3, <2>4, <2>5 DEF Inv, MappingFits
<1> QED
  BY <1>1, <1>2, <1>3, <1>4, <1>5 DEF ClientSpeaks

\* Nothing changes when nothing is said.
LEMMA SilenceKeepsInv ==
  ASSUME Inv, UNCHANGED vars
  PROVE  Inv'
BY DEF Inv, MappingFits, vars

\* Before anything is said, nothing is under way.
LEMMA InitFits ==
  ASSUME Init
  PROVE  Inv
<1>1. PICK k \in Starts : /\ k.server \in Servers
                         /\ server = k.server /\ mapping = k.mapping
                         /\ tracked = InitialState(k) /\ work = k.work
  BY DEF Init
<1>2. ASSUME NEW args \in Cd!Launches, NEW files \in Cd!Disks,
             k = Kind("clangd", Cd!Start(args), Cd!Silence(Cd!Told(args), files))
      PROVE  Inv
  <2>1. server = "clangd" /\ server \in Servers /\ mapping = Cd!Start(args) /\ work = Cd!Silence(Cd!Told(args), files)
    BY <1>1, <1>2 DEF Kind
  <2>2. tracked = mapping.state
    BY <1>1, <2>1 DEF InitialState
  <2>3. ClangdFits(mapping, work)
    BY <2>1, ClangdStart
  <2> QED
    BY <2>1, <2>2, <2>3 DEF Inv, MappingFits
<1>3. CASE k = Kind("crystalline", Cr!Start, Cr!Silence)
  <2>1. server = "crystalline" /\ server \in Servers /\ mapping = Cr!Start /\ work = Cr!Silence
    BY <1>1, <1>3 DEF Kind
  <2>2. tracked = mapping.state
    BY <1>1, <2>1 DEF InitialState
  <2>3. CrystallineFits(mapping, work)
    BY <2>1, CrystallineStart
  <2> QED
    BY <2>1, <2>2, <2>3 DEF Inv, MappingFits
<1>4. CASE k = Kind("dart", Da!Start, Da!Silence)
  <2>1. server = "dart" /\ server \in Servers /\ mapping = Da!Start /\ work = Da!Silence
    BY <1>1, <1>4 DEF Kind
  <2>2. tracked = mapping.state
    BY <1>1, <2>1 DEF InitialState
  <2>3. DartFits(mapping, work)
    BY <2>1, DartStart
  <2> QED
    BY <2>1, <2>2, <2>3 DEF Inv, MappingFits
<1>5. CASE k = Kind("expert", Ex!Start, Ex!Silence)
  <2>1. server = "expert" /\ server \in Servers /\ mapping = Ex!Start /\ work = Ex!Silence
    BY <1>1, <1>5 DEF Kind
  <2>2. tracked = mapping.state
    BY <1>1, <2>1 DEF InitialState
  <2>3. ExpertFits(mapping, work)
    BY <2>1, ExpertStart
  <2> QED
    BY <2>1, <2>2, <2>3 DEF Inv, MappingFits
<1>6. CASE k = Kind("gleam", Gl!Start, Gl!Silence)
  <2>1. server = "gleam" /\ server \in Servers /\ mapping = Gl!Start /\ work = Gl!Silence
    BY <1>1, <1>6 DEF Kind
  <2>2. tracked = mapping.state
    BY <1>1, <2>1 DEF InitialState
  <2>3. GleamFits(mapping, work)
    BY <2>1, GleamStart
  <2> QED
    BY <2>1, <2>2, <2>3 DEF Inv, MappingFits
<1>7. CASE k = Kind("gopls", Go!Start, Go!Silence)
  <2>1. server = "gopls" /\ server \in Servers /\ mapping = Go!Start /\ work = Go!Silence
    BY <1>1, <1>7 DEF Kind
  <2>2. tracked = mapping.state
    BY <1>1, <2>1 DEF InitialState
  <2>3. GoplsFits(mapping, work)
    BY <2>1, GoplsStart
  <2> QED
    BY <2>1, <2>2, <2>3 DEF Inv, MappingFits
<1>8. CASE k = Kind("hls", Hs!Start, Hs!Silence)
  <2>1. server = "hls" /\ server \in Servers /\ mapping = Hs!Start /\ work = Hs!Silence
    BY <1>1, <1>8 DEF Kind
  <2>2. tracked = mapping.state
    BY <1>1, <2>1 DEF InitialState
  <2>3. HlsFits(mapping, work)
    BY <2>1, HlsStart
  <2> QED
    BY <2>1, <2>2, <2>3 DEF Inv, MappingFits
<1>9. CASE k = Kind("haxe", Hx!Start, Hx!Silence)
  <2>1. server = "haxe" /\ server \in Servers /\ mapping = Hx!Start /\ work = Hx!Silence
    BY <1>1, <1>9 DEF Kind
  <2>2. tracked = mapping.state
    BY <1>1, <2>1 DEF InitialState
  <2>3. HaxeFits(mapping, work)
    BY <2>1, HaxeStart
  <2> QED
    BY <2>1, <2>2, <2>3 DEF Inv, MappingFits
<1>10. CASE k = Kind("jdtls", Jd!Start, Jd!Silence)
  <2>1. server = "jdtls" /\ server \in Servers /\ mapping = Jd!Start /\ work = Jd!Silence
    BY <1>1, <1>10 DEF Kind
  <2>2. tracked = mapping.state
    BY <1>1, <2>1 DEF InitialState
  <2>3. JdtlsFits(mapping, work)
    BY <2>1, JdtlsStart
  <2> QED
    BY <2>1, <2>2, <2>3 DEF Inv, MappingFits
<1>11. CASE k = Kind("metals", Me!Start, Me!Silence)
  <2>1. server = "metals" /\ server \in Servers /\ mapping = Me!Start /\ work = Me!Silence
    BY <1>1, <1>11 DEF Kind
  <2>2. tracked = mapping.state
    BY <1>1, <2>1 DEF InitialState
  <2>3. MetalsFits(mapping, work)
    BY <2>1, MetalsStart
  <2> QED
    BY <2>1, <2>2, <2>3 DEF Inv, MappingFits
<1>12. ASSUME NEW disk \in SUBSET File, NEW folders \in NextflowFolders,
             k = Kind("nextflow", Nx!Start(folders), Nx!Silence(folders, disk))
      PROVE  Inv
  <2>1. server = "nextflow" /\ server \in Servers /\ mapping = Nx!Start(folders) /\ work = Nx!Silence(folders, disk)
    BY <1>1, <1>12 DEF Kind
  <2>2. tracked = mapping.state
    BY <1>1, <2>1 DEF InitialState
  <2>3. NextflowFits(mapping, work)
    BY <2>1, NextflowStart, MappingsAssumption DEF MappingsAssumption
  <2> QED
    BY <2>1, <2>2, <2>3 DEF Inv, MappingFits
<1>13. ASSUME NEW ws \in Nl!Workspaces,
             k = Kind("nil", Nl!Start(ws.folders), Nl!Silence(ws.loads))
      PROVE  Inv
  <2>1. server = "nil" /\ server \in Servers /\ mapping = Nl!Start(ws.folders) /\ work = Nl!Silence(ws.loads)
    BY <1>1, <1>13 DEF Kind
  <2>2. tracked = mapping.state
    BY <1>1, <2>1 DEF InitialState
  <2>3. NilFits(mapping, work)
    BY <2>1, NilStart
  <2> QED
    BY <2>1, <2>2, <2>3 DEF Inv, MappingFits
<1>14. CASE k = Kind("nixd", Nd!Start, Nd!Silence)
  <2>1. server = "nixd" /\ server \in Servers /\ mapping = Nd!Start /\ work = Nd!Silence
    BY <1>1, <1>14 DEF Kind
  <2>2. tracked = mapping.state
    BY <1>1, <2>1 DEF InitialState
  <2>3. NixdFits(mapping, work)
    BY <2>1, NixdStart
  <2> QED
    BY <2>1, <2>2, <2>3 DEF Inv, MappingFits
<1>15. ASSUME NEW loud \in BOOLEAN,
             k = Kind("pyright", Py!Start, Py!Silence(loud))
      PROVE  Inv
  <2>1. server = "pyright" /\ server \in Servers /\ mapping = Py!Start /\ work = Py!Silence(loud)
    BY <1>1, <1>15 DEF Kind
  <2>2. tracked = mapping.state
    BY <1>1, <2>1 DEF InitialState
  <2>3. PyrightFits(mapping, work)
    BY <2>1, PyrightStart
  <2> QED
    BY <2>1, <2>2, <2>3 DEF Inv, MappingFits
<1>16. CASE k = Kind("rust-analyzer", Ra!Start, Ra!Silence)
  <2>1. server = "rust-analyzer" /\ server \in Servers /\ mapping = Ra!Start /\ work = Ra!Silence
    BY <1>1, <1>16 DEF Kind
  <2>2. tracked = Initializing
    BY <1>1, <2>1 DEF InitialState
  <2>3. RustFits(mapping, tracked, work)
    BY <2>1, <2>2, RustStart
  <2> QED
    BY <2>1, <2>2, <2>3 DEF Inv, MappingFits
<1>17. CASE k = Kind("sorbet", So!Start, So!Silence)
  <2>1. server = "sorbet" /\ server \in Servers /\ mapping = So!Start /\ work = So!Silence
    BY <1>1, <1>17 DEF Kind
  <2>2. tracked = mapping.state
    BY <1>1, <2>1 DEF InitialState
  <2>3. SorbetFits(mapping, work)
    BY <2>1, SorbetStart
  <2> QED
    BY <2>1, <2>2, <2>3 DEF Inv, MappingFits
<1>18. ASSUME NEW tested \in BOOLEAN, NEW complete \in BOOLEAN,
             k = Kind("typescript", Ts!Start(tested, complete), Ts!Silence(tested, complete))
      PROVE  Inv
  <2>1. server = "typescript" /\ server \in Servers /\ mapping = Ts!Start(tested, complete) /\ work = Ts!Silence(tested, complete)
    BY <1>1, <1>18 DEF Kind
  <2>2. tracked = mapping.state
    BY <1>1, <2>1 DEF InitialState
  <2>3. TsFits(mapping, work)
    BY <2>1, TsStart
  <2> QED
    BY <2>1, <2>2, <2>3 DEF Inv, MappingFits
<1>19. k \in ClangdStarts => Inv
  BY <1>2 DEF ClangdStarts
<1>20. k \in NextflowStarts => Inv
  BY <1>12 DEF NextflowStarts
<1>21. k \in NilStarts => Inv
  BY <1>13 DEF NilStarts
<1>22. k \in PyrightStarts => Inv
  BY <1>15 DEF PyrightStarts
<1>23. k \in TypescriptStarts => Inv
  BY <1>18 DEF TypescriptStarts
<1> QED
  BY <1>3, <1>4, <1>5, <1>6, <1>7, <1>8, <1>9, <1>10, <1>11, <1>14, <1>16, <1>17, <1>19, <1>20, <1>21, <1>22, <1>23 DEF Starts

\* What the mapping knows of the server is enough for all that is asked of its state.
LEMMA Judged ==
  ASSUME Inv
  PROVE  /\ TypeOK /\ ReadyIsObserved /\ GivesUpOnlyBlind /\ HealthIsTold /\ NothingKeptBack
         /\ server # "pyright" \/ OneFolder => NotWithheld
<1>1. server \in Servers /\ (server # "rust-analyzer" => mapping.state = tracked)
  BY DEF Inv
<1>2. ASSUME server # "pyright", Sound(tracked, Complete, Blind, Healths), NothingKeptBack
      PROVE  /\ TypeOK /\ ReadyIsObserved /\ GivesUpOnlyBlind /\ HealthIsTold /\ NothingKeptBack
             /\ server # "pyright" \/ OneFolder => NotWithheld
  BY <1>1, <1>2 DEF Sound, TypeOK, ReadyIsObserved, GivesUpOnlyBlind, HealthIsTold, NotWithheld
<1>3. CASE server = "clangd"
  <2>1. Sound(tracked, Cd!Complete(work), Cd!Blind(work), {"unknown"})
    BY <1>1, <1>3, ClangdSound DEF Inv, MappingFits
  <2>2. NothingKeptBack
    BY <1>1, <1>3 DEF NothingKeptBack
  <2>3. (Complete <=> Cd!Complete(work)) /\ (Blind <=> Cd!Blind(work)) /\ Healths = {"unknown"}
    BY <1>3 DEF Complete, Blind, Healths
  <2> QED
    BY <1>2, <1>3, <2>1, <2>2, <2>3 DEF Sound
<1>4. CASE server = "crystalline"
  <2>1. Sound(tracked, Cr!Complete(work), FALSE, {"unknown"})
    BY <1>1, <1>4, CrystallineSound DEF Inv, MappingFits
  <2>2. NothingKeptBack
    BY <1>1, <1>4 DEF NothingKeptBack
  <2>3. (Complete <=> Cr!Complete(work)) /\ (Blind <=> FALSE) /\ Healths = {"unknown"}
    BY <1>4 DEF Complete, Blind, Healths
  <2> QED
    BY <1>2, <1>4, <2>1, <2>2, <2>3 DEF Sound
<1>5. CASE server = "dart"
  <2>1. Sound(tracked, Da!Complete(work), FALSE, {"unknown"})
    BY <1>1, <1>5, DartSound DEF Inv, MappingFits
  <2>2. NothingKeptBack
    BY <1>1, <1>5 DEF NothingKeptBack
  <2>3. (Complete <=> Da!Complete(work)) /\ (Blind <=> FALSE) /\ Healths = {"unknown"}
    BY <1>5 DEF Complete, Blind, Healths
  <2> QED
    BY <1>2, <1>5, <2>1, <2>2, <2>3 DEF Sound
<1>6. CASE server = "expert"
  <2>1. Sound(tracked, Ex!Complete(work), FALSE, {"unknown"})
    BY <1>1, <1>6, ExpertSound DEF Inv, MappingFits
  <2>2. NothingKeptBack
    BY <1>1, <1>6 DEF NothingKeptBack
  <2>3. (Complete <=> Ex!Complete(work)) /\ (Blind <=> FALSE) /\ Healths = {"unknown"}
    BY <1>6 DEF Complete, Blind, Healths
  <2> QED
    BY <1>2, <1>6, <2>1, <2>2, <2>3 DEF Sound
<1>7. CASE server = "gleam"
  <2>1. Sound(tracked, Gl!Complete(work), FALSE, {"unknown"})
    BY <1>1, <1>7, GleamSound DEF Inv, MappingFits
  <2>2. NothingKeptBack
    BY <1>1, <1>7 DEF NothingKeptBack
  <2>3. (Complete <=> Gl!Complete(work)) /\ (Blind <=> FALSE) /\ Healths = {"unknown"}
    BY <1>7 DEF Complete, Blind, Healths
  <2> QED
    BY <1>2, <1>7, <2>1, <2>2, <2>3 DEF Sound
<1>8. CASE server = "gopls"
  <2>1. Sound(tracked, Go!Complete(work), FALSE, Go!Healths(work))
    BY <1>1, <1>8, GoplsSound DEF Inv, MappingFits
  <2>2. NothingKeptBack
    BY <1>1, <1>8 DEF NothingKeptBack
  <2>3. (Complete <=> Go!Complete(work)) /\ (Blind <=> FALSE) /\ Healths = Go!Healths(work)
    BY <1>8 DEF Complete, Blind, Healths
  <2> QED
    BY <1>2, <1>8, <2>1, <2>2, <2>3 DEF Sound
<1>9. CASE server = "hls"
  <2>1. Sound(tracked, Hs!Complete(work), Hs!Blind(work), Hs!Healths(work))
    BY <1>1, <1>9, HlsSound DEF Inv, MappingFits
  <2>2. NothingKeptBack
    BY <1>1, <1>9 DEF NothingKeptBack
  <2>3. (Complete <=> Hs!Complete(work)) /\ (Blind <=> Hs!Blind(work)) /\ Healths = Hs!Healths(work)
    BY <1>9 DEF Complete, Blind, Healths
  <2> QED
    BY <1>2, <1>9, <2>1, <2>2, <2>3 DEF Sound
<1>10. CASE server = "haxe"
  <2>1. Sound(tracked, Hx!Complete(work), FALSE, Hx!Healths(work))
    BY <1>1, <1>10, HaxeSound DEF Inv, MappingFits
  <2>2. NothingKeptBack
    BY <1>1, <1>10 DEF NothingKeptBack
  <2>3. (Complete <=> Hx!Complete(work)) /\ (Blind <=> FALSE) /\ Healths = Hx!Healths(work)
    BY <1>10 DEF Complete, Blind, Healths
  <2> QED
    BY <1>2, <1>10, <2>1, <2>2, <2>3 DEF Sound
<1>11. CASE server = "jdtls"
  <2>1. Sound(tracked, Jd!Complete(work), FALSE, Jd!Healths(work))
    BY <1>1, <1>11, JdtlsSound DEF Inv, MappingFits
  <2>2. NothingKeptBack
    BY <1>1, <1>11 DEF NothingKeptBack
  <2>3. (Complete <=> Jd!Complete(work)) /\ (Blind <=> FALSE) /\ Healths = Jd!Healths(work)
    BY <1>11 DEF Complete, Blind, Healths
  <2> QED
    BY <1>2, <1>11, <2>1, <2>2, <2>3 DEF Sound
<1>12. CASE server = "metals"
  <2>1. Sound(tracked, Me!Complete(work), FALSE, Me!Healths(work))
    BY <1>1, <1>12, MetalsSound DEF Inv, MappingFits
  <2>2. NothingKeptBack
    BY <1>1, <1>12 DEF NothingKeptBack
  <2>3. (Complete <=> Me!Complete(work)) /\ (Blind <=> FALSE) /\ Healths = Me!Healths(work)
    BY <1>12 DEF Complete, Blind, Healths
  <2> QED
    BY <1>2, <1>12, <2>1, <2>2, <2>3 DEF Sound
<1>13. CASE server = "nextflow"
  <2>1. Sound(tracked, Nx!Complete(work), FALSE, {"unknown"})
    BY <1>1, <1>13, NextflowSound DEF Inv, MappingFits
  <2>2. NothingKeptBack
    BY <1>1, <1>13 DEF NothingKeptBack
  <2>3. (Complete <=> Nx!Complete(work)) /\ (Blind <=> FALSE) /\ Healths = {"unknown"}
    BY <1>13 DEF Complete, Blind, Healths
  <2> QED
    BY <1>2, <1>13, <2>1, <2>2, <2>3 DEF Sound
<1>14. CASE server = "nil"
  <2>1. Sound(tracked, Nl!Complete(work), Nl!Blind(work), Nl!Healths(work))
    BY <1>1, <1>14, NilSound DEF Inv, MappingFits
  <2>2. NothingKeptBack
    BY <1>1, <1>14 DEF NothingKeptBack
  <2>3. (Complete <=> Nl!Complete(work)) /\ (Blind <=> Nl!Blind(work)) /\ Healths = Nl!Healths(work)
    BY <1>14 DEF Complete, Blind, Healths
  <2> QED
    BY <1>2, <1>14, <2>1, <2>2, <2>3 DEF Sound
<1>15. CASE server = "nixd"
  <2>1. Sound(tracked, Nd!Complete(work), FALSE, {"unknown"})
    BY <1>1, <1>15, NixdSound DEF Inv, MappingFits
  <2>2. NothingKeptBack
    BY <1>1, <1>15 DEF NothingKeptBack
  <2>3. (Complete <=> Nd!Complete(work)) /\ (Blind <=> FALSE) /\ Healths = {"unknown"}
    BY <1>15 DEF Complete, Blind, Healths
  <2> QED
    BY <1>2, <1>15, <2>1, <2>2, <2>3 DEF Sound
<1>16. CASE server = "pyright"
  <2>1. /\ tracked.health = "unknown" /\ tracked \in ServerStates /\ tracked.readiness # "unknown"
        /\ tracked.readiness = "ready" => Py!Complete(work)
        /\ OneFolder /\ Py!Complete(work) => tracked.readiness = "ready"
    BY <1>1, <1>16, PyrightSound DEF Inv, MappingFits
  <2>2. (Complete <=> Py!Complete(work)) /\ ~Blind /\ Healths = {"unknown"}
    BY <1>16 DEF Complete, Blind, Healths
  <2>3. NothingKeptBack
    BY <1>1, <1>16 DEF NothingKeptBack
  <2> QED
    BY <1>1, <1>16, <2>1, <2>2, <2>3 DEF TypeOK, ReadyIsObserved, GivesUpOnlyBlind, HealthIsTold, NotWithheld
<1>17. CASE server = "rust-analyzer"
  <2>1. Sound(tracked, Ra!Complete(work), FALSE, Ra!Healths(work)) /\ mapping.lastHealth = tracked.health
    BY <1>17, RustSound DEF Inv, MappingFits
  <2>2. NothingKeptBack
    BY <1>17, <2>1 DEF NothingKeptBack
  <2>3. (Complete <=> Ra!Complete(work)) /\ (Blind <=> FALSE) /\ Healths = Ra!Healths(work)
    BY <1>17 DEF Complete, Blind, Healths
  <2> QED
    BY <1>2, <1>17, <2>1, <2>2, <2>3 DEF Sound
<1>18. CASE server = "sorbet"
  <2>1. Sound(tracked, So!Complete(work), FALSE, {"unknown"})
    BY <1>1, <1>18, SorbetSound DEF Inv, MappingFits
  <2>2. NothingKeptBack
    BY <1>1, <1>18 DEF NothingKeptBack
  <2>3. (Complete <=> So!Complete(work)) /\ (Blind <=> FALSE) /\ Healths = {"unknown"}
    BY <1>18 DEF Complete, Blind, Healths
  <2> QED
    BY <1>2, <1>18, <2>1, <2>2, <2>3 DEF Sound
<1>19. CASE server = "typescript"
  <2>1. Sound(tracked, Ts!Complete(work), Ts!Blind(work), Ts!Healths(work))
    BY <1>1, <1>19, TsSound DEF Inv, MappingFits
  <2>2. NothingKeptBack
    BY <1>1, <1>19 DEF NothingKeptBack
  <2>3. (Complete <=> Ts!Complete(work)) /\ (Blind <=> Ts!Blind(work)) /\ Healths = Ts!Healths(work)
    BY <1>19 DEF Complete, Blind, Healths
  <2> QED
    BY <1>2, <1>19, <2>1, <2>2, <2>3 DEF Sound
<1> QED
  BY <1>1, <1>3, <1>4, <1>5, <1>6, <1>7, <1>8, <1>9, <1>10, <1>11, <1>12, <1>13, <1>14, <1>15, <1>16, <1>17, <1>18, <1>19, MappingsAssumption DEF MappingsAssumption

--------------------------------------------------------------------------------
\* Whatever is said in whatever order, the mapping that select chose keeps track of the work of its
\* server (the adapters' interpret and observe_client, Tracker::apply).
THEOREM MappingInvariant == Spec => []Inv
<1>1. Init => Inv
  BY InitFits
<1>2. Inv /\ [Next]_vars => Inv'
  BY ServerKeepsInv, ClientKeepsInv, SilenceKeepsInv DEF Next
<1> QED
  BY <1>1, <1>2, PTL DEF Spec

\* The state on the boundary is one of the vocabulary, for every server.
THEOREM StatesAreTheVocabulary == Spec => []TypeOK
<1>1. Inv => TypeOK
  BY Judged
<1> QED
  BY <1>1, MappingInvariant, PTL

\* No mapping lets the tracker say "ready" while its server has work under way that the mapping could
\* observe: whatever a server says, in whatever order, with any tokens, files, folders and projects.
THEOREM ReadyIsNoLie == Spec => []ReadyIsObserved
<1>1. Inv => ReadyIsObserved
  BY Judged
<1> QED
  BY <1>1, MappingInvariant, PTL

\* No mapping says "unknown" of a server that shows its progress.
THEOREM NotGivenUpEarly == Spec => []GivesUpOnlyBlind
<1>1. Inv => GivesUpOnlyBlind
  BY Judged
<1> QED
  BY <1>1, MappingInvariant, PTL

\* The health on the boundary is one that the server gave cause for.
THEOREM HealthIsNoLie == Spec => []HealthIsTold
<1>1. Inv => HealthIsTold
  BY Judged
<1> QED
  BY <1>1, MappingInvariant, PTL

\* The boundary has the state that the mapping is in: no move of a mapping is kept back.
THEOREM BoundaryIsCurrent == Spec => []NothingKeptBack
<1>1. Inv => NothingKeptBack
  BY Judged
<1> QED
  BY <1>1, MappingInvariant, PTL

\* A server that is done, and shows it, is "ready" or given up: no end is overlooked.  Pyright is
\* the one that needs the hypothesis: its log does not say which folder is searched again.
THEOREM NothingIsWithheld ==
  ASSUME OneFolder
  PROVE  Spec => []NotWithheld
<1>1. Inv => NotWithheld
  BY Judged
<1> QED
  BY <1>1, MappingInvariant, PTL

\* For every other server nothing is withheld, with any number of folders.
THEOREM OnlyPyrightWithholds == Spec => [](server # "pyright" => NotWithheld)
<1>1. Inv => (server # "pyright" => NotWithheld)
  BY Judged
<1> QED
  BY <1>1, MappingInvariant, PTL
================================================================================
