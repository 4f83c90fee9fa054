-------------------------------- MODULE Holding --------------------------------
(***************************************************************************)
(* What holding promises a client, without saying when it waits: a         *)
(* cross-workspace request goes to the server, or waits, or is refused;     *)
(* nothing overtakes a waiting request; the waiting requests leave together *)
(* and in order, or one by one because the client withdrew them; a request  *)
(* meets exactly one fate.                                                  *)
(***************************************************************************)
EXTENDS Sequences, Naturals

CONSTANT Request          \* the ids of the client's cross-workspace requests

VARIABLES
  waiting,                \* the requests that wait, oldest first
  passed,                 \* the requests sent to the server, in that order
  refused                 \* the requests answered with an error

vars == <<waiting, passed, refused>>

In(r, q) == \E i \in DOMAIN q : q[i] = r

New(r) == ~In(r, waiting) /\ ~In(r, passed) /\ r \notin refused

Init ==
  /\ waiting = <<>>
  /\ passed = <<>>
  /\ refused = {}

\* A request is decided on the spot only when nobody waits.
Pass(r) ==
  /\ New(r)
  /\ waiting = <<>>
  /\ passed' = Append(passed, r)
  /\ UNCHANGED <<waiting, refused>>

Refuse(r) ==
  /\ New(r)
  /\ waiting = <<>>
  /\ refused' = refused \cup {r}
  /\ UNCHANGED <<waiting, passed>>

Wait(r) ==
  /\ New(r)
  /\ waiting' = Append(waiting, r)
  /\ UNCHANGED <<passed, refused>>

Withdraw(r) ==
  /\ \E i \in DOMAIN waiting :
       /\ waiting[i] = r
       /\ waiting' = SubSeq(waiting, 1, i - 1) \o SubSeq(waiting, i + 1, Len(waiting))
  /\ refused' = refused \cup {r}
  /\ UNCHANGED passed

PassAll ==
  /\ waiting # <<>>
  /\ passed' = passed \o waiting
  /\ waiting' = <<>>
  /\ UNCHANGED refused

RefuseAll ==
  /\ waiting # <<>>
  /\ refused' = refused \cup {waiting[i] : i \in DOMAIN waiting}
  /\ waiting' = <<>>
  /\ UNCHANGED passed

Next ==
  \/ \E r \in Request : Pass(r) \/ Refuse(r) \/ Wait(r) \/ Withdraw(r)
  \/ PassAll
  \/ RefuseAll

Spec == Init /\ [][Next]_vars
================================================================================
