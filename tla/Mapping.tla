--------------------------------- MODULE Mapping --------------------------------
(***************************************************************************)
(* What the mappings of src/adapter share: the trait Mapping, and a server  *)
(* that reports its work with tokens of $/progress.                         *)
(*                                                                         *)
(* A mapping is a record of the fields of its adapter; "state" is the state *)
(* it would report.  interpret and observe_client become functions from the *)
(* record and a message to the next record and to what is read: a set that  *)
(* is empty (None) or has one state (Some).  Texts shown to people and the  *)
(* guarantees for tested versions are left out.                             *)
(*                                                                         *)
(* Every module of a mapping has, after the mapping, the server that the    *)
(* mapping was written for: "work" is what the server has under way, Speech *)
(* is all it can say next, ClientSpeech all the client can.  Complete is    *)
(* whether the server has everything it needs for complete answers.  Where  *)
(* a mapping reads health, Healths are the healths that would not be a lie; *)
(* where it can lose sight of readiness, Blind is whether nothing is left   *)
(* that would tell if the server is complete.                               *)
(***************************************************************************)
EXTENDS ServerState, Naturals

CONSTANT Token            \* the tokens of $/progress

\* Nothing to read from the message.
Silent(a) == [next |-> a, read |-> {}]

\* The state of the mapping, moved or not.
Says(a) == [next |-> a, read |-> {a.state}]

\* The state of the mapping, if it moved.
SaysIfMoved(before, a) == IF a.state = before.state THEN Silent(a) ELSE Says(a)

--------------------------------------------------------------------------------
(* A server that reports progress.  Its work: the tokens that are open, with  *)
(* what they are for; what has ended so far, and what ended last.  The work   *)
(* on a request of the client counts for nothing.                             *)

NoWork == [open |-> {}, ended |-> {}, last |-> "nothing"]

Open(w, titles) == \E p \in w.open : p[2] \in titles

Ended(w, titles) == w.ended \cap titles # {}

IsOpen(w, token) == \E p \in w.open : p[1] = token

\* What the server says is taken down in field as value.
Notes(w, message, field, value) == [says |-> message, work |-> [w EXCEPT ![field] = value]]

BeginsOf(w, work) ==
  {[says |-> [is |-> "begin", token |-> p[1], title |-> p[2]],
    work |-> [w EXCEPT !.open = @ \cup {p}]]
     : p \in {q \in work : ~IsOpen(w, q[1])}}

Begins(w, titles) == BeginsOf(w, Token \X titles)

EndOf(w, p) ==
  IF p[2] = "request" THEN [w EXCEPT !.open = @ \ {p}]
  ELSE [w EXCEPT !.open = @ \ {p}, !.ended = @ \cup {p[2]}, !.last = p[2]]

Ends(w) == {[says |-> [is |-> "end", token |-> p[1]], work |-> EndOf(w, p)] : p \in w.open}

\* The end of a token whose begin was not seen.
StrayEnds(w) ==
  {[says |-> [is |-> "end", token |-> t], work |-> w] : t \in {u \in Token : ~IsOpen(w, u)}}

\* A server with fixed tokens: the token is what the work is for.
Fixed(names) == {<<n, n>> : n \in names}
================================================================================
