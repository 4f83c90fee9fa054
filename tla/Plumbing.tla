-------------------------------- MODULE Plumbing --------------------------------
(***************************************************************************)
(* The threads and pipes of the proxy (run in proxy.rs): a client and a       *)
(* server that each do one thing at a time, three threads that read, an        *)
(* unbounded channel, and the loop, which writes and blocks when a pipe is     *)
(* full.  What a message says is left out: the loop passes what the client     *)
(* sends to the server, which answers each message with two lines of log and a *)
(* message.                                                                *)
(*                                                                         *)
(* A stream is a sequence of units that one write may bring and the next may  *)
(* not (framing.rs): a header line that gives the length, another header line, *)
(* a line that is none, the empty line, and a body.  How many bytes a unit has *)
(* is left out.                                                              *)
(***************************************************************************)
EXTENDS FiniteSets, SequencesExt

Unit(kind, msg) == [kind |-> kind, msg |-> msg]
Lines == {"length", "other", "malformed", "blank"}
Units == [kind : Lines \cup {"body"}, msg : Nat]

\* What write_message writes: the length is computed anew, other headers are not.
Frame(msg) == <<Unit("length", msg), Unit("blank", msg), Unit("body", msg)>>

\* Where a reader is: before the first line of a message, in its header, in its
\* body, or stuck on one that it cannot read; and whether it knows the length.
Fresh == [at |-> "start", sized |-> FALSE]
Failed == [at |-> "failed", sized |-> FALSE]

\* The reader after one more unit.  A body is taken only where one is due.
AfterUnit(reader, unit) ==
  CASE reader.at = "body" -> Fresh
    [] reader.at # "body" /\ unit.kind = "length" -> [at |-> "header", sized |-> TRUE]
    [] reader.at # "body" /\ unit.kind = "other" -> [reader EXCEPT !.at = "header"]
    [] reader.at # "body" /\ unit.kind = "blank" /\ reader.sized -> [reader EXCEPT !.at = "body"]
    [] OTHER -> Failed

\* The unit completes a message.
Completes(reader, unit) == reader.at = "body" /\ unit.kind = "body"

\* The stream ends between two messages: no error.
EndsClean(reader) == reader.at = "start"

--------------------------------------------------------------------------------
CONSTANTS
  Stream,                 \* what the client writes: a set of sequences of units
  Capacity                \* bound: units a pipe holds

ASSUME PlumbingAssumption ==
  /\ Capacity \in Nat \ {0}
  /\ Stream # {} /\ \A s \in Stream : s \in Seq(Units)

Pipe == {"in", "out", "stdin", "stdout", "stderr"}

VARIABLES
  pipe,                   \* what is in each pipe
  unwritten,              \* pipes whose write end is closed
  unread,                 \* pipes whose read end is closed
  todo,                   \* the client: what it has still to write
  clientReader, received, \*   its reader, and the messages it got
  readers,                \* the reader threads of the client and of the server
  channel,                \* events that wait for the loop
  outbox,                 \* what deliver has still to write: [to, unit]
  phase,                  \* of the loop: running, ending, reaping, stopped
  exited,                 \* the server has exited
  serverReader, got,      \* the server: its reader, and the messages it got
  owed,                   \*   what it has still to write: [to, unit]
  \* history
  sent, said              \* messages the client, the server wrote whole

clientVars == <<todo, clientReader, received, sent>>
proxyVars == <<readers, channel, outbox, phase>>
serverVars == <<exited, serverReader, got, owed, said>>
vars == <<pipe, unwritten, unread, clientVars, proxyVars, serverVars>>

\* What a server answers to a message.
Answer(msg) == 10 + msg
\* What the proxy says to the requests a dead server leaves.
ServerGone == 99

To(there, units) == [i \in DOMAIN units |-> [to |-> there, unit |-> units[i]]]
Init ==
  /\ pipe = [p \in Pipe |-> <<>>]
  /\ unwritten = {} /\ unread = {}
  /\ todo \in Stream
  /\ clientReader = Fresh /\ received = <<>>
  /\ readers = [p \in {"in", "stdout"} |-> Fresh]
  /\ channel = <<>> /\ outbox = <<>> /\ phase = "running"
  /\ exited = FALSE
  /\ serverReader = Fresh /\ got = <<>> /\ owed = <<>>
  /\ sent = <<>> /\ said = <<>>

Room(p) == Len(pipe[p]) < Capacity
Write(p, unit) == pipe' = [pipe EXCEPT ![p] = Append(@, unit)]
Consume(p) == pipe' = [pipe EXCEPT ![p] = Tail(@)]
Ended(p) == pipe[p] = <<>> /\ p \in unwritten
Whole(history, unit) ==
  IF unit.kind = "body" THEN Append(history, unit.msg) ELSE history
\* The messages of a stream.
Bodies(units) ==
  LET whole[n \in 0..Len(units)] == IF n = 0 THEN <<>> ELSE Whole(whole[n - 1], units[n])
  IN whole[Len(units)]

--------------------------------------------------------------------------------
(* The client. *)

ClientWrites ==
  /\ todo # <<>> /\ "in" \notin unwritten /\ Room("in")
  /\ Write("in", Head(todo))
  /\ todo' = Tail(todo)
  /\ sent' = Whole(sent, Head(todo))
  /\ UNCHANGED <<unwritten, unread, clientReader, received, proxyVars, serverVars>>

\* It reads only between two messages of its own.
ClientReads ==
  /\ todo # <<>> => Head(todo).kind \notin {"blank", "body"} \/ "in" \in unwritten
  /\ pipe["out"] # <<>> /\ "out" \notin unread
  /\ Consume("out")
  /\ clientReader' = AfterUnit(clientReader, Head(pipe["out"]))
  /\ received' = IF Completes(clientReader, Head(pipe["out"]))
                 THEN Append(received, Head(pipe["out"]).msg) ELSE received
  /\ UNCHANGED <<unwritten, unread, todo, sent, proxyVars, serverVars>>

\* It hangs up, anywhere in a message; if it dies, it stops reading too.
ClientCloses ==
  /\ "in" \notin unwritten
  /\ unwritten' = unwritten \cup {"in"}
  /\ unread' \in {unread, unread \cup {"out"}}
  /\ UNCHANGED <<pipe, clientVars, proxyVars, serverVars>>

--------------------------------------------------------------------------------
(* The threads that read.  They never wait for the loop. *)

Relaying == phase # "stopped"
Reading(p) == Relaying /\ readers[p].at \in {"start", "header", "body"}
Finish(p) == readers' = [readers EXCEPT ![p] = Failed]

ReaderReads(p, event) ==
  /\ Reading(p) /\ pipe[p] # <<>>
  /\ AfterUnit(readers[p], Head(pipe[p])) # Failed
  /\ Consume(p)
  /\ readers' = [readers EXCEPT ![p] = AfterUnit(@, Head(pipe[p]))]
  /\ channel' = IF Completes(readers[p], Head(pipe[p]))
                THEN Append(channel, <<event, Head(pipe[p]).msg>>) ELSE channel
  /\ UNCHANGED <<unwritten, unread, outbox, phase, clientVars, serverVars>>

\* A stream that ends, or that cannot be read, is told to the loop.
ReaderEnds(p, clean, broken) ==
  /\ Reading(p)
  /\ \/ Ended(p)
     \/ pipe[p] # <<>> /\ AfterUnit(readers[p], Head(pipe[p])) = Failed
  /\ channel' = Append(channel, IF Ended(p) /\ EndsClean(readers[p]) THEN <<clean>> ELSE <<broken>>)
  /\ Finish(p)
  /\ UNCHANGED <<pipe, unwritten, unread, outbox, phase, clientVars, serverVars>>

\* Mutants: an error ends the thread without a word; the end of the server
\* overtakes the messages before it.
ClientReaderSilent ==
  \/ ReaderReads("in", "fromClient")
  \/ /\ ReaderEnds("in", "clientClosed", "clientReadError")
     /\ channel'[Len(channel')] = <<"clientClosed">>
UpstreamReaderHasty ==
  \/ ReaderReads("stdout", "fromUpstream")
  \/ /\ Reading("stdout") /\ Ended("stdout")
     /\ channel' = <<<<"upstreamClosed">>>> \o channel
     /\ Finish("stdout")
     /\ UNCHANGED <<pipe, unwritten, unread, outbox, phase, clientVars, serverVars>>

ClientReader ==
  \/ ReaderReads("in", "fromClient")
  \/ ReaderEnds("in", "clientClosed", "clientReadError")

UpstreamReader ==
  \/ ReaderReads("stdout", "fromUpstream")
  \/ ReaderEnds("stdout", "upstreamClosed", "upstreamClosed")

\* Mutant: nobody reads what the server logs.
StderrRelayNone == FALSE /\ UNCHANGED vars

StderrRelay ==
  /\ Relaying /\ pipe["stderr"] # <<>>
  /\ Consume("stderr")
  /\ UNCHANGED <<unwritten, unread, clientVars, proxyVars, serverVars>>

--------------------------------------------------------------------------------
(* The loop. *)

Idle == phase = "running" /\ outbox = <<>>
Receives(event) == Idle /\ channel # <<>> /\ Head(channel)[1] = event

\* A message of either side goes to the other.
LoopRelays ==
  /\ \/ /\ Receives("fromClient")
        /\ outbox' = To("stdin", Frame(Head(channel)[2]))
     \/ /\ Receives("fromUpstream")
        /\ outbox' = To("out", Frame(Head(channel)[2]))
  /\ channel' = Tail(channel)
  /\ UNCHANGED <<pipe, unwritten, unread, readers, phase, clientVars, serverVars>>

\* Mutant: a write that does not block.
DeliverNonBlocking ==
  /\ Relaying /\ outbox # <<>>
  /\ LET out == Head(outbox) IN
     /\ outbox' = Tail(outbox)
     /\ IF out.to \in unread \/ ~Room(out.to) THEN UNCHANGED pipe ELSE Write(out.to, out.unit)
  /\ UNCHANGED <<unwritten, unread, readers, channel, phase, clientVars, serverVars>>

\* deliver: one unit after the other; a full pipe blocks the whole loop.  Once
\* the other end is closed the write fails, and the rest of the message is dropped.
Deliver ==
  /\ Relaying /\ outbox # <<>>
  /\ LET out == Head(outbox) IN
     IF out.to \in unread
     THEN outbox' = <<>> /\ UNCHANGED pipe
     ELSE /\ Room(out.to)
          /\ Write(out.to, out.unit)
          /\ outbox' = Tail(outbox)
  /\ UNCHANGED <<unwritten, unread, readers, channel, phase, clientVars, serverVars>>

\* The process is over: the operating system closes its ends.
Stop ==
  /\ phase' = "stopped"
  /\ unwritten' = unwritten \cup {"out", "stdin"}
  /\ unread' = unread \cup {"in", "stdout", "stderr"}

\* The client hung up, or is not understood: the server is killed at once.
LoopOnClientEnd ==
  /\ Receives("clientClosed") \/ Receives("clientReadError")
  /\ exited' = TRUE
  /\ Stop
  /\ UNCHANGED <<pipe, clientVars, readers, channel, outbox, serverReader, got, owed, said>>

\* The server closed its stdout: what is unanswered gets an error, and then the
\* server is reaped.
LoopOnUpstreamEnd ==
  /\ Receives("upstreamClosed")
  /\ channel' = Tail(channel)
  /\ outbox' = To("out", Frame(ServerGone))
  /\ phase' = "reaping"
  /\ UNCHANGED <<pipe, unwritten, unread, readers, clientVars, serverVars>>

\* reap gives the server a second to exit, and kills it then.
Reap ==
  /\ phase = "reaping" /\ outbox = <<>>
  /\ exited' = TRUE
  /\ Stop
  /\ UNCHANGED <<pipe, clientVars, readers, channel, outbox, serverReader, got, owed, said>>

\* Nothing came for a while, and the server turns out to have exited.
LoopPolls ==
  /\ Idle /\ channel = <<>> /\ exited
  /\ outbox' = To("out", Frame(ServerGone))
  /\ phase' = "ending"
  /\ UNCHANGED <<pipe, unwritten, unread, readers, channel, clientVars, serverVars>>

LoopEnds ==
  /\ phase = "ending" /\ outbox = <<>>
  /\ Stop
  /\ UNCHANGED <<pipe, clientVars, readers, channel, outbox, serverVars>>

Loop == LoopRelays \/ Deliver \/ LoopOnClientEnd \/ LoopOnUpstreamEnd \/ Reap \/ LoopPolls \/ LoopEnds

--------------------------------------------------------------------------------
(* The server. *)

\* It reads only when it owes nothing.
ServerReads ==
  /\ ~exited /\ owed = <<>> /\ pipe["stdin"] # <<>>
  /\ Consume("stdin")
  /\ LET unit == Head(pipe["stdin"]) IN
     /\ serverReader' = AfterUnit(serverReader, unit)
     /\ IF Completes(serverReader, unit)
        THEN /\ got' = Append(got, unit.msg)
             /\ owed' = To("stderr", <<unit, unit>>) \o To("stdout", Frame(Answer(unit.msg)))
        ELSE UNCHANGED <<got, owed>>
  /\ UNCHANGED <<unwritten, unread, clientVars, proxyVars, exited, said>>

ServerWrites ==
  /\ ~exited /\ owed # <<>>
  /\ owed' = Tail(owed)
  /\ LET out == Head(owed) IN
     IF out.to \in unwritten
     THEN UNCHANGED <<pipe, said>>
     ELSE /\ Room(out.to)
          /\ Write(out.to, out.unit)
          /\ said' = IF out.to = "stdout" THEN Whole(said, out.unit) ELSE said
  /\ UNCHANGED <<unwritten, unread, clientVars, proxyVars, exited, serverReader, got>>

\* It closes its stdout, and lives on.
ServerCloses ==
  /\ ~exited /\ "stdout" \notin unwritten
  /\ unwritten' = unwritten \cup {"stdout"}
  /\ UNCHANGED <<pipe, unread, clientVars, proxyVars, serverVars>>

\* It exits, in the middle of anything; a child of its own may keep its stdout.
ServerExits ==
  /\ ~exited
  /\ exited' = TRUE
  /\ unread' = unread \cup {"stdin"}
  /\ unwritten' \in {unwritten, unwritten \cup {"stdout", "stderr"}}
  /\ UNCHANGED <<pipe, clientVars, proxyVars, serverReader, got, owed, said>>

Next ==
  \/ ClientWrites \/ ClientReads \/ ClientCloses
  \/ ClientReader \/ UpstreamReader \/ StderrRelay \/ Loop
  \/ ServerReads \/ ServerWrites \/ ServerCloses \/ ServerExits

Spec == Init /\ [][Next]_vars

\* Threads run, and both ends do what they have to do.  Nobody has to hang up or
\* to exit.
FairSpec ==
  /\ Spec
  /\ WF_vars(ClientWrites) /\ WF_vars(ClientReads)
  /\ WF_vars(ClientReader) /\ WF_vars(UpstreamReader) /\ WF_vars(StderrRelay) /\ WF_vars(Loop)
  /\ WF_vars(ServerReads) /\ WF_vars(ServerWrites)

--------------------------------------------------------------------------------
(* Properties. *)

\* Each side reads whole messages of the other, in the order in which they were
\* written, whatever is cut off where: a stream that breaks in the middle of a
\* message (read_message) never makes the other side read half of one, and the
\* error for a server that is gone is the last thing a client reads.
WholeInOrder ==
  /\ IsPrefix(got, sent)
  /\ serverReader # Failed /\ clientReader # Failed
  /\ \E n \in 0..Len(said) :
       received \in {SubSeq(said, 1, n), Append(SubSeq(said, 1, n), ServerGone)}

\* When the relay stops on the end of the server's stdout, what the server wrote
\* before reaches a client that still reads: the end is an event behind the messages
\* (Event::UpstreamClosed), and everything is written out before the connection closes.
\* When the poll finds the exit first (LoopPolls), what is still on its way is dropped.
LastWords ==
  phase = "reaping" =>
    "out" \in unread \/ IsPrefix(said, received \o Bodies(pipe["out"]))

\* The relay does not deadlock: every message the client wrote reaches the server,
\* unless the server is gone, although the loop blocks on full pipes, the server
\* does not read while it writes, and the client does not read while it writes.
MessagesArrive ==
  \A n \in 1..Cardinality(UNION {Range(Bodies(s)) : s \in Stream}) :
    n \in Range(sent) ~> n \in Range(got) \/ exited \/ phase = "stopped"

\* When the client hangs up, or what it writes breaks off, the proxy ends and the
\* server has exited with it.
EndsWithClient == "in" \in unwritten ~> phase = "stopped" /\ exited
================================================================================
