-------------------------------- MODULE Session ---------------------------------
(***************************************************************************)
(* A session after the handshake: a client that edits documents, files that  *)
(* change on disk, the proxy between them with its stand-ins (documents.rs,   *)
(* watched_files.rs), its gate and the mapping of rust-analyzer, and a server *)
(* that loads what it is told of in its own time.                            *)
(*                                                                         *)
(* What the proxy writes waits in "inbox" (its stdin) in the order in which   *)
(* it was written; what the server says of its state waits in "statuses".    *)
(* So the two may cross, and a request is answered from what the server knows *)
(* when it comes to it, which is what the properties are about.              *)
(*                                                                         *)
(* A version of a file or of a document is the time of its last edit; a file  *)
(* that is deleted has one too.  The mtime of a file is its version: edits    *)
(* within one tick of the clock of the file system are left out.             *)
(***************************************************************************)
EXTENDS GateRules, WatchedFiles

CONSTANTS
  MaxRequests,            \* bound: cross-workspace requests of the client
  Document,               \* the documents it opens
  Watching,               \* whether a client may be one that watches files
  MaxEdits,               \* bound: edits of files and of documents
  MaxInbox, MaxStatuses   \* bounds: messages that wait in either direction

File == UNION {Under[w] : w \in Root}

ASSUME SessionAssumption ==
  /\ Watching \subseteq BOOLEAN /\ Watching # {}
  /\ {MaxRequests, MaxEdits, MaxInbox, MaxStatuses} \subseteq Nat

VARIABLES
  \* the disk
  clock,                  \* edits so far, of files and of documents
  disk,                   \* the files there are, with their mtime
  version,                \* the version of every file, deleted ones included
  git,                    \* the roots that git answers for
  \* the client
  watches,                \* it declared workspace.didChangeWatchedFiles
  seen,                   \* the files as it last announced them
  opened,                 \* the documents it has open
  text,                   \* the version of every document
  \* the proxy
  standIn,                \* watched_files: its roots, or None
  snapshot,               \* the listing of the stand-in
  documents,              \* the table of open documents
  mapping,                \* the mapping of rust-analyzer
  tracked,                \* the state on the boundary
  held,
  \* between them
  inbox,                  \* what the server has to read
  statuses,               \* what the proxy has to read
  \* the server
  buffers,                \* the documents it has open, with their text
  heard,                  \* the version of every file when it was last told of it
  known,                  \* the version of every file in its index
  pending, loading,       \* files it was told of: to be loaded, being loaded
  \* history
  announced,              \* the version of every file when the server was told of it
  there,                  \* the files it was told that there are
  sure,                   \* the same, told by a client to a server at rest
  sent,                   \* how many requests the client sent
  since,                  \* how many it had sent when it opened each document
  asked                   \* what it had when it sent each one not served yet

diskVars == <<clock, disk, version, git>>
clientVars == <<watches, seen, opened, text>>
proxyVars == <<standIn, snapshot, documents, mapping, tracked, held>>
serverVars == <<buffers, heard, known, pending, loading>>
historyVars == <<announced, there, sure, sent, since, asked>>
vars == <<diskVars, clientVars, proxyVars, inbox, statuses, serverVars, historyVars>>

\* No stand-in: a stand-in has at least one root.
None == {}

Ra == INSTANCE RustAnalyzer WITH Token <- {}

\* Every file is a source.
Source == <<"main", ".rs">>

\* A client counts its requests.
Request == 1..MaxRequests

--------------------------------------------------------------------------------
(* The table of open documents.  A client that opens a document twice breaks   *)
(* the protocol; the table turns its second didOpen into a didChange with the  *)
(* whole text.  A body that cannot be read is passed on as it is and leaves    *)
(* the table alone; the server cannot read it either.                          *)

\* Mutant: the second didOpen is passed on as it is.
OnDidOpenPassed(open, uri) == [open |-> open \cup {uri}, sends |-> "didOpen"]

\* on_did_open: the table afterwards, and what the server is sent.
OnDidOpen(open, uri) ==
  [open |-> open \cup {uri}, sends |-> IF uri \in open THEN "didChange" ELSE "didOpen"]

\* Mutant: a closed document stays in the table.
OnDidCloseKeeps(open, uri) == open

\* on_did_close
OnDidClose(open, uri) == open \ {uri}

--------------------------------------------------------------------------------
(* The stand-in starts: initialize of the client.                            *)

\* WatchedFiles::new.  git may answer for the listing of each root and then fail.
StartStandIn(files, answering) ==
  LET first == Scan(Usable(git), answering, files) IN
  IF watches \/ Usable(git) = {} \/ first = Failed
    THEN standIn = None /\ snapshot = Restrict(files, {})
    ELSE standIn = Usable(git) /\ snapshot \in first

\* The client has its InitializeResult.  The server has everything to load.
Init ==
  /\ clock = 0
  /\ \E files \in SUBSET File : disk = [f \in files |-> 0]
  /\ version = [f \in File |-> 0]
  /\ git \in SUBSET Root
  /\ watches \in Watching
  /\ seen = disk
  /\ opened = {} /\ text = [d \in Document |-> 0]
  /\ \E answering \in SUBSET git : StartStandIn(disk, answering)
  /\ documents = {}
  /\ mapping = Ra!Start /\ tracked = Initializing /\ held = <<>>
  /\ inbox = <<>> /\ statuses = <<>>
  /\ buffers = <<>>
  /\ heard = version /\ known = version
  /\ pending = File /\ loading = {}
  /\ announced = version /\ there = DOMAIN disk /\ sure = version
  /\ sent = 0 /\ since = [d \in Document |-> 0] /\ asked = <<>>

--------------------------------------------------------------------------------
(* The disk                                                                  *)

\* A file is created, changed or deleted.
Edit(f, exists) ==
  /\ clock < MaxEdits
  /\ clock' = clock + 1
  /\ version' = [version EXCEPT ![f] = clock']
  /\ disk' = IF exists THEN [g \in DOMAIN disk \cup {f} |-> version'[g]]
             ELSE Restrict(disk, DOMAIN disk \ {f})
  /\ f \in DOMAIN disk \/ exists
  /\ UNCHANGED <<git, clientVars, proxyVars, inbox, statuses, serverVars, historyVars>>

--------------------------------------------------------------------------------
(* on_client                                                                 *)

Sends(messages) == inbox' = inbox \o messages /\ Len(inbox') <= MaxInbox

\* The server is told of changes.
Tells(changes) == IF changes = {} THEN <<>> ELSE <<[is |-> "watched", changes |-> changes]>>

Files(changes) == {c.file : c \in changes}

FilesThat(changes, kinds) == {c.file : c \in {d \in changes : d.kind \in kinds}}

\* What the history takes down: the server was told of the files as they are now.
Announced(changes) ==
  /\ announced' = [f \in File |-> IF f \in Files(changes) THEN version[f] ELSE announced[f]]
  /\ there' = (there \cup FilesThat(changes, {"created"})) \ FilesThat(changes, {"deleted"})

\* Mutant: the request is passed on before the changes that it should see.
RequestBeforeChanges(r, listings) ==
  LET scan == IF standIn = None THEN [snapshot |-> snapshot, tells |-> {}]
              ELSE Rescan(snapshot, listings)
      go == Verdict(tracked) = "forward"
  IN  /\ snapshot' = scan.snapshot
      /\ Announced(scan.tells)
      /\ held' = IF go THEN held ELSE Append(held, r)
      /\ Sends((IF go THEN <<[is |-> "request", id |-> r]>> ELSE <<>>) \o Tells(scan.tells))

\* A cross-workspace request: the changes on disk are told first, be the request
\* passed on or held.  The server is not broken, so none is rejected.
RequestAfterChanges(r, listings) ==
  LET scan == IF standIn = None THEN [snapshot |-> snapshot, tells |-> {}]
              ELSE Rescan(snapshot, listings)
      go == Verdict(tracked) = "forward"
  IN  /\ snapshot' = scan.snapshot
      /\ Announced(scan.tells)
      /\ held' = IF go THEN held ELSE Append(held, r)
      /\ Sends(Tells(scan.tells) \o (IF go THEN <<[is |-> "request", id |-> r]>> ELSE <<>>))

\* What the client has on disk when it sends a request, as far as the server is
\* promised to be told: all that git lists, if the stand-in can ask git.  A file that
\* came and went between two listings was never there.
Due(listings) ==
  IF standIn = None \/ listings = Failed THEN announced
  ELSE [f \in File |-> IF f \in Listed(standIn) \cap (DOMAIN disk \cup there)
                         THEN version[f] ELSE announced[f]]

ClientRequests(r, answering) ==
  LET listings == IF standIn = None THEN Failed ELSE Scan(standIn, answering, disk) IN
  /\ r = sent + 1
  /\ sent' = r
  /\ RequestAfterChanges(r, listings)
  /\ asked' = [q \in DOMAIN asked \cup {r} |->
                 IF q = r THEN [files |-> Due(listings), sure |-> sure, text |-> text]
                 ELSE asked[q]]
  /\ UNCHANGED <<diskVars, clientVars, standIn, documents, mapping, tracked, statuses,
                 serverVars, sure, since>>

\* Everything that the server was told of is in its index, and nothing it said is
\* on its way.
AtRest ==
  /\ \A i \in DOMAIN inbox : inbox[i].is # "watched"
  /\ statuses = <<>> /\ pending = {} /\ loading = {}

\* didChangeWatchedFiles of the client: the stand-in ends, the mapping predicts.
ClientAnnounces ==
  LET changes == Changes(seen, disk)
      result == Ra!ObserveClient(mapping, [changes |-> {[name |-> Source, kind |-> c.kind] : c \in changes}])
  IN  /\ changes # {}
      /\ seen' = disk
      /\ standIn' = None /\ snapshot' = Restrict(snapshot, {})
      /\ Sends(Tells(changes))
      /\ Announced(changes)
      /\ sure' = IF AtRest THEN [f \in File |-> IF f \in Files(changes) THEN version[f] ELSE sure[f]]
                 ELSE sure
      /\ mapping' = result.next
      /\ tracked' = IF result.read = {} THEN tracked ELSE CHOOSE s \in result.read : TRUE
      /\ UNCHANGED <<diskVars, watches, opened, text, documents, held, statuses, serverVars,
                     sent, since, asked>>

\* The client has a new text of document d.
Types(d) ==
  /\ clock < MaxEdits
  /\ clock' = clock + 1
  /\ text' = [text EXCEPT ![d] = clock']
  /\ UNCHANGED <<disk, version, git>>

\* didOpen, also of a document that is open already.
ClientOpens(d) ==
  LET out == OnDidOpen(documents, d) IN
  /\ Types(d)
  /\ opened' = opened \cup {d}
  /\ since' = IF d \in opened THEN since ELSE [since EXCEPT ![d] = sent]
  /\ documents' = out.open
  /\ Sends(<<[is |-> out.sends, doc |-> d, text |-> text'[d]]>>)
  /\ UNCHANGED <<watches, seen, standIn, snapshot, mapping, tracked, held, statuses,
                 serverVars, announced, there, sure, sent, asked>>

\* didChange, which is passed on.
ClientChanges(d) ==
  /\ d \in opened
  /\ Types(d)
  /\ Sends(<<[is |-> "didChange", doc |-> d, text |-> text'[d]]>>)
  /\ UNCHANGED <<watches, seen, opened, proxyVars, statuses, serverVars, historyVars>>

ClientClosesDocument(d) ==
  /\ d \in opened
  /\ opened' = opened \ {d}
  /\ documents' = OnDidClose(documents, d)
  /\ Sends(<<[is |-> "didClose", doc |-> d, text |-> text[d]]>>)
  /\ UNCHANGED <<diskVars, watches, seen, text, standIn, snapshot, mapping, tracked, held,
                 statuses, serverVars, historyVars>>

--------------------------------------------------------------------------------
(* on_upstream                                                               *)

\* A status of the server: what was held is released when it says ready.
OnStatus ==
  LET result == Ra!Interpret(mapping, Head(statuses))
      next == CHOOSE s \in result.read : TRUE
      out == Release(held, next)
  IN  /\ statuses # <<>>
      /\ statuses' = Tail(statuses)
      /\ mapping' = result.next
      /\ tracked' = next
      /\ held' = out.held
      /\ inbox' = inbox \o [i \in DOMAIN out.forward |-> [is |-> "request", id |-> out.forward[i]]]
      /\ UNCHANGED <<diskVars, clientVars, standIn, snapshot, documents, serverVars, historyVars>>

--------------------------------------------------------------------------------
(* The server                                                                *)

Status(quiescent) ==
  [health |-> "ok", quiescent |-> quiescent, ready |-> "absent", missingWorkspace |-> FALSE]

Reads(kind) == inbox # <<>> /\ Head(inbox).is = kind /\ inbox' = Tail(inbox)

\* A file that was changed is read at once; one that was created or deleted means
\* that the workspace is loaded again.
ServerHearsOfFiles ==
  /\ Reads("watched")
  /\ LET all == Files(Head(inbox).changes)
         again == FilesThat(Head(inbox).changes, {"created", "deleted"})
     IN  /\ heard' = [f \in File |-> IF f \in all THEN version[f] ELSE heard[f]]
         /\ known' = [f \in File |-> IF f \in all \ again THEN version[f] ELSE known[f]]
         /\ pending' = pending \cup again
  /\ UNCHANGED <<diskVars, clientVars, proxyVars, statuses, buffers, loading, historyVars>>

\* A server rejects a didOpen for what is open, and then keeps what it has; it
\* cannot change or close what is not open.
ServerHearsOfDocument ==
  LET m == Head(inbox)
      isOpen == m.doc \in DOMAIN buffers
      takes == IF m.is = "didOpen" THEN ~isOpen ELSE isOpen
  IN  /\ \E kind \in {"didOpen", "didChange", "didClose"} : Reads(kind)
      /\ buffers' = CASE takes /\ m.is = "didClose" -> Restrict(buffers, DOMAIN buffers \ {m.doc})
                      [] takes /\ m.is # "didClose" ->
                           [d \in DOMAIN buffers \cup {m.doc} |->
                              IF d = m.doc THEN m.text ELSE buffers[d]]
                      [] ~takes -> buffers
      /\ UNCHANGED <<diskVars, clientVars, proxyVars, statuses, heard, known, pending, loading,
                     historyVars>>

ServerServes ==
  /\ Reads("request")
  /\ asked' = Restrict(asked, DOMAIN asked \ {Head(inbox).id})
  /\ UNCHANGED <<diskVars, clientVars, proxyVars, statuses, serverVars, announced, there, sure, sent,
                 since>>

LoadBegins ==
  /\ pending # {} /\ loading = {}
  /\ loading' = pending /\ pending' = {}
  /\ Len(statuses) < MaxStatuses
  /\ statuses' = Append(statuses, Status(FALSE))
  /\ UNCHANGED <<diskVars, clientVars, proxyVars, inbox, buffers, heard, known, historyVars>>

\* A load ends.  The server is quiescent unless another is due.
LoadEnds ==
  /\ loading # {}
  /\ known' = [f \in File |-> IF f \in loading THEN version[f] ELSE known[f]]
  /\ loading' = {}
  /\ Len(statuses) < MaxStatuses
  /\ statuses' = Append(statuses, Status(pending = {}))
  /\ UNCHANGED <<diskVars, clientVars, proxyVars, inbox, buffers, heard, pending, historyVars>>

--------------------------------------------------------------------------------

ClientNext ==
  \/ \E r \in Request, answering \in SUBSET git : ClientRequests(r, answering)
  \/ ClientAnnounces
  \/ \E d \in Document : ClientOpens(d) \/ ClientChanges(d) \/ ClientClosesDocument(d)

ServerReads == ServerHearsOfFiles \/ ServerHearsOfDocument \/ ServerServes

Next ==
  \/ \E f \in File, exists \in BOOLEAN : Edit(f, exists)
  \/ ClientNext
  \/ OnStatus
  \/ ServerReads
  \/ LoadBegins
  \/ LoadEnds

Spec == Init /\ [][Next]_vars

\* The loop of the proxy takes what comes, and a server reads what it is sent and
\* ends what it loads.
FairSpec ==
  Spec /\ WF_vars(OnStatus) /\ WF_vars(ServerReads) /\ WF_vars(LoadBegins) /\ WF_vars(LoadEnds)

--------------------------------------------------------------------------------
(* Properties                                                                *)

\* The server comes to request r now.
ComesTo(r) == inbox # <<>> /\ Head(inbox) = [is |-> "request", id |-> r]

AtLeast(v, w) == \A f \in File : v[f] >= w[f]

\* However long a request was held, and whatever was edited meanwhile: when the
\* server comes to it, it was told of every file as new as the client had it when
\* it sent the request (or newer: changes overtake a request that is held).
ToldBeforeServed ==
  \A r \in DOMAIN asked : ComesTo(r) => AtLeast(heard, asked[r].files)

\* The same for the documents: what the client had open when it sent the request and
\* has not closed since, the server has open; and of whatever it has open, its text is
\* the one of that moment or newer.  (A didClose overtakes a request that is held.)
TextBeforeServed ==
  \A r \in DOMAIN asked : ComesTo(r) =>
    /\ \A d \in opened : since[d] < r => d \in DOMAIN buffers
    /\ \A d \in DOMAIN buffers : buffers[d] >= asked[r].text[d]

\* A client may open what is open: once the server has read everything, its
\* documents are those of the client, with the same text.
SameDocuments ==
  (\A i \in DOMAIN inbox : inbox[i].is \in {"watched", "request"})
    => /\ DOMAIN buffers = opened
       /\ \A d \in opened : buffers[d] = text[d]

\* The listing of the stand-in is what the server was last told of, so nothing is
\* told twice and nothing is skipped after git failed.
ListingIsTold ==
  standIn # None =>
    /\ DOMAIN snapshot = there \cap Listed(standIn)
    /\ \A f \in DOMAIN snapshot : snapshot[f] = announced[f]

\* What a client tells of created and deleted files to a server at rest, none of
\* whose statuses is still on its way, is loaded when the server comes to a request
\* that the client sent later: the prediction lasts until the status that ends that
\* load, although the server hears of the files, begins and ends the load while
\* requests are held and other changes are told.
FreshWhenServed ==
  \A r \in DOMAIN asked : ComesTo(r) => AtLeast(known, asked[r].sure)

\* Every request is served: a state that the mapping predicts is one that the
\* server ends.
AllServed == \A r \in Request : (r \in DOMAIN asked) ~> (r \notin DOMAIN asked)

--------------------------------------------------------------------------------
(* What the documents say and the program does not do                        *)

\* server-state.md, chapter 6 item 2: while readiness is ready, every change of a
\* file that the server was told of is incorporated.  The stand-in tells the server
\* of created and deleted files too, and nothing is predicted from what it tells.
ReadyIsFresh ==
  standIn # None => \A r \in DOMAIN asked : ComesTo(r) => AtLeast(known, asked[r].files)

\* The same sentence, of the changes that a client tells of itself.  A status that said
\* ready before the server heard of them takes the prediction back.
AnnouncedIsFresh ==
  watches => \A r \in DOMAIN asked : ComesTo(r) => AtLeast(known, asked[r].files)
================================================================================
