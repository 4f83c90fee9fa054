------------------------------ MODULE SessionProofs ------------------------------
(***************************************************************************)
(* What a server knows when it comes to a request, for all sets of files,    *)
(* roots and documents and all bounds: the listing of the stand-in is what it *)
(* was last told of; it has heard of every file, and has every text, that the *)
(* client had when it sent the request; and what it was surely told is in its *)
(* index.  The last three follow from one invariant, SessionInv, that looks   *)
(* at every letter on its way to the server and not at the first one only.   *)
(***************************************************************************)
EXTENDS Session, GateRulesProofs

--------------------------------------------------------------------------------
(* The listing of the stand-in                                              *)

\* A file that is there has the mtime of its version.
DiskOfVersions ==
  /\ DOMAIN disk \subseteq File
  /\ \A f \in DOMAIN disk : disk[f] = version[f]

\* The listing is one of the roots of the stand-in.
StandInOfRoots == standIn \subseteq Root

DomainsOfHistory == DOMAIN version = File /\ DOMAIN announced = File

ListingInv == DiskOfVersions /\ DomainsOfHistory /\ StandInOfRoots /\ ListingIsTold

\* What git lists under the roots are files of the workspace.
LEMMA ListedAreFiles == ASSUME NEW roots \in SUBSET Root PROVE Listed(roots) \subseteq File
BY DEF Listed, File

\* The kinds of a difference, told apart by the kind in each change.
LEMMA KindsOfChanges ==
  ASSUME NEW old, NEW new
  PROVE  /\ \A c \in Created(old, new) : c.kind = "created"
         /\ \A c \in Changed(old, new) : c.kind = "changed"
         /\ \A c \in Deleted(old, new) : c.kind = "deleted"
<1>1. \A c \in Created(old, new) : c.kind = "created"
  BY DEF Created
<1>2. \A c \in Changed(old, new) : c.kind = "changed"
  <2> SUFFICES ASSUME NEW c \in Changed(old, new) PROVE c.kind = "changed"
    OBVIOUS
  <2>1. PICK f \in {g \in DOMAIN new \cap DOMAIN old : new[g] # old[g]} :
               c = [file |-> f, kind |-> "changed"]
    BY DEF Changed
  <2> QED
    BY <2>1
<1>3. \A c \in Deleted(old, new) : c.kind = "deleted"
  BY DEF Deleted
<1> QED
  BY <1>1, <1>2, <1>3

\* What a difference calls created is what only the second listing has.
LEMMA CreatedFiles ==
  ASSUME NEW old, NEW new
  PROVE  FilesThat(Changes(old, new), {"created"}) = DOMAIN new \ DOMAIN old
<1> DEFINE files == FilesThat(Changes(old, new), {"created"})
<1>1. ASSUME NEW f \in DOMAIN new \ DOMAIN old PROVE f \in files
  <2>1. [file |-> f, kind |-> "created"] \in Changes(old, new)
    BY DEF Changes, Created
  <2> QED
    BY <2>1 DEF FilesThat
<1>2. ASSUME NEW f \in files PROVE f \in DOMAIN new \ DOMAIN old
  <2>1. PICK c \in Changes(old, new) : c.kind = "created" /\ f = c.file
    BY DEF FilesThat
  <2>2. c \in Created(old, new)
    BY <2>1, KindsOfChanges DEF Changes
  <2> QED
    BY <2>1, <2>2 DEF Created
<1> QED
  BY <1>1, <1>2

\* What it calls deleted is what only the first has.
LEMMA DeletedFiles ==
  ASSUME NEW old, NEW new
  PROVE  FilesThat(Changes(old, new), {"deleted"}) = DOMAIN old \ DOMAIN new
<1> DEFINE files == FilesThat(Changes(old, new), {"deleted"})
<1>1. ASSUME NEW f \in DOMAIN old \ DOMAIN new PROVE f \in files
  <2>1. [file |-> f, kind |-> "deleted"] \in Changes(old, new)
    BY DEF Changes, Deleted
  <2> QED
    BY <2>1 DEF FilesThat
<1>2. ASSUME NEW f \in files PROVE f \in DOMAIN old \ DOMAIN new
  <2>1. PICK c \in Changes(old, new) : c.kind = "deleted" /\ f = c.file
    BY DEF FilesThat
  <2>2. c \in Deleted(old, new)
    BY <2>1, KindsOfChanges DEF Changes
  <2> QED
    BY <2>1, <2>2 DEF Deleted
<1> QED
  BY <1>1, <1>2

\* What is new or has another mtime is among the files of a difference.
LEMMA ChangedFiles ==
  ASSUME NEW old, NEW new
  PROVE  /\ DOMAIN new \ DOMAIN old \subseteq Files(Changes(old, new))
         /\ \A f \in DOMAIN new \cap DOMAIN old :
              new[f] # old[f] => f \in Files(Changes(old, new))
<1>1. ASSUME NEW f \in DOMAIN new \ DOMAIN old PROVE f \in Files(Changes(old, new))
  <2>1. [file |-> f, kind |-> "created"] \in Changes(old, new)
    BY DEF Changes, Created
  <2> QED
    BY <2>1 DEF Files
<1>2. ASSUME NEW f \in DOMAIN new \cap DOMAIN old, new[f] # old[f]
      PROVE  f \in Files(Changes(old, new))
  <2>1. [file |-> f, kind |-> "changed"] \in Changes(old, new)
    BY <1>2 DEF Changes, Changed
  <2> QED
    BY <2>1 DEF Files
<1> QED
  BY <1>1, <1>2

\* The first listing is the disk as the server found it.
LEMMA InitListing == Init => ListingInv
<1> SUFFICES ASSUME Init PROVE ListingInv
  OBVIOUS
<1>1. DiskOfVersions /\ DomainsOfHistory
  BY DEF Init, DiskOfVersions, DomainsOfHistory
<1>2. PICK answering \in SUBSET git : StartStandIn(disk, answering)
  BY DEF Init
<1>3. StandInOfRoots
  BY <1>2 DEF StartStandIn, StandInOfRoots, Usable, None
<1>4. CASE standIn = None
  BY <1>1, <1>3, <1>4 DEF ListingInv, ListingIsTold
<1>5. CASE standIn # None
  <2>1. standIn = Usable(git) /\ snapshot \in Scan(Usable(git), answering, disk)
    BY <1>2, <1>5 DEF StartStandIn
  <2>2. /\ DOMAIN snapshot = Listed(standIn) \cap DOMAIN disk
        /\ \A f \in DOMAIN snapshot : snapshot[f] = disk[f]
    BY <2>1 DEF Scan, Restrict, Failed
  <2>3. there = DOMAIN disk /\ announced = version
    BY DEF Init
  <2> QED
    BY <1>1, <1>3, <2>2, <2>3 DEF ListingInv, ListingIsTold, DiskOfVersions
<1> QED
  BY <1>4, <1>5

\* The server is told of the difference between two listings: what it then knows to
\* be there, and with which mtime, is the second.
LEMMA RescanIsTold ==
  ASSUME ListingInv, standIn # None, NEW answering,
         Announced(Rescan(snapshot, Scan(standIn, answering, disk)).tells),
         snapshot' = Rescan(snapshot, Scan(standIn, answering, disk)).snapshot,
         UNCHANGED <<standIn, version, disk>>
  PROVE  ListingInv'
<1> DEFINE scan == Scan(standIn, answering, disk)
<1>1. DiskOfVersions' /\ StandInOfRoots' /\ DomainsOfHistory'
  BY DEF ListingInv, DiskOfVersions, StandInOfRoots, DomainsOfHistory, Announced
<1>2. CASE scan = Failed
  <2>1. snapshot' = snapshot /\ Announced({})
    BY <1>2 DEF Rescan
  <2>2. announced' = [f \in File |-> announced[f]] /\ there' = there
    BY <2>1 DEF Announced, Files, FilesThat
  <2> QED
    BY <1>1, <2>1, <2>2, ListedAreFiles DEF ListingInv, ListingIsTold, StandInOfRoots
<1>3. CASE scan # Failed
  <2>1. PICK current : current \in scan
    BY <1>3 DEF Failed
  <2>2. /\ scan = {current}
        /\ DOMAIN current = Listed(standIn) \cap DOMAIN disk
        /\ \A f \in DOMAIN current : current[f] = disk[f]
    BY <2>1 DEF Scan, Restrict, Failed
  <2>3. snapshot' = current /\ Announced(Changes(snapshot, current))
    BY <1>3, <2>2 DEF Rescan
  <2>4. /\ DOMAIN current \ DOMAIN snapshot \subseteq Files(Changes(snapshot, current))
        /\ \A f \in DOMAIN current \cap DOMAIN snapshot :
             current[f] # snapshot[f] => f \in Files(Changes(snapshot, current))
    BY ChangedFiles
  <2>5. /\ FilesThat(Changes(snapshot, current), {"created"}) = DOMAIN current \ DOMAIN snapshot
        /\ FilesThat(Changes(snapshot, current), {"deleted"}) = DOMAIN snapshot \ DOMAIN current
    BY CreatedFiles, DeletedFiles
  <2>6. DOMAIN current = there' \cap Listed(standIn)
    BY <2>2, <2>3, <2>5 DEF Announced, ListingInv, ListingIsTold
  <2>7. ASSUME NEW f \in DOMAIN current PROVE current[f] = announced'[f]
    <3>1. f \in File
      BY <2>2, ListedAreFiles DEF ListingInv, StandInOfRoots
    <3>2. announced'[f] = IF f \in Files(Changes(snapshot, current)) THEN version[f] ELSE announced[f]
      BY <2>3, <3>1 DEF Announced
    <3>3. current[f] = version[f]
      BY <2>2, <2>7 DEF ListingInv, DiskOfVersions
    <3>4. CASE f \in Files(Changes(snapshot, current))
      BY <3>2, <3>3, <3>4
    <3>5. CASE f \notin Files(Changes(snapshot, current))
      BY <2>4, <2>7, <3>2, <3>5 DEF ListingInv, ListingIsTold
    <3> QED
      BY <3>4, <3>5
  <2> QED
    BY <1>1, <2>3, <2>6, <2>7 DEF ListingInv, ListingIsTold
<1> QED
  BY <1>2, <1>3

\* A step that leaves the disk, the stand-in and what was told alone.
LEMMA NothingTold ==
  ASSUME ListingInv, UNCHANGED <<disk, version, standIn, snapshot, announced, there>>
  PROVE  ListingInv'
BY DEF ListingInv, DiskOfVersions, DomainsOfHistory, StandInOfRoots, ListingIsTold

\* Every step keeps the listing what was told.
LEMMA NextListing ==
  ASSUME ListingInv, [Next]_vars
  PROVE  ListingInv'
<1> USE DEF diskVars, clientVars, proxyVars, serverVars, historyVars
<1>1. ASSUME NEW f \in File, NEW exists \in BOOLEAN, Edit(f, exists) PROVE ListingInv'
  <2>1. UNCHANGED <<standIn, snapshot, announced, there>>
    BY <1>1 DEF Edit
  <2>2. version' = [version EXCEPT ![f] = clock'] /\ DOMAIN version' = File
    BY <1>1 DEF Edit, ListingInv, DomainsOfHistory
  <2>3. DiskOfVersions'
    <3>1. CASE exists
      BY <1>1, <2>2, <3>1 DEF Edit, ListingInv, DiskOfVersions
    <3>2. CASE ~exists
      <4>1. disk' = [g \in DOMAIN disk \ {f} |-> disk[g]]
        BY <1>1, <3>2 DEF Edit, Restrict
      <4> QED
        BY <2>2, <4>1 DEF ListingInv, DiskOfVersions, DomainsOfHistory
    <3> QED
      BY <3>1, <3>2
  <2> QED
    BY <2>1, <2>2, <2>3 DEF ListingInv, DomainsOfHistory, StandInOfRoots, ListingIsTold
<1>2. ASSUME NEW r \in Request, NEW answering \in SUBSET git, ClientRequests(r, answering)
      PROVE  ListingInv'
  <2>1. UNCHANGED <<disk, version, standIn>>
    BY <1>2 DEF ClientRequests
  <2>2. CASE standIn = None
    <3>1. DOMAIN announced' = File
      BY <1>2 DEF ClientRequests, RequestAfterChanges, Announced
    <3> QED
      BY <2>1, <2>2, <3>1 DEF ListingInv, DiskOfVersions, DomainsOfHistory, StandInOfRoots,
         ListingIsTold
  <2>3. CASE standIn # None
    <3>1. /\ snapshot' = Rescan(snapshot, Scan(standIn, answering, disk)).snapshot
          /\ Announced(Rescan(snapshot, Scan(standIn, answering, disk)).tells)
      BY <1>2, <2>3 DEF ClientRequests, RequestAfterChanges
    <3> QED
      BY <2>1, <2>3, <3>1, RescanIsTold
  <2> QED
    BY <2>2, <2>3
<1>3. CASE ClientAnnounces
  <2>1. standIn' = None /\ UNCHANGED <<disk, version>> /\ DOMAIN announced' = File
    BY <1>3 DEF ClientAnnounces, Announced
  <2> QED
    BY <2>1 DEF ListingInv, DiskOfVersions, DomainsOfHistory, StandInOfRoots, ListingIsTold, None
<1>4. ASSUME NEW d \in Document, ClientOpens(d) \/ ClientChanges(d) \/ ClientClosesDocument(d)
      PROVE  ListingInv'
  BY <1>4, NothingTold DEF ClientOpens, ClientChanges, ClientClosesDocument, Types
<1>5. CASE OnStatus
  BY <1>5, NothingTold DEF OnStatus
<1>6. CASE ServerReads
  BY <1>6, NothingTold DEF ServerReads, ServerHearsOfFiles, ServerHearsOfDocument, ServerServes
<1>7. CASE LoadBegins
  BY <1>7, NothingTold DEF LoadBegins
<1>8. CASE LoadEnds
  BY <1>8, NothingTold DEF LoadEnds
<1>9. CASE UNCHANGED vars
  BY <1>9, NothingTold DEF vars
<1> QED
  BY <1>1, <1>2, <1>3, <1>4, <1>5, <1>6, <1>7, <1>8, <1>9 DEF Next, ClientNext

\* The listing of the stand-in is what the server was last told of
\* (changes_since_last_scan, watched_files.rs:53), however git fails and whatever
\* is edited between two listings.
THEOREM ListingIsAlwaysTold == Spec => []ListingIsTold
<1>1. ListingInv /\ [Next]_vars => ListingInv'
  BY NextListing
<1>2. ListingInv => ListingIsTold
  BY DEF ListingInv
<1> QED
  BY InitListing, <1>1, <1>2, PTL DEF Spec

--------------------------------------------------------------------------------
(* What is on its way to the server                                         *)

Change == [file : File, kind : {"created", "changed", "deleted"}]

\* What the proxy writes to the server.
Letter ==
  [is : {"watched"}, changes : SUBSET Change]
    \cup [is : {"didOpen", "didChange", "didClose"}, doc : Document, text : Nat]
    \cup [is : {"request"}, id : Nat]

\* The i-th letter tells of file f; it tells that f has other content only; it is
\* about document d; it is request r.
TellsOf(i, f) == inbox[i].is = "watched" /\ f \in Files(inbox[i].changes)

ReadAtOnce(i, f) ==
  TellsOf(i, f) /\ f \notin FilesThat(inbox[i].changes, {"created", "deleted"})

About(i, d) == inbox[i].is \in {"didOpen", "didChange", "didClose"} /\ inbox[i].doc = d

IsRequest(i, r) == inbox[i] = [is |-> "request", id |-> r]

--------------------------------------------------------------------------------
(* The inductive invariant                                                  *)

\* A version is a time that has passed; nothing is known, told or announced that is
\* newer than what there is.
Times ==
  /\ clock \in Nat
  /\ version \in [File -> Nat] /\ \A f \in File : version[f] <= clock
  /\ text \in [Document -> Nat] /\ \A d \in Document : text[d] <= clock
  /\ heard \in [File -> Nat] /\ AtLeast(version, heard)
  /\ known \in [File -> Nat] /\ AtLeast(version, known)
  /\ announced \in [File -> Nat] /\ AtLeast(version, announced)
  /\ sure \in [File -> Nat] /\ AtLeast(version, sure)

Statuses == {Status(TRUE), Status(FALSE)}

\* The queues hold what they are for; a request in one of them has been sent; the
\* table of documents has those that the client has open.
Queues ==
  /\ sent \in Nat
  /\ inbox \in Seq(Letter)
  /\ \A i \in 1..Len(inbox) : inbox[i].is = "request" => inbox[i].id \in 1..sent
  /\ statuses \in Seq(Statuses)
  /\ held \in Seq(1..sent)
  /\ documents = opened /\ opened \subseteq Document /\ DOMAIN buffers \subseteq Document
  /\ pending \subseteq File /\ loading \subseteq File
  /\ DOMAIN seen \subseteq File

\* What a client had when it sent a request is no newer than what there is now.
Asks ==
  \A r \in DOMAIN asked :
    /\ r \in 1..sent
    /\ asked[r].files \in [File -> Nat] /\ AtLeast(announced, asked[r].files)
    /\ asked[r].sure \in [File -> Nat] /\ AtLeast(sure, asked[r].sure)
    /\ asked[r].text \in [Document -> Nat]
    /\ \A d \in Document : text[d] >= asked[r].text[d]

\* What was announced was heard, or is on its way.
Told ==
  \A f \in File : heard[f] >= announced[f] \/ \E i \in 1..Len(inbox) : TellsOf(i, f)

\* Of every document, the first letter fits what the server has, each fits the one
\* before, and the last fits what the client has.
DocumentsFit ==
  \A d \in Document :
    /\ (\A i \in 1..Len(inbox) : ~About(i, d))
         => /\ d \in DOMAIN buffers <=> d \in opened
            /\ d \in opened => buffers[d] = text[d]
    /\ \A i \in 1..Len(inbox) : About(i, d) =>
         /\ (\A j \in (i + 1)..Len(inbox) : ~About(j, d))
              => /\ inbox[i].is = "didClose" <=> d \notin opened
                 /\ d \in opened => inbox[i].text = text[d]
         /\ (\A j \in 1..(i - 1) : ~About(j, d))
              => (inbox[i].is = "didOpen" <=> d \notin DOMAIN buffers)
         /\ \A k \in (i + 1)..Len(inbox) :
              About(k, d) /\ (\A j \in (i + 1)..(k - 1) : ~About(j, d))
                => (inbox[k].is = "didOpen" <=> inbox[i].is = "didClose")

\* A load is expected, and no status says yet that it is over.
Waits ==
  /\ tracked.readiness = "indexing"
  /\ \A i \in 1..Len(statuses) : statuses[i] = Status(FALSE)

\* What the server was surely told is in its index, or requests wait for it, or it
\* is read at once.
Awaited ==
  \A f \in File :
    known[f] >= sure[f] \/ Waits \/ \E i \in 1..Len(inbox) : ReadAtOnce(i, f)

\* It is in the index, or will be loaded, or is told by the next letter of files to
\* a server at rest.
Underway ==
  \A f \in File :
    \/ known[f] >= sure[f]
    \/ f \in pending \cup loading
    \/ /\ pending = {} /\ loading = {}
       /\ \E i \in 1..Len(inbox) :
            TellsOf(i, f) /\ \A j \in 1..(i - 1) : inbox[j].is # "watched"

\* What the server hears, reads and has in its index before it comes to the k-th
\* letter is what the client had when it sent request r.
ToldAt(k, r) ==
  \A f \in File : heard[f] >= asked[r].files[f] \/ \E i \in 1..(k - 1) : TellsOf(i, f)

TextAt(k, r) ==
  \A d \in Document :
    /\ (\A i \in 1..(k - 1) : ~About(i, d)) /\ d \in DOMAIN buffers
         => buffers[d] >= asked[r].text[d]
    /\ \A i \in 1..(k - 1) :
         About(i, d) /\ inbox[i].is # "didClose" /\ (\A j \in (i + 1)..(k - 1) : ~About(j, d))
           => inbox[i].text >= asked[r].text[d]

FreshAt(k, r) ==
  \A f \in File : known[f] >= asked[r].sure[f] \/ \E i \in 1..(k - 1) : ReadAtOnce(i, f)

ServedWell ==
  \A r \in DOMAIN asked : \A k \in 1..Len(inbox) :
    IsRequest(k, r) => ToldAt(k, r) /\ TextAt(k, r) /\ FreshAt(k, r)

SessionInv ==
  /\ ListingInv /\ Times /\ Queues /\ Asks
  /\ Told /\ DocumentsFit /\ Awaited /\ Underway /\ ServedWell

--------------------------------------------------------------------------------
(* The inbox grows at its end and is read at its head                       *)

\* What a letter carries depends on what it is.
LEMMA LetterFields ==
  ASSUME NEW m \in Letter
  PROVE  /\ m.is \in {"watched", "didOpen", "didChange", "didClose", "request"}
         /\ m.is = "watched" => m.changes \subseteq Change
         /\ m.is \in {"didOpen", "didChange", "didClose"} => m.doc \in Document /\ m.text \in Nat
         /\ m.is = "request" => m.id \in Nat /\ m = [is |-> "request", id |-> m.id]
BY DEF Letter

\* Letters are written behind those that wait.
LEMMA Grown ==
  ASSUME inbox \in Seq(Letter), NEW m \in Seq(Letter), inbox' = inbox \o m
  PROVE  /\ Len(inbox) \in Nat /\ Len(m) \in Nat
         /\ inbox' \in Seq(Letter) /\ Len(inbox') = Len(inbox) + Len(m)
         /\ \A i \in 1..Len(inbox) : inbox'[i] = inbox[i]
         /\ \A i \in 1..Len(m) : inbox'[Len(inbox) + i] = m[i]
BY ConcatProperties

\* Reading one shifts the others.
LEMMA Shifted ==
  ASSUME inbox \in Seq(Letter), inbox # <<>>, inbox' = Tail(inbox)
  PROVE  /\ Len(inbox) \in Nat /\ Len(inbox) >= 1
         /\ Head(inbox) = inbox[1] /\ inbox[1] \in Letter
         /\ inbox' \in Seq(Letter) /\ Len(inbox') = Len(inbox) - 1
         /\ \A i \in 1..Len(inbox') : i + 1 \in 1..Len(inbox) /\ inbox'[i] = inbox[i + 1]
<1>1. Len(inbox) \in Nat /\ Len(inbox) # 0
  BY EmptySeq
<1>2. 1 \in 1..Len(inbox) /\ Head(inbox) = inbox[1]
  BY <1>1, HeadTailProperties
<1>3. /\ inbox' \in Seq(Letter) /\ Len(inbox') = Len(inbox) - 1
      /\ \A i \in 1..Len(inbox') : inbox'[i] = inbox[i + 1]
  BY <1>1, HeadTailProperties
<1>4. \A i \in 1..Len(inbox') : i + 1 \in 1..Len(inbox)
  BY <1>1, <1>3
<1>5. inbox[1] \in Letter
  BY <1>2, ElementOfSeq
<1> QED
  BY <1>1, <1>2, <1>3, <1>4, <1>5

\* One letter, or none.
LEMMA OneLetter ==
  ASSUME NEW m \in Letter
  PROVE  <<m>> \in Seq(Letter) /\ Len(<<m>>) = 1 /\ <<m>>[1] = m
OBVIOUS

\* Changes are told in one letter, and no changes in none.
LEMMA TellsOne ==
  ASSUME NEW changes \in SUBSET Change
  PROVE  /\ Tells(changes) \in Seq(Letter)
         /\ changes = {} => Tells(changes) = <<>> /\ Len(Tells(changes)) = 0
         /\ changes # {} => /\ Len(Tells(changes)) = 1
                            /\ Tells(changes)[1] = [is |-> "watched", changes |-> changes]
<1>1. CASE changes = {}
  BY <1>1, EmptySeq DEF Tells
<1>2. CASE changes # {}
  <2> DEFINE m == [is |-> "watched", changes |-> changes]
  <2>1. m \in Letter
    BY DEF Letter
  <2>2. Tells(changes) = <<m>>
    BY <1>2 DEF Tells
  <2> HIDE DEF m
  <2>3. <<m>> \in Seq(Letter) /\ Len(<<m>>) = 1 /\ <<m>>[1] = m
    BY <2>1, OneLetter
  <2> QED
    BY <1>2, <2>2, <2>3 DEF m
<1> QED
  BY <1>1, <1>2

\* The difference of two listings is one of files.
LEMMA ChangesTyped ==
  ASSUME NEW old, NEW new, DOMAIN old \subseteq File, DOMAIN new \subseteq File
  PROVE  Changes(old, new) \subseteq Change
<1>1. Created(old, new) \subseteq Change
  BY DEF Created, Change
<1>2. Changed(old, new) \subseteq Change
  BY DEF Changed, Change
<1>3. Deleted(old, new) \subseteq Change
  BY DEF Deleted, Change
<1> QED
  BY <1>1, <1>2, <1>3 DEF Changes

--------------------------------------------------------------------------------
(* Letters that are added                                                   *)

\* Old letters say the same after the inbox has grown.
LEMMA SameLetters ==
  ASSUME inbox \in Seq(Letter), NEW m \in Seq(Letter), inbox' = inbox \o m
  PROVE  \A i \in 1..Len(inbox) :
           /\ i \in 1..Len(inbox') /\ inbox'[i] = inbox[i]
           /\ \A f : TellsOf(i, f)' <=> TellsOf(i, f)
           /\ \A f : ReadAtOnce(i, f)' <=> ReadAtOnce(i, f)
           /\ \A d : About(i, d)' <=> About(i, d)
           /\ \A r : IsRequest(i, r)' <=> IsRequest(i, r)
<1>1. \A i \in 1..Len(inbox) : i \in 1..Len(inbox') /\ inbox'[i] = inbox[i]
  BY Grown
<1> QED
  BY <1>1 DEF TellsOf, ReadAtOnce, About, IsRequest

\* Requests that wait in the inbox are served as well as before.
LEMMA OldRequests ==
  ASSUME SessionInv, NEW m \in Seq(Letter), inbox' = inbox \o m,
         UNCHANGED <<heard, known, buffers>>,
         \A r \in DOMAIN asked' : r \in 1..sent => r \in DOMAIN asked /\ asked'[r] = asked[r],
         NEW r \in DOMAIN asked', NEW k \in 1..Len(inbox), IsRequest(k, r)'
  PROVE  (ToldAt(k, r) /\ TextAt(k, r) /\ FreshAt(k, r))'
<1>0. inbox \in Seq(Letter) /\ Len(inbox) \in Nat
  BY DEF SessionInv, Queues
<1>1. /\ \A i \in 1..Len(inbox) : inbox'[i] = inbox[i]
      /\ \A i \in 1..Len(inbox) : \A f : TellsOf(i, f)' <=> TellsOf(i, f)
      /\ \A i \in 1..Len(inbox) : \A f : ReadAtOnce(i, f)' <=> ReadAtOnce(i, f)
      /\ \A i \in 1..Len(inbox) : \A d : About(i, d)' <=> About(i, d)
      /\ IsRequest(k, r)
  BY <1>0, SameLetters
<1>2. r \in 1..sent
  <2>1. inbox[k].is = "request" /\ inbox[k].id = r
    BY <1>1 DEF IsRequest
  <2> QED
    BY <2>1 DEF SessionInv, Queues
<1>3. r \in DOMAIN asked /\ asked'[r] = asked[r]
  BY <1>2
<1>4. ToldAt(k, r) /\ TextAt(k, r) /\ FreshAt(k, r)
  BY <1>1, <1>3 DEF SessionInv, ServedWell
<1>5. \A i \in 1..(k - 1) : i \in 1..Len(inbox) /\ \A j \in (i + 1)..(k - 1) : j \in 1..Len(inbox)
  BY <1>0
<1>6. ToldAt(k, r)'
  BY <1>1, <1>3, <1>4, <1>5 DEF ToldAt
<1>7. FreshAt(k, r)'
  BY <1>1, <1>3, <1>4, <1>5 DEF FreshAt
<1>8. TextAt(k, r)'
  <2> SUFFICES ASSUME NEW d \in Document
               PROVE  /\ (\A i \in 1..(k - 1) : ~About(i, d)') /\ d \in DOMAIN buffers
                           => buffers[d] >= asked[r].text[d]
                      /\ \A i \in 1..(k - 1) :
                           /\ About(i, d)' /\ inbox'[i].is # "didClose"
                           /\ \A j \in (i + 1)..(k - 1) : ~About(j, d)'
                           => inbox'[i].text >= asked[r].text[d]
    BY <1>3 DEF TextAt
  <2>1. (\A i \in 1..(k - 1) : ~About(i, d)') /\ d \in DOMAIN buffers
          => buffers[d] >= asked[r].text[d]
    BY <1>1, <1>4, <1>5 DEF TextAt
  <2>2. ASSUME NEW i \in 1..(k - 1), About(i, d)', inbox'[i].is # "didClose",
               \A j \in (i + 1)..(k - 1) : ~About(j, d)'
        PROVE  inbox'[i].text >= asked[r].text[d]
    <3>1. About(i, d) /\ inbox'[i] = inbox[i]
      BY <1>1, <1>5, <2>2
    <3>2. \A j \in (i + 1)..(k - 1) : ~About(j, d)
      BY <1>1, <1>5, <2>2
    <3> QED
      BY <1>4, <2>2, <3>1, <3>2 DEF TextAt
  <2> QED
    BY <2>1, <2>2
<1> QED
  BY <1>6, <1>7, <1>8

\* Without a request among the new letters, nothing else is to be served.
LEMMA ServedNoNew ==
  ASSUME SessionInv, NEW m \in Seq(Letter), inbox' = inbox \o m,
         \A i \in 1..Len(m) : m[i].is # "request",
         UNCHANGED <<heard, known, buffers, asked>>
  PROVE  ServedWell'
<1>0. inbox \in Seq(Letter)
  BY DEF SessionInv, Queues
<1>1. /\ Len(inbox) \in Nat /\ Len(m) \in Nat /\ Len(inbox') = Len(inbox) + Len(m)
      /\ \A i \in 1..Len(m) : inbox'[Len(inbox) + i] = m[i]
  BY <1>0, Grown
<1>2. \A k \in 1..Len(inbox') : k \in 1..Len(inbox) \/ inbox'[k].is # "request"
  <2> SUFFICES ASSUME NEW k \in 1..Len(inbox'), k \notin 1..Len(inbox)
               PROVE  inbox'[k].is # "request"
    OBVIOUS
  <2>1. k - Len(inbox) \in 1..Len(m) /\ k = Len(inbox) + (k - Len(inbox))
    BY <1>1
  <2> QED
    BY <1>1, <2>1
<1>3. ASSUME NEW r \in DOMAIN asked', NEW k \in 1..Len(inbox'), IsRequest(k, r)'
      PROVE  (ToldAt(k, r) /\ TextAt(k, r) /\ FreshAt(k, r))'
  <2>1. k \in 1..Len(inbox)
    BY <1>2, <1>3 DEF IsRequest
  <2> QED
    BY <1>3, <2>1, OldRequests
<1> QED
  BY <1>3 DEF ServedWell

\* A new request that has nothing of files or documents before it among the new
\* letters but what was announced with it, and that is not sent while a load is
\* awaited, is served as well as what was promised.
LEMMA ServedNew ==
  ASSUME SessionInv, NEW m \in Seq(Letter), inbox' = inbox \o m, ~Waits,
         UNCHANGED <<known, buffers, text, sure, opened, documents>>,
         Told', Asks', Times',
         NEW r \in DOMAIN asked', NEW k \in 1..Len(inbox'), k \notin 1..Len(inbox),
         \A i \in 1..Len(m) : m[i].is \in {"watched", "request"},
         \A i \in k..Len(inbox') : inbox'[i].is # "watched"
  PROVE  (ToldAt(k, r) /\ TextAt(k, r) /\ FreshAt(k, r))'
<1>0. inbox \in Seq(Letter)
  BY DEF SessionInv, Queues
<1>1. /\ Len(inbox) \in Nat /\ Len(m) \in Nat /\ Len(inbox') = Len(inbox) + Len(m)
      /\ \A i \in 1..Len(m) : inbox'[Len(inbox) + i] = m[i]
      /\ k \in Nat /\ k > Len(inbox)
  BY <1>0, Grown
<1>2. /\ \A i \in 1..Len(inbox) : inbox'[i] = inbox[i] /\ i \in 1..(k - 1)
      /\ \A i \in 1..Len(inbox) : \A f : TellsOf(i, f)' <=> TellsOf(i, f)
      /\ \A i \in 1..Len(inbox) : \A f : ReadAtOnce(i, f)' <=> ReadAtOnce(i, f)
      /\ \A i \in 1..Len(inbox) : \A d : About(i, d)' <=> About(i, d)
  <2>1. \A i \in 1..Len(inbox) : i \in 1..(k - 1)
    BY <1>1
  <2> QED
    BY <1>0, <2>1, SameLetters
<1>3. \A i \in 1..Len(inbox') : i \notin 1..Len(inbox) => \A d : ~About(i, d)'
  <2> SUFFICES ASSUME NEW i \in 1..Len(inbox'), i \notin 1..Len(inbox)
               PROVE  \A d : ~About(i, d)'
    OBVIOUS
  <2>1. i - Len(inbox) \in 1..Len(m) /\ i = Len(inbox) + (i - Len(inbox))
    BY <1>1
  <2>2. inbox'[i].is \in {"watched", "request"}
    BY <1>1, <2>1
  <2> QED
    BY <2>2 DEF About
<1>4. /\ r \in 1..sent'
      /\ asked'[r].files \in [File -> Nat] /\ AtLeast(announced', asked'[r].files)
      /\ asked'[r].sure \in [File -> Nat] /\ AtLeast(sure, asked'[r].sure)
      /\ asked'[r].text \in [Document -> Nat]
      /\ \A d \in Document : text[d] >= asked'[r].text[d]
  BY SMTT(60) DEF Asks
<1>5. ToldAt(k, r)'
  <2> SUFFICES ASSUME NEW f \in File
               PROVE  heard'[f] >= asked'[r].files[f] \/ \E i \in 1..(k - 1) : TellsOf(i, f)'
    BY DEF ToldAt
  <2>0. heard'[f] \in Nat /\ announced'[f] \in Nat
    BY DEF Times
  <2>1. CASE heard'[f] >= announced'[f]
    <3>1. asked'[r].files[f] \in Nat /\ announced'[f] >= asked'[r].files[f]
      BY <1>4 DEF AtLeast
    <3> QED
      BY <2>0, <2>1, <3>1
  <2>2. CASE \E i \in 1..Len(inbox') : TellsOf(i, f)'
    <3>1. PICK i \in 1..Len(inbox') : TellsOf(i, f)'
      BY <2>2
    <3>2. inbox'[i].is = "watched"
      BY <3>1 DEF TellsOf
    <3>3. i \in 1..(k - 1)
      BY <1>1, <3>2
    <3> QED
      BY <3>1, <3>3
  <2> QED
    BY <2>1, <2>2 DEF Told
<1>6. FreshAt(k, r)'
  <2> SUFFICES ASSUME NEW f \in File
               PROVE  known[f] >= asked'[r].sure[f] \/ \E i \in 1..(k - 1) : ReadAtOnce(i, f)'
    BY DEF FreshAt
  <2>0. known[f] \in Nat /\ sure[f] \in Nat
    BY DEF SessionInv, Times
  <2>1. CASE known[f] >= sure[f]
    <3>1. asked'[r].sure[f] \in Nat /\ sure[f] >= asked'[r].sure[f]
      BY <1>4 DEF AtLeast
    <3> QED
      BY <2>0, <2>1, <3>1
  <2>2. CASE \E i \in 1..Len(inbox) : ReadAtOnce(i, f)
    BY <1>2, <2>2
  <2> QED
    BY <2>1, <2>2 DEF SessionInv, Awaited
<1>7. TextAt(k, r)'
  <2> SUFFICES ASSUME NEW d \in Document
               PROVE  /\ (\A i \in 1..(k - 1) : ~About(i, d)') /\ d \in DOMAIN buffers
                           => buffers[d] >= asked'[r].text[d]
                      /\ \A i \in 1..(k - 1) :
                           /\ About(i, d)' /\ inbox'[i].is # "didClose"
                           /\ \A j \in (i + 1)..(k - 1) : ~About(j, d)'
                           => inbox'[i].text >= asked'[r].text[d]
    BY DEF TextAt
  <2>0. DocumentsFit /\ text \in [Document -> Nat]
    BY DEF SessionInv, Times
  <2>1. ASSUME \A i \in 1..(k - 1) : ~About(i, d)', d \in DOMAIN buffers
        PROVE  buffers[d] >= asked'[r].text[d]
    <3>1. \A i \in 1..Len(inbox) : ~About(i, d)
      BY <1>2, <2>1
    <3>2. buffers[d] = text[d]
      BY <2>0, <2>1, <3>1 DEF DocumentsFit
    <3> QED
      BY <1>4, <3>2
  <2>2. ASSUME NEW i \in 1..(k - 1), About(i, d)', inbox'[i].is # "didClose",
               \A j \in (i + 1)..(k - 1) : ~About(j, d)'
        PROVE  inbox'[i].text >= asked'[r].text[d]
    <3>1. i \in 1..Len(inbox)
      <4>1. i \in 1..Len(inbox')
        BY <1>1
      <4> QED
        BY <1>3, <2>2, <4>1
    <3>2. About(i, d) /\ inbox'[i] = inbox[i]
      BY <1>2, <2>2, <3>1
    <3>3. \A j \in (i + 1)..Len(inbox) : ~About(j, d)
      <4>1. ASSUME NEW j \in (i + 1)..Len(inbox)
            PROVE  ~About(j, d)
        <5>1. j \in 1..Len(inbox) /\ j \in (i + 1)..(k - 1)
          BY <1>1, <3>1
        <5> QED
          BY <1>2, <2>2, <5>1
      <4> QED
        BY <4>1
    <3>4. d \in opened /\ inbox[i].text = text[d]
      BY <2>0, <2>2, <3>1, <3>2, <3>3 DEF DocumentsFit
    <3> QED
      BY <1>4, <3>2, <3>4
  <2> QED
    BY <2>1, <2>2
<1> QED
  BY <1>5, <1>6, <1>7

--------------------------------------------------------------------------------
(* A cross-workspace request                                                *)

Asking(r) == [is |-> "request", id |-> r]

\* What is written when a request arrives: the changes, and then the request, if the
\* verdict is that it may go.
LettersOf(changes, r, verdict) ==
  Tells(changes) \o (IF verdict = "forward" THEN <<Asking(r)>> ELSE <<>>)

\* A request is the last of what is written, and goes only if it may.
LEMMA RequestLetters ==
  ASSUME NEW changes \in SUBSET Change, NEW r \in Nat, NEW verdict,
         NEW m, m = LettersOf(changes, r, verdict)
  PROVE  /\ m \in Seq(Letter)
         /\ \A i \in 1..Len(m) :
              \/ m[i] = [is |-> "watched", changes |-> changes]
              \/ m[i] = Asking(r) /\ i = Len(m) /\ verdict = "forward"
         /\ changes # {} => \E i \in 1..Len(m) : m[i] = [is |-> "watched", changes |-> changes]
<1> DEFINE last == IF verdict = "forward" THEN <<Asking(r)>> ELSE <<>>
<1> DEFINE q == Asking(r)
<1>1. q \in Letter
  BY DEF Letter, Asking
<1>2. /\ last \in Seq(Letter) /\ Len(last) \in 0..1
      /\ Len(last) = 1 => last[1] = q /\ verdict = "forward"
  <2>1. CASE verdict = "forward"
    <3> HIDE DEF q
    <3>1. <<q>> \in Seq(Letter) /\ Len(<<q>>) = 1 /\ <<q>>[1] = q
      BY <1>1, OneLetter
    <3> QED
      BY <2>1, <3>1 DEF q
  <2>2. CASE verdict # "forward"
    <3>1. <<>> \in Seq(Letter) /\ Len(<<>>) = 0
      BY EmptySeq
    <3> QED
      BY <2>2, <3>1
  <2> QED
    BY <2>1, <2>2
<1>3. /\ Tells(changes) \in Seq(Letter)
      /\ Len(Tells(changes)) \in 0..1
      /\ Len(Tells(changes)) = 1 <=> changes # {}
      /\ changes # {} => Tells(changes)[1] = [is |-> "watched", changes |-> changes]
  BY TellsOne
<1> DEFINE told == Tells(changes)
<1>4. m = told \o last
  BY DEF LettersOf
<1> HIDE DEF told, q, last
<1>5. told \in Seq(Letter) /\ last \in Seq(Letter)
  BY <1>2, <1>3 DEF told
<1>6. /\ m \in Seq(Letter) /\ Len(m) = Len(told) + Len(last)
      /\ \A i \in 1..Len(told) : m[i] = told[i]
      /\ \A i \in 1..Len(last) : m[Len(told) + i] = last[i]
  BY <1>4, <1>5, ConcatProperties
<1>7. ASSUME NEW i \in 1..Len(m)
      PROVE  \/ m[i] = [is |-> "watched", changes |-> changes]
             \/ m[i] = q /\ i = Len(m) /\ verdict = "forward"
  <2>0. Len(told) \in 0..1 /\ Len(last) \in 0..1
    BY <1>2, <1>3 DEF told, q
  <2>1. CASE i \in 1..Len(told)
    <3>0. i = 1 /\ Len(told) = 1
      <4>1. PICK n \in 0..1 : n = Len(told)
        BY <2>0
      <4>2. i \in 1..n
        BY <2>1, <4>1
      <4>3. i = 1 /\ n = 1
        BY <4>2
      <4> QED
        BY <4>1, <4>3
    <3>1. i = 1 /\ changes # {}
      BY <1>3, <3>0 DEF told
    <3> QED
      BY <1>3, <1>6, <2>1, <3>1 DEF told
  <2>2. CASE i \notin 1..Len(told)
    <3>1. Len(last) = 1 /\ i = Len(told) + 1 /\ i = Len(m)
      BY <1>6, <2>0, <2>2
    <3>2. verdict = "forward" /\ last[1] = q
      BY <1>2, <3>1
    <3>3. 1 \in 1..Len(last)
      BY <3>1
    <3>4. m[i] = q
      BY <1>6, <3>1, <3>2, <3>3
    <3> QED
      BY <3>1, <3>2, <3>4
  <2> QED
    BY <2>1, <2>2
<1>8. ASSUME changes # {}
      PROVE  \E i \in 1..Len(m) : m[i] = [is |-> "watched", changes |-> changes]
  <2>1. 1 \in 1..Len(told) /\ 1 \in 1..Len(m) /\ told[1] = [is |-> "watched", changes |-> changes]
    BY <1>2, <1>3, <1>6, <1>8 DEF told, q
  <2> QED
    BY <1>6, <2>1
<1> QED
  BY <1>6, <1>7, <1>8 DEF q

\* The state that the request is judged by: the server goes on working on what it
\* has, and the proxy tells it of what changed on disk.
LEMMA RequestEffect ==
  ASSUME SessionInv, NEW r \in Request, NEW answering \in SUBSET git,
         ClientRequests(r, answering)
  PROVE  /\ r = sent + 1 /\ sent' = r
         /\ DOMAIN asked' = DOMAIN asked \cup {r}
         /\ \A q \in DOMAIN asked : q # r => asked'[q] = asked[q]
         /\ asked'[r].sure = sure /\ asked'[r].text = text
         /\ asked'[r].files \in [File -> Nat] /\ announced' \in [File -> Nat]
         /\ AtLeast(announced', asked'[r].files) /\ AtLeast(announced', announced)
         /\ AtLeast(version, announced')
         /\ \E changes \in SUBSET Change :
              /\ \A f \in File : announced'[f] = announced[f] \/ f \in Files(changes)
              /\ held' = held \/ held' = Append(held, r)
              /\ inbox' = inbox \o LettersOf(changes, r, Verdict(tracked))
<1> DEFINE listings == IF standIn = None THEN Failed ELSE Scan(standIn, answering, disk)
           scan == IF standIn = None THEN [snapshot |-> snapshot, tells |-> {}]
                   ELSE Rescan(snapshot, listings)
           changes == scan.tells
<1>0. ListingInv /\ Times /\ Queues
  BY DEF SessionInv
<1>1. /\ r = sent + 1 /\ sent' = r
      /\ RequestAfterChanges(r, listings)
      /\ asked' = [q \in DOMAIN asked \cup {r} |->
                     IF q = r THEN [files |-> Due(listings), sure |-> sure, text |-> text]
                     ELSE asked[q]]
      /\ UNCHANGED <<version, disk, standIn>>
  BY DEF ClientRequests, diskVars
<1>2. /\ snapshot' = scan.snapshot /\ Announced(changes)
      /\ held' = IF Verdict(tracked) = "forward" THEN held ELSE Append(held, r)
      /\ inbox' = inbox \o LettersOf(changes, r, Verdict(tracked))
  BY <1>1 DEF RequestAfterChanges, Sends, Asking, LettersOf
<1>3. DOMAIN disk \subseteq File /\ (standIn # None => DOMAIN snapshot \subseteq File)
      /\ standIn \subseteq Root
  BY <1>0, ListedAreFiles DEF ListingInv, DiskOfVersions, StandInOfRoots, ListingIsTold
<1>4. CASE standIn = None \/ listings = Failed
  <2>1. changes = {}
    BY <1>4 DEF Rescan
  <2>2. Due(listings) = announced
    BY <1>4 DEF Due
  <2>3. announced' = announced
    <3>1. announced' = [f \in File |-> announced[f]]
      BY <1>2, <2>1 DEF Announced, Files
    <3> QED
      BY <1>0, <3>1 DEF Times
  <2>4. \A f \in File : announced[f] \in Nat
    BY <1>0 DEF Times
  <2>5. changes \in SUBSET Change
    BY <2>1
  <2>6. asked'[r].files = announced /\ asked'[r].sure = sure /\ asked'[r].text = text
    BY <1>1, <2>2
  <2>7. announced \in [File -> Nat] /\ AtLeast(version, announced)
    BY <1>0 DEF Times
  <2>8. AtLeast(announced, announced)
    BY <2>4 DEF AtLeast
  <2> HIDE DEF changes, listings
  <2> QED
    BY <1>1, <1>2, <2>3, <2>5, <2>6, <2>7, <2>8
<1>5. CASE standIn # None /\ listings # Failed
  <2>1. /\ \A f \in Listed(standIn) \cap DOMAIN disk : f \in Files(changes) \/ version[f] = announced[f]
        /\ \A f \in Listed(standIn) \cap there : f \notin DOMAIN disk => f \in Files(changes)
        /\ changes \in SUBSET Change
    <3>1. PICK current : current \in listings
      BY <1>5 DEF Failed
    <3>2. /\ listings = {current}
          /\ DOMAIN current = Listed(standIn) \cap DOMAIN disk
          /\ \A f \in DOMAIN current : current[f] = disk[f]
      BY <1>5, <3>1 DEF Scan, Restrict, Failed
    <3>3. changes = Changes(snapshot, current)
      BY <1>5, <3>2 DEF Rescan
    <3>4. changes \in SUBSET Change
      BY <1>3, <1>5, <3>2, <3>3, ChangesTyped
    <3>5. /\ DOMAIN snapshot = there \cap Listed(standIn)
          /\ \A f \in DOMAIN snapshot : snapshot[f] = announced[f]
          /\ \A f \in DOMAIN disk : disk[f] = version[f]
      BY <1>0, <1>5 DEF ListingInv, ListingIsTold, DiskOfVersions
    <3>6. /\ DOMAIN current \ DOMAIN snapshot \subseteq Files(Changes(snapshot, current))
          /\ \A f \in DOMAIN current \cap DOMAIN snapshot :
               current[f] # snapshot[f] => f \in Files(Changes(snapshot, current))
      BY ChangedFiles
    <3>7. DOMAIN snapshot \ DOMAIN current \subseteq Files(Changes(snapshot, current))
      <4>1. FilesThat(Changes(snapshot, current), {"deleted"}) \subseteq Files(Changes(snapshot, current))
        BY DEF FilesThat, Files
      <4> QED
        BY <4>1, DeletedFiles
    <3> HIDE DEF changes, listings
    <3>8. ASSUME NEW f \in Listed(standIn) \cap DOMAIN disk
          PROVE  f \in Files(changes) \/ version[f] = announced[f]
      <4>1. f \in DOMAIN current /\ current[f] = version[f]
        BY <3>2, <3>5
      <4>2. CASE f \in DOMAIN snapshot
        BY <3>3, <3>5, <3>6, <4>1, <4>2
      <4>3. CASE f \notin DOMAIN snapshot
        BY <3>3, <3>6, <4>1, <4>3
      <4> QED
        BY <4>2, <4>3
    <3>9. ASSUME NEW f \in Listed(standIn) \cap there, f \notin DOMAIN disk
          PROVE  f \in Files(changes)
      BY <3>2, <3>3, <3>5, <3>7, <3>9
    <3> QED
      BY <3>4, <3>8, <3>9
  <2>2. Due(listings) = [f \in File |-> IF f \in Listed(standIn) \cap (DOMAIN disk \cup there)
                                          THEN version[f] ELSE announced[f]]
    BY <1>5 DEF Due
  <2>3. announced' = [f \in File |-> IF f \in Files(changes) THEN version[f] ELSE announced[f]]
    BY <1>2 DEF Announced
  <2>4. asked'[r].files = Due(listings) /\ asked'[r].sure = sure /\ asked'[r].text = text
    BY <1>1
  <2> HIDE DEF changes, listings
  <2>5. /\ \A f \in File : version[f] \in Nat /\ announced[f] \in Nat /\ version[f] >= announced[f]
    BY <1>0 DEF Times, AtLeast
  <2>6. Due(listings) \in [File -> Nat] /\ announced' \in [File -> Nat]
    BY <2>2, <2>3, <2>5
  <2>7. ASSUME NEW f \in File
        PROVE  /\ announced'[f] >= Due(listings)[f] /\ announced'[f] >= announced[f]
               /\ version[f] >= announced'[f]
               /\ announced'[f] = announced[f] \/ f \in Files(changes)
    BY <2>1, <2>2, <2>3, <2>5
  <2>8. /\ AtLeast(announced', asked'[r].files) /\ AtLeast(announced', announced)
        /\ AtLeast(version, announced')
    BY <2>4, <2>7 DEF AtLeast
  <2> QED
    BY <1>1, <1>2, <2>1, <2>4, <2>6, <2>7, <2>8
<1> QED
  BY <1>4, <1>5

--------------------------------------------------------------------------------
(* The mapping                                                              *)

\* The two statuses of the server.
LEMMA TwoStatuses ==
  ASSUME NEW b \in BOOLEAN
  PROVE  /\ Status(b) = Status(TRUE) <=> b
         /\ Status(b) = Status(FALSE) <=> ~b
         /\ Status(b) \in Statuses
         /\ Status(TRUE) # Status(FALSE)
<1>1. \A c \in BOOLEAN : Status(c).quiescent = c
  BY DEF Status
<1>2. CASE b = TRUE
  BY <1>1, <1>2 DEF Statuses
<1>3. CASE b = FALSE
  BY <1>1, <1>3 DEF Statuses
<1> QED
  BY <1>2, <1>3

\* A status says that the server is ready, if it is quiescent, or that it loads.
LEMMA StatusRead ==
  ASSUME OnStatus, statuses \in Seq(Statuses)
  PROVE  /\ Len(statuses) \in Nat /\ Len(statuses) >= 1
         /\ statuses' \in Seq(Statuses) /\ Len(statuses') = Len(statuses) - 1
         /\ \A i \in 1..Len(statuses') : i + 1 \in 1..Len(statuses) /\ statuses'[i] = statuses[i + 1]
         /\ tracked' \in ServerStates
         /\ tracked'.readiness = IF statuses[1] = Status(TRUE) THEN "ready" ELSE "indexing"
         /\ held' = Release(held, tracked').held
         /\ inbox' = inbox \o [i \in DOMAIN Release(held, tracked').forward |->
                                 Asking(Release(held, tracked').forward[i])]
<1>1. statuses # <<>> /\ statuses' = Tail(statuses)
  BY DEF OnStatus
<1>2. Len(statuses) \in Nat /\ Len(statuses) # 0
  BY <1>1, EmptySeq
<1>3. /\ 1 \in 1..Len(statuses) /\ Head(statuses) = statuses[1]
      /\ statuses' \in Seq(Statuses) /\ Len(statuses') = Len(statuses) - 1
      /\ \A i \in 1..Len(statuses') : statuses'[i] = statuses[i + 1]
  BY <1>1, <1>2, HeadTailProperties
<1>4. statuses[1] \in Statuses
  BY <1>3, ElementOfSeq
<1>5. PICK b \in BOOLEAN : statuses[1] = Status(b)
  BY <1>4 DEF Statuses
<1> DEFINE s == [health |-> "ok", readiness |-> IF b THEN "ready" ELSE "indexing"]
<1>6. Ra!Interpret(mapping, Status(b)).read = {s}
  BY DEF Ra!Interpret, Ra!Readable, Ra!HealthOf, Ra!ReadinessOf, Status
<1>7. (CHOOSE x \in {s} : TRUE) = s
  OBVIOUS
<1>8. tracked' = s
  BY <1>3, <1>5, <1>6, <1>7 DEF OnStatus
<1>9. tracked' \in ServerStates
  BY <1>8 DEF ServerStates, Health, Readiness
<1>10. tracked'.readiness = IF statuses[1] = Status(TRUE) THEN "ready" ELSE "indexing"
  BY <1>5, <1>8, TwoStatuses
<1>11. \A i \in 1..Len(statuses') : i + 1 \in 1..Len(statuses)
  BY <1>2, <1>3
<1>12. /\ held' = Release(held, tracked').held
       /\ inbox' = inbox \o [i \in DOMAIN Release(held, tracked').forward |->
                               Asking(Release(held, tracked').forward[i])]
  BY DEF OnStatus, Asking
<1> QED
  BY <1>2, <1>3, <1>9, <1>10, <1>11, <1>12

--------------------------------------------------------------------------------
(* What letters that are added leave as it was                              *)

\* Letters that are no document's leave the documents fitting.
LEMMA GrowDocuments ==
  ASSUME SessionInv, NEW m \in Seq(Letter), inbox' = inbox \o m,
         \A i \in 1..Len(m) : m[i].is \in {"watched", "request"},
         UNCHANGED <<buffers, opened, text>>
  PROVE  DocumentsFit'
<1>0. inbox \in Seq(Letter) /\ DocumentsFit
  BY DEF SessionInv, Queues
<1>1. /\ Len(inbox) \in Nat /\ Len(m) \in Nat /\ Len(inbox') = Len(inbox) + Len(m)
      /\ \A i \in 1..Len(m) : inbox'[Len(inbox) + i] = m[i]
  BY <1>0, Grown
<1>2. /\ \A i \in 1..Len(inbox) : i \in 1..Len(inbox') /\ inbox'[i] = inbox[i]
      /\ \A i \in 1..Len(inbox) : \A d : About(i, d)' <=> About(i, d)
  BY <1>0, SameLetters
<1>3. \A i \in 1..Len(inbox') : i \notin 1..Len(inbox) => \A d : ~About(i, d)'
  <2> SUFFICES ASSUME NEW i \in 1..Len(inbox'), i \notin 1..Len(inbox)
               PROVE  \A d : ~About(i, d)'
    OBVIOUS
  <2>1. i - Len(inbox) \in 1..Len(m) /\ i = Len(inbox) + (i - Len(inbox))
    BY <1>1
  <2>2. inbox'[i].is \in {"watched", "request"}
    BY <1>1, <2>1
  <2> QED
    BY <2>2 DEF About
<1>4. ASSUME NEW d \in Document
      PROVE  /\ (\A i \in 1..Len(inbox') : ~About(i, d)')
                  => /\ d \in DOMAIN buffers <=> d \in opened
                     /\ d \in opened => buffers[d] = text[d]
             /\ \A i \in 1..Len(inbox') : About(i, d)' =>
                  /\ (\A j \in (i + 1)..Len(inbox') : ~About(j, d)')
                       => /\ inbox'[i].is = "didClose" <=> d \notin opened
                          /\ d \in opened => inbox'[i].text = text[d]
                  /\ (\A j \in 1..(i - 1) : ~About(j, d)')
                       => (inbox'[i].is = "didOpen" <=> d \notin DOMAIN buffers)
                  /\ \A k \in (i + 1)..Len(inbox') :
                       About(k, d)' /\ (\A j \in (i + 1)..(k - 1) : ~About(j, d)')
                         => (inbox'[k].is = "didOpen" <=> inbox'[i].is = "didClose")
  <2>1. (\A i \in 1..Len(inbox') : ~About(i, d)') => \A i \in 1..Len(inbox) : ~About(i, d)
    BY <1>2
  <2>2. ASSUME NEW i \in 1..Len(inbox'), About(i, d)'
        PROVE  /\ (\A j \in (i + 1)..Len(inbox') : ~About(j, d)')
                    => /\ inbox'[i].is = "didClose" <=> d \notin opened
                       /\ d \in opened => inbox'[i].text = text[d]
               /\ (\A j \in 1..(i - 1) : ~About(j, d)')
                    => (inbox'[i].is = "didOpen" <=> d \notin DOMAIN buffers)
               /\ \A k \in (i + 1)..Len(inbox') :
                    About(k, d)' /\ (\A j \in (i + 1)..(k - 1) : ~About(j, d)')
                      => (inbox'[k].is = "didOpen" <=> inbox'[i].is = "didClose")
    <3>0. i \in 1..Len(inbox) /\ inbox'[i] = inbox[i] /\ About(i, d)
      BY <1>2, <1>3, <2>2
    <3>1. /\ (\A j \in (i + 1)..Len(inbox) : ~About(j, d))
               => /\ inbox[i].is = "didClose" <=> d \notin opened
                  /\ d \in opened => inbox[i].text = text[d]
          /\ (\A j \in 1..(i - 1) : ~About(j, d))
               => (inbox[i].is = "didOpen" <=> d \notin DOMAIN buffers)
          /\ \A k \in (i + 1)..Len(inbox) :
               About(k, d) /\ (\A j \in (i + 1)..(k - 1) : ~About(j, d))
                 => (inbox[k].is = "didOpen" <=> inbox[i].is = "didClose")
      BY <1>0, <3>0 DEF DocumentsFit
    <3>2. ASSUME \A j \in (i + 1)..Len(inbox') : ~About(j, d)'
          PROVE  \A j \in (i + 1)..Len(inbox) : ~About(j, d)
      <4>1. ASSUME NEW j \in (i + 1)..Len(inbox)
            PROVE  ~About(j, d)
        <5>1. j \in 1..Len(inbox) /\ j \in (i + 1)..Len(inbox')
          BY <1>1, <3>0
        <5> QED
          BY <1>2, <3>2, <5>1
      <4> QED
        BY <4>1
    <3>3. ASSUME \A j \in 1..(i - 1) : ~About(j, d)'
          PROVE  \A j \in 1..(i - 1) : ~About(j, d)
      <4>1. \A j \in 1..(i - 1) : j \in 1..Len(inbox)
        BY <1>1, <3>0
      <4> QED
        BY <1>2, <3>3, <4>1
    <3>4. ASSUME NEW k \in (i + 1)..Len(inbox'), About(k, d)',
                 \A j \in (i + 1)..(k - 1) : ~About(j, d)'
          PROVE  inbox'[k].is = "didOpen" <=> inbox'[i].is = "didClose"
      <4>1. k \in 1..Len(inbox')
        BY <1>1, <3>0
      <4>2. k \in 1..Len(inbox)
        BY <1>3, <3>4, <4>1
      <4>3. k \in (i + 1)..Len(inbox) /\ \A j \in (i + 1)..(k - 1) : j \in 1..Len(inbox)
        BY <1>1, <3>0, <4>2
      <4>4. About(k, d) /\ inbox'[k] = inbox[k] /\ \A j \in (i + 1)..(k - 1) : ~About(j, d)
        BY <1>2, <3>4, <4>2, <4>3
      <4> QED
        BY <3>0, <3>1, <4>3, <4>4
    <3> QED
      BY <3>0, <3>1, <3>2, <3>3, <3>4
  <2> QED
    BY <1>0, <2>1, <2>2 DEF DocumentsFit
<1> QED
  BY <1>4 DEF DocumentsFit

\* A step that only adds letters leaves what is under way as it was.
LEMMA GrowUnderway ==
  ASSUME SessionInv, NEW m \in Seq(Letter), inbox' = inbox \o m,
         UNCHANGED <<known, sure, pending, loading>>
  PROVE  Underway'
<1>0. inbox \in Seq(Letter) /\ Underway /\ Len(inbox) \in Nat
  BY DEF SessionInv, Queues
<1>1. /\ \A i \in 1..Len(inbox) : i \in 1..Len(inbox') /\ inbox'[i] = inbox[i]
      /\ \A i \in 1..Len(inbox) : \A f : TellsOf(i, f)' <=> TellsOf(i, f)
  BY <1>0, SameLetters
<1>2. \A i \in 1..Len(inbox) : \A j \in 1..(i - 1) : inbox'[j] = inbox[j]
  <2>1. \A i \in 1..Len(inbox) : \A j \in 1..(i - 1) : j \in 1..Len(inbox)
    BY <1>0
  <2> QED
    BY <1>1, <2>1
<1> QED
  BY <1>0, <1>1, <1>2 DEF Underway

--------------------------------------------------------------------------------
(* One lemma per action                                                     *)

\* What a status releases is a queue of requests, and none is released while a load
\* is awaited.
LEMMA Released ==
  ASSUME SessionInv, OnStatus
  PROVE  \E m \in Seq(Letter) :
           /\ inbox' = inbox \o m
           /\ \A i \in 1..Len(m) : m[i].is = "request" /\ m[i].id \in 1..sent
           /\ Waits => Len(m) = 0
           /\ held' \in Seq(1..sent)
<1>0. held \in Seq(1..sent) /\ statuses \in Seq(Statuses) /\ sent \in Nat
  BY DEF SessionInv, Queues
<1> DEFINE out == Release(held, tracked')
           m == [i \in DOMAIN out.forward |-> Asking(out.forward[i])]
<1>1. /\ tracked' \in ServerStates /\ held' = out.held /\ inbox' = inbox \o m
      /\ tracked'.readiness = IF statuses[1] = Status(TRUE) THEN "ready" ELSE "indexing"
      /\ Len(statuses) \in Nat /\ Len(statuses) >= 1
  BY <1>0, StatusRead
<1>2. /\ out.forward \in Seq(1..sent) /\ out.held \in Seq(1..sent)
      /\ out.forward # <<>> => Trustworthy(tracked')
  BY <1>0, <1>1, ReleaseCases, EmptySeq
<1> HIDE DEF out
<1>3. /\ DOMAIN out.forward = 1..Len(out.forward) /\ Len(out.forward) \in Nat
      /\ \A i \in 1..Len(out.forward) : out.forward[i] \in 1..sent
  <2>1. PICK fwd \in Seq(1..sent) : fwd = out.forward
    BY <1>2
  <2>2. DOMAIN fwd = 1..Len(fwd) /\ Len(fwd) \in Nat /\ \A i \in 1..Len(fwd) : fwd[i] \in 1..sent
    BY LenProperties, ElementOfSeq
  <2> QED
    BY <2>1, <2>2
<1>4. \A i \in 1..Len(out.forward) : Asking(out.forward[i]) \in Letter
  BY <1>0, <1>3 DEF Asking, Letter
<1>5. m \in [1..Len(out.forward) -> Letter]
  BY <1>3, <1>4
<1>6. m \in Seq(Letter) /\ Len(m) = Len(out.forward)
  <2> HIDE DEF m
  <2> QED
    BY <1>3, <1>5, SeqOfFunction
<1>7. \A i \in 1..Len(m) : m[i].is = "request" /\ m[i].id \in 1..sent
  BY <1>3, <1>6 DEF Asking
<1>8. Waits => Len(m) = 0
  <2>0. 1 \in 1..Len(statuses)
    BY <1>1
  <2>1. Waits => statuses[1] = Status(FALSE)
    BY <2>0 DEF Waits
  <2>2. Waits => tracked'.readiness = "indexing"
    BY <1>1, <2>1, TwoStatuses
  <2>3. Waits => ~Trustworthy(tracked')
    BY <2>2 DEF Trustworthy
  <2>4. Waits => out.forward = <<>>
    BY <1>2, <2>3
  <2> QED
    BY <1>6, <2>4
<1> HIDE DEF m
<1> QED
  BY <1>1, <1>2, <1>6, <1>7, <1>8

\* A status releases what was held behind what is on its way.
LEMMA OnStatusStep ==
  ASSUME SessionInv, OnStatus, ListingInv'
  PROVE  SessionInv'
<1>0. /\ inbox \in Seq(Letter) /\ statuses \in Seq(Statuses)
      /\ Times /\ Queues /\ Asks /\ Told /\ Awaited /\ SessionInv /\ Len(inbox) \in Nat
  BY DEF SessionInv, Queues
<1>1. PICK m \in Seq(Letter) :
        /\ inbox' = inbox \o m
        /\ \A i \in 1..Len(m) : m[i].is = "request" /\ m[i].id \in 1..sent
        /\ Waits => Len(m) = 0
        /\ held' \in Seq(1..sent)
  BY <1>0, Released
<1>2. UNCHANGED <<clock, disk, version, git, watches, seen, opened, text, standIn, snapshot,
                  documents, buffers, heard, known, pending, loading, announced, there, sure,
                  sent, asked>>
  BY DEF OnStatus, diskVars, clientVars, serverVars, historyVars
<1>3. /\ Len(m) \in Nat /\ Len(inbox') = Len(inbox) + Len(m) /\ inbox' \in Seq(Letter)
      /\ \A i \in 1..Len(inbox) : inbox'[i] = inbox[i]
      /\ \A i \in 1..Len(m) : inbox'[Len(inbox) + i] = m[i]
  BY <1>0, <1>1, Grown
<1>4. /\ \A i \in 1..Len(inbox) : i \in 1..Len(inbox') /\ \A f : TellsOf(i, f)' <=> TellsOf(i, f)
      /\ \A i \in 1..Len(inbox) : \A f : ReadAtOnce(i, f)' <=> ReadAtOnce(i, f)
  BY <1>0, <1>1, SameLetters
<1>5. \A i \in 1..Len(inbox') : i \notin 1..Len(inbox) =>
        inbox'[i].is = "request" /\ inbox'[i].id \in 1..sent
  <2> SUFFICES ASSUME NEW i \in 1..Len(inbox'), i \notin 1..Len(inbox)
               PROVE  inbox'[i].is = "request" /\ inbox'[i].id \in 1..sent
    OBVIOUS
  <2>1. i - Len(inbox) \in 1..Len(m) /\ i = Len(inbox) + (i - Len(inbox))
    BY <1>0, <1>3
  <2> QED
    BY <1>1, <1>3, <2>1
<1>6. /\ statuses' \in Seq(Statuses) /\ Len(statuses') = Len(statuses) - 1
      /\ Len(statuses) \in Nat /\ Len(statuses) >= 1
      /\ \A i \in 1..Len(statuses') : i + 1 \in 1..Len(statuses) /\ statuses'[i] = statuses[i + 1]
      /\ tracked'.readiness = IF statuses[1] = Status(TRUE) THEN "ready" ELSE "indexing"
  BY <1>0, StatusRead
<1>7. Times'
  BY <1>0, <1>2 DEF Times, AtLeast
<1>8. Queues'
  <2>1. \A i \in 1..Len(inbox') : inbox'[i].is = "request" => inbox'[i].id \in 1..sent
    BY <1>0, <1>3, <1>5 DEF Queues
  <2> QED
    BY <1>0, <1>1, <1>2, <1>3, <1>6, <2>1 DEF Queues
<1>9. Asks'
  BY <1>0, <1>2 DEF Asks, AtLeast
<1>10. Told'
  BY <1>0, <1>2, <1>4 DEF Told
<1>11. DocumentsFit'
  BY <1>0, <1>1, <1>2, GrowDocuments
<1>12. Underway'
  BY <1>0, <1>1, <1>2, GrowUnderway
<1>13. Waits => Waits'
  <2> SUFFICES ASSUME Waits
               PROVE  Waits'
    OBVIOUS
  <2>0. 1 \in 1..Len(statuses)
    BY <1>6
  <2>1. statuses[1] = Status(FALSE)
    BY <2>0 DEF Waits
  <2>2. tracked'.readiness = "indexing"
    BY <1>6, <2>1, TwoStatuses
  <2>3. \A i \in 1..Len(statuses') : statuses'[i] = Status(FALSE)
    BY <1>6 DEF Waits
  <2>4. Status(FALSE)' = Status(FALSE)
    BY DEF Status
  <2> QED
    BY <2>2, <2>3, <2>4 DEF Waits
<1>14. Awaited'
  BY <1>0, <1>2, <1>4, <1>13 DEF Awaited
<1>15. ServedWell'
  <2>1. ASSUME NEW r \in DOMAIN asked', NEW k \in 1..Len(inbox'), IsRequest(k, r)'
        PROVE  (ToldAt(k, r) /\ TextAt(k, r) /\ FreshAt(k, r))'
    <3>1. CASE k \in 1..Len(inbox)
      BY <1>0, <1>1, <1>2, <2>1, <3>1, OldRequests
    <3>2. CASE k \notin 1..Len(inbox)
      <4>1. Len(m) # 0
        BY <1>0, <1>3, <3>2
      <4>2. \A i \in k..Len(inbox') : inbox'[i].is # "watched"
        <5>1. \A i \in k..Len(inbox') : i \in 1..Len(inbox') /\ i \notin 1..Len(inbox)
          BY <1>0, <1>3, <3>2
        <5> QED
          BY <1>5, <5>1
      <4> QED
        BY ZenonT(60), <1>0, <1>1, <1>2, <1>7, <1>9, <1>10, <3>2, <4>1, <4>2, ServedNew
    <3> QED
      BY <3>1, <3>2
  <2> QED
    BY <2>1 DEF ServedWell
<1> QED
  BY <1>7, <1>8, <1>9, <1>10, <1>11, <1>12, <1>14, <1>15 DEF SessionInv

\* A queue of some requests is one of more.
LEMMA WiderSeq ==
  ASSUME NEW S, NEW T, NEW s \in Seq(S), \A x \in S : x \in T
  PROVE  s \in Seq(T)
<1>1. Len(s) \in Nat /\ DOMAIN s = 1..Len(s) /\ s \in [1..Len(s) -> S]
  BY LenProperties
<1>2. s \in [1..Len(s) -> T]
  BY <1>1
<1> QED
  BY <1>1, <1>2, SeqOfFunction

\* A request is judged after what changed on disk was told.
LEMMA ClientRequestsStep ==
  ASSUME SessionInv, NEW r \in Request, NEW answering \in SUBSET git,
         ClientRequests(r, answering), ListingInv'
  PROVE  SessionInv'
<1>0. /\ inbox \in Seq(Letter) /\ held \in Seq(1..sent) /\ sent \in Nat /\ Len(inbox) \in Nat
      /\ Times /\ Queues /\ Asks /\ Told /\ Awaited /\ SessionInv
  BY DEF SessionInv, Queues
<1>1. UNCHANGED <<clock, disk, version, git, watches, seen, opened, text, standIn, documents,
                  mapping, tracked, statuses, buffers, heard, known, pending, loading, sure>>
  BY DEF ClientRequests, diskVars, clientVars, serverVars
<1>2. /\ r = sent + 1 /\ sent' = r
      /\ DOMAIN asked' = DOMAIN asked \cup {r}
      /\ \A q \in DOMAIN asked : q # r => asked'[q] = asked[q]
      /\ asked'[r].sure = sure /\ asked'[r].text = text
      /\ asked'[r].files \in [File -> Nat] /\ announced' \in [File -> Nat]
      /\ AtLeast(announced', asked'[r].files) /\ AtLeast(announced', announced)
      /\ AtLeast(version, announced')
  BY <1>0, RequestEffect
<1>3. PICK changes \in SUBSET Change :
        /\ \A f \in File : announced'[f] = announced[f] \/ f \in Files(changes)
        /\ held' = held \/ held' = Append(held, r)
        /\ inbox' = inbox \o LettersOf(changes, r, Verdict(tracked))
  BY <1>0, RequestEffect
<1>4. r \in Nat
  BY <1>0, <1>2
<1>6. PICK m \in Seq(Letter) :
        /\ inbox' = inbox \o m
        /\ \A i \in 1..Len(m) :
             \/ m[i] = [is |-> "watched", changes |-> changes]
             \/ m[i] = Asking(r) /\ i = Len(m) /\ Verdict(tracked) = "forward"
        /\ changes # {} => \E i \in 1..Len(m) : m[i] = [is |-> "watched", changes |-> changes]
  <2>1. PICK verdict : verdict = Verdict(tracked)
    OBVIOUS
  <2>2. PICK m : m = LettersOf(changes, r, verdict)
    OBVIOUS
  <2>3. /\ m \in Seq(Letter)
        /\ \A i \in 1..Len(m) :
             \/ m[i] = [is |-> "watched", changes |-> changes]
             \/ m[i] = Asking(r) /\ i = Len(m) /\ verdict = "forward"
        /\ changes # {} => \E i \in 1..Len(m) : m[i] = [is |-> "watched", changes |-> changes]
    <3>1. m \in Seq(Letter)
      BY <1>4, <2>2, RequestLetters
    <3>2. \A i \in 1..Len(m) :
            \/ m[i] = [is |-> "watched", changes |-> changes]
            \/ m[i] = Asking(r) /\ i = Len(m) /\ verdict = "forward"
      BY <1>4, <2>2, RequestLetters
    <3>3. changes # {} => \E i \in 1..Len(m) : m[i] = [is |-> "watched", changes |-> changes]
      BY <1>4, <2>2, RequestLetters
    <3> QED
      BY <3>1, <3>2, <3>3
  <2>4. inbox' = inbox \o m
    BY <1>3, <2>1, <2>2
  <2> QED
    BY <2>1, <2>3, <2>4
<1>7. /\ Len(m) \in Nat /\ Len(inbox') = Len(inbox) + Len(m) /\ inbox' \in Seq(Letter)
      /\ \A i \in 1..Len(inbox) : inbox'[i] = inbox[i]
      /\ \A i \in 1..Len(m) : inbox'[Len(inbox) + i] = m[i]
  BY <1>0, <1>6, Grown
<1>8. /\ \A i \in 1..Len(inbox) : i \in 1..Len(inbox') /\ \A f : TellsOf(i, f)' <=> TellsOf(i, f)
      /\ \A i \in 1..Len(inbox) : \A f : ReadAtOnce(i, f)' <=> ReadAtOnce(i, f)
  BY <1>0, <1>6, SameLetters
<1>9. \A i \in 1..Len(m) : m[i].is \in {"watched", "request"} /\ (m[i].is = "request" => m[i].id = r)
  BY <1>6 DEF Asking
<1>10. \A i \in 1..Len(inbox') : i \notin 1..Len(inbox) =>
         /\ i - Len(inbox) \in 1..Len(m) /\ inbox'[i] = m[i - Len(inbox)]
  <2> SUFFICES ASSUME NEW i \in 1..Len(inbox'), i \notin 1..Len(inbox)
               PROVE  i - Len(inbox) \in 1..Len(m) /\ inbox'[i] = m[i - Len(inbox)]
    OBVIOUS
  <2>1. i - Len(inbox) \in 1..Len(m) /\ i = Len(inbox) + (i - Len(inbox))
    BY <1>0, <1>7
  <2> QED
    BY <1>7, <2>1
<1>11. Times'
  BY <1>0, <1>1, <1>2 DEF Times, AtLeast
<1>12. Queues'
  <2>1. \A i \in 1..Len(inbox') : inbox'[i].is = "request" => inbox'[i].id \in 1..sent'
    <3> SUFFICES ASSUME NEW i \in 1..Len(inbox'), inbox'[i].is = "request"
                 PROVE  inbox'[i].id \in 1..sent'
      OBVIOUS
    <3>1. CASE i \in 1..Len(inbox)
      <4>1. inbox[i].id \in 1..sent
        BY <1>0, <1>7, <3>1 DEF Queues
      <4> QED
        BY <1>0, <1>2, <1>7, <3>1, <4>1
    <3>2. CASE i \notin 1..Len(inbox)
      <4>1. inbox'[i].id = r
        BY <1>9, <1>10, <3>2
      <4> QED
        BY <1>0, <1>2, <4>1
    <3> QED
      BY <3>1, <3>2
  <2>2. held \in Seq(1..sent') /\ r \in 1..sent'
    <3>1. r \in 1..sent' /\ \A i \in 1..sent : i \in 1..sent'
      BY <1>0, <1>2
    <3> QED
      BY <1>0, <3>1, WiderSeq
  <2>3. held' \in Seq(1..sent')
    <3> DEFINE S == 1..sent'
    <3>1. held \in Seq(S) /\ r \in S
      BY <2>2
    <3> HIDE DEF S
    <3>2. Append(held, r) \in Seq(S)
      BY <3>1, AppendProperties
    <3> QED
      BY <1>3, <3>1, <3>2 DEF S
  <2>4. sent' \in Nat
    BY <1>2, <1>4
  <2> QED
    BY <1>0, <1>1, <1>7, <2>1, <2>3, <2>4 DEF Queues
<1>13. Asks'
  <2> SUFFICES ASSUME NEW q \in DOMAIN asked'
               PROVE  /\ q \in 1..sent'
                      /\ asked'[q].files \in [File -> Nat] /\ AtLeast(announced', asked'[q].files)
                      /\ asked'[q].sure \in [File -> Nat] /\ AtLeast(sure, asked'[q].sure)
                      /\ asked'[q].text \in [Document -> Nat]
                      /\ \A d \in Document : text[d] >= asked'[q].text[d]
    BY <1>1 DEF Asks, AtLeast
  <2>1. CASE q = r
    <3>1. /\ sure \in [File -> Nat] /\ text \in [Document -> Nat]
          /\ AtLeast(sure, sure) /\ \A d \in Document : text[d] >= text[d]
      BY <1>0 DEF Times, AtLeast
    <3>2. r \in 1..sent'
      BY <1>0, <1>2
    <3> QED
      BY <1>2, <2>1, <3>1, <3>2
  <2>2. CASE q # r
    <3>1. q \in DOMAIN asked /\ asked'[q] = asked[q]
      BY <1>2, <2>2
    <3>2. /\ q \in 1..sent
          /\ asked[q].files \in [File -> Nat] /\ AtLeast(announced, asked[q].files)
          /\ asked[q].sure \in [File -> Nat] /\ AtLeast(sure, asked[q].sure)
          /\ asked[q].text \in [Document -> Nat]
          /\ \A d \in Document : text[d] >= asked[q].text[d]
      BY <1>0, <3>1 DEF Asks
    <3>3. AtLeast(announced', asked[q].files)
      <4>1. announced \in [File -> Nat]
        BY <1>0 DEF Times
      <4> QED
        BY <1>2, <3>2, <4>1 DEF AtLeast
    <3>4. q \in 1..sent'
      BY <1>0, <1>2, <3>2
    <3> QED
      BY <3>1, <3>2, <3>3, <3>4
  <2> QED
    BY <2>1, <2>2
<1>14. Told'
  <2> SUFFICES ASSUME NEW f \in File
               PROVE  heard[f] >= announced'[f] \/ \E i \in 1..Len(inbox') : TellsOf(i, f)'
    BY <1>1 DEF Told
  <2>1. CASE announced'[f] = announced[f]
    BY <1>0, <1>8, <2>1 DEF Told
  <2>2. CASE f \in Files(changes)
    <3>1. PICK i \in 1..Len(m) : m[i] = [is |-> "watched", changes |-> changes]
      BY <1>6, <2>2 DEF Files
    <3>2. PICK j \in 1..Len(inbox') : inbox'[j] = m[i]
      <4>1. Len(inbox) + i \in 1..Len(inbox') /\ inbox'[Len(inbox) + i] = m[i]
        BY <1>0, <1>7
      <4> QED
        BY <4>1
    <3>3. TellsOf(j, f)'
      <4>1. inbox'[j].is = "watched" /\ inbox'[j].changes = changes
        BY <3>1, <3>2
      <4> QED
        BY <2>2, <4>1 DEF TellsOf, Files
    <3> QED
      BY <3>2, <3>3
  <2> QED
    BY <1>3, <2>1, <2>2
<1>15. DocumentsFit'
  BY <1>0, <1>1, <1>6, <1>9, GrowDocuments
<1>16. Underway'
  BY <1>0, <1>1, <1>6, GrowUnderway
<1>17. Awaited'
  <2>1. Waits' <=> Waits
    BY <1>1 DEF Waits, Status
  <2> QED
    BY <1>0, <1>1, <1>8, <2>1 DEF Awaited
<1>18. ServedWell'
  <2>1. ASSUME NEW q \in DOMAIN asked', NEW k \in 1..Len(inbox'), IsRequest(k, q)'
        PROVE  (ToldAt(k, q) /\ TextAt(k, q) /\ FreshAt(k, q))'
    <3>1. CASE k \in 1..Len(inbox)
      <4>1. \A p \in DOMAIN asked' : p \in 1..sent => p \in DOMAIN asked /\ asked'[p] = asked[p]
        BY <1>0, <1>2
      <4> QED
        BY <1>0, <1>1, <1>6, <2>1, <3>1, <4>1, OldRequests
    <3>2. CASE k \notin 1..Len(inbox)
      <4>1. inbox'[k].is = "request"
        BY <2>1 DEF IsRequest
      <4>2. k - Len(inbox) = Len(m) /\ Verdict(tracked) = "forward"
        <5>1. k - Len(inbox) \in 1..Len(m) /\ m[k - Len(inbox)].is = "request"
          BY <1>10, <3>2, <4>1
        <5>2. \A i \in 1..Len(m) : m[i].is = "request" =>
                i = Len(m) /\ Verdict(tracked) = "forward"
          BY <1>6
        <5> QED
          BY <5>1, <5>2
      <4>3. k = Len(inbox')
        BY <1>0, <1>7, <4>2
      <4>4. \A i \in k..Len(inbox') : inbox'[i].is # "watched"
        BY <4>1, <4>3
      <4>5. ~Waits
        BY <4>2 DEF Waits, Verdict, Trustworthy
      <4> QED
        BY <1>0, <1>1, <1>6, <1>9, <1>11, <1>13, <1>14, <3>2, <4>4, <4>5, ServedNew
    <3> QED
      BY <3>1, <3>2
  <2> QED
    BY <2>1 DEF ServedWell
<1> QED
  BY <1>11, <1>12, <1>13, <1>14, <1>15, <1>16, <1>17, <1>18 DEF SessionInv

\* A client that announces a created or deleted file makes the mapping expect a load.
LEMMA Predicted ==
  ASSUME ClientAnnounces
  PROVE  /\ tracked' = tracked \/ tracked'.readiness = "indexing"
         /\ FilesThat(Changes(seen, disk), {"created", "deleted"}) # {}
              => tracked'.readiness = "indexing"
<1> DEFINE changes == Changes(seen, disk)
           heralds == {[name |-> Source, kind |-> c.kind] : c \in changes}
           result == Ra!ObserveClient(mapping, [changes |-> heralds])
           s == [health |-> mapping.lastHealth, readiness |-> "indexing"]
<1>1. tracked' = IF result.read = {} THEN tracked ELSE CHOOSE x \in result.read : TRUE
  BY DEF ClientAnnounces
<1>2. result = IF Ra!Reindexes(heralds, {"created", "deleted"})
               THEN Ra!Predicts(mapping, mapping.lastHealth) ELSE Ra!Silent(mapping)
  BY DEF Ra!ObserveClient
<1>3. Ra!Predicts(mapping, mapping.lastHealth).read = {s} /\ Ra!Silent(mapping).read = {}
  BY DEF Ra!Predicts, Ra!Silent
<1>4. (CHOOSE x \in {s} : TRUE) = s /\ s.readiness = "indexing" /\ {s} # {}
  OBVIOUS
<1>5. FilesThat(changes, {"created", "deleted"}) # {}
        => Ra!Reindexes(heralds, {"created", "deleted"})
  <2> SUFFICES ASSUME FilesThat(changes, {"created", "deleted"}) # {}
               PROVE  Ra!Reindexes(heralds, {"created", "deleted"})
    OBVIOUS
  <2>1. PICK c \in changes : c.kind \in {"created", "deleted"}
    BY DEF FilesThat
  <2> DEFINE h == [name |-> Source, kind |-> c.kind]
  <2>2. h \in heralds
    OBVIOUS
  <2>3. h.kind \in {"created", "deleted"} /\ h.name[2] = ".rs"
    BY <2>1 DEF Source
  <2> HIDE DEF h, heralds
  <2> QED
    BY <2>2, <2>3 DEF Ra!Reindexes, Ra!WatchedFileChanges, Ra!IsWatchedFile
<1> HIDE DEF heralds, s
<1>6. CASE Ra!Reindexes(heralds, {"created", "deleted"})
  BY <1>1, <1>2, <1>3, <1>4, <1>6
<1>7. CASE ~Ra!Reindexes(heralds, {"created", "deleted"})
  BY <1>1, <1>2, <1>3, <1>5, <1>7
<1> QED
  BY <1>6, <1>7

\* What a client announces is the last letter of files, and a prediction keeps the
\* expectation of a load.
LEMMA ClientAnnouncesStep ==
  ASSUME SessionInv, ClientAnnounces, ListingInv'
  PROVE  SessionInv'
<1>0. /\ inbox \in Seq(Letter) /\ sent \in Nat /\ Len(inbox) \in Nat
      /\ ListingInv /\ Times /\ Queues /\ Asks /\ Told /\ Awaited /\ Underway /\ SessionInv
  BY DEF SessionInv, Queues
<1>1. UNCHANGED <<clock, disk, version, git, watches, opened, text, documents, held, statuses,
                  buffers, heard, known, pending, loading, sent, asked>>
  BY DEF ClientAnnounces, diskVars, serverVars
<1>2. PICK changes \in SUBSET Change : changes = Changes(seen, disk)
  <2>1. DOMAIN seen \subseteq File /\ DOMAIN disk \subseteq File
    BY <1>0 DEF Queues, ListingInv, DiskOfVersions
  <2>2. Changes(seen, disk) \subseteq Change
    BY <2>1, ChangesTyped
  <2> QED
    BY <2>2
<1>3. /\ changes # {} /\ inbox' = inbox \o Tells(changes) /\ Announced(changes) /\ seen' = disk
      /\ sure' = IF AtRest
                 THEN [f \in File |-> IF f \in Files(changes) THEN version[f] ELSE sure[f]]
                 ELSE sure
  BY <1>2 DEF ClientAnnounces, Sends
<1>4. PICK m \in Seq(Letter) :
        inbox' = inbox \o m /\ Len(m) = 1 /\ m[1] = [is |-> "watched", changes |-> changes]
  <2>1. /\ Tells(changes) \in Seq(Letter) /\ Len(Tells(changes)) = 1
        /\ Tells(changes)[1] = [is |-> "watched", changes |-> changes]
    BY <1>3, TellsOne
  <2> QED
    BY <1>3, <2>1
<1>5. /\ Len(inbox') = Len(inbox) + 1 /\ inbox' \in Seq(Letter)
      /\ \A i \in 1..Len(inbox) : inbox'[i] = inbox[i]
  BY <1>0, <1>4, Grown
<1>6. PICK new \in 1..Len(inbox') :
        new = Len(inbox) + 1 /\ inbox'[new] = [is |-> "watched", changes |-> changes]
  <2>1. /\ \A i \in 1..Len(m) : inbox'[Len(inbox) + i] = m[i]
    BY <1>0, <1>4, Grown
  <2>2. 1 \in 1..Len(m) /\ Len(inbox) + 1 \in 1..Len(inbox')
    BY <1>0, <1>4, <1>5
  <2> QED
    BY <1>4, <2>1, <2>2
<1>7. \A f \in Files(changes) : TellsOf(new, f)'
  BY <1>6 DEF TellsOf, Files
<1>8. \A f \in Files(changes) :
        f \notin FilesThat(changes, {"created", "deleted"}) => ReadAtOnce(new, f)'
  BY <1>6, <1>7 DEF ReadAtOnce, FilesThat
<1>9. /\ \A i \in 1..Len(inbox) : i \in 1..Len(inbox') /\ \A f : TellsOf(i, f)' <=> TellsOf(i, f)
      /\ \A i \in 1..Len(inbox) : \A f : ReadAtOnce(i, f)' <=> ReadAtOnce(i, f)
  BY <1>0, <1>4, SameLetters
<1>10. /\ announced' = [f \in File |-> IF f \in Files(changes) THEN version[f] ELSE announced[f]]
       /\ \A f \in File : version[f] \in Nat /\ announced[f] \in Nat /\ sure[f] \in Nat
       /\ AtLeast(version, announced) /\ AtLeast(version, sure)
  BY <1>0, <1>3 DEF Announced, Times
<1>11. /\ announced' \in [File -> Nat] /\ AtLeast(version, announced')
       /\ AtLeast(announced', announced)
  BY <1>10 DEF AtLeast
<1>12. sure' \in [File -> Nat] /\ AtLeast(version, sure') /\ AtLeast(sure', sure)
  <2>1. CASE AtRest
    BY <1>3, <1>10, <2>1 DEF AtLeast
  <2>2. CASE ~AtRest
    <3>1. sure' = sure /\ sure \in [File -> Nat]
      BY <1>0, <1>3, <2>2 DEF Times
    <3> QED
      BY <1>10, <3>1 DEF AtLeast
  <2> QED
    BY <2>1, <2>2
<1>13. Times'
  BY <1>0, <1>1, <1>11, <1>12 DEF Times, AtLeast
<1>14. Queues'
  <2>1. \A i \in 1..Len(inbox') : inbox'[i].is = "request" => inbox'[i].id \in 1..sent
    <3>1. \A i \in 1..Len(inbox') : i \in 1..Len(inbox) \/ i = new
      BY <1>0, <1>5, <1>6
    <3>2. \A i \in 1..Len(inbox) : inbox'[i].is = "request" => inbox'[i].id \in 1..sent
      BY <1>0, <1>5 DEF Queues
    <3>3. inbox'[new].is # "request"
      BY <1>6
    <3> QED
      BY <3>1, <3>2, <3>3
  <2>2. DOMAIN seen' \subseteq File
    BY <1>0, <1>3 DEF ListingInv, DiskOfVersions
  <2> QED
    BY <1>0, <1>1, <1>5, <2>1, <2>2 DEF Queues
<1>15. Asks'
  <2>1. \A v, w \in [File -> Nat] : \A x \in [File -> Nat] :
          AtLeast(v, w) /\ AtLeast(w, x) => AtLeast(v, x)
    BY DEF AtLeast
  <2>2. announced \in [File -> Nat] /\ sure \in [File -> Nat]
    BY <1>0 DEF Times
  <2> QED
    BY <1>0, <1>1, <1>11, <1>12, <2>1, <2>2 DEF Asks
<1>16. Told'
  BY <1>0, <1>1, <1>7, <1>9, <1>10 DEF Told
<1>17. \A i \in 1..Len(m) : m[i].is = "watched"
  BY <1>4
<1>18. DocumentsFit'
  BY <1>0, <1>1, <1>4, <1>17, GrowDocuments
<1>19. ServedWell'
  BY <1>0, <1>1, <1>4, <1>17, ServedNoNew
<1>20. Awaited'
  <2> SUFFICES ASSUME NEW f \in File
               PROVE  known[f] >= sure'[f] \/ Waits' \/ \E i \in 1..Len(inbox') : ReadAtOnce(i, f)'
    BY <1>1 DEF Awaited
  <2>1. Waits => Waits'
    BY <1>1, Predicted DEF Waits, Status
  <2>2. CASE sure'[f] = sure[f]
    BY <1>0, <1>9, <2>1, <2>2 DEF Awaited
  <2>3. CASE AtRest /\ f \in Files(changes)
    <3>1. CASE f \in FilesThat(changes, {"created", "deleted"})
      <4>1. tracked'.readiness = "indexing"
        BY <1>2, <3>1, Predicted
      <4>2. statuses' = <<>>
        BY <1>1, <2>3 DEF AtRest
      <4> QED
        BY <4>1, <4>2, EmptySeq DEF Waits
    <3>2. CASE f \notin FilesThat(changes, {"created", "deleted"})
      BY <1>8, <2>3, <3>2
    <3> QED
      BY <3>1, <3>2
  <2> QED
    BY <1>3, <2>2, <2>3
<1>21. Underway'
  <2> SUFFICES ASSUME NEW f \in File
               PROVE  \/ known[f] >= sure'[f]
                      \/ f \in pending \cup loading
                      \/ /\ pending = {} /\ loading = {}
                         /\ \E i \in 1..Len(inbox') :
                              TellsOf(i, f)' /\ \A j \in 1..(i - 1) : inbox'[j].is # "watched"
    BY <1>1 DEF Underway
  <2>1. CASE sure'[f] = sure[f]
    <3>1. \A i \in 1..Len(inbox) : \A j \in 1..(i - 1) : j \in 1..Len(inbox)
      BY <1>0
    <3> QED
      BY <1>0, <1>5, <1>9, <2>1, <3>1 DEF Underway
  <2>2. CASE AtRest /\ f \in Files(changes)
    <3>1. pending = {} /\ loading = {} /\ TellsOf(new, f)'
      BY <1>7, <2>2 DEF AtRest
    <3>2. \A j \in 1..(new - 1) : inbox'[j].is # "watched"
      <4>1. \A j \in 1..(new - 1) : j \in 1..Len(inbox)
        BY <1>0, <1>6
      <4>2. DOMAIN inbox = 1..Len(inbox)
        BY <1>0, LenProperties
      <4> QED
        BY <1>5, <2>2, <4>1, <4>2 DEF AtRest
    <3> QED
      BY <3>1, <3>2
  <2> QED
    BY <1>3, <2>1, <2>2
<1> QED
  BY <1>13, <1>14, <1>15, <1>16, <1>18, <1>19, <1>20, <1>21 DEF SessionInv

\* Nothing of what the server hears, reads and is told of files changes when a client
\* writes one letter about document d; that letter is the last, and fits.
LEMMA DocumentLetter ==
  ASSUME SessionInv, NEW d \in Document, NEW l \in Letter, inbox' = inbox \o <<l>>,
         l.is \in {"didOpen", "didChange", "didClose"}, l.doc = d,
         l.is = "didOpen" <=> d \notin opened,
         opened' = IF l.is = "didClose" THEN opened \ {d} ELSE opened \cup {d},
         text' \in [Document -> Nat],
         \A e \in Document : text'[e] >= text[e] /\ clock' >= text'[e],
         \A e \in Document : e # d => text'[e] = text[e],
         l.text = text'[d],
         clock' \in Nat, clock' >= clock,
         documents' = opened',
         UNCHANGED <<version, heard, known, announced, sure, sent, statuses, held, pending,
                     loading, seen, buffers, asked, tracked>>,
         ListingInv'
  PROVE  SessionInv'
<1>0. /\ inbox \in Seq(Letter) /\ sent \in Nat /\ Len(inbox) \in Nat
      /\ Times /\ Queues /\ Asks /\ Told /\ Awaited /\ DocumentsFit /\ SessionInv
  BY DEF SessionInv, Queues
<1>1. PICK m \in Seq(Letter) : inbox' = inbox \o m /\ Len(m) = 1 /\ m[1] = l
  BY OneLetter
<1>2. /\ Len(inbox') = Len(inbox) + 1 /\ inbox' \in Seq(Letter)
      /\ \A i \in 1..Len(inbox) : inbox'[i] = inbox[i]
  BY <1>0, <1>1, Grown
<1>3. PICK new \in 1..Len(inbox') : new = Len(inbox) + 1 /\ inbox'[new] = l
  <2>1. \A i \in 1..Len(m) : inbox'[Len(inbox) + i] = m[i]
    BY <1>0, <1>1, Grown
  <2>2. 1 \in 1..Len(m) /\ Len(inbox) + 1 \in 1..Len(inbox')
    BY <1>0, <1>1, <1>2
  <2> QED
    BY <1>1, <2>1, <2>2
<1>4. /\ \A i \in 1..Len(inbox) : i \in 1..Len(inbox') /\ \A f : TellsOf(i, f)' <=> TellsOf(i, f)
      /\ \A i \in 1..Len(inbox) : \A f : ReadAtOnce(i, f)' <=> ReadAtOnce(i, f)
      /\ \A i \in 1..Len(inbox) : \A e : About(i, e)' <=> About(i, e)
  BY <1>0, <1>1, SameLetters
<1>5. \A i \in 1..Len(inbox') : i \in 1..Len(inbox) \/ i = new
  BY <1>0, <1>2, <1>3
<1>6. About(new, d)' /\ \A e : e # d => ~About(new, e)'
  BY <1>3 DEF About
<1>7. Times'
  <2>1. \A f \in File : version[f] <= clock'
    BY <1>0 DEF Times
  <2> QED
    BY <1>0, <2>1 DEF Times, AtLeast
<1>8. Queues'
  <2>1. \A i \in 1..Len(inbox') : inbox'[i].is = "request" => inbox'[i].id \in 1..sent
    <3>1. \A i \in 1..Len(inbox) : inbox'[i].is = "request" => inbox'[i].id \in 1..sent
      BY <1>0, <1>2 DEF Queues
    <3>2. inbox'[new].is # "request"
      BY <1>3
    <3> QED
      BY <1>5, <3>1, <3>2
  <2>2. opened' \subseteq Document
    BY <1>0 DEF Queues
  <2> QED
    BY <1>0, <1>2, <2>1, <2>2 DEF Queues
<1>9. Asks'
  <2> SUFFICES ASSUME NEW r \in DOMAIN asked
               PROVE  /\ r \in 1..sent
                      /\ asked[r].files \in [File -> Nat] /\ AtLeast(announced, asked[r].files)
                      /\ asked[r].sure \in [File -> Nat] /\ AtLeast(sure, asked[r].sure)
                      /\ asked[r].text \in [Document -> Nat]
                      /\ \A e \in Document : text'[e] >= asked[r].text[e]
    BY DEF Asks, AtLeast
  <2>1. \A e \in Document : text[e] \in Nat /\ text'[e] \in Nat
    BY <1>0 DEF Times
  <2>2. \A e \in Document : asked[r].text[e] \in Nat /\ text[e] >= asked[r].text[e]
    BY <1>0 DEF Asks
  <2>3. \A e \in Document : text'[e] >= asked[r].text[e]
    BY <2>1, <2>2
  <2> QED
    BY <1>0, <2>3 DEF Asks
<1>10. Told'
  BY <1>0, <1>4 DEF Told
<1>11. Awaited'
  <2>1. Waits' <=> Waits
    BY DEF Waits, Status
  <2> QED
    BY <1>0, <1>4, <2>1 DEF Awaited
<1>12. Underway'
  BY <1>0, <1>1, GrowUnderway
<1>13. ServedWell'
  <2>1. \A i \in 1..Len(m) : m[i].is # "request"
    BY <1>1
  <2> QED
    BY <1>0, <1>1, <2>1, ServedNoNew
<1>14. DocumentsFit'
  <2> SUFFICES ASSUME NEW e \in Document
               PROVE  /\ (\A i \in 1..Len(inbox') : ~About(i, e)')
                           => /\ e \in DOMAIN buffers <=> e \in opened'
                              /\ e \in opened' => buffers[e] = text'[e]
                      /\ \A i \in 1..Len(inbox') : About(i, e)' =>
                           /\ (\A j \in (i + 1)..Len(inbox') : ~About(j, e)')
                                => /\ inbox'[i].is = "didClose" <=> e \notin opened'
                                   /\ e \in opened' => inbox'[i].text = text'[e]
                           /\ (\A j \in 1..(i - 1) : ~About(j, e)')
                                => (inbox'[i].is = "didOpen" <=> e \notin DOMAIN buffers)
                           /\ \A k \in (i + 1)..Len(inbox') :
                                About(k, e)' /\ (\A j \in (i + 1)..(k - 1) : ~About(j, e)')
                                  => (inbox'[k].is = "didOpen" <=> inbox'[i].is = "didClose")
    BY SMTT(60) DEF DocumentsFit
  <2>0. /\ \A i \in 1..Len(inbox) : About(i, e) =>
             /\ (\A j \in (i + 1)..Len(inbox) : ~About(j, e))
                  => /\ inbox[i].is = "didClose" <=> e \notin opened
                     /\ e \in opened => inbox[i].text = text[e]
             /\ (\A j \in 1..(i - 1) : ~About(j, e))
                  => (inbox[i].is = "didOpen" <=> e \notin DOMAIN buffers)
             /\ \A k \in (i + 1)..Len(inbox) :
                  About(k, e) /\ (\A j \in (i + 1)..(k - 1) : ~About(j, e))
                    => (inbox[k].is = "didOpen" <=> inbox[i].is = "didClose")
        /\ (\A i \in 1..Len(inbox) : ~About(i, e))
             => /\ e \in DOMAIN buffers <=> e \in opened
                /\ e \in opened => buffers[e] = text[e]
    BY <1>0 DEF DocumentsFit
  <2>1. ASSUME \A i \in 1..Len(inbox') : ~About(i, e)'
        PROVE  (e \in DOMAIN buffers <=> e \in opened') /\ (e \in opened' => buffers[e] = text'[e])
    <3>1. e # d
      BY <1>6, <2>1
    <3>2. \A i \in 1..Len(inbox) : ~About(i, e)
      BY <1>4, <2>1
    <3>3. (e \in opened' <=> e \in opened) /\ text'[e] = text[e]
      BY <3>1
    <3> QED
      BY <2>0, <3>2, <3>3
  <2>2. ASSUME NEW i \in 1..Len(inbox'), About(i, e)'
        PROVE  /\ (\A j \in (i + 1)..Len(inbox') : ~About(j, e)')
                    => /\ inbox'[i].is = "didClose" <=> e \notin opened'
                       /\ e \in opened' => inbox'[i].text = text'[e]
               /\ (\A j \in 1..(i - 1) : ~About(j, e)')
                    => (inbox'[i].is = "didOpen" <=> e \notin DOMAIN buffers)
               /\ \A k \in (i + 1)..Len(inbox') :
                    About(k, e)' /\ (\A j \in (i + 1)..(k - 1) : ~About(j, e)')
                      => (inbox'[k].is = "didOpen" <=> inbox'[i].is = "didClose")
    <3>1. ASSUME \A j \in (i + 1)..Len(inbox') : ~About(j, e)'
          PROVE  /\ inbox'[i].is = "didClose" <=> e \notin opened'
                 /\ e \in opened' => inbox'[i].text = text'[e]
      <4>1. CASE i = new
        <5>1. e = d /\ inbox'[i] = l
          BY <1>3, <1>6, <2>2, <4>1
        <5> QED
          BY <5>1
      <4>2. CASE i # new
        <5>1. i \in 1..Len(inbox) /\ new \in (i + 1)..Len(inbox')
          BY <1>0, <1>3, <1>5, <4>2
        <5>2. e # d
          BY <1>6, <3>1, <5>1
        <5>3. About(i, e) /\ inbox'[i] = inbox[i]
          BY <1>2, <1>4, <2>2, <5>1
        <5>4. \A j \in (i + 1)..Len(inbox) : ~About(j, e)
          <6>1. \A j \in (i + 1)..Len(inbox) : j \in 1..Len(inbox) /\ j \in (i + 1)..Len(inbox')
            BY <1>0, <1>2, <5>1
          <6> QED
            BY <1>4, <3>1, <6>1
        <5>5. (e \in opened' <=> e \in opened) /\ text'[e] = text[e]
          BY <5>2
        <5> QED
          BY <2>0, <5>1, <5>3, <5>4, <5>5
      <4> QED
        BY <4>1, <4>2
    <3>2. ASSUME \A j \in 1..(i - 1) : ~About(j, e)'
          PROVE  inbox'[i].is = "didOpen" <=> e \notin DOMAIN buffers
      <4>1. CASE i = new
        <5>1. e = d /\ inbox'[i] = l
          BY <1>3, <1>6, <2>2, <4>1
        <5>2. \A j \in 1..Len(inbox) : j \in 1..(i - 1)
          BY <1>0, <1>3, <4>1
        <5>3. \A j \in 1..Len(inbox) : ~About(j, e)
          BY <1>4, <3>2, <5>2
        <5> QED
          BY <2>0, <5>1, <5>3
      <4>2. CASE i # new
        <5>1. i \in 1..Len(inbox) /\ \A j \in 1..(i - 1) : j \in 1..Len(inbox)
          BY <1>0, <1>5, <4>2
        <5>2. About(i, e) /\ inbox'[i] = inbox[i] /\ \A j \in 1..(i - 1) : ~About(j, e)
          BY <1>2, <1>4, <2>2, <3>2, <5>1
        <5> QED
          BY <2>0, <5>1, <5>2
      <4> QED
        BY <4>1, <4>2
    <3>3. ASSUME NEW k \in (i + 1)..Len(inbox'), About(k, e)',
                 \A j \in (i + 1)..(k - 1) : ~About(j, e)'
          PROVE  inbox'[k].is = "didOpen" <=> inbox'[i].is = "didClose"
      <4>0. k \in 1..Len(inbox') /\ i \in 1..Len(inbox)
        BY <1>0, <1>2, <1>3, <1>5
      <4>1. About(i, e) /\ inbox'[i] = inbox[i]
        BY <1>2, <1>4, <2>2, <4>0
      <4>2. CASE k = new
        <5>1. e = d /\ inbox'[k] = l
          BY <1>3, <1>6, <3>3, <4>2
        <5>2. \A j \in (i + 1)..Len(inbox) : ~About(j, e)
          <6>1. \A j \in (i + 1)..Len(inbox) : j \in 1..Len(inbox) /\ j \in (i + 1)..(k - 1)
            BY <1>0, <1>3, <4>0, <4>2
          <6> QED
            BY <1>4, <3>3, <6>1
        <5> QED
          BY <2>0, <4>0, <4>1, <5>1, <5>2
      <4>3. CASE k # new
        <5>1. /\ k \in 1..Len(inbox) /\ k \in (i + 1)..Len(inbox)
              /\ \A j \in (i + 1)..(k - 1) : j \in 1..Len(inbox)
          BY <1>0, <1>5, <4>0, <4>3
        <5>2. About(k, e) /\ inbox'[k] = inbox[k] /\ \A j \in (i + 1)..(k - 1) : ~About(j, e)
          BY <1>2, <1>4, <3>3, <5>1
        <5> QED
          BY <2>0, <4>0, <4>1, <5>1, <5>2
      <4> QED
        BY <4>2, <4>3
    <3> QED
      BY <3>1, <3>2, <3>3
  <2> QED
    BY <2>1, <2>2
<1> QED
  BY <1>7, <1>8, <1>9, <1>10, <1>11, <1>12, <1>13, <1>14 DEF SessionInv

\* didOpen, didChange and didClose each write one letter that fits.
LEMMA ClientDocumentStep ==
  ASSUME SessionInv, NEW d \in Document,
         ClientOpens(d) \/ ClientChanges(d) \/ ClientClosesDocument(d), ListingInv'
  PROVE  SessionInv'
<1> USE DEF diskVars, clientVars, proxyVars, serverVars, historyVars
<1>0. /\ documents = opened /\ text \in [Document -> Nat] /\ clock \in Nat
      /\ \A e \in Document : text[e] <= clock
  BY DEF SessionInv, Times, Queues
<1>1. ASSUME Types(d)
      PROVE  /\ text' \in [Document -> Nat] /\ clock' \in Nat /\ clock' >= clock
             /\ \A e \in Document : text'[e] >= text[e] /\ clock' >= text'[e]
             /\ \A e \in Document : e # d => text'[e] = text[e]
             /\ text'[d] \in Nat
  BY <1>0, <1>1 DEF Types
<1>2. CASE ClientOpens(d)
  <2> DEFINE l == [is |-> OnDidOpen(documents, d).sends, doc |-> d, text |-> text'[d]]
  <2>1. Types(d) /\ documents' = opened' /\ opened' = opened \cup {d} /\ inbox' = inbox \o <<l>>
    BY <1>0, <1>2 DEF ClientOpens, OnDidOpen, Sends
  <2>2. /\ l.is \in {"didOpen", "didChange"} /\ l.doc = d /\ l.text = text'[d]
        /\ l.is = "didOpen" <=> d \notin opened
    BY <1>0 DEF OnDidOpen
  <2>3. l \in Letter
    BY <1>1, <2>1, <2>2 DEF Letter, OnDidOpen
  <2>4. UNCHANGED <<version, heard, known, announced, sure, sent, statuses, held, pending,
                    loading, seen, buffers, asked, tracked>>
    BY <1>2 DEF ClientOpens, Types
  <2> HIDE DEF l
  <2> QED
    BY <1>1, <2>1, <2>2, <2>3, <2>4, DocumentLetter
<1>3. CASE ClientChanges(d)
  <2> DEFINE l == [is |-> "didChange", doc |-> d, text |-> text'[d]]
  <2>1. Types(d) /\ documents' = opened' /\ opened' = opened /\ d \in opened /\ inbox' = inbox \o <<l>>
    BY <1>0, <1>3 DEF ClientChanges, Sends
  <2>2. l.is = "didChange" /\ l.doc = d /\ l.text = text'[d]
    OBVIOUS
  <2>3. l \in Letter
    BY <1>1, <2>1 DEF Letter
  <2>4. UNCHANGED <<version, heard, known, announced, sure, sent, statuses, held, pending,
                    loading, seen, buffers, asked, tracked>>
    BY <1>3 DEF ClientChanges, Types
  <2>5. opened' = opened \cup {d}
    BY <2>1
  <2> HIDE DEF l
  <2> QED
    BY <1>1, <2>1, <2>2, <2>3, <2>4, <2>5, DocumentLetter
<1>4. CASE ClientClosesDocument(d)
  <2> DEFINE l == [is |-> "didClose", doc |-> d, text |-> text[d]]
  <2>1. /\ documents' = opened' /\ opened' = opened \ {d} /\ d \in opened /\ inbox' = inbox \o <<l>>
        /\ text' = text /\ clock' = clock
    BY <1>0, <1>4 DEF ClientClosesDocument, OnDidClose, Sends
  <2>2. l.is = "didClose" /\ l.doc = d /\ l.text = text'[d]
    BY <2>1
  <2>3. l \in Letter
    BY <1>0 DEF Letter
  <2>4. UNCHANGED <<version, heard, known, announced, sure, sent, statuses, held, pending,
                    loading, seen, buffers, asked, tracked>>
    BY <1>4 DEF ClientClosesDocument
  <2>5. \A e \in Document : text'[e] >= text[e] /\ clock' >= text'[e]
    BY <1>0, <2>1
  <2> HIDE DEF l
  <2> QED
    BY <1>0, <2>1, <2>2, <2>3, <2>4, <2>5, DocumentLetter
<1> QED
  BY <1>2, <1>3, <1>4

\* The letters that wait say the same after the first one was read.
LEMMA ShiftedLetters ==
  ASSUME SessionInv, inbox # <<>>, inbox' = Tail(inbox)
  PROVE  /\ Len(inbox) \in Nat /\ Len(inbox) >= 1 /\ 1 \in 1..Len(inbox)
         /\ Head(inbox) = inbox[1] /\ inbox[1] \in Letter
         /\ inbox' \in Seq(Letter) /\ Len(inbox') = Len(inbox) - 1
         /\ \A i \in 1..Len(inbox') : i + 1 \in 1..Len(inbox) /\ inbox'[i] = inbox[i + 1]
         /\ \A i \in 1..Len(inbox') : inbox'[i].is = "request" => inbox'[i].id \in 1..sent
         /\ \A i \in 1..Len(inbox) : i = 1 \/ \E j \in 1..Len(inbox') : i = j + 1
         /\ \A i \in 1..Len(inbox') : \A f : TellsOf(i, f)' <=> TellsOf(i + 1, f)
         /\ \A i \in 1..Len(inbox') : \A f : ReadAtOnce(i, f)' <=> ReadAtOnce(i + 1, f)
         /\ \A i \in 1..Len(inbox') : \A d : About(i, d)' <=> About(i + 1, d)
         /\ \A i \in 1..Len(inbox') : \A r : IsRequest(i, r)' <=> IsRequest(i + 1, r)
<1>1. inbox \in Seq(Letter)
  BY DEF SessionInv, Queues
<1>2. /\ Len(inbox) \in Nat /\ Len(inbox) >= 1
      /\ Head(inbox) = inbox[1] /\ inbox[1] \in Letter
      /\ inbox' \in Seq(Letter) /\ Len(inbox') = Len(inbox) - 1
      /\ \A i \in 1..Len(inbox') : i + 1 \in 1..Len(inbox) /\ inbox'[i] = inbox[i + 1]
  BY <1>1, Shifted
<1>3. \A i \in 1..Len(inbox') : inbox'[i].is = "request" => inbox'[i].id \in 1..sent
  <2>1. \A i \in 1..Len(inbox) : inbox[i].is = "request" => inbox[i].id \in 1..sent
    BY DEF SessionInv, Queues
  <2> QED
    BY <1>2, <2>1
<1>4. \A i \in 1..Len(inbox) : i = 1 \/ \E j \in 1..Len(inbox') : i = j + 1
  <2>1. ASSUME NEW i \in 1..Len(inbox), i # 1
        PROVE  i - 1 \in 1..Len(inbox') /\ i = (i - 1) + 1
    BY <1>2, <2>1
  <2> QED
    BY <2>1
<1>5. 1 \in 1..Len(inbox)
  BY <1>2
<1>6. /\ \A i \in 1..Len(inbox') : \A f : TellsOf(i, f)' <=> TellsOf(i + 1, f)
      /\ \A i \in 1..Len(inbox') : \A f : ReadAtOnce(i, f)' <=> ReadAtOnce(i + 1, f)
      /\ \A i \in 1..Len(inbox') : \A d : About(i, d)' <=> About(i + 1, d)
      /\ \A i \in 1..Len(inbox') : \A r : IsRequest(i, r)' <=> IsRequest(i + 1, r)
  BY <1>2 DEF TellsOf, ReadAtOnce, About, IsRequest
<1> QED
  BY <1>2, <1>3, <1>4, <1>5, <1>6

\* A letter that is no document's leaves the documents fitting when it is read.
LEMMA ReadElsewhere ==
  ASSUME SessionInv, inbox # <<>>, inbox' = Tail(inbox),
         inbox[1].is \in {"watched", "request"}, UNCHANGED <<buffers, opened, text>>
  PROVE  DocumentsFit'
<1>1. /\ Len(inbox) \in Nat /\ Len(inbox') = Len(inbox) - 1 /\ 1 \in 1..Len(inbox)
      /\ \A i \in 1..Len(inbox') : i + 1 \in 1..Len(inbox) /\ inbox'[i] = inbox[i + 1]
      /\ \A i \in 1..Len(inbox) : i = 1 \/ \E j \in 1..Len(inbox') : i = j + 1
      /\ \A i \in 1..Len(inbox') : \A d : About(i, d)' <=> About(i + 1, d)
  BY ShiftedLetters
<1>2. \A d : ~About(1, d)
  BY DEF About
<1> SUFFICES ASSUME NEW d \in Document
             PROVE  /\ (\A i \in 1..Len(inbox') : ~About(i, d)')
                         => /\ d \in DOMAIN buffers <=> d \in opened
                            /\ d \in opened => buffers[d] = text[d]
                    /\ \A i \in 1..Len(inbox') : About(i, d)' =>
                         /\ (\A j \in (i + 1)..Len(inbox') : ~About(j, d)')
                              => /\ inbox'[i].is = "didClose" <=> d \notin opened
                                 /\ d \in opened => inbox'[i].text = text[d]
                         /\ (\A j \in 1..(i - 1) : ~About(j, d)')
                              => (inbox'[i].is = "didOpen" <=> d \notin DOMAIN buffers)
                         /\ \A k \in (i + 1)..Len(inbox') :
                              About(k, d)' /\ (\A j \in (i + 1)..(k - 1) : ~About(j, d)')
                                => (inbox'[k].is = "didOpen" <=> inbox'[i].is = "didClose")
  BY DEF DocumentsFit
<1>3. /\ \A i \in 1..Len(inbox) : About(i, d) =>
           /\ (\A j \in (i + 1)..Len(inbox) : ~About(j, d))
                => /\ inbox[i].is = "didClose" <=> d \notin opened
                   /\ d \in opened => inbox[i].text = text[d]
           /\ (\A j \in 1..(i - 1) : ~About(j, d))
                => (inbox[i].is = "didOpen" <=> d \notin DOMAIN buffers)
           /\ \A k \in (i + 1)..Len(inbox) :
                About(k, d) /\ (\A j \in (i + 1)..(k - 1) : ~About(j, d))
                  => (inbox[k].is = "didOpen" <=> inbox[i].is = "didClose")
      /\ (\A i \in 1..Len(inbox) : ~About(i, d))
           => /\ d \in DOMAIN buffers <=> d \in opened
              /\ d \in opened => buffers[d] = text[d]
  BY DEF SessionInv, DocumentsFit
<1>4. (\A i \in 1..Len(inbox') : ~About(i, d)')
        => /\ d \in DOMAIN buffers <=> d \in opened
           /\ d \in opened => buffers[d] = text[d]
  <2>1. ASSUME \A i \in 1..Len(inbox') : ~About(i, d)'
        PROVE  \A i \in 1..Len(inbox) : ~About(i, d)
    BY <1>1, <1>2, <2>1
  <2> QED
    BY <1>3, <2>1
<1>5. ASSUME NEW i \in 1..Len(inbox'), About(i, d)'
      PROVE  /\ (\A j \in (i + 1)..Len(inbox') : ~About(j, d)')
                  => /\ inbox'[i].is = "didClose" <=> d \notin opened
                     /\ d \in opened => inbox'[i].text = text[d]
             /\ (\A j \in 1..(i - 1) : ~About(j, d)')
                  => (inbox'[i].is = "didOpen" <=> d \notin DOMAIN buffers)
             /\ \A k \in (i + 1)..Len(inbox') :
                  About(k, d)' /\ (\A j \in (i + 1)..(k - 1) : ~About(j, d)')
                    => (inbox'[k].is = "didOpen" <=> inbox'[i].is = "didClose")
  <2>0. PICK b \in 1..Len(inbox) : b = i + 1 /\ inbox'[i] = inbox[b] /\ About(b, d)
    BY <1>1, <1>5
  <2>1. ASSUME \A j \in (i + 1)..Len(inbox') : ~About(j, d)'
        PROVE  \A j \in (b + 1)..Len(inbox) : ~About(j, d)
    <3> SUFFICES ASSUME NEW j \in (b + 1)..Len(inbox)
                 PROVE  ~About(j, d)
      OBVIOUS
    <3>1. j - 1 \in (i + 1)..Len(inbox') /\ j - 1 \in 1..Len(inbox') /\ j = (j - 1) + 1
      BY <1>1, <2>0
    <3>2. PICK h : h = j - 1
      OBVIOUS
    <3> QED
      BY <1>1, <2>1, <3>1, <3>2
  <2>2. ASSUME \A j \in 1..(i - 1) : ~About(j, d)'
        PROVE  \A j \in 1..(b - 1) : ~About(j, d)
    <3> SUFFICES ASSUME NEW j \in 1..(b - 1)
                 PROVE  ~About(j, d)
      OBVIOUS
    <3>1. CASE j = 1
      BY <1>2, <3>1
    <3>2. CASE j # 1
      <4>1. PICK h : h = j - 1
        OBVIOUS
      <4>2. h \in 1..(i - 1) /\ h \in 1..Len(inbox') /\ j = h + 1
        BY <1>1, <2>0, <3>2, <4>1
      <4> QED
        BY <1>1, <2>2, <4>2
    <3> QED
      BY <3>1, <3>2
  <2>3. ASSUME NEW k \in (i + 1)..Len(inbox'), About(k, d)',
               \A j \in (i + 1)..(k - 1) : ~About(j, d)'
        PROVE  inbox'[k].is = "didOpen" <=> inbox'[i].is = "didClose"
    <3>1. k \in 1..Len(inbox') /\ k + 1 \in (b + 1)..Len(inbox)
      BY <1>1, <2>0
    <3>2. PICK c \in (b + 1)..Len(inbox) : c = k + 1 /\ inbox'[k] = inbox[c] /\ About(c, d)
      BY <1>1, <2>3, <3>1
    <3>3. \A j \in (b + 1)..(c - 1) : ~About(j, d)
      <4> SUFFICES ASSUME NEW j \in (b + 1)..(c - 1)
                   PROVE  ~About(j, d)
        OBVIOUS
      <4>1. PICK h : h = j - 1
        OBVIOUS
      <4>2. h \in (i + 1)..(k - 1) /\ h \in 1..Len(inbox') /\ j = h + 1
        BY <1>1, <2>0, <3>1, <3>2, <4>1
      <4> QED
        BY <1>1, <2>3, <4>2
    <3> QED
      BY <1>3, <2>0, <3>2, <3>3
  <2> QED
    BY <1>3, <2>0, <2>1, <2>2, <2>3
<1> QED
  BY <1>4, <1>5

\* What it has of the documents when it comes to a request stays the same, too.
LEMMA TextElsewhere ==
  ASSUME SessionInv, inbox # <<>>, inbox' = Tail(inbox),
         inbox[1].is \in {"watched", "request"}, UNCHANGED buffers,
         NEW k \in 1..Len(inbox'), NEW r, asked'[r] = asked[r],
         NEW n, n = k + 1, TextAt(n, r)
  PROVE  TextAt(k, r)'
<1>1. /\ Len(inbox) \in Nat /\ Len(inbox') = Len(inbox) - 1 /\ 1 \in 1..Len(inbox)
      /\ \A i \in 1..Len(inbox') : i + 1 \in 1..Len(inbox) /\ inbox'[i] = inbox[i + 1]
      /\ \A i \in 1..Len(inbox') : \A d : About(i, d)' <=> About(i + 1, d)
  BY ShiftedLetters
<1>2. \A d : ~About(1, d)
  BY DEF About
<1> SUFFICES ASSUME NEW d \in Document
             PROVE  /\ (\A i \in 1..(k - 1) : ~About(i, d)') /\ d \in DOMAIN buffers
                         => buffers[d] >= asked[r].text[d]
                    /\ \A i \in 1..(k - 1) :
                         /\ About(i, d)' /\ inbox'[i].is # "didClose"
                         /\ \A j \in (i + 1)..(k - 1) : ~About(j, d)'
                         => inbox'[i].text >= asked[r].text[d]
  BY DEF TextAt
<1>3. ASSUME \A i \in 1..(k - 1) : ~About(i, d)', d \in DOMAIN buffers
      PROVE  buffers[d] >= asked[r].text[d]
  <2>1. \A j \in 1..(n - 1) : ~About(j, d)
    <3> SUFFICES ASSUME NEW j \in 1..(n - 1)
                 PROVE  ~About(j, d)
      OBVIOUS
    <3>1. CASE j = 1
      BY <1>2, <3>1
    <3>2. CASE j # 1
      <4>1. PICK h : h = j - 1
        OBVIOUS
      <4>2. h \in 1..(k - 1) /\ h \in 1..Len(inbox') /\ j = h + 1
        BY <1>1, <3>2, <4>1
      <4> QED
        BY <1>1, <1>3, <4>2
    <3> QED
      BY <3>1, <3>2
  <2> QED
    BY <1>3, <2>1 DEF TextAt
<1>4. ASSUME NEW i \in 1..(k - 1), About(i, d)', inbox'[i].is # "didClose",
             \A j \in (i + 1)..(k - 1) : ~About(j, d)'
      PROVE  inbox'[i].text >= asked[r].text[d]
  <2>0. i \in 1..Len(inbox')
    BY <1>1
  <2>1. PICK b \in 1..(n - 1) : b = i + 1 /\ inbox'[i] = inbox[b] /\ About(b, d)
    <3>1. i + 1 \in 1..(n - 1)
      BY <1>1
    <3> QED
      BY <1>1, <1>4, <2>0, <3>1
  <2>2. \A j \in (b + 1)..(n - 1) : ~About(j, d)
    <3> SUFFICES ASSUME NEW j \in (b + 1)..(n - 1)
                 PROVE  ~About(j, d)
      OBVIOUS
    <3>1. PICK h : h = j - 1
      OBVIOUS
    <3>2. h \in (i + 1)..(k - 1) /\ h \in 1..Len(inbox') /\ j = h + 1
      BY <1>1, <2>1, <3>1
    <3> QED
      BY <1>1, <1>4, <3>2
  <2> QED
    BY <1>4, <2>1, <2>2 DEF TextAt
<1> QED
  BY <1>3, <1>4

\* A server that is told of files reads some at once and will load the others.
LEMMA ServerHearsOfFilesStep ==
  ASSUME SessionInv, ServerHearsOfFiles, ListingInv'
  PROVE  SessionInv'
<1> USE DEF diskVars, clientVars, proxyVars, serverVars, historyVars
<1>0. /\ Times /\ Queues /\ Asks /\ Told /\ Awaited /\ Underway /\ ServedWell /\ SessionInv
  BY DEF SessionInv
<1>1. inbox # <<>> /\ Head(inbox).is = "watched" /\ inbox' = Tail(inbox)
  BY DEF ServerHearsOfFiles, Reads
<1>2. /\ Len(inbox) \in Nat /\ Len(inbox') = Len(inbox) - 1 /\ 1 \in 1..Len(inbox)
      /\ Head(inbox) = inbox[1] /\ inbox[1] \in Letter /\ inbox' \in Seq(Letter)
      /\ \A i \in 1..Len(inbox') : i + 1 \in 1..Len(inbox) /\ inbox'[i] = inbox[i + 1]
      /\ \A i \in 1..Len(inbox') : inbox'[i].is = "request" => inbox'[i].id \in 1..sent
      /\ \A i \in 1..Len(inbox) : i = 1 \/ \E j \in 1..Len(inbox') : i = j + 1
      /\ \A i \in 1..Len(inbox') : \A f : TellsOf(i, f)' <=> TellsOf(i + 1, f)
      /\ \A i \in 1..Len(inbox') : \A f : ReadAtOnce(i, f)' <=> ReadAtOnce(i + 1, f)
      /\ \A i \in 1..Len(inbox') : \A r : IsRequest(i, r)' <=> IsRequest(i + 1, r)
  BY <1>0, <1>1, ShiftedLetters
<1>3. PICK all : all = Files(inbox[1].changes)
  OBVIOUS
<1>4. PICK again : again = FilesThat(inbox[1].changes, {"created", "deleted"})
  OBVIOUS
<1>5. /\ heard' = [f \in File |-> IF f \in all THEN version[f] ELSE heard[f]]
      /\ known' = [f \in File |-> IF f \in all \ again THEN version[f] ELSE known[f]]
      /\ pending' = pending \cup again
      /\ UNCHANGED <<clock, disk, version, git, watches, seen, opened, text, standIn, snapshot,
                     documents, mapping, tracked, held, statuses, buffers, loading, announced,
                     there, sure, sent, asked>>
  BY <1>2, <1>3, <1>4 DEF ServerHearsOfFiles
<1>6. /\ \A f : TellsOf(1, f) => f \in all
      /\ \A f : ReadAtOnce(1, f) => f \in all \ again
      /\ again \subseteq File
  <2>1. again \subseteq all
    BY <1>3, <1>4 DEF Files, FilesThat
  <2>2. all \subseteq File
    BY <1>1, <1>2, <1>3, LetterFields DEF Files, Change
  <2> QED
    BY <1>3, <1>4, <2>1, <2>2 DEF TellsOf, ReadAtOnce
<1>7. \A f \in File : /\ version[f] \in Nat /\ heard[f] \in Nat /\ known[f] \in Nat
                      /\ announced[f] \in Nat /\ sure[f] \in Nat
                      /\ version[f] >= heard[f] /\ version[f] >= known[f]
                      /\ version[f] >= announced[f] /\ version[f] >= sure[f]
  BY <1>0 DEF Times, AtLeast
<1>8. \A f \in File : /\ heard'[f] \in Nat /\ heard'[f] >= heard[f] /\ version[f] >= heard'[f]
                      /\ known'[f] \in Nat /\ known'[f] >= known[f] /\ version[f] >= known'[f]
                      /\ f \in all => heard'[f] = version[f]
                      /\ f \in all \ again => known'[f] = version[f]
  BY <1>5, <1>7
<1>9. Times'
  <2>1. heard' \in [File -> Nat] /\ known' \in [File -> Nat]
    BY <1>5, <1>7
  <2> QED
    BY <1>0, <1>5, <1>8, <2>1 DEF Times, AtLeast
<1>10. Queues'
  BY <1>0, <1>2, <1>5, <1>6 DEF Queues
<1>11. Asks'
  BY <1>0, <1>5 DEF Asks, AtLeast
<1>12. Told'
  <2> SUFFICES ASSUME NEW f \in File
               PROVE  heard'[f] >= announced[f] \/ \E i \in 1..Len(inbox') : TellsOf(i, f)'
    BY <1>5 DEF Told
  <2>1. CASE heard[f] >= announced[f]
    BY <1>7, <1>8, <2>1
  <2>2. CASE \E i \in 1..Len(inbox) : TellsOf(i, f)
    <3>1. PICK i \in 1..Len(inbox) : TellsOf(i, f)
      BY <2>2
    <3>2. CASE i = 1
      BY <1>6, <1>7, <1>8, <3>1, <3>2
    <3>3. CASE i # 1
      BY <1>2, <3>1, <3>3
    <3> QED
      BY <3>2, <3>3
  <2> QED
    BY <1>0, <2>1, <2>2 DEF Told
<1>13. DocumentsFit'
  BY <1>0, <1>1, <1>2, <1>5, ReadElsewhere
<1>14. Awaited'
  <2> SUFFICES ASSUME NEW f \in File
               PROVE  known'[f] >= sure[f] \/ Waits' \/ \E i \in 1..Len(inbox') : ReadAtOnce(i, f)'
    BY <1>5 DEF Awaited
  <2>1. CASE known[f] >= sure[f]
    BY <1>7, <1>8, <2>1
  <2>2. CASE Waits
    BY <1>5, <2>2 DEF Waits, Status
  <2>3. CASE \E i \in 1..Len(inbox) : ReadAtOnce(i, f)
    <3>1. PICK i \in 1..Len(inbox) : ReadAtOnce(i, f)
      BY <2>3
    <3>2. CASE i = 1
      BY <1>6, <1>7, <1>8, <3>1, <3>2
    <3>3. CASE i # 1
      BY <1>2, <3>1, <3>3
    <3> QED
      BY <3>2, <3>3
  <2> QED
    BY <1>0, <2>1, <2>2, <2>3 DEF Awaited
<1>15. Underway'
  <2> SUFFICES ASSUME NEW f \in File
               PROVE  known'[f] >= sure[f] \/ f \in pending' \cup loading
    BY <1>5 DEF Underway
  <2>1. CASE known[f] >= sure[f]
    BY <1>7, <1>8, <2>1
  <2>2. CASE f \in pending \cup loading
    BY <1>5, <2>2
  <2>3. CASE \E i \in 1..Len(inbox) : TellsOf(i, f) /\ \A j \in 1..(i - 1) : inbox[j].is # "watched"
    <3>1. PICK i \in 1..Len(inbox) : TellsOf(i, f) /\ \A j \in 1..(i - 1) : inbox[j].is # "watched"
      BY <2>3
    <3>2. i = 1
      <4>1. i # 1 => 1 \in 1..(i - 1)
        OBVIOUS
      <4> QED
        BY <1>1, <1>2, <3>1, <4>1
    <3>3. f \in all
      BY <1>6, <3>1, <3>2
    <3> QED
      BY <1>5, <1>7, <1>8, <3>3
  <2> QED
    BY <1>0, <2>1, <2>2, <2>3 DEF Underway
<1>16. ServedWell'
  <2>1. ASSUME NEW r \in DOMAIN asked', NEW k \in 1..Len(inbox'), IsRequest(k, r)'
        PROVE  (ToldAt(k, r) /\ TextAt(k, r) /\ FreshAt(k, r))'
    <3>0. r \in DOMAIN asked /\ asked' = asked
      BY <1>5
    <3>1. PICK n \in 1..Len(inbox) : n = k + 1 /\ IsRequest(n, r)
      BY <1>2, <2>1
    <3>2. ToldAt(n, r) /\ TextAt(n, r) /\ FreshAt(n, r)
      BY <1>0, <3>0, <3>1 DEF ServedWell
    <3>3. /\ asked[r].files \in [File -> Nat] /\ AtLeast(announced, asked[r].files)
          /\ asked[r].sure \in [File -> Nat] /\ AtLeast(sure, asked[r].sure)
      BY <1>0, <3>0 DEF Asks
    <3>4. \A i \in 1..(n - 1) : i = 1 \/ \E j \in 1..(k - 1) : j \in 1..Len(inbox') /\ i = j + 1
      <4> SUFFICES ASSUME NEW i \in 1..(n - 1), i # 1
                   PROVE  \E j \in 1..(k - 1) : j \in 1..Len(inbox') /\ i = j + 1
        OBVIOUS
      <4>1. i - 1 \in 1..(k - 1) /\ i - 1 \in 1..Len(inbox') /\ i = (i - 1) + 1
        BY <1>2, <3>1
      <4> QED
        BY <4>1
    <3>5. ToldAt(k, r)'
      <4> SUFFICES ASSUME NEW f \in File
                   PROVE  heard'[f] >= asked[r].files[f] \/ \E i \in 1..(k - 1) : TellsOf(i, f)'
        BY <3>0 DEF ToldAt
      <4>0. asked[r].files[f] \in Nat /\ announced[f] >= asked[r].files[f]
        BY <3>3 DEF AtLeast
      <4>1. CASE heard[f] >= asked[r].files[f]
        BY <1>7, <1>8, <4>0, <4>1
      <4>2. CASE \E i \in 1..(n - 1) : TellsOf(i, f)
        <5>1. PICK i \in 1..(n - 1) : TellsOf(i, f)
          BY <4>2
        <5>2. CASE i = 1
          BY <1>6, <1>7, <1>8, <4>0, <5>1, <5>2
        <5>3. CASE i # 1
          BY <1>2, <3>4, <5>1, <5>3
        <5> QED
          BY <5>2, <5>3
      <4> QED
        BY <3>2, <4>1, <4>2 DEF ToldAt
    <3>6. FreshAt(k, r)'
      <4> SUFFICES ASSUME NEW f \in File
                   PROVE  known'[f] >= asked[r].sure[f] \/ \E i \in 1..(k - 1) : ReadAtOnce(i, f)'
        BY <3>0 DEF FreshAt
      <4>0. asked[r].sure[f] \in Nat /\ sure[f] >= asked[r].sure[f]
        BY <3>3 DEF AtLeast
      <4>1. CASE known[f] >= asked[r].sure[f]
        BY <1>7, <1>8, <4>0, <4>1
      <4>2. CASE \E i \in 1..(n - 1) : ReadAtOnce(i, f)
        <5>1. PICK i \in 1..(n - 1) : ReadAtOnce(i, f)
          BY <4>2
        <5>2. CASE i = 1
          BY <1>6, <1>7, <1>8, <4>0, <5>1, <5>2
        <5>3. CASE i # 1
          BY <1>2, <3>4, <5>1, <5>3
        <5> QED
          BY <5>2, <5>3
      <4> QED
        BY <3>2, <4>1, <4>2 DEF FreshAt
    <3>7. TextAt(k, r)'
      BY <1>0, <1>1, <1>2, <1>5, <3>0, <3>1, <3>2, TextElsewhere
    <3> QED
      BY <3>5, <3>6, <3>7
  <2> QED
    BY <2>1 DEF ServedWell
<1> QED
  BY <1>9, <1>10, <1>11, <1>12, <1>13, <1>14, <1>15, <1>16 DEF SessionInv

\* A letter that tells of no file leaves what is told and expected of files as it was.
LEMMA ReadNoFiles ==
  ASSUME SessionInv, inbox # <<>>, inbox' = Tail(inbox), inbox[1].is # "watched",
         UNCHANGED <<heard, known, announced, sure, pending, loading, tracked, statuses>>
  PROVE  Told' /\ Awaited' /\ Underway'
<1>1. /\ Len(inbox) \in Nat /\ Len(inbox') = Len(inbox) - 1 /\ 1 \in 1..Len(inbox)
      /\ \A i \in 1..Len(inbox') : i + 1 \in 1..Len(inbox) /\ inbox'[i] = inbox[i + 1]
      /\ \A i \in 1..Len(inbox) : i = 1 \/ \E j \in 1..Len(inbox') : i = j + 1
      /\ \A i \in 1..Len(inbox') : \A f : TellsOf(i, f)' <=> TellsOf(i + 1, f)
      /\ \A i \in 1..Len(inbox') : \A f : ReadAtOnce(i, f)' <=> ReadAtOnce(i + 1, f)
  BY ShiftedLetters
<1>2. \A f : ~TellsOf(1, f) /\ ~ReadAtOnce(1, f)
  BY DEF TellsOf, ReadAtOnce
<1>3. Told'
  <2>1. ASSUME NEW f \in File, NEW i \in 1..Len(inbox), TellsOf(i, f)
        PROVE  \E j \in 1..Len(inbox') : TellsOf(j, f)'
    <3>1. PICK j \in 1..Len(inbox') : i = j + 1
      BY <1>1, <1>2, <2>1
    <3> QED
      BY <1>1, <2>1, <3>1
  <2> QED
    BY <2>1 DEF SessionInv, Told
<1>4. Awaited'
  <2>1. Waits' <=> Waits
    BY DEF Waits, Status
  <2>2. ASSUME NEW f \in File, NEW i \in 1..Len(inbox), ReadAtOnce(i, f)
        PROVE  \E j \in 1..Len(inbox') : ReadAtOnce(j, f)'
    <3>1. PICK j \in 1..Len(inbox') : i = j + 1
      BY <1>1, <1>2, <2>2
    <3> QED
      BY <1>1, <2>2, <3>1
  <2> QED
    BY <2>1, <2>2 DEF SessionInv, Awaited
<1>5. Underway'
  <2> SUFFICES ASSUME NEW f \in File
               PROVE  \/ known[f] >= sure[f]
                      \/ f \in pending \cup loading
                      \/ /\ pending = {} /\ loading = {}
                         /\ \E i \in 1..Len(inbox') :
                              TellsOf(i, f)' /\ \A j \in 1..(i - 1) : inbox'[j].is # "watched"
    BY DEF Underway
  <2>1. ASSUME NEW i \in 1..Len(inbox), TellsOf(i, f), \A j \in 1..(i - 1) : inbox[j].is # "watched"
        PROVE  \E h \in 1..Len(inbox') :
                 TellsOf(h, f)' /\ \A j \in 1..(h - 1) : inbox'[j].is # "watched"
    <3>1. PICK h \in 1..Len(inbox') : i = h + 1
      BY <1>1, <1>2, <2>1
    <3>2. \A j \in 1..(h - 1) : j \in 1..Len(inbox') /\ j + 1 \in 1..(i - 1)
      BY <1>1, <3>1
    <3> QED
      BY <1>1, <2>1, <3>1, <3>2
  <2> QED
    BY <2>1 DEF SessionInv, Underway
<1> QED
  BY <1>3, <1>4, <1>5

\* Nor what it hears and reads before it comes to a request.
LEMMA ServedNoFiles ==
  ASSUME SessionInv, inbox # <<>>, inbox' = Tail(inbox), inbox[1].is # "watched",
         UNCHANGED <<heard, known>>,
         NEW k \in 1..Len(inbox'), NEW r, asked'[r] = asked[r],
         NEW n \in 1..Len(inbox), n = k + 1, ToldAt(n, r), FreshAt(n, r)
  PROVE  ToldAt(k, r)' /\ FreshAt(k, r)'
<1>1. /\ Len(inbox) \in Nat /\ Len(inbox') = Len(inbox) - 1
      /\ \A i \in 1..Len(inbox') : \A f : TellsOf(i, f)' <=> TellsOf(i + 1, f)
      /\ \A i \in 1..Len(inbox') : \A f : ReadAtOnce(i, f)' <=> ReadAtOnce(i + 1, f)
  BY ShiftedLetters
<1>2. \A f : ~TellsOf(1, f) /\ ~ReadAtOnce(1, f)
  BY DEF TellsOf, ReadAtOnce
<1>3. \A i \in 1..(n - 1) : i = 1 \/ \E j \in 1..(k - 1) : j \in 1..Len(inbox') /\ i = j + 1
  <2> SUFFICES ASSUME NEW i \in 1..(n - 1), i # 1
               PROVE  \E j \in 1..(k - 1) : j \in 1..Len(inbox') /\ i = j + 1
    OBVIOUS
  <2>1. i - 1 \in 1..(k - 1) /\ i - 1 \in 1..Len(inbox') /\ i = (i - 1) + 1
    BY <1>1
  <2> QED
    BY <2>1
<1>4. ToldAt(k, r)'
  BY ZenonT(60), <1>1, <1>2, <1>3 DEF ToldAt
<1>5. FreshAt(k, r)'
  BY ZenonT(60), <1>1, <1>2, <1>3 DEF FreshAt
<1> QED
  BY <1>4, <1>5

\* Serving a request moves the others up.
LEMMA ServerServesStep ==
  ASSUME SessionInv, ServerServes, ListingInv'
  PROVE  SessionInv'
<1> USE DEF diskVars, clientVars, proxyVars, serverVars, historyVars
<1>0. Times /\ Queues /\ Asks /\ ServedWell /\ SessionInv
  BY DEF SessionInv
<1>1. inbox # <<>> /\ Head(inbox).is = "request" /\ inbox' = Tail(inbox)
  BY DEF ServerServes, Reads
<1>2. /\ Len(inbox) \in Nat /\ Len(inbox') = Len(inbox) - 1
      /\ Head(inbox) = inbox[1] /\ inbox' \in Seq(Letter)
      /\ \A i \in 1..Len(inbox') : i + 1 \in 1..Len(inbox)
      /\ \A i \in 1..Len(inbox') : inbox'[i].is = "request" => inbox'[i].id \in 1..sent
      /\ \A i \in 1..Len(inbox') : \A r : IsRequest(i, r)' <=> IsRequest(i + 1, r)
  BY <1>0, <1>1, ShiftedLetters
<1>3. UNCHANGED <<clock, disk, version, git, watches, seen, opened, text, standIn, snapshot,
                  documents, mapping, tracked, held, statuses, buffers, heard, known, pending,
                  loading, announced, there, sure, sent>>
  BY DEF ServerServes
<1>4. /\ DOMAIN asked' \subseteq DOMAIN asked
      /\ \A r \in DOMAIN asked' : asked'[r] = asked[r]
  BY DEF ServerServes, Restrict
<1>5. Times'
  BY <1>0, <1>3 DEF Times, AtLeast
<1>6. Queues'
  BY <1>0, <1>2, <1>3 DEF Queues
<1>7. Asks'
  BY <1>0, <1>3, <1>4 DEF Asks, AtLeast
<1>8. Told' /\ Awaited' /\ Underway'
  BY <1>0, <1>1, <1>2, <1>3, ReadNoFiles
<1>9. DocumentsFit'
  BY <1>0, <1>1, <1>2, <1>3, ReadElsewhere
<1>10. ServedWell'
  <2>1. ASSUME NEW r \in DOMAIN asked', NEW k \in 1..Len(inbox'), IsRequest(k, r)'
        PROVE  (ToldAt(k, r) /\ TextAt(k, r) /\ FreshAt(k, r))'
    <3>1. r \in DOMAIN asked /\ asked'[r] = asked[r]
      BY <1>4
    <3>2. PICK n \in 1..Len(inbox) : n = k + 1 /\ IsRequest(n, r)
      BY <1>2, <2>1
    <3>3. ToldAt(n, r) /\ TextAt(n, r) /\ FreshAt(n, r)
      BY <1>0, <3>1, <3>2 DEF ServedWell
    <3>4. ToldAt(k, r)' /\ FreshAt(k, r)'
      BY <1>0, <1>1, <1>2, <1>3, <3>1, <3>2, <3>3, ServedNoFiles
    <3>5. TextAt(k, r)'
      BY <1>0, <1>1, <1>2, <1>3, <3>1, <3>2, <3>3, TextElsewhere
    <3> QED
      BY <3>4, <3>5
  <2> QED
    BY <2>1 DEF ServedWell
<1> QED
  BY <1>5, <1>6, <1>7, <1>8, <1>9, <1>10 DEF SessionInv

\* The server takes every letter about a document: the table of the proxy keeps a
\* second didOpen from it.
LEMMA TakesDocument ==
  ASSUME SessionInv, ServerHearsOfDocument
  PROVE  /\ inbox # <<>> /\ inbox' = Tail(inbox)
         /\ inbox[1].is \in {"didOpen", "didChange", "didClose"}
         /\ inbox[1].doc \in Document /\ inbox[1].text \in Nat
         /\ inbox[1].is = "didOpen" <=> inbox[1].doc \notin DOMAIN buffers
         /\ DOMAIN buffers' = IF inbox[1].is = "didClose" THEN DOMAIN buffers \ {inbox[1].doc}
                              ELSE DOMAIN buffers \cup {inbox[1].doc}
         /\ inbox[1].is # "didClose" => buffers'[inbox[1].doc] = inbox[1].text
         /\ \A d \in DOMAIN buffers : d # inbox[1].doc => buffers'[d] = buffers[d]
<1>1. /\ inbox # <<>> /\ inbox' = Tail(inbox)
      /\ Head(inbox).is \in {"didOpen", "didChange", "didClose"}
  BY DEF ServerHearsOfDocument, Reads
<1>2. /\ Len(inbox) \in Nat /\ 1 \in 1..Len(inbox)
      /\ Head(inbox) = inbox[1] /\ inbox[1] \in Letter
  BY <1>1, ShiftedLetters
<1>3. PICK m : m = inbox[1]
  OBVIOUS
<1>4. /\ m.is \in {"didOpen", "didChange", "didClose"}
      /\ m.doc \in Document /\ m.text \in Nat
  BY <1>1, <1>2, <1>3, LetterFields
<1>5. About(1, m.doc) /\ \A j \in 1..(1 - 1) : ~About(j, m.doc)
  BY <1>3, <1>4 DEF About
<1>6. m.is = "didOpen" <=> m.doc \notin DOMAIN buffers
  BY <1>2, <1>3, <1>4, <1>5 DEF SessionInv, DocumentsFit
<1>7. CASE m.is = "didClose"
  <2>1. buffers' = Restrict(buffers, DOMAIN buffers \ {m.doc})
    BY <1>2, <1>3, <1>6, <1>7 DEF ServerHearsOfDocument
  <2> QED
    BY <1>1, <1>3, <1>4, <1>6, <1>7, <2>1 DEF Restrict
<1>8. CASE m.is # "didClose"
  <2>1. (m.is = "didOpen" /\ m.doc \notin DOMAIN buffers)
          \/ (m.is # "didOpen" /\ m.doc \in DOMAIN buffers)
    BY <1>6
  <2>2. buffers' = [d \in DOMAIN buffers \cup {m.doc} |-> IF d = m.doc THEN m.text ELSE buffers[d]]
    BY <1>2, <1>3, <1>8, <2>1 DEF ServerHearsOfDocument
  <2> QED
    BY <1>1, <1>3, <1>4, <1>6, <1>8, <2>2
<1> QED
  BY <1>7, <1>8

\* The letters that are left fit what the server then has.
LEMMA ReadDocument ==
  ASSUME SessionInv, ServerHearsOfDocument
  PROVE  DocumentsFit'
<1>1. /\ inbox # <<>> /\ inbox' = Tail(inbox)
      /\ inbox[1].is \in {"didOpen", "didChange", "didClose"}
      /\ inbox[1].doc \in Document
      /\ DOMAIN buffers' = IF inbox[1].is = "didClose" THEN DOMAIN buffers \ {inbox[1].doc}
                           ELSE DOMAIN buffers \cup {inbox[1].doc}
      /\ inbox[1].is # "didClose" => buffers'[inbox[1].doc] = inbox[1].text
      /\ \A d \in DOMAIN buffers : d # inbox[1].doc => buffers'[d] = buffers[d]
  BY TakesDocument
<1>2. /\ Len(inbox) \in Nat /\ Len(inbox') = Len(inbox) - 1 /\ 1 \in 1..Len(inbox)
      /\ \A i \in 1..Len(inbox') : i + 1 \in 1..Len(inbox) /\ inbox'[i] = inbox[i + 1]
      /\ \A i \in 1..Len(inbox) : i = 1 \/ \E j \in 1..Len(inbox') : i = j + 1
      /\ \A i \in 1..Len(inbox') : \A d : About(i, d)' <=> About(i + 1, d)
  BY <1>1, ShiftedLetters
<1>3. UNCHANGED <<opened, text>>
  BY DEF ServerHearsOfDocument, clientVars
<1> SUFFICES ASSUME NEW d \in Document
             PROVE  /\ (\A i \in 1..Len(inbox') : ~About(i, d)')
                         => /\ d \in DOMAIN buffers' <=> d \in opened
                            /\ d \in opened => buffers'[d] = text[d]
                    /\ \A i \in 1..Len(inbox') : About(i, d)' =>
                         /\ (\A j \in (i + 1)..Len(inbox') : ~About(j, d)')
                              => /\ inbox'[i].is = "didClose" <=> d \notin opened
                                 /\ d \in opened => inbox'[i].text = text[d]
                         /\ (\A j \in 1..(i - 1) : ~About(j, d)')
                              => (inbox'[i].is = "didOpen" <=> d \notin DOMAIN buffers')
                         /\ \A k \in (i + 1)..Len(inbox') :
                              About(k, d)' /\ (\A j \in (i + 1)..(k - 1) : ~About(j, d)')
                                => (inbox'[k].is = "didOpen" <=> inbox'[i].is = "didClose")
  BY <1>3 DEF DocumentsFit
<1>4. /\ \A i \in 1..Len(inbox) : About(i, d) =>
           /\ (\A j \in (i + 1)..Len(inbox) : ~About(j, d))
                => /\ inbox[i].is = "didClose" <=> d \notin opened
                   /\ d \in opened => inbox[i].text = text[d]
           /\ (\A j \in 1..(i - 1) : ~About(j, d))
                => (inbox[i].is = "didOpen" <=> d \notin DOMAIN buffers)
           /\ \A k \in (i + 1)..Len(inbox) :
                About(k, d) /\ (\A j \in (i + 1)..(k - 1) : ~About(j, d))
                  => (inbox[k].is = "didOpen" <=> inbox[i].is = "didClose")
      /\ (\A i \in 1..Len(inbox) : ~About(i, d))
           => /\ d \in DOMAIN buffers <=> d \in opened
              /\ d \in opened => buffers[d] = text[d]
  BY DEF SessionInv, DocumentsFit
<1>5. /\ About(1, d) <=> d = inbox[1].doc
      /\ d # inbox[1].doc => /\ d \in DOMAIN buffers' <=> d \in DOMAIN buffers
                             /\ d \in DOMAIN buffers => buffers'[d] = buffers[d]
      /\ d = inbox[1].doc => /\ d \in DOMAIN buffers' <=> inbox[1].is # "didClose"
                             /\ inbox[1].is # "didClose" => buffers'[d] = inbox[1].text
  BY <1>1 DEF About
<1>6. ASSUME \A i \in 1..Len(inbox') : ~About(i, d)'
      PROVE  /\ d \in DOMAIN buffers' <=> d \in opened
             /\ d \in opened => buffers'[d] = text[d]
  <2>1. \A i \in 1..Len(inbox) : i # 1 => ~About(i, d)
    BY <1>2, <1>6
  <2>2. CASE d = inbox[1].doc
    <3>1. \A j \in (1 + 1)..Len(inbox) : ~About(j, d)
      <4>1. \A j \in (1 + 1)..Len(inbox) : j \in 1..Len(inbox) /\ j # 1
        BY <1>2
      <4> QED
        BY <2>1, <4>1
    <3>2. /\ inbox[1].is = "didClose" <=> d \notin opened
          /\ d \in opened => inbox[1].text = text[d]
      BY <1>2, <1>4, <1>5, <2>2, <3>1
    <3> QED
      BY <1>5, <2>2, <3>2
  <2>3. CASE d # inbox[1].doc
    <3>1. \A i \in 1..Len(inbox) : ~About(i, d)
      BY <1>5, <2>1, <2>3
    <3> QED
      BY <1>4, <1>5, <2>3, <3>1
  <2> QED
    BY <2>2, <2>3
<1>7. ASSUME NEW i \in 1..Len(inbox'), About(i, d)'
      PROVE  /\ (\A j \in (i + 1)..Len(inbox') : ~About(j, d)')
                  => /\ inbox'[i].is = "didClose" <=> d \notin opened
                     /\ d \in opened => inbox'[i].text = text[d]
             /\ (\A j \in 1..(i - 1) : ~About(j, d)')
                  => (inbox'[i].is = "didOpen" <=> d \notin DOMAIN buffers')
             /\ \A k \in (i + 1)..Len(inbox') :
                  About(k, d)' /\ (\A j \in (i + 1)..(k - 1) : ~About(j, d)')
                    => (inbox'[k].is = "didOpen" <=> inbox'[i].is = "didClose")
  <2>0. PICK b \in 1..Len(inbox) : b = i + 1 /\ inbox'[i] = inbox[b] /\ About(b, d)
    BY <1>2, <1>7
  <2>1. ASSUME \A j \in (i + 1)..Len(inbox') : ~About(j, d)'
        PROVE  \A j \in (b + 1)..Len(inbox) : ~About(j, d)
    <3> SUFFICES ASSUME NEW j \in (b + 1)..Len(inbox)
                 PROVE  ~About(j, d)
      OBVIOUS
    <3>1. PICK h : h = j - 1
      OBVIOUS
    <3>2. h \in (i + 1)..Len(inbox') /\ h \in 1..Len(inbox') /\ j = h + 1
      BY <1>2, <2>0, <3>1
    <3> QED
      BY <1>2, <2>1, <3>2
  <2>2. ASSUME \A j \in 1..(i - 1) : ~About(j, d)'
        PROVE  inbox'[i].is = "didOpen" <=> d \notin DOMAIN buffers'
    <3>1. \A j \in (1 + 1)..(b - 1) : ~About(j, d)
      <4> SUFFICES ASSUME NEW j \in (1 + 1)..(b - 1)
                   PROVE  ~About(j, d)
        OBVIOUS
      <4>1. PICK h : h = j - 1
        OBVIOUS
      <4>2. h \in 1..(i - 1) /\ h \in 1..Len(inbox') /\ j = h + 1
        BY <1>2, <2>0, <4>1
      <4> QED
        BY <1>2, <2>2, <4>2
    <3>2. CASE d = inbox[1].doc
      <4>1. b \in (1 + 1)..Len(inbox)
        BY <1>2, <2>0
      <4>2. inbox[b].is = "didOpen" <=> inbox[1].is = "didClose"
        BY <1>2, <1>4, <1>5, <2>0, <3>1, <3>2, <4>1
      <4> QED
        BY <1>5, <2>0, <3>2, <4>2
    <3>3. CASE d # inbox[1].doc
      <4>1. \A j \in 1..(b - 1) : j = 1 \/ j \in (1 + 1)..(b - 1)
        BY <1>2, <2>0
      <4>2. \A j \in 1..(b - 1) : ~About(j, d)
        BY <1>5, <3>1, <3>3, <4>1
      <4> QED
        BY <1>4, <1>5, <2>0, <3>3, <4>2
    <3> QED
      BY <3>2, <3>3
  <2>3. ASSUME NEW k \in (i + 1)..Len(inbox'), About(k, d)',
               \A j \in (i + 1)..(k - 1) : ~About(j, d)'
        PROVE  inbox'[k].is = "didOpen" <=> inbox'[i].is = "didClose"
    <3>1. k \in 1..Len(inbox') /\ k + 1 \in (b + 1)..Len(inbox)
      BY <1>2, <2>0
    <3>2. PICK c \in (b + 1)..Len(inbox) : c = k + 1 /\ inbox'[k] = inbox[c] /\ About(c, d)
      BY <1>2, <2>3, <3>1
    <3>3. \A j \in (b + 1)..(c - 1) : ~About(j, d)
      <4> SUFFICES ASSUME NEW j \in (b + 1)..(c - 1)
                   PROVE  ~About(j, d)
        OBVIOUS
      <4>1. PICK h : h = j - 1
        OBVIOUS
      <4>2. h \in (i + 1)..(k - 1) /\ h \in 1..Len(inbox') /\ j = h + 1
        BY <1>2, <2>0, <3>1, <3>2, <4>1
      <4> QED
        BY <1>2, <2>3, <4>2
    <3> QED
      <4>1. \A x \in (b + 1)..Len(inbox) :
              About(x, d) /\ (\A j \in (b + 1)..(x - 1) : ~About(j, d))
                => (inbox[x].is = "didOpen" <=> inbox[b].is = "didClose")
        BY <1>4, <2>0, Zenon
      <4>2. inbox[c].is = "didOpen" <=> inbox[b].is = "didClose"
        BY <3>2, <3>3, <4>1, Zenon
      <4> QED
        BY <2>0, <3>2, <4>2
  <2> QED
    BY <1>4, <2>0, <2>1, <2>2, <2>3
<1> QED
  BY <1>6, <1>7

\* The text that was read stands for the letter that carried it.
LEMMA TextRead ==
  ASSUME SessionInv, ServerHearsOfDocument,
         NEW k \in 1..Len(inbox'), NEW r, asked'[r] = asked[r],
         NEW n \in 1..Len(inbox), n = k + 1, TextAt(n, r)
  PROVE  TextAt(k, r)'
<1>1. /\ inbox # <<>> /\ inbox' = Tail(inbox)
      /\ inbox[1].is \in {"didOpen", "didChange", "didClose"}
      /\ DOMAIN buffers' = IF inbox[1].is = "didClose" THEN DOMAIN buffers \ {inbox[1].doc}
                           ELSE DOMAIN buffers \cup {inbox[1].doc}
      /\ inbox[1].is # "didClose" => buffers'[inbox[1].doc] = inbox[1].text
      /\ \A d \in DOMAIN buffers : d # inbox[1].doc => buffers'[d] = buffers[d]
  BY TakesDocument
<1>2. /\ Len(inbox) \in Nat /\ Len(inbox') = Len(inbox) - 1 /\ 1 \in 1..Len(inbox)
      /\ \A i \in 1..Len(inbox') : i + 1 \in 1..Len(inbox) /\ inbox'[i] = inbox[i + 1]
      /\ \A i \in 1..Len(inbox') : \A d : About(i, d)' <=> About(i + 1, d)
  BY <1>1, ShiftedLetters
<1> SUFFICES ASSUME NEW d \in Document
             PROVE  /\ (\A i \in 1..(k - 1) : ~About(i, d)') /\ d \in DOMAIN buffers'
                         => buffers'[d] >= asked[r].text[d]
                    /\ \A i \in 1..(k - 1) :
                         /\ About(i, d)' /\ inbox'[i].is # "didClose"
                         /\ \A j \in (i + 1)..(k - 1) : ~About(j, d)'
                         => inbox'[i].text >= asked[r].text[d]
  BY DEF TextAt
<1>3. /\ (\A i \in 1..(n - 1) : ~About(i, d)) /\ d \in DOMAIN buffers
           => buffers[d] >= asked[r].text[d]
      /\ \A i \in 1..(n - 1) :
           About(i, d) /\ inbox[i].is # "didClose" /\ (\A j \in (i + 1)..(n - 1) : ~About(j, d))
             => inbox[i].text >= asked[r].text[d]
  BY DEF TextAt
<1>4. ASSUME \A i \in 1..(k - 1) : ~About(i, d)', d \in DOMAIN buffers'
      PROVE  buffers'[d] >= asked[r].text[d]
  <2>1. \A j \in (1 + 1)..(n - 1) : ~About(j, d)
    <3> SUFFICES ASSUME NEW j \in (1 + 1)..(n - 1)
                 PROVE  ~About(j, d)
      OBVIOUS
    <3>1. PICK h : h = j - 1
      OBVIOUS
    <3>2. h \in 1..(k - 1) /\ h \in 1..Len(inbox') /\ j = h + 1
      BY <1>2, <3>1
    <3> QED
      BY <1>2, <1>4, <3>2
  <2>2. CASE d = inbox[1].doc
    <3>1. About(1, d) /\ inbox[1].is # "didClose" /\ buffers'[d] = inbox[1].text
      BY <1>1, <1>4, <2>2 DEF About
    <3>2. 1 \in 1..(n - 1)
      BY <1>2
    <3> QED
      BY <1>3, <2>1, <3>1, <3>2
  <2>3. CASE d # inbox[1].doc
    <3>1. \A j \in 1..(n - 1) : j = 1 \/ j \in (1 + 1)..(n - 1)
      BY <1>2
    <3>2. ~About(1, d)
      BY <2>3 DEF About
    <3>3. d \in DOMAIN buffers /\ buffers'[d] = buffers[d]
      BY <1>1, <1>4, <2>3
    <3> QED
      BY <1>3, <2>1, <3>1, <3>2, <3>3
  <2> QED
    BY <2>2, <2>3
<1>5. ASSUME NEW i \in 1..(k - 1), About(i, d)', inbox'[i].is # "didClose",
             \A j \in (i + 1)..(k - 1) : ~About(j, d)'
      PROVE  inbox'[i].text >= asked[r].text[d]
  <2>0. i \in 1..Len(inbox')
    BY <1>2
  <2>1. PICK b \in 1..(n - 1) : b = i + 1 /\ inbox'[i] = inbox[b] /\ About(b, d)
    <3>1. i + 1 \in 1..(n - 1)
      BY <1>2
    <3> QED
      BY <1>2, <1>5, <2>0, <3>1
  <2>2. \A j \in (b + 1)..(n - 1) : ~About(j, d)
    <3> SUFFICES ASSUME NEW j \in (b + 1)..(n - 1)
                 PROVE  ~About(j, d)
      OBVIOUS
    <3>1. PICK h : h = j - 1
      OBVIOUS
    <3>2. h \in (i + 1)..(k - 1) /\ h \in 1..Len(inbox') /\ j = h + 1
      BY <1>2, <2>1, <3>1
    <3> QED
      BY <1>2, <1>5, <3>2
  <2> QED
    BY <1>3, <1>5, <2>1, <2>2
<1> QED
  BY <1>4, <1>5

\* A server that takes a letter about a document is ready for the next one.
LEMMA ServerHearsOfDocumentStep ==
  ASSUME SessionInv, ServerHearsOfDocument, ListingInv'
  PROVE  SessionInv'
<1> USE DEF diskVars, clientVars, proxyVars, serverVars, historyVars
<1>0. Times /\ Queues /\ Asks /\ ServedWell /\ SessionInv
  BY DEF SessionInv
<1>1. /\ inbox # <<>> /\ inbox' = Tail(inbox)
      /\ inbox[1].is \in {"didOpen", "didChange", "didClose"} /\ inbox[1].doc \in Document
      /\ DOMAIN buffers' = IF inbox[1].is = "didClose" THEN DOMAIN buffers \ {inbox[1].doc}
                           ELSE DOMAIN buffers \cup {inbox[1].doc}
  BY <1>0, TakesDocument
<1>2. /\ inbox' \in Seq(Letter)
      /\ \A i \in 1..Len(inbox') : i + 1 \in 1..Len(inbox)
      /\ \A i \in 1..Len(inbox') : inbox'[i].is = "request" => inbox'[i].id \in 1..sent
      /\ \A i \in 1..Len(inbox') : \A r : IsRequest(i, r)' <=> IsRequest(i + 1, r)
  BY <1>0, <1>1, ShiftedLetters
<1>3. UNCHANGED <<clock, disk, version, git, watches, seen, opened, text, standIn, snapshot,
                  documents, mapping, tracked, held, statuses, heard, known, pending,
                  loading, announced, there, sure, sent, asked>>
  BY DEF ServerHearsOfDocument
<1>4. Times'
  BY <1>0, <1>3 DEF Times, AtLeast
<1>5. DOMAIN buffers' \subseteq Document
  BY <1>0, <1>1 DEF Queues
<1>6. Queues'
  BY <1>0, <1>2, <1>3, <1>5 DEF Queues
<1>7. Asks'
  BY <1>0, <1>3 DEF Asks, AtLeast
<1>8. Told' /\ Awaited' /\ Underway'
  BY <1>0, <1>1, <1>3, ReadNoFiles
<1>9. DocumentsFit'
  BY <1>0, ReadDocument
<1>10. ServedWell'
  <2>1. ASSUME NEW r \in DOMAIN asked', NEW k \in 1..Len(inbox'), IsRequest(k, r)'
        PROVE  (ToldAt(k, r) /\ TextAt(k, r) /\ FreshAt(k, r))'
    <3>1. r \in DOMAIN asked /\ asked'[r] = asked[r]
      BY <1>3
    <3>2. PICK n \in 1..Len(inbox) : n = k + 1 /\ IsRequest(n, r)
      BY <1>2, <2>1
    <3>3. ToldAt(n, r) /\ TextAt(n, r) /\ FreshAt(n, r)
      BY <1>0, <3>1, <3>2 DEF ServedWell
    <3>4. ToldAt(k, r)' /\ FreshAt(k, r)'
      BY <1>0, <1>1, <1>3, <3>1, <3>2, <3>3, ServedNoFiles
    <3>5. TextAt(k, r)'
      BY <1>0, <3>1, <3>2, <3>3, TextRead
    <3> QED
      BY <3>4, <3>5
  <2> QED
    BY <2>1 DEF ServedWell
<1> QED
  BY <1>4, <1>6, <1>7, <1>8, <1>9, <1>10 DEF SessionInv

\* While nothing is written or read, the server learns, and the files change.
LEMMA NothingRead ==
  ASSUME SessionInv,
         UNCHANGED <<inbox, opened, text, documents, held, tracked, buffers, heard, announced,
                     sure, sent, asked, seen>>,
         clock' \in Nat, clock' >= clock,
         version' \in [File -> Nat],
         \A f \in File : version'[f] >= version[f] /\ version'[f] <= clock',
         known' \in [File -> Nat], AtLeast(version', known'), AtLeast(known', known),
         statuses' \in Seq(Statuses), pending' \subseteq File, loading' \subseteq File
  PROVE  Times' /\ Queues' /\ Asks' /\ Told' /\ DocumentsFit' /\ ServedWell'
<1>0. /\ Times /\ Queues /\ Asks /\ Told /\ DocumentsFit /\ ServedWell
  BY DEF SessionInv
<1>1. /\ \A i : \A f : TellsOf(i, f)' <=> TellsOf(i, f)
      /\ \A i : \A f : ReadAtOnce(i, f)' <=> ReadAtOnce(i, f)
      /\ \A i : \A d : About(i, d)' <=> About(i, d)
      /\ \A i : \A r : IsRequest(i, r)' <=> IsRequest(i, r)
  BY DEF TellsOf, ReadAtOnce, About, IsRequest, Files, FilesThat
<1>2. \A f \in File : /\ version[f] \in Nat /\ version'[f] \in Nat /\ heard[f] \in Nat
                      /\ known[f] \in Nat /\ known'[f] \in Nat /\ announced[f] \in Nat
                      /\ sure[f] \in Nat /\ known'[f] >= known[f]
                      /\ version[f] >= heard[f] /\ version[f] >= announced[f]
                      /\ version[f] >= sure[f]
  BY <1>0 DEF Times, AtLeast
<1>3. Times'
  <2>1. \A d \in Document : text[d] <= clock'
    BY <1>0 DEF Times
  <2>2. ASSUME NEW f \in File
        PROVE  version'[f] >= heard[f] /\ version'[f] >= announced[f] /\ version'[f] >= sure[f]
    <3>1. version'[f] >= version[f]
      OBVIOUS
    <3> QED
      BY <1>2, <3>1
  <2>3. heard' = heard /\ announced' = announced /\ sure' = sure
    OBVIOUS
  <2> QED
    BY <1>0, <2>1, <2>2, <2>3 DEF Times, AtLeast
<1>4. Queues'
  BY <1>0 DEF Queues
<1>5. Asks'
  BY <1>0 DEF Asks, AtLeast
<1>6. Told'
  BY <1>0, <1>1 DEF Told
<1>7. DocumentsFit'
  <2>1. inbox \in Seq(Letter)
    BY <1>0 DEF Queues
  <2>2. PICK m \in Seq(Letter) : m = <<>> /\ Len(m) = 0
    BY EmptySeq
  <2>3. inbox' = inbox \o m
    BY <2>1, <2>2, ConcatEmptySeq
  <2>4. \A i \in 1..Len(m) : m[i].is \in {"watched", "request"}
    BY <2>2
  <2> QED
    BY <2>2, <2>3, <2>4, GrowDocuments
<1>8. ServedWell'
  <2>1. ASSUME NEW r \in DOMAIN asked, NEW k \in 1..Len(inbox), IsRequest(k, r)
        PROVE  (ToldAt(k, r) /\ TextAt(k, r) /\ FreshAt(k, r))'
    <3>1. ToldAt(k, r) /\ TextAt(k, r) /\ FreshAt(k, r)
      BY <1>0, <2>1 DEF ServedWell
    <3>2. ToldAt(k, r)'
      BY <1>1, <3>1 DEF ToldAt
    <3>3. TextAt(k, r)'
      BY <1>1, <3>1 DEF TextAt
    <3>4. FreshAt(k, r)'
      <4>1. \A f \in File : asked[r].sure[f] \in Nat
        BY <1>0, <2>1 DEF Asks
      <4>2. \A f \in File : known[f] >= asked[r].sure[f] => known'[f] >= asked[r].sure[f]
        BY <1>2, <4>1
      <4> QED
        BY <1>1, <3>1, <4>2 DEF FreshAt
    <3> QED
      BY <3>2, <3>3, <3>4
  <2> QED
    BY <1>1, <2>1 DEF ServedWell
<1> QED
  BY <1>3, <1>4, <1>5, <1>6, <1>7, <1>8

\* Letters of files are the same while the inbox is.
LEMMA SameInbox ==
  ASSUME inbox' = inbox
  PROVE  /\ \A i : \A f : TellsOf(i, f)' <=> TellsOf(i, f)
         /\ \A i : \A f : ReadAtOnce(i, f)' <=> ReadAtOnce(i, f)
BY DEF TellsOf, ReadAtOnce, Files, FilesThat

\* An edit makes a version newer and tells no one.
LEMMA EditStep ==
  ASSUME SessionInv, NEW f \in File, NEW exists \in BOOLEAN, Edit(f, exists), ListingInv'
  PROVE  SessionInv'
<1> USE DEF diskVars, clientVars, proxyVars, serverVars, historyVars
<1>0. Times /\ Queues /\ Awaited /\ Underway /\ SessionInv
  BY DEF SessionInv
<1>1. /\ clock' = clock + 1 /\ version' = [version EXCEPT ![f] = clock']
      /\ UNCHANGED <<git, watches, seen, opened, text, standIn, snapshot, documents, mapping,
                     tracked, held, inbox, statuses, buffers, heard, known, pending, loading,
                     announced, there, sure, sent, asked>>
  BY DEF Edit
<1>2. /\ clock' \in Nat /\ clock' >= clock /\ version' \in [File -> Nat]
      /\ \A g \in File : version'[g] >= version[g] /\ version'[g] <= clock'
  BY <1>0, <1>1 DEF Times
<1>3. known' \in [File -> Nat] /\ AtLeast(version', known') /\ AtLeast(known', known)
  <2>1. known \in [File -> Nat] /\ version \in [File -> Nat] /\ AtLeast(version, known)
    BY <1>0 DEF Times
  <2> QED
    BY <1>1, <1>2, <2>1 DEF AtLeast
<1>4. statuses' \in Seq(Statuses) /\ pending' \subseteq File /\ loading' \subseteq File
  BY <1>0, <1>1 DEF Queues
<1>5. Times' /\ Queues' /\ Asks' /\ Told' /\ DocumentsFit' /\ ServedWell'
  BY <1>0, <1>1, <1>2, <1>3, <1>4, NothingRead
<1>6. Awaited'
  <2>1. Waits' <=> Waits
    BY <1>1 DEF Waits, Status
  <2> QED
    BY <1>0, <1>1, <2>1, SameInbox DEF Awaited
<1>7. Underway'
  BY <1>0, <1>1, SameInbox DEF Underway
<1> QED
  BY <1>5, <1>6, <1>7 DEF SessionInv

\* A status that is said is behind those that wait; one that says that another load is
\* due leaves a load expected.
LEMMA StatusSaid ==
  ASSUME SessionInv, NEW b \in BOOLEAN, statuses' = Append(statuses, Status(b)),
         UNCHANGED tracked
  PROVE  /\ statuses' \in Seq(Statuses)
         /\ Waits /\ ~b => Waits'
<1>1. statuses \in Seq(Statuses) /\ Status(b) \in Statuses
  BY TwoStatuses DEF SessionInv, Queues
<1>2. PICK s \in Statuses : s = Status(b)
  BY <1>1
<1>3. /\ statuses' \in Seq(Statuses) /\ Len(statuses') = Len(statuses) + 1
      /\ Len(statuses) \in Nat
      /\ \A i \in 1..Len(statuses) : statuses'[i] = statuses[i]
      /\ statuses'[Len(statuses) + 1] = s
  BY <1>1, <1>2, AppendProperties
<1>4. ASSUME Waits, ~b
      PROVE  Waits'
  <2>1. s = Status(FALSE)
    BY <1>2, <1>4, TwoStatuses
  <2>2. \A i \in 1..Len(statuses') : i \in 1..Len(statuses) \/ i = Len(statuses) + 1
    BY <1>3
  <2>3. \A i \in 1..Len(statuses') : statuses'[i] = Status(FALSE)
    BY <1>3, <1>4, <2>1, <2>2 DEF Waits
  <2>4. Status(FALSE)' = Status(FALSE)
    BY DEF Status
  <2> QED
    BY <1>4, <2>3, <2>4 DEF Waits
<1> QED
  BY <1>3, <1>4

\* A load begins: what was pending is loading.
LEMMA LoadBeginsStep ==
  ASSUME SessionInv, LoadBegins, ListingInv'
  PROVE  SessionInv'
<1> USE DEF diskVars, clientVars, proxyVars, serverVars, historyVars
<1>0. Times /\ Queues /\ Awaited /\ Underway /\ SessionInv
  BY DEF SessionInv
<1>1. /\ pending # {} /\ loading = {} /\ loading' = pending /\ pending' = {}
      /\ statuses' = Append(statuses, Status(FALSE))
      /\ UNCHANGED <<clock, disk, version, git, watches, seen, opened, text, standIn, snapshot,
                     documents, mapping, tracked, held, inbox, buffers, heard, known,
                     announced, there, sure, sent, asked>>
  BY DEF LoadBegins
<1>2. statuses' \in Seq(Statuses) /\ (Waits => Waits')
  BY <1>0, <1>1, StatusSaid
<1>3. /\ clock' \in Nat /\ clock' >= clock /\ version' \in [File -> Nat]
      /\ \A g \in File : version'[g] >= version[g] /\ version'[g] <= clock'
      /\ known' \in [File -> Nat] /\ AtLeast(version', known') /\ AtLeast(known', known)
  BY <1>0, <1>1 DEF Times, AtLeast
<1>4. pending' \subseteq File /\ loading' \subseteq File
  BY <1>0, <1>1 DEF Queues
<1>5. Times' /\ Queues' /\ Asks' /\ Told' /\ DocumentsFit' /\ ServedWell'
  BY <1>0, <1>1, <1>2, <1>3, <1>4, NothingRead
<1>6. Awaited'
  BY <1>0, <1>1, <1>2, SameInbox DEF Awaited
<1>7. Underway'
  BY <1>0, <1>1 DEF Underway
<1> QED
  BY <1>5, <1>6, <1>7 DEF SessionInv

\* A load ends: what was loading is in the index, and a load is still expected if
\* something is pending.
LEMMA LoadEndsStep ==
  ASSUME SessionInv, LoadEnds, ListingInv'
  PROVE  SessionInv'
<1> USE DEF diskVars, clientVars, proxyVars, serverVars, historyVars
<1>0. Times /\ Queues /\ Awaited /\ Underway /\ SessionInv
  BY DEF SessionInv
<1>1. /\ loading # {} /\ loading' = {}
      /\ known' = [f \in File |-> IF f \in loading THEN version[f] ELSE known[f]]
      /\ statuses' = Append(statuses, Status(pending = {}))
      /\ UNCHANGED <<clock, disk, version, git, watches, seen, opened, text, standIn, snapshot,
                     documents, mapping, tracked, held, inbox, buffers, heard, pending,
                     announced, there, sure, sent, asked>>
  BY DEF LoadEnds
<1>2. PICK b \in BOOLEAN : b <=> pending = {}
  BY Zenon
<1>3. statuses' = Append(statuses, Status(b))
  BY <1>1, <1>2 DEF Status
<1>4. statuses' \in Seq(Statuses) /\ (Waits /\ pending # {} => Waits')
  BY <1>0, <1>1, <1>2, <1>3, StatusSaid
<1>5. \A f \in File : /\ version[f] \in Nat /\ known[f] \in Nat /\ sure[f] \in Nat
                      /\ version[f] >= known[f] /\ version[f] >= sure[f]
  BY <1>0 DEF Times, AtLeast
<1>6. /\ known' \in [File -> Nat] /\ AtLeast(version', known') /\ AtLeast(known', known)
      /\ \A f \in File : f \in loading => known'[f] = version[f]
  BY <1>1, <1>5 DEF AtLeast
<1>7. /\ clock' \in Nat /\ clock' >= clock /\ version' \in [File -> Nat]
      /\ \A g \in File : version'[g] >= version[g] /\ version'[g] <= clock'
  BY <1>0, <1>1 DEF Times
<1>8. pending' \subseteq File /\ loading' \subseteq File
  BY <1>0, <1>1 DEF Queues
<1>9. Times' /\ Queues' /\ Asks' /\ Told' /\ DocumentsFit' /\ ServedWell'
  BY <1>0, <1>1, <1>4, <1>6, <1>7, <1>8, NothingRead
<1>10. \A f \in File : known'[f] >= sure[f] \/ f \in pending
  <2> SUFFICES ASSUME NEW f \in File
               PROVE  known'[f] >= sure[f] \/ f \in pending
    OBVIOUS
  <2>1. known[f] >= sure[f] \/ f \in pending \cup loading
    BY <1>0, <1>1 DEF Underway
  <2>2. CASE known[f] >= sure[f]
    BY <1>5, <1>6, <2>2 DEF AtLeast
  <2>3. CASE f \in loading
    BY <1>5, <1>6, <2>3
  <2> QED
    BY <2>1, <2>2, <2>3
<1>11. Awaited'
  <2> SUFFICES ASSUME NEW f \in File
               PROVE  known'[f] >= sure[f] \/ Waits' \/ \E i \in 1..Len(inbox) : ReadAtOnce(i, f)
    BY <1>1, SameInbox DEF Awaited
  <2>1. CASE pending = {}
    BY <1>10, <2>1
  <2>2. CASE pending # {}
    <3>1. known[f] >= sure[f] => known'[f] >= sure[f]
      BY <1>5, <1>6 DEF AtLeast
    <3> QED
      BY <1>0, <1>4, <2>2, <3>1 DEF Awaited
  <2> QED
    BY <2>1, <2>2
<1>12. Underway'
  BY <1>1, <1>10 DEF Underway
<1> QED
  BY <1>9, <1>11, <1>12 DEF SessionInv

\* A session begins with nothing on its way.
LEMMA InitSession == Init => SessionInv
<1> SUFFICES ASSUME Init
             PROVE  SessionInv
  OBVIOUS
<1>1. ListingInv
  BY InitListing
<1>2. /\ clock = 0 /\ version = [f \in File |-> 0] /\ text = [d \in Document |-> 0]
      /\ heard = version /\ known = version /\ announced = version /\ sure = version
      /\ inbox = <<>> /\ statuses = <<>> /\ held = <<>> /\ sent = 0 /\ asked = <<>>
      /\ documents = {} /\ opened = {} /\ buffers = <<>> /\ pending = File /\ loading = {}
      /\ seen = disk
  BY DEF Init
<1>3. Times
  BY <1>2 DEF Times, AtLeast
<1>4. Len(inbox) = 0 /\ Len(statuses) = 0 /\ DOMAIN buffers = {} /\ DOMAIN asked = {}
  BY <1>2
<1>5. inbox \in Seq(Letter) /\ statuses \in Seq(Statuses) /\ held \in Seq(1..sent)
  BY <1>2, EmptySeq
<1>6. Queues
  BY <1>1, <1>2, <1>4, <1>5 DEF Queues, ListingInv, DiskOfVersions
<1>7. Asks /\ ServedWell
  BY <1>4 DEF Asks, ServedWell
<1>8. \A f \in File : heard[f] >= announced[f] /\ known[f] >= sure[f]
  BY <1>2
<1>9. Told /\ Awaited /\ Underway
  BY <1>8 DEF Told, Awaited, Underway
<1>10. DocumentsFit
  BY <1>2, <1>4 DEF DocumentsFit
<1> QED
  BY <1>1, <1>3, <1>6, <1>7, <1>9, <1>10 DEF SessionInv

\* Nothing happens.
LEMMA SessionStutters ==
  ASSUME SessionInv, UNCHANGED vars, ListingInv'
  PROVE  SessionInv'
<1> USE DEF vars, diskVars, clientVars, proxyVars, serverVars, historyVars
<1>0. Times /\ Queues /\ Awaited /\ Underway /\ SessionInv
  BY DEF SessionInv
<1>1. UNCHANGED <<clock, disk, version, git, watches, seen, opened, text, standIn, snapshot,
                  documents, mapping, tracked, held, inbox, statuses, buffers, heard, known,
                  pending, loading, announced, there, sure, sent, asked>>
  OBVIOUS
<1>2. /\ clock' \in Nat /\ clock' >= clock /\ version' \in [File -> Nat]
      /\ \A g \in File : version'[g] >= version[g] /\ version'[g] <= clock'
      /\ known' \in [File -> Nat] /\ AtLeast(version', known') /\ AtLeast(known', known)
  BY <1>0, <1>1 DEF Times, AtLeast
<1>3. statuses' \in Seq(Statuses) /\ pending' \subseteq File /\ loading' \subseteq File
  BY <1>0, <1>1 DEF Queues
<1>4. Times' /\ Queues' /\ Asks' /\ Told' /\ DocumentsFit' /\ ServedWell'
  BY <1>0, <1>1, <1>2, <1>3, NothingRead
<1>5. Awaited'
  <2>1. Waits' <=> Waits
    BY <1>1 DEF Waits, Status
  <2> QED
    BY <1>0, <1>1, <2>1, SameInbox DEF Awaited
<1>6. Underway'
  BY <1>0, <1>1, SameInbox DEF Underway
<1> QED
  BY <1>4, <1>5, <1>6 DEF SessionInv

\* Every step keeps the invariant: one lemma for each action.
LEMMA SessionStep ==
  ASSUME SessionInv, [Next]_vars
  PROVE  SessionInv'
<1>0. ListingInv'
  BY NextListing DEF SessionInv
<1>1. ASSUME NEW f \in File, NEW exists \in BOOLEAN, Edit(f, exists)
      PROVE  SessionInv'
  BY <1>0, <1>1, EditStep
<1>2. ASSUME NEW r \in Request, NEW answering \in SUBSET git, ClientRequests(r, answering)
      PROVE  SessionInv'
  BY <1>0, <1>2, ClientRequestsStep
<1>3. CASE ClientAnnounces
  BY <1>0, <1>3, ClientAnnouncesStep
<1>4. ASSUME NEW d \in Document, ClientOpens(d) \/ ClientChanges(d) \/ ClientClosesDocument(d)
      PROVE  SessionInv'
  BY <1>0, <1>4, ClientDocumentStep
<1>5. CASE OnStatus
  BY <1>0, <1>5, OnStatusStep
<1>6. CASE ServerHearsOfFiles
  BY <1>0, <1>6, ServerHearsOfFilesStep
<1>7. CASE ServerHearsOfDocument
  BY <1>0, <1>7, ServerHearsOfDocumentStep
<1>8. CASE ServerServes
  BY <1>0, <1>8, ServerServesStep
<1>9. CASE LoadBegins
  BY <1>0, <1>9, LoadBeginsStep
<1>10. CASE LoadEnds
  BY <1>0, <1>10, LoadEndsStep
<1>11. CASE UNCHANGED vars
  BY <1>0, <1>11, SessionStutters
<1> QED
  BY <1>1, <1>2, <1>3, <1>4, <1>5, <1>6, <1>7, <1>8, <1>9, <1>10, <1>11
  DEF Next, ClientNext, ServerReads

\* Every letter on its way fits those around it, in every state of every session.
THEOREM SessionInvariant == Spec => []SessionInv
<1>1. SessionInv /\ [Next]_vars => SessionInv'
  BY SessionStep
<1> QED
  BY InitSession, <1>1, PTL DEF Spec

--------------------------------------------------------------------------------
(* What stays open until a request is served                                *)

Opens(j, d) == inbox[j].is = "didOpen" /\ inbox[j].doc = d

\* A document that a didOpen behind a request opens was opened after the client sent
\* that request.
OpenedLater ==
  \A k, j \in 1..Len(inbox) :
    k < j /\ inbox[k].is = "request" /\ inbox[j].is = "didOpen"
      => since[inbox[j].doc] >= inbox[k].id

\* What the client has open, the server has open or will be told to open, even after
\* a didClose that waits.
OpenComes ==
  \A d \in opened :
    /\ d \in DOMAIN buffers \/ \E j \in 1..Len(inbox) : Opens(j, d)
    /\ \A i \in 1..Len(inbox) :
         inbox[i].is = "didClose" /\ inbox[i].doc = d => \E j \in (i + 1)..Len(inbox) : Opens(j, d)

KeptOpen ==
  /\ since \in [Document -> Nat] /\ \A d \in Document : since[d] <= sent
  /\ OpenedLater /\ OpenComes

\* Files and requests are written behind the documents.
LEMMA KeptBehind ==
  ASSUME SessionInv, KeptOpen, NEW m \in Seq(Letter), inbox' = inbox \o m,
         \A i \in 1..Len(m) : m[i].is \in {"watched", "request"},
         UNCHANGED <<since, opened, buffers>>, sent' \in Nat, sent' >= sent
  PROVE  KeptOpen'
<1>0. inbox \in Seq(Letter) /\ sent \in Nat
  BY DEF SessionInv, Queues
<1>1. /\ Len(inbox) \in Nat /\ Len(m) \in Nat /\ Len(inbox') = Len(inbox) + Len(m)
      /\ \A i \in 1..Len(inbox) : inbox'[i] = inbox[i]
      /\ \A i \in 1..Len(m) : inbox'[Len(inbox) + i] = m[i]
  BY <1>0, Grown
<1>2. ASSUME NEW i \in 1..Len(inbox'), inbox'[i].is \in {"didOpen", "didClose"}
      PROVE  i \in 1..Len(inbox)
  <2> SUFFICES ASSUME i \notin 1..Len(inbox) PROVE FALSE
    OBVIOUS
  <2>1. i - Len(inbox) \in 1..Len(m) /\ i = Len(inbox) + (i - Len(inbox))
    BY <1>1
  <2>2. inbox'[i].is \in {"watched", "request"}
    BY <1>1, <2>1
  <2> QED
    BY <1>2, <2>2
<1>3. since' \in [Document -> Nat] /\ \A d \in Document : since'[d] <= sent'
  BY <1>0 DEF KeptOpen
<1>4. OpenedLater'
  <2> SUFFICES ASSUME NEW k \in 1..Len(inbox'), NEW j \in 1..Len(inbox'), k < j,
                      inbox'[k].is = "request", inbox'[j].is = "didOpen"
               PROVE  since[inbox'[j].doc] >= inbox'[k].id
    BY DEF OpenedLater
  <2>1. j \in 1..Len(inbox) /\ k \in 1..Len(inbox)
    BY <1>1, <1>2
  <2> QED
    BY <1>1, <2>1 DEF KeptOpen, OpenedLater
<1>5. OpenComes'
  <2> SUFFICES ASSUME NEW d \in opened
               PROVE  /\ d \in DOMAIN buffers \/ \E j \in 1..Len(inbox') : Opens(j, d)'
                      /\ \A i \in 1..Len(inbox') : inbox'[i].is = "didClose" /\ inbox'[i].doc = d
                           => \E j \in (i + 1)..Len(inbox') : Opens(j, d)'
    BY DEF OpenComes
  <2>1. \A j \in 1..Len(inbox) : j \in 1..Len(inbox') /\ (Opens(j, d) => Opens(j, d)')
    BY <1>1 DEF Opens
  <2>2. d \in DOMAIN buffers \/ \E j \in 1..Len(inbox') : Opens(j, d)'
    BY <2>1 DEF KeptOpen, OpenComes
  <2>3. ASSUME NEW i \in 1..Len(inbox'), inbox'[i].is = "didClose", inbox'[i].doc = d
        PROVE  \E j \in (i + 1)..Len(inbox') : Opens(j, d)'
    <3>1. i \in 1..Len(inbox) /\ inbox[i].is = "didClose" /\ inbox[i].doc = d
      BY <1>1, <1>2, <2>3
    <3>2. PICK j \in (i + 1)..Len(inbox) : Opens(j, d)
      BY <3>1 DEF KeptOpen, OpenComes
    <3>3. j \in (i + 1)..Len(inbox') /\ j \in 1..Len(inbox)
      BY <1>1, <3>1
    <3> QED
      BY <2>1, <3>2, <3>3
  <2> QED
    BY <2>2, <2>3
<1> QED
  BY <1>3, <1>4, <1>5 DEF KeptOpen

\* A letter about a document is written behind the others.
LEMMA KeptByLetter ==
  ASSUME SessionInv, KeptOpen, NEW d \in Document, NEW l \in Letter, inbox' = inbox \o <<l>>,
         l.is \in {"didOpen", "didChange", "didClose"}, l.doc = d,
         l.is = "didOpen" <=> d \notin opened,
         opened' = IF l.is = "didClose" THEN opened \ {d} ELSE opened \cup {d},
         since' = IF l.is = "didOpen" THEN [since EXCEPT ![d] = sent] ELSE since,
         UNCHANGED <<buffers, sent>>
  PROVE  KeptOpen'
<1>0. /\ inbox \in Seq(Letter) /\ sent \in Nat /\ opened \subseteq Document
      /\ \A i \in 1..Len(inbox) : inbox[i].is = "request" => inbox[i].id \in 1..sent
      /\ since \in [Document -> Nat] /\ \A e \in Document : since[e] <= sent
  BY DEF SessionInv, Queues, KeptOpen
<1>1. PICK m \in Seq(Letter) : inbox' = inbox \o m /\ Len(m) = 1 /\ m[1] = l
  BY OneLetter
<1>2. /\ Len(inbox) \in Nat /\ Len(inbox') = Len(inbox) + 1
      /\ \A i \in 1..Len(inbox) : inbox'[i] = inbox[i]
  BY <1>0, <1>1, Grown
<1>3. PICK new \in 1..Len(inbox') : new = Len(inbox) + 1 /\ inbox'[new] = l
  <2>1. \A i \in 1..Len(m) : inbox'[Len(inbox) + i] = m[i]
    BY <1>0, <1>1, Grown
  <2>2. 1 \in 1..Len(m) /\ Len(inbox) + 1 \in 1..Len(inbox')
    BY <1>1, <1>2
  <2> QED
    BY <1>1, <2>1, <2>2
<1>4. \A i \in 1..Len(inbox') : i \in 1..Len(inbox) \/ i = new
  BY <1>2, <1>3
<1>5. /\ since' \in [Document -> Nat] /\ \A e \in Document : since'[e] <= sent'
      /\ \A e \in Document : since'[e] >= since[e]
  BY <1>0
<1>6. OpenedLater'
  <2> SUFFICES ASSUME NEW k \in 1..Len(inbox'), NEW j \in 1..Len(inbox'), k < j,
                      inbox'[k].is = "request", inbox'[j].is = "didOpen"
               PROVE  since'[inbox'[j].doc] >= inbox'[k].id
    BY DEF OpenedLater
  <2>1. k \in 1..Len(inbox) /\ inbox'[k] = inbox[k] /\ inbox[k].id \in 1..sent
    <3>1. k \in 1..Len(inbox)
      BY <1>2
    <3> QED
      BY <1>0, <1>2, <3>1
  <2>2. CASE j = new
    <3>1. inbox'[j].doc = d /\ since'[d] = sent
      BY <1>0, <1>3, <2>2
    <3> QED
      BY <1>0, <2>1, <3>1
  <2>3. CASE j \in 1..Len(inbox)
    <3>1. inbox'[j] = inbox[j] /\ inbox[j] \in Letter
      BY <1>0, <1>2, <2>3, ElementOfSeq
    <3>2. inbox[j].doc \in Document
      BY <3>1, LetterFields
    <3>3. since[inbox[j].doc] >= inbox[k].id
      BY <2>1, <2>3, <3>1 DEF KeptOpen, OpenedLater
    <3>4. PICK e \in Document : e = inbox[j].doc
      BY <3>2
    <3>5. since'[e] >= since[e] /\ since'[e] \in Nat /\ since[e] \in Nat
      BY <1>0, <1>5
    <3>6. inbox[k].id \in Nat
      BY <1>0, <2>1
    <3> QED
      BY <2>1, <3>1, <3>3, <3>4, <3>5, <3>6
  <2> QED
    BY <1>4, <2>2, <2>3
<1>7. OpenComes'
  <2> SUFFICES ASSUME NEW e \in opened'
               PROVE  /\ e \in DOMAIN buffers \/ \E j \in 1..Len(inbox') : Opens(j, e)'
                      /\ \A i \in 1..Len(inbox') : inbox'[i].is = "didClose" /\ inbox'[i].doc = e
                           => \E j \in (i + 1)..Len(inbox') : Opens(j, e)'
    BY DEF OpenComes
  <2>1. \A j \in 1..Len(inbox) : j \in 1..Len(inbox') /\ (Opens(j, e) => Opens(j, e)')
    BY <1>2 DEF Opens
  <2>2. inbox'[new].is = "didClose" => inbox'[new].doc # e
    BY <1>3
  <2>3. CASE e \in opened
    <3>1. e \in DOMAIN buffers \/ \E j \in 1..Len(inbox') : Opens(j, e)'
      BY <2>1, <2>3 DEF KeptOpen, OpenComes
    <3>2. ASSUME NEW i \in 1..Len(inbox'), inbox'[i].is = "didClose", inbox'[i].doc = e
          PROVE  \E j \in (i + 1)..Len(inbox') : Opens(j, e)'
      <4>1. i \in 1..Len(inbox) /\ inbox[i].is = "didClose" /\ inbox[i].doc = e
        BY <1>2, <1>4, <2>2, <3>2
      <4>2. PICK j \in (i + 1)..Len(inbox) : Opens(j, e)
        BY <2>3, <4>1 DEF KeptOpen, OpenComes
      <4>3. j \in (i + 1)..Len(inbox') /\ j \in 1..Len(inbox)
        BY <1>2, <4>1
      <4> QED
        BY <2>1, <4>2, <4>3
    <3> QED
      BY <3>1, <3>2
  <2>4. CASE e \notin opened
    <3>1. e = d /\ l.is = "didOpen"
      BY <2>4
    <3>2. Opens(new, e)'
      BY <1>3, <3>1 DEF Opens
    <3>3. ASSUME NEW i \in 1..Len(inbox'), inbox'[i].is = "didClose"
          PROVE  new \in (i + 1)..Len(inbox')
      <4>1. i # new
        BY <1>3, <3>1, <3>3
      <4> QED
        BY <1>2, <1>3, <1>4, <4>1
    <3> QED
      BY <3>2, <3>3
  <2> QED
    BY <2>3, <2>4
<1> QED
  BY <1>5, <1>6, <1>7 DEF KeptOpen

\* The server reads the first letter; a document leaves its documents only by the
\* didClose that it reads.
LEMMA KeptByReading ==
  ASSUME SessionInv, KeptOpen, inbox # <<>>, inbox' = Tail(inbox),
         \A d \in DOMAIN buffers :
           d \in DOMAIN buffers' \/ (inbox[1].is = "didClose" /\ inbox[1].doc = d),
         inbox[1].is = "didOpen" => inbox[1].doc \in DOMAIN buffers',
         UNCHANGED <<since, opened, sent>>
  PROVE  KeptOpen'
<1>1. /\ Len(inbox) \in Nat /\ Len(inbox') = Len(inbox) - 1 /\ 1 \in 1..Len(inbox)
      /\ \A i \in 1..Len(inbox') : i + 1 \in 1..Len(inbox) /\ inbox'[i] = inbox[i + 1]
      /\ \A i \in 1..Len(inbox) : i = 1 \/ \E j \in 1..Len(inbox') : i = j + 1
  BY ShiftedLetters
<1>2. since' \in [Document -> Nat] /\ \A d \in Document : since'[d] <= sent'
  BY DEF KeptOpen
<1>3. OpenedLater'
  <2> SUFFICES ASSUME NEW k \in 1..Len(inbox'), NEW j \in 1..Len(inbox'), k < j,
                      inbox'[k].is = "request", inbox'[j].is = "didOpen"
               PROVE  since[inbox'[j].doc] >= inbox'[k].id
    BY DEF OpenedLater
  <2>1. /\ k + 1 \in 1..Len(inbox) /\ inbox'[k] = inbox[k + 1]
        /\ j + 1 \in 1..Len(inbox) /\ inbox'[j] = inbox[j + 1] /\ k + 1 < j + 1
    BY <1>1
  <2> QED
    BY <2>1 DEF KeptOpen, OpenedLater
<1>4. OpenComes'
  <2> SUFFICES ASSUME NEW d \in opened
               PROVE  /\ d \in DOMAIN buffers' \/ \E j \in 1..Len(inbox') : Opens(j, d)'
                      /\ \A i \in 1..Len(inbox') : inbox'[i].is = "didClose" /\ inbox'[i].doc = d
                           => \E j \in (i + 1)..Len(inbox') : Opens(j, d)'
    BY DEF OpenComes
  <2>1. ASSUME NEW i \in 1..Len(inbox), Opens(i, d), i # 1
        PROVE  i - 1 \in 1..Len(inbox') /\ Opens(i - 1, d)'
    <3>1. i - 1 \in 1..Len(inbox') /\ (i - 1) + 1 = i
      BY <1>1, <2>1
    <3>2. inbox'[i - 1] = inbox[i]
      BY <1>1, <3>1
    <3> QED
      BY <2>1, <3>1, <3>2 DEF Opens
  <2>2. d \in DOMAIN buffers' \/ \E j \in 1..Len(inbox') : Opens(j, d)'
    <3>1. CASE d \in DOMAIN buffers /\ d \notin DOMAIN buffers'
      <4>1. inbox[1].is = "didClose" /\ inbox[1].doc = d
        BY <3>1
      <4>2. PICK j \in (1 + 1)..Len(inbox) : Opens(j, d)
        BY <1>1, <4>1 DEF KeptOpen, OpenComes
      <4>3. j \in 1..Len(inbox) /\ j # 1
        BY <1>1
      <4> QED
        BY <2>1, <4>2, <4>3
    <3>2. CASE d \notin DOMAIN buffers
      <4>1. PICK j \in 1..Len(inbox) : Opens(j, d)
        BY <3>2 DEF KeptOpen, OpenComes
      <4>2. CASE j = 1
        BY <4>1, <4>2 DEF Opens
      <4>3. CASE j # 1
        BY <2>1, <4>1, <4>3
      <4> QED
        BY <4>2, <4>3
    <3> QED
      BY <3>1, <3>2
  <2>3. ASSUME NEW i \in 1..Len(inbox'), inbox'[i].is = "didClose", inbox'[i].doc = d
        PROVE  \E j \in (i + 1)..Len(inbox') : Opens(j, d)'
    <3>1. i + 1 \in 1..Len(inbox) /\ inbox[i + 1].is = "didClose" /\ inbox[i + 1].doc = d
      BY <1>1, <2>3
    <3>2. PICK j \in ((i + 1) + 1)..Len(inbox) : Opens(j, d)
      BY <3>1 DEF KeptOpen, OpenComes
    <3>3. j \in 1..Len(inbox) /\ j # 1 /\ j - 1 \in (i + 1)..Len(inbox')
      BY <1>1, <3>1
    <3> QED
      BY <2>1, <3>2, <3>3
  <2> QED
    BY <2>2, <2>3
<1> QED
  BY <1>2, <1>3, <1>4 DEF KeptOpen

\* A request arrives behind the changes.
LEMMA KeptByRequest ==
  ASSUME SessionInv, KeptOpen, NEW r \in Request, NEW answering \in SUBSET git,
         ClientRequests(r, answering)
  PROVE  KeptOpen'
<1>1. UNCHANGED <<since, opened, buffers>> /\ sent \in Nat
  BY DEF ClientRequests, clientVars, serverVars, SessionInv, Queues
<1>2. r = sent + 1 /\ sent' = r
  BY RequestEffect
<1>3. PICK changes \in SUBSET Change :
        inbox' = inbox \o LettersOf(changes, r, Verdict(tracked))
  BY RequestEffect
<1>4. PICK verdict : verdict = Verdict(tracked)
  OBVIOUS
<1>5. PICK m : m = LettersOf(changes, r, verdict)
  OBVIOUS
<1>6. /\ m \in Seq(Letter)
      /\ \A i \in 1..Len(m) : \/ m[i] = [is |-> "watched", changes |-> changes]
                              \/ m[i] = Asking(r)
  BY <1>1, <1>2, <1>5, RequestLetters
<1>7. \A i \in 1..Len(m) : m[i].is \in {"watched", "request"}
  BY <1>6 DEF Asking
<1>8. inbox' = inbox \o m
  BY <1>3, <1>4, <1>5
<1>9. m \in Seq(Letter) /\ sent' \in Nat /\ sent' >= sent
  BY <1>1, <1>2, <1>6
<1> QED
  BY <1>1, <1>7, <1>8, <1>9, KeptBehind

\* The client tells of files.
LEMMA KeptByAnnouncement ==
  ASSUME SessionInv, KeptOpen, ClientAnnounces
  PROVE  KeptOpen'
<1>1. UNCHANGED <<since, opened, buffers, sent>> /\ sent \in Nat
  BY DEF ClientAnnounces, serverVars, SessionInv, Queues
<1>2. DOMAIN seen \subseteq File /\ DOMAIN disk \subseteq File
  BY DEF SessionInv, Queues, ListingInv, DiskOfVersions
<1>3. PICK changes : changes = Changes(seen, disk)
  OBVIOUS
<1>4. changes \in SUBSET Change /\ changes # {} /\ inbox' = inbox \o Tells(changes)
  BY <1>2, <1>3, ChangesTyped DEF ClientAnnounces, Sends
<1>5. PICK m : m = Tells(changes)
  OBVIOUS
<1>6. /\ m \in Seq(Letter) /\ Len(m) = 1 /\ m[1] = [is |-> "watched", changes |-> changes]
  BY <1>4, <1>5, TellsOne
<1>7. \A i \in 1..Len(m) : m[i].is \in {"watched", "request"}
  BY <1>6
<1>8. inbox' = inbox \o m /\ m \in Seq(Letter) /\ sent' \in Nat /\ sent' >= sent
  BY <1>1, <1>4, <1>5, <1>6
<1> QED
  BY <1>1, <1>7, <1>8, KeptBehind

\* The client opens, changes or closes a document.
LEMMA KeptByDocument ==
  ASSUME SessionInv, KeptOpen, NEW d \in Document,
         ClientOpens(d) \/ ClientChanges(d) \/ ClientClosesDocument(d)
  PROVE  KeptOpen'
<1> USE DEF diskVars, clientVars, proxyVars, serverVars, historyVars
<1>0. /\ documents = opened /\ text \in [Document -> Nat] /\ clock \in Nat
  BY DEF SessionInv, Times, Queues
<1>1. CASE ClientOpens(d)
  <2> DEFINE l == [is |-> OnDidOpen(documents, d).sends, doc |-> d, text |-> text'[d]]
  <2>1. /\ opened' = opened \cup {d} /\ inbox' = inbox \o <<l>> /\ text'[d] \in Nat
        /\ since' = IF d \in opened THEN since ELSE [since EXCEPT ![d] = sent]
        /\ UNCHANGED <<buffers, sent>>
    BY <1>0, <1>1 DEF ClientOpens, Sends, Types
  <2>2. /\ l.is \in {"didOpen", "didChange"} /\ l.doc = d
        /\ l.is = "didOpen" <=> d \notin opened
    BY <1>0 DEF OnDidOpen
  <2>3. l \in Letter
    BY <2>1, <2>2 DEF Letter, OnDidOpen
  <2> HIDE DEF l
  <2> QED
    BY <2>1, <2>2, <2>3, KeptByLetter
<1>2. CASE ClientChanges(d)
  <2> DEFINE l == [is |-> "didChange", doc |-> d, text |-> text'[d]]
  <2>1. /\ d \in opened /\ opened' = opened \cup {d} /\ inbox' = inbox \o <<l>> /\ text'[d] \in Nat
        /\ UNCHANGED <<since, buffers, sent>>
    BY <1>0, <1>2 DEF ClientChanges, Sends, Types
  <2>2. l.is = "didChange" /\ l.doc = d
    OBVIOUS
  <2>3. l \in Letter
    BY <2>1 DEF Letter
  <2> HIDE DEF l
  <2> QED
    BY <2>1, <2>2, <2>3, KeptByLetter
<1>3. CASE ClientClosesDocument(d)
  <2> DEFINE l == [is |-> "didClose", doc |-> d, text |-> text[d]]
  <2>1. /\ d \in opened /\ opened' = opened \ {d} /\ inbox' = inbox \o <<l>>
        /\ UNCHANGED <<since, buffers, sent>>
    BY <1>0, <1>3 DEF ClientClosesDocument, Sends
  <2>2. l.is = "didClose" /\ l.doc = d
    OBVIOUS
  <2>3. l \in Letter
    BY <1>0 DEF Letter
  <2> HIDE DEF l
  <2> QED
    BY <2>1, <2>2, <2>3, KeptByLetter
<1> QED
  BY <1>1, <1>2, <1>3

\* Every step keeps what is open.
LEMMA KeptStep ==
  ASSUME SessionInv, KeptOpen, [Next]_vars
  PROVE  KeptOpen'
<1> USE DEF diskVars, clientVars, proxyVars, serverVars, historyVars
<1>0. inbox \in Seq(Letter) /\ sent \in Nat
  BY DEF SessionInv, Queues
<1>1. ASSUME UNCHANGED <<inbox, opened, buffers, sent, since>>
      PROVE  KeptOpen'
  BY <1>1 DEF KeptOpen, OpenedLater, OpenComes, Opens
<1>2. ASSUME NEW f \in File, NEW exists \in BOOLEAN, Edit(f, exists)
      PROVE  KeptOpen'
  BY <1>1, <1>2 DEF Edit
<1>3. ASSUME NEW r \in Request, NEW answering \in SUBSET git, ClientRequests(r, answering)
      PROVE  KeptOpen'
  BY <1>3, KeptByRequest
<1>4. CASE ClientAnnounces
  BY <1>4, KeptByAnnouncement
<1>5. ASSUME NEW d \in Document, ClientOpens(d) \/ ClientChanges(d) \/ ClientClosesDocument(d)
      PROVE  KeptOpen'
  BY <1>5, KeptByDocument
<1>6. CASE OnStatus
  <2>1. PICK m \in Seq(Letter) :
          inbox' = inbox \o m /\ \A i \in 1..Len(m) : m[i].is = "request"
    BY <1>6, Released
  <2>2. UNCHANGED <<since, opened, buffers, sent>>
    BY <1>6 DEF OnStatus
  <2> QED
    BY <1>0, <2>1, <2>2, KeptBehind
<1>7. CASE ServerHearsOfFiles \/ ServerServes
  <2>1. /\ inbox # <<>> /\ inbox' = Tail(inbox) /\ Head(inbox).is \in {"watched", "request"}
        /\ UNCHANGED <<since, opened, buffers, sent>>
    BY <1>7 DEF ServerHearsOfFiles, ServerServes, Reads
  <2>2. Head(inbox) = inbox[1]
    BY <2>1, ShiftedLetters
  <2> QED
    BY <2>1, <2>2, KeptByReading
<1>8. CASE ServerHearsOfDocument
  <2>1. /\ inbox # <<>> /\ inbox' = Tail(inbox)
        /\ inbox[1].is \in {"didOpen", "didChange", "didClose"}
        /\ DOMAIN buffers' = IF inbox[1].is = "didClose" THEN DOMAIN buffers \ {inbox[1].doc}
                             ELSE DOMAIN buffers \cup {inbox[1].doc}
    BY <1>8, TakesDocument
  <2>2. UNCHANGED <<since, opened, sent>>
    BY <1>8 DEF ServerHearsOfDocument
  <2> QED
    BY <2>1, <2>2, KeptByReading
<1>9. CASE LoadBegins \/ LoadEnds
  BY <1>1, <1>9 DEF LoadBegins, LoadEnds
<1>10. CASE UNCHANGED vars
  BY <1>1, <1>10 DEF vars
<1> QED
  BY <1>2, <1>3, <1>4, <1>5, <1>6, <1>7, <1>8, <1>9, <1>10 DEF Next, ClientNext, ServerReads

\* A document that the client has open was opened after every request that waits
\* before its didOpen, in every state of every session.
THEOREM StaysOpen == Spec => []KeptOpen
<1>1. Init => KeptOpen
  BY EmptySeq DEF Init, KeptOpen, OpenedLater, OpenComes
<1>2. SessionInv /\ KeptOpen /\ [Next]_vars => KeptOpen'
  BY KeptStep
<1> QED
  BY SessionInvariant, <1>1, <1>2, PTL DEF Spec

--------------------------------------------------------------------------------
(* What it is for                                                           *)

\* A request that the server comes to is the first letter.
LEMMA ComesFirst ==
  ASSUME SessionInv, NEW r \in DOMAIN asked, ComesTo(r)
  PROVE  /\ ToldAt(1, r) /\ TextAt(1, r) /\ FreshAt(1, r)
         /\ \A i \in 1..(1 - 1) : FALSE
<1>1. inbox \in Seq(Letter) /\ inbox # <<>>
  BY DEF SessionInv, Queues, ComesTo
<1>2. Len(inbox) \in Nat /\ Len(inbox) # 0
  BY <1>1, EmptySeq
<1>3. 1 \in 1..Len(inbox) /\ Head(inbox) = inbox[1]
  BY <1>1, <1>2, HeadTailProperties
<1>4. IsRequest(1, r)
  BY <1>3 DEF ComesTo, IsRequest
<1> QED
  BY <1>3, <1>4 DEF SessionInv, ServedWell

\* However long a request was held (gate.rs) and whatever was edited meanwhile, the
\* server has heard of every file what the client had when it sent the request:
\* changes_since_last_scan is told before the verdict (proxy.rs, on_client).
THEOREM ToldWhateverIsHeld == Spec => []ToldBeforeServed
<1>1. SessionInv => ToldBeforeServed
  BY ComesFirst DEF ToldBeforeServed, ToldAt, AtLeast
<1> QED
  BY SessionInvariant, <1>1, PTL

\* The same for the documents: what is held never overtakes a didOpen or didChange that
\* the client sent before it, so what was open then, and was not closed since, is open.
THEOREM TextWhateverIsHeld == Spec => []TextBeforeServed
<1>1. SessionInv /\ KeptOpen => TextBeforeServed
  <2> SUFFICES ASSUME SessionInv, KeptOpen, NEW r \in DOMAIN asked, ComesTo(r)
               PROVE  /\ \A d \in opened : since[d] < r => d \in DOMAIN buffers
                      /\ \A d \in DOMAIN buffers : buffers[d] >= asked[r].text[d]
    BY DEF TextBeforeServed
  <2>1. ASSUME NEW d \in DOMAIN buffers
        PROVE  buffers[d] >= asked[r].text[d]
    <3>1. d \in Document
      BY DEF SessionInv, Queues
    <3> QED
      BY <3>1, ComesFirst DEF TextAt
  <2>2. ASSUME NEW d \in opened, since[d] < r
        PROVE  d \in DOMAIN buffers
    <3>1. /\ inbox \in Seq(Letter) /\ inbox # <<>> /\ opened \subseteq Document
          /\ r \in 1..sent /\ sent \in Nat
      BY DEF SessionInv, Queues, Asks, ComesTo
    <3>2. Len(inbox) \in Nat /\ Len(inbox) # 0
      BY <3>1, EmptySeq
    <3>3. 1 \in 1..Len(inbox) /\ inbox[1] = [is |-> "request", id |-> r]
      BY <3>1, <3>2, HeadTailProperties DEF ComesTo
    <3> SUFFICES ASSUME NEW j \in 1..Len(inbox), Opens(j, d)
                 PROVE  FALSE
      BY DEF KeptOpen, OpenComes
    <3>4. j # 1
      BY <3>3 DEF Opens
    <3>5. since[d] >= r
      BY <3>2, <3>3, <3>4 DEF KeptOpen, OpenedLater, Opens
    <3>6. since[d] \in Nat /\ r \in Nat
      BY <3>1 DEF KeptOpen
    <3> QED
      BY <2>2, <3>5, <3>6
  <2> QED
    BY <2>1, <2>2
<1> QED
  BY SessionInvariant, StaysOpen, <1>1, PTL

\* A client that opens what is open (on_did_open, documents.rs) does not make the
\* server drop a text: when it has read all, it has the documents of the client.
THEOREM DocumentsAgree == Spec => []SameDocuments
<1>1. SessionInv => SameDocuments
  <2> SUFFICES ASSUME SessionInv, \A i \in DOMAIN inbox : inbox[i].is \in {"watched", "request"}
               PROVE  DOMAIN buffers = opened /\ \A d \in opened : buffers[d] = text[d]
    BY DEF SameDocuments
  <2>1. /\ inbox \in Seq(Letter) /\ opened \subseteq Document /\ DOMAIN buffers \subseteq Document
    BY DEF SessionInv, Queues
  <2>2. DOMAIN inbox = 1..Len(inbox)
    BY <2>1, LenProperties
  <2>3. \A d : \A i \in 1..Len(inbox) : ~About(i, d)
    BY <2>2 DEF About
  <2>4. \A d \in Document : /\ d \in DOMAIN buffers <=> d \in opened
                            /\ d \in opened => buffers[d] = text[d]
    BY <2>3 DEF SessionInv, DocumentsFit
  <2> QED
    BY <2>1, <2>4
<1> QED
  BY SessionInvariant, <1>1, PTL

\* A prediction (observe_client, rust_analyzer.rs) that no status on its way can take
\* back holds until the load that it predicts has ended: what a client told a server at
\* rest is in the index when the server comes to a later request.
THEOREM PredictionHolds == Spec => []FreshWhenServed
<1>1. SessionInv => FreshWhenServed
  BY ComesFirst DEF FreshWhenServed, FreshAt, AtLeast
<1> QED
  BY SessionInvariant, <1>1, PTL
================================================================================
