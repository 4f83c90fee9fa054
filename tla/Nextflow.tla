--------------------------------- MODULE Nextflow -------------------------------
(* The mapping of nextflow.rs, where paths are separated by "/".  A path is the  *)
(* sequence of its segments, and so is a pattern.                                *)
EXTENDS Mapping, SequencesExt

CONSTANTS
  Script,       \* scripts that may be on the disk
  Stray         \* a script that is under no folder

\* learn_workspace_folders: the folders of the client, and no lone rootUri.
Start(folders) ==
  [state |-> Initializing, folders |-> folders, exclude |-> {}, initializing |-> {},
   initialized |-> FALSE, expected |-> {}, pending |-> {}]

\* The path ends with a pattern.
IsExcluded(path, patterns) == \E pattern \in patterns : IsSuffix(pattern, path)

\* A walk from dir enters no directory that is excluded.
Visit(dir, patterns, disk) ==
  {file \in disk : IsPrefix(dir, file)
                     /\ \A n \in Len(dir)..Len(file) : ~IsExcluded(SubSeq(file, 1, n), patterns)}

WorkspaceScripts(folders, patterns, disk) == UNION {Visit(dir, patterns, disk) : dir \in folders}

UnderAFolder(a, path) == \E dir \in a.folders : IsPrefix(dir, path)

ReadinessOf(a) ==
  CASE a.initializing # {} \/ ~a.initialized \/ a.expected # {} -> "initializing"
    [] a.initializing = {} /\ a.initialized /\ a.expected = {} /\ a.pending # {} -> "indexing"
    [] OTHER -> "ready"

\* The state after the bookkeeping, if readiness moved.
Moved(a) == SaysIfMoved(a, [a EXCEPT !.state.readiness = ReadinessOf(a)])

Diagnosed(a, files) == [a EXCEPT !.expected = @ \ files, !.pending = @ \ files]

\* disk is what there is when the end arrives.
OnProgress(a, m) ==
  CASE m.is = "begin" /\ m.title = "initializing" -> Moved([a EXCEPT !.initializing = {m.token}])
    [] m.is = "end" /\ a.initializing = {m.token} ->
         Moved([a EXCEPT !.initializing = {}, !.initialized = TRUE,
                         !.expected = WorkspaceScripts(a.folders, a.exclude, m.disk)])
    [] OTHER -> Silent(a)

\* Mutant: the diagnostics that clear the caches count.
OnDiagnosticsAlways(a, file) == Moved(Diagnosed(a, {file}))

\* Inside the token the diagnostics clear the caches.
OnDiagnostics(a, file) ==
  IF a.initializing # {} THEN Silent(a) ELSE Moved(Diagnosed(a, {file}))

Interpret(a, m) == IF m.is = "diagnostics" THEN OnDiagnostics(a, m.file) ELSE OnProgress(a, m)

\* A document under a folder will be parsed, and a deleted file never will.
ObserveClient(a, m) ==
  CASE m.is = "configuration" -> Silent(IF m.carries THEN [a EXCEPT !.exclude = m.exclude] ELSE a)
    [] m.is = "document" /\ UnderAFolder(a, m.file) -> Moved([a EXCEPT !.pending = @ \cup {m.file}])
    [] m.is = "watchedFiles" -> Moved(Diagnosed(a, {c.file : c \in {d \in m.changes : d.type = 3}}))
    [] OTHER -> Silent(a)

--------------------------------------------------------------------------------
(* The server, with the disk it reads.  It has yet to parse the scripts of the  *)
(* scan that its last configuration calls for, and the documents that changed.  *)
(* A file that the client says is deleted is off the disk.                      *)

Silence(folders, disk) ==
  [folders |-> folders, disk |-> disk, exclude |-> {}, open |-> {}, initialized |-> FALSE, unscanned |-> {},
   dirty |-> {}]

\* A part of the path is a pattern, below or at a folder.
Scanned(w) ==
  {f \in w.disk : \E d \in w.folders :
     /\ IsPrefix(d, f)
     /\ ~\E i \in DOMAIN f, j \in Len(d)..Len(f) : SubSeq(f, i, j) \in w.exclude}

Served(w) == {f \in Script \cup Stray : \E d \in w.folders : IsPrefix(d, f)}

Titles(w) == {"request"} \cup {t \in {"initializing"} : w.open = {}}

Begun(w) ==
  {[says |-> [is |-> "begin", token |-> t, title |-> title],
    work |-> IF title = "initializing" THEN [w EXCEPT !.open = {t}] ELSE w]
     : t \in Token \ w.open, title \in Titles(w)}

Finished(w) ==
  {IF t \in w.open
     THEN [says |-> [is |-> "end", token |-> t, disk |-> w.disk],
           work |-> [w EXCEPT !.open = {}, !.initialized = TRUE,
                              !.unscanned = Scanned(w)]]
     ELSE [says |-> [is |-> "end", token |-> t, disk |-> w.disk], work |-> w] : t \in Token}

\* Inside the token a diagnosis is not a parse.
Parsed(w) ==
  {[says |-> [is |-> "diagnostics", file |-> f],
    work |-> IF w.open # {} THEN w
             ELSE [w EXCEPT !.unscanned = @ \ {f}, !.dirty = @ \ {f}]]
     : f \in Script \cup Stray}

Speech(w) == Begun(w) \cup Finished(w) \cup Parsed(w)

\* At most one pattern at a time, that is any part of a path.
Patterns == (UNION {SubSeqs(f) : f \in Script}) \ {<<>>}

Configured(w) ==
  {Notes(w, [is |-> "configuration", carries |-> TRUE, exclude |-> e], "exclude", e)
     : e \in {{}} \cup {{p} : p \in Patterns}}
    \cup {[says |-> [is |-> "configuration", carries |-> FALSE], work |-> w]}

Announced(w) ==
  {Notes(w, [is |-> "document", file |-> f], "dirty", w.dirty \cup ({f} \cap Served(w)))
     : f \in Script \cup Stray}

Changed(w, files, type) ==
  [says |-> [is |-> "watchedFiles", changes |-> {[file |-> f, type |-> type] : f \in files}],
   work |-> IF type # 3 THEN w
            ELSE [w EXCEPT !.disk = @ \ files, !.unscanned = @ \ files, !.dirty = @ \ files]]

Watched(w) == {Changed(w, files, type) : files \in SUBSET Script, type \in 1..3}

ClientSpeech(w) == Configured(w) \cup Announced(w) \cup Watched(w)

Complete(w) == w.open = {} /\ w.initialized /\ w.unscanned = {} /\ w.dirty = {}
================================================================================
