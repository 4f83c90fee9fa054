------------------------------ MODULE WatchedFiles ------------------------------
(***************************************************************************)
(* The stand-in for a client that does not watch files (watched_files.rs):  *)
(* a listing of the files that git knows under the roots of the workspace,   *)
(* compared with the one before whenever a cross-workspace request comes.    *)
(*                                                                         *)
(* A listing maps a file to its mtime.  git (external) lists what is tracked *)
(* or neither tracked nor ignored; a file that is listed and is not there     *)
(* has no metadata and is left out.                                         *)
(***************************************************************************)
EXTENDS Functions

CONSTANTS
  Root,                   \* the roots of the workspace
  Under                   \* the files git lists under each root

\* The set of listings that a scan has: none when git failed.
Failed == {}

\* list_files, for each root that git answers for.
Listed(roots) == UNION {Under[w] : w \in roots}

\* scan: one root that git does not answer for is enough to have no listing.
Scan(roots, git, disk) ==
  IF roots \subseteq git THEN {Restrict(disk, Listed(roots) \cap DOMAIN disk)} ELSE Failed

\* new: the roots that git answers for, and no stand-in without one.  The first
\* listing is taken afterwards and may fail again.
Usable(git) == Root \cap git

Created(old, new) == {[file |-> f, kind |-> "created"] : f \in DOMAIN new \ DOMAIN old}

Changed(old, new) ==
  {[file |-> f, kind |-> "changed"] : f \in {g \in DOMAIN new \cap DOMAIN old : new[g] # old[g]}}

Deleted(old, new) == {[file |-> f, kind |-> "deleted"] : f \in DOMAIN old \ DOMAIN new}

Changes(old, new) == Created(old, new) \cup Changed(old, new) \cup Deleted(old, new)

\* Mutant: a listing that failed is taken for an empty one, but not told.
RescanForgets(snapshot, scan) ==
  IF scan = Failed THEN [snapshot |-> Restrict(snapshot, {}), tells |-> {}]
  ELSE LET current == CHOOSE l \in scan : TRUE
       IN  [snapshot |-> current, tells |-> Changes(snapshot, current)]

\* changes_since_last_scan: without a listing nothing is told and the old one is kept.
Rescan(snapshot, scan) ==
  IF scan = Failed THEN [snapshot |-> snapshot, tells |-> {}]
  ELSE LET current == CHOOSE l \in scan : TRUE
       IN  [snapshot |-> current, tells |-> Changes(snapshot, current)]
================================================================================
