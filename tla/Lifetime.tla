-------------------------------- MODULE Lifetime --------------------------------
(***************************************************************************)
(* The lives of three processes: the client, the proxy (main.rs, run) and the *)
(* upstream (process/), on each operating system.  The first stage of         *)
(* following a death is EOF on a pipe; the second is what the operating       *)
(* system offers, for a death that no EOF tells: another process may hold the *)
(* write end of the proxy's stdin, and the loop may be blocked in a write to  *)
(* an upstream that hangs.                                                   *)
(***************************************************************************)
EXTENDS Integers, Sequences

CONSTANTS
  Argv,                   \* command lines: a set of sequences of words
  Code,                   \* exit codes of an upstream
  NoCode                  \* a process killed by a signal has none

ASSUME LifetimeAssumption == Code \subseteq Int /\ NoCode \notin Int

VARIABLES
  os,
  temper,                 \* what ends the upstream: a subset of {"eof", "term"}
  heldOpen,               \* another process holds the write end of the proxy's stdin
  refuses,                \* the operating system refuses the second stage
  argv,
  client, diedAt,         \* alive or dead; the stage of the proxy at that time
  eof,                    \* the proxy's stdin has ended
  stage,                  \* the proxy: launched, parsed, following, spawning, relaying, gone
  how, endedAt,           \* what ended it, and the stage it was in
  code,                   \* its exit code
  follows,                \* it is told when its parent dies
  blocked,                \* the loop waits in a write
  upstream,               \* none, forked, running, zombie, gone
  upstreamCode,
  tied                    \* the upstream is told, or killed, when the proxy dies

environment == <<os, temper, heldOpen, refuses, argv>>
clientVars == <<client, diedAt, eof>>
ending == <<how, endedAt, code>>
proxyVars == <<stage, ending, follows, blocked>>
upstreamVars == <<upstream, upstreamCode, tied>>
vars == <<environment, clientVars, proxyVars, upstreamVars>>

\* lsp-det -- <command> [args...]: nothing after the separator is a flag.  No
\* command is an error.
ParseArgs(words) ==
  IF Len(words) >= 2 /\ words[1] = "--"
  THEN Tail(words)
  ELSE <<>>

\* Mutant: the lowest byte of the code.
ExitCodeWraps(status) == IF status = NoCode THEN 1 ELSE status % 256

\* reap, try_wait and exit_code_from: a death by a signal is 1, the rest is clamped.
ExitCode(status) ==
  IF status = NoCode THEN 1
  ELSE CASE status < 0 -> 0
         [] status > 255 -> 255
         [] OTHER -> status

\* What the status of an exit can be.
Statuses(on) == IF on = "windows" THEN Code ELSE {c \in Code : c \in 0..255} \cup {NoCode}

Init ==
  /\ os \in {"linux", "macos", "windows"}
  /\ temper \in SUBSET {"eof", "term"}
  /\ heldOpen \in BOOLEAN /\ refuses \in BOOLEAN
  /\ argv \in Argv
  /\ client = "alive" /\ diedAt = "alive" /\ eof = FALSE
  /\ stage = "launched" /\ how = "none" /\ endedAt = "none" /\ code = NoCode
  /\ follows = FALSE /\ blocked = FALSE
  /\ upstream = "none" /\ upstreamCode = NoCode /\ tied = FALSE

Ends(why, with) == stage' = "gone" /\ how' = why /\ endedAt' = stage /\ code' = with

--------------------------------------------------------------------------------
(* The client. *)

ClientHangsUp ==
  /\ client = "alive" /\ ~eof
  /\ eof' = TRUE
  /\ UNCHANGED <<environment, client, diedAt, proxyVars, upstreamVars>>

\* It dies, and its end of the pipe with it.
ClientDies ==
  /\ client = "alive"
  /\ client' = "dead" /\ diedAt' = stage
  /\ eof' = (eof \/ ~heldOpen)
  /\ UNCHANGED <<environment, proxyVars, upstreamVars>>

--------------------------------------------------------------------------------
(* The proxy. *)

Main ==
  /\ stage = "launched"
  /\ IF ParseArgs(argv) = <<>>
     THEN Ends("usage", 2)
     ELSE stage' = "parsed" /\ UNCHANGED ending
  /\ UNCHANGED <<environment, clientVars, follows, blocked, upstreamVars>>

\* The death of a parent that is dead already is told to nobody: prctl sets a
\* signal for the next parent, kqueue and OpenProcess find another process or none.
ExitWithParent ==
  /\ stage = "parsed"
  /\ stage' = "following"
  /\ follows' = (client = "alive" /\ ~refuses)
  /\ UNCHANGED <<environment, clientVars, ending, blocked, upstreamVars>>

\* On Linux the child has still to run pre_exec when it is there.
SpawnUpstream ==
  /\ stage = "following"
  /\ stage' = "spawning"
  /\ upstream' = IF os = "linux" THEN "forked" ELSE "running"
  /\ UNCHANGED <<environment, clientVars, ending, follows, blocked, upstreamCode, tied>>

SpawnFails ==
  /\ stage = "following"
  /\ Ends("spawn failed", 1)
  /\ UNCHANGED <<environment, clientVars, follows, blocked, upstreamVars>>

\* The child of a fork asks for a signal when its parent dies; a parent that is
\* dead already sends none.
PreExec ==
  /\ os = "linux" /\ upstream = "forked"
  /\ upstream' = "running"
  /\ tied' = (stage # "gone" /\ ~refuses)
  /\ UNCHANGED <<environment, clientVars, proxyVars, upstreamCode>>

\* Mutant: the upstream is not put into the job.
FollowUpstreamNoJob ==
  /\ stage = "spawning" /\ upstream # "forked"
  /\ stage' = "relaying"
  /\ tied' = (tied \/ os = "macos")
  /\ UNCHANGED <<environment, clientVars, ending, follows, blocked, upstream, upstreamCode>>

\* spawn returns: macOS has remembered the process, Windows has put it into the job.
FollowUpstream ==
  /\ stage = "spawning" /\ upstream # "forked"
  /\ stage' = "relaying"
  /\ tied' = CASE os = "linux" -> tied [] os = "macos" -> TRUE [] os = "windows" -> ~refuses
  /\ UNCHANGED <<environment, clientVars, ending, follows, blocked, upstream, upstreamCode>>

\* The loop writes to an upstream that does not read.
LoopBlocks ==
  /\ stage = "relaying" /\ upstream = "running" /\ ~blocked
  /\ blocked' = TRUE
  /\ UNCHANGED <<environment, clientVars, stage, ending, follows, upstreamVars>>

LoopOnClientEnd ==
  /\ stage = "relaying" /\ eof /\ ~blocked
  /\ upstream' = "gone"
  /\ Ends("client", 0)
  /\ UNCHANGED <<environment, clientVars, follows, blocked, upstreamCode, tied>>

LoopOnUpstreamEnd ==
  /\ stage = "relaying" /\ upstream = "zombie" /\ ~blocked
  /\ upstream' = "gone"
  /\ Ends("upstream", ExitCode(upstreamCode))
  /\ UNCHANGED <<environment, clientVars, follows, blocked, upstreamCode, tied>>

\* Mutant: the loop looks for its parent between two events.
OnParentDeathInLoop ==
  /\ client = "dead" /\ follows /\ stage = "relaying" /\ ~blocked
  /\ Ends("parent", 1)
  /\ UNCHANGED <<environment, clientVars, follows, blocked, upstreamVars>>

\* A signal (Linux) or a thread of its own (macOS, Windows) ends the proxy, whatever
\* the loop does.  macOS passes the news on: to nobody, if spawn has not returned.
OnParentDeath ==
  /\ client = "dead" /\ follows /\ stage \in {"following", "spawning", "relaying"}
  /\ Ends("parent", IF os = "linux" THEN NoCode ELSE 1)
  /\ upstream' = IF os = "macos" /\ tied /\ upstream = "running" /\ "term" \in temper
                 THEN "gone" ELSE upstream
  /\ UNCHANGED <<environment, clientVars, follows, blocked, upstreamCode, tied>>

\* SIGKILL, or a panic of the main thread.
ProxyKilled ==
  /\ stage \notin {"launched", "gone"}
  /\ Ends("killed", NoCode)
  /\ UNCHANGED <<environment, clientVars, follows, blocked, upstreamVars>>

--------------------------------------------------------------------------------
(* The upstream. *)

UpstreamExits ==
  /\ upstream = "running" /\ stage # "gone"
  /\ upstream' = "zombie"
  /\ upstreamCode' \in Statuses(os)
  /\ blocked' = FALSE
  /\ UNCHANGED <<environment, clientVars, stage, ending, follows, tied>>

\* Its stdin ends with the proxy.
UpstreamSeesEof ==
  /\ upstream = "running" /\ stage = "gone" /\ "eof" \in temper
  /\ upstream' = "gone"
  /\ UNCHANGED <<environment, clientVars, proxyVars, upstreamCode, tied>>

\* The kernel sends SIGTERM (Linux), or closes the job (Windows).
KernelFollows ==
  /\ upstream = "running" /\ stage = "gone" /\ tied
  /\ \/ os = "linux" /\ "term" \in temper
     \/ os = "windows"
  /\ upstream' = "gone"
  /\ UNCHANGED <<environment, clientVars, proxyVars, upstreamCode, tied>>

Proxy ==
  \/ Main \/ ExitWithParent \/ SpawnUpstream \/ SpawnFails \/ FollowUpstream
  \/ LoopOnClientEnd \/ LoopOnUpstreamEnd \/ OnParentDeath

Next ==
  \/ ClientHangsUp \/ ClientDies
  \/ Proxy \/ LoopBlocks \/ ProxyKilled
  \/ PreExec \/ UpstreamExits \/ UpstreamSeesEof \/ KernelFollows

Spec == Init /\ [][Next]_vars

\* Processes run and the kernel does what it was asked for.  Nobody has to die.
FairSpec ==
  /\ Spec
  /\ WF_vars(Proxy) /\ WF_vars(OnParentDeath)
  /\ WF_vars(PreExec) /\ WF_vars(UpstreamSeesEof) /\ WF_vars(KernelFollows)

--------------------------------------------------------------------------------
(* Properties. *)

\* The proxy follows the client (exit_with_parent): it ends when its stdin does,
\* unless an upstream that hangs blocks it; and it ends even then, and without
\* EOF, if the client dies after main has asked the operating system for it.
FollowsClient ==
  /\ eof ~> stage = "gone" \/ blocked
  /\ client = "dead" /\ diedAt \in {"following", "spawning", "relaying"} /\ ~refuses
       ~> stage = "gone"

\* The upstream does not outlive the proxy (spawn): not at all if the proxy ends
\* by itself; not if it heeds EOF; and once spawn has returned, not after a sudden
\* death either on Windows and, if it heeds SIGTERM, on Linux.  macOS follows only
\* the death of the client.
NoOrphan ==
  stage = "gone"
    /\ \/ "eof" \in temper
       \/ how \in {"client", "upstream"}
       \/ /\ endedAt = "relaying" /\ ~refuses
          /\ os = "windows" \/ "term" \in temper
          /\ os = "macos" => how = "parent"
  ~> upstream \in {"none", "zombie", "gone"}

\* An upstream that failed is not reported as one that did well
\* (propagates_upstream_exit_code_to_client), for a code that is not negative.
FailureIsTold ==
  how = "upstream" /\ code = 0 => upstreamCode # NoCode /\ upstreamCode <= 0
================================================================================
