----------------------------- MODULE LifetimeProofs ------------------------------
(***************************************************************************)
(* That the exit status of the proxy never turns a failure of the upstream    *)
(* into a success, for all exit codes and command lines.                      *)
(***************************************************************************)
EXTENDS Lifetime, TLAPS

\* A status is an integer, or that of a process that a signal has killed.
IsStatus(status) == status \in Int \cup {NoCode}

\* What the proxy hands on is computed from the status it has reaped, and once it
\* has ended nothing moves either of them.
HandsOnStatus ==
  /\ IsStatus(upstreamCode)
  /\ how = "upstream" => stage = "gone" /\ code = ExitCode(upstreamCode)

\* Clamping maps only what is not positive to 0, and no death by a signal.
LEMMA ClampKeepsFailure ==
  ASSUME NEW status, IsStatus(status), ExitCode(status) = 0
  PROVE  status # NoCode /\ status <= 0
BY LifetimeAssumption DEF IsStatus, ExitCode

LEMMA StatusesAreStatuses ==
  ASSUME NEW on, NEW status \in Statuses(on)
  PROVE  IsStatus(status)
BY LifetimeAssumption DEF Statuses, IsStatus

LEMMA InitHandsOn == Init => HandsOnStatus
BY DEF Init, HandsOnStatus, IsStatus

\* The end of the proxy for a reason other than the upstream's.
LEMMA OtherEnds ==
  ASSUME HandsOnStatus, NEW why, NEW with, Ends(why, with), why # "upstream",
         upstreamCode' = upstreamCode
  PROVE  HandsOnStatus'
BY DEF HandsOnStatus, IsStatus, Ends

\* A step that moves neither the proxy to its end nor the status.
LEMMA StillAlive ==
  ASSUME HandsOnStatus, UNCHANGED <<ending, upstreamCode>>, stage = "gone" => stage' = "gone"
  PROVE  HandsOnStatus'
BY DEF HandsOnStatus, IsStatus, ExitCode, ending

LEMMA NextHandsOn ==
  ASSUME HandsOnStatus, [Next]_vars
  PROVE  HandsOnStatus'
<1> USE DEF environment, clientVars, ending, proxyVars, upstreamVars
<1>1. CASE ClientHangsUp
  BY <1>1, StillAlive DEF ClientHangsUp
<1>2. CASE ClientDies
  BY <1>2, StillAlive DEF ClientDies
<1>3. CASE Main
  <2>1. CASE ParseArgs(argv) = <<>>
    BY <1>3, <2>1, OtherEnds DEF Main
  <2>2. CASE ParseArgs(argv) # <<>>
    BY <1>3, <2>2, StillAlive DEF Main
  <2> QED BY <2>1, <2>2
<1>4. CASE ExitWithParent
  BY <1>4, StillAlive DEF ExitWithParent
<1>5. CASE SpawnUpstream
  BY <1>5, StillAlive DEF SpawnUpstream
<1>6. CASE SpawnFails
  BY <1>6, OtherEnds DEF SpawnFails
<1>7. CASE FollowUpstream
  BY <1>7, StillAlive DEF FollowUpstream
<1>8. CASE LoopOnClientEnd
  BY <1>8, OtherEnds DEF LoopOnClientEnd
<1>9. CASE LoopOnUpstreamEnd
  BY <1>9 DEF LoopOnUpstreamEnd, Ends, HandsOnStatus, IsStatus, ExitCode
<1>10. CASE OnParentDeath
  BY <1>10, OtherEnds DEF OnParentDeath
<1>11. CASE LoopBlocks
  BY <1>11, StillAlive DEF LoopBlocks
<1>12. CASE ProxyKilled
  BY <1>12, OtherEnds DEF ProxyKilled
<1>13. CASE PreExec
  BY <1>13, StillAlive DEF PreExec
<1>14. CASE UpstreamExits
  BY <1>14, StatusesAreStatuses DEF UpstreamExits, HandsOnStatus
<1>15. CASE UpstreamSeesEof
  BY <1>15, StillAlive DEF UpstreamSeesEof
<1>16. CASE KernelFollows
  BY <1>16, StillAlive DEF KernelFollows
<1>17. CASE UNCHANGED vars
  BY <1>17, StillAlive DEF vars
<1> QED
  BY <1>1, <1>2, <1>3, <1>4, <1>5, <1>6, <1>7, <1>8, <1>9, <1>10, <1>11, <1>12, <1>13, <1>14,
     <1>15, <1>16, <1>17 DEF Next, Proxy

\* An upstream that failed is not reported as one that did well (main.rs:31), for
\* all exit codes.
THEOREM FailureIsNotHidden == Spec => []FailureIsTold
<1>1. Init => HandsOnStatus
  BY InitHandsOn
<1>2. HandsOnStatus /\ [Next]_vars => HandsOnStatus'
  BY NextHandsOn
<1>3. HandsOnStatus => FailureIsTold
  BY ClampKeepsFailure DEF HandsOnStatus, FailureIsTold
<1> QED
  BY <1>1, <1>2, <1>3, PTL DEF Spec
================================================================================
