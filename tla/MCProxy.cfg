CONSTANTS
  r1 = r1
  r2 = r2
  server = server
  Request = {r1, r2}
  Name = {server}
  InitialState <- MCInitialState
  Signal <- MCSignal
  None = None
  Stranger = Stranger
  Watching = {TRUE}
  MaxPipe = 1
SPECIFICATION Spec
CHECK_DEADLOCK FALSE
INVARIANT TypeOK
INVARIANT OneResponse
INVARIANT SomeoneListens
INVARIANT ClientKnows
INVARIANT InitializeAnsweredOnce
INVARIANT StopsClean
INVARIANT FollowsUpstream
PROPERTY QuietAfterShutdown
PROPERTY ImplementsGate
SYMMETRY MCSymmetry
