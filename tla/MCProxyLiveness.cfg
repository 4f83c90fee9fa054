CONSTANTS
  r1 = r1
  r2 = r2
  server = server
  Request = {r1}
  Name = {server}
  InitialState <- MCInitialState
  Signal <- MCTwoSignals
  None = None
  Stranger = Stranger
  Watching = {FALSE}
  MaxPipe = 1
SPECIFICATION FairSpec
CHECK_DEADLOCK FALSE
INVARIANT NoChangeLost
PROPERTY HeldReleased
PROPERTY LossStops
