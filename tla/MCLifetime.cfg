SPECIFICATION FairSpec
CONSTANTS
  Argv <- MCArgv
  Code <- MCCode
  NoCode = NoCode
INVARIANT FailureIsTold
PROPERTY FollowsClient
PROPERTY NoOrphan
CHECK_DEADLOCK FALSE
