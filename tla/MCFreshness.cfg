CONSTANTS
  w1 = w1
  f1 = f1
  Root = {w1}
  Under <- MCUnder
  MaxRequests = 2
  Document = {}
  Watching = {FALSE}
  MaxEdits = 1
  MaxInbox = 3
  MaxStatuses = 2
SPECIFICATION Spec
CHECK_DEADLOCK FALSE
INVARIANT ReadyIsFresh
