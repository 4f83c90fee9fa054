CONSTANTS
  w1 = w1
  f1 = f1
  Root = {w1}
  Under <- MCUnder
  MaxRequests = 2
  Document = {d1}
  Watching = {TRUE, FALSE}
  MaxEdits = 2
  MaxInbox = 3
  MaxStatuses = 2
SPECIFICATION FairSpec
CHECK_DEADLOCK FALSE
INVARIANT ToldBeforeServed
INVARIANT TextBeforeServed
INVARIANT SameDocuments
INVARIANT ListingIsTold
INVARIANT FreshWhenServed
PROPERTY AllServed
