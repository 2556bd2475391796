CONSTANTS
  Caller = {c1, c2}
  None = None
  MaxDistance = 2
  MaxSent = 4
  MaxStarts = 2
SPECIFICATION FairSpec
INVARIANT EventsAhead
INVARIANT NothingLost
PROPERTY QuiescenceIsComplete
PROPERTY QuiesceReturns
CHECK_DEADLOCK FALSE
