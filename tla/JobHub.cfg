SPECIFICATION FairSpec
CONSTANTS
  p1 = p1
  p2 = p2
  w = w
  k = k
  NoKey = NoKey
  Pages = {p1, p2}
  Watchers = {w}
  KeyOf <- OneForm
  MaxJobs = 2
  Attempts <- Tries
  Reporters = {2}
  Casts <- Companies
  Room = 1
INVARIANT EveryMessageOnce
PROPERTIES
  SubscribersHear
  EveryJobEnds
CHECK_DEADLOCK FALSE
