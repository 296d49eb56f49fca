SPECIFICATION FairSpec
CONSTANTS
  r1 = r1
  r2 = r2
  r3 = r3
  Requests = {r1, r2, r3}
  NoCall = NoCall
  Patient = {}
  MayRefuse = TRUE
INVARIANTS
  FollowersServed
  OwnEntryOnly
  HonestAnswer
PROPERTIES
  ImplementsSharedFetch
  EveryRequestReturns
CHECK_DEADLOCK FALSE
