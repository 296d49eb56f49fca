SPECIFICATION FairSpec
CONSTANTS
  r1 = r1
  r2 = r2
  r3 = r3
  Requests = {r1, r2, r3}
  NoCall = NoCall
  Patient = {r2, r3}
  MayRefuse = TRUE
PROPERTY AbandonedCallCloses
CHECK_DEADLOCK FALSE
