SPECIFICATION FairLanesSpec
CONSTANTS
  h1 = h1
  h2 = h2
  h3 = h3
  h4 = h4
  l1 = l1
  l2 = l2
  Fetches = {h1, h2, h3, h4, l1, l2}
  NoFetch = NoFetch
  PrioOf <- MCPrioOf
INVARIANTS
  AdmissionBounded
  NoLostWakeup
PROPERTY EveryFetchAdmitted
CHECK_DEADLOCK FALSE
