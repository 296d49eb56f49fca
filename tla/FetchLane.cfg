SPECIFICATION Spec
CONSTANTS
  j1 = j1
  j2 = j2
  j3 = j3
  w1 = w1
  w2 = w2
  p1 = p1
  d1 = d1
  Jobs = {j1, j2, j3}
  Workers = {w1, w2}
  PluginKeys = {p1}
  DedupeKeys = {d1}
  NoKey = NoKey
  None = None
  QueueOf <- FetchQueueOf
  PluginKeyOf <- FetchPluginKeyOf
  DedupeKeyOf <- FetchDedupeKeyOf
  MaxAttempts <- FetchAttempts
  LaneOf <- FetchLaneOf
  Capacity <- OneSlot
  CanShutdown = TRUE
INVARIANTS
  KeyExclusive
  DedupeExclusive
  NoStaleEntry
  HonestAnswer
  NobodyStranded
CHECK_DEADLOCK FALSE
