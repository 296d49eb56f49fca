SPECIFICATION FairLaneSpec
CONSTANTS
  e1 = e1
  e2 = e2
  p1 = p1
  p2 = p2
  shown = shown
  Jobs = {e1, p1, p2, shown}
  Exports = {e1}
  Fetches <- PageFetches
  PrioOf <- PagePrio
  NoFetch = NoFetch
  Workers = {w1, w2}
  PluginKeys = {}
  DedupeKeys = {}
  NoKey = NoKey
  None = None
  QueueOf <- ShownHigh
  PluginKeyOf <- NoKeys
  DedupeKeyOf <- NoKeys
  MaxAttempts <- OneAttempt
  LaneOf <- Image
  Capacity <- OneSlot
  CanShutdown = FALSE
  ExportOf <- BothOfOne
INVARIANT BoundedOvertaking
PROPERTIES
  ExportsFinish
  ReadersAnswered
CHECK_DEADLOCK FALSE
