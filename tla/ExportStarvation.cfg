SPECIFICATION FairLaneSpec
CONSTANTS
  e1 = e1
  e2 = e2
  p1 = p1
  p2 = p2
  shown = shown
  Jobs = {e1, e2, p1, p2}
  Exports = {e1, e2}
  Fetches <- PageFetches
  PrioOf <- PagePrio
  NoFetch = NoFetch
  Workers = {w1, w2}
  PluginKeys = {}
  DedupeKeys = {}
  NoKey = NoKey
  None = None
  QueueOf <- LowQueue
  PluginKeyOf <- NoKeys
  DedupeKeyOf <- NoKeys
  MaxAttempts <- OneAttempt
  LaneOf <- Image
  Capacity <- TwoSlots
  CanShutdown = FALSE
  ExportOf <- Parent
PROPERTY ExportsFinish
CHECK_DEADLOCK FALSE
