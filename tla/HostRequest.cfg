SPECIFICATION Spec
CONSTANTS
  call = call
  page = page
  chrome = chrome
  firefox = firefox
  stdlib = stdlib
  ua = ua
  Requests = {call, page}
  Images = {page}
  Timed = {call}
  Ladder <- Rungs
  Default = chrome
  Stdlib = stdlib
  Manifests <- Hints
  CDPWorkers = 1
  Attempts = 2
  None = None
INVARIANTS
  NoBlockSurfaces
  NoAnswerWasted
  BurstBounded
  JarsSeeded
  NobodyStuck
PROPERTIES
  WalkExhausts
  PinsEarned
CHECK_DEADLOCK FALSE
