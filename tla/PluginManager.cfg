SPECIFICATION FairSpec
CONSTANTS
  c1 = c1
  c2 = c2
  admin = admin
  Callers = {c1, c2}
  Reloaders = {admin}
  Installers = {admin}
  Nobody = Nobody
  Kinds = {"lua", "js", "native", "yaegi", "wasm"}
  MaxEntries = 2
  MaxVersion = 2
INVARIANTS
  RuntimeHeld
  ReloadTakesEffect
  LoadedIsUsable
  
  GoneForAReason
  NamesFollowModules
PROPERTIES
  ChallengeOwn
  EveryOperationEnds
CHECK_DEADLOCK FALSE
