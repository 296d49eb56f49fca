SPECIFICATION Spec
CONSTANTS
  c1 = c1
  c2 = c2
  admin = admin
  Callers = {c1, c2}
  Reloaders = {admin}
  Installers = {}
  Nobody = Nobody
  Kinds = {"js"}
  MaxEntries = 2
  MaxVersion = 2
INVARIANT
  LockOrder
CHECK_DEADLOCK FALSE
