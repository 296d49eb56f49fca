SPECIFICATION Spec
CONSTANTS
  old = old
  new = new
  a1 = a1
  a2 = a2
  r2 = r2
  b1 = b1
  b2 = b2
  t1 = t1
  t2 = t2
  Threads = {t1, t2}
  Sources = {old, new}
  Lists <- Answers
  Num <- Numbers
  Whole = 2
  Tail <- Reissues
  Nothing = Nothing
  MaxRow = 3
  MaxOperations = 4
SYMMETRY Symmetric
INVARIANTS
  IndexAgrees
  LibraryIsTheReaders
  OwnChapters
PROPERTY ProgressKept
CHECK_DEADLOCK FALSE
