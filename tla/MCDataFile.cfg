CONSTANTS
  States = {empty, small, large}
  Cleared = empty
  Half = Half
  Garbage = Garbage
  Parts = 3
  Threads = {t1, t2}
  Nothing = Nothing
SYMMETRY Alike
SPECIFICATION Spec
INVARIANTS
  ReadableIsWhole
PROPERTIES
  StartsFromNewest
