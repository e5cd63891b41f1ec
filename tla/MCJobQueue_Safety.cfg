CONSTANTS
  Sessions = {s1, s2}
  Patient = {s1}
  Outstanding = 2
  Threads = {t1, t2}
  Values = {old, new}
  Tables = 2
  Nothing = Nothing
SYMMETRY Alike
SPECIFICATION Safety
INVARIANTS
  QueriesSeeOneState
  TablesAreSaved
  EachCommandOnce
PROPERTIES
  ImplementsPromise
