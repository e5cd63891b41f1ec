CONSTANTS
  Names = {admin, bob}
  Admin = admin
  Passwords = {p, q}
  AdminPassword = p
  NoName = NoName
  NoAccount = NoAccount
  Sessions = {s1, s2}
  Workers = {w1, w2}
  NoJob = NoJob
  NoRecord = NoRecord
  MaxId = 3
  Pipelining = FALSE
  Removing = FALSE
  Restarting = FALSE
SYMMETRY Alike
SPECIFICATION Spec
INVARIANTS
  RunsAsChecked
  AttributionIsTrue
