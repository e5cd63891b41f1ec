CONSTANTS
  Names = {admin, bob}
  Admin = admin
  Passwords = {p}
  AdminPassword = p
  NoName = NoName
  NoAccount = NoAccount
  Sessions = {s1, s2}
  Workers = {w1, w2}
  NoJob = NoJob
  NoRecord = NoRecord
  MaxId = 2
  Pipelining = TRUE
  Removing = TRUE
  Restarting = TRUE
SYMMETRY Alike
SPECIFICATION Spec
INVARIANTS
  IdsAreUnique
  SessionIsWhole
PROPERTIES
  OnlyAdminsChangeAccounts
