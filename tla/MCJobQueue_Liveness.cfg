CONSTANTS
  Sessions = {s1, s2, s3}
  Patient = {s1, s2, s3}
  Outstanding = 1
  Threads = {t1, t2}
  Values = {v}
  Tables = 1
  Nothing = Nothing
SPECIFICATION Spec
PROPERTIES
  EveryCommandIsAnswered
