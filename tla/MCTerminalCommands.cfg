CONSTANTS
  MaxCommands = 4
SPECIFICATION Spec
CHECK_DEADLOCK FALSE
INVARIANTS
  TypeOK
  RunsInOrder
  PromiseIsKept
PROPERTIES
  NothingForgotten
  DelayedRuns
