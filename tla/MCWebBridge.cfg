CONSTANTS
  Pages = {alice, bob}
  Patient = {alice}
  MaxAhead = 2
  MaxRequests = 4
  MaxPieces = 2
  MaxFaults = 1
  None = None
SPECIFICATION Spec
INVARIANTS
  TypeOK
  OwnAnswers
  PatientGetsAnswer
  StaysConnected
  OneConnection
PROPERTIES
  EveryRequestEnds
CHECK_DEADLOCK FALSE
