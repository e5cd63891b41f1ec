CONSTANTS
  MaxLogins = 2
  MaxCalls = 2
  MaxDepth = 5
SPECIFICATION Spec
INVARIANTS
  TypeOK
  PasswordIsHidden
  MainIsGuarded
  HistoryComesBack
  MaskIsMeant
