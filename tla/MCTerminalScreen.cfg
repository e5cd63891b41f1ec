CONSTANTS
  Letters = {"a"}
  Prompts = {p1, p2}
  Names = {main, login}
  HistorySize = 2
  Typists <- MCTypists
  MaxPastes = 2
  None = None
  Nothing = Nothing
  PromptLen = 1
  Texts <- MCTexts
  Windows <- MCWindows
  Limits <- MCLimits
  CallLen = 2
  MaxLines = 2
SPECIFICATION MCSpec
INVARIANTS
  TypeOK
  PromptComesBack
  CursorIsAtPosition
  ScreenFollowsLines
PROPERTIES
  KillTakesOut
SYMMETRY Alike
CHECK_DEADLOCK FALSE
