SPECIFICATION FairSpec
CONSTANTS
  CallIds <- MCCallIds
  NoCall = NoCall
  Turns = {t1}
  Past = Past
  SystemSize = 1
  MaxHistoryMessages = 4
  MaxTokens = 9
  MaxToolResult = 2
  MaxText = 2
  Marker = 1
  Histories <- MCHistories
  Tools = {"tool1", "tool2"}
  Skills = {"skill"}
  CallLists <- MCCallLists
  Sizes = {1, 4}
  MaxIterations = 2
  SkillIterations = 1
INVARIANTS
  RequestsPaired
  CurrentTurnSent
  HistoryWithinBudget
  ResultsRemembered
PROPERTIES
  TurnsEnd
CHECK_DEADLOCK FALSE
