SPECIFICATION Spec
CONSTANTS
  CallIds <- MCCallIds
  NoCall = NoCall
  Turns = {t1, t2, t3}
  Past = Past
  SystemSize = 1
  MaxHistoryMessages = 4
  MaxTokens = 9
  MaxToolResult = 2
  MaxText = 2
  Marker = 1
  Histories <- JustTalk
  Tools = {"tool1", "tool2"}
  Skills = {"skill"}
  CallLists <- FewCallLists
  Sizes = {4}
  MaxIterations = 2
  SkillIterations = 1
INVARIANT
  TurnsStoredWhole
CHECK_DEADLOCK FALSE
