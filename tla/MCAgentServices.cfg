SPECIFICATION Spec
CONSTANTS
  NodeIds = {"start", "n1", "n2", "n3"}
  Entry = "start"
  Agents = {"a1", "a2", "a3"}
  Tools = {"t1"}
  Skills = {"s1", "s2"}
  Nothing = Nothing
  NameOf <- MCNameOf
  DefaultDepth = 1
  HardDepth = 2
  DefaultCalls = 2
  Profiles <- MCProfiles
  SkillSpecs <- MCSkillSpecs
  Plans <- MCPlans
  NoFlow = NoFlow
  c1 = c1
  c2 = c2
  c3 = c3
  Calls = {c1, c2, c3}
  FromRun = {c3}
  Operations <- MCOperations
  Credentials = {"user", "other", "app", "fixed", "plain", "unset"}
  Secrets <- MCSecrets
  MaxTokens = 2
  NoToken = NoToken
  NoCall = NoCall
  IdOf <- MCIdOf
  Specs <- MCSpecs
  Args <- MCArgs
  NoRecord = NoRecord
  Loads <- MCLoads
  MaxFaults = 1
INVARIANTS
  EffectsOnce
  CallsAccounted
  CredentialsKept
  WithinLimits
  RunTellsSteps
PROPERTIES
  AllReturn
CHECK_DEADLOCK FALSE
