CONSTANTS
  \* Editor
  Break = LineBreak a = a A = A dash = dash
  Fold <- Folded ClassOf <- Classes
  Inputs <- WritingInputs Documents <- WritingDocuments Queries = {} EditorOps = {}
  HistoryCap = 2 MaxTextEdits = 3 MaxChars = 3
  \* Parameters
  None = None NoValue = NoValue c1 = c1 c2 = c2 q1 = q1
  Conns = {c1, c2} DriverOf <- RememberingDrivers Scripts = {q1}
  ScriptTexts <- RememberingTexts Values <- RememberingValues
  MaxHistory = 2 MaxRuns = 3
  \* ScriptStore
  foo = foo bar = bar
  UserNames = {foo, bar} Relations = {} OnDisk = {}
  Ops = {"promote", "save shared", "rename shared", "close"}
  MaxTabs = 2 MaxDocs = 2 MaxEdits = 1 MaxJobs = 4 MaxClaims = 5
  NoText = NoText NoCache = NoCache
SPECIFICATION ScriptsSpec
SYMMETRY NameSymmetry
INVARIANTS
  CaretInText FindFollowsText
  SentAsTyped RemembersRuns
  AutosavedTextSurvives OneTabPerFile SharedTextIsSaved SettledIsCurrent
PROPERTY TextKeepsHistory
CHECK_DEADLOCK FALSE
