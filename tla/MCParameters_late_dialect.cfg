CONSTANTS
  NoValue = NoValue c1 = c1 c2 = c2 q1 = q1
  Conns = {c1, c2} DriverOf <- RememberingDrivers Scripts = {q1}
  ScriptTexts <- RememberingTexts Values <- RememberingValues
  MaxHistory = 2 MaxRuns = 3
SPECIFICATION RememberingSpec
INVARIANTS SentInItsDialect
