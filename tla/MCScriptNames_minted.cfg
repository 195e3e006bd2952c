CONSTANTS
  UserNames = {} Relations = {2} OnDisk = {} Ops = {}
  MaxTabs = 3 MaxDocs = 3 MaxEdits = 1 MaxJobs = 3 MaxClaims = 4
  NoText = NoText NoCache = NoCache
SPECIFICATION Spec
CHECK_DEADLOCK FALSE
INVARIANT MintedNameIsFree
