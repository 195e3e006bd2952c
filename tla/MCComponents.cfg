CONSTANTS
  None = None
  \* SaveClaims
  Dirs = {a1, a2}
  MaxClaims = 3
  \* Transactions
  begin = begin s1 = s1 s2 = s2 commit = commit rollback = rollback
  upd = upd k1 = k1 Nobody = Nobody
  \* ConnectionStore
  url1 = url1 url2 = url2 secret1 = secret1
  Args <- StoreArgs
  Absent = Absent
  Faults = {"dir", "keyring", "write", "mode", "crash"}
  MaxIds = 3
  MaxFaults = 2
  \* ConnectionManager: a connection over the network and a file
  Conns = {c1, f1}
  Files = {f1}
  Passwords = {p1}
  Unsaved = NewConnection
  MaxAttempts = 2
  MaxPrompts = 2
  \* Migration: two saved connections, and an entry of each of their names
  Names = {n1, n2}
  LastSaved = 2
  UnsavedKey = UnsavedConnection
  User = User
  Nothing = Nothing
  \* Session
  server1 = server1 database1 = database1 orders = orders users = users
SPECIFICATION ComponentsSpec
CHECK_DEADLOCK FALSE
INVARIANTS
  SecretsCoverFile RollbackFindsItsOwn FieldsMatchKeyring
  PromptHasItsAttempt
  MigratedWhole
  ResultsOfOneQuery HandleOfLiveQuery RowCountOfPreview
PROPERTIES
  PromiseKept
  BatchIsAtomic
  OnlyAcceptedIsSaved PromptClosesConnected
  UserSessionKept GoneIsComplete
