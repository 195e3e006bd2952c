CONSTANTS
  Names = {n1}
  LastSaved = 1
  UnsavedKey = UnsavedConnection
  User = User
  Nothing = Nothing
SPECIFICATION MigrationSpec
CHECK_DEADLOCK FALSE
PROPERTIES FailedIsRetried
