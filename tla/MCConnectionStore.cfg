CONSTANTS
  u1 = u1 u2 = u2 s1 = s1
  Args <- ArgsChoices
  Absent = Absent
  Faults = {"keyring"}
  MaxIds = 3
  MaxFaults = 1
SPECIFICATION StoreSpec
PROPERTY FailedAddLeavesNothing
CHECK_DEADLOCK FALSE
