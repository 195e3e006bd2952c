CONSTANTS
  begin = begin  s1 = s1  s2 = s2  commit = commit  rollback = rollback  upd = upd
  BeginQuery = begin
  CommitQuery = commit
  RollbackQuery = rollback
  Statements <- TwoStatements
  UserQueries = {upd}
  Queries = {begin, s1, s2, commit, rollback, upd}
  Kind <- KindOf
  Conns = {k1, k2}
  Networked = TRUE
  BatchSize = 2
  MaxRows = 0
  MaxStmts = 1
  Nobody = Nobody
  Stalled = {}
  Breaks = FALSE
SPECIFICATION Spec
INVARIANTS AllOrNothing
CHECK_DEADLOCK FALSE
