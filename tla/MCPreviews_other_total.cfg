SPECIFICATION PreviewsSpec
CONSTANTS
  Nothing = Nothing
  Relations = {r1,r2}
  SortColumns = {c1}
  Filters = {}
  PageSizes = {2}
  PreviewLimit = 2
  Counts <- FewCounts
  MaxPage = 2
  MaxTabs = 3
  MaxTabId = 4
  MaxRuns = 4
  Ops = {}
CHECK_DEADLOCK FALSE
INVARIANT
  TotalOfOwnRelation
