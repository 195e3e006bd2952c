CONSTANTS
  p1 = p1  p2 = p2  q1 = q1  orders = orders  users = users
  o1 = o1  o2 = o2  u1 = u1
  Windows = {p1, p2, q1}
  RelOf <- WindowRelations
  RowsOf <- WindowRows
  Keyed = {orders, users}
  Columns = {total}
  Values = {v1}
  Key = id
  Delete = Delete
  None = None
  MaxId = 3
  MaxApplies = 2
  \* Previews: two relations; the counts are FewCounts
  Relations = {r1, r2}
  SortColumns = {c1}
  Filters = {f1}
  PageSizes = {2, 3}
  PreviewLimit = 2
  Counts <- FewCounts
  MaxPage = 2
  MaxTabs = 2
  MaxTabId = 3
  MaxRuns = 3
  Ops = {"switch", "schema"}
  Nothing = Nothing
SPECIFICATION ResultsSpec
INVARIANTS SchemaOfShownRelation EditHitsItsRow QueueIsSubmission
  RunsStayWithTheirTab ResultIsOfWindow PageWithinTotal TotalFitsFilter
PROPERTIES SuccessWroteIt ResizeKeepsFirstRow
CHECK_DEADLOCK FALSE
