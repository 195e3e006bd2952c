CONSTANTS
  p1 = p1  p2 = p2  q1 = q1  orders = orders  users = users
  o1 = o1  o2 = o2  u1 = u1
  Windows = {p1, p2, q1}
  RelOf <- WindowRelations
  RowsOf <- WindowRows
  Keyed = {orders, users}
  Columns = {total}
  Values = {v1, v2}
  Key = id
  Delete = Delete
  None = None
  MaxId = 3
  MaxApplies = 2
SPECIFICATION Spec
PROPERTY SubmittedIsCompleted
CHECK_DEADLOCK FALSE
