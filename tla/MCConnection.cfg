CONSTANTS
  \* Driver and Tunnel
  sel = sel  u1 = u1  u2 = u2
  Queries = {sel, u1, u2}
  Kind <- KindOf
  Conns = {k1, k2}
  Networked = TRUE
  Stalled = {u2}
  Breaks = TRUE
  BatchSize = 2
  MaxRows = 3
  MaxStmts = 3
  Nobody = Nobody
  Clients = {x1, x2}
  \* Session
  None = None
  Servers = {s1, s2}
  Databases = {d1, d2}
  Silent = {s2}
  Tunneled = {s2}
  Previews = {p1, p2}
  MaxResultRows = 1
  MaxGeneration = 3
  MaxQueries = 2
  MaxIntrospections = 1
SPECIFICATION ConnectionSpec
INVARIANTS
  StreamProtocol
  ConnectionsAccountedFor UrlNamesConnection LivenessOfConnection ConnectionIsWatched
PROPERTIES
  NoEndlessWait DroppedTunnelEnds
  ConnectingResolves
CHECK_DEADLOCK FALSE
