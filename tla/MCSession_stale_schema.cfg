SPECIFICATION Spec
CONSTANTS
  None = None
  Servers = {s1}
  Databases = {d1, d2}
  Silent = {}
  Tunneled = {}
  Previews = {p1}
  MaxResultRows = 1
  MaxGeneration = 2
  MaxQueries = 0
  MaxIntrospections = 1
INVARIANTS
  SchemaOfConnection
