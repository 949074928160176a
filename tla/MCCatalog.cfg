\* The catalogue: collections and databases are created, dropped and listed by
\* two connections while both use them; nothing fails.
SPECIFICATION HSpec
CONSTANTS
  c1 = c1
  c2 = c2
  i1 = i1
  i2 = i2
  a = a
  b = b
  db1 = db1
  db2 = db2
  x = x
  y = y
  z = z
  r1 = r1
  r2 = r2
  r3 = r3
  r4 = r4
  Databases = {db1}
  CollNames = {x, y}
  Ids = {i1, i2}
  Vals = {a, b}
  Rows = {r1, r2, r3}
  Conns = {c1, c2}
  GuiColls = {y}
  Faults = {}
  Provisioned = {}
  Requests <- CatalogRequests
INVARIANTS
  ErrorsExplained
  SuccessIsReal
PROPERTIES
  OnesTouchMatchedAlone
  OnesTouchSeen
