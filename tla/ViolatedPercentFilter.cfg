\* deleteMany with a negated LIKE pattern that has a % in it.
SPECIFICATION Spec
CONSTANTS
  c1 = c1
  c2 = c2
  i1 = i1
  i2 = i2
  a = a
  b = b
  db1 = db1
  db2 = db2
  x = x
  y = y
  z = z
  r1 = r1
  r2 = r2
  r3 = r3
  r4 = r4
  Databases = {db1}
  CollNames = {x}
  Ids = {i1}
  Vals = {a, b, z}
  Rows = {r1, r2}
  Conns = {c1}
  GuiColls = {}
  Faults = {}
  Provisioned <- OneNamespace
  Requests <- LoneRequests
PROPERTY
  DeleteManyIsExact
