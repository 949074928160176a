SPECIFICATION Spec
CONSTANTS
  c1 = c1
  c2 = c2
  Conns = {c1, c2}
  MaxCounter = 0
  Filters <- WhereFilters
  Visits <- FilterVisits
  FieldValue <- Values0
  Elements <- ElementsOf
  Related <- Comparisons
  Field = {"a", "b", "r"}
  Document <- SomeDocuments
  Expression <- AllExpressions
  Size <- SizeOfOps
  Filter <- AllFilters
  Depth <- DepthOfFilter
  Updates <- SomeUpdates
INVARIANTS FlagIsOwnIfClean ClauseMeansFilter UpdateTouchesChanged
