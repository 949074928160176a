\* Documents with arrays and documents inside of each other.
SPECIFICATION Spec
CONSTANTS
  Documents <- NestedDocuments
  Projections <- WholeOnly
  Updates <- Never
INVARIANT KeysAreFields
