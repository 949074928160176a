\* Documents of up to three fields, with values nested in each other, inserted,
\* updated and found, with and without a projection.
SPECIFICATION Spec
CONSTANTS
  Documents <- StoredDocuments
  Projections <- ProjectionsOf
  Updates <- UpdatesOf
INVARIANTS ReadBack SetReadsBack InclusionIsExact ExclusionIsExact
