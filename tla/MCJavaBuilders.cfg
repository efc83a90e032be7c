CONSTANTS
  Null = Null
  MaxSide = 3
  FewConcepts = 5
  EmptyColumns = FALSE
SPECIFICATION Spec
INVARIANT OrderIsLattice
INVARIANT FullSetsDelivered
