CONSTANTS
  Null = Null
  MaxSide = 2
  FewConcepts = 5
  EmptyColumns = TRUE
SPECIFICATION Spec
INVARIANT LowerCoversExact
