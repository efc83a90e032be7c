CONSTANTS
  Objects = {0, 1, 2}
  M = 3
  NThreads = 2
  MaxSize = 8
  Batch = 2
  IntMax = 100
  FewConcepts = 4
  Inputs <- MCInputs
SPECIFICATION Spec
INVARIANT CoversExact
INVARIANT IntroducedOnce
INVARIANT FlatFaithful
