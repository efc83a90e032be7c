CONSTANTS
  Null = Null
  MaxConcepts = 3
  MaxEdges = 3
  DagSize = 4
SPECIFICATION MCSpec
INVARIANT CsrFresh
INVARIANT FullSetsRight
INVARIANT TopoComplete
PROPERTY ReduceExact
PROPERTY ClosureExact
CHECK_DEADLOCK FALSE
