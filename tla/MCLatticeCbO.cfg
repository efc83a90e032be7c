CONSTANTS
  Objects = {1, 2, 3}
  M = 3
  NThreads = 2
  Contexts <- MCContexts
  InitCap = 1
  SpawnTarget = 2
  SpawnDepth = 2
  MaxTasks = 3
SPECIFICATION FairSpec
INVARIANT OnlyConcepts
INVARIANT ExactlyOnce
PROPERTY Termination
PROPERTY ImplementsEnumeration
