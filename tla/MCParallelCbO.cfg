CONSTANTS
  Objects = {0, 1, 2}
  M = 3
  FewConcepts = 5
  Contexts <- MCContexts
SPECIFICATION Spec
INVARIANT ExactlyOnce
INVARIANT NothingLeftBehind
PROPERTY ImplementsEnumeration
