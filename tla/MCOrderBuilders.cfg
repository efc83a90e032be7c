CONSTANTS
  Null = Null
  Contexts <- MCContexts
SPECIFICATION Spec
INVARIANT AresStepExact
INVARIANT CeresInsertionExact
INVARIANT HermesPlacedExact
INVARIANT PlutonLinearExtensionUsed
INVARIANT AddExtentLatticeExact
INVARIANT RoaringEachAnsweredOnce
PROPERTY ImplementsOrderBuilder
