CONSTANTS
  Null = Null
SPECIFICATION Spec
INVARIANT LinCbOCountersExact
INVARIANT EngineFramesConsistent
INVARIANT EngineSkipSound
INVARIANT MinimalCoversExact
PROPERTY ImplementsBasisBuilder
