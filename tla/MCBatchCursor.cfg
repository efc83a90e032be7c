\* Sizes on, before and after the end of a batch; IntMax just satisfies
\* RoomAssumption.
CONSTANTS
  NThreads = 3
  MaxSize = 7
  Batch = 2
  IntMax = 14
SPECIFICATION Spec
INVARIANT OneThreadEach
INVARIANT AllHandled
INVARIANT CursorBound
CHECK_DEADLOCK FALSE
