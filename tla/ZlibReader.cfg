SPECIFICATION Spec
CONSTANTS
  MaxBuckets = 4
  MaxItems = 2
  NumBuffers = 2
  MaxTime = 4
  Throw = Throw
  None = None
INVARIANTS BuffersSearchable CurrentIsCached
PROPERTIES ImplementsReaderBase NewestKept
