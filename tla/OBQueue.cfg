SPECIFICATION Spec
CONSTANTS
  QUEUE_CAPACITY = 4
  QUEUE_PLACE_LIMIT = 3
  ID_SPACE = 7
INVARIANTS QueueIdsDistinct
PROPERTIES FifoSpec
