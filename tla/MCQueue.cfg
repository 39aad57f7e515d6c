SPECIFICATION FairSpec
CONSTANTS
  n1 = n1
  n2 = n2
  b1 = b1
  Notes = {n1, n2}
  Books = {b1}
  Prices = {1, 2}
  FULL_PERCENT = 2
  TAKER_FEE_RATE = 1
  FEE_DENOMINATOR = 2
  MAKER_REBATE_NUM = 3
  MAKER_REBATE_DEN = 4
  LOT = 1
  MIN_NOTIONAL = 1
  MAX_MATCHES_PER_CALL = 1
  MAX_PRECHECK_ITERATIONS = 1
  MAX_CANCEL_ALL_PER_CALL = 1
  QUEUE_CAPACITY = 3
  QUEUE_PLACE_LIMIT = 2
  MAX_SHUTDOWN_BATCH = 1
  MAX_BATCH_SIZE = 2
  Batches <- QueueBatches
  Cancels <- TwoCancels
  MaxOps = 3
  MaxPokes = 1
  MaxTime = 2
  MayShutdown = TRUE
INVARIANTS OrderLifecycle AnsweredOnce NoStuckHead
PROPERTIES DrainAdvances WorkEnds
CHECK_DEADLOCK FALSE
