SPECIFICATION Spec
CONSTANTS
  n1 = n1
  n2 = n2
  b1 = b1
  Notes = {n1, n2}
  Books = {b1}
  Prices = {3, 5}
  FULL_PERCENT = 4
  TAKER_FEE_RATE = 1
  FEE_DENOMINATOR = 2
  MAKER_REBATE_NUM = 3
  MAKER_REBATE_DEN = 4
  LOT = 1
  MIN_NOTIONAL = 1
  MAX_MATCHES_PER_CALL = 2
  MAX_PRECHECK_ITERATIONS = 1
  MAX_CANCEL_ALL_PER_CALL = 2
  QUEUE_CAPACITY = 3
  QUEUE_PLACE_LIMIT = 2
  MAX_SHUTDOWN_BATCH = 1
  MAX_BATCH_SIZE = 2
  Batches <- SingleBatches
  Cancels <- NoCancels
  MaxOps = 4
  MaxPokes = 0
  MaxTime = 1
  MayShutdown = FALSE
SYMMETRY NoteSymmetry
INVARIANTS BookConsistent FillGuarantee CollateralCovered
PROPERTIES PriceTimePriority
CHECK_DEADLOCK FALSE
