SPECIFICATION ApiSpec
CONSTANTS
  n1 = n1
  n2 = n2
  yes = yes
  no = no
  NULL = NULL
  BLANK = BLANK
  GARBAGE = GARBAGE
  Notes = {n1, n2}
  OwnerNotes = {n1, n2}
  OrderIds = {1, 2, 3, 4, 5, 6}
  Books = {yes, no}
  Prices = {50, 100}
  FULL_PERCENT = 100
  TAKER_FEE_RATE = 1
  FEE_DENOMINATOR = 2
  MAKER_REBATE_NUM = 3
  MAKER_REBATE_DEN = 4
  LOT = 1
  MIN_NOTIONAL = 1
  MAX_MATCHES_PER_CALL = 1
  MAX_PRECHECK_ITERATIONS = 1
  MAX_CANCEL_ALL_PER_CALL = 1
  QUEUE_CAPACITY = 3
  QUEUE_PLACE_LIMIT = 2
  MAX_SHUTDOWN_BATCH = 1
  MAX_BATCH_SIZE = 2
  BASKET = 2
  PRICE_BPS_DECIMALS = 2
  PRICE_PRECISION = 1
  QUOTE_DECIMALS = 1
  QUANTITY_PRECISION = 1
  U64_MAX = 20
  Plans <- DropPlans
INVARIANT CancelFindsRecord
CHECK_DEADLOCK FALSE
