SPECIFICATION Spec
CONSTANTS
  NULL = NULL
  TORN = TORN
  GAS_DEPOSIT = 1
  Nominals = {2}
  Keys = {k1, k2, k3, k4}
  HISTORY_PROOF_ATTEMPTS = 2
  ECC_SHELL_DEPOSIT_RAW = 2
  ROOTPN_SHELL_BUDGET = 1
  EXTOUT_WINDOW = 1
  Clients = {c1, c2}
  KEKs = {e1, e2}
  DEFAULT_RECV = 3
  MAX_RECV = 4
  FORWARD_SKEW = 1
  BLANK = BLANK
  GARBAGE = GARBAGE
  DEFAULT_LIMIT = 2
  MAX_LIMIT = 3
  Oracles = {1, 2}
  I64_MAX = 99
  MAX_CREATED = 4
  Pmps = {1, 2, 3, 4}
  EventLists = {1, 2, 3}
  Outcomes = {1}
  OrderIds = {1, 2, 3, 4, 5}
  OwnerNotes = {n1, n2}
  Books = {1, 2, 3}
  InfIds = {1, 2, 3, 4}
  Deals = {d1, d2}
  SWEEP_BATCH = 1
  PRICE_BPS_DECIMALS = 2
  PRICE_PRECISION = 1
  QUOTE_DECIMALS = 1
  QUANTITY_PRECISION = 0
  n1 = n1
  n2 = n2
  d1 = d1
  d2 = d2
  k1 = k1
  k2 = k2
  PAGE_SIZE = 2
  GRAPHQL_PAGE = 2
  MAX_PAGES_PER_TICK = 2
  MESSAGE_WINDOW = 3
  Ours = {k1}
  Callers = {c1, c2, c3}
  INTERVAL_MS = 2
  Plans <- MCPlans
  Payments <- MCPayments
  Requests <- MCRequests
INVARIANTS Solvent NotesKept CredentialsHold ReadsHold ScansHold CaptureHolds
PROPERTIES DisabledStaysOut ServicesProgress
CHECK_DEADLOCK FALSE
