SPECIFICATION Spec
CONSTANTS
  n1 = n1
  n2 = n2
  l1 = l1
  l2 = l2
  l3 = l3
  yes = yes
  no = no
  None = None
  Outcomes = {yes, no}
  Notes = {n1, n2}
  Lists = {l1, l2, l3}
  Keys = {l1, l2, l3}
  FULL_PERCENT = 10
  FEE_PERCENT = 2
  COUPON_POOL_LIMIT_PERCENT = 5
  COUPON_MAX_PAYOUT_MULTIPLIER = 20
  DEBT_REDISTRIBUTION_PERCENT = 3
  THRESHOLD = 6600
  GRACE_PERIOD = 10
  MIN_RESULT_GAP = 2
  MIN_STAKE = 1
  LOT_SIZE = 1
  ResultTimes = {40, 50}
  Deadline = 25
  Races = FALSE
  Plans <- Lives
SYMMETRY OutcomesAndLists
INVARIANTS PoolsMatchStakes MoneyConserved OneVerdict
PROPERTIES ClosedWhenSettled DecisionsBacked
CHECK_DEADLOCK FALSE
