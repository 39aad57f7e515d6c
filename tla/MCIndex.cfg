SPECIFICATION FairSpec
CONSTANTS
  NULL = NULL
  BLANK = BLANK
  GARBAGE = GARBAGE
  p1 = p1  l1 = l1  yes = yes  no = no  n1 = n1  n2 = n2
  b1 = b1  b2 = b2  d1 = d1  d2 = d2  m1 = m1
  Pmps = {p1}
  EventLists = {l1}
  Outcomes = {yes, no}
  OrderIds = {1, 2, 3}
  OwnerNotes = {n1, n2}
  FULL = 4
  PAGE_LIMIT = 1
  Books = {b1, b2}
  InfIds = {1, 2, 3, 4}
  Deals = {d1, d2}
  SWEEP_BATCH = 2
  MaxFaults = 1
  Plans <- SafePlans
INVARIANTS RowsMirrorChain ServedSound SweepSound
PROPERTIES NothingTakenBack EverythingProjected
CHECK_DEADLOCK FALSE
