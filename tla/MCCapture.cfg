SPECIFICATION FairSpec
CONSTANTS
  Streams = {dapp, rootpn}
  PAGE_SIZE = 1
  MAX_PAGES_PER_TICK = 1
  BATCH_SIZE = 1
  MaxEvents = 3
  MaxFails = 1
  MaxCrashes = 1
INVARIANTS CursorCoversRows BarrierComplete
PROPERTIES EventuallyProjected
