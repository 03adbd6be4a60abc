\* Two merchants, two relays taking batches of two, three transactions of which two may be open
\* at once and two announce something, and a fault.
SPECIFICATION FairSpec
CONSTANTS
  Merchants = {m1, m2}
  Relays = {r1, r2}
  BatchSize = 2
  MaxTxns = 3
  MaxOpen = 2
  MaxAppends = 1
  MaxRows = 2
  MaxFaults = 1
INVARIANTS
  IntactUnlessContended
  AnnouncedWasDecided
  LostOnlyByTimeout
PROPERTIES
  EveryDecisionPublished
CHECK_DEADLOCK FALSE
