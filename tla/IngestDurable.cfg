\* Redis is down: processed_event alone, through crashes, rebalances and stops.
SPECIFICATION FairSpec
CONSTANTS
  m1 = m1
  m2 = m2
  NoOne = NoOne
  Consumers <- TwoMembers
  Events <- FailAndCapture
  Open <- OneObligation
  RedisModes <- DownOnly
  BatchSize = 2
  MaxLog = 3
  MaxFaults = 2
INVARIANTS NothingSkipped CaptureCloses
PROPERTY EveryEventHandled
