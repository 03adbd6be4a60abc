\* Redis comes and goes, malformed events, two members: what always holds.
SPECIFICATION Spec
CONSTANTS
  m1 = m1
  m2 = m2
  NoOne = NoOne
  Consumers <- TwoMembers
  Events <- Mixed
  Open <- OneObligation
  RedisModes <- BOOLEAN
  BatchSize = 2
  MaxLog = 3
  MaxFaults = 1
INVARIANTS OneLiveCase OneCasePerEvent
PROPERTY ClosedToEvents
SYMMETRY MemberSymmetry
