\* Any two faults: what the gateway still promises.
SPECIFICATION FairSpec
CONSTANTS
  r1 = r1
  r2 = r2
  w1 = w1
  f1 = f1
  Replicas <- TwoReplicas
  Webhooks <- WithForged
  Forged <- ForgedOnly
  Faults <- AllFaults
  MaxSends = 2
  MaxFaults = 2
INVARIANTS ProducedOnce ForgedLeavesNoTrace UnhandledHasCause
PROPERTY AckedArrives
CHECK_DEADLOCK FALSE
