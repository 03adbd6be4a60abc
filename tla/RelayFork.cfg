\* The audit chain forks: two transactions of one merchant append at once, and the lock on the tip
\* does not keep the second from chaining to it.
SPECIFICATION Spec
CONSTANTS
  Merchants = {m1, m2}
  Relays = {r1, r2}
  BatchSize = 2
  MaxTxns = 3
  MaxOpen = 2
  MaxAppends = 1
  MaxRows = 2
  MaxFaults = 1
INVARIANTS
  ChainIntact
CHECK_DEADLOCK FALSE
