\* A retry or a message one day, a call the next; each may be executed twice.
SPECIFICATION Spec
CONSTANTS
  Jobs <- TwoDays
  Obligations <- One
  Overlap = FALSE
  MaxDay = 1
  MaxTries = 2
  MaxFaults = 2
INVARIANTS OnceAKey DispatchedWasDone 
CHECK_DEADLOCK FALSE
