\* Two processes sharing the disk cache, two providers, two issuers and a template;
\* two runs or one entered again, and a crash.
SPECIFICATION Spec
CONSTANTS
  Processes = {p1, p2}
  Providers <- TwoProviders
  Structured <- Modes
  Issuers <- Banks
  Markets <- Afternoons
  Templates = {message}
  MaxAdvices = 2
  MaxCrashes = 1
INVARIANTS
  CitesWhatItWasShown
  RefusedOnceAProcess
PROPERTIES
  EveryRunEnds
CHECK_DEADLOCK FALSE
