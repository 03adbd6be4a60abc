\* Crashes, Redis failures and lock expiry: safety, refinement, outcomes.
SPECIFICATION FairSpec
CONSTANTS
  p1 = p1
  p2 = p2
  k1 = k1
  k2 = k2
  Procs <- MCProcs
  Keys <- MCKeys
  NoKey = NoKey
  MaxCrashes = 2
INVARIANTS TypeOK AtMostOneEffect IntentBeforeEffect RecordsTruthful
PROPERTIES SettledIsFinal OnlyCrashesStrand LedgerSpec
