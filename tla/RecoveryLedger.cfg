\* Two overlapping cycles over one case and two days, a crash.
SPECIFICATION FairSpec
CONSTANTS
  c1 = c1
  c2 = c2
  h1 = h1
  e1 = e1
  p1 = p1
  p2 = p2
  r1 = r1
  r2 = r2
  NoCase = NoCase
  NoKey = NoKey
  Cases <- OneCase
  Holdout <- NoCases
  NeedsApproval <- NoCases
  Kinds <- Message
  ContactKinds <- Message
  Planners <- TwoPlanners
  Reviewers <- NoReviewer
  Limit = 1
  MaxDay = 1
  MaxCrashes = 1
INVARIANT LedgerBacked
PROPERTIES StoppedNeverResumes CyclesEnd
