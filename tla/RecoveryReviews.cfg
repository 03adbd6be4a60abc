\* Every kind of case, a planner, a reviewer, a crash.
SPECIFICATION Spec
CONSTANTS
  c1 = c1
  c2 = c2
  h1 = h1
  e1 = e1
  p1 = p1
  p2 = p2
  r1 = r1
  r2 = r2
  NoCase = NoCase
  NoKey = NoKey
  Cases <- MixedCases
  Holdout <- HeldCases
  NeedsApproval <- BigCases
  Kinds <- Message
  ContactKinds <- Message
  Planners <- OnePlanner
  Reviewers <- OneReviewer
  Limit = 1
  MaxDay = 0
  MaxCrashes = 1
INVARIANTS HoldoutNeverTreated AwaitingWasDispatched
PROPERTIES LegalWhileWorked DispatchSpec
