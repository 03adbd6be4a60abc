\* Small populations in every arrival order, under every tight budget.
SPECIFICATION Window
CONSTANTS
  Prices <- Grid
  ContactUnit = 4
  Populations <- Both
  Authorised <- Tight
INVARIANTS WithinBudgets DualBoundsLoners
CHECK_DEADLOCK FALSE
