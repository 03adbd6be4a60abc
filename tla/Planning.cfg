\* Three cases over three days, a small budget each day.
SPECIFICATION Spec
CONSTANTS
  Prices <- Grid
  ContactUnit = 10000
  Horizon = 3
  Month = 7
  Books <- SmallBooks
  PolicyPacks <- TwoPolicies
  Scorers <- Scores
  History <- Payday
  Limits <- Tight
  PlanHour = 11
  MaxDay = 2
INVARIANTS WeeklyCapHolds DayWithinBudget BudgetStopsAreHonest FreeRetryTaken
CHECK_DEADLOCK FALSE
