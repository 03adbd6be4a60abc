------------------------------ MODULE Stopping ------------------------------
(***************************************************************************)
(* control/yukti/stopping/rules.py: should this case be worked at all?     *)
(***************************************************************************)
EXTENDS Domain, Integers, Sequences

\* CaseSnapshot: age in days, uplift in 1/10000, margin in paise.
Snapshots ==
  [obligation : STRING, decline : STRING, age : Int, attempts : Int,
   optedOut : BOOLEAN, promise : BOOLEAN, degraded : BOOLEAN,
   contacts : Nat, cap : Int, contactsLeft : Int, discountLeft : Int,
   uplift : Int, margin : Int, needsDiscount : BOOLEAN, costless : BOOLEAN]

DiminishingReturnsDays == 21
MinMargin == 500
LostCauseUplift == 50

OutOfContacts(s) == s.contacts >= s.cap \/ s.contactsLeft <= 0

\* lost_cause
LostCause(s) ==
  \/ Lookup(s.decline).transience = "permanent"
  \/ s.uplift < LostCauseUplift /\ ~s.costless

\* The rules of evaluate, by the reason they give.
Holds(reason, s) ==
  CASE reason = "obligation_resolved" -> s.obligation # "open"
    [] reason = "customer_opted_out" -> s.optedOut
    [] reason = "open_promise_to_pay" -> s.promise
    [] reason = "lost_cause" -> LostCause(s)
    [] reason = "npci_represent_cap" -> s.attempts >= Lookup(s.decline).maxAttempts
    [] reason = "issuer_degraded" -> s.degraded
    [] reason = "diminishing_returns" -> s.age >= DiminishingReturnsDays
    [] reason = "contact_budget_spent" -> OutOfContacts(s) /\ ~s.costless
    [] reason = "discount_budget_spent" -> s.needsDiscount /\ s.discountLeft <= 0
    [] reason = "negative_expected_margin" -> s.margin < MinMargin /\ ~s.costless

\* evaluate's order, cheapest and most fundamental first.
Order == <<"obligation_resolved", "customer_opted_out", "open_promise_to_pay",
           "lost_cause", "npci_represent_cap", "issuer_degraded",
           "diminishing_returns", "contact_budget_spent", "discount_budget_spent",
           "negative_expected_margin">>

\* StopDecision: the name of a rule, or nothing to stop for.
Continue == "continue"

\* The first rule that holds.
Evaluate(s) ==
  IF \E i \in DOMAIN Order : Holds(Order[i], s)
  THEN Order[CHOOSE i \in DOMAIN Order :
               Holds(Order[i], s) /\ \A j \in 1 .. i - 1 : ~Holds(Order[j], s)]
  ELSE Continue
=============================================================================
