----------------------------- MODULE MCPlanning -----------------------------
(* Two customers; two of the three cases are the same customer's.            *)
EXTENDS Planning

Row(id, customer, amount, rail, decline, age, arm) ==
  [id |-> id, customer |-> customer, amount |-> amount, rail |-> rail,
   decline |-> decline, consent |-> {"email", "sms"}, preferred |-> "sms",
   attempts |-> 1, mdr |-> 2, category |-> "general", obligation |-> "open",
   issuer |-> IF rail = "card" THEN "hdfc" ELSE "none",
   age |-> age, optedOut |-> FALSE, promise |-> FALSE, arm |-> arm]

\* A retry and a message compete for one customer; the third case is in the
\* holdout, three weeks old, or beyond recovery.
SmallBooks ==
  {<<Row(1, "x", 40000, rail, "AP01", 0, "treatment"),
     Row(2, "x", 90000, "card", "AP39", 0, "treatment"), third>> :
      rail \in {"upi_autopay", "card"},
      third \in {Row(3, "y", 20000, "upi_autopay", "INSUFFICIENT_FUNDS", 0, "holdout"),
                 Row(3, "y", 20000, "upi_autopay", "INSUFFICIENT_FUNDS", 19, "treatment"),
                 Row(3, "x", 10000, "card", "AP39", 0, "treatment"),
                 Row(3, "y", 20000, "card", "ACCOUNT_CLOSED", 0, "treatment")}}
\* An old pack that no longer counts; a pack that seeding leaves alone.
TwoPolicies ==
  {{Pack(1, [cap |-> 99], FALSE), Pack(2, [cap |-> 1, maxPct |-> 10], TRUE)},
   SeedDefaults({Pack(1, [maxPct |-> 10, threshold |-> 80000], TRUE)}, "saas")}
\* Messages do next to nothing, mail a little more; discounts do a lot, the deep
\* ones more for the second case; a retry of the first case does harm.
Keys == [case : 1 .. 3, kind : ActionKinds, channel : Channels, pct : {0} \cup Range(Tiers)]
Fitted == [key \in Keys |->
  CASE key.kind = "message" -> IF key.channel = "email" THEN 60 ELSE 52
    [] key.kind = "discount_offer" -> IF key.case = 2 THEN 500 + 60 * key.pct ELSE 900
    [] key.kind = "schedule_debit" -> 250
    [] key.case = 1 -> -100
    [] OTHER -> 200]
Scores == {[name |-> "zero", value |-> 0], [name |-> "retry_only", value |-> 500],
           [name |-> "reason_code", value |-> 0],
           [name |-> "uplift", value |-> Fitted]}
Tight == {[contact |-> 1, discount |-> 9000], [contact |-> 2, discount |-> 0],
          [contact |-> 2, discount |-> 1500]}
Odd == {[contact |-> 2, discount |-> 1500]}
Grid == {0, 1, 2000, 10000}
\* Salaries come on day 1; day 5 is too thin to tell, day 6 has never been tried.
Payday == [d \in 0 .. 5 |-> CASE d = 1 -> [n |-> 100, ok |-> 60]
                             [] d = 5 -> [n |-> 3, ok |-> 3]
                             [] OTHER -> [n |-> 100, ok |-> 30]]
=============================================================================
