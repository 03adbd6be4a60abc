------------------------------- MODULE Scoring -------------------------------
(***************************************************************************)
(* control/yukti/scoring.py: what an action is worth, in 1/10000 of the    *)
(* amount.  A scorer s is a record with a name and a value; what a fitted  *)
(* model predicts is any table from score keys to effects.                 *)
(***************************************************************************)
EXTENDS Domain, Integers

\* key_for: what the score of a candidate is keyed on.
KeyFor(cand) ==
  [case |-> cand.case, kind |-> cand.kind, channel |-> cand.channel, pct |-> cand.pct]

\* _zero_suppress: doing nothing has no effect, whatever the model says of it.
ZeroSuppress(kind, score) == IF kind = "suppress" THEN 0 ELSE score

\* UpliftScorer and PropensityScorer: a prediction for each key; whoever asks for
\* another is told 0 (uplift.get(key_for(cand), 0.0)).
ModelScorer(table, key) ==
  IF key \in DOMAIN table THEN ZeroSuppress(key.kind, table[key]) ELSE 0

\* ConstantScorer, and FixedScorer of a number.
ConstantScorer(value, kind) == IF kind = "suppress" THEN 0 ELSE value

\* ReasonCodeScorer: a routing table by transience; a retry counts half more.
ByTransience(transience) ==
  CASE transience = "funds" -> 800 [] transience = "auth" -> 600
    [] transience = "system" -> 400 [] transience = "semi_permanent" -> 500
    [] transience = "permanent" -> 0 [] OTHER -> 200
ReasonCodeScorer(kind, code) ==
  LET base == ByTransience(Lookup(code).transience)
  IN IF kind = "suppress" THEN 0
     ELSE IF kind = "silent_retry" /\ Lookup(code).silently THEN base + base \div 2
     ELSE base

\* RetryOnlyScorer: contacting anyone is worth nothing.
RetryOnlyScorer(value, kind) ==
  IF kind = "suppress" \/ ContactsCustomer(kind) THEN 0 ELSE value

ZeroScorer(kind) == 0

\* ARMS, and what an arm is given: a table for the fitted models, a number for two.
Arms == {"uplift", "propensity", "constant", "reason_code", "retry_only", "zero"}
IsScorer(s) ==
  /\ s.name \in Arms
  /\ s.name \in {"uplift", "propensity"} => \A key \in DOMAIN s.value : s.value[key] \in Int
  /\ s.name \in {"constant", "retry_only"} => s.value \in Int

\* Scorer.score for one candidate.
Uplift(s, key, code) ==
  CASE s.name \in {"uplift", "propensity"} -> ModelScorer(s.value, key)
    [] s.name = "constant" -> ConstantScorer(s.value, key.kind)
    [] s.name = "reason_code" -> ReasonCodeScorer(key.kind, code)
    [] s.name = "retry_only" -> RetryOnlyScorer(s.value, key.kind)
    [] s.name = "zero" -> ZeroScorer(key.kind)

\* expected_margin, for amounts that are multiples of 10000 paise.
ExpectedMargin(uplift, amount, mdr, discount, cost) ==
  ((amount \div 10000) * uplift * (100 - mdr)) \div 100 - discount - cost
=============================================================================
