------------------------------ MODULE Admission ------------------------------
(***************************************************************************)
(* allocator/streaming.py: one merchant's budget window, in which          *)
(* candidates arrive in any order and each is decided at once, at the      *)
(* shadow price a batch solve of allocator/lagrangian.py left behind.      *)
(***************************************************************************)
EXTENDS Allocator, Sequences

CONSTANTS
  Populations,   \* sequences of candidates
  Authorised     \* budgets

ASSUME AdmissionAssumption ==
  /\ \A p \in Populations : p \in Seq(Range(p)) /\ \A i \in DOMAIN p : IsCandidate(p[i])
  /\ \A b \in Authorised : IsBudgets(b)

VARIABLES
  cands,      \* the population
  budgets,    \* what the merchant authorised
  batch,      \* the batch solve of the same population
  funded,     \* StreamingAllocator: what it has funded
  refused     \* refused[v]: candidates refused with verdict v

window == <<cands, budgets, batch, funded, refused>>

Refusals == {"below_price", "budget_exhausted", "customer_capped", "case_already_funded"}

\* ShadowPrice.from_batch, and an empty window.
EmptyWindow ==
  /\ cands \in Populations
  /\ budgets \in Authorised
  /\ batch = Allocate(cands, budgets)
  /\ funded = {}
  /\ refused = [v \in Refusals |-> {}]

Decided == funded \cup UNION {refused[v] : v \in Refusals}

\* Mutant: the customer's cap is forgotten.
AnswerUncapped(i) ==
  IF \E k \in funded : cands[k].case = cands[i].case THEN "case_already_funded"
  ELSE IF Reduced(cands[i], batch.lc, batch.ld) <= 0 THEN "below_price"
  ELSE IF \/ Total(cands, funded, "contacts") + cands[i].contacts > budgets.contacts
          \/ Total(cands, funded, "discount") + cands[i].discount > budgets.discount
       THEN "budget_exhausted"
  ELSE "funded"

\* StreamingAllocator.offer: the checks in the order that explains them.
Answer(i) ==
  IF \E k \in funded : cands[k].case = cands[i].case THEN "case_already_funded"
  ELSE IF Reduced(cands[i], batch.lc, batch.ld) <= 0 THEN "below_price"
  ELSE IF \/ Total(cands, funded, "contacts") + cands[i].contacts > budgets.contacts
          \/ Total(cands, funded, "discount") + cands[i].discount > budgets.discount
       THEN "budget_exhausted"
  ELSE IF ~FitsCaps(cands, funded, budgets, i) THEN "customer_capped"
  ELSE "funded"

Offer(i) ==
  /\ i \in DOMAIN cands \ Decided
  /\ IF Answer(i) = "funded"
     THEN funded' = funded \cup {i} /\ UNCHANGED refused
     ELSE refused' = [refused EXCEPT ![Answer(i)] = @ \cup {i}] /\ UNCHANGED funded
  /\ UNCHANGED <<cands, budgets, batch>>

Arrival == \E i \in DOMAIN cands : Offer(i)

Window == EmptyWindow /\ [][Arrival]_window

-----------------------------------------------------------------------------
(* Properties *)

\* "We do not get to exceed it" (lagrangian.py:604-606): whatever the arrival
\* order, the window stays within both budgets, the customers' caps and one
\* action a case, and so does the batch, with the costless actions on top.
WithinBudgets ==
  /\ Feasible(cands, funded, budgets)
  /\ Feasible(cands, batch.chosen, budgets)

\* "The Lagrangian dual is a provable upper bound on the true optimum"
\* (lagrangian.py:30-34): it is, when no customer has two cases to choose between.
DualBoundsLoners ==
  (\A i, j \in DOMAIN cands :
     cands[i].customer = cands[j].customer => cands[i].case = cands[j].case)
  => batch.dual >= Optimum(cands, budgets) - 1

\* "This cannot fire on data" (lagrangian.py:563): allocate never raises.
NeverRaises == ~Raises(batch)
=============================================================================
