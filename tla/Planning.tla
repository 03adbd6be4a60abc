------------------------------ MODULE Planning ------------------------------
(***************************************************************************)
(* What one merchant's planning cycles decide (pipeline.py plan_cycle):    *)
(* candidates, stopping rules, policy filter, allocation and action, day   *)
(* after day.  The interleavings of cycles are Recovery's; here a cycle    *)
(* runs alone, and its choices are the code's.                             *)
(***************************************************************************)
EXTENDS Candidates, Stopping, Scoring, Allocator

CONSTANTS
  Books,         \* the cases a merchant may have: functions from ids to rows
  PolicyPacks,   \* the packs it may have on file
  Scorers,       \* what scores the candidates
  Limits,        \* what the merchant's ledger may be each day: [contact, discount]
  History,       \* the mandate attempts the timing model is fitted to
  PlanHour,      \* when the cycle runs
  MaxDay         \* bound: days

\* A row of OPEN_CASE_SQL, in what a cycle computes with.
IsRow(row) ==
  /\ row.rail \in Rails /\ row.consent \subseteq Channels
  /\ row.amount \in Nat /\ row.mdr \in 0 .. 100

ASSUME PlanningAssumption ==
  /\ PlanHour \in 0 .. 23 /\ MaxDay \in Nat
  /\ \A rows \in Books : IsFiniteSet(DOMAIN rows) /\ DOMAIN rows \subseteq Nat
  /\ \A rows \in Books : \A c \in DOMAIN rows : rows[c].id = c /\ IsRow(rows[c])
  /\ \A packs \in PolicyPacks : IsFiniteSet(packs) /\ \A pack \in packs : IsPack(pack)
  /\ \A s \in Scorers : IsScorer(s)
  /\ \A l \in Limits : l.contact \in Nat /\ l.discount \in Nat
  /\ DOMAIN History \subseteq 0 .. Month - 1
  /\ \A d \in DOMAIN History : History[d].n \in Nat /\ History[d].ok \in 0 .. History[d].n

PerCustomerContacts == 1     \* DEFAULT_PER_CUSTOMER_CONTACTS

VARIABLES
  book,        \* book[c]: the rows the cases are loaded from
  policy, scorer, limits,
  day,
  phase,       \* "idle", "proposed", "judged" or "done"
  proposals,   \* proposals[c]: candidates, by preference of the generator
  state,       \* state[c]: the case's state
  reason,      \* reason[c]: why it was stopped
  sent,        \* actions on record as dispatched, with the day and the hour
  landed,      \* actions the vendor carried out, on record or not
  ledger,      \* [contact, discount]: consumed today
  plan         \* [cands, alloc]: what the allocator was given and made of it

vars == <<book, policy, scorer, limits, day, phase, proposals, state, reason, sent, landed,
          ledger, plan>>

Cases == DOMAIN book
None == "none"
NoPlan == [cands |-> <<>>, alloc |-> [chosen |-> {}, margin |-> 0, lc |-> 0, ld |-> 0, dual |-> 0]]
Now == 24 * day + PlanHour

Init ==
  /\ book \in Books /\ scorer \in Scorers /\ limits \in Limits
  /\ \E packs \in PolicyPacks : policy = LoadPolicy(packs)
  /\ day = 0
  /\ phase = "idle"
  /\ proposals = [c \in Cases |-> <<>>]
  /\ state = [c \in Cases |-> "open"]
  /\ reason = [c \in Cases |-> None]
  /\ sent = {} /\ landed = {}
  /\ ledger = [contact |-> 0, discount |-> 0]
  /\ plan = NoPlan

-----------------------------------------------------------------------------
(* What is loaded *)

IsContact(a) == ContactsCustomer(a.kind)
WeekOf(customer) == {a \in sent : a.customer = customer /\ IsContact(a) /\ day - a.day <= 7}

\* Mutant: the count of contacts is the case's own, not the customer's.
ContactsOfCase(c) == Cardinality({a \in WeekOf(book[c].customer) : a.case = c})

\* contacts_this_window, over every case of the customer: a row without a
\* dispatched_at is not counted.
ContactsThisWindow(c) == Cardinality(WeekOf(book[c].customer))

\* OPEN_CASE_SQL.  Neither issuer_degraded nor had_recent_discount is among its
\* columns, so case.get finds neither.
Loaded == {c \in Cases : state[c] = "open"}
Left(kind) == IF ledger[kind] < limits[kind] THEN limits[kind] - ledger[kind] ELSE 0

\* _request and _context
Request(c, cand) ==
  [kind |-> cand.kind, channel |-> cand.channel, at |-> cand.at,
   amount |-> cand.amount - cand.discount, category |-> book[c].category,
   decline |-> book[c].decline, attempts |-> book[c].attempts, pct |-> cand.pct,
   consent |-> book[c].consent,
   notice |-> IF cand.kind = "schedule_debit" THEN {cand.at - NoticeHours} ELSE {},
   template |-> IsContact(cand), afa |-> FALSE]
Context(c) ==
  [contacts |-> ContactsThisWindow(c), recentDiscount |-> FALSE, approved |-> FALSE]
VerdictOn(c, cand) == Verdict(Request(c, cand), policy, Context(c))

UpliftOf(c, cand) == Uplift(scorer, KeyFor(cand), book[c].decline)
MarginOf(c, cand) ==
  ExpectedMargin(UpliftOf(c, cand), cand.amount, book[c].mdr, cand.discount,
                 ChannelCost[cand.channel])

-----------------------------------------------------------------------------
(* The cycle *)

\* Advice.drops_for: a posture of suppression drops the contacts of an issuer's
\* cases, and nothing else.
Issuers == {book[c].issuer : c \in Cases} \ {None}
DropsFor(c, suppressing) ==
  IF book[c].issuer \in suppressing
  THEN {kind \in ActionKinds : ContactsCustomer(kind)} ELSE {}

\* _load_timing: a model that cannot be loaded is one that is not fitted.
Timing == {Fit(History), Unfitted}

\* Candidates, less what the agent advises to drop.
Propose ==
  /\ phase = "idle" /\ Loaded # {}
  /\ \E suppressing \in SUBSET Issuers, curve \in Timing :
       proposals' = [c \in Cases |->
         IF c \notin Loaded THEN <<>>
         ELSE LET all == Generate(book[c], policy, Now, curve)
              IN Keep(all, {cand \in Range(all) : cand.kind \notin DropsFor(c, suppressing)})]
  /\ phase' = "proposed"
  /\ UNCHANGED <<book, policy, scorer, limits, day, state, reason, sent, landed, ledger, plan>>

\* _is_costless_and_unseen, on proposals
CostlessProposal(cand) ==
  /\ ~IsContact(cand) /\ cand.kind \notin {"suppress", "escalate"}
  /\ cand.discount = 0 /\ ChannelCost[cand.channel] = 0

\* The options of a case, as indices; the first of the best is the best.
Acting(c) == {i \in DOMAIN proposals[c] : proposals[c][i].kind # "suppress"}
Affordable(c, discountLeft) ==
  {i \in Acting(c) : proposals[c][i].discount <= discountLeft}
Top(c, is) == Max({0} \cup {MarginOf(c, proposals[c][i]) : i \in is})
BestAt(c, is) ==
  Min({i \in is : MarginOf(c, proposals[c][i]) = Top(c, is)})

\* Mutant: the best option is a discount, whatever it is worth.
BlockedOnAnyDiscount(c, discountLeft) ==
  /\ Top(c, Affordable(c, discountLeft)) < MinMargin
  /\ Top(c, Acting(c)) > 0
  /\ proposals[c][BestAt(c, Acting(c))].discount > 0

\* Whether the discount budget is what stands between the case and something
\* worth doing.
BlockedOnDiscount(c, discountLeft) ==
  /\ Top(c, Affordable(c, discountLeft)) < MinMargin
  /\ Top(c, Acting(c)) >= MinMargin
  /\ proposals[c][BestAt(c, Acting(c))].discount > 0

\* _best_margin: what the case is worth, given what can be afforded.
Best(c, discountLeft) ==
  LET affordable == Affordable(c, discountLeft)
      Effect(i) == UpliftOf(c, proposals[c][i])
  IN [margin |-> Top(c, affordable),
      uplift |-> IF Top(c, affordable) > 0 THEN Effect(BestAt(c, affordable))
                 ELSE IF Acting(c) = {} THEN 0 ELSE Max({Effect(i) : i \in Acting(c)}),
      needsDiscount |-> BlockedOnDiscount(c, discountLeft),
      costless |-> \E i \in Acting(c) : CostlessProposal(proposals[c][i])]

\* _snapshot
Snapshot(c, discountLeft) ==
  LET best == Best(c, discountLeft)
  IN [obligation |-> book[c].obligation, decline |-> book[c].decline,
      age |-> book[c].age + day, attempts |-> book[c].attempts,
      optedOut |-> book[c].optedOut, promise |-> book[c].promise, degraded |-> FALSE,
      contacts |-> ContactsThisWindow(c), cap |-> policy.cap,
      contactsLeft |-> Left("contact"),
      discountLeft |-> discountLeft,
      uplift |-> best.uplift, margin |-> best.margin,
      needsDiscount |-> best.needsDiscount, costless |-> best.costless]

\* The stopping rules, and _record_stop.
Judge ==
  LET verdict == [c \in Loaded |-> Evaluate(Snapshot(c, Left("discount")))]
      stopped == {c \in Loaded : verdict[c] # Continue}
  IN /\ phase = "proposed"
     /\ state' = [c \in Cases |-> IF c \in stopped THEN "stopped" ELSE state[c]]
     /\ reason' = [c \in Cases |-> IF c \in stopped THEN verdict[c] ELSE reason[c]]
     /\ phase' = "judged"
     /\ UNCHANGED <<book, policy, scorer, limits, day, proposals, sent, landed, ledger, plan>>

\* index_discount: the allocator's candidate names no tier, so the first one at
\* its price is taken to be its own.
Indexed(cands, cand) ==
  cands[Min({i \in DOMAIN cands : /\ cands[i].kind = cand.kind
                                 /\ cands[i].channel = cand.channel
                                 /\ cands[i].discount = cand.discount})]

\* The allocator's candidates: what survives the stops and the policy filter.
ForAllocator(c) ==
  LET feasible == Keep(proposals[c], {cand \in Range(proposals[c]) :
                    /\ cand.kind # "suppress"
                    /\ is_feasible(Request(c, cand), policy, Context(c))})
  IN [i \in DOMAIN feasible |->
        [case |-> c, customer |-> feasible[i].customer, kind |-> feasible[i].kind,
         margin |-> MarginOf(c, feasible[i]),
         contacts |-> IF IsContact(feasible[i]) THEN 1 ELSE 0,
         discount |-> feasible[i].discount, cost |-> ChannelCost[feasible[i].channel],
         from |-> Indexed(feasible, feasible[i])]]
Fundable == MapThenFoldSet(LAMBDA own, before : before \o own, <<>>,
                           LAMBDA c : ForAllocator(c), LAMBDA cs : Max(cs), Loaded)
Budgets == [contacts |-> Left("contact"),
            discount |-> Left("discount"),
            perCustomer |-> PerCustomerContacts]

\* What becomes of the funded actions, in the order _act asks: a holdout is held
\* out, then policy blocks, escalates or allows.
HeldOut(funded) == {cand \in funded : book[cand.case].arm = "holdout"}
Ruled(funded, verdict) ==
  {cand \in funded \ HeldOut(funded) : VerdictOn(cand.case, cand) = verdict}
CasesOf(cands) == {cand.case : cand \in cands}

\* A dispatch that fails leaves its case open, and so does not being funded.
Fates(funded, executed) ==
  [c \in Cases |->
     IF c \in CasesOf(HeldOut(funded)) THEN "held_out"
     ELSE IF c \in CasesOf(Ruled(funded, "escalate")) THEN "escalated"
     ELSE IF c \in CasesOf(executed) THEN "awaiting_outcome"
     ELSE state[c]]

\* The tools execute at once, whatever the hour the action was scheduled for.
Executed(cand) ==
  [case |-> cand.case, customer |-> cand.customer, kind |-> cand.kind, at |-> cand.at,
   discount |-> cand.discount, day |-> day, done |-> Now]

\* _tally and spend: what was dispatched is charged, not what was planned.
Charge(executed) ==
  ledger' = [contact |-> ledger.contact + Cardinality({a \in executed : IsContact(a)}),
             discount |-> ledger.discount + SumFunction([a \in executed |-> a.discount])]

\* A dual below the primal raises before anything is done.  A dispatch that is not on
\* record as dispatched, for it failed, was refused, or was cut short, may have been
\* carried out all the same: only its answer is missing.
Act ==
  /\ phase = "judged"
  /\ phase' = "done"
  /\ plan' = [cands |-> Fundable, alloc |-> Allocate(Fundable, Budgets)]
  /\ IF Raises(plan'.alloc) THEN UNCHANGED <<state, sent, landed, ledger>>
     ELSE LET funded == {plan'.cands[i].from : i \in plan'.alloc.chosen}
          IN \E done \in SUBSET Ruled(funded, "allow") : \E executed \in SUBSET done :
               /\ state' = Fates(funded, executed)
               /\ sent' = sent \cup {Executed(cand) : cand \in executed}
               /\ landed' = landed \cup {Executed(cand) : cand \in done}
               /\ Charge(executed)
  /\ UNCHANGED <<book, policy, scorer, limits, day, proposals, reason>>

\* Tomorrow has a ledger row of its own.
NextDay ==
  /\ phase = "done" \/ (phase = "idle" /\ Loaded = {})
  /\ day < MaxDay
  /\ day' = day + 1
  /\ phase' = "idle"
  /\ proposals' = [c \in Cases |-> <<>>]
  /\ ledger' = [contact |-> 0, discount |-> 0]
  /\ plan' = NoPlan
  /\ UNCHANGED <<book, policy, scorer, limits, state, reason, sent, landed>>

Next == Propose \/ Judge \/ Act \/ NextDay

Spec == Init /\ [][Next]_vars

-----------------------------------------------------------------------------
(* Properties *)

\* The contacts of a customer in the seven days up to one of them.
WeekUpTo(contacts, a) ==
  {b \in contacts : /\ b.customer = a.customer /\ IsContact(b)
                   /\ b.day <= a.day /\ a.day - b.day <= 7}

\* "Contacts across EVERY case for this customer, on every surface"
\* (features.py:268-269): whatever the cases and the days, nobody is contacted,
\* and be it by an action that never goes on record, once the other contacts on
\* record in the seven days before have reached what the policy says.  What is not
\* on record is not counted.
WeeklyCapHolds ==
  \A a \in landed : IsContact(a) => Cardinality(WeekUpTo(sent \ {a}, a)) < policy.cap

\* What a customer hears would be within the cap if what is done were on record.
HeardWithinCap ==
  \A a \in landed : IsContact(a) => Cardinality(WeekUpTo(landed, a)) <= policy.cap

\* What the allocator funds, after its exchanges and its free extras, is within
\* the day's budgets, of the ledger as it is charged and of the customers as they
\* are contacted, on record or not.
DayWithinBudget ==
  /\ ledger.contact <= limits.contact /\ ledger.discount <= limits.discount
  /\ \A d \in 0 .. day :
       Cardinality({a \in landed : a.day = d /\ IsContact(a)}) <= limits.contact

\* "Your discount budget ran out and nothing else was worth doing ... raising the
\* budget would change it" (pipeline.py:370-376): a case stopped because the
\* discount budget ran out would have been worked had it paid for any of its offers.
Ample(c) == 1 + Max({0} \cup {proposals[c][i].discount : i \in DOMAIN proposals[c]})
BudgetStopsAreHonest ==
  phase = "judged" =>
    \A c \in Cases : reason[c] = "discount_budget_spent" /\ proposals[c] # <<>> =>
      Evaluate(Snapshot(c, Ample(c))) = Continue

\* "... and no budget would change it" (pipeline.py:372-373): a case stopped for
\* its margin would have been stopped under a budget that pays for any of its offers.
MarginStopsAreFinal ==
  phase = "judged" =>
    \A c \in Cases : reason[c] = "negative_expected_margin" /\ proposals[c] # <<>> =>
      Evaluate(Snapshot(c, Ample(c))) # Continue

\* "Discarding the free silent retry sitting right next to it" was the mistake
\* (pipeline.py:366-368): no budget and no margin stops a case that has one.
FreeRetryKeepsCase ==
  phase = "judged" =>
    \A c \in Cases : proposals[c] # <<>> /\ Best(c, 0).costless =>
      reason[c] \notin {"contact_budget_spent", "discount_budget_spent",
                       "negative_expected_margin"}

\* The passes over the knapsack leave no free work undone (lagrangian.py:508-520):
\* once a cycle is over, every survivor that had a free action policy allows was
\* given an action.
FreeRetryTaken ==
  phase = "done" /\ ~Raises(plan.alloc) =>
    \A i \in DOMAIN plan.cands : Costless(plan.cands[i]) =>
      \E k \in plan.alloc.chosen : plan.cands[k].case = plan.cands[i].case

\* "RBI_PREDEBIT_24H requires a notification at least 24 hours earlier"
\* (tools.py:123-125): no scheduled debit is presented sooner than a day after
\* the notice policy cleared it on.
DebitAfterNotice ==
  \A a \in landed : a.kind = "schedule_debit" => a.done >= (a.at - NoticeHours) + 24
=============================================================================
