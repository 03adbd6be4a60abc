------------------------------ MODULE Allocator ------------------------------
(***************************************************************************)
(* control/yukti/allocator/lagrangian.py.  cands is a sequence of          *)
(* candidates, a choice a set of its indices, b the budgets.               *)
(***************************************************************************)
EXTENDS Integers, FiniteSetsExt, Functions, Domain

CONSTANTS
  Prices,       \* multipliers the bisection can return; the code's are floats
  ContactUnit   \* discount, in paise, that weighs as much as a contact: 10000

ASSUME AllocatorAssumption ==
  /\ Prices \subseteq Nat /\ 0 \in Prices /\ IsFiniteSet(Prices)
  /\ ContactUnit \in Nat

\* Candidate and Budgets, in what the knapsack reads of them.
IsCandidate(c) ==
  /\ c.margin \in Int /\ c.contacts \in {0, 1} /\ c.discount \in Nat /\ c.cost \in Nat
IsBudgets(b) == b.contacts \in Nat /\ b.discount \in Nat /\ b.perCustomer \in Nat

Total(cands, ch, field) == SumFunctionOnSet([i \in DOMAIN cands |-> cands[i][field]], ch)
Reduced(c, lc, ld) == c.margin - lc * c.contacts - ld * c.discount

\* sorted(..., key=lambda c: -key(c)), which is stable: the one that comes last.
LastBy(key, is) ==
  LET least == Min({key[i] : i \in is}) IN Max({i \in is : key[i] = least})

-----------------------------------------------------------------------------
(* What may join a choice *)

\* Contacts the choice has for a customer.
CustomerContacts(cands, ch, customer) ==
  Total(cands, {k \in ch : cands[k].customer = customer}, "contacts")

\* One action a case, and the customer's own cap.
FitsCaps(cands, ch, b, i) ==
  /\ \A k \in ch : cands[k].case # cands[i].case
  /\ cands[i].contacts > 0 =>
       CustomerContacts(cands, ch, cands[i].customer) + cands[i].contacts <= b.perCustomer

\* _Running.fits
Fits(cands, ch, b, i) ==
  /\ FitsCaps(cands, ch, b, i)
  /\ Total(cands, ch, "contacts") + cands[i].contacts <= b.contacts
  /\ Total(cands, ch, "discount") + cands[i].discount <= b.discount

\* Mutant: an exchange looks at the caps alone.
FitsReplacingCaps(cands, ch, b, k, i) == FitsCaps(cands, ch \ {k}, b, i)

\* _Running.fits_replacing, by taking k out first.
FitsReplacing(cands, ch, b, k, i) == Fits(cands, ch \ {k}, b, i)

-----------------------------------------------------------------------------
(* The relaxation *)

\* _select: everything with positive reduced value, greedily under the caps.
Select(cands, b, lc, ld) ==
  LET value == [i \in DOMAIN cands |-> Reduced(cands[i], lc, ld)]
  IN MapThenFoldSet(LAMBDA i, ch : IF FitsCaps(cands, ch, b, i) THEN ch \cup {i} ELSE ch,
                    {}, LAMBDA i : i, LAMBDA is : LastBy(value, is),
                    {i \in DOMAIN cands : value[i] > 0})

\* _bisect: the smallest price that brings a budget within its limit.
BisectContact(cands, b, ld) ==
  LET within == {l \in Prices : Total(cands, Select(cands, b, l, ld), "contacts") <= b.contacts}
  IN IF within = {} THEN Max(Prices) ELSE Min(within)
BisectDiscount(cands, b, lc) ==
  LET within == {l \in Prices : Total(cands, Select(cands, b, lc, l), "discount") <= b.discount}
  IN IF within = {} THEN Max(Prices) ELSE Min(within)

\* Four rounds of alternating bisection.
Multipliers(cands, b) ==
  LET Round(l) == LET lc == BisectContact(cands, b, l[2])
                  IN <<lc, BisectDiscount(cands, b, lc)>>
  IN Round(Round(Round(Round(<<0, 0>>))))

\* trim: while a budget is passed, its least valuable spender goes.
Trim(cands, ch, field, limit) ==
  LET Worst(spenders) == CHOOSE i \in spenders :
                           \A j \in spenders : cands[i].margin <= cands[j].margin
      trimmed[kept \in SUBSET ch] ==
        IF Total(cands, kept, field) <= limit THEN kept
        ELSE trimmed[kept \ {Worst({i \in kept : cands[i][field] > 0})}]
  IN trimmed[ch]

-----------------------------------------------------------------------------
(* The passes on top of it *)

\* One candidate after the other joins the choice if it fits; last[s] comes after
\* the rest of s.
Take(cands, ch, b, is, last) ==
  MapThenFoldSet(LAMBDA i, acc : IF Fits(cands, acc, b, i) THEN acc \cup {i} ELSE acc,
                 ch, LAMBDA i : i, LAMBDA s : last[s], is)

Worth(cands) == {i \in DOMAIN cands : cands[i].margin > 0}
Margins(cands) == [i \in DOMAIN cands |-> cands[i].margin]

\* _fill: leftover budget goes to the best remaining candidates.
Fill(cands, ch, b) ==
  LET rest == Worth(cands) \ ch
  IN Take(cands, ch, b, rest, [s \in SUBSET rest |-> LastBy(Margins(cands), s)])

\* _greedy: by margin per unit of scarce resource, the free ones first.
Cost(c) == ContactUnit * c.contacts + c.discount
Denser(c, d) ==
  \/ Cost(c) = 0 /\ Cost(d) > 0
  \/ Cost(c) > 0 /\ Cost(d) > 0 /\ c.margin * Cost(d) > d.margin * Cost(c)
LeastDense(cands, is) ==
  CHOOSE i \in is : \A j \in is \ {i} :
    Denser(cands[j], cands[i]) \/ (~Denser(cands[i], cands[j]) /\ j < i)
Greedy(cands, b) ==
  Take(cands, {}, b, Worth(cands), [s \in SUBSET Worth(cands) |-> LeastDense(cands, s)])

\* One exchange of _improve: the best gain a funded and an unfunded candidate
\* can trade for.  The windows are wider than any instance here.
Swaps(cands, ch, b) ==
  {s \in ch \X (Worth(cands) \ ch) :
     /\ cands[s[2]].margin > cands[s[1]].margin
     /\ FitsReplacing(cands, ch, b, s[1], s[2])}
Exchange(cands, ch, b) ==
  LET swaps == Swaps(cands, ch, b)
      Gain(s) == cands[s[2]].margin - cands[s[1]].margin
      best == CHOOSE s \in swaps : \A t \in swaps : Gain(t) <= Gain(s)
  IN IF swaps = {} THEN ch ELSE (ch \ {best[1]}) \cup {best[2]}

\* _improve: MAX_SWAP_PASSES exchanges.
Improve(cands, ch, b) ==
  LET Pass(acc) == Exchange(cands, acc, b) IN Pass(Pass(Pass(Pass(ch))))

\* _is_costless_and_unseen
Costless(c) ==
  /\ ~ContactsCustomer(c.kind) /\ c.kind \notin {"suppress", "escalate"}
  /\ c.contacts = 0 /\ c.discount = 0 /\ c.cost = 0

\* The best free action of every case the choice left empty, the first of equals.
FreeOnes(cands, ch, is) ==
  LET free == {i \in is : /\ Costless(cands[i])
                         /\ \A k \in ch : cands[k].case # cands[i].case}
      Better(i, j) == \/ cands[j].margin < cands[i].margin
                      \/ cands[j].margin = cands[i].margin /\ i <= j
  IN {i \in free : \A j \in free : cands[j].case = cands[i].case => Better(i, j)}

\* Mutant: a free action is taken only when it is expected to earn something.
TakeCostlessWorth(cands, ch) == ch \cup FreeOnes(cands, ch, Worth(cands))

\* _take_costless_actions: one for every case the knapsack left empty, whatever
\* its margin.
TakeCostless(cands, ch) == ch \cup FreeOnes(cands, ch, DOMAIN cands)

-----------------------------------------------------------------------------
(* allocate *)

\* What the choice is worth at the prices.
ReducedTotal(cands, ch, lc, ld) ==
  SumFunctionOnSet([i \in DOMAIN cands |-> Reduced(cands[i], lc, ld)], ch)

\* Mutant: what the discount budget is worth is left out.
DualOfContacts(cands, b, lc, ld) ==
  ReducedTotal(cands, Select(cands, b, lc, ld), lc, ld) + lc * b.contacts

\* _certified_dual
Dual(cands, b, lc, ld) ==
  ReducedTotal(cands, Select(cands, b, lc, ld), lc, ld)
    + lc * b.contacts + ld * b.discount

\* What both heuristics and the exchanges make of the knapsack.
Knapsack(cands, b, l) ==
  LET relaxed == Select(cands, b, l[1], l[2])
      trimmed == Trim(cands, Trim(cands, relaxed, "contacts", b.contacts),
                      "discount", b.discount)
      priced == Fill(cands, trimmed, b)
      greedy == Fill(cands, Greedy(cands, b), b)
      better == IF Total(cands, greedy, "margin") > Total(cands, priced, "margin")
                THEN greedy ELSE priced
  IN Improve(cands, better, b)

Allocate(cands, b) ==
  LET l == Multipliers(cands, b)
      funded == Knapsack(cands, b, l)
  IN [chosen |-> TakeCostless(cands, funded),
      margin |-> Total(cands, funded, "margin"),
      lc |-> l[1], ld |-> l[2],
      dual |-> Dual(cands, b, l[1], l[2])]

\* DualBoundViolation, which ends the planning cycle; the slack is a paisa.
Raises(alloc) == alloc.dual < alloc.margin - 1

-----------------------------------------------------------------------------
(* Reference definitions *)

\* A choice the merchant authorised.
Feasible(cands, is, b) ==
  /\ \A i, j \in is : cands[i].case = cands[j].case => i = j
  /\ Total(cands, is, "contacts") <= b.contacts
  /\ Total(cands, is, "discount") <= b.discount
  /\ \A i \in is : CustomerContacts(cands, is, cands[i].customer) <= b.perCustomer

\* brute_force: the best margin of any feasible choice.
Optimum(cands, b) ==
  Max({Total(cands, is, "margin") :
         is \in {S \in SUBSET DOMAIN cands : Feasible(cands, S, b)}})
=============================================================================
