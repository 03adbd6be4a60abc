------------------------------ MODULE Recovery ------------------------------
(***************************************************************************)
(* One merchant's recovery cases, worked by everything that writes them:   *)
(* planning cycles (pipeline.plan_cycle), human approvals                  *)
(* (approvals.decide) and captures the consumer ingests                    *)
(* (OpportunityService._resolve), over the dispatcher (module Dispatch)    *)
(* and the daily contact budget (allocator/budget.py).                     *)
(*                                                                         *)
(* An action is one database transaction.  Which cases the stopping rules  *)
(* stop and which candidates the allocator funds are choices here: any     *)
(* decision the budget read in that transaction allows.                    *)
(***************************************************************************)
EXTENDS Integers, FiniteSets, CaseStates

CONSTANTS
  Cases,           \* the merchant's cases
  Holdout,         \* cases in the holdout arm
  NeedsApproval,   \* cases above the merchant's approval threshold
  Kinds,           \* action kinds the allocator may fund
  ContactKinds,    \* the kinds that contact the customer
  Planners,        \* processes that run plan_cycle
  Reviewers,       \* requests that run approvals.decide
  Limit,           \* limit_val of the contact budget of every day
  MaxDay,          \* bound: the last day
  MaxCrashes,      \* bound: crashes in one behaviour
  NoCase,          \* no case in hand
  NoKey            \* no action in hand

Days == 0 .. MaxDay

\* dispatcher.fingerprint: the obligation, the kind (with its channel) and the
\* DAY; amount and discount follow from the case and the kind.
Fingerprint == Cases \X Kinds \X Days
CaseOf(k) == k[1]
KindOf(k) == k[2]
DayOf(k) == k[3]

ASSUME RecoveryAssumption ==
  /\ IsFiniteSet(Cases) /\ IsFiniteSet(Kinds)
  /\ Holdout \subseteq Cases /\ NeedsApproval \subseteq Cases
  /\ ContactKinds \subseteq Kinds
  /\ Planners \cap Reviewers = {}
  /\ Limit \in Nat /\ MaxDay \in Nat /\ MaxCrashes \in Nat
  /\ NoCase \notin Cases /\ NoKey \notin Fingerprint

VARIABLES
  state,       \* state[c]: recovery_case.state
  stopReason,  \* stopReason[c]: recovery_case.stop_reason
  proposal,    \* proposal[c]: the action of the latest escalating decision
  consumed,    \* consumed[d]: consumed_val of the contact ledger of day d
  day,         \* today
  phase,       \* phase[p]: where planner p is in plan_cycle
  asOf,        \* asOf[p]: the day p plans for
  todo,        \* todo[p]: cases loaded, then funded cases still to act on
  plan,        \* plan[p]: the allocation, a set of <<case, kind>>
  spent,       \* spent[p]: contacts_spent of the PlanResult
  handling,    \* handling[r]: the case reviewer r has loaded
  pc, task, outcome, lock, action, effects, announced, crashes

dispatchVars == <<pc, task, outcome, lock, action, effects, announced, crashes>>
caseVars == <<state, stopReason, proposal>>
planVars == <<phase, asOf, todo, plan, spent>>
vars == <<caseVars, consumed, day, planVars, handling, dispatchVars>>

D == INSTANCE Dispatch WITH Procs <- Planners \cup Reviewers, Keys <- Fingerprint

NoReason == "none"
Reasons == {"rule", "human_rejected"}

Init ==
  /\ state = [c \in Cases |-> "open"]
  /\ stopReason = [c \in Cases |-> NoReason]
  /\ proposal = [c \in Cases |-> NoKey]
  /\ consumed = [d \in Days |-> 0]
  /\ day = 0
  /\ phase = [p \in Planners |-> "idle"]
  /\ asOf = [p \in Planners |-> 0]
  /\ todo = [p \in Planners |-> {}]
  /\ plan = [p \in Planners |-> {}]
  /\ spent = [p \in Planners |-> 0]
  /\ handling = [r \in Reviewers |-> NoCase]
  /\ D!Init

-----------------------------------------------------------------------------
(* The case rows *)

\* Mutant: the CHECK constraint is gone.
AlwaysPermitted(c) == c \in Cases

\* UPDATE recovery_case SET state = s WHERE id = c: no guard on the old state.
\* The CHECK stop_reason_iff_stopped refuses it for a case with a stop reason.
Permitted(c) == stopReason[c] = NoReason
SetState(c, s) == state' = [state EXCEPT ![c] = s] /\ UNCHANGED stopReason

\* OpportunityService._resolve: a payment.captured was ingested.
Capture(c) ==
  /\ state[c] \in Live
  /\ SetState(c, "recovered")
  /\ UNCHANGED <<proposal, consumed, day, planVars, handling, dispatchVars>>

NextDay ==
  /\ day < MaxDay
  /\ day' = day + 1
  /\ UNCHANGED <<caseVars, consumed, planVars, handling, dispatchVars>>

-----------------------------------------------------------------------------
(* plan_cycle *)

\* Mutant: the state filter of OPEN_CASE_SQL is lost.
EveryCase == Cases

\* OPEN_CASE_SQL
Plannable == {c \in Cases : state[c] \in {"open", "planning"}}
Remaining(d) == IF consumed[d] < Limit THEN Limit - consumed[d] ELSE 0
Contacts(kind) == IF kind \in ContactKinds THEN 1 ELSE 0
Funded(alloc) == {a[1] : a \in alloc}

\* What the allocator may return: at most one action per case, contacts within
\* what the ledger had left.
Allocations(cs, d) ==
  {alloc \in SUBSET (cs \X Kinds) :
     /\ Cardinality(Funded(alloc)) = Cardinality(alloc)
     /\ Cardinality({a \in alloc : a[2] \in ContactKinds}) <= Remaining(d)}

\* The cycle ends; whatever it had not committed is gone.
EndCycle(p) ==
  /\ phase' = [phase EXCEPT ![p] = "idle"]
  /\ asOf' = [asOf EXCEPT ![p] = 0]
  /\ todo' = [todo EXCEPT ![p] = {}]
  /\ plan' = [plan EXCEPT ![p] = {}]
  /\ spent' = [spent EXCEPT ![p] = 0]

\* First transaction: load the open cases.  With none, the run just closes.
StartCycle(p) ==
  /\ phase[p] = "idle"
  /\ \/ /\ Plannable # {}
        /\ phase' = [phase EXCEPT ![p] = "stopping"]
        /\ asOf' = [asOf EXCEPT ![p] = day]
        /\ todo' = [todo EXCEPT ![p] = Plannable]
        /\ UNCHANGED <<plan, spent>>
     \/ Plannable = {} /\ UNCHANGED planVars
  /\ UNCHANGED <<caseVars, consumed, day, handling, dispatchVars>>

\* Second transaction: read the budget, stop what the rules stop.  The
\* allocation that follows is computed from that read.  An unfunded survivor
\* only gets a decision row and stays open (_record_suppression).
ApplyStops(p) ==
  /\ phase[p] = "stopping"
  /\ \E stops \in SUBSET todo[p] :
       /\ state' = [c \in Cases |-> IF c \in stops THEN "stopped" ELSE state[c]]
       /\ stopReason' =
            [c \in Cases |-> IF c \in stops THEN "rule" ELSE stopReason[c]]
       /\ \E alloc \in Allocations(todo[p] \ stops, asOf[p]) :
            /\ plan' = [plan EXCEPT ![p] = alloc]
            /\ todo' = [todo EXCEPT ![p] = Funded(alloc)]
  /\ phase' = [phase EXCEPT ![p] = "acting"]
  /\ UNCHANGED <<proposal, consumed, day, asOf, spent, handling, dispatchVars>>

\* p may take up its next case c.
Acting(p, c) == phase[p] = "acting" /\ pc[p] = "idle" /\ c \in todo[p]
KindFor(p, c) == CHOOSE kind \in Kinds : <<c, kind>> \in plan[p]
KeyFor(p, c) == <<c, KindFor(p, c), asOf[p]>>

\* An UPDATE the CHECK refuses raises out of plan_cycle.
UpdateOrDie(p, c, s) ==
  \/ /\ Permitted(c)
     /\ SetState(c, s)
     /\ todo' = [todo EXCEPT ![p] = @ \ {c}]
     /\ UNCHANGED <<phase, asOf, plan, spent>>
  \/ /\ ~Permitted(c)
     /\ UNCHANGED <<state, stopReason>>
     /\ EndCycle(p)

\* _act, holdout arm: planned in full, never acted on.
HoldOut(p, c) ==
  /\ Acting(p, c)
  /\ c \in Holdout
  /\ UpdateOrDie(p, c, "held_out")
  /\ UNCHANGED <<proposal, consumed, day, handling, dispatchVars>>

\* Mutant: the verdict is looked at before the arm.
EscalateFirst(p, c) ==
  /\ Acting(p, c)
  /\ c \in NeedsApproval \cup Holdout
  /\ UpdateOrDie(p, c, "escalated")
  /\ proposal' = IF Permitted(c) THEN [proposal EXCEPT ![c] = KeyFor(p, c)]
                                 ELSE proposal
  /\ UNCHANGED <<consumed, day, handling, dispatchVars>>

\* _act, verdict ESCALATE.
Escalate(p, c) ==
  /\ Acting(p, c)
  /\ c \in NeedsApproval \ Holdout
  /\ UpdateOrDie(p, c, "escalated")
  /\ proposal' = IF Permitted(c) THEN [proposal EXCEPT ![c] = KeyFor(p, c)]
                                 ELSE proposal
  /\ UNCHANGED <<consumed, day, handling, dispatchVars>>

\* _act, verdict ALLOW: hand the action to the dispatcher.
DispatchCase(p, c) ==
  /\ Acting(p, c)
  /\ c \notin Holdout \cup NeedsApproval
  /\ D!Call(p, KeyFor(p, c))
  /\ UNCHANGED <<caseVars, consumed, day, planVars, handling>>

\* Mutant: any outcome but an error parks the case, and a duplicate is charged.
FinishUnlessFailed(p) ==
  LET c == CaseOf(task[p]) IN
  /\ p \in Planners
  /\ D!Return(p)
  /\ todo' = [todo EXCEPT ![p] = @ \ {c}]
  /\ IF outcome[p] # "failed" /\ Permitted(c)
     THEN /\ SetState(c, "awaiting_outcome")
          /\ spent' = [spent EXCEPT ![p] = @ + Contacts(KindOf(task[p]))]
     ELSE UNCHANGED <<state, stopReason, spent>>
  /\ UNCHANGED <<phase, asOf, plan, proposal, consumed, day, handling>>

\* Mutant: a duplicate is tried again at once instead of being passed over.
FinishRetries(p) ==
  LET c == CaseOf(task[p]) IN
  /\ p \in Planners
  /\ D!Return(p)
  /\ IF outcome[p] = "dispatched" /\ Permitted(c)
     THEN SetState(c, "awaiting_outcome")
     ELSE UNCHANGED <<state, stopReason>>
  /\ todo' = IF outcome[p] = "duplicate" THEN todo
                                         ELSE [todo EXCEPT ![p] = @ \ {c}]
  /\ UNCHANGED <<phase, asOf, plan, spent, proposal, consumed, day, handling>>

\* The dispatcher returned.  A dispatched action moves the case, in a
\* transaction of its own, and is tallied; a duplicate or a failure is neither.
FinishCase(p) ==
  LET c == CaseOf(task[p]) IN
  /\ p \in Planners
  /\ D!Return(p)
  /\ \/ /\ outcome[p] = "dispatched"
        /\ Permitted(c)
        /\ SetState(c, "awaiting_outcome")
        /\ todo' = [todo EXCEPT ![p] = @ \ {c}]
        /\ spent' = [spent EXCEPT ![p] = @ + Contacts(KindOf(task[p]))]
        /\ UNCHANGED <<phase, asOf, plan>>
     \/ /\ outcome[p] = "dispatched"
        /\ ~Permitted(c)
        /\ EndCycle(p)
        /\ UNCHANGED <<state, stopReason>>
     \/ /\ outcome[p] \in {"duplicate", "failed"}
        /\ todo' = [todo EXCEPT ![p] = @ \ {c}]
        /\ UNCHANGED <<state, stopReason, phase, asOf, plan, spent>>
  /\ UNCHANGED <<proposal, consumed, day, handling>>

\* Last transaction: charge what was dispatched.  budget.spend refuses an
\* amount that would pass the limit, and BudgetExceeded ends the cycle.
SpendBudget(p) ==
  /\ phase[p] = "acting" /\ pc[p] = "idle" /\ todo[p] = {}
  /\ consumed' = [consumed EXCEPT ![asOf[p]] =
                    IF @ + spent[p] <= Limit THEN @ + spent[p] ELSE @]
  /\ EndCycle(p)
  /\ UNCHANGED <<caseVars, day, handling, dispatchVars>>

CrashPlanner(p) ==
  /\ phase[p] # "idle"
  /\ D!Crash(p)
  /\ EndCycle(p)
  /\ UNCHANGED <<caseVars, consumed, day, handling>>

-----------------------------------------------------------------------------
(* approvals.decide *)

Deciding(r) == handling[r] # NoCase /\ pc[r] = "idle"

\* _load: the case must be escalated now; the row is not locked.
LoadCase(r, c) ==
  /\ handling[r] = NoCase
  /\ state[c] = "escalated"
  /\ handling' = [handling EXCEPT ![r] = c]
  /\ UNCHANGED <<caseVars, consumed, day, planVars, dispatchVars>>

Reject(r) ==
  /\ Deciding(r)
  /\ state' = [state EXCEPT ![handling[r]] = "stopped"]
  /\ stopReason' = [stopReason EXCEPT ![handling[r]] = "human_rejected"]
  /\ handling' = [handling EXCEPT ![r] = NoCase]
  /\ UNCHANGED <<proposal, consumed, day, planVars, dispatchVars>>

\* Policy, re-evaluated now, blocks the action: ApprovalError, nothing changes.
Refuse(r) ==
  /\ Deciding(r)
  /\ handling' = [handling EXCEPT ![r] = NoCase]
  /\ UNCHANGED <<caseVars, consumed, day, planVars, dispatchVars>>

\* Mutant: approving clears the earlier attempt, so that it can be sent again.
ApproveAfresh(r) ==
  LET k == proposal[handling[r]] IN
  /\ Deciding(r)
  /\ pc' = [pc EXCEPT ![r] = "acquire"]
  /\ task' = [task EXCEPT ![r] = k]
  /\ outcome' = [outcome EXCEPT ![r] = "none"]
  /\ action' = [action EXCEPT ![k] = "absent"]
  /\ UNCHANGED <<lock, effects, announced, crashes>>
  /\ UNCHANGED <<caseVars, consumed, day, planVars, handling>>

\* Policy allows it: dispatch the escalated proposal, for the day it was
\* scheduled.
Approve(r) ==
  /\ Deciding(r)
  /\ D!Call(r, proposal[handling[r]])
  /\ UNCHANGED <<caseVars, consumed, day, planVars, handling>>

\* No budget is charged.  A CHECK violation fails the request after the effect.
FinishApproval(r) ==
  /\ r \in Reviewers
  /\ D!Return(r)
  /\ IF outcome[r] = "dispatched" /\ Permitted(handling[r])
     THEN SetState(handling[r], "awaiting_outcome")
     ELSE UNCHANGED <<state, stopReason>>
  /\ handling' = [handling EXCEPT ![r] = NoCase]
  /\ UNCHANGED <<proposal, consumed, day, planVars>>

CrashReviewer(r) ==
  /\ handling[r] # NoCase
  /\ D!Crash(r)
  /\ handling' = [handling EXCEPT ![r] = NoCase]
  /\ UNCHANGED <<caseVars, consumed, day, planVars>>

-----------------------------------------------------------------------------

\* A step inside the dispatcher, or a lock that expires.
InDispatch(p) ==
  /\ D!Step(p)
  /\ UNCHANGED <<caseVars, consumed, day, planVars, handling>>
LockExpires(k) ==
  /\ D!LockExpires(k)
  /\ UNCHANGED <<caseVars, consumed, day, planVars, handling>>

Plan(p) ==
  \/ StartCycle(p) \/ ApplyStops(p) \/ FinishCase(p) \/ SpendBudget(p)
  \/ \E c \in Cases : HoldOut(p, c) \/ Escalate(p, c) \/ DispatchCase(p, c)
Review(r) ==
  \/ Reject(r) \/ Refuse(r) \/ Approve(r) \/ FinishApproval(r)
  \/ \E c \in Cases : LoadCase(r, c)

Next ==
  \/ \E p \in Planners : Plan(p) \/ CrashPlanner(p)
  \/ \E r \in Reviewers : Review(r) \/ CrashReviewer(r)
  \/ \E p \in Planners \cup Reviewers : InDispatch(p)
  \/ \E k \in Fingerprint : LockExpires(k)
  \/ \E c \in Cases : Capture(c)
  \/ NextDay

Spec == Init /\ [][Next]_vars

\* A live process goes on: plan_cycle is a loop over a list with bounded waits.
FairSpec ==
  /\ Spec
  /\ \A p \in Planners : WF_vars(Plan(p)) /\ WF_vars(InDispatch(p))
-----------------------------------------------------------------------------
(* Properties *)

TypeOK ==
  /\ state \in [Cases -> CaseState]
  /\ stopReason \in [Cases -> Reasons \cup {NoReason}]
  /\ proposal \in [Cases -> Fingerprint \cup {NoKey}]
  /\ consumed \in [Days -> Nat]
  /\ day \in Days
  /\ phase \in [Planners -> {"idle", "stopping", "acting"}]
  /\ asOf \in [Planners -> Days]
  /\ todo \in [Planners -> SUBSET Cases]
  /\ plan \in [Planners -> SUBSET (Cases \X Kinds)]
  /\ spent \in [Planners -> Nat]
  /\ handling \in [Reviewers -> Cases \cup {NoCase}]
  /\ D!TypeOK

ActedOn(c) == \E k \in Fingerprint : CaseOf(k) = c /\ action[k] # "absent"
Dispatched(c) == \E k \in Fingerprint : CaseOf(k) = c /\ action[k] = "dispatched"
Affected(c) == \E k \in Fingerprint : CaseOf(k) = c /\ effects[k] > 0

\* Holdouts are never treated, by no planner, no approval and no crash, so they
\* remain a valid denominator (README.md; pipeline.py _act, holdout branch).
HoldoutNeverTreated == \A c \in Holdout : ~ActedOn(c)

\* A case waits for an outcome only if some action of it was dispatched: a
\* failed, duplicate or lost dispatch never parks a case nothing was done for.
AwaitingWasDispatched ==
  \A c \in Cases : state[c] = "awaiting_outcome" => Dispatched(c)

ContactsOn(d) ==
  {k \in Fingerprint :
     /\ DayOf(k) = d /\ KindOf(k) \in ContactKinds /\ action[k] = "dispatched"}

\* The ledger never passes the limit, even with two cycles charging at once
\* (allocator/budget.py:12-15).
LedgerWithinLimit == \A d \in Days : consumed[d] <= Limit

\* The ledger never charges for a contact that was not dispatched: duplicates
\* and failures are free (pipeline.py:287-290).
LedgerBacked == \A d \in Days : consumed[d] <= Cardinality(ContactsOn(d))

\* With one planner and no crash the ledger is exact between cycles: it charges
\* every contact the planner dispatched, on its day, and nothing else.
LedgerExact ==
  crashes = 0 /\ (\A p \in Planners : phase[p] = "idle")
    => \A d \in Days :
         consumed[d] = Cardinality({k \in ContactsOn(d) : CaseOf(k) \notin NeedsApproval})

\* "Exceeding it is a breach": no day sees more contacts than were authorised
\* (allocator/budget.py:3-6).
ContactsWithinBudget == \A d \in Days : Cardinality(ContactsOn(d)) <= Limit

\* "case stopped; no action sent" (approvals.py:161-162).
RejectedNothingSent ==
  \A c \in Cases : stopReason[c] = "human_rejected" => ~Affected(c)

\* "A terminal state has no outgoing edges" (domain/fsm.py:28): a closed case is
\* never live again.
ClosedStaysClosed ==
  [][\A c \in Cases : state[c] \in Terminal => state'[c] \in Terminal]_vars

\* "A case that has been stopped must not silently resume" (domain/fsm.py:5):
\* no write decided before the stop, by a cycle or an approval, undoes it.
StoppedNeverResumes ==
  [][\A c \in Cases : state[c] = "stopped" => state'[c] = "stopped"]_vars

\* "No illegal transition" (domain/fsm.py:5), for one source state: every write
\* to a case in state s follows an edge of _CASE_TRANSITIONS.
LegalFrom(c, s) ==
  state[c] = s /\ state'[c] # s => CanTransition(s, state'[c])

\* The edges taken while nobody is asked and nothing is over.
LegalWhileWorked ==
  [][\A c \in Cases, s \in {"open", "held_out", "awaiting_outcome"} :
       LegalFrom(c, s)]_vars

\* The edges out of a reviewer's queue: "they may approve it (-> ACTING),
\* decline it (-> STOPPED)" (domain/fsm.py:52-53).
LegalFromEscalated == [][\A c \in Cases : LegalFrom(c, "escalated")]_vars

\* Every planning cycle ends, whatever the vendor, Redis and the other
\* processes do.
CyclesEnd == \A p \in Planners : (phase[p] # "idle") ~> (phase[p] = "idle")

\* The cases only ever use the dispatcher the way its specification allows, so
\* what is proved of Dispatch holds here.
DispatchSpec == D!Spec
=============================================================================
