--------------------------- MODULE RecoveryProofs ---------------------------
(***************************************************************************)
(* For any cases, planners, reviewers, days and crashes: the planning      *)
(* cycles and the approvals use the dispatcher the way Dispatch specifies, *)
(* so everything proved of Dispatch holds of them; a held-out case has no  *)
(* action; a stopped case stays stopped; a case waits for an outcome only  *)
(* when an action of it was dispatched; the contact ledger of a day never  *)
(* charges for more contacts than were dispatched for it, and never passes *)
(* its limit; and with one planner at a time, every move of a case that is *)
(* being worked is an edge the state machine declares.                     *)
(***************************************************************************)
EXTENDS Recovery, FiniteSetTheorems, TLAPS

Procs == Planners \cup Reviewers
Proved == INSTANCE DispatchProofs WITH Keys <- Fingerprint

Shaped ==
  /\ state \in [Cases -> CaseState]
  /\ stopReason \in [Cases -> Reasons \cup {NoReason}]
  /\ proposal \in [Cases -> Fingerprint \cup {NoKey}]
  /\ day \in Days
  /\ phase \in [Planners -> {"idle", "stopping", "acting"}]
  /\ asOf \in [Planners -> Days]
  /\ todo \in [Planners -> SUBSET Cases]
  /\ plan \in [Planners -> SUBSET (Cases \X Kinds)]
  /\ handling \in [Reviewers -> Cases \cup {NoCase}]

\* The proposal of an escalated case: an action of that case, not held out.
Proposed(c) ==
  proposal[c] \in Fingerprint /\ CaseOf(proposal[c]) = c /\ c \notin Holdout

\* Whoever acts has something to act on.
Grounded ==
  /\ \A p \in Planners : phase[p] = "acting" => todo[p] \subseteq Funded(plan[p])
  /\ \A c \in Cases : state[c] = "escalated" => Proposed(c)
  /\ \A r \in Reviewers : handling[r] # NoCase => Proposed(handling[r])

\* The CHECK stop_reason_iff_stopped, in the direction that protects a stop.
Halted == \A c \in Cases : state[c] = "stopped" => stopReason[c] # NoReason

CaseInv == Shaped /\ Grounded /\ Halted

-----------------------------------------------------------------------------
(* The cases *)

LEMMA KeyForIsKey ==
  ASSUME Shaped, Grounded, NEW p \in Planners, NEW c \in Cases, Acting(p, c)
  PROVE  KeyFor(p, c) \in Fingerprint /\ CaseOf(KeyFor(p, c)) = c
<1>1. PICK a \in plan[p] : a[1] = c
  BY DEF Grounded, Acting, Funded
<1>2. a \in Cases \X Kinds /\ a = <<a[1], a[2]>>
  BY DEF Shaped
<1>3. \E kind \in Kinds : <<c, kind>> \in plan[p]
  BY <1>1, <1>2
<1>4. KindFor(p, c) \in Kinds
  BY <1>3 DEF KindFor
<1> QED
  BY <1>4 DEF KeyFor, Fingerprint, CaseOf, Shaped

\* A write of a state no case stops or escalates in.
LEMMA SetStateKeeps ==
  ASSUME CaseInv, NEW c, NEW s \in {"held_out", "awaiting_outcome", "recovered"},
         SetState(c, s), UNCHANGED <<proposal>>
  PROVE  /\ state' \in [Cases -> CaseState] /\ stopReason' = stopReason
         /\ \A d \in Cases : state'[d] = "escalated" => state[d] = "escalated"
         /\ Halted'
BY DEF CaseInv, Shaped, Halted, SetState, CaseState

LEMMA EndCycleKeeps ==
  ASSUME CaseInv, NEW p \in Planners, EndCycle(p)
  PROVE  /\ phase' \in [Planners -> {"idle", "stopping", "acting"}]
         /\ asOf' \in [Planners -> Days]
         /\ todo' \in [Planners -> SUBSET Cases]
         /\ plan' \in [Planners -> SUBSET (Cases \X Kinds)]
         /\ \A q \in Planners : phase'[q] = "acting" => todo'[q] \subseteq Funded(plan'[q])
<1>1. 0 \in Days
  BY RecoveryAssumption DEF Days
<1>2. /\ phase' = [phase EXCEPT ![p] = "idle"] /\ asOf' = [asOf EXCEPT ![p] = 0]
      /\ todo' = [todo EXCEPT ![p] = {}] /\ plan' = [plan EXCEPT ![p] = {}]
  BY DEF EndCycle
<1>3. \A q \in Planners \ {p} :
        phase'[q] = phase[q] /\ todo'[q] = todo[q] /\ plan'[q] = plan[q]
  BY <1>2 DEF CaseInv, Shaped
<1>4. todo'[p] = {}
  BY <1>2 DEF CaseInv, Shaped
<1>5. \A q \in Planners : phase'[q] = "acting" => todo'[q] \subseteq Funded(plan'[q])
  BY <1>3, <1>4 DEF CaseInv, Grounded
<1> QED
  BY <1>1, <1>2, <1>5 DEF CaseInv, Shaped

\* A planner goes on to its next case.
LEMMA TodoKeeps ==
  ASSUME CaseInv, NEW p \in Planners, NEW c,
         todo' = [todo EXCEPT ![p] = @ \ {c}], UNCHANGED <<phase, asOf, plan>>
  PROVE  /\ phase' \in [Planners -> {"idle", "stopping", "acting"}]
         /\ asOf' \in [Planners -> Days]
         /\ todo' \in [Planners -> SUBSET Cases]
         /\ plan' \in [Planners -> SUBSET (Cases \X Kinds)]
         /\ \A q \in Planners : phase'[q] = "acting" => todo'[q] \subseteq Funded(plan'[q])
<1>1. todo' \in [Planners -> SUBSET Cases]
  BY DEF CaseInv, Shaped
<1>2. \A q \in Planners : todo'[q] \subseteq todo[q]
  BY DEF CaseInv, Shaped
<1> QED
  BY <1>1, <1>2 DEF CaseInv, Shaped, Grounded

LEMMA StartCycleKeeps ==
  ASSUME CaseInv, NEW p \in Planners, StartCycle(p)
  PROVE  CaseInv'
<1>1. UNCHANGED <<state, stopReason, proposal, day, handling>>
  BY DEF StartCycle, caseVars
<1>2. CASE UNCHANGED planVars
  BY <1>1, <1>2 DEF planVars, CaseInv, Shaped, Grounded, Halted, Proposed
<1>3. CASE /\ phase' = [phase EXCEPT ![p] = "stopping"]
           /\ asOf' = [asOf EXCEPT ![p] = day]
           /\ todo' = [todo EXCEPT ![p] = Plannable]
           /\ UNCHANGED plan
  <2>1. Plannable \subseteq Cases
    BY DEF Plannable
  <2>2. Shaped'
    BY <1>1, <1>3, <2>1 DEF CaseInv, Shaped
  <2>3. \A q \in Planners : phase'[q] = "acting" => phase[q] = "acting" /\ todo'[q] = todo[q]
    BY <1>3 DEF CaseInv, Shaped
  <2>4. Grounded' /\ Halted'
    BY <1>1, <1>3, <2>3 DEF CaseInv, Grounded, Halted, Proposed
  <2> QED
    BY <2>2, <2>4 DEF CaseInv
<1> QED
  BY <1>2, <1>3 DEF StartCycle

LEMMA ApplyStopsKeeps ==
  ASSUME CaseInv, NEW p \in Planners, ApplyStops(p)
  PROVE  CaseInv'
<1> DEFINE Chosen(stops, alloc) ==
      /\ state' = [c \in Cases |-> IF c \in stops THEN "stopped" ELSE state[c]]
      /\ stopReason' = [c \in Cases |-> IF c \in stops THEN "rule" ELSE stopReason[c]]
      /\ plan' = [plan EXCEPT ![p] = alloc]
      /\ todo' = [todo EXCEPT ![p] = Funded(alloc)]
<1>1. PICK stops \in SUBSET todo[p] :
        \E alloc \in Allocations(todo[p] \ stops, asOf[p]) : Chosen(stops, alloc)
  BY DEF ApplyStops
<1>2. PICK alloc \in Allocations(todo[p] \ stops, asOf[p]) : Chosen(stops, alloc)
  BY <1>1
<1>3. /\ phase' = [phase EXCEPT ![p] = "acting"]
      /\ UNCHANGED <<proposal, day, asOf, handling>>
  BY DEF ApplyStops
<1>4. alloc \in SUBSET (Cases \X Kinds) /\ Funded(alloc) \in SUBSET Cases
  <2>1. alloc \in SUBSET ((todo[p] \ stops) \X Kinds) /\ todo[p] \subseteq Cases
    BY <1>2 DEF Allocations, CaseInv, Shaped
  <2> QED
    BY <2>1 DEF Funded
<1>5. Shaped'
  BY <1>2, <1>3, <1>4 DEF CaseInv, Shaped, CaseState, Reasons
<1>6. \A q \in Planners : phase'[q] = "acting" => todo'[q] \subseteq Funded(plan'[q])
  <2>1. todo'[p] = Funded(alloc) /\ plan'[p] = alloc
    BY <1>2 DEF CaseInv, Shaped
  <2>2. \A q \in Planners \ {p} :
          phase'[q] = phase[q] /\ todo'[q] = todo[q] /\ plan'[q] = plan[q]
    BY <1>2, <1>3 DEF CaseInv, Shaped
  <2> QED
    BY <2>1, <2>2 DEF CaseInv, Grounded
<1>7. \A c \in Cases : state'[c] = "escalated" => state[c] = "escalated"
  BY <1>2
<1>8. Grounded'
  BY <1>3, <1>6, <1>7 DEF CaseInv, Grounded, Proposed
<1>9. Halted'
  BY <1>2 DEF CaseInv, Halted, NoReason
<1> QED
  BY <1>5, <1>8, <1>9 DEF CaseInv

LEMMA ActKeeps ==
  ASSUME CaseInv, NEW p \in Planners, NEW c \in Cases,
         HoldOut(p, c) \/ Escalate(p, c) \/ DispatchCase(p, c)
  PROVE  CaseInv'
<1>1. UNCHANGED <<day, handling>>
  BY DEF HoldOut, Escalate, DispatchCase
<1>2. CASE DispatchCase(p, c)
  BY <1>2 DEF DispatchCase, caseVars, planVars, CaseInv, Shaped, Grounded, Halted, Proposed
<1>3. ASSUME NEW s, UpdateOrDie(p, c, s)
      PROVE  /\ phase' \in [Planners -> {"idle", "stopping", "acting"}]
             /\ asOf' \in [Planners -> Days]
             /\ todo' \in [Planners -> SUBSET Cases]
             /\ plan' \in [Planners -> SUBSET (Cases \X Kinds)]
             /\ \A q \in Planners : phase'[q] = "acting" => todo'[q] \subseteq Funded(plan'[q])
  BY <1>3, EndCycleKeeps, TodoKeeps DEF UpdateOrDie
<1>4. CASE HoldOut(p, c)
  <2>1. UpdateOrDie(p, c, "held_out") /\ proposal' = proposal
    BY <1>4 DEF HoldOut
  <2>2. CASE SetState(c, "held_out")
    <3>1. /\ state' \in [Cases -> CaseState] /\ stopReason' = stopReason
          /\ \A d \in Cases : state'[d] = "escalated" => state[d] = "escalated"
          /\ Halted'
      BY <2>1, <2>2, SetStateKeeps
    <3> QED
      BY <1>1, <1>3, <2>1, <3>1 DEF CaseInv, Shaped, Grounded, Proposed
  <2>3. CASE UNCHANGED <<state, stopReason>>
    BY <1>1, <1>3, <2>1, <2>3 DEF CaseInv, Shaped, Grounded, Halted, Proposed
  <2> QED
    BY <2>1, <2>2, <2>3 DEF UpdateOrDie
<1>5. CASE Escalate(p, c)
  <2>1. /\ UpdateOrDie(p, c, "escalated") /\ Acting(p, c) /\ c \notin Holdout
        /\ proposal' = IF Permitted(c) THEN [proposal EXCEPT ![c] = KeyFor(p, c)]
                                       ELSE proposal
    BY <1>5 DEF Escalate
  <2>2. CASE Permitted(c)
    <3>1. SetState(c, "escalated") /\ proposal' = [proposal EXCEPT ![c] = KeyFor(p, c)]
      BY <2>1, <2>2 DEF UpdateOrDie
    <3>2. KeyFor(p, c) \in Fingerprint /\ CaseOf(KeyFor(p, c)) = c
      BY <2>1, KeyForIsKey DEF CaseInv
    <3>3. /\ state' = [state EXCEPT ![c] = "escalated"] /\ stopReason' = stopReason
      BY <3>1 DEF SetState
    <3>4. \A d \in Cases : d # c => proposal'[d] = proposal[d] /\ state'[d] = state[d]
      BY <3>1, <3>3 DEF CaseInv, Shaped
    <3>5. proposal'[c] = KeyFor(p, c)
      BY <3>1 DEF CaseInv, Shaped
    <3>6. Proposed(c)' /\ \A d \in Cases : Proposed(d) => Proposed(d)'
      BY <2>1, <3>2, <3>4, <3>5 DEF Proposed
    <3>7. Shaped'
      BY <1>1, <1>3, <2>1, <3>1, <3>2, <3>3 DEF CaseInv, Shaped, CaseState
    <3>8. Grounded'
      BY <1>1, <1>3, <2>1, <3>4, <3>6 DEF CaseInv, Shaped, Grounded
    <3>9. Halted'
      BY <3>3, <3>4 DEF CaseInv, Shaped, Halted
    <3> QED
      BY <3>7, <3>8, <3>9 DEF CaseInv
  <2>3. CASE ~Permitted(c)
    <3>1. UNCHANGED <<state, stopReason, proposal>>
      BY <2>1, <2>3 DEF UpdateOrDie
    <3> QED
      BY <1>1, <1>3, <2>1, <3>1 DEF CaseInv, Shaped, Grounded, Halted, Proposed
  <2> QED
    BY <2>2, <2>3
<1> QED
  BY <1>2, <1>4, <1>5

LEMMA FinishCaseKeeps ==
  ASSUME CaseInv, NEW p \in Planners, FinishCase(p)
  PROVE  CaseInv'
<1> DEFINE c == CaseOf(task[p])
<1>1. UNCHANGED <<proposal, day, handling>>
  BY DEF FinishCase
<1>2. /\ phase' \in [Planners -> {"idle", "stopping", "acting"}]
      /\ asOf' \in [Planners -> Days]
      /\ todo' \in [Planners -> SUBSET Cases]
      /\ plan' \in [Planners -> SUBSET (Cases \X Kinds)]
      /\ \A q \in Planners : phase'[q] = "acting" => todo'[q] \subseteq Funded(plan'[q])
  <2>1. \/ todo' = [todo EXCEPT ![p] = @ \ {c}] /\ UNCHANGED <<phase, asOf, plan>>
        \/ EndCycle(p)
    BY DEF FinishCase
  <2> HIDE DEF c
  <2> QED
    BY <2>1, EndCycleKeeps, TodoKeeps
<1>3. CASE SetState(c, "awaiting_outcome")
  <2>1. /\ state' \in [Cases -> CaseState] /\ stopReason' = stopReason
        /\ \A d \in Cases : state'[d] = "escalated" => state[d] = "escalated"
        /\ Halted'
    BY <1>1, <1>3, SetStateKeeps
  <2> QED
    BY <1>1, <1>2, <2>1 DEF CaseInv, Shaped, Grounded, Proposed
<1>4. CASE UNCHANGED <<state, stopReason>>
  BY <1>1, <1>2, <1>4 DEF CaseInv, Shaped, Grounded, Halted, Proposed
<1> QED
  BY <1>3, <1>4 DEF FinishCase

\* A cycle that ends, by its charge or by a crash.
LEMMA CycleOverKeeps ==
  ASSUME CaseInv, NEW p \in Planners, SpendBudget(p) \/ CrashPlanner(p)
  PROVE  CaseInv'
<1>1. EndCycle(p) /\ UNCHANGED <<state, stopReason, proposal, day, handling>>
  BY DEF SpendBudget, CrashPlanner, caseVars
<1> QED
  BY <1>1, EndCycleKeeps DEF CaseInv, Shaped, Grounded, Halted, Proposed

LEMMA ReviewKeeps ==
  ASSUME CaseInv, NEW r \in Reviewers, Review(r) \/ CrashReviewer(r)
  PROVE  CaseInv'
<1>1. UNCHANGED <<proposal, day, phase, asOf, todo, plan>>
  BY DEF Review, Reject, Refuse, Approve, FinishApproval, LoadCase, CrashReviewer,
         caseVars, planVars
<1>2. ASSUME handling' = [handling EXCEPT ![r] = NoCase]
      PROVE  /\ handling' \in [Reviewers -> Cases \cup {NoCase}]
             /\ \A q \in Reviewers : handling'[q] # NoCase => handling'[q] = handling[q]
  BY <1>2 DEF CaseInv, Shaped
<1>3. CASE \E c \in Cases : LoadCase(r, c)
  <2>1. PICK c \in Cases :
          /\ state[c] = "escalated" /\ handling' = [handling EXCEPT ![r] = c]
          /\ UNCHANGED <<state, stopReason>>
    BY <1>3 DEF LoadCase, caseVars
  <2>2. /\ handling' \in [Reviewers -> Cases \cup {NoCase}]
        /\ \A q \in Reviewers : handling'[q] = handling[q] \/ handling'[q] = c
    BY <2>1 DEF CaseInv, Shaped
  <2> QED
    BY <1>1, <2>1, <2>2 DEF CaseInv, Shaped, Grounded, Halted, Proposed
<1>4. CASE Reject(r)
  <2>1. /\ handling[r] \in Cases
        /\ state' = [state EXCEPT ![handling[r]] = "stopped"]
        /\ stopReason' = [stopReason EXCEPT ![handling[r]] = "human_rejected"]
        /\ handling' = [handling EXCEPT ![r] = NoCase]
    BY <1>4 DEF Reject, Deciding, CaseInv, Shaped
  <2>2. Shaped'
    BY <1>1, <1>2, <2>1 DEF CaseInv, Shaped, CaseState, Reasons
  <2>3. \A c \in Cases : state'[c] = "escalated" => state[c] = "escalated"
    BY <2>1 DEF CaseInv, Shaped
  <2>4. Grounded'
    BY <1>1, <1>2, <2>1, <2>3 DEF CaseInv, Grounded, Proposed
  <2>5. Halted'
    BY <2>1 DEF CaseInv, Shaped, Halted, NoReason
  <2> QED
    BY <2>2, <2>4, <2>5 DEF CaseInv
<1>5. CASE Refuse(r) \/ CrashReviewer(r)
  <2>1. handling' = [handling EXCEPT ![r] = NoCase] /\ UNCHANGED <<state, stopReason>>
    BY <1>5 DEF Refuse, CrashReviewer, caseVars
  <2> QED
    BY <1>1, <1>2, <2>1 DEF CaseInv, Shaped, Grounded, Halted, Proposed
<1>6. CASE Approve(r)
  BY <1>6 DEF Approve, caseVars, planVars, CaseInv, Shaped, Grounded, Halted, Proposed
<1>7. CASE FinishApproval(r)
  <2>1. /\ handling' = [handling EXCEPT ![r] = NoCase]
        /\ SetState(handling[r], "awaiting_outcome") \/ UNCHANGED <<state, stopReason>>
    BY <1>7 DEF FinishApproval
  <2>2. /\ state' \in [Cases -> CaseState] /\ stopReason' = stopReason
        /\ \A d \in Cases : state'[d] = "escalated" => state[d] = "escalated"
        /\ Halted'
    BY <1>1, <2>1, SetStateKeeps DEF CaseInv, Shaped, Halted
  <2> QED
    BY <1>1, <1>2, <2>1, <2>2 DEF CaseInv, Shaped, Grounded, Proposed
<1> QED
  BY <1>3, <1>4, <1>5, <1>6, <1>7 DEF Review

LEMMA CaseInitially == Init => CaseInv
<1>1. 0 \in Days
  BY RecoveryAssumption DEF Days
<1> QED
  BY <1>1 DEF Init, CaseInv, Shaped, Grounded, Halted, CaseState, Reasons, NoReason

LEMMA CaseInductive == CaseInv /\ [Next]_vars => CaseInv'
<1> SUFFICES ASSUME CaseInv, [Next]_vars PROVE CaseInv'
  OBVIOUS
<1>1. ASSUME NEW p \in Planners, Plan(p) \/ CrashPlanner(p) PROVE CaseInv'
  BY <1>1, StartCycleKeeps, ApplyStopsKeeps, FinishCaseKeeps, CycleOverKeeps, ActKeeps
  DEF Plan
<1>2. ASSUME NEW r \in Reviewers, Review(r) \/ CrashReviewer(r) PROVE CaseInv'
  BY <1>2, ReviewKeeps
<1>3. CASE \/ \E p \in Planners \cup Reviewers : InDispatch(p)
           \/ \E k \in Fingerprint : LockExpires(k)
           \/ UNCHANGED vars
  <2>1. UNCHANGED <<caseVars, day, planVars, handling>>
    BY <1>3 DEF InDispatch, LockExpires, vars
  <2> QED
    BY <2>1 DEF caseVars, planVars, CaseInv, Shaped, Grounded, Halted, Proposed
<1>4. ASSUME NEW c \in Cases, Capture(c) PROVE CaseInv'
  <2>1. SetState(c, "recovered") /\ UNCHANGED <<proposal, day, planVars, handling>>
    BY <1>4 DEF Capture
  <2>2. /\ state' \in [Cases -> CaseState] /\ stopReason' = stopReason
        /\ \A d \in Cases : state'[d] = "escalated" => state[d] = "escalated"
        /\ Halted'
    BY <2>1, SetStateKeeps
  <2> QED
    BY <2>1, <2>2 DEF planVars, CaseInv, Shaped, Grounded, Proposed
<1>5. CASE NextDay
  <2>1. day' = day + 1 /\ day < MaxDay /\ UNCHANGED <<caseVars, planVars, handling>>
    BY <1>5 DEF NextDay
  <2>2. day' \in Days
    BY <2>1, RecoveryAssumption DEF CaseInv, Shaped, Days
  <2> QED
    BY <2>1, <2>2 DEF caseVars, planVars, CaseInv, Shaped, Grounded, Halted, Proposed
<1> QED
  BY <1>1, <1>2, <1>3, <1>4, <1>5 DEF Next

LEMMA CaseInvariance == Spec => []CaseInv
BY CaseInitially, CaseInductive, PTL DEF Spec

-----------------------------------------------------------------------------
(* A stop is final *)

\* Only the guarded UPDATE, a capture, a stop and a rejection write a case's
\* state, and none of them moves a stopped case.
LEMMA WriteSparesStopped ==
  ASSUME CaseInv, NEW c, NEW s, Permitted(c), SetState(c, s)
  PROVE  \A d \in Cases : state[d] = "stopped" => state'[d] = "stopped"
BY DEF CaseInv, Shaped, Halted, Permitted, SetState

\* "A case that has been stopped must not silently resume" (domain/fsm.py:5), for
\* any overlapping cycles, approvals and captures.
THEOREM StopsAreFinal == Spec => StoppedNeverResumes
<1> DEFINE Final == \A c \in Cases : state[c] = "stopped" => state'[c] = "stopped"
<1>1. CaseInv /\ [Next]_vars => [Final]_vars
  <2> SUFFICES ASSUME CaseInv, Next PROVE Final
    OBVIOUS
  <2>1. CASE UNCHANGED state
    BY <2>1
  <2>2. CASE \E c, s : Permitted(c) /\ SetState(c, s)
    BY <2>2, WriteSparesStopped
  <2> HIDE DEF Final
  <2>3. ASSUME NEW p \in Planners, Plan(p) \/ CrashPlanner(p) PROVE Final
    <3>1. CASE ApplyStops(p)
      BY <3>1 DEF ApplyStops, Final
    <3>2. CASE \E c \in Cases : HoldOut(p, c) \/ Escalate(p, c)
      BY <3>2, <2>1, <2>2 DEF HoldOut, Escalate, UpdateOrDie
    <3>3. CASE FinishCase(p)
      BY <3>3, <2>1, <2>2 DEF FinishCase
    <3> QED
      BY <2>3, <3>1, <3>2, <3>3, <2>1
      DEF Plan, StartCycle, SpendBudget, CrashPlanner, DispatchCase, caseVars
  <2>4. ASSUME NEW r \in Reviewers, Review(r) \/ CrashReviewer(r) PROVE Final
    <3>1. CASE Reject(r)
      BY <3>1 DEF Reject, Final, CaseInv, Shaped
    <3>2. CASE FinishApproval(r)
      BY <3>2, <2>1, <2>2 DEF FinishApproval
    <3> QED
      BY <2>4, <3>1, <3>2, <2>1
      DEF Review, Refuse, Approve, LoadCase, CrashReviewer, caseVars
  <2>5. ASSUME NEW c \in Cases, Capture(c) PROVE Final
    BY <2>5 DEF Capture, SetState, Live, Terminal, Final, CaseInv, Shaped
  <2> QED
    BY <2>3, <2>4, <2>5, <2>1 DEF Next, InDispatch, LockExpires, NextDay, caseVars
<1>2. Spec => [][Final]_vars
  BY <1>1, CaseInvariance, PTL DEF Spec
<1> QED
  BY <1>2 DEF StoppedNeverResumes

-----------------------------------------------------------------------------
(* The dispatcher is used as its specification says *)

LEMMA UsesDispatcher ==
  CaseInv /\ [Next]_vars => [D!Next]_(D!vars)
<1> SUFFICES ASSUME CaseInv, [Next]_vars PROVE [D!Next]_(D!vars)
  OBVIOUS
<1>1. CASE UNCHANGED dispatchVars
  BY <1>1 DEF dispatchVars, D!vars
<1>2. ASSUME NEW p \in Procs,
             D!Step(p) \/ D!Return(p) \/ D!Crash(p) \/ \E k \in Fingerprint : D!Call(p, k)
      PROVE  D!Next
  BY <1>2 DEF D!Next, Procs
<1>3. ASSUME NEW p \in Planners, Plan(p) \/ CrashPlanner(p)
      PROVE  [D!Next]_(D!vars)
  <2>1. p \in Procs
    BY DEF Procs
  <2>2. ASSUME NEW c \in Cases, DispatchCase(p, c) PROVE D!Next
    BY <1>2, <2>1, <2>2, KeyForIsKey DEF DispatchCase, CaseInv
  <2>3. CASE FinishCase(p) \/ CrashPlanner(p)
    BY <1>2, <2>1, <2>3 DEF FinishCase, CrashPlanner
  <2> QED
    BY <1>1, <1>3, <2>2, <2>3 DEF Plan, StartCycle, ApplyStops, SpendBudget, HoldOut, Escalate
<1>4. ASSUME NEW r \in Reviewers, Review(r) \/ CrashReviewer(r)
      PROVE  [D!Next]_(D!vars)
  <2>1. r \in Procs
    BY DEF Procs
  <2>2. CASE Approve(r)
    <3>1. proposal[handling[r]] \in Fingerprint
      BY <2>2 DEF Approve, Deciding, CaseInv, Grounded, Proposed
    <3> QED
      BY <1>2, <2>1, <2>2, <3>1 DEF Approve
  <2>3. CASE FinishApproval(r) \/ CrashReviewer(r)
    BY <1>2, <2>1, <2>3 DEF FinishApproval, CrashReviewer
  <2> QED
    BY <1>1, <1>4, <2>2, <2>3 DEF Review, LoadCase, Reject, Refuse
<1>5. ASSUME NEW p \in Procs, InDispatch(p)
      PROVE  D!Next
  BY <1>2, <1>5 DEF InDispatch
<1>6. ASSUME NEW k \in Fingerprint, LockExpires(k)
      PROVE  D!Next
  BY <1>6 DEF LockExpires, D!Next
<1> QED
  BY <1>1, <1>3, <1>4, <1>5, <1>6 DEF Next, Capture, NextDay, vars, Procs

\* Planners and reviewers use the dispatcher only as Dispatch specifies.
THEOREM CasesUseDispatcher == Spec => DispatchSpec
<1>1. Init => D!Init
  BY DEF Init
<1> QED
  BY <1>1, CaseInvariance, UsesDispatcher, PTL DEF Spec, DispatchSpec, D!Spec

\* The module DispatchProofs speaks of the same dispatcher.
LEMMA SameDispatcher == DispatchSpec => Proved!Spec
<1>1. D!Init => Proved!Init
  BY DEF D!Init, Proved!Init, D!Absent, Proved!Absent, Procs
<1>2. D!Next => Proved!Next
  BY DEF Procs, D!Next, Proved!Next, D!Step, Proved!Step, D!Return, Proved!Return,
     D!Crash, Proved!Crash, D!Call, Proved!Call, D!LockExpires, Proved!LockExpires,
     D!Acquire, Proved!Acquire, D!AcquireUnlocked, Proved!AcquireUnlocked,
     D!RecordIntent, Proved!RecordIntent, D!Invoke, Proved!Invoke,
     D!Settle, Proved!Settle, D!Release, Proved!Release,
     D!Absent, Proved!Absent, D!Answers, Proved!Answers
<1>3. [D!Next]_(D!vars) => [Proved!Next]_(Proved!vars)
  BY <1>2 DEF D!vars, Proved!vars
<1> QED
  BY <1>1, <1>3, PTL DEF DispatchSpec, D!Spec, Proved!Spec

LEMMA Assumed == Proved!DispatchAssumption
BY RecoveryAssumption DEF Proved!DispatchAssumption

\* Whatever planners, re-run cycles and reviewers do, the vendor acts once on a
\* fingerprint (dispatcher.py:3-16).
THEOREM OneEffectPerFingerprint == Spec => []D!AtMostOneEffect
<1>1. Proved!AtMostOneEffect <=> D!AtMostOneEffect
  BY DEF Proved!AtMostOneEffect, D!AtMostOneEffect
<1>2. Proved!Spec => []Proved!AtMostOneEffect
  BY Proved!ExactlyOnceEffect, Assumed, PTL
<1> QED
  BY <1>1, <1>2, CasesUseDispatcher, SameDispatcher, PTL

-----------------------------------------------------------------------------
(* What is done to a case *)

\* What the dispatcher is given was decided for a case that may be treated.
Handed ==
  \A p \in Procs : pc[p] # "idle" => task[p] \in Fingerprint /\ CaseOf(task[p]) \notin Holdout

Untreated == \A k \in Fingerprint : CaseOf(k) \in Holdout => action[k] = "absent"

\* What a caller hears is on record.
Heard ==
  \A p \in Procs :
    outcome[p] = "dispatched" => task[p] \in Fingerprint /\ action[task[p]] = "dispatched"

\* A reviewer's dispatch is of the case the reviewer has loaded.
OwnCase == \A r \in Reviewers : pc[r] # "idle" => handling[r] = CaseOf(task[r])

Hands == Handed /\ Untreated /\ Heard /\ OwnCase
TreatInv == Hands /\ AwaitingWasDispatched

\* OutcomesFinal of DispatchProofs, for one step.
SettledKept == \A k \in Fingerprint : action[k] \in D!Settled => action'[k] = action[k]

LEMMA DispatchedStays ==
  ASSUME SettledKept, NEW c, Dispatched(c)
  PROVE  Dispatched(c)'
BY DEF SettledKept, Dispatched, D!Settled

LEMMA StepKeeps ==
  ASSUME Hands, D!TypeOK, SettledKept, NEW p \in Procs, D!Step(p)
  PROVE  /\ Handed' /\ Untreated' /\ Heard' /\ task' = task
         /\ \A q \in Procs : pc'[q] # "idle" => pc[q] # "idle"
<1>1. task' = task /\ pc[p] # "idle"
  BY DEF D!Step, D!Acquire, D!AcquireUnlocked, D!RecordIntent, D!Invoke, D!Settle, D!Release
<1>2. \A q \in Procs : q # p => pc'[q] = pc[q] /\ outcome'[q] = outcome[q]
  BY DEF D!Step, D!Acquire, D!AcquireUnlocked, D!RecordIntent, D!Invoke, D!Settle,
         D!Release, D!TypeOK, Procs
<1>3. task[p] \in Fingerprint /\ CaseOf(task[p]) \notin Holdout
  BY <1>1 DEF Hands, Handed
<1>4. \A k \in Fingerprint : k # task[p] => action'[k] = action[k]
  BY DEF D!Step, D!Acquire, D!AcquireUnlocked, D!RecordIntent, D!Invoke, D!Settle,
         D!Release, D!TypeOK
<1>5. outcome'[p] = "dispatched" => action'[task[p]] = "dispatched"
  <2>1. CASE D!Settle(p)
    BY <2>1, <1>3 DEF D!Settle, D!TypeOK, Procs
  <2>2. CASE D!Invoke(p)
    BY <2>2 DEF D!Invoke, D!TypeOK, D!Answers, Procs
  <2>3. CASE D!Acquire(p) \/ D!RecordIntent(p) \/ D!AcquireUnlocked(p) \/ D!Release(p)
    <3>1. outcome'[p] = outcome[p] \/ outcome'[p] = "duplicate"
      BY <2>3 DEF D!Acquire, D!RecordIntent, D!AcquireUnlocked, D!Release, D!TypeOK, Procs
    <3> QED
      BY <3>1, <1>3 DEF Hands, Heard, SettledKept, D!Settled
  <2> QED
    BY <2>1, <2>2, <2>3 DEF D!Step
<1>6. Handed' /\ \A q \in Procs : pc'[q] # "idle" => pc[q] # "idle"
  BY <1>1, <1>2 DEF Hands, Handed
<1>7. Untreated'
  BY <1>3, <1>4 DEF Hands, Untreated
<1>8. Heard'
  BY <1>1, <1>2, <1>3, <1>5 DEF Hands, Heard, SettledKept, D!Settled
<1> QED
  BY <1>1, <1>6, <1>7, <1>8

LEMMA CallKeeps ==
  ASSUME Hands, D!TypeOK, NEW p \in Procs, NEW k \in Fingerprint, CaseOf(k) \notin Holdout,
         D!Call(p, k), handling' = handling,
         p \in Reviewers => handling[p] = CaseOf(k)
  PROVE  Hands'
<1>1. /\ pc' = [pc EXCEPT ![p] = "acquire"] /\ task' = [task EXCEPT ![p] = k]
      /\ outcome' = [outcome EXCEPT ![p] = "none"] /\ action' = action
  BY DEF D!Call
<1>2. /\ task'[p] = k /\ outcome'[p] = "none"
      /\ \A q \in Procs : q # p =>
           pc'[q] = pc[q] /\ task'[q] = task[q] /\ outcome'[q] = outcome[q]
  BY <1>1 DEF D!TypeOK, Procs
<1>3. Handed' /\ Untreated' /\ Heard'
  BY <1>1, <1>2 DEF Hands, Handed, Untreated, Heard
<1>4. OwnCase'
  BY <1>2 DEF Hands, OwnCase, Procs
<1> QED
  BY <1>3, <1>4 DEF Hands

\* dispatch() returns, or its process dies.
LEMMA DoneKeeps ==
  ASSUME Hands, D!TypeOK, NEW p \in Procs, D!Return(p) \/ D!Crash(p),
         \A r \in Reviewers \ {p} : handling'[r] = handling[r]
  PROVE  Hands' /\ action' = action
<1>1. /\ pc' = [pc EXCEPT ![p] = "idle"] /\ task' = [task EXCEPT ![p] = NoKey]
      /\ outcome' = [outcome EXCEPT ![p] = "none"] /\ action' = action
  BY DEF D!Return, D!Crash
<1>2. /\ pc'[p] = "idle" /\ outcome'[p] = "none"
      /\ \A q \in Procs : q # p =>
           pc'[q] = pc[q] /\ task'[q] = task[q] /\ outcome'[q] = outcome[q]
  BY <1>1 DEF D!TypeOK, Procs
<1>3. Handed' /\ Untreated' /\ Heard'
  BY <1>1, <1>2 DEF Hands, Handed, Untreated, Heard
<1>4. OwnCase'
  BY <1>2 DEF Hands, OwnCase, Procs
<1> QED
  BY <1>1, <1>3, <1>4 DEF Hands

\* A reviewer who has loaded nothing, or is deciding, is not in the dispatcher.
LEMMA IdleReviewerKeeps ==
  ASSUME Hands, CaseInv, NEW r \in Reviewers, UNCHANGED dispatchVars,
         handling[r] = NoCase \/ pc[r] = "idle",
         \A q \in Reviewers \ {r} : handling'[q] = handling[q]
  PROVE  Hands'
<1>1. pc[r] = "idle"
  <2> SUFFICES ASSUME handling[r] = NoCase, pc[r] # "idle" PROVE FALSE
    OBVIOUS
  <2>1. task[r] \in Fingerprint /\ NoCase = CaseOf(task[r])
    BY DEF Hands, Handed, OwnCase, Procs
  <2> QED
    BY <2>1, RecoveryAssumption DEF Fingerprint, CaseOf
<1> QED
  BY <1>1 DEF dispatchVars, Hands, Handed, Untreated, Heard, OwnCase

LEMMA HandsStep ==
  ASSUME Hands, CaseInv, D!TypeOK, [Next]_vars, SettledKept
  PROVE  Hands'
<1>1. CASE UNCHANGED <<dispatchVars, handling>>
  BY <1>1 DEF dispatchVars, Hands, Handed, Untreated, Heard, OwnCase
<1>2. ASSUME NEW p \in Procs, InDispatch(p) PROVE Hands'
  <2>1. D!Step(p) /\ handling' = handling
    BY <1>2 DEF InDispatch
  <2>2. /\ Handed' /\ Untreated' /\ Heard' /\ task' = task
        /\ \A q \in Procs : pc'[q] # "idle" => pc[q] # "idle"
    BY <2>1, StepKeeps
  <2> QED
    BY <2>1, <2>2 DEF Hands, OwnCase, Procs
<1>3. ASSUME NEW k \in Fingerprint, LockExpires(k) PROVE Hands'
  BY <1>3 DEF LockExpires, D!LockExpires, Hands, Handed, Untreated, Heard, OwnCase
<1>4. ASSUME NEW p \in Planners, Plan(p) \/ CrashPlanner(p) PROVE Hands'
  <2>1. p \in Procs /\ p \notin Reviewers
    BY RecoveryAssumption DEF Procs
  <2>2. ASSUME NEW c \in Cases, DispatchCase(p, c) PROVE Hands'
    <3>1. /\ KeyFor(p, c) \in Fingerprint /\ CaseOf(KeyFor(p, c)) = c /\ c \notin Holdout
          /\ D!Call(p, KeyFor(p, c)) /\ handling' = handling
      BY <2>2, KeyForIsKey DEF DispatchCase, CaseInv
    <3> QED
      BY <2>1, <3>1, CallKeeps
  <2>3. CASE FinishCase(p) \/ CrashPlanner(p)
    <3>1. (D!Return(p) \/ D!Crash(p)) /\ handling' = handling
      BY <2>3 DEF FinishCase, CrashPlanner
    <3> QED
      BY <2>1, <3>1, DoneKeeps
  <2> QED
    BY <1>1, <1>4, <2>2, <2>3
    DEF Plan, StartCycle, ApplyStops, SpendBudget, HoldOut, Escalate
<1>5. ASSUME NEW r \in Reviewers, Review(r) \/ CrashReviewer(r) PROVE Hands'
  <2>1. r \in Procs /\ handling[r] \in Cases \cup {NoCase}
    BY DEF Procs, CaseInv, Shaped
  <2>2. CASE Approve(r)
    <3>1. /\ proposal[handling[r]] \in Fingerprint
          /\ CaseOf(proposal[handling[r]]) = handling[r] /\ handling[r] \notin Holdout
          /\ D!Call(r, proposal[handling[r]]) /\ handling' = handling
      BY <2>2 DEF Approve, Deciding, CaseInv, Grounded, Proposed
    <3> QED
      BY <2>1, <3>1, CallKeeps
  <2>3. CASE ~Approve(r)
    <3>1. \A q \in Reviewers \ {r} : handling'[q] = handling[q]
      BY <1>5, <2>3 DEF Review, LoadCase, Reject, Refuse, FinishApproval, CrashReviewer,
                        CaseInv, Shaped
    <3>2. CASE FinishApproval(r) \/ CrashReviewer(r)
      BY <2>1, <3>1, <3>2, DoneKeeps DEF FinishApproval, CrashReviewer
    <3>3. CASE Reject(r) \/ Refuse(r) \/ \E c \in Cases : LoadCase(r, c)
      <4>1. /\ UNCHANGED dispatchVars
            /\ handling[r] = NoCase \/ pc[r] = "idle"
        BY <3>3 DEF Reject, Refuse, LoadCase, Deciding
      <4> QED
        BY <3>1, <4>1, IdleReviewerKeeps
    <3> QED
      BY <1>5, <2>3, <3>2, <3>3 DEF Review
  <2> QED
    BY <2>2, <2>3
<1> QED
  BY <1>1, <1>2, <1>3, <1>4, <1>5 DEF Next, Procs, Capture, NextDay, vars

\* A case that begins to wait has an action on record already.
LEMMA NewlyAwaiting ==
  ASSUME Hands, CaseInv, [Next]_vars, NEW c \in Cases, state'[c] = "awaiting_outcome"
  PROVE  state[c] = "awaiting_outcome" \/ Dispatched(c)
<1>1. CASE UNCHANGED state
  BY <1>1
<1>2. ASSUME NEW d, NEW s, s # "awaiting_outcome", SetState(d, s)
      PROVE  state[c] = "awaiting_outcome"
  BY <1>2 DEF SetState, CaseInv, Shaped
<1>3. ASSUME NEW p \in Procs, outcome[p] = "dispatched",
             SetState(CaseOf(task[p]), "awaiting_outcome")
      PROVE  state[c] = "awaiting_outcome" \/ Dispatched(c)
  <2>1. task[p] \in Fingerprint /\ action[task[p]] = "dispatched"
    BY <1>3 DEF Hands, Heard
  <2>2. CaseOf(task[p]) = c \/ state'[c] = state[c]
    BY <1>3 DEF SetState, CaseInv, Shaped
  <2> QED
    BY <2>1, <2>2 DEF Dispatched
<1>4. ASSUME NEW p \in Planners, Plan(p) \/ CrashPlanner(p)
      PROVE  state[c] = "awaiting_outcome" \/ Dispatched(c)
  <2>1. p \in Procs
    BY DEF Procs
  <2>2. CASE ApplyStops(p)
    BY <2>2 DEF ApplyStops
  <2>3. ASSUME NEW d \in Cases, HoldOut(p, d) \/ Escalate(p, d)
        PROVE  state[c] = "awaiting_outcome"
    <3>1. UNCHANGED state \/ SetState(d, "held_out") \/ SetState(d, "escalated")
      BY <2>3 DEF HoldOut, Escalate, UpdateOrDie
    <3> QED
      BY <1>2, <3>1
  <2>4. CASE FinishCase(p)
    <3>1. \/ UNCHANGED state
          \/ outcome[p] = "dispatched" /\ SetState(CaseOf(task[p]), "awaiting_outcome")
      BY <2>4 DEF FinishCase
    <3> QED
      BY <1>3, <2>1, <3>1
  <2> QED
    BY <1>1, <1>4, <2>2, <2>3, <2>4
    DEF Plan, StartCycle, SpendBudget, CrashPlanner, DispatchCase, caseVars
<1>5. ASSUME NEW r \in Reviewers, Review(r) \/ CrashReviewer(r)
      PROVE  state[c] = "awaiting_outcome" \/ Dispatched(c)
  <2>1. r \in Procs
    BY DEF Procs
  <2>2. CASE Reject(r)
    BY <2>2 DEF Reject, CaseInv, Shaped
  <2>3. CASE FinishApproval(r)
    <3>1. pc[r] = "done"
      BY <2>3 DEF FinishApproval, D!Return
    <3>2. handling[r] = CaseOf(task[r])
      BY <3>1 DEF Hands, OwnCase
    <3>3. \/ UNCHANGED state
          \/ outcome[r] = "dispatched" /\ SetState(CaseOf(task[r]), "awaiting_outcome")
      BY <2>3, <3>2 DEF FinishApproval
    <3> QED
      BY <1>3, <2>1, <3>3
  <2> QED
    BY <1>1, <1>5, <2>2, <2>3
    DEF Review, LoadCase, Refuse, Approve, CrashReviewer, caseVars
<1>6. ASSUME NEW d \in Cases, Capture(d)
      PROVE  state[c] = "awaiting_outcome"
  BY <1>2, <1>6 DEF Capture
<1> QED
  BY <1>1, <1>4, <1>5, <1>6 DEF Next, InDispatch, LockExpires, NextDay, vars, caseVars

LEMMA TreatInitially == Init => TreatInv
BY DEF Init, D!Init, D!Absent, TreatInv, Hands, Handed, Untreated, Heard, OwnCase,
       AwaitingWasDispatched, Procs

LEMMA TreatInductive ==
  CaseInv /\ D!TypeOK /\ TreatInv /\ [Next]_vars /\ [SettledKept]_(D!vars) => TreatInv'
<1> SUFFICES ASSUME CaseInv, D!TypeOK, TreatInv, [Next]_vars, [SettledKept]_(D!vars)
             PROVE  TreatInv'
  OBVIOUS
<1>1. SettledKept
  BY DEF SettledKept, D!vars
<1>2. Hands'
  BY <1>1, HandsStep DEF TreatInv
<1>3. AwaitingWasDispatched'
  BY <1>1, NewlyAwaiting, DispatchedStays DEF TreatInv, AwaitingWasDispatched
<1> QED
  BY <1>2, <1>3 DEF TreatInv

\* What DispatchProofs has of the dispatcher holds under planners and reviewers.
LEMMA DispatcherInvariance == Spec => []D!TypeOK /\ [][SettledKept]_(D!vars)
<1>1. Proved!TypeOK => D!TypeOK
  BY DEF Proved!TypeOK, D!TypeOK, Procs, Proved!Steps, D!Steps, Proved!Outcomes, D!Outcomes,
         Proved!Answers, D!Answers, Proved!Statuses, D!Statuses, Proved!Absent, D!Absent,
         Proved!Settled, D!Settled
<1>2. Proved!Spec => []Proved!TypeOK
  BY Proved!TypeCorrect, Assumed, PTL
<1>3. Proved!Spec => Proved!SettledIsFinal
  BY Proved!OutcomesFinal, Assumed, PTL
<1>4. Proved!SettledIsFinal => [][SettledKept]_(D!vars)
  <2> DEFINE Kept == \A k \in Fingerprint :
                       action[k] \in Proved!Settled => action'[k] = action[k]
  <2>1. [Kept]_(Proved!vars) => [SettledKept]_(D!vars)
    BY DEF SettledKept, D!Settled, Proved!Settled, D!vars, Proved!vars
  <2>2. [][Kept]_(Proved!vars) => [][SettledKept]_(D!vars)
    BY <2>1, PTL
  <2> QED
    BY <2>2 DEF Proved!SettledIsFinal
<1> QED
  BY <1>1, <1>2, <1>3, <1>4, CasesUseDispatcher, SameDispatcher, PTL

LEMMA TreatInvariance == Spec => []TreatInv
BY TreatInitially, TreatInductive, CaseInvariance, DispatcherInvariance, PTL DEF Spec

\* Holdouts are never treated, by no planner, no approval and no crash
\* (pipeline.py _act, holdout branch).
THEOREM HoldoutsUntreated == Spec => []HoldoutNeverTreated
<1>1. TreatInv => HoldoutNeverTreated
  BY DEF TreatInv, Hands, Untreated, HoldoutNeverTreated, ActedOn
<1> QED
  BY <1>1, TreatInvariance, PTL

\* A case waits for an outcome only if some action of it was dispatched
\* (pipeline.py _act, approvals.py decide).
THEOREM WaitingHasCause == Spec => []AwaitingWasDispatched
<1>1. TreatInv => AwaitingWasDispatched
  BY DEF TreatInv
<1> QED
  BY <1>1, TreatInvariance, PTL

-----------------------------------------------------------------------------
(***************************************************************************)
(* The ledger                                                              *)
(*                                                                         *)
(* The ledger is a number, and what it stands for is spread over several   *)
(* transactions: a dispatched action is heard by its planner, tallied,     *)
(* and charged, or forgotten in between by a crash.  The argument is that  *)
(* each unit tallied or charged can be backed by a contact of its own.     *)
(***************************************************************************)

Contact(k) == KindOf(k) \in ContactKinds /\ action[k] = "dispatched"

Tallied == spent \in [Planners -> Nat] /\ consumed \in [Days -> Nat]

\* A planner that is not acting has nothing on its tally, and what it acts on is
\* of the day it plans for.
OnItsDay ==
  \A p \in Planners :
    /\ phase[p] # "acting" => spent[p] = 0 /\ pc[p] = "idle"
    /\ pc[p] # "idle" => DayOf(task[p]) = asOf[p]

\* One answer "dispatched" for one action.
HeardOnce ==
  \A p, q \in Procs :
    outcome[p] = "dispatched" /\ outcome[q] = "dispatched" /\ p # q => task[p] # task[q]

\* tally[p] backs what planner p has counted, charged what the ledger has.
Backing(tally, charged) ==
  /\ tally \in [Planners -> SUBSET Fingerprint] /\ charged \in SUBSET Fingerprint
  /\ \A k \in charged : Contact(k)
  /\ \A p \in Planners : \A k \in tally[p] :
       Contact(k) /\ DayOf(k) = asOf[p] /\ k \notin charged
  /\ \A p, q \in Planners : p # q => tally[p] \cap tally[q] = {}
  /\ \A p \in Planners : spent[p] = Cardinality(tally[p])
  /\ \A d \in Days : consumed[d] = Cardinality({k \in charged : DayOf(k) = d})
  /\ \A q \in Procs : outcome[q] = "dispatched" =>
       task[q] \notin charged /\ \A p \in Planners : task[q] \notin tally[p]

LedgerInv ==
  Tallied /\ OnItsDay /\ HeardOnce /\ \E tally, charged : Backing(tally, charged)

LEMMA FingerprintsFinite == IsFiniteSet(Fingerprint)
<1> DEFINE Pairs == (Cases \X Kinds) \X Days
           key == [x \in Pairs |-> <<x[1][1], x[1][2], x[2]>>]
<1>1. IsFiniteSet(Days)
  BY RecoveryAssumption, FS_Interval DEF Days
<1>2. IsFiniteSet(Cases \X Kinds)
  BY RecoveryAssumption, FS_Product
<1>3. IsFiniteSet(Pairs)
  BY <1>1, <1>2, FS_Product
<1>4. key \in Surjection(Pairs, Fingerprint)
  <2>1. key \in [Pairs -> Fingerprint]
    BY DEF Fingerprint
  <2>2. ASSUME NEW k \in Fingerprint PROVE \E x \in Pairs : key[x] = k
    <3> DEFINE x == <<<<k[1], k[2]>>, k[3]>>
    <3>1. x \in Pairs /\ key[x] = k
      BY <2>2 DEF Fingerprint
    <3> QED
      BY <3>1
  <2> QED
    BY <2>1, <2>2 DEF Surjection
<1> QED
  BY <1>3, <1>4, FS_Surjection

LEMMA SubsetsFinite ==
  ASSUME NEW K \in SUBSET Fingerprint
  PROVE  IsFiniteSet(K) /\ Cardinality(K) \in Nat
BY FingerprintsFinite, FS_Subset, FS_CardinalityType

LEMMA DisjointUnion ==
  ASSUME NEW S, NEW T, IsFiniteSet(S), IsFiniteSet(T), S \cap T = {}
  PROVE  Cardinality(S \cup T) = Cardinality(S) + Cardinality(T)
<1>1. Cardinality(S \cap T) = 0
  BY FS_EmptySet
<1>2. Cardinality(S) \in Nat /\ Cardinality(T) \in Nat
  BY FS_CardinalityType
<1>3. Cardinality(S \cup T) = Cardinality(S) + Cardinality(T) - Cardinality(S \cap T)
  BY FS_Union
<1> QED
  BY <1>1, <1>2, <1>3

-----------------------------------------------------------------------------
(* Steps that charge nothing *)

\* What is newly heard was not on record before.
NewlyHeard ==
  \A q \in Procs : outcome'[q] = "dispatched" =>
    \/ outcome[q] = "dispatched" /\ task'[q] = task[q]
    \/ action[task'[q]] # "dispatched"

LEMMA BackingKeeps ==
  ASSUME NEW tally, NEW charged, Backing(tally, charged), SettledKept, NewlyHeard,
         spent' = spent, consumed' = consumed,
         \A p \in Planners : asOf'[p] = asOf[p] \/ spent[p] = 0
  PROVE  Backing(tally, charged)'
<1>1. \A k \in Fingerprint : Contact(k) => Contact(k)'
  BY DEF Contact, SettledKept, D!Settled
<1>2. \A p \in Planners : spent[p] = 0 => tally[p] = {}
  BY SubsetsFinite, FS_EmptySet DEF Backing
<1>3. \A p \in Planners : \A k \in tally[p] :
        Contact(k)' /\ DayOf(k) = asOf'[p] /\ k \notin charged
  BY <1>1, <1>2 DEF Backing
<1>4. \A q \in Procs : outcome'[q] = "dispatched" =>
        task'[q] \notin charged /\ \A p \in Planners : task'[q] \notin tally[p]
  BY DEF Backing, NewlyHeard, Contact
<1> QED
  BY <1>1, <1>3, <1>4 DEF Backing

\* The planner forgets its tally.
LEMMA ForgetKeeps ==
  ASSUME NEW tally, NEW charged, Backing(tally, charged), SettledKept, NewlyHeard,
         consumed' = consumed, NEW p \in Planners, Tallied, CaseInv, EndCycle(p)
  PROVE  Backing([tally EXCEPT ![p] = {}], charged)'
<1> DEFINE rest == [tally EXCEPT ![p] = {}]
<1>1. \A k \in Fingerprint : Contact(k) => Contact(k)'
  BY DEF Contact, SettledKept, D!Settled
<1>2. /\ spent'[p] = 0 /\ rest[p] = {}
      /\ \A q \in Planners \ {p} :
           spent'[q] = spent[q] /\ asOf'[q] = asOf[q] /\ rest[q] = tally[q]
      /\ rest \in [Planners -> SUBSET Fingerprint]
  BY DEF EndCycle, Tallied, CaseInv, Shaped, Backing
<1> HIDE DEF rest
<1>3. \A q \in Planners : spent'[q] = Cardinality(rest[q])
  BY <1>2, FS_EmptySet DEF Backing
<1>4. \A q \in Procs : outcome'[q] = "dispatched" =>
        task'[q] \notin charged /\ \A r \in Planners : task'[q] \notin rest[r]
  BY <1>2 DEF Backing, NewlyHeard, Contact
<1>5. \A q \in Planners : \A k \in rest[q] :
        Contact(k)' /\ DayOf(k) = asOf'[q] /\ k \notin charged
  BY <1>1, <1>2 DEF Backing
<1>6. \A q, r \in Planners : q # r => rest[q] \cap rest[r] = {}
  BY <1>2 DEF Backing
<1> QED
  BY <1>1, <1>2, <1>3, <1>4, <1>5, <1>6 DEF Backing, rest

-----------------------------------------------------------------------------
(* The tally and the charge *)

\* The planner hears of a contact and counts it.
LEMMA TallyKeeps ==
  ASSUME NEW tally, NEW charged, Backing(tally, charged), SettledKept, NewlyHeard, HeardOnce,
         Tallied, NEW p \in Planners, outcome[p] = "dispatched", outcome'[p] # "dispatched",
         task[p] \in Fingerprint, Contact(task[p]), DayOf(task[p]) = asOf[p],
         spent' = [spent EXCEPT ![p] = @ + 1], UNCHANGED <<consumed, asOf, action>>
  PROVE  \E more : Backing(more, charged)'
<1> PICK more : more = [tally EXCEPT ![p] = @ \cup {task[p]}]
  OBVIOUS
<1>1. \A k \in Fingerprint : Contact(k)' <=> Contact(k)
  BY DEF Contact
<1>2. task[p] \notin charged /\ \A q \in Planners : task[p] \notin tally[q]
  BY DEF Backing, Procs
<1>3. /\ spent'[p] = spent[p] + 1 /\ more[p] = tally[p] \cup {task[p]}
      /\ \A q \in Planners \ {p} : spent'[q] = spent[q] /\ more[q] = tally[q]
      /\ more \in [Planners -> SUBSET Fingerprint]
  BY DEF Tallied, Backing
<1>4. Cardinality(more[p]) = Cardinality(tally[p]) + 1
  <2>1. IsFiniteSet(tally[p])
    BY SubsetsFinite DEF Backing
  <2> QED
    BY <1>2, <1>3, <2>1, FS_AddElement
<1>5. \A q \in Planners : spent'[q] = Cardinality(more[q])
  BY <1>3, <1>4 DEF Backing
<1>6. \A q \in Planners : \A k \in more[q] :
        Contact(k)' /\ DayOf(k) = asOf'[q] /\ k \notin charged
  BY <1>1, <1>2, <1>3 DEF Backing
<1>7. \A q, r \in Planners : q # r => more[q] \cap more[r] = {}
  BY <1>2, <1>3 DEF Backing
<1>8. \A q \in Procs : outcome'[q] = "dispatched" =>
        task'[q] \notin charged /\ \A r \in Planners : task'[q] \notin more[r]
  <2> SUFFICES ASSUME NEW q \in Procs, outcome'[q] = "dispatched"
               PROVE  task'[q] \notin charged /\ \A r \in Planners : task'[q] \notin more[r]
    OBVIOUS
  <2>1. q # p /\ p \in Procs
    BY DEF Procs
  <2>2. task'[q] # task[p]
    BY <2>1 DEF NewlyHeard, HeardOnce, Contact
  <2>3. task'[q] \notin charged /\ \A r \in Planners : task'[q] \notin tally[r]
    BY DEF Backing, NewlyHeard, Contact
  <2> QED
    BY <1>3, <2>2, <2>3
<1>9. /\ charged \in SUBSET Fingerprint /\ \A k \in charged : Contact(k)'
      /\ \A d \in Days : consumed'[d] = Cardinality({k \in charged : DayOf(k) = d})
  BY <1>1 DEF Backing
<1>10. Backing(more, charged)'
  BY <1>3, <1>5, <1>6, <1>7, <1>8, <1>9 DEF Backing
<1> QED
  BY <1>10

\* The ledger is charged for what the planner counted.
LEMMA ChargeKeeps ==
  ASSUME NEW tally, NEW charged, Backing(tally, charged), Tallied, CaseInv,
         NEW p \in Planners, EndCycle(p), UNCHANGED dispatchVars,
         consumed' = [consumed EXCEPT ![asOf[p]] = @ + spent[p]]
  PROVE  Backing([tally EXCEPT ![p] = {}], charged \cup tally[p])'
<1> DEFINE rest == [tally EXCEPT ![p] = {}]
           all == charged \cup tally[p]
           Of(K, d) == {k \in K : DayOf(k) = d}
<1>1. /\ \A k \in Fingerprint : Contact(k)' <=> Contact(k)
      /\ outcome' = outcome /\ task' = task
  BY DEF Contact, dispatchVars
<1>2. /\ spent'[p] = 0 /\ rest[p] = {}
      /\ \A q \in Planners \ {p} :
           spent'[q] = spent[q] /\ asOf'[q] = asOf[q] /\ rest[q] = tally[q]
      /\ rest \in [Planners -> SUBSET Fingerprint]
  BY DEF EndCycle, Tallied, CaseInv, Shaped, Backing
<1> HIDE DEF rest
<1>3. /\ asOf[p] \in Days /\ consumed'[asOf[p]] = consumed[asOf[p]] + spent[p]
      /\ \A d \in Days \ {asOf[p]} : consumed'[d] = consumed[d]
  BY DEF Tallied, CaseInv, Shaped
<1>4. all \in SUBSET Fingerprint /\ \A k \in all : Contact(k)'
  BY <1>1 DEF Backing
<1>5. \A d \in Days : consumed'[d] = Cardinality(Of(all, d))
  <2>1. Of(all, asOf[p]) = Of(charged, asOf[p]) \cup tally[p]
    BY DEF Backing
  <2>2. Of(charged, asOf[p]) \cap tally[p] = {}
    BY DEF Backing
  <2>3. /\ IsFiniteSet(Of(charged, asOf[p])) /\ IsFiniteSet(tally[p])
        /\ Cardinality(Of(charged, asOf[p])) \in Nat /\ Cardinality(tally[p]) \in Nat
    BY SubsetsFinite DEF Backing
  <2> HIDE DEF Of, all
  <2>4. Cardinality(Of(all, asOf[p])) = Cardinality(Of(charged, asOf[p])) + Cardinality(tally[p])
    <3> DEFINE old == Of(charged, asOf[p])
               new == tally[p]
    <3>1. /\ Of(all, asOf[p]) = old \cup new /\ old \cap new = {}
          /\ IsFiniteSet(old) /\ IsFiniteSet(new)
          /\ Cardinality(old) \in Nat /\ Cardinality(new) \in Nat
      BY <2>1, <2>2, <2>3
    <3> HIDE DEF old, new
    <3>2. Cardinality(old \cup new) = Cardinality(old) + Cardinality(new)
      BY <3>1, DisjointUnion
    <3> QED
      BY <3>1, <3>2 DEF old, new
  <2> USE DEF Of, all
  <2>5. consumed'[asOf[p]] = Cardinality(Of(all, asOf[p]))
    BY <1>3, <2>4 DEF Backing
  <2>6. \A d \in Days \ {asOf[p]} : Of(all, d) = Of(charged, d)
    BY DEF Backing
  <2>7. \A d \in Days \ {asOf[p]} : consumed'[d] = Cardinality(Of(all, d))
    BY <1>3, <2>6 DEF Backing
  <2> QED
    BY <2>5, <2>7
<1>6. \A q \in Planners : spent'[q] = Cardinality(rest[q])
  BY <1>2, FS_EmptySet DEF Backing
<1>7. \A q \in Planners : \A k \in rest[q] :
        Contact(k)' /\ DayOf(k) = asOf'[q] /\ k \notin all
  BY <1>1, <1>2 DEF Backing
<1>8. \A q, r \in Planners : q # r => rest[q] \cap rest[r] = {}
  BY <1>2 DEF Backing
<1>9. \A q \in Procs : outcome'[q] = "dispatched" =>
        task'[q] \notin all /\ \A r \in Planners : task'[q] \notin rest[r]
  BY <1>1, <1>2 DEF Backing
<1> QED
  BY <1>2, <1>4, <1>5, <1>6, <1>7, <1>8, <1>9 DEF Backing, rest

-----------------------------------------------------------------------------
(* What a caller hears *)

\* Only the commit of an outcome answers "dispatched", for a row that was pending.
LEMMA HearsOnce ==
  ASSUME Hands, D!TypeOK, Proved!IInv, HeardOnce, [D!Next]_(D!vars)
  PROVE  NewlyHeard /\ HeardOnce'
<1> DEFINE Kept(q) == outcome'[q] = "dispatched" => outcome[q] = "dispatched" /\ task'[q] = task[q]
           Fresh(q) == task'[q] = task[q] /\ action[task[q]] # "dispatched"
<1>1. (\A q \in Procs : Kept(q)) \/ \E p \in Procs : Fresh(p) /\ \A q \in Procs \ {p} : Kept(q)
  <2>1. CASE UNCHANGED D!vars \/ \E k \in Fingerprint : D!LockExpires(k)
    BY <2>1 DEF D!vars, D!LockExpires
  <2>2. ASSUME NEW p \in Procs,
               outcome' = [outcome EXCEPT ![p] = "none"],
               \E t : task' = [task EXCEPT ![p] = t]
        PROVE  \A q \in Procs : Kept(q)
    BY <2>2 DEF D!TypeOK, Procs
  <2>3. ASSUME NEW p \in Procs, D!Step(p), ~D!Settle(p)
        PROVE  \A q \in Procs : Kept(q)
    <3>1. task' = task /\ \A q \in Procs \ {p} : outcome'[q] = outcome[q]
      BY <2>3 DEF D!Step, D!Acquire, D!AcquireUnlocked, D!RecordIntent, D!Invoke, D!Release,
                  D!TypeOK, Procs
    <3>2. outcome'[p] = outcome[p] \/ outcome'[p] # "dispatched"
      BY <2>3 DEF D!Step, D!Acquire, D!AcquireUnlocked, D!RecordIntent, D!Invoke, D!Release,
                  D!TypeOK, D!Answers, Procs
    <3> QED
      BY <3>1, <3>2
  <2>4. ASSUME NEW p \in Procs, D!Settle(p)
        PROVE  Fresh(p) /\ \A q \in Procs \ {p} : Kept(q)
    <3>1. action[task[p]] = "pending"
      BY <2>4 DEF D!Settle, Proved!IInv, Proved!SoleOwner, Proved!InFlight, Procs
    <3> QED
      BY <2>4, <3>1 DEF D!Settle, D!TypeOK, Procs
  <2> QED
    BY <2>1, <2>2, <2>3, <2>4 DEF D!Next, D!Return, D!Crash, D!Call, Procs
<1>2. NewlyHeard
  BY <1>1 DEF NewlyHeard
<1>3. ASSUME NEW p \in Procs, NEW q \in Procs, Fresh(p), Kept(q), outcome'[q] = "dispatched"
      PROVE  task'[p] # task'[q]
  BY <1>3 DEF Hands, Heard
<1>4. HeardOnce'
  BY <1>1, <1>3 DEF HeardOnce
<1> QED
  BY <1>2, <1>4

-----------------------------------------------------------------------------
(* The steps *)

\* Nothing the ledger rests on changes but what the dispatcher does.
LEMMA QuietKeeps ==
  ASSUME LedgerInv, SettledKept, NewlyHeard, HeardOnce',
         UNCHANGED <<phase, asOf, spent, consumed>>,
         \A p \in Planners : pc'[p] # "idle" => pc[p] # "idle" /\ task'[p] = task[p]
  PROVE  LedgerInv'
<1>1. Tallied' /\ OnItsDay'
  BY DEF LedgerInv, Tallied, OnItsDay
<1>2. \A tally, charged : Backing(tally, charged) => Backing(tally, charged)'
  BY BackingKeeps
<1> QED
  BY <1>1, <1>2 DEF LedgerInv

\* The cycle of p is over and charged nothing.
LEMMA OverKeeps ==
  ASSUME LedgerInv, SettledKept, NewlyHeard, HeardOnce', CaseInv,
         NEW p \in Planners, EndCycle(p), consumed' = consumed, pc'[p] = "idle",
         \A q \in Planners \ {p} : pc'[q] = pc[q] /\ task'[q] = task[q]
  PROVE  LedgerInv'
<1>1. Tallied' /\ OnItsDay'
  BY DEF LedgerInv, Tallied, OnItsDay, EndCycle, CaseInv, Shaped
<1>2. \A tally, charged :
        Backing(tally, charged) => Backing([tally EXCEPT ![p] = {}], charged)'
  BY ForgetKeeps DEF LedgerInv
<1> QED
  BY <1>1, <1>2 DEF LedgerInv

LEMMA StartKeeps ==
  ASSUME LedgerInv, SettledKept, NewlyHeard, HeardOnce', CaseInv,
         NEW p \in Planners, StartCycle(p) \/ ApplyStops(p)
  PROVE  LedgerInv'
<1>1. /\ UNCHANGED <<spent, consumed, pc, task>>
      /\ phase[p] # "acting"
      /\ \A q \in Planners \ {p} : phase'[q] = phase[q] /\ asOf'[q] = asOf[q]
  BY DEF StartCycle, ApplyStops, planVars, dispatchVars, CaseInv, Shaped
<1>2. spent[p] = 0 /\ pc[p] = "idle"
  BY <1>1 DEF LedgerInv, OnItsDay
<1>3. Tallied' /\ OnItsDay'
  BY <1>1, <1>2 DEF LedgerInv, Tallied, OnItsDay
<1>4. \A q \in Planners : asOf'[q] = asOf[q] \/ spent[q] = 0
  BY <1>1, <1>2
<1>5. \A tally, charged : Backing(tally, charged) => Backing(tally, charged)'
  BY <1>1, <1>4, BackingKeeps
<1> QED
  BY <1>3, <1>5 DEF LedgerInv

\* A case is held out or escalated, or refused.
LEMMA WriteKeeps ==
  ASSUME LedgerInv, SettledKept, NewlyHeard, HeardOnce', CaseInv,
         NEW p \in Planners, NEW c \in Cases, HoldOut(p, c) \/ Escalate(p, c)
  PROVE  LedgerInv'
<1>1. /\ UNCHANGED <<consumed, pc, task>> /\ pc[p] = "idle"
      /\ EndCycle(p) \/ UNCHANGED <<phase, asOf, spent>>
  BY DEF HoldOut, Escalate, UpdateOrDie, Acting, dispatchVars
<1>2. CASE EndCycle(p)
  BY <1>1, <1>2, OverKeeps
<1>3. CASE UNCHANGED <<phase, asOf, spent>>
  BY <1>1, <1>3, QuietKeeps
<1> QED
  BY <1>1, <1>2, <1>3

\* The planner is out of the dispatcher.
LEMMA Leaves ==
  ASSUME D!TypeOK, NEW p \in Procs, D!Return(p) \/ D!Crash(p)
  PROVE  /\ pc'[p] = "idle" /\ outcome'[p] = "none" /\ action' = action
         /\ \A q \in Procs \ {p} : pc'[q] = pc[q] /\ task'[q] = task[q]
BY DEF D!Return, D!Crash, D!TypeOK, Procs

LEMMA FinishKeeps ==
  ASSUME LedgerInv, SettledKept, NewlyHeard, HeardOnce', CaseInv, Hands, D!TypeOK,
         NEW p \in Planners, FinishCase(p)
  PROVE  LedgerInv'
<1>1. p \in Procs /\ D!Return(p) /\ pc[p] = "done" /\ consumed' = consumed
  BY DEF FinishCase, D!Return, Procs
<1>2. /\ pc'[p] = "idle" /\ outcome'[p] = "none" /\ action' = action
      /\ \A q \in Planners \ {p} : pc'[q] = pc[q] /\ task'[q] = task[q]
  BY <1>1, Leaves DEF Procs
<1>3. CASE EndCycle(p)
  BY <1>1, <1>2, <1>3, OverKeeps
<1>4. CASE UNCHANGED <<phase, asOf, spent>>
  BY <1>1, <1>2, <1>4, QuietKeeps
<1>5. CASE /\ outcome[p] = "dispatched"
           /\ spent' = [spent EXCEPT ![p] = @ + Contacts(KindOf(task[p]))]
           /\ UNCHANGED <<phase, asOf>>
  <2>1. task[p] \in Fingerprint /\ action[task[p]] = "dispatched"
    BY <1>1, <1>5 DEF Hands, Heard
  <2>2. phase[p] = "acting" /\ DayOf(task[p]) = asOf[p]
    BY <1>1 DEF LedgerInv, OnItsDay
  <2>3. CASE KindOf(task[p]) \in ContactKinds
    <3>1. spent' = [spent EXCEPT ![p] = @ + 1]
      BY <1>5, <2>3 DEF Contacts
    <3>2. Tallied' /\ OnItsDay'
      BY <1>1, <1>2, <1>5, <2>2, <3>1 DEF LedgerInv, Tallied, OnItsDay
    <3>3. \A tally, charged :
            Backing(tally, charged) => \E more : Backing(more, charged)'
      BY <1>1, <1>2, <1>5, <2>1, <2>2, <2>3, <3>1, TallyKeeps DEF LedgerInv, Contact
    <3> QED
      BY <3>2, <3>3 DEF LedgerInv
  <2>4. CASE KindOf(task[p]) \notin ContactKinds
    <3>1. spent' = spent
      BY <1>5, <2>4 DEF Contacts, LedgerInv, Tallied
    <3> QED
      BY <1>4, <1>5, <3>1
  <2> QED
    BY <2>3, <2>4
<1> QED
  BY <1>3, <1>4, <1>5 DEF FinishCase

LEMMA SpendKeeps ==
  ASSUME LedgerInv, SettledKept, NewlyHeard, HeardOnce', CaseInv,
         NEW p \in Planners, SpendBudget(p)
  PROVE  LedgerInv'
<1>1. EndCycle(p) /\ UNCHANGED dispatchVars /\ pc[p] = "idle"
  BY DEF SpendBudget
<1>2. UNCHANGED <<pc, task>>
  BY <1>1 DEF dispatchVars
<1>3. CASE consumed' = consumed
  BY <1>1, <1>2, <1>3, OverKeeps
<1>4. CASE consumed' = [consumed EXCEPT ![asOf[p]] = @ + spent[p]]
  <2>1. Tallied' /\ OnItsDay'
    BY <1>1, <1>2, <1>4 DEF LedgerInv, Tallied, OnItsDay, EndCycle, CaseInv, Shaped
  <2>2. \A tally, charged :
          Backing(tally, charged)
            => Backing([tally EXCEPT ![p] = {}], charged \cup tally[p])'
    BY <1>1, <1>4, ChargeKeeps DEF LedgerInv
  <2> QED
    BY <2>1, <2>2 DEF LedgerInv
<1> QED
  BY <1>3, <1>4 DEF SpendBudget, LedgerInv, Tallied

LEMMA PlanKeeps ==
  ASSUME LedgerInv, SettledKept, NewlyHeard, HeardOnce', CaseInv, Hands, D!TypeOK,
         NEW p \in Planners, Plan(p) \/ CrashPlanner(p)
  PROVE  LedgerInv'
<1>1. p \in Procs
  BY DEF Procs
<1>2. CASE CrashPlanner(p)
  <2>1. D!Crash(p) /\ EndCycle(p) /\ consumed' = consumed
    BY <1>2 DEF CrashPlanner
  <2>2. pc'[p] = "idle" /\ \A q \in Planners \ {p} : pc'[q] = pc[q] /\ task'[q] = task[q]
    BY <1>1, <2>1, Leaves DEF Procs
  <2> QED
    BY <2>1, <2>2, OverKeeps
<1>3. ASSUME NEW c \in Cases, DispatchCase(p, c) PROVE LedgerInv'
  <2>1. /\ phase[p] = "acting" /\ D!Call(p, KeyFor(p, c))
        /\ UNCHANGED <<phase, asOf, spent, consumed>>
    BY <1>3 DEF DispatchCase, Acting, planVars
  <2>2. /\ task'[p] = KeyFor(p, c)
        /\ \A q \in Planners \ {p} : pc'[q] = pc[q] /\ task'[q] = task[q]
    BY <1>1, <2>1 DEF D!Call, D!TypeOK, Procs
  <2>3. DayOf(task'[p]) = asOf'[p]
    BY <2>1, <2>2 DEF KeyFor, DayOf
  <2>4. Tallied' /\ OnItsDay'
    BY <2>1, <2>2, <2>3 DEF LedgerInv, Tallied, OnItsDay
  <2>5. \A tally, charged : Backing(tally, charged) => Backing(tally, charged)'
    BY <2>1, BackingKeeps
  <2> QED
    BY <2>4, <2>5 DEF LedgerInv
<1> QED
  BY <1>2, <1>3, StartKeeps, WriteKeeps, FinishKeeps, SpendKeeps DEF Plan

LEMMA LedgerStep ==
  ASSUME LedgerInv, CaseInv, Hands, D!TypeOK, Proved!IInv, [Next]_vars, SettledKept
  PROVE  LedgerInv'
<1>1. NewlyHeard /\ HeardOnce'
  BY HearsOnce, UsesDispatcher DEF LedgerInv
<1>2. ASSUME NEW p \in Planners, Plan(p) \/ CrashPlanner(p) PROVE LedgerInv'
  BY <1>1, <1>2, PlanKeeps
<1>3. ASSUME UNCHANGED <<phase, asOf, spent, consumed>>,
             \A p \in Planners : pc'[p] # "idle" => pc[p] # "idle" /\ task'[p] = task[p]
      PROVE  LedgerInv'
  BY <1>1, <1>3, QuietKeeps
<1>4. CASE UNCHANGED <<planVars, consumed, dispatchVars>>
  BY <1>3, <1>4 DEF planVars, dispatchVars
<1>5. ASSUME NEW p \in Procs, InDispatch(p) PROVE LedgerInv'
  <2>1. /\ D!Step(p) /\ UNCHANGED <<phase, asOf, spent, consumed>>
    BY <1>5 DEF InDispatch, planVars
  <2>2. task' = task /\ \A q \in Procs : pc'[q] # "idle" => pc[q] # "idle"
    BY <2>1, StepKeeps
  <2> QED
    BY <1>3, <2>1, <2>2 DEF Procs
<1>6. ASSUME NEW k \in Fingerprint, LockExpires(k) PROVE LedgerInv'
  BY <1>3, <1>6 DEF LockExpires, D!LockExpires, planVars
<1>7. ASSUME NEW r \in Reviewers, Review(r) \/ CrashReviewer(r) PROVE LedgerInv'
  <2>1. UNCHANGED <<planVars, consumed>>
    BY <1>7 DEF Review, Reject, Refuse, Approve, FinishApproval, LoadCase, CrashReviewer
  <2>2. \A p \in Planners : p # r
    BY RecoveryAssumption
  <2>3. \/ UNCHANGED dispatchVars \/ D!Return(r) \/ D!Crash(r)
        \/ \E k : D!Call(r, k)
    BY <1>7 DEF Review, Reject, Refuse, Approve, FinishApproval, LoadCase, CrashReviewer
  <2>4. \A p \in Planners : pc'[p] = pc[p] /\ task'[p] = task[p]
    BY <2>2, <2>3 DEF dispatchVars, D!Return, D!Crash, D!Call, D!TypeOK, Procs
  <2> QED
    BY <1>3, <2>1, <2>4 DEF planVars
<1> QED
  BY <1>2, <1>4, <1>5, <1>6, <1>7 DEF Next, Procs, Capture, NextDay, vars

LEMMA LedgerInitially == Init => LedgerInv
<1> SUFFICES ASSUME Init PROVE LedgerInv
  OBVIOUS
<1>1. Tallied /\ OnItsDay /\ HeardOnce
  BY DEF Init, D!Init, Tallied, OnItsDay, HeardOnce, Procs
<1>2. Backing([p \in Planners |-> {}], {})
  <2>1. \A d \in Days : {k \in {} : DayOf(k) = d} = {}
    OBVIOUS
  <2> QED
    BY <2>1, FS_EmptySet DEF Init, D!Init, Backing, Procs
<1> QED
  BY <1>1, <1>2 DEF LedgerInv

LEMMA LedgerInvariance == Spec => []LedgerInv
<1>1. LedgerInv /\ CaseInv /\ D!TypeOK /\ TreatInv /\ Proved!IInv /\ [Next]_vars
        /\ [SettledKept]_(D!vars) => LedgerInv'
  <2> SUFFICES ASSUME LedgerInv, CaseInv, D!TypeOK, TreatInv, Proved!IInv, [Next]_vars,
                      [SettledKept]_(D!vars)
               PROVE  LedgerInv'
    OBVIOUS
  <2>1. SettledKept
    BY DEF SettledKept, D!vars
  <2> QED
    BY <2>1, LedgerStep DEF TreatInv
<1>2. Spec => []Proved!IInv
  BY Proved!Invariance, Assumed, CasesUseDispatcher, SameDispatcher, PTL
<1> QED
  BY <1>1, <1>2, LedgerInitially, CaseInvariance, TreatInvariance, DispatcherInvariance, PTL
  DEF Spec

\* The ledger never charges for a contact that was not dispatched: duplicates,
\* failures, crashed and overlapping cycles are free (pipeline.py:287-290).
THEOREM ChargesAreBacked == Spec => []LedgerBacked
<1>1. LedgerInv => LedgerBacked
  <2> SUFFICES ASSUME LedgerInv, NEW d \in Days
               PROVE  consumed[d] <= Cardinality(ContactsOn(d))
    BY DEF LedgerBacked
  <2> PICK tally, charged : Backing(tally, charged)
    BY DEF LedgerInv
  <2> DEFINE paid == {k \in charged : DayOf(k) = d}
  <2>1. paid \subseteq ContactsOn(d) /\ ContactsOn(d) \in SUBSET Fingerprint
    BY DEF Backing, Contact, ContactsOn
  <2>2. consumed[d] = Cardinality(paid)
    BY DEF Backing
  <2> HIDE DEF paid
  <2>3. Cardinality(paid) <= Cardinality(ContactsOn(d))
    BY <2>1, SubsetsFinite, FS_Subset
  <2> QED
    BY <2>2, <2>3
<1> QED
  BY <1>1, LedgerInvariance, PTL

\* The ledger never passes the limit, however many cycles charge at once
\* (allocator/budget.py:12-15).
THEOREM ChargesKeepTheLimit == Spec => []LedgerWithinLimit
<1>1. Init => LedgerWithinLimit
  BY RecoveryAssumption DEF Init, LedgerWithinLimit
<1>2. LedgerInv /\ CaseInv /\ LedgerWithinLimit /\ [Next]_vars => LedgerWithinLimit'
  <2> SUFFICES ASSUME LedgerInv, CaseInv, LedgerWithinLimit, [Next]_vars
               PROVE  LedgerWithinLimit'
    OBVIOUS
  <2>1. CASE consumed' = consumed
    BY <2>1 DEF LedgerWithinLimit
  <2>2. ASSUME NEW p \in Planners, SpendBudget(p) PROVE LedgerWithinLimit'
    <3>1. \/ consumed' = consumed
          \/ /\ consumed[asOf[p]] + spent[p] <= Limit
             /\ consumed' = [consumed EXCEPT ![asOf[p]] = @ + spent[p]]
      BY <2>2 DEF SpendBudget, LedgerInv, Tallied
    <3> QED
      BY <2>1, <3>1 DEF LedgerWithinLimit, LedgerInv, Tallied
  <2> QED
    BY <2>1, <2>2
    DEF Next, Plan, StartCycle, ApplyStops, FinishCase, HoldOut, Escalate, DispatchCase,
        CrashPlanner, Review, Reject, Refuse, Approve, FinishApproval, LoadCase,
        CrashReviewer, InDispatch, LockExpires, Capture, NextDay, vars
<1> QED
  BY <1>1, <1>2, LedgerInvariance, CaseInvariance, PTL DEF Spec

-----------------------------------------------------------------------------
(* The edges of the state machine.  With one planner at a time, a case it   *)
(* has still to act on was not acted on since it was loaded: it is as it    *)
(* was, or over; and no case a reviewer has in hand is a planner's.         *)

OnePlanner == \A p, q \in Planners : p = q

Unworked == {"open", "planning", "stopped", "recovered"}

WorkInv ==
  /\ \A p \in Planners :
       pc[p] # "idle" => phase[p] = "acting" /\ CaseOf(task[p]) \in todo[p]
  /\ \A p \in Planners : \A c \in todo[p] : state[c] \in Unworked
  /\ \A r \in Reviewers : handling[r] # NoCase =>
       /\ state[handling[r]] \notin {"open", "planning", "held_out"}
       /\ \A p \in Planners : handling[r] \notin todo[p]

Edge(c) == \A s \in {"open", "held_out", "awaiting_outcome"} : LegalFrom(c, s)

Lawful == WorkInv' /\ \A c \in Cases : Edge(c)

\* The planner's place in the dispatcher is what it was, or it has left.
Placed(p) == pc'[p] # "idle" => pc[p] # "idle" /\ task'[p] = task[p]

LEMMA SameCaseIsLawful ==
  ASSUME UNCHANGED state
  PROVE  \A c \in Cases : Edge(c)
BY DEF Edge, LegalFrom

LEMMA QuietIsLawful ==
  ASSUME WorkInv, UNCHANGED state,
         \A p \in Planners :
           Placed(p) /\ (pc'[p] # "idle" => phase'[p] = phase[p] /\ todo'[p] = todo[p]),
         \A p \in Planners : todo'[p] \subseteq todo[p],
         \A r \in Reviewers : handling'[r] = handling[r] \/ handling'[r] = NoCase
  PROVE  Lawful
<1>1. \A p \in Planners :
        pc'[p] # "idle" => phase'[p] = "acting" /\ CaseOf(task'[p]) \in todo'[p]
  BY DEF WorkInv, Placed
<1>2. \A p \in Planners : \A d \in todo'[p] : state'[d] \in Unworked
  BY DEF WorkInv
<1>3. ASSUME NEW r \in Reviewers, handling'[r] # NoCase
      PROVE  /\ state'[handling'[r]] \notin {"open", "planning", "held_out"}
             /\ \A p \in Planners : handling'[r] \notin todo'[p]
  BY <1>3 DEF WorkInv
<1> QED BY <1>1, <1>2, <1>3, SameCaseIsLawful DEF Lawful, WorkInv

\* A write that follows an edge, of a case no planner has still to act on.
LEMMA WriteIsLawful ==
  ASSUME CaseInv, WorkInv, NEW c \in Cases, NEW s \in CaseState, state' = [state EXCEPT ![c] = s],
         s \notin {"open", "planning"},
         \A p \in Planners :
           Placed(p) /\ (pc'[p] # "idle" => phase'[p] = phase[p] /\ todo'[p] = todo[p]),
         \A p \in Planners : todo'[p] \subseteq todo[p] /\ (c \in todo'[p] => s \in Unworked),
         \A r \in Reviewers :
           \/ handling'[r] = NoCase
           \/ handling'[r] = handling[r] /\ (handling[r] = c => s # "held_out"),
         Edge(c)
  PROVE  Lawful
<1>1. state'[c] = s /\ \A d \in Cases : d # c => state'[d] = state[d]
  BY DEF CaseInv, Shaped
<1>2. \A d \in Cases : Edge(d)
  BY <1>1 DEF Edge, LegalFrom
<1>3. \A p \in Planners :
        pc'[p] # "idle" => phase'[p] = "acting" /\ CaseOf(task'[p]) \in todo'[p]
  BY DEF WorkInv, Placed
<1>4. \A p \in Planners : \A d \in todo'[p] : state'[d] \in Unworked
  <2>1. \A p \in Planners : todo[p] \subseteq Cases
    BY DEF CaseInv, Shaped
  <2> QED BY <1>1, <2>1 DEF WorkInv
<1>5. ASSUME NEW r \in Reviewers, handling'[r] # NoCase
      PROVE  /\ state'[handling'[r]] \notin {"open", "planning", "held_out"}
             /\ \A p \in Planners : handling'[r] \notin todo'[p]
  <2>1. handling'[r] = handling[r] /\ handling[r] \in Cases
    BY <1>5 DEF CaseInv, Shaped
  <2> QED BY <1>1, <1>5, <2>1 DEF WorkInv
<1> QED BY <1>2, <1>3, <1>4, <1>5 DEF Lawful, WorkInv

LEMMA UnworkedEdges ==
  ASSUME CaseInv, NEW c \in Cases, state[c] \in Unworked,
         state'[c] \in {"held_out", "escalated", "awaiting_outcome"}
  PROVE  Edge(c)
BY DEF Edge, LegalFrom, Unworked, CanTransition, CaseTransitions, CaseState

\* A planner that ends its cycle, by itself or by dying, has nothing to act on.
LEMMA EndIsLawful ==
  ASSUME OnePlanner, CaseInv, WorkInv, NEW p \in Planners, EndCycle(p), pc'[p] = "idle",
         UNCHANGED <<state, handling>>
  PROVE  Lawful
<1>1. \A q \in Planners : q = p
  BY DEF OnePlanner
<1>2. todo'[p] = {}
  BY DEF EndCycle, CaseInv, Shaped
<1> QED BY <1>1, <1>2, QuietIsLawful DEF Placed

\* The planner writes one of its cases, and is through with it.
LEMMA WorkIsLawful ==
  ASSUME OnePlanner, CaseInv, WorkInv, NEW p \in Planners, NEW c \in todo[p],
         NEW s \in {"held_out", "escalated", "awaiting_outcome"}, SetState(c, s),
         todo' = [todo EXCEPT ![p] = @ \ {c}], pc'[p] = "idle", UNCHANGED handling
  PROVE  Lawful
<1>1. \A q \in Planners : q = p
  BY DEF OnePlanner
<1>2. c \in Cases /\ s \in CaseState /\ todo'[p] = todo[p] \ {c}
  BY DEF CaseInv, Shaped, CaseState
<1>3. state' = [state EXCEPT ![c] = s] /\ state'[c] = s
  BY <1>2 DEF SetState, CaseInv, Shaped
<1>4. Edge(c)
  BY <1>2, <1>3, UnworkedEdges DEF WorkInv
<1>5. \A r \in Reviewers : handling[r] = c => handling'[r] = NoCase
  BY DEF WorkInv
<1>6. \A q \in Planners :
        /\ Placed(q) /\ (pc'[q] # "idle" => phase'[q] = phase[q] /\ todo'[q] = todo[q])
        /\ todo'[q] \subseteq todo[q] /\ c \notin todo'[q]
  BY <1>1, <1>2 DEF Placed
<1> QED BY <1>2, <1>3, <1>4, <1>5, <1>6, WriteIsLawful

LEMMA UpdateIsLawful ==
  ASSUME OnePlanner, CaseInv, WorkInv, NEW p \in Planners, NEW c \in Cases, Acting(p, c),
         NEW s \in {"held_out", "escalated"}, UpdateOrDie(p, c, s),
         UNCHANGED <<handling, dispatchVars>>
  PROVE  Lawful
<1>1. pc'[p] = "idle" /\ c \in todo[p]
  BY DEF Acting, dispatchVars
<1>2. CASE Permitted(c)
  <2>1. SetState(c, s) /\ todo' = [todo EXCEPT ![p] = @ \ {c}]
    BY <1>2 DEF UpdateOrDie
  <2> QED BY <1>1, <2>1, WorkIsLawful
<1>3. CASE ~Permitted(c)
  <2>1. EndCycle(p) /\ UNCHANGED state
    BY <1>3 DEF UpdateOrDie
  <2> QED BY <1>1, <2>1, EndIsLawful
<1> QED BY <1>2, <1>3

\* What is loaded no reviewer has in hand.
LEMMA StartIsLawful ==
  ASSUME OnePlanner, CaseInv, WorkInv, NEW p \in Planners, StartCycle(p)
  PROVE  Lawful
<1>1. \A q \in Planners : q = p
  BY DEF OnePlanner
<1>2. pc[p] = "idle" /\ UNCHANGED <<state, handling, pc, task>>
  BY DEF StartCycle, WorkInv, caseVars, dispatchVars
<1>3. todo'[p] = todo[p] \/ todo'[p] = Plannable
  BY DEF StartCycle, planVars, CaseInv, Shaped
<1>4. \A d \in todo'[p] : state[d] \in Unworked
  BY <1>3 DEF Plannable, Unworked, WorkInv
<1>5. \A r \in Reviewers : handling[r] # NoCase => handling[r] \notin todo'[p]
  BY <1>3 DEF Plannable, WorkInv
<1> QED BY <1>1, <1>2, <1>4, <1>5, SameCaseIsLawful DEF Lawful, WorkInv

\* A stop is legal from every state a case is worked in.
LEMMA StopsAreLawful ==
  ASSUME OnePlanner, CaseInv, WorkInv, NEW p \in Planners, ApplyStops(p)
  PROVE  Lawful
<1>1. \A q \in Planners : q = p
  BY DEF OnePlanner
<1>2. pc[p] = "idle" /\ UNCHANGED <<handling, pc, task>>
  BY DEF ApplyStops, WorkInv, dispatchVars
<1>3. PICK stops \in SUBSET todo[p] :
        /\ state' = [c \in Cases |-> IF c \in stops THEN "stopped" ELSE state[c]]
        /\ \E alloc \in Allocations(todo[p] \ stops, asOf[p]) :
             todo' = [todo EXCEPT ![p] = Funded(alloc)]
  BY DEF ApplyStops
<1>4. todo'[p] \subseteq todo[p]
  <2>1. PICK alloc \in Allocations(todo[p] \ stops, asOf[p]) :
          todo' = [todo EXCEPT ![p] = Funded(alloc)]
    BY <1>3
  <2>2. Funded(alloc) \subseteq todo[p]
    BY DEF Allocations, Funded
  <2> QED BY <2>1, <2>2 DEF CaseInv, Shaped
<1>5. todo[p] \subseteq Cases /\ \A r \in Reviewers : handling[r] \in Cases \cup {NoCase}
  BY DEF CaseInv, Shaped
<1>6. \A c \in Cases : Edge(c)
  BY <1>3 DEF Edge, LegalFrom, CanTransition, CaseTransitions, CaseState
<1>7. \A d \in todo'[p] : state'[d] \in Unworked
  BY <1>3, <1>4, <1>5 DEF WorkInv, Unworked
<1>8. \A r \in Reviewers : handling[r] # NoCase =>
        /\ state'[handling[r]] \notin {"open", "planning", "held_out"}
        /\ handling[r] \notin todo'[p]
  BY <1>3, <1>4, <1>5 DEF WorkInv
<1> QED BY <1>1, <1>2, <1>6, <1>7, <1>8 DEF Lawful, WorkInv

\* A dispatch is heard of by the planner that acts on the case.
LEMMA FinishIsLawful ==
  ASSUME OnePlanner, CaseInv, WorkInv, D!TypeOK, NEW p \in Planners, FinishCase(p)
  PROVE  Lawful
<1>1. PICK c : c = CaseOf(task[p])
  OBVIOUS
<1>2. c \in todo[p]
  BY <1>1 DEF FinishCase, D!Return, WorkInv
<1>3. pc'[p] = "idle" /\ UNCHANGED handling
  BY Leaves DEF FinishCase, Procs
<1>4. CASE /\ SetState(c, "awaiting_outcome")
           /\ todo' = [todo EXCEPT ![p] = @ \ {c}]
  BY <1>2, <1>3, <1>4, WorkIsLawful
<1>5. CASE EndCycle(p) /\ UNCHANGED state
  BY <1>3, <1>5, EndIsLawful
<1>6. CASE todo' = [todo EXCEPT ![p] = @ \ {c}] /\ UNCHANGED state
  <2>1. \A q \in Planners : q = p
    BY DEF OnePlanner
  <2>2. todo'[p] \subseteq todo[p]
    BY <1>6 DEF CaseInv, Shaped
  <2> QED BY <1>3, <1>6, <2>1, <2>2, QuietIsLawful DEF Placed
<1> QED BY <1>1, <1>4, <1>5, <1>6 DEF FinishCase

LEMMA PlanIsLawful ==
  ASSUME OnePlanner, CaseInv, WorkInv, D!TypeOK, NEW p \in Planners,
         Plan(p) \/ CrashPlanner(p)
  PROVE  Lawful
<1>1. ASSUME NEW c \in Cases, HoldOut(p, c) \/ Escalate(p, c)
      PROVE  Lawful
  BY <1>1, UpdateIsLawful DEF HoldOut, Escalate
<1>2. ASSUME NEW c \in Cases, DispatchCase(p, c)
      PROVE  Lawful
  <2>1. KeyFor(p, c) \in Fingerprint /\ CaseOf(KeyFor(p, c)) = c
    BY <1>2, KeyForIsKey DEF DispatchCase, CaseInv
  <2>2. /\ UNCHANGED <<state, phase, todo, handling>>
        /\ phase[p] = "acting" /\ c \in todo[p]
    BY <1>2 DEF DispatchCase, Acting, caseVars, planVars
  <2>3. task'[p] = KeyFor(p, c) /\ \A q \in Planners : q = p
    BY <1>2 DEF DispatchCase, D!Call, D!TypeOK, Procs, OnePlanner
  <2> QED BY <2>1, <2>2, <2>3, SameCaseIsLawful DEF Lawful, WorkInv
<1>3. CASE SpendBudget(p)
  <2>1. EndCycle(p) /\ pc'[p] = "idle" /\ UNCHANGED <<state, handling>>
    BY <1>3 DEF SpendBudget, caseVars, dispatchVars
  <2> QED BY <2>1, EndIsLawful
<1>4. CASE CrashPlanner(p)
  <2>1. EndCycle(p) /\ pc'[p] = "idle" /\ UNCHANGED <<state, handling>>
    BY <1>4, Leaves DEF CrashPlanner, caseVars, Procs
  <2> QED BY <2>1, EndIsLawful
<1> QED BY <1>1, <1>2, <1>3, <1>4, StartIsLawful, StopsAreLawful, FinishIsLawful DEF Plan

\* What a reviewer has in hand is no planner's, and was escalated.
LEMMA ReviewIsLawful ==
  ASSUME CaseInv, WorkInv, D!TypeOK, Hands, NEW r \in Reviewers,
         Review(r) \/ CrashReviewer(r)
  PROVE  Lawful
<1>1. \A p \in Planners : Placed(p) /\ phase'[p] = phase[p] /\ todo'[p] = todo[p]
  <2>1. r \in Procs /\ r \notin Planners
    BY RecoveryAssumption DEF Procs
  <2>2. \A p \in Planners : pc'[p] = pc[p] /\ task'[p] = task[p]
    <3>1. CASE FinishApproval(r) \/ CrashReviewer(r)
      BY <2>1, <3>1, Leaves DEF FinishApproval, CrashReviewer, Procs
    <3>2. CASE Approve(r)
      BY <2>1, <3>2 DEF Approve, D!Call, D!TypeOK, Procs
    <3>3. CASE UNCHANGED dispatchVars
      BY <3>3 DEF dispatchVars
    <3> QED BY <3>1, <3>2, <3>3 DEF Review, Reject, Refuse, LoadCase
  <2>3. UNCHANGED <<phase, todo>>
    BY DEF Review, Reject, Refuse, Approve, FinishApproval, LoadCase, CrashReviewer, planVars
  <2> QED BY <2>2, <2>3 DEF Placed
<1>2. /\ handling[r] \in Cases \cup {NoCase}
      /\ \A q \in Reviewers : handling'[q] = handling[q] \/ q = r
  BY DEF Review, Reject, Refuse, Approve, FinishApproval, LoadCase, CrashReviewer,
         CaseInv, Shaped
<1>3. CASE Refuse(r) \/ Approve(r) \/ CrashReviewer(r)
  <2>1. UNCHANGED state /\ (handling'[r] = handling[r] \/ handling'[r] = NoCase)
    BY <1>3 DEF Refuse, Approve, CrashReviewer, caseVars, CaseInv, Shaped
  <2> QED BY <1>1, <1>2, <2>1, QuietIsLawful
<1>4. CASE Reject(r)
  <2> DEFINE c == handling[r]
  <2>1. /\ c \in Cases /\ state' = [state EXCEPT ![c] = "stopped"]
        /\ handling'[r] = NoCase
    BY <1>2, <1>4 DEF Reject, Deciding, CaseInv, Shaped
  <2>2. Edge(c)
    BY <2>1 DEF Edge, LegalFrom, CanTransition, CaseTransitions, CaseState, CaseInv, Shaped
  <2> HIDE DEF c
  <2>3. "stopped" \in CaseState /\ "stopped" \in Unworked
    BY DEF CaseState, Unworked
  <2> QED BY <1>1, <1>2, <2>1, <2>2, <2>3, WriteIsLawful
<1>5. CASE FinishApproval(r)
  <2>1. handling'[r] = NoCase
    BY <1>5 DEF FinishApproval, CaseInv, Shaped
  <2>2. CASE UNCHANGED state
    BY <1>1, <1>2, <2>1, <2>2, QuietIsLawful
  <2>3. CASE SetState(handling[r], "awaiting_outcome")
    <3> DEFINE c == handling[r]
    <3>1. c = CaseOf(task[r]) /\ task[r] \in Fingerprint
      BY <1>5 DEF FinishApproval, D!Return, Hands, OwnCase, Handed, Procs
    <3>2. c \in Cases /\ c # NoCase
      BY <3>1, RecoveryAssumption DEF Fingerprint, CaseOf
    <3>3. /\ state[c] \notin {"open", "planning", "held_out"}
          /\ \A p \in Planners : c \notin todo[p]
      BY <3>2 DEF WorkInv
    <3>4. state' = [state EXCEPT ![c] = "awaiting_outcome"]
      BY <2>3 DEF SetState
    <3>5. Edge(c)
      BY <3>2, <3>3, <3>4 DEF Edge, LegalFrom, CaseInv, Shaped
    <3> HIDE DEF c
    <3>6. "awaiting_outcome" \in CaseState
      BY DEF CaseState
    <3> QED BY <1>1, <1>2, <2>1, <3>2, <3>3, <3>4, <3>5, <3>6, WriteIsLawful
  <2> QED BY <1>5, <2>2, <2>3 DEF FinishApproval
<1>6. ASSUME NEW c \in Cases, LoadCase(r, c)
      PROVE  Lawful
  <2>1. /\ UNCHANGED <<state>> /\ handling'[r] = c /\ state[c] = "escalated"
    BY <1>6 DEF LoadCase, caseVars, CaseInv, Shaped
  <2>2. \A p \in Planners : c \notin todo[p]
    BY <2>1 DEF WorkInv, Unworked
  <2>3. \A p \in Planners :
          pc'[p] # "idle" => phase'[p] = "acting" /\ CaseOf(task'[p]) \in todo'[p]
    BY <1>1 DEF WorkInv, Placed
  <2>4. \A q \in Reviewers : handling'[q] # NoCase =>
          /\ state'[handling'[q]] \notin {"open", "planning", "held_out"}
          /\ \A p \in Planners : handling'[q] \notin todo'[p]
    BY <1>1, <1>2, <2>1, <2>2 DEF WorkInv
  <2>5. \A p \in Planners : \A d \in todo'[p] : state'[d] \in Unworked
    BY <1>1, <2>1 DEF WorkInv
  <2> QED BY <2>1, <2>3, <2>4, <2>5, SameCaseIsLawful DEF Lawful, WorkInv
<1> QED BY <1>3, <1>4, <1>5, <1>6 DEF Review

LEMMA StepIsLawful ==
  OnePlanner /\ CaseInv /\ D!TypeOK /\ Hands /\ WorkInv /\ [Next]_vars
    /\ [SettledKept]_(D!vars) => Lawful
<1> SUFFICES ASSUME OnePlanner, CaseInv, D!TypeOK, Hands, WorkInv, [Next]_vars,
                    [SettledKept]_(D!vars)
             PROVE  Lawful
  OBVIOUS
<1>1. SettledKept
  BY DEF SettledKept, D!vars
<1>2. CASE UNCHANGED <<state, phase, todo, handling, pc, task>>
  BY <1>2, QuietIsLawful DEF Placed
<1>3. ASSUME NEW p \in Procs, InDispatch(p)
      PROVE  Lawful
  <2>1. D!Step(p) /\ UNCHANGED <<state, phase, todo, handling>>
    BY <1>3 DEF InDispatch, caseVars, planVars
  <2>2. \A q \in Planners : Placed(q)
    BY <1>1, <2>1, StepKeeps DEF Placed, Procs
  <2> QED BY <2>1, <2>2, QuietIsLawful
<1>4. ASSUME NEW c \in Cases, Capture(c)
      PROVE  Lawful
  <2>1. /\ state' = [state EXCEPT ![c] = "recovered"]
        /\ UNCHANGED <<phase, todo, handling, pc, task>>
    BY <1>4 DEF Capture, SetState, planVars, dispatchVars
  <2>2. Edge(c)
    BY <2>1 DEF Edge, LegalFrom, CanTransition, CaseTransitions, CaseState, CaseInv, Shaped
  <2>3. "recovered" \in CaseState /\ "recovered" \in Unworked
    BY DEF CaseState, Unworked
  <2> QED BY <2>1, <2>2, <2>3, WriteIsLawful DEF Placed
<1>5. CASE NextDay \/ (\E k \in Fingerprint : LockExpires(k)) \/ UNCHANGED vars
  BY <1>2, <1>5 DEF NextDay, LockExpires, D!LockExpires, vars, caseVars, planVars, dispatchVars
<1> QED BY <1>3, <1>4, <1>5, PlanIsLawful, ReviewIsLawful DEF Next, Procs

LEMMA WorkInitially == Init => WorkInv
BY DEF Init, D!Init, WorkInv, Procs

\* "No illegal transition" (domain/fsm.py:5), while a case is worked and nothing
\* is over: for any cases, reviewers, captures and crashes, as long as one planner
\* runs at a time.  Of two that overlap, one escalates what the other's escalation
\* had approved.
THEOREM WorkedByTheBook ==
  ASSUME OnePlanner
  PROVE  Spec => LegalWhileWorked
<1> DEFINE Legal == \A c \in Cases, s \in {"open", "held_out", "awaiting_outcome"} :
                      LegalFrom(c, s)
<1>1. CaseInv /\ D!TypeOK /\ TreatInv /\ WorkInv /\ [Next]_vars
        /\ [SettledKept]_(D!vars) => WorkInv' /\ Legal
  BY StepIsLawful DEF Lawful, Edge, TreatInv
<1>2. Init => WorkInv
  BY WorkInitially
<1> HIDE DEF Legal
<1>3. Spec => [][Legal]_vars
  BY <1>1, <1>2, CaseInvariance, DispatcherInvariance, TreatInvariance, PTL DEF Spec
<1> QED BY <1>3 DEF LegalWhileWorked, Legal
=============================================================================
