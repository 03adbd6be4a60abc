------------------------------ MODULE Dispatch ------------------------------
(***************************************************************************)
(* control/yukti/dispatch/dispatcher.py: turning a decided action into an  *)
(* effect exactly once.  Each process runs Dispatcher.dispatch on its own  *)
(* database connection; they share Redis (the lock), Postgres (the         *)
(* recovery_action rows and the outbox) and the vendor.                    *)
(*                                                                         *)
(*   lock -> write intent (pending) -> COMMIT -> call adapter -> mark      *)
(*                                                                         *)
(* A vendor request is counted every time it lands: nothing here relies on *)
(* the vendor recognising a repeated key.                                  *)
(***************************************************************************)
EXTENDS Naturals

CONSTANTS
  Procs,         \* processes that dispatch: planners and approval handlers
  Keys,          \* idempotency keys (what fingerprint() can return)
  NoKey,         \* the value of task for a process with no action in hand
  MaxCrashes     \* bound on the crashes of one behaviour

ASSUME DispatchAssumption ==
  /\ NoKey \notin Keys
  /\ MaxCrashes \in Nat

VARIABLES
  pc,            \* pc[p]: the next step of p inside dispatch()
  task,          \* task[p]: the key of the action p is dispatching
  outcome,       \* outcome[p]: the DispatchOutcome, or the vendor's answer
  lock,          \* lock[k]: the Redis lock key of k exists
  action,        \* action[k]: status of the recovery_action row of k
  effects,       \* effects[k]: requests with key k that the vendor executed
  announced,     \* announced[k]: outbox rows enqueued for k
  crashes        \* crashes so far

vars == <<pc, task, outcome, lock, action, effects, announced, crashes>>

Absent   == "absent"
Settled  == {"dispatched", "failed", "rejected"}
Statuses == {Absent, "pending"} \cup Settled
Steps    == {"idle", "acquire", "intent", "invoke", "settle", "release", "done"}
Answers  == {"ok", "error", "invalid"}
Outcomes == {"none", "dispatched", "duplicate", "failed"} \cup Answers

-----------------------------------------------------------------------------

Init ==
  /\ pc = [p \in Procs |-> "idle"]
  /\ task = [p \in Procs |-> NoKey]
  /\ outcome = [p \in Procs |-> "none"]
  /\ lock = [k \in Keys |-> FALSE]
  /\ action = [k \in Keys |-> Absent]
  /\ effects = [k \in Keys |-> 0]
  /\ announced = [k \in Keys |-> 0]
  /\ crashes = 0

\* The caller enters dispatch() with an action whose fingerprint is k.
Call(p, k) ==
  /\ pc[p] = "idle"
  /\ pc' = [pc EXCEPT ![p] = "acquire"]
  /\ task' = [task EXCEPT ![p] = k]
  /\ outcome' = [outcome EXCEPT ![p] = "none"]
  /\ UNCHANGED <<lock, action, effects, announced, crashes>>

\* SET NX.  A held lock returns at once, before the try whose finally releases.
Acquire(p) ==
  /\ pc[p] = "acquire"
  /\ \/ /\ ~lock[task[p]]
        /\ lock' = [lock EXCEPT ![task[p]] = TRUE]
        /\ pc' = [pc EXCEPT ![p] = "intent"]
        /\ UNCHANGED outcome
     \/ /\ lock[task[p]]
        /\ pc' = [pc EXCEPT ![p] = "done"]
        /\ outcome' = [outcome EXCEPT ![p] = "duplicate"]
        /\ UNCHANGED lock
  /\ UNCHANGED <<task, action, effects, announced, crashes>>

\* RedisError: proceed without the lock and let the unique index do its job.
AcquireUnlocked(p) ==
  /\ pc[p] = "acquire"
  /\ pc' = [pc EXCEPT ![p] = "intent"]
  /\ UNCHANGED <<task, outcome, lock, action, effects, announced, crashes>>

\* Mutant: ON CONFLICT DO UPDATE, a retry takes an existing row over.
RecordIntentUpsert(p) ==
  /\ pc[p] = "intent"
  /\ action' = [action EXCEPT ![task[p]] = "pending"]
  /\ pc' = [pc EXCEPT ![p] = "invoke"]
  /\ UNCHANGED <<task, outcome, lock, effects, announced, crashes>>

\* Mutant: the commit is left to the end, so nothing is durable at the call.
RecordIntentUncommitted(p) ==
  /\ pc[p] = "intent"
  /\ pc' = [pc EXCEPT ![p] = IF action[task[p]] = Absent THEN "invoke" ELSE "release"]
  /\ outcome' = [outcome EXCEPT ![p] =
                    IF action[task[p]] = Absent THEN @ ELSE "duplicate"]
  /\ UNCHANGED <<task, lock, action, effects, announced, crashes>>

\* INSERT ... ON CONFLICT DO NOTHING, then COMMIT, before anything external.
\* An insert that conflicts with an uncommitted one waits for it, so insert and
\* commit are one step.
RecordIntent(p) ==
  /\ pc[p] = "intent"
  /\ \/ /\ action[task[p]] = Absent
        /\ action' = [action EXCEPT ![task[p]] = "pending"]
        /\ pc' = [pc EXCEPT ![p] = "invoke"]
        /\ UNCHANGED outcome
     \/ /\ action[task[p]] # Absent
        /\ pc' = [pc EXCEPT ![p] = "release"]
        /\ outcome' = [outcome EXCEPT ![p] = "duplicate"]
        /\ UNCHANGED action
  /\ UNCHANGED <<task, lock, effects, announced, crashes>>

\* The adapter call.  "ok": the vendor acted and answered.  "error": the call
\* failed.  "invalid": ValueError or KeyError, raised by the tool before it sent
\* anything or on an answer it could not read (resp.json(), body["id"]).  After
\* either failure nobody knows whether the vendor acted.
Invoke(p) ==
  /\ pc[p] = "invoke"
  /\ \E landed \in BOOLEAN, answer \in Answers :
       /\ answer = "ok" => landed
       /\ effects' = [effects EXCEPT ![task[p]] = IF landed THEN @ + 1 ELSE @]
       /\ outcome' = [outcome EXCEPT ![p] = answer]
  /\ pc' = [pc EXCEPT ![p] = "settle"]
  /\ UNCHANGED <<task, lock, action, announced, crashes>>

\* Mutant: a failed call is recorded and announced like a successful one.
SettleBlindly(p) ==
  /\ pc[p] = "settle"
  /\ action' = [action EXCEPT ![task[p]] = "dispatched"]
  /\ announced' = [announced EXCEPT ![task[p]] = @ + 1]
  /\ outcome' = [outcome EXCEPT ![p] = "dispatched"]
  /\ pc' = [pc EXCEPT ![p] = "release"]
  /\ UNCHANGED <<task, lock, effects, crashes>>

\* Mutant: the except branch returns without marking the row.
SettleForgetsFailure(p) ==
  /\ pc[p] = "settle"
  /\ LET ok == outcome[p] = "ok" IN
       /\ action' = [action EXCEPT ![task[p]] = IF ok THEN "dispatched" ELSE @]
       /\ announced' = [announced EXCEPT ![task[p]] = IF ok THEN @ + 1 ELSE @]
       /\ outcome' = [outcome EXCEPT ![p] = IF ok THEN "dispatched" ELSE "failed"]
  /\ pc' = [pc EXCEPT ![p] = "release"]
  /\ UNCHANGED <<task, lock, effects, crashes>>

\* Mutant: the row is marked with the vendor's answer instead of an ActionState.
SettleRaw(p) ==
  /\ pc[p] = "settle"
  /\ action' = [action EXCEPT ![task[p]] = outcome[p]]
  /\ outcome' = [outcome EXCEPT ![p] = IF @ = "ok" THEN "dispatched" ELSE "failed"]
  /\ pc' = [pc EXCEPT ![p] = "release"]
  /\ UNCHANGED <<task, lock, effects, announced, crashes>>

\* _mark, _publish and the audit row commit together, or _mark alone on failure.
Settle(p) ==
  /\ pc[p] = "settle"
  /\ \/ /\ outcome[p] = "ok"
        /\ action' = [action EXCEPT ![task[p]] = "dispatched"]
        /\ announced' = [announced EXCEPT ![task[p]] = @ + 1]
        /\ outcome' = [outcome EXCEPT ![p] = "dispatched"]
     \/ /\ outcome[p] \in {"error", "invalid"}
        /\ action' = [action EXCEPT ![task[p]] =
                        IF outcome[p] = "error" THEN "failed" ELSE "rejected"]
        /\ outcome' = [outcome EXCEPT ![p] = "failed"]
        /\ UNCHANGED announced
  /\ pc' = [pc EXCEPT ![p] = "release"]
  /\ UNCHANGED <<task, lock, effects, crashes>>

\* finally: delete the lock key, whoever holds it; a RedisError is swallowed.
Release(p) ==
  /\ pc[p] = "release"
  /\ \/ lock' = [lock EXCEPT ![task[p]] = FALSE]
     \/ UNCHANGED lock
  /\ pc' = [pc EXCEPT ![p] = "done"]
  /\ UNCHANGED <<task, outcome, action, effects, announced, crashes>>

\* dispatch() returns; the caller reads outcome[p] in this step.
Return(p) ==
  /\ pc[p] = "done"
  /\ pc' = [pc EXCEPT ![p] = "idle"]
  /\ task' = [task EXCEPT ![p] = NoKey]
  /\ outcome' = [outcome EXCEPT ![p] = "none"]
  /\ UNCHANGED <<lock, action, effects, announced, crashes>>

\* LOCK_TTL_SECONDS passes: a lock disappears whatever its holder is doing.
LockExpires(k) ==
  /\ lock[k]
  /\ lock' = [lock EXCEPT ![k] = FALSE]
  /\ UNCHANGED <<pc, task, outcome, action, effects, announced, crashes>>

\* The process dies.  Its open transaction rolls back; what was committed, the
\* Redis lock and whatever the vendor did all stay.
Crash(p) ==
  /\ crashes < MaxCrashes
  /\ crashes' = crashes + 1
  /\ pc' = [pc EXCEPT ![p] = "idle"]
  /\ task' = [task EXCEPT ![p] = NoKey]
  /\ outcome' = [outcome EXCEPT ![p] = "none"]
  /\ UNCHANGED <<lock, action, effects, announced>>

Step(p) ==
  Acquire(p) \/ AcquireUnlocked(p) \/ RecordIntent(p) \/ Invoke(p)
    \/ Settle(p) \/ Release(p)

Next ==
  \/ \E p \in Procs : Step(p) \/ Return(p) \/ Crash(p)
  \/ \E p \in Procs, k \in Keys : Call(p, k)
  \/ \E k \in Keys : LockExpires(k)

Spec == Init /\ [][Next]_vars

\* A running process keeps running: dispatch() is straight-line code whose only
\* waits (the adapter's HTTP timeout, the database) are bounded.
Fairness == \A p \in Procs : WF_vars(Step(p)) /\ WF_vars(Return(p))
FairSpec == Spec /\ Fairness

-----------------------------------------------------------------------------
(* Properties *)

TypeOK ==
  /\ pc \in [Procs -> Steps]
  /\ task \in [Procs -> Keys \cup {NoKey}]
  /\ outcome \in [Procs -> Outcomes]
  /\ lock \in [Keys -> BOOLEAN]
  /\ action \in [Keys -> Statuses]
  /\ effects \in [Keys -> Nat]
  /\ announced \in [Keys -> Nat]
  /\ crashes \in Nat

\* A re-run planning cycle, a second planner or a crash never causes a second
\* effect for one fingerprint, even with Redis down or the lock expired
\* (dispatcher.py:3-16: "must never produce a second discount or a second debit").
AtMostOneEffect == \A k \in Keys : effects[k] <= 1

\* No effect without a durable record of it (dispatcher.py:32-36).
IntentBeforeEffect == \A k \in Keys : effects[k] > 0 => action[k] # Absent

\* A row says "dispatched" exactly when its announcement was enqueued, once, and
\* then the vendor did act, whoever raced or died on the way.  A row that says
\* "failed" or "rejected" says nothing of the vendor: it may have acted.
RecordsTruthful ==
  \A k \in Keys :
    /\ announced[k] = IF action[k] = "dispatched" THEN 1 ELSE 0
    /\ action[k] = "dispatched" => effects[k] = 1

\* Once an action has an outcome no later dispatch, duplicate or crash rewrites it.
SettledIsFinal ==
  [][\A k \in Keys : action[k] \in Settled => action'[k] = action[k]]_vars

\* Every committed intent gets an outcome (dispatcher.py:33-34: a pending row "is
\* recoverable - a sweeper retries with the same key").
PendingIsResolved ==
  \A k \in Keys : (action[k] = "pending") ~> (action[k] \in Settled)

\* Nothing but a crash leaves an intent without an outcome: not the vendor, not
\* Redis, not another process.
OnlyCrashesStrand ==
  \A k \in Keys : (action[k] = "pending") ~> (action[k] \in Settled \/ crashes > 0)

\* The promise to callers, as a refinement.
Claimed == {k \in Keys : action[k] # Absent}
Ledger == INSTANCE ActionLedger WITH claimed <- Claimed
LedgerSpec == Ledger!Spec
=============================================================================
