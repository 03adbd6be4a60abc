# Yukti: a TLA+ verification project

Yukti recovers failed payments. A webhook gateway (`edge/`, Go) puts payment events
on Kafka; a consumer (`control/yukti/opportunity`) turns a failure into a recovery
case and a capture into its closing; a planner (`control/yukti/pipeline.py`) works the
open cases, within policy and budget, through a dispatcher
(`control/yukti/dispatch`) that calls the vendor; humans decide the escalated ones
(`control/yukti/approvals.py`). Postgres is the meeting point, Redis a cache in front
of two dedups and a lock.

This directory models the parts where several processes, crashes and redelivery meet,
and the decisions the planner takes when it is left alone.
Paths below are relative to the repository root.

## Inventory

| component | state it keeps | operations | what is hard | what makes it correct |
|---|---|---|---|---|
| edge gateway, `edge/` | Redis keys, client buffer | handleWebhook, shutdown | concurrent redelivery, asynchronous produce, Redis down | a webhook is produced once; what is acknowledged is not lost |
| opportunity, `opportunity/` | offset, processed_event, cases, Redis keys | run, ingest, commit | open batches, rebalances, two dedups with different lifetimes | no event lost, none applied twice, one live case |
| planning cycle, `pipeline.py` | cases, decisions, ledger | plan_cycle | many transactions, overlapping cycles, crash anywhere | holdouts untreated, budget kept, stops final |
| approvals, `approvals.py` | cases | decide | unlocked read, races with planner and reviewer | one decision takes effect |
| dispatcher, `dispatch/dispatcher.py` | recovery_action, Redis lock, outbox | dispatch | crash around the vendor call, lock expiry | one effect per fingerprint, truthful records |
| budget, `allocator/budget.py` | budget_ledger | load, spend | read before, charge after | within the limit, equal to what was sent |
| case lifecycle, `domain/fsm.py` | recovery_case.state | every writer | writers do not consult the machine | only declared edges |
| outbox relay, `dispatch/outbox.py` | outbox, client buffer | enqueue, drain | flush timeout, several relays, ids older than their commit | announced means decided; nothing decided is passed over |
| audit chain, `audit.py` | audit_event | append, verify | concurrent appends under READ COMMITTED | the chain verifies |
| policy, `policy/` | merchant_policy | evaluate, seed, load | order of rules, boundaries, missing settings | narrower allows less; approval answers only the escalation |
| stopping rules, candidates, scoring, `stopping/`, `candidates.py`, `scoring.py` | none | pure functions | honest reasons, rounding, boundaries | a stop says what would have prevented it |
| allocator, `allocator/` | a streaming window | solve, repair, admit | integrality, exchanges, arrival order | feasible for every budget; the dual is a bound |
| sandbox vendor and adapters, `sandbox/`, `dispatch/adapters.py`, `dispatch/tools.py` | links, attempts, calls, idempotency keys, webhooks | REST calls, notify, emit | retries during a handler, restarts, two-call tools | same key, same resource, one effect |
| agent and LLM chain, `agent/`, `llm/` | runs, evidence, conclusions, breaker, cache | advise, compose, complete | failing providers, re-entry, crash | cites what it was shown, ends, never decides money |
| operator commands, `cli.py` | none of their own | seed_policy, reset_planning, outbox, agent | they act on live tables | as their components |
| attribution, `experiment/` | recovery_outcome | attribute, record | check-then-insert | one outcome per case |
| intelligence, evaluation, data generation, API | none that others share | numeric, read-only | floating point | outside this project |

## Modules

`ActionLedger` is the abstract promise of the dispatcher. `Dispatch` is the
dispatcher and implements it. `DispatchProofs` holds its theorems. `CaseStates` is
the declared state machine as data. `Recovery` composes cases, cycles, approvals,
captures and the ledger over an instance `D` of `Dispatch`. `Ingest` and `Edge` stand
alone: the topic between them is the log of `Ingest`, to which any event may be
appended again at any time, which is more than `Edge` can do.

`Domain` holds the vocabularies and the decline table; `Policy`, `Candidates`,
`Stopping`, `Scoring` and `Allocator` are the planner's pure parts as operators.
`Planning` composes all of them into the cycles of one merchant, `Admission` drives the
allocator's streaming window. `Vendor` is the vendor with the tools, adapters and
webhooks around it, `Relay` what a decision leaves in the outbox and the audit chain,
`Agent` the agent with its provider chain. `RecoveryProofs`, `IngestProofs`, `EdgeProofs`,
`VendorProofs`, `RelayProofs` and `AgentProofs` hold theorems about the module they are
named after, `PlanningProofs` those about `Planning` and what it is made of: `Policy`,
`Stopping`, `Allocator` and `Admission`.
Every `MC*` module only defines small sets for its module; the `.cfg` files pick among
them.

### Dispatch

Each process runs `Dispatcher.dispatch` on its own connection. `pc` is its place in
it. The code's lines and the actions are one to one: `Acquire` and `AcquireUnlocked`
(Redis SET NX, and Redis failing), `RecordIntent` (the insert and its commit),
`Invoke` (adapter), `Settle` (mark, publish, audit, commit), `Release` (finally),
`Return`. The intent's insert and commit are one step because a conflicting insert
waits for the first transaction. `Invoke` chooses both whether the request landed and
what came back. Any failure may have landed: an AdapterError, and a ValueError or KeyError
too. dispatcher.py:157-160 takes the latter for a malformed action that can never work,
but they are also what an answer that cannot be read raises after the vendor acted
(`resp.json()`, `body["id"]` in adapters.py:96, 120, 138, 160; `_medium()` after the link
exists in tools.py:173-175, 200-202). So "failed" and "rejected" say nothing of the
vendor, and `RecordsTruthful` claims nothing of them. The vendor's idempotency is not used:
every landed request counts in `effects`, so the results hold for a vendor without
it. `LockExpires` is the Redis TTL. `Crash` rolls back nothing that was committed.
Not modelled: `dry_run`, which changes nothing, and a tool answer without an effect
(`skipped`), which no tool gives.

### Recovery

One action is one database transaction of `plan_cycle`, `decide` or `_resolve`.
`StartCycle` loads the open cases, `ApplyStops` reads the budget and stops cases,
`HoldOut`, `Escalate` and `DispatchCase` are the branches of `_act`, `FinishCase` is
what `_act` does with the dispatcher's answer, `SpendBudget` is the charge at the end.
Which cases are stopped and which actions are funded are choices: any set of stops,
any allocation with one action per case and contacts within the budget it read.
Policy blocks an allocated action never: the second evaluation has the same inputs
as the feasibility filter before the allocation. Every case state is written by an
UPDATE without a guard on the old state; the CHECK `stop_reason_iff_stopped` refuses
it for a stopped case, and the exception ends the cycle (`UpdateOrDie`). `Capture` is
the consumer closing a case at any moment. The scheduled day of an action is the
planning day. `proposal` is the action of a case's latest escalating decision.

### Ingest

One partition (the topic is keyed by merchant) and a consumer group. A consumer has an open
transaction: `ids` (its processed_event rows) and `draft` (its writes to cases). `Skip`,
`Apply` and `Quarantine` are the three fates of a polled message, `CommitBatch` the database
commit, `CommitOffsets` the offset commit after it, `Drain` the end of the loop on an idle
topic, a lost partition or a signal. Ingesting one message is one action, since every read
in it is of rows its own transaction or a committed one wrote, and an insert or update that
would wait for another transaction disables the action. Redis is written at once, whatever
becomes of the transaction: that is what most of the findings here come from. `Assign`,
`Lapse` and `Revoke` are the coordinator: a member may lose the partition and hear of it
later. `StopCase` and `ReopenCase` are a planner or reviewer with a list older than a case's
closing: `_record_stop` and `_act` write by id alone (pipeline.py:611-615, 733-789), so a
recovered case may be stopped, or put back to work with its `closed_at` set; only the CHECK
constraint and the unique index stand in the way. (`CaptureCloses` is about what a capture
finds; a case put back to work after it is "reopened" and told apart.) `Choke` is a message
that raises outside the three exceptions the loop catches: the consumer ends, and its
successor meets the message again. `obligation.version` is never written by the control
plane, so the version layer is inert and `ObligationVersion` is a constant. A case row is
named by the offset of the event that opened it.

### Edge

`step[r][e]` is where replica r is in `handleWebhook` for webhook e: `Verify` (signature,
shape, freshness), `FirstSight` (Redis SET NX behind FailOpen), `Produce`, `Reply`. go-redis
tries a command again when its answer is lost, so besides an answer `FirstSight` has two
outcomes: nothing answered, with the key set or not ("redis_down": let through), and a
second try that finds the key its own first try left ("set_twice": taken for a duplicate).
`RedisRestart` empties Redis, which persists nothing (docker-compose.yml:27). `Produce` only
queues a record in the client and cannot fail, so the 503 branch never runs. `Flush` and
`Abandon` are the client's background work. The sender repeats a webhook at will. `Shutdown`
and `Exit` are SIGTERM: requests are drained, the buffer is not; `Crash` loses both. A
request that outlasts the 20 s of srv.Shutdown is a crash.

### Planning

One merchant, cycle after cycle, day after day. `Propose` generates the candidates of the
open cases and drops what the agent advises against (any set of suppressed issuers), `Judge`
runs the stopping rules and records the stops, `Act` filters by policy, allocates (`plan`
keeps what the allocator was given and made of it), and walks the branches of `_act` for
what was funded: holdouts, escalations, dispatches, and the charge. A dispatch may fail, and
may have reached the customer all the same: `sent` is what is on record with a
`dispatched_at`, `landed` what was carried out, on record or not. Only the former counts for
the week (features.py:270-278), is charged, and takes the case out of the next cycle.
`Indexed` is `index_discount`, which tells two offers apart by their discount in paise.
`NextDay` opens a new ledger row. A cycle runs alone here and its choices are the code's;
Recovery has the interleavings and leaves the choices open. Together they cover
`plan_cycle`. A fitted scorer is a table from score keys (`KeyFor`: case, kind, channel,
discount) to effects, 0 for a key it lacks; `Fitted` is one that tells
cases, channels and discounts apart. Money is in paise, effects in ten-thousandths, percentages whole, hours since the
first midnight. `Prices` is a finite grid in place of the floats the bisection ends on; a
coarser multiplier only makes the repair passes work harder. `Fit` fits the debit-timing
model to a `History` of mandate attempts; a cycle has it or, where it cannot be loaded, has
none. `PlanningAssumption` states the types of what is loaded: rows, packs of a merchant's
settings and scorers (`IsRow`, `IsPack`, `IsScorer`). Two columns the stopping rules would
read, `issuer_degraded` and `had_recent_discount`, are not selected by `OPEN_CASE_SQL`, so
they are FALSE here as they are in the code. The tools do not look at `scheduled_for`;
`Executed` records both hours.

### Admission

`EmptyWindow` solves a population in batch within an `Authorised` budget; `Offer` decides
one candidate at once, at the price the batch left. A choice is a set of the population's
indices. `Window` explores all arrival orders of a population.

### Vendor

`tool[j]` is the HTTP call a job's process waits for; a request is `sent`, `emitting`
(its handler is posting a webhook, the only point where the asyncio process yields),
`answered` or `refused`. `GiveUp` is an AdapterError: the request goes on although
nobody waits. `Redispatch` is the retry under the same key that the dispatcher's
comments promise. `Restart` forgets the store, which is memory. `ResetPlanning` is the
operator's command. What a customer does is a choice.

`cases[o]` are the cases of an obligation, one after another. `ListCases` loads the open
ones once, as a cycle does, and `Dispatch(j, n)` works case n from that list, whatever has
become of the case since. With `Overlap` FALSE one cycle runs at a time (the CronJob
forbids a second, `infra/k8s/planner-cronjob.yaml:21`); with it TRUE lists of several
cycles mix. `Consume` stands for Edge and Ingest: a capture recovers the live case, a
failure opens a new one when none is live, also after an earlier case was recovered, and
`FailElsewhere` is a failure none of the jobs caused. `Done` sends the case to
awaiting_outcome by id, even one that was recovered meanwhile. `Misread` is "rejected" after
the vendor acted.

### Relay

`Begin`, `ReadTip`, `AppendRow`, `Commit`, `Rollback` are a deciding transaction under
READ COMMITTED. `SELECT ... FOR UPDATE` is two steps, the snapshot and the grant; the
row lock is held to the end of the transaction, and since a locked tip is never
updated, the one who waited gets the row it selected. A hash is the row it is the hash
of. `BeginDrain`, `Acked`, `Undelivered`, `Flushed`, `RelayDies` are a relay: a batch
locked with SKIP LOCKED, the client's queue, which keeps the order of a partition key,
a record given up (that may have arrived), the end of flush with or without everything
delivered.

### Agent

`Degraded` is the scan of `intelligence/degradation.py` over a market's attempts. A
process asks one question at a time. `Advise` reads the conclusions of its run and
gathers evidence afresh; `Ask` starts the chain at the first provider; `Analysed`,
`Answered`, `PassedOver`, `Malformed`, `StepDown`, `Refused` are the fates of a call and
`Exhausted` the default when no provider is left. The CLI commits at the end of a run,
so `Crash` takes back what the run wrote. A process may call advise several times, as a
long-lived caller would; the CLI calls it once. Citations are ids of evidence; a model
may cite anything that exists and id 0, which does not.

## Runs

| run | instance | shows |
|---|---|---|
| MCDispatch | 2 processes, 2 keys, 2 crashes | one effect per fingerprint, intent before effect, truthful and final records, an outcome for every intent no crash stranded, refinement of ActionLedger |
| RecoveryLedger | 1 case, 2 overlapping cycles, 2 days, limit 1, 1 crash | ledger backed by contacts; stops final; every cycle ends |
| RecoveryReviews | one ordinary, one held-out, one escalated case; planner, reviewer, 1 crash | holdouts untreated; no case waits for an action nobody sent; declared edges while a case is worked; the cases use the dispatcher as Dispatch!Spec allows |
| IngestDurable | 2 members, a failure and a capture in every order and number up to 3, 2 faults, Redis down | nothing skipped, captures close, every event handled in the end |
| IngestMixed | the same with Redis coming and going, one failure under two ids, malformed, unparseable and foreign messages, one that ends the consumer, planners with old lists, 1 fault | no double case, no second case of an event, no event or replay changes a closed case |
| EdgeFaults | 2 replicas, 2 deliveries of each webhook, a forged one, 2 faults of any kind | duplicates only when Redis failed or restarted; a forged webhook claims no dedup key and reaches no topic; losses only by a crash, a stop, a record the client gave up or a SET NX applied twice |
| Admission | 5 candidates of 3 cases, 48 populations under 12 budgets, every arrival order | batch and stream stay feasible; the dual bounds the true optimum (enumerated) when no customer has two cases |
| Planning | 3 cases of 1 or 2 customers, 8 books, 2 policies, 4 scorers, 3 budgets, 3 days | nobody is contacted once the contacts on record reach the weekly cap, across cases, days and dispatches that failed and landed; a day charges no more than its budgets, and its contacts, landed failures included, stay within theirs; "discount budget spent" is said only where a larger budget would have kept the case; no survivor's free retry is left undone |
| Vendor | 3 jobs of one obligation and its successive cases over 2 days, one cycle at a time, 2 executions each, 2 faults | one effect per key; dispatched means done; a case is paid twice only when a paying job of it failed, was rejected, is pending or was tried again |
| Relay | 2 merchants, 2 relays with batches of 2, 3 transactions (2 at once), 2 outbox rows, 1 fault | uncontended chains verify; the topic has only decided, audited actions; a marked row is missing only after a flush gave up on it; every decision is published |
| Agent | 2 processes, 2 providers (2 and 1 output modes), 2 issuers under 5 sets of attempts, 1 template, 2 advices, 1 crash | model conclusions cite what they were shown; a provider is refused once a process; every run ends |
| RelayFork (a violation) | the instance of Relay, safety only | ChainIntact fails: two appends of one merchant chain to the same predecessor, against audit.py:84-86. `IntactUnlessContended` is what holds |

Each passing property has a mutant in PROJECT.json: an operator that changes one
mapped definition as a plausible bug would, under which TLC finds the property violated.

Further instances, kept for the reader. This one passes:

| instance | property | what TLC finds |
|---|---|---|
| RecoveryDays | TypeOK, LedgerExact, CyclesEnd | with one planner, each day is charged for exactly its dispatched contacts, midnight falling anywhere in a cycle |

TLC refutes these (`tlc -config EdgeAck.cfg MCEdge`; TLC stops at the
first property of a `.cfg`: leave the others out to see one of them). Each states what a sentence of the
repository says; the passing properties name the same exceptions, where there is a
weaker statement that holds:

| instance | property | what TLC finds |
|---|---|---|
| MCDispatchSweeper | PendingIsResolved | after a crash a pending row stays pending: dispatcher.py:33-34 promises a sweeper, and `pending_actions` has no caller. `OnlyCrashesStrand` is what holds |
| RecoveryBudget | ContactsWithinBudget | two cycles read the same budget and both dispatch; only the second charge is refused (planner-cronjob.yaml:17-19 calls that safe). `LedgerWithinLimit` is what holds |
| RecoveryBudget with `Planners <- OnePlanner` | ContactsWithinBudget | a crash before the charge gives the re-run a full budget (pipeline.py:13-16, budget.py:3-6). `LedgerBacked` is what holds |
| RecoveryDecisions | ClosedStaysClosed | a capture during a cycle is overwritten by the state the cycle decided on (fsm.py:28: a terminal state has no outgoing edges). A stop does the same (pipeline.py:611-615). `StoppedNeverResumes` holds, with one planner at a time `LegalWhileWorked`, and `ClosedToEvents` says that nobody else changes a closed case |
| RecoveryDecisions | RejectedNothingSent | two reviewers decide one case: it is rejected ("no action sent", approvals.py:161-162) although the other's approval was sent |
| RecoveryDecisions | LegalFromEscalated | an approval goes from escalated to awaiting_outcome, an edge fsm.py:52-56 does not list. `LegalWhileWorked` is what holds with one planner at a time |
| IngestMalformed | NothingSkipped | a malformed message discards its batch, and the offset passes it (consumer.py:202-207) |
| IngestMalformed with `Events <- WithPoisoned`, FairSpec | EveryEventHandled | an event that raises past the dedup what the loop does not catch ends every consumer that reads it: "a consumer that dies on one bad record turns a single malformed event into an outage" (consumer.py:199-201). With events that validate it holds (IngestDurable) |
| IngestRedis | NothingSkipped | after a crash Redis calls the replayed event a duplicate although the database rolled it back (consumer.py:3-6). With Redis down it holds |
| IngestRedis | CaptureWins | a capture before its failure leaves a live case, against tests/integration/test_opportunity_idempotency.py:101-102. `CaptureCloses` is what holds |
| IngestRedis | CaptureCloses | an evicted member commits a case after its capture was applied: its successor skipped the failure because of a Redis key (consumer.py:81-97) |
| EdgeAck | AckedIsDurable | the 200 leaves while the record is in the client's buffer (main.go:116-118, producer.go:39). `AckedArrives` is what holds |
| EdgeAck | AckedIsKept | a graceful stop drops acknowledged records (main.go:209-210). `AckedArrives` is what holds |
| EdgeAck with `Faults <- CrashOnly` | AckedWasHandled | a crash after the dedup key makes the retry a duplicate of nothing (main.go:102-104). `UnhandledHasCause` is what holds |
| EdgeAck with `Faults <- SetTwiceOnly` | AckedWasHandled, AckedIsDurable | a SET NX whose reply was lost is tried again, finds its own key, and a webhook nobody produced is answered 200 duplicate, without any crash (main.go:102-107, 116-118; dedup.go:26, 44-46). `UnhandledHasCause` is what holds |
| AdmissionDual | NeverRaises | with two cases of a customer the greedy selection under the cap is not the Lagrangian's maximum, the dual falls below the primal, and DualBoundViolation ends the cycle (lagrangian.py:563: "cannot fire on data"). `DualBoundsLoners` is what holds, and there nothing raises (`LonersNeverRaise`) |
| PlanningFree | FreeRetryKeepsCase | discount_budget_spent has no exception for a case with a free retry (pipeline.py:366-368). `FreeRetryTaken` is what holds |
| PlanningFree | DebitAfterNotice | a scheduled debit is presented when its case is dispatched, not at the hour policy cleared it for (tools.py:123-125) |
| PlanningMargin | MarginStopsAreFinal | some discount left, but less than the best offer needs, is reported as a negative margin that "no budget would change" (pipeline.py:372-373). `BudgetStopsAreHonest` is the direction that holds |
| VendorTwice | PaidOnce | an AdapterError marks the row failed, the next day's fingerprint is new, and the customer pays twice (adapters.py:33-41 would leave the intent recorded). `TwiceOnlyInDoubt` is what holds |
| Vendor with ObligationTwiceOnlyInDoubt | the same | a charge nobody waited for fails after another job's capture, or a failure comes from elsewhere: the new case (service.py:145-192) knows nothing of the recovered one, and two jobs that were each tried once and dispatched are both paid. Per case, `TwiceOnlyInDoubt` is what holds |
| Vendor with `Overlap = TRUE` | TwiceOnlyInDoubt | two cycles work one case from two lists, each by a dispatched job tried once, and both are paid |
| Planning with HeardWithinCap | the same | a contact that landed though its dispatch failed has no `dispatched_at`, is not counted, and the customer hears more than the cap allows (features.py:268-278). `WeeklyCapHolds` is what holds |
| AgentPinned | NothingRejectedIsCached | the composer looks at a body's placeholders after the chain has cached it, so a rejected body is served from the cache from then on (chain.py:135-136) |

What the reading showed besides, without a property of its own: temporary reasons (a
degraded issuer, a spent budget) stop a case for good; an empty `allowed_channels`
falls back to the default and so widens a policy; `reset_planning` spares cases with a
`recovery_outcome`, which nothing at runtime writes, and deletes the unpublished outbox
rows of every merchant; the weekly count in `approvals.py` counts every dispatched kind;
rejected candidates are all said not to have cleared lambda, those refused by a cap too;
nothing produces the FATAL class of `llm/errors.py`,
and a 404 disables a provider the registry calls a clean fall-through; the agent's CLI
has nothing to resume after a crash, since it commits once at the end.

Bounds. `MaxCrashes`, `MaxDay`, `MaxLog`, `MaxFaults`, `MaxSends`, `MaxTries`,
`MaxTxns`, `MaxOpen`, `MaxAppends`, `MaxRows` and `MaxAdvices` are the only bounds on
behaviours; `MaxFaults` counts every kind of fault together. Two processes are enough
for every race here, since each is between two actors on one key, one case, one chain or
one partition. For RecoveryLedger one case is enough: two cycles contend for it and for
its ledger row. Two days contain a midnight. Three offsets give a failure, a repetition
and a capture in every order, and with batches of two a batch that is full and one that
is not. Two faults allow a second fault during the recovery from the first. Two
deliveries contain a concurrent duplicate and a retry. Three planning days contain
contacts of a day, of the day before and of two days, all within the week; that a week
ends is not reached. Two of the three cases are one customer's, so a cap and an exchange
have something to decide; the grids of `Prices` separate the margins of their instance.
Two jobs of a day and one of the next contain a repetition under the same key and under
another. Three transactions, two of them open, give a row that is committed late, a
chain with two writers and a writer after both.

Deadlock is checked in Dispatch, Recovery and Ingest. In Edge the sender stops after
`MaxSends` deliveries and a gateway without requests has nothing to do; Planning ends
with its last day, Admission with its last candidate, Vendor, Relay and Agent with the
last job, transaction and advice.

Fairness. Dispatch: weak fairness of `Step` and `Return` of each process; dispatch is
straight-line code with bounded waits, and a crashed process is idle. Nothing is
assumed of callers. Recovery: the same for a planner's steps; reviewers, captures,
days and lock expiry are not fair. Ingest: weak fairness of a consumer's own steps and
of joining, assignment and revocation; it is a Deployment, restarted when it ends
(`infra/README.md`), and faults are bounded. Deliveries are not fair. Edge: weak
fairness of a request's steps, of the client's sending, and of exit and restart. The
sender is not fair. Relay: weak fairness of a relay's claim, of the end of its flush and
of the broker's acknowledgement; `yukti outbox --watch` drains for ever (cli.py:70-81)
and the client ends every record it holds. Nothing makes a transaction commit. Agent:
weak fairness of a process's own steps; every request has a timeout
(openai_compat.py:53-55). Planning, Admission and Vendor are checked for safety only.

Model-checked only: the liveness properties (`OnlyCrashesStrand`, `CyclesEnd`,
`EveryEventHandled`, `AckedArrives`, `EveryDecisionPublished`, `EveryRunEnds`) and, among
the further instances, `LedgerExact`. Every other property of a passing run is stated by a
theorem. Four are proved under a condition their run satisfies and the code does not
guarantee. `NothingSkipped` and `CaptureCloses` need `Durable`: Redis remembers no event
and every message passes validation; without it TLC refutes them (IngestRedis, IngestMalformed).
`LegalWhileWorked` needs `OnePlanner`, and `TwiceOnlyInDoubt` needs `~Overlap`, which the
CronJob's `concurrencyPolicy: Forbid` (`infra/k8s/planner-cronjob.yaml:21`) gives as long
as nobody runs a cycle by hand.

## Proofs

`DispatchProofs` proves, for every set of processes and keys and any number of
crashes, the type invariant (`TypeCorrect`), `ExactlyOnceEffect`, `IntentFirst`,
`Truthful`, `OutcomesFinal` and `ImplementsLedger`. The only assumption is
`DispatchAssumption`, declared in `Dispatch` and evaluated by TLC in every run that
extends it.

`AtMostOneEffect` is not inductive: a state with an effect and a second process about
to invoke would violate it next. The strengthening says who may still touch a
fingerprint. Its parts are `HasTask` (a process inside dispatch has a key), `SoleOwner`
(two processes past their intent have different keys) and `OwnerKnows` (such a process
finds the row pending, nothing announced, no effect before its call and, after it, one
or none as the answer in its hand says), together with the records' truth for the keys
nobody owns. `RecordIntent` establishes ownership, because the row was absent and
ownership implies a row; `Crash` only gives it up, leaving a pending row that
`RecordIntent` never takes again. The Redis lock appears nowhere in the argument,
which is the point of it. `ImplementsLedger` maps `RecordIntent` to Claim, a landed
`Invoke` to Effect, a successful `Settle` to Announce and everything else to a stutter.

`RecoveryProofs` carries this over to planners and reviewers: `CasesUseDispatcher` says
that every step of Recovery is a step of `D!Spec` or a stutter, so the theorems of
`DispatchProofs` hold there too (`OneEffectPerFingerprint`). It needs `CaseInv`: whoever
calls the dispatcher has an action in hand, because a planner's list stays within its
allocation and an escalated case has a proposal. `StopsAreFinal` rests on the CHECK
constraint, stated as `Halted`: a stopped case has a reason, every guarded write requires
that there is none, and a capture writes live cases only. `HoldoutsUntreated` and
`WaitingHasCause` come from `TreatInv`, which says of everything in the dispatcher's hands
that it was decided for a case that may be treated, and of every answer "dispatched"
that its row says so; `OutcomesFinal` keeps it true later. They hold for any cases, kinds,
planners, reviewers, days and crashes; `RecoveryAssumption` asks for finitely many cases
and kinds, and for planners and reviewers to be different processes.

It also proves `ChargesAreBacked` (`LedgerBacked`) and `ChargesKeepTheLimit`
(`LedgerWithinLimit`). A ledger entry is a number, and an inductive invariant over
numbers alone does not exist: two planners' tallies could stand for the same contact.
`LedgerInv` therefore says that sets exist (`Backing`): one of contacts for each planner's
tally, one for what was charged, disjoint, of the right day, and without the contact any
caller is about to hear of. A charge moves a planner's set to the charged one, a crash, a
refused write or a refused charge forgets it, and an answer adds its own contact, which
nobody else holds because only one commit ever answers "dispatched" for a row
(`HearsOnce`, from `SoleOwner`).

`WorkedByTheBook` (`LegalWhileWorked`) is about who may write a case. With one planner,
`WorkInv` says that a case a planner has still to act on was not acted on since it was
loaded, or is over, and that a case a reviewer has in hand is on nobody's list. Two
planners break it: the stale list of one sends a case that waits for an outcome back to
escalated.

`IngestProofs` proves `TypeCorrect`, `OneLiveCaseHolds`, `OneCasePerEventHolds` and
`ClosedToEventsHolds` for any members, events, batches, modes of Redis and faults, from
`IngestAssumption`. What is committed does not determine what may be committed next, so
`CaseInv` is about the open transactions: each writes only the case of an event it
recorded itself, or closes a live one (`Backed`); no event is recorded and no row written
by two (`Isolated`); who opens a case of an obligation is alone with it (`OpensAlone`);
and the live case is unique in what each transaction sees (`OneLiveInSight`). The unique
indexes give `Isolated` and `OpensAlone`; the rest follows. `DurableInv` adds what a
consumer leaves behind it: everything below its position is processed or in its
transaction (`Behind`), ids are those of the log (`IdsOfLog`), and a capture that is
settled left no earlier failure's case live (`Settled`), from which `NothingSkippedHolds`
and `CaptureClosesHolds` follow under `Durable`.

`VendorProofs` proves `EffectOnceAKey`: for any jobs, days, executions and faults, a
customer notices a job at most once while the vendor has not restarted. The assumption
is `VendorAssumption`. `OnceAKey` counts effects and says nothing of the keys; the
strengthening `OneResourceAKey` says that every resource is the one its job's key points
at, so there is at most one of a job, and one resource is at most one effect. Each
handler that creates a resource asks for the key in the same step, which is what
asyncio gives it.

`DispatchedMeansDone` (`DispatchedWasDone`) follows an answer back to the row. `AnswersHold`
says what a request's stage means for the store: only a link waits to be sent (`LinksWait`),
a key points at a resource of its own job (`KeysPoint`), a request has the path its job's
tool calls (`Fits`) and, once answered, its effect is there (`Stands`).
`PaidTwiceOnlyInDoubt` (`TwiceOnlyInDoubt`), with one planning cycle at a time, needs
`OneAtWork`: of two jobs of one case that were executed once, at most one is awaited or
dispatched (`OneAlive`), since a case is open, and one the cycle has yet to reach is so,
only while none of its jobs is through (`OpenIsUndone`, `ListedUndone`), an obligation has
one live case (`OneLive`), and what the vendor is asked was planned (`AllPlanned`). Failures
and captures only append cases or recover them, which disturbs none of this: a new case has
no jobs.

`AgentProofs` proves `BreakerHolds`: for any processes, providers, questions and
crashes, a provider that refused is not asked again by that process. The invariant
`BreakerInv` adds that the breaker remembers every refusal; only `Refused` counts one,
and it found the breaker closed. The assumption is `AgentAssumption`. `CitationsHold`
(`CitesWhatItWasShown`) has to survive a crash, which takes back the evidence
recorded since the process entered, and so frees its ids. `CiteInv` therefore says, besides
that every conclusion cites its own run's evidence (`Cited`), that each process has a last
run (`Topped`) and that the conclusions a crash would leave cite nothing of what it would
take back (`Kept`).

`EdgeProofs` proves the three safety properties of `Edge`, for any replicas, webhooks and
number of deliveries and faults, from `EdgeAssumption` (finitely many replicas, forged
webhooks among the webhooks). `ProducedAtMostOnce` needs an account, `OnceInv`: what was
produced of a webhook and the replicas about to produce it are no more than its dedup key
and the times Redis was down; only a step that takes the key or fails to ask for it adds to
the left side, and a Redis that restarts, and takes the keys away, counts itself.
`ForgedStopsAtTheDoor` (`DoorInv`) follows a forged webhook, which never passes the verdict.
`AckedMeansHandled` (`HandledInv`) says of every request at its answer what its webhook's
fate is, as long as nothing crashed and no SET NX was applied twice (`Unlost`).

`RelayProofs` proves `TopicTellsTheTruth` (`AnnouncedWasDecided`) and
`SkippedOnlyByTimeout` (`LostOnlyByTimeout`), for any merchants, relays, batch sizes,
transactions and faults, from `RelayAssumption`. `ToldInv`: each row has its transaction,
a committed one has its audit row, and what a relay holds in its client was committed
when it was read, which no later step undoes (`Kept`). `CarriedInv`: each row of a batch
is on the topic, or is still in the client with the drain's callback on it, or has set
the drain's errors; so a drain that marks without errors marks what arrived and what its
flush stopped waiting for.

`ChainVerifies` (`IntactUnlessContended`) says that a merchant's chain verifies as long as
no two of its transactions append at once. `ContinuedInv` looks at the chain as each open
transaction sees it: who appends is alone (`Alone`), each row in sight commits to the one
before it, and the tip read is the last of them (`Continued`); that there is always a last
one is part of the invariant (`Topped`). Other merchants' rows and rollbacks change none
of it.

`PlanningProofs` follows a cycle from the rules to the ledger. Of the rules, for every
request, context and policy: a policy narrower in each setting allows no more
(`NarrowerAllowsLess`); a human approval clears the escalation and changes nothing that
blocks (`ApprovalAnswersOnlyTheEscalation`); the defaults of an unknown segment are no
wider than any other segment's, lending apart, which lacks the email the unknown segment
is given (`UnknownSegmentIsNarrowest`). The settings' types are the hypotheses.

Of the allocator, for any candidates, budgets and prices, from `AllocatorAssumption` and
`AdmissionAssumption`: the batch, with its repairs, exchanges and free extras, and the
streaming window are feasible (`WindowKeepsBudgets`). Its passes are recursions over finite
sets; the proofs go by well-founded induction on the subset order (`Peel`, `Grow`), which
the library states without an operator parameter, and `Iterates` gives such a recursion its
values. Each pass keeps a choice feasible whatever the prices are, so nothing depends on
how well the bisection did. `DualBoundIsCertified` (`DualBoundsLoners`) is weak duality:
the greedy selection earns the most at its prices (`SelectServes`), a choice within budget
is worth no more than the dual at any prices (`WorthNoMore`), and what is used is what is
earned (`EarnsWhatItUses`). The first step is where customers with two cases drop out.
From the same bound, `Raises` is impossible then (`LonersNeverRaise`).

Of the cycle, from `PlanningAssumption`: `WeeklyCapIsKept`, `DayKeepsBudgets` and
`FreeRetriesAreTaken`. Offers are followed through `Generate` and `Keep` to `Fundable`,
which is shown to be a pool the allocator's lemmas apply to; what is executed is no more
than what was funded, one action a case and one contact a customer. `PlanInv` is the
three properties with `Planned` (each proposal is an offer the generator makes for its
row) and `Filed` (until a cycle acts, everything sent is of an earlier day and nothing is
charged).
`BudgetStopsAreReversible` (`BudgetStopsAreHonest`) goes through the stopping rules in
their order: the reason "discount budget spent" leaves only the rules about the uplift
and the margin, and a discount of five percent or more does not pay for itself with an
uplift so small that the case would be lost anyway.

Out of the prover's reach, and left to TLC: liveness under fairness, and ENABLED.

## Plan

What would come next, in order:

1. `LedgerExact` for one planner, and which edges two planners can take, as theorems;
   abstract specifications that Edge and Ingest implement, as Dispatch does ActionLedger.
2. One lock graph for planners, consumers and audit appends.
3. Planning across the end of a week, with two cycles at once.
4. `Attribution`, when the running system calls it.

## Not modelled

- Intelligence (uplift, transience, payment patterns): statistics in floating point,
  fitted offline. Their results enter Planning as tables and Agent as choices.
- Evaluation and data generation: offline, sequential, numeric programs.
- The API, the dashboards and the MCP server: queries and transport. Their one write,
  `approvals.decide`, is in Recovery.
- Attribution: no code of the running system calls it.
- Prompts, schemas and what a model says: choices in Agent. `PlannerSpecialist` has no
  caller, and `_compose_bodies` is never given a supervisor, so compositions happen only
  in a caller that would pass one.
- The text of decision records, `policy_evaluation` rows, the form fields
  `compile_from_settings` reads, and the notes on rejected candidates:
  they record and decide nothing.
- `Budget.release` and `pending_actions`: no caller.
- Signature cryptography, hashing and HTTP framing: verdicts and identities.
