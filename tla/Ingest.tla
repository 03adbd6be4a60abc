------------------------------- MODULE Ingest -------------------------------
(***************************************************************************)
(* control/yukti/opportunity: one partition of payments.events, read by a  *)
(* consumer group (consumer.run), each event becoming or closing a         *)
(* recovery case (OpportunityService.ingest).                              *)
(*                                                                         *)
(* A consumer works in batches: one open database transaction collects the *)
(* events of a batch, is committed, and then the offset is committed.      *)
(* Dedup has four layers: Redis, processed_event, the version check and    *)
(* the unique index on live cases.                                         *)
(***************************************************************************)
EXTENDS Naturals, Sequences

CONSTANTS
  Consumers,     \* members of the consumer group
  Events,        \* what the edge may put on the topic: records, see EventType
  Open,          \* obligations whose row exists and is open
  RedisModes,    \* the answers Redis may give: TRUE is up, FALSE is down
  BatchSize,     \* commit_every
  MaxLog,        \* bound: events on the topic
  MaxFaults,     \* bound: crashes, rebalances and stop signals
  NoOne          \* the partition is assigned to nobody

EventType == [id : {e.id : e \in Events},
              type : {"payment.failed", "payment.captured", "other", "unparseable"},
              obligation : {e.obligation : e \in Events},
              version : Nat,
              body : {"good", "malformed", "fatal"}]

ASSUME IngestAssumption ==
  /\ Events \subseteq EventType
  /\ RedisModes \subseteq BOOLEAN /\ RedisModes # {}
  /\ BatchSize \in Nat \ {0} /\ MaxLog \in Nat /\ MaxFaults \in Nat
  /\ NoOne \notin Consumers

Ids == {e.id : e \in Events}
Offsets == 0 .. MaxLog
Slots == 1 .. MaxLog

VARIABLES
  log,          \* the partition
  committed,    \* the group's committed offset
  owner,        \* the member the coordinator gave the partition to
  redis,        \* ids with a key under yukti:opp:evt:
  processed,    \* ids in processed_event
  cases,        \* cases[i]: the case row opened by the event at i, see CaseStatus
  dlq,          \* ids quarantined
  phase,        \* phase[c]: where c is in run()
  assigned,     \* assigned[c]: does c believe it has the partition?
  position,     \* position[c]: messages c has polled past
  pending,      \* pending[c]: messages since its last commit
  last,         \* last[c]: offset after last_msg
  ids,          \* ids[c]: processed_event rows of its open transaction
  draft,        \* draft[c][i]: what its transaction wrote to cases[i]
  faults        \* crashes, rebalances and stop signals so far

groupVars == <<log, committed, owner>>
storeVars == <<redis, processed, cases, dlq>>
localVars == <<phase, assigned, position, pending, last, ids, draft>>
vars == <<groupVars, storeVars, localVars, faults>>

\* Every state of an open case counts as live.  A reopened one is live with its
\* closed_at set: nothing that writes a state again clears it.
CaseStatus == {"none", "live", "reopened", "stopped", "recovered"}
AtWork(status) == status \in {"live", "reopened"}

Untouched == [i \in Slots |-> "same"]

Init ==
  /\ log = <<>>
  /\ committed = 0
  /\ owner = NoOne
  /\ redis = {} /\ processed = {} /\ dlq = {}
  /\ cases = [i \in Slots |-> "none"]
  /\ phase = [c \in Consumers |-> "down"]
  /\ assigned = [c \in Consumers |-> "never"]
  /\ position = [c \in Consumers |-> 0]
  /\ pending = [c \in Consumers |-> 0]
  /\ last = [c \in Consumers |-> 0]
  /\ ids = [c \in Consumers |-> {}]
  /\ draft = [c \in Consumers |-> Untouched]
  /\ faults = 0

-----------------------------------------------------------------------------
(* The edge and the planner *)

\* At-least-once and unordered: any event, again, at any time.
Deliver(e) ==
  /\ Len(log) < MaxLog
  /\ log' = Append(log, e)
  /\ UNCHANGED <<committed, owner, storeVars, localVars, faults>>

\* A key outlives neither DEDUP_TTL_SECONDS nor a flush.
RedisForgets(id) ==
  /\ id \in redis
  /\ redis' = redis \ {id}
  /\ UNCHANGED <<groupVars, processed, cases, dlq, localVars, faults>>

SlotsOf(o) == {i \in 1 .. Len(log) : log[i].obligation = o}
Unlocked(i) == \A c \in Consumers : draft[c][i] = "same"

\* The planner or a reviewer, whose list may be older than the case's closing, writes
\* the case by id alone.  A stop: also of a case a capture has closed meanwhile.
StopCase(i) ==
  /\ AtWork(cases[i]) \/ cases[i] = "recovered"
  /\ Unlocked(i)
  /\ cases' = [cases EXCEPT ![i] = "stopped"]
  /\ UNCHANGED <<groupVars, redis, processed, dlq, localVars, faults>>

\* Any other state puts a recovered case back to work.  The CHECK on stop_reason
\* refuses it for a stopped case, the unique index where another case is live; it
\* waits for a transaction that may decide either.
ReopenCase(i) ==
  /\ cases[i] = "recovered"
  /\ \A k \in SlotsOf(log[i].obligation) : ~AtWork(cases[k]) /\ Unlocked(k)
  /\ cases' = [cases EXCEPT ![i] = "reopened"]
  /\ UNCHANGED <<groupVars, redis, processed, dlq, localVars, faults>>

-----------------------------------------------------------------------------
(* OpportunityService.ingest, inside the open transaction of c *)

Others(c) == Consumers \ {c}
\* READ COMMITTED: the committed rows and the transaction's own.
Sees(c, i) == IF draft[c][i] = "same" THEN cases[i] ELSE draft[c][i]
LiveCases(c, o) == {i \in SlotsOf(o) : AtWork(Sees(c, i))}

Relevant(e) == e.type \in {"payment.failed", "payment.captured"}

\* Each obligation row has the version it was generated with: nothing in the
\* control plane writes it.
ObligationVersion == 1
Superseded(e) == e.version + 1 < ObligationVersion

\* _seen_recently (SET NX) given whether Redis is up, then _record_durably.
SeenRecently(e, up) == up /\ e.id \in redis
RecordedDurably(c, e) == e.id \in processed \cup ids[c]

\* An insert waits for a transaction that inserted the same id, or that wrote a
\* case the unique index covers; an update waits for one that wrote its row.
WaitsForEvent(c, e) == \E d \in Others(c) : e.id \in ids[d]
WaitsToOpen(c, e) ==
  \E d \in Others(c), i \in SlotsOf(e.obligation) : draft[d][i] # "same"
WaitsToResolve(c, e) ==
  \E d \in Others(c), i \in SlotsOf(e.obligation) :
    AtWork(cases[i]) /\ draft[d][i] # "same"

\* Mutant: every unseen failure inserts a case.
OpenAlways(c, e) ==
  draft' = [draft EXCEPT ![c][position[c] + 1] = "live"]

\* _open: a failure opens a case unless one is live.
OpenCase(c, e) ==
  /\ ~WaitsToOpen(c, e)
  /\ draft' = IF /\ e.obligation \in Open
                 /\ ~Superseded(e)
                 /\ LiveCases(c, e.obligation) = {}
              THEN [draft EXCEPT ![c][position[c] + 1] = "live"]
              ELSE draft

\* Mutant: the UPDATE loses its state filter.
ResolveAll(c, e) ==
  draft' = [draft EXCEPT ![c] =
              [i \in Slots |-> IF i \in SlotsOf(e.obligation) /\ Sees(c, i) # "none"
                               THEN "recovered" ELSE @[i]]]

\* Mutant: the UPDATE runs on another connection and misses the batch's own cases.
ResolveCommitted(c, e) ==
  draft' = [draft EXCEPT ![c] =
              [i \in Slots |-> IF i \in SlotsOf(e.obligation) /\ AtWork(cases[i])
                               THEN "recovered" ELSE @[i]]]

\* _resolve: a capture closes every live case it sees.
ResolveCase(c, e) ==
  /\ ~WaitsToResolve(c, e)
  /\ draft' = [draft EXCEPT ![c] =
                 [i \in Slots |-> IF i \in LiveCases(c, e.obligation)
                                  THEN "recovered" ELSE @[i]]]

\* The message is counted, whatever became of it.
Take(c, n) ==
  /\ pending' = [pending EXCEPT ![c] = n + 1]
  /\ position' = [position EXCEPT ![c] = @ + 1]
  /\ last' = [last EXCEPT ![c] = position[c] + 1]
  /\ UNCHANGED <<groupVars, processed, cases, phase, assigned, faults>>

\* The consumer has a message in hand: it is not due to commit.
Polls(c) ==
  /\ phase[c] = "polling"
  /\ pending[c] < BatchSize
  /\ assigned[c] = "yes"
  /\ position[c] < Len(log)
Message(c) == log[position[c] + 1]

\* Another event type, or one that Redis or processed_event knows.
Skip(c) ==
  LET e == Message(c) IN
  /\ Polls(c)
  /\ \/ e.type = "other" /\ UNCHANGED redis
     \/ \E up \in RedisModes :
          /\ Relevant(e)
          /\ SeenRecently(e, up) \/ (~WaitsForEvent(c, e) /\ RecordedDurably(c, e))
          /\ redis' = IF up THEN redis \cup {e.id} ELSE redis
  /\ Take(c, pending[c])
  /\ UNCHANGED <<dlq, ids, draft>>

\* First sight of an event, as far as the two dedup layers know.
FirstSight(c, e, up) ==
  /\ Relevant(e)
  /\ ~SeenRecently(e, up)
  /\ ~WaitsForEvent(c, e)
  /\ ~RecordedDurably(c, e)
  /\ redis' = IF up THEN redis \cup {e.id} ELSE redis

\* Mutant: processed_event is not consulted.
ApplyUnrecorded(c) ==
  LET e == Message(c) IN
  /\ Polls(c)
  /\ e.body = "good" /\ Relevant(e)
  /\ \E up \in RedisModes :
       ~SeenRecently(e, up) /\ redis' = IF up THEN redis \cup {e.id} ELSE redis
  /\ ids' = [ids EXCEPT ![c] = @ \cup {e.id}]
  /\ \/ e.type = "payment.failed" /\ OpenCase(c, e)
     \/ e.type = "payment.captured" /\ ResolveCase(c, e)
  /\ Take(c, pending[c])
  /\ UNCHANGED dlq

\* A new, well-formed event is applied in the open transaction.
Apply(c) ==
  LET e == Message(c) IN
  /\ Polls(c)
  /\ e.body = "good"
  /\ \E up \in RedisModes : FirstSight(c, e, up)
  /\ ids' = [ids EXCEPT ![c] = @ \cup {e.id}]
  /\ \/ e.type = "payment.failed" /\ OpenCase(c, e)
     \/ e.type = "payment.captured" /\ ResolveCase(c, e)
  /\ Take(c, pending[c])
  /\ UNCHANGED dlq

\* MalformedEvent, or JSON that does not parse (which never reaches the dedup):
\* roll the batch back, quarantine the message, keep going.  The position is not
\* moved back.
Quarantine(c) ==
  LET e == Message(c) IN
  /\ Polls(c)
  /\ e.body = "malformed"
  /\ \/ e.type = "unparseable" /\ UNCHANGED redis
     \/ \E up \in RedisModes : FirstSight(c, e, up)
  /\ dlq' = dlq \cup {e.id}
  /\ ids' = [ids EXCEPT ![c] = {}]
  /\ draft' = [draft EXCEPT ![c] = Untouched]
  /\ Take(c, 0)

-----------------------------------------------------------------------------
(* consumer.run: commits, shutdown, the group *)

\* The open transaction commits and a new one begins.
CommitTransaction(c) ==
  /\ processed' = processed \cup ids[c]
  /\ cases' = [i \in Slots |-> Sees(c, i)]
  /\ ids' = [ids EXCEPT ![c] = {}]
  /\ draft' = [draft EXCEPT ![c] = Untouched]
  /\ UNCHANGED <<redis, dlq>>

\* A full batch: conn.commit().
CommitBatch(c) ==
  /\ phase[c] = "polling" /\ pending[c] >= BatchSize
  /\ CommitTransaction(c)
  /\ phase' = [phase EXCEPT ![c] = "acking"]
  /\ UNCHANGED <<groupVars, assigned, position, pending, last, faults>>

\* Mutant: the transaction is thrown away at shutdown, the offset is not.
DrainDiscards(c) ==
  /\ phase[c] = "polling" /\ pending[c] < BatchSize
  /\ assigned[c] = "lost" \/ (assigned[c] = "yes" /\ position[c] = Len(log))
  /\ ids' = [ids EXCEPT ![c] = {}]
  /\ draft' = [draft EXCEPT ![c] = Untouched]
  /\ phase' = [phase EXCEPT ![c] = "draining"]
  /\ UNCHANGED <<groupVars, storeVars, assigned, position, pending, last, faults>>

\* The loop ends, idle or on a signal, and the last partial batch is committed.
Drain(c) ==
  /\ phase[c] = "polling" /\ pending[c] < BatchSize
  /\ \/ /\ assigned[c] = "lost" \/ (assigned[c] = "yes" /\ position[c] = Len(log))
        /\ UNCHANGED faults
     \/ faults < MaxFaults /\ faults' = faults + 1
  /\ CommitTransaction(c)
  /\ phase' = [phase EXCEPT ![c] = "draining"]
  /\ UNCHANGED <<groupVars, assigned, position, pending, last>>

\* The process is gone, or has left the group: its transaction is over.
Leave(c) ==
  /\ phase' = [phase EXCEPT ![c] = "down"]
  /\ assigned' = [assigned EXCEPT ![c] = "never"]
  /\ position' = [position EXCEPT ![c] = 0]
  /\ pending' = [pending EXCEPT ![c] = 0]
  /\ last' = [last EXCEPT ![c] = 0]
  /\ ids' = [ids EXCEPT ![c] = {}]
  /\ draft' = [draft EXCEPT ![c] = Untouched]
  /\ owner' = IF owner = c THEN NoOne ELSE owner

\* _commit_offsets: the broker refuses a member that no longer owns the
\* partition, and the consumer goes on.
CommitOffsets(c) ==
  /\ committed' = IF owner = c /\ pending[c] > 0 THEN last[c] ELSE committed
  /\ \/ /\ phase[c] = "acking"
        /\ phase' = [phase EXCEPT ![c] = "polling"]
        /\ pending' = [pending EXCEPT ![c] = 0]
        /\ UNCHANGED <<owner, assigned, position, last, ids, draft>>
     \/ phase[c] = "draining" /\ Leave(c)
  /\ UNCHANGED <<log, storeVars, faults>>

\* Past the dedup, a ValueError, an AttributeError or an error of the database (a key
\* to a row that is not there, a value out of range) is caught nowhere: the transaction
\* rolls back and the process ends, and Redis keeps its key.
Choke(c) ==
  LET e == Message(c) IN
  /\ Polls(c) /\ e.body = "fatal"
  /\ \E up \in RedisModes : FirstSight(c, e, up)
  /\ Leave(c)
  /\ UNCHANGED <<log, committed, processed, cases, dlq, faults>>

\* The process dies, or a database or broker error ends it: the transaction
\* rolls back; Redis keeps its keys.
Crash(c) ==
  /\ phase[c] # "down"
  /\ faults < MaxFaults /\ faults' = faults + 1
  /\ Leave(c)
  /\ UNCHANGED <<log, committed, storeVars>>

\* A consumer starts and subscribes.
Join(c) ==
  /\ phase[c] = "down"
  /\ phase' = [phase EXCEPT ![c] = "polling"]
  /\ UNCHANGED <<groupVars, storeVars, assigned, position, pending, last, ids,
                 draft, faults>>

\* The coordinator gives the free partition to a member, which starts at the
\* committed offset.  Rebalances are served by poll(), so between batches.
Assign(c) ==
  /\ owner = NoOne
  /\ phase[c] = "polling" /\ pending[c] < BatchSize
  /\ owner' = c
  /\ assigned' = [assigned EXCEPT ![c] = "yes"]
  /\ position' = [position EXCEPT ![c] = committed]
  /\ UNCHANGED <<log, committed, storeVars, phase, pending, last, ids, draft, faults>>

\* The session lapses or the group rebalances: the coordinator takes the
\* partition away, and the member goes on until it hears of it.
Lapse ==
  /\ owner # NoOne
  /\ faults < MaxFaults /\ faults' = faults + 1
  /\ owner' = NoOne
  /\ UNCHANGED <<log, committed, storeVars, localVars>>

Revoke(c) ==
  /\ assigned[c] = "yes" /\ owner # c
  /\ phase[c] = "polling" /\ pending[c] < BatchSize
  /\ assigned' = [assigned EXCEPT ![c] = "lost"]
  /\ UNCHANGED <<groupVars, storeVars, phase, position, pending, last, ids,
                 draft, faults>>

Run(c) ==
  \/ Skip(c) \/ Apply(c) \/ Quarantine(c) \/ Choke(c)
  \/ CommitBatch(c) \/ Drain(c) \/ CommitOffsets(c)

Membership(c) == Join(c) \/ Assign(c) \/ Revoke(c)

Next ==
  \/ \E c \in Consumers : Run(c) \/ Membership(c) \/ Crash(c)
  \/ Lapse
  \/ \E e \in Events : Deliver(e)
  \/ \E id \in Ids : RedisForgets(id)
  \/ \E i \in Slots : StopCase(i) \/ ReopenCase(i)

Spec == Init /\ [][Next]_vars

\* The consumer is a Deployment: it is restarted, and rejoins, whenever it ends.
FairSpec ==
  /\ Spec
  /\ \A c \in Consumers : WF_vars(Run(c)) /\ WF_vars(Membership(c))
-----------------------------------------------------------------------------
(* Properties *)

TypeOK ==
  /\ log \in Seq(Events) /\ Len(log) \in Offsets
  /\ committed \in Offsets
  /\ owner \in Consumers \cup {NoOne}
  /\ redis \subseteq Ids /\ processed \subseteq Ids /\ dlq \subseteq Ids
  /\ cases \in [Slots -> CaseStatus]
  /\ phase \in [Consumers -> {"down", "polling", "acking", "draining"}]
  /\ assigned \in [Consumers -> {"never", "yes", "lost"}]
  /\ position \in [Consumers -> Offsets]
  /\ pending \in [Consumers -> 0 .. BatchSize]
  /\ last \in [Consumers -> Offsets]
  /\ ids \in [Consumers -> SUBSET Ids]
  /\ draft \in [Consumers -> [Slots -> {"same", "live", "recovered"}]]
  /\ faults \in 0 .. MaxFaults

\* "The offset still advances only AFTER the database transaction commits"
\* (consumer.py:223-225): every event the group will not read again is durably
\* processed, or quarantined, or of no interest.
NothingSkipped ==
  \A i \in 1 .. committed :
    log[i].type # "other" => log[i].id \in processed \cup dlq

\* One live case per obligation, whatever is redelivered, under whatever id, to
\* however many members, and whatever an old list of the planner reopens
\* (002_recovery.sql:36-40).
OneLiveCase ==
  \A o \in Open :
    \A i, j \in SlotsOf(o) : AtWork(cases[i]) /\ AtWork(cases[j]) => i = j

\* One event opens at most one case, even when it is redelivered after that case
\* closed (service.py:3-10).
OneCasePerEvent ==
  \A i, j \in 1 .. Len(log) :
    log[i].id = log[j].id /\ cases[i] # "none" /\ cases[j] # "none" => i = j

\* No event, and no replay of one, changes a closed case: a stop stays (the operator's
\* reset_planning is not in this model), and a recovered case is changed by nobody but
\* a planner or reviewer whose list is older than its closing (pipeline.py:611-615).
ClosedToEvents ==
  [][\A i \in Slots :
       /\ cases[i] = "stopped" => cases'[i] = "stopped"
       /\ cases[i] = "recovered" => UNCHANGED cases[i] \/ StopCase(i) \/ ReopenCase(i)]_vars

FirstAt(j) == \A k \in 1 .. (j - 1) : log[k].id # log[j].id
SettledCapture(j) ==
  log[j].type = "payment.captured" /\ log[j].id \in processed /\ FirstAt(j)

\* A capture closes the case an earlier event of the partition opened, even when
\* two members work through the same stretch (service.py:31-32).  What an old list
\* of the planner reopens afterwards is at work again, with its closed_at set.
CaptureCloses ==
  \A i, j \in 1 .. Len(log) :
    /\ i < j /\ log[i].obligation = log[j].obligation
    /\ SettledCapture(j)
    => cases[i] # "live"

\* "A capture and a failure racing each other must land on 'recovered' regardless
\* of arrival order" (tests/integration/test_opportunity_idempotency.py:101-102).
CaptureWins ==
  \A i, j \in 1 .. Len(log) :
    /\ log[i].obligation = log[j].obligation
    /\ SettledCapture(j)
    => cases[i] # "live"

\* Every event on the topic is processed or quarantined, whatever restarts and
\* rebalances happen on the way.
EveryEventHandled ==
  \A i \in Slots :
    (i <= Len(log) /\ log[i].type # "other")
      ~> (i <= Len(log) /\ log[i].id \in processed \cup dlq)
=============================================================================
