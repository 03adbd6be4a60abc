-------------------------------- MODULE Relay --------------------------------
(***************************************************************************)
(* What a decision leaves behind: its row in the merchant's hash chain     *)
(* (audit.py) and its announcement in the transactional outbox             *)
(* (dispatch/outbox.py), written in the transaction that decides, and the  *)
(* relays that carry the outbox to Kafka.  Transactions are READ           *)
(* COMMITTED, psycopg's default.  A hash stands for the row it is the hash *)
(* of: rows differ, and BLAKE2b is taken not to collide.                   *)
(***************************************************************************)
EXTENDS Integers, FiniteSets, Sequences, SequencesExt

CONSTANTS
  Merchants,
  Relays,
  BatchSize,          \* rows a drain claims
  MaxTxns, MaxOpen,   \* bounds: transactions, and how many are open at once
  MaxAppends,         \* bound: audit rows of a transaction
  MaxRows,            \* bound: outbox rows
  MaxFaults           \* bound: delivery errors, flush timeouts, relay crashes

ASSUME RelayAssumption ==
  /\ BatchSize \in Nat \ {0} /\ MaxAppends \in Nat \ {0} /\ MaxRows \in Nat
  /\ MaxTxns \in Nat /\ MaxOpen \in Nat /\ MaxFaults \in Nat

VARIABLES
  txns,      \* transactions, oldest first: [merchant, state, tip]
  audit,     \* audit_event by id: [txn, prev]
  outbox,    \* outbox by id: [txn, published]
  contended, \* merchants who had two transactions appending at once
  batch,     \* batch[r]: the rows a drain has locked, in order
  queue,     \* queue[r]: records in the Kafka client, [row, watched]
  errors,    \* errors[r]: the drain's callback saw an error
  topic,     \* the rows on the topic, in order
  late,      \* rows outstanding when a flush gave up waiting
  faults

decision == <<txns, audit, outbox, contended>>
vars == <<decision, batch, queue, errors, topic, late, faults>>

Unread == -1
Genesis == 0

Init ==
  /\ txns = <<>> /\ audit = <<>> /\ outbox = <<>> /\ contended = {}
  /\ batch = [r \in Relays |-> <<>>]
  /\ queue = [r \in Relays |-> <<>>]
  /\ errors = [r \in Relays |-> FALSE]
  /\ topic = <<>> /\ late = {}
  /\ faults = 0

-----------------------------------------------------------------------------
(* Transactions that decide *)

Open(t) == txns[t].state = "open"
Committed(t) == txns[t].state = "committed"
Merchant(row) == txns[row.txn].merchant
Appended(t) == {i \in DOMAIN audit : audit[i].txn = t}

deciding == <<batch, queue, errors, topic, late, faults>>

Begin(m) ==
  /\ Len(txns) < MaxTxns
  /\ Cardinality({t \in DOMAIN txns : Open(t)}) < MaxOpen
  /\ txns' = Append(txns, [merchant |-> m, state |-> "open", tip |-> Unread])
  /\ UNCHANGED <<audit, contended, deciding>>

\* Of the transactions that append, most announce nothing: a stop, a cycle's end.
BeginSilent(m) == Begin(m) /\ UNCHANGED outbox

\* enqueue: the dispatcher's marks the action, announces it, and then appends.
Enqueue(m) ==
  /\ Begin(m)
  /\ Len(outbox) < MaxRows
  /\ outbox' = Append(outbox, [txn |-> Len(txns'), published |-> FALSE])

\* A statement sees what was committed when it began, and its own transaction.
Chain(m, t) ==
  {i \in DOMAIN audit : Merchant(audit[i]) = m /\ (Committed(audit[i].txn) \/ audit[i].txn = t)}

\* Mutant: the tip is the tip of the whole table.
TipOfAll(t) == Max({i \in DOMAIN audit : Committed(audit[i].txn) \/ audit[i].txn = t} \cup {Genesis})

Tip(t) == Max(Chain(txns[t].merchant, t) \cup {Genesis})

Appending(t) == Open(t) /\ (txns[t].tip # Unread \/ Appended(t) # {})

\* append: SELECT hash ... ORDER BY id DESC LIMIT 1 FOR UPDATE begins.
ReadTip(t) ==
  /\ Open(t) /\ txns[t].tip = Unread /\ Cardinality(Appended(t)) < MaxAppends
  /\ txns' = [txns EXCEPT ![t].tip = Tip(t)]
  /\ contended' = contended \cup
       {txns[u].merchant : u \in {u \in DOMAIN txns \ {t} :
          Appending(u) /\ txns[u].merchant = txns[t].merchant}}
  /\ UNCHANGED <<audit, outbox, deciding>>

\* A transaction keeps the lock on each row it read as the tip.
Locks(t, i) == Open(t) /\ \E k \in Appended(t) : audit[k].prev = i

\* The lock is granted.  A row that only was locked has not changed, so the wait
\* does not repeat the query: the row read is the tip the new row commits to.
AppendRow(t) ==
  /\ Open(t) /\ txns[t].tip # Unread
  /\ \A u \in DOMAIN txns \ {t} : txns[t].tip # Genesis => ~Locks(u, txns[t].tip)
  /\ audit' = Append(audit, [txn |-> t, prev |-> txns[t].tip])
  /\ txns' = [txns EXCEPT ![t].tip = Unread]
  /\ UNCHANGED <<outbox, contended, deciding>>

End(t, state) ==
  /\ txns' = [txns EXCEPT ![t].state = state, ![t].tip = Unread]
  /\ UNCHANGED <<audit, outbox, contended, deciding>>

\* Mutant: enqueue commits, and the audit row comes in a transaction of its own.
CommitUnaudited(t) == Open(t) /\ txns[t].tip = Unread /\ End(t, "committed")

Commit(t) == Open(t) /\ txns[t].tip = Unread /\ Appended(t) # {} /\ End(t, "committed")

\* An exception or a crash.  What the transaction wrote is not there.
Rollback(t) ==
  /\ Open(t) /\ (Appended(t) # {} \/ \E i \in DOMAIN outbox : outbox[i].txn = t)
  /\ End(t, "aborted")

-----------------------------------------------------------------------------
(* OutboxRelay.drain *)

Fault == faults < MaxFaults /\ faults' = faults + 1

Locked == UNION {Range(batch[r]) : r \in Relays}
Unpublished == {i \in DOMAIN outbox : Committed(outbox[i].txn) /\ ~outbox[i].published}

\* ORDER BY id LIMIT: the rows with the lowest ids.
Lowest(rows) ==
  LET size == IF Cardinality(rows) < BatchSize THEN Cardinality(rows) ELSE BatchSize
  IN {s \in [1..size -> rows] :
        /\ \A k, l \in 1..size : k < l => s[k] < s[l]
        /\ \A i \in rows \ Range(s), k \in 1..size : s[k] < i}

Claim(r, rows) ==
  /\ batch[r] = <<>> /\ rows # {}
  /\ \E claimed \in Lowest(rows) :
       /\ batch' = [batch EXCEPT ![r] = claimed]
       /\ queue' = [queue EXCEPT ![r] = @ \o
            [k \in DOMAIN claimed |-> [row |-> claimed[k], watched |-> TRUE]]]
  /\ errors' = [errors EXCEPT ![r] = FALSE]
  /\ UNCHANGED <<decision, topic, late, faults>>

\* Mutant: a checkpoint, the highest id published.
BeginDrainAfterLast(r) ==
  Claim(r, {i \in Unpublished \ Locked :
              \A k \in DOMAIN outbox : outbox[k].published => k < i})

\* SELECT ... FOR UPDATE SKIP LOCKED, then produce, which only queues.
BeginDrain(r) == Claim(r, Unpublished \ Locked)

Foremost(r, k) ==
  \A i \in 1..(k - 1) :
    Merchant(outbox[queue[r][i].row]) # Merchant(outbox[queue[r][k].row])

\* The broker has the record: a partition key keeps its order.
Acked(r, k) ==
  /\ k \in DOMAIN queue[r] /\ Foremost(r, k)
  /\ topic' = Append(topic, queue[r][k].row)
  /\ queue' = [queue EXCEPT ![r] = RemoveAt(@, k)]
  /\ UNCHANGED <<decision, batch, errors, late, faults>>

\* The client gives a record up, which may have arrived.  Only a drain that still
\* waits looks at the errors its callback collects.
Undelivered(r, k) ==
  /\ k \in DOMAIN queue[r] /\ Fault
  /\ topic' = topic \/ topic' = Append(topic, queue[r][k].row)
  /\ errors' = [errors EXCEPT ![r] = @ \/ queue[r][k].watched]
  /\ queue' = [queue EXCEPT ![r] = RemoveAt(@, k)]
  /\ UNCHANGED <<decision, batch, late>>

Outstanding(r) == {queue[r][k].row : k \in DOMAIN queue[r]}

\* Mutant: the batch is marked whatever the broker said.
EndDrainMarking(r) ==
  /\ outbox' = [i \in DOMAIN outbox |->
       [outbox[i] EXCEPT !.published = @ \/ i \in Range(batch[r])]]
  /\ batch' = [batch EXCEPT ![r] = <<>>]

\* Errors: rollback, "mark nothing".  Otherwise published_at, and commit.
EndDrain(r) ==
  /\ outbox' = [i \in DOMAIN outbox |->
       [outbox[i] EXCEPT !.published = @ \/ (~errors[r] /\ i \in Range(batch[r]))]]
  /\ batch' = [batch EXCEPT ![r] = <<>>]

\* flush(30) returns: nothing is outstanding, or thirty seconds have passed.
Flushed(r) ==
  /\ batch[r] # <<>>
  /\ IF queue[r] = <<>> THEN UNCHANGED faults ELSE Fault
  /\ late' = late \cup Outstanding(r)
  /\ queue' = [queue EXCEPT ![r] =
                [k \in DOMAIN @ |-> [@[k] EXCEPT !.watched = FALSE]]]
  /\ EndDrain(r)
  /\ UNCHANGED <<txns, audit, contended, errors, topic>>

\* The process dies, or ends: its transaction is rolled back and its client's
\* records are gone.
RelayDies(r) ==
  /\ batch[r] # <<>> \/ queue[r] # <<>>
  /\ Fault
  /\ batch' = [batch EXCEPT ![r] = <<>>]
  /\ queue' = [queue EXCEPT ![r] = <<>>]
  /\ UNCHANGED <<decision, errors, topic, late>>

-----------------------------------------------------------------------------

Decide(t) == ReadTip(t) \/ AppendRow(t) \/ Commit(t) \/ Rollback(t)
Broker(r) == \E k \in DOMAIN queue[r] : Acked(r, k) \/ Undelivered(r, k)
Drain(r) == BeginDrain(r) \/ Flushed(r) \/ RelayDies(r)

Next ==
  \/ \E m \in Merchants : BeginSilent(m) \/ Enqueue(m)
  \/ \E t \in DOMAIN txns : Decide(t)
  \/ \E r \in Relays : Drain(r) \/ Broker(r)

Spec == Init /\ [][Next]_vars

\* `yukti outbox --watch` drains for ever (cli.py:70-81), flush is bounded and the
\* client ends every record it holds.
Fairness == \A r \in Relays :
  WF_vars(BeginDrain(r)) /\ WF_vars(Flushed(r))
    /\ WF_vars(\E k \in DOMAIN queue[r] : Acked(r, k))

FairSpec == Spec /\ Fairness

-----------------------------------------------------------------------------
(* Properties *)

\* audit.verify: each row of the merchant commits to the one before it.
ChainIntactOf(m) ==
  \A i \in Chain(m, 0) :
    audit[i].prev = Max({k \in Chain(m, 0) : k < i} \cup {Genesis})

\* One merchant's chain does not suffer from another's, nor from rollbacks
\* (audit.py:15-20): it verifies as long as no two transactions appended to it at
\* once.
IntactUnlessContended == \A m \in Merchants \ contended : ChainIntactOf(m)

\* "Two concurrent appends for the same merchant cannot both chain off the same
\* predecessor and fork the chain" (audit.py:84-86).
ChainIntact == \A m \in Merchants : ChainIntactOf(m)

\* What the topic announces was decided, and the audit chain says so: the
\* announcement, the audit row and the decision commit together (outbox.py:35-41,
\* audit.py:79-82).
AnnouncedWasDecided ==
  \A i \in Range(topic) : Committed(outbox[i].txn) /\ Appended(outbox[i].txn) # {}

\* "A crash mid-drain replays the batch rather than skipping it"
\* (outbox.py:97-99): a row is marked and missing from the topic only if a flush
\* gave up waiting for it.
LostOnlyByTimeout ==
  \A i \in DOMAIN outbox : outbox[i].published => i \in Range(topic) \cup late

\* The relay misses no decision: a row with a low id that commits late, after
\* higher ids were published, is published too.
EveryDecisionPublished == \A i \in 1..MaxRows : i \in Unpublished ~> i \notin Unpublished
=============================================================================
