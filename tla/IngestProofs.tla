---------------------------- MODULE IngestProofs ----------------------------
(***************************************************************************)
(* For any members, events, batches and faults: an obligation has one live *)
(* case, an event opens one case, and no event changes a closed one.       *)
(* Where processed_event alone remembers the events and all are well       *)
(* formed, no event is skipped and a capture closes the case of an earlier *)
(* failure.                                                                *)
(*                                                                         *)
(* All of it is about what the open transactions may hold at once.  The    *)
(* rows a transaction wrote are locked for the others: Isolated says what  *)
(* that leaves.  The live case of an obligation is then unique in what     *)
(* each transaction sees, and not only in what is committed.               *)
(***************************************************************************)
EXTENDS Ingest, SequenceTheorems, TLAPS

USE DEF AtWork, CaseStatus

\* The slots the transaction of c wrote, and the slots with a case, committed or not.
Wrote(c) == {i \in Slots : draft[c][i] # "same"}
Claimed(i) == cases[i] # "none" \/ \E c \in Consumers : i \in Wrote(c)

\* A committed case comes from a processed event of the log.
Sourced ==
  \A i \in Slots :
    cases[i] # "none" => i \in 1 .. Len(log) /\ log[i].id \in processed

\* A transaction writes the case of an event it recorded itself, or closes a live one.
Opened(c, i) == cases[i] = "none" /\ log[i].id \in ids[c] /\ log[i].type = "payment.failed"
Resolved(c, i) == AtWork(cases[i]) /\ draft[c][i] = "recovered"
Backed ==
  \A c \in Consumers : \A i \in Wrote(c) :
    i \in 1 .. Len(log) /\ (Opened(c, i) \/ Resolved(c, i))

\* No event is recorded twice, no row is written by two transactions.
Isolated ==
  /\ \A c \in Consumers : ids[c] \cap processed = {}
  /\ \A c \in Consumers : \A d \in Others(c) :
       ids[c] \cap ids[d] = {} /\ Wrote(c) \cap Wrote(d) = {}

OneClaimPerEvent ==
  \A i, j \in 1 .. Len(log) : log[i].id = log[j].id /\ Claimed(i) /\ Claimed(j) => i = j

\* Who opens a case of an obligation is alone with it.
OpensAlone ==
  \A c \in Consumers : \A d \in Others(c) : \A k \in Wrote(c), i \in Wrote(d) :
    log[k].obligation = log[i].obligation => draft[c][k] # "live"

OneLiveInSight ==
  \A i, j \in 1 .. Len(log) :
    log[i].obligation = log[j].obligation =>
      /\ AtWork(cases[i]) /\ AtWork(cases[j]) => i = j
      /\ \A c \in Consumers : AtWork(Sees(c, i)) /\ AtWork(Sees(c, j)) => i = j

RowInv ==
  Sourced /\ Backed /\ Isolated /\ OneClaimPerEvent /\ OpensAlone /\ OneLiveInSight
CaseInv == TypeOK /\ RowInv

-----------------------------------------------------------------------------
(* With processed_event alone, and every event well formed *)

Durable == RedisModes = {FALSE} /\ \A e \in Events : e.body = "good"

\* What c has moved past is processed, or recorded in its transaction.
Recorded(c) == processed \cup ids[c]
Covered(l, n, S) == n <= Len(l) /\ \A i \in 1 .. n : l[i].type # "other" => l[i].id \in S
BehindOf(c) ==
  /\ Covered(log, position[c], Recorded(c)) /\ Covered(log, last[c], Recorded(c))
  /\ phase[c] \in {"acking", "draining"} => ids[c] = {}
Behind == Covered(log, committed, processed) /\ \A c \in Consumers : BehindOf(c)

InLog(S) == \A id \in S : \E k \in 1 .. Len(log) : log[k].id = id
IdsOfLog == InLog(processed) /\ \A c \in Consumers : InLog(ids[c])

Earlier(j) == {i \in 1 .. (j - 1) : log[i].obligation = log[j].obligation}
FirstCapture(j) == log[j].type = "payment.captured" /\ FirstAt(j)
\* What a settled capture means, in the committed rows and in sight of c.
Closed(i) == cases[i] # "live" /\ (log[i].type # "other" => log[i].id \in processed)
ClosedFor(c, i) == Sees(c, i) # "live" /\ (log[i].type # "other" => log[i].id \in Recorded(c))
SettledAt(j) ==
  FirstCapture(j) =>
    /\ log[j].id \in processed => \A i \in Earlier(j) : Closed(i)
    /\ \A c \in Consumers : log[j].id \in ids[c] => \A i \in Earlier(j) : ClosedFor(c, i)
Settled == \A j \in 1 .. Len(log) : SettledAt(j)

DurableInv == CaseInv /\ Behind /\ IdsOfLog /\ Settled

-----------------------------------------------------------------------------
(* Types *)

LEMMA MessageTyped ==
  ASSUME TypeOK, NEW c \in Consumers, Polls(c)
  PROVE  /\ position[c] + 1 \in 1 .. Len(log) /\ position[c] + 1 \in Slots
         /\ Message(c) \in Events /\ Message(c).id \in Ids
<1>1. Len(log) \in Nat /\ Len(log) <= MaxLog /\ position[c] \in Nat
  BY IngestAssumption DEF TypeOK, Offsets
<1>2. position[c] + 1 \in 1 .. Len(log) /\ position[c] + 1 \in Slots
  BY <1>1, IngestAssumption DEF Polls, Slots
<1>3. Message(c) \in Events
  BY <1>2, ElementOfSeq DEF TypeOK, Message
<1> QED
  BY <1>2, <1>3 DEF Ids

LEMMA LogSlots ==
  ASSUME TypeOK
  PROVE  /\ Len(log) \in Nat /\ Len(log) <= MaxLog
         /\ \A i \in 1 .. Len(log) : i \in Slots /\ log[i] \in Events /\ log[i].id \in Ids
<1>1. Len(log) \in Nat /\ Len(log) <= MaxLog
  BY IngestAssumption DEF TypeOK, Offsets
<1>2. \A i \in 1 .. Len(log) : log[i] \in Events
  BY ElementOfSeq DEF TypeOK
<1> QED
  BY <1>1, <1>2, IngestAssumption DEF Slots, Ids

LEMMA DeliverTyped ==
  ASSUME TypeOK, NEW e \in Events, Deliver(e)
  PROVE  /\ log' \in Seq(Events) /\ Len(log') = Len(log) + 1 /\ Len(log') \in Offsets
         /\ \A i \in 1 .. Len(log) : log'[i] = log[i]
         /\ log'[Len(log) + 1] = e
<1>1. /\ log' \in Seq(Events) /\ Len(log') = Len(log) + 1
      /\ \A i \in 1 .. Len(log) : log'[i] = log[i]
      /\ log'[Len(log) + 1] = e
  BY AppendProperties DEF TypeOK, Deliver
<1>2. Len(log) + 1 \in Offsets
  BY LogSlots, IngestAssumption DEF Deliver, Offsets
<1> QED
  BY <1>1, <1>2

LEMMA TakeTyped ==
  ASSUME TypeOK, NEW c \in Consumers, Polls(c), NEW n \in {0, pending[c]}, Take(c, n)
  PROVE  /\ pending' \in [Consumers -> 0 .. BatchSize]
         /\ position' \in [Consumers -> Offsets]
         /\ last' \in [Consumers -> Offsets]
<1>1. position[c] + 1 \in Offsets
  BY MessageTyped, IngestAssumption DEF Slots, Offsets
<1>2. n + 1 \in 0 .. BatchSize
  BY IngestAssumption DEF TypeOK, Polls
<1> QED
  BY <1>1, <1>2 DEF Take, TypeOK

\* A failure writes at most its own slot; a capture writes what is live in sight.
LEMMA OpenCaseWrites ==
  ASSUME TypeOK, NEW c \in Consumers, Polls(c), OpenCase(c, Message(c))
  PROVE  /\ draft' \in [Consumers -> [Slots -> {"same", "live", "recovered"}]]
         /\ \A d \in Others(c) : draft'[d] = draft[d]
         /\ \A i \in Slots : \/ draft'[c][i] = draft[c][i]
                             \/ /\ i = position[c] + 1 /\ draft'[c][i] = "live"
                                /\ LiveCases(c, Message(c).obligation) = {}
<1> DEFINE p == position[c] + 1
<1>1. p \in Slots
  BY MessageTyped
<1> HIDE DEF p
<1>2. CASE draft' = draft
  BY <1>2 DEF TypeOK, Others
<1>3. CASE draft' = [draft EXCEPT ![c][p] = "live"] /\ LiveCases(c, Message(c).obligation) = {}
  <2>1. draft[c] \in [Slots -> {"same", "live", "recovered"}]
    BY DEF TypeOK
  <2> DEFINE row == [draft[c] EXCEPT ![p] = "live"]
  <2>2. row \in [Slots -> {"same", "live", "recovered"}]
    BY <2>1
  <2>3. \A i \in Slots : row[i] = IF i = p THEN "live" ELSE draft[c][i]
    BY <1>1, <2>1
  <2>4. draft' = [draft EXCEPT ![c] = row]
    BY <1>3
  <2> HIDE DEF row
  <2>5. draft' \in [Consumers -> [Slots -> {"same", "live", "recovered"}]]
        /\ draft'[c] = row /\ \A d \in Others(c) : draft'[d] = draft[d]
    BY <2>2, <2>4 DEF TypeOK, Others
  <2> QED
    BY <1>3, <2>3, <2>5 DEF p
<1> QED
  BY <1>2, <1>3 DEF OpenCase, p

LEMMA ResolveCaseWrites ==
  ASSUME TypeOK, NEW c \in Consumers, NEW e, ResolveCase(c, e)
  PROVE  /\ draft' \in [Consumers -> [Slots -> {"same", "live", "recovered"}]]
         /\ \A d \in Others(c) : draft'[d] = draft[d]
         /\ \A i \in Slots : draft'[c][i] = IF i \in LiveCases(c, e.obligation)
                                            THEN "recovered" ELSE draft[c][i]
<1> DEFINE row == [i \in Slots |-> IF i \in LiveCases(c, e.obligation)
                                   THEN "recovered" ELSE draft[c][i]]
<1>1. draft' = [draft EXCEPT ![c] = row]
  BY DEF ResolveCase
<1>2. row \in [Slots -> {"same", "live", "recovered"}]
  BY DEF TypeOK
<1>3. \A i \in Slots : row[i] = IF i \in LiveCases(c, e.obligation)
                                THEN "recovered" ELSE draft[c][i]
  OBVIOUS
<1> HIDE DEF row
<1>4. draft' \in [Consumers -> [Slots -> {"same", "live", "recovered"}]]
      /\ draft'[c] = row /\ \A d \in Others(c) : draft'[d] = draft[d]
  BY <1>1, <1>2 DEF TypeOK, Others
<1> QED
  BY <1>3, <1>4

LEMMA ApplyTyped ==
  ASSUME TypeOK, NEW c \in Consumers, Apply(c)
  PROVE  /\ ids' \in [Consumers -> SUBSET Ids]
         /\ draft' \in [Consumers -> [Slots -> {"same", "live", "recovered"}]]
<1>1. Message(c).id \in Ids /\ Polls(c)
  BY MessageTyped DEF Apply
<1>2. ids' = [ids EXCEPT ![c] = @ \cup {Message(c).id}]
  BY DEF Apply
<1>3. ids' \in [Consumers -> SUBSET Ids]
  BY <1>1, <1>2 DEF TypeOK
<1>4. OpenCase(c, Message(c)) \/ ResolveCase(c, Message(c))
  BY DEF Apply
<1> QED
  BY <1>1, <1>3, <1>4, OpenCaseWrites, ResolveCaseWrites

LEMMA LeaveTyped ==
  ASSUME TypeOK, NEW c \in Consumers, Leave(c)
  PROVE  /\ owner' \in Consumers \cup {NoOne}
         /\ phase' \in [Consumers -> {"down", "polling", "acking", "draining"}]
         /\ assigned' \in [Consumers -> {"never", "yes", "lost"}]
         /\ position' \in [Consumers -> Offsets]
         /\ pending' \in [Consumers -> 0 .. BatchSize]
         /\ last' \in [Consumers -> Offsets]
         /\ ids' \in [Consumers -> SUBSET Ids]
         /\ draft' \in [Consumers -> [Slots -> {"same", "live", "recovered"}]]
<1>1. 0 \in Offsets /\ 0 \in 0 .. BatchSize
  BY IngestAssumption DEF Offsets
<1>2. Untouched \in [Slots -> {"same", "live", "recovered"}]
  BY DEF Untouched
<1> QED
  BY <1>1, <1>2 DEF Leave, TypeOK

LEMMA CommitTyped ==
  ASSUME TypeOK, NEW c \in Consumers, CommitTransaction(c)
  PROVE  /\ processed' \subseteq Ids
         /\ cases' \in [Slots -> CaseStatus]
         /\ ids' \in [Consumers -> SUBSET Ids]
         /\ draft' \in [Consumers -> [Slots -> {"same", "live", "recovered"}]]
<1>1. Untouched \in [Slots -> {"same", "live", "recovered"}]
  BY DEF Untouched
<1> QED
  BY <1>1 DEF CommitTransaction, TypeOK, Sees

LEMMA FaultTyped ==
  ASSUME TypeOK, faults' = faults \/ (faults < MaxFaults /\ faults' = faults + 1)
  PROVE  faults' \in 0 .. MaxFaults
BY IngestAssumption DEF TypeOK

LEMMA TypeInit == Init => TypeOK
<1> SUFFICES ASSUME Init PROVE TypeOK
  OBVIOUS
<1>1. 0 \in Offsets /\ 0 \in 0 .. BatchSize /\ 0 \in 0 .. MaxFaults
  BY IngestAssumption DEF Offsets
<1>2. log \in Seq(Events) /\ Len(log) = 0
  BY EmptySeq DEF Init
<1>3. Untouched \in [Slots -> {"same", "live", "recovered"}]
  BY DEF Untouched
<1> QED
  BY <1>1, <1>2, <1>3 DEF Init, TypeOK

LEMMA TypeStep ==
  ASSUME TypeOK, [Next]_vars
  PROVE  TypeOK'
<1> USE DEF groupVars, storeVars, localVars
<1>1. ASSUME NEW c \in Consumers, Skip(c) PROVE TypeOK'
  <2>1. Polls(c) /\ Message(c).id \in Ids
    BY <1>1, MessageTyped DEF Skip
  <2>2. redis' \subseteq redis \cup {Message(c).id}
    BY <1>1 DEF Skip
  <2> QED
    BY <1>1, <2>1, <2>2, TakeTyped DEF Skip, Take, TypeOK
<1>2. ASSUME NEW c \in Consumers, Apply(c) PROVE TypeOK'
  <2>1. redis' \subseteq Ids
    BY <1>2, MessageTyped DEF Apply, FirstSight, TypeOK
  <2> QED
    BY <1>2, <2>1, TakeTyped, ApplyTyped DEF Apply, Take, TypeOK
<1>3. ASSUME NEW c \in Consumers, Quarantine(c) PROVE TypeOK'
  <2>1. redis' \subseteq Ids /\ dlq' \subseteq Ids
    BY <1>3, MessageTyped DEF Quarantine, FirstSight, TypeOK
  <2>2. Untouched \in [Slots -> {"same", "live", "recovered"}]
    BY DEF Untouched
  <2> QED
    BY <1>3, <2>1, <2>2, TakeTyped DEF Quarantine, Take, TypeOK
<1>4. ASSUME NEW c \in Consumers, CommitBatch(c) PROVE TypeOK'
  <2>1. CommitTransaction(c)
    BY <1>4 DEF CommitBatch
  <2> QED
    BY <1>4, <2>1, CommitTyped DEF CommitBatch, CommitTransaction, TypeOK
<1>5. ASSUME NEW c \in Consumers, Drain(c) PROVE TypeOK'
  <2>1. CommitTransaction(c)
    BY <1>5 DEF Drain
  <2>2. faults' \in 0 .. MaxFaults
    BY <1>5, FaultTyped DEF Drain
  <2> QED
    BY <1>5, <2>1, <2>2, CommitTyped DEF Drain, CommitTransaction, TypeOK
<1>6. ASSUME NEW c \in Consumers, CommitOffsets(c) PROVE TypeOK'
  <2>1. committed' \in Offsets
    BY <1>6 DEF CommitOffsets, TypeOK
  <2>2. CASE phase[c] = "acking" /\ UNCHANGED <<owner, assigned, position, last, ids, draft>>
             /\ phase' = [phase EXCEPT ![c] = "polling"] /\ pending' = [pending EXCEPT ![c] = 0]
    BY <1>6, <2>1, <2>2, IngestAssumption DEF CommitOffsets, TypeOK
  <2>3. CASE Leave(c)
    BY <1>6, <2>1, <2>3, LeaveTyped DEF CommitOffsets, TypeOK
  <2> QED
    BY <1>6, <2>2, <2>3 DEF CommitOffsets
<1>7. ASSUME NEW c \in Consumers, Crash(c) PROVE TypeOK'
  <2>1. Leave(c) /\ faults' \in 0 .. MaxFaults
    BY <1>7, FaultTyped DEF Crash
  <2> QED
    BY <1>7, <2>1, LeaveTyped DEF Crash, TypeOK
<1>8. ASSUME NEW c \in Consumers, Membership(c) PROVE TypeOK'
  <2>1. CASE Join(c)
    BY <2>1 DEF Join, TypeOK
  <2>2. CASE Assign(c)
    BY <2>2 DEF Assign, TypeOK
  <2>3. CASE Revoke(c)
    BY <2>3 DEF Revoke, TypeOK
  <2> QED
    BY <1>8, <2>1, <2>2, <2>3 DEF Membership
<1>9. CASE Lapse
  BY <1>9, FaultTyped DEF Lapse, TypeOK
<1>10. ASSUME NEW e \in Events, Deliver(e) PROVE TypeOK'
  BY <1>10, DeliverTyped DEF Deliver, TypeOK
<1>11. ASSUME NEW id \in Ids, RedisForgets(id) PROVE TypeOK'
  BY <1>11 DEF RedisForgets, TypeOK
<1>12. ASSUME NEW i \in Slots, StopCase(i) PROVE TypeOK'
  BY <1>12 DEF StopCase, TypeOK
<1>13. ASSUME NEW i \in Slots, ReopenCase(i) PROVE TypeOK'
  BY <1>13 DEF ReopenCase, TypeOK
<1>14. ASSUME NEW c \in Consumers, Choke(c) PROVE TypeOK'
  <2>1. Leave(c) /\ redis' \subseteq Ids
    BY <1>14, MessageTyped DEF Choke, FirstSight, TypeOK
  <2> QED
    BY <1>14, <2>1, LeaveTyped DEF Choke, TypeOK
<1>15. CASE UNCHANGED vars
  BY <1>15 DEF vars, TypeOK
<1> QED
  BY <1>1, <1>2, <1>3, <1>4, <1>5, <1>6, <1>7, <1>8, <1>9, <1>10, <1>11, <1>12, <1>13,
     <1>14, <1>15 DEF Next, Run

\* Every variable keeps its type.
THEOREM TypeCorrect == Spec => []TypeOK
<1>1. Init => TypeOK
  BY TypeInit
<1>2. TypeOK /\ [Next]_vars => TypeOK'
  BY TypeStep
<1> QED
  BY <1>1, <1>2, PTL DEF Spec

-----------------------------------------------------------------------------
(* What a step does to the log, the committed rows and the transactions *)

Transactions == <<ids, draft>>
Quiet == UNCHANGED <<log, processed, cases, Transactions>>

OnlyOf(c) == \A d \in Others(c) : ids'[d] = ids[d] /\ draft'[d] = draft[d]
Ends(c) == OnlyOf(c) /\ ids'[c] = {} /\ \A i \in Slots : draft'[c][i] = "same"

Aborts(c) == Ends(c) /\ UNCHANGED <<log, processed, cases>>

Commits(c) ==
  /\ Ends(c) /\ UNCHANGED log
  /\ processed' = processed \cup ids[c]
  /\ \A i \in Slots : cases'[i] = Sees(c, i)

Arrives ==
  /\ Len(log') = Len(log) + 1 /\ Len(log') \in Slots
  /\ \A i \in 1 .. Len(log) : log'[i] = log[i]
  /\ UNCHANGED <<processed, cases, Transactions>>

Stops(i) ==
  /\ cases[i] # "none" /\ Unlocked(i)
  /\ \A j \in Slots : cases'[j] = IF j = i THEN "stopped" ELSE cases[j]
  /\ UNCHANGED <<log, processed, Transactions>>

\* A recovered case is put back to work where no other is.
Reopens(i) ==
  /\ cases[i] = "recovered"
  /\ \A k \in SlotsOf(log[i].obligation) : ~AtWork(cases[k]) /\ Unlocked(k)
  /\ \A j \in Slots : cases'[j] = IF j = i THEN "reopened" ELSE cases[j]
  /\ UNCHANGED <<log, processed, Transactions>>

Records(c, p) ==
  /\ p \in 1 .. Len(log)
  /\ log[p].id \notin Recorded(c) /\ \A d \in Others(c) : log[p].id \notin ids[d]
  /\ ids'[c] = ids[c] \cup {log[p].id}
  /\ OnlyOf(c) /\ UNCHANGED <<log, processed, cases>>

OpensAt(c, p) ==
  /\ Records(c, p) /\ log[p].type = "payment.failed"
  /\ \A d \in Others(c), i \in SlotsOf(log[p].obligation) : draft[d][i] = "same"
  /\ \A i \in Slots : \/ draft'[c][i] = draft[c][i]
                      \/ /\ i = p /\ draft'[c][i] = "live"
                         /\ LiveCases(c, log[p].obligation) = {}

ClosesAt(c, p) ==
  /\ Records(c, p) /\ log[p].type = "payment.captured"
  /\ \A d \in Others(c), i \in SlotsOf(log[p].obligation) :
       AtWork(cases[i]) => draft[d][i] = "same"
  /\ \A i \in Slots : draft'[c][i] = IF i \in LiveCases(c, log[p].obligation)
                                     THEN "recovered" ELSE draft[c][i]

LEMMA ApplyEffect ==
  ASSUME TypeOK, NEW c \in Consumers, Apply(c)
  PROVE  OpensAt(c, position[c] + 1) \/ ClosesAt(c, position[c] + 1)
<1> DEFINE p == position[c] + 1
<1>1. Polls(c) /\ Message(c) = log[p] /\ p \in 1 .. Len(log)
  BY MessageTyped DEF Apply, Message
<1>2. OpenCase(c, Message(c)) \/ ResolveCase(c, Message(c))
  BY DEF Apply
<1>3. \A d \in Others(c) : draft'[d] = draft[d]
  BY <1>1, <1>2, OpenCaseWrites, ResolveCaseWrites
<1>4. Records(c, p)
  <2>1. log[p].id \notin Recorded(c) /\ \A d \in Others(c) : log[p].id \notin ids[d]
    BY <1>1 DEF Apply, FirstSight, RecordedDurably, Recorded, WaitsForEvent
  <2>2. ids'[c] = ids[c] \cup {log[p].id} /\ \A d \in Others(c) : ids'[d] = ids[d]
    BY <1>1 DEF Apply, TypeOK, Others
  <2> QED
    BY <1>1, <1>3, <2>1, <2>2 DEF Apply, Take, groupVars, Records, OnlyOf
<1>5. CASE log[p].type = "payment.failed" /\ OpenCase(c, Message(c))
  BY <1>1, <1>4, <1>5, OpenCaseWrites DEF OpenCase, WaitsToOpen, OpensAt
<1>6. CASE log[p].type = "payment.captured" /\ ResolveCase(c, Message(c))
  BY <1>1, <1>4, <1>6, ResolveCaseWrites DEF ResolveCase, WaitsToResolve, ClosesAt
<1> QED
  BY <1>1, <1>5, <1>6 DEF Apply

LEMMA EndEffect ==
  ASSUME TypeOK, NEW c \in Consumers,
         ids' = [ids EXCEPT ![c] = {}], draft' = [draft EXCEPT ![c] = Untouched]
  PROVE  Ends(c)
BY DEF TypeOK, Ends, OnlyOf, Others, Untouched

LEMMA CommitEffect ==
  ASSUME TypeOK, NEW c \in Consumers, CommitTransaction(c), UNCHANGED log
  PROVE  Commits(c)
BY EndEffect DEF CommitTransaction, Commits

LEMMA DeliverEffect ==
  ASSUME TypeOK, NEW e \in Events, Deliver(e)
  PROVE  Arrives
<1>1. Len(log) + 1 \in Slots
  BY LogSlots, IngestAssumption DEF Deliver, Slots
<1> QED
  BY <1>1, DeliverTyped DEF Deliver, Arrives, localVars, storeVars, Transactions

\* Every step is one of these.
LEMMA StepEffect ==
  ASSUME TypeOK, [Next]_vars
  PROVE  \/ Quiet \/ Arrives
         \/ \E c \in Consumers : Aborts(c) \/ Commits(c)
         \/ \E c \in Consumers : \E p \in 1 .. Len(log) :
              p = position[c] + 1 /\ (OpensAt(c, p) \/ ClosesAt(c, p))
         \/ \E i \in Slots : Stops(i) \/ Reopens(i)
<1> USE DEF groupVars, storeVars, localVars, Transactions
<1>1. ASSUME NEW c \in Consumers, Skip(c) PROVE Quiet
  BY <1>1 DEF Skip, Take, Quiet
<1>2. ASSUME NEW c \in Consumers, Apply(c)
      PROVE  \E p \in 1 .. Len(log) : p = position[c] + 1 /\ (OpensAt(c, p) \/ ClosesAt(c, p))
  BY <1>2, ApplyEffect, MessageTyped DEF Apply
<1>3. ASSUME NEW c \in Consumers, Quarantine(c) PROVE Aborts(c)
  BY <1>3, EndEffect DEF Quarantine, Take, Aborts
<1>4. ASSUME NEW c \in Consumers, CommitBatch(c) \/ Drain(c) PROVE Commits(c)
  BY <1>4, CommitEffect DEF CommitBatch, Drain
<1>5. ASSUME NEW c \in Consumers, CommitOffsets(c) PROVE Quiet \/ Aborts(c)
  BY <1>5, EndEffect DEF CommitOffsets, Leave, Quiet, Aborts
<1>6. ASSUME NEW c \in Consumers, Crash(c) PROVE Aborts(c)
  BY <1>6, EndEffect DEF Crash, Leave, Aborts
<1>7. ASSUME NEW c \in Consumers, Membership(c) PROVE Quiet
  BY <1>7 DEF Membership, Join, Assign, Revoke, Quiet
<1>8. CASE Lapse
  BY <1>8 DEF Lapse, Quiet
<1>9. ASSUME NEW e \in Events, Deliver(e) PROVE Arrives
  BY <1>9, DeliverEffect
<1>10. ASSUME NEW id \in Ids, RedisForgets(id) PROVE Quiet
  BY <1>10 DEF RedisForgets, Quiet
<1>11. ASSUME NEW i \in Slots, StopCase(i) PROVE Stops(i)
  BY <1>11 DEF StopCase, Stops, TypeOK
<1>12. ASSUME NEW i \in Slots, ReopenCase(i) PROVE Reopens(i)
  BY <1>12 DEF ReopenCase, Reopens, TypeOK
<1>13. ASSUME NEW c \in Consumers, Choke(c) PROVE Aborts(c)
  BY <1>13, EndEffect DEF Choke, Leave, Aborts
<1>14. CASE UNCHANGED vars
  BY <1>14 DEF vars, Quiet
<1> QED
  BY <1>1, <1>2, <1>3, <1>4, <1>5, <1>6, <1>7, <1>8, <1>9, <1>10, <1>11, <1>12, <1>13,
     <1>14 DEF Next, Run

\* A case is written by a planner or a reviewer, or by the commit of a transaction.
LEMMA CasesWrittenBy ==
  ASSUME TypeOK, [Next]_vars
  PROVE  \/ UNCHANGED cases
         \/ \E i \in Slots : StopCase(i) \/ ReopenCase(i)
         \/ \E c \in Consumers : Commits(c)
<1> USE DEF groupVars, storeVars, localVars
<1>1. ASSUME NEW c \in Consumers, CommitBatch(c) \/ Drain(c) PROVE Commits(c)
  BY <1>1, CommitEffect DEF CommitBatch, Drain
<1>2. ASSUME NEW c \in Consumers, Skip(c) \/ Apply(c) \/ Quarantine(c) PROVE UNCHANGED cases
  BY <1>2 DEF Skip, Apply, Quarantine, Take
<1>3. ASSUME NEW c \in Consumers, CommitOffsets(c) \/ Crash(c) \/ Choke(c) \/ Membership(c)
      PROVE  UNCHANGED cases
  BY <1>3 DEF CommitOffsets, Crash, Choke, Membership, Join, Assign, Revoke
<1>4. ASSUME \/ Lapse \/ UNCHANGED vars \/ \E e \in Events : Deliver(e)
             \/ \E id \in Ids : RedisForgets(id)
      PROVE  UNCHANGED cases
  BY <1>4 DEF Lapse, Deliver, RedisForgets, vars
<1> QED
  BY <1>1, <1>2, <1>3, <1>4 DEF Next, Run

-----------------------------------------------------------------------------
(* The cases *)

LEMMA QuietKeeps ==
  ASSUME RowInv, Quiet
  PROVE  RowInv'
BY DEF RowInv, Quiet, Transactions, Sourced, Backed, Opened, Resolved, Isolated,
       OneClaimPerEvent, Claimed, Wrote, OpensAlone, OneLiveInSight, Sees

\* An event that arrives has no case and no transaction has written its slot.
LEMMA ArrivesKeeps ==
  ASSUME TypeOK, RowInv, Arrives
  PROVE  RowInv'
<1> USE DEF Arrives, Transactions
<1>1. /\ \A i \in 1 .. Len(log') : i \in 1 .. Len(log) \/ i = Len(log) + 1
      /\ \A i \in 1 .. Len(log) : i \in 1 .. Len(log') /\ i \in Slots
      /\ Len(log) + 1 \notin 1 .. Len(log)
  BY LogSlots
<1>2. \A c \in Consumers : Wrote(c)' = Wrote(c) /\ Wrote(c) \subseteq 1 .. Len(log)
  BY DEF Wrote, RowInv, Backed
<1>3. \A i \in Slots : cases[i] # "none" => i \in 1 .. Len(log)
  BY DEF RowInv, Sourced
<1>4. Sourced'
  BY <1>1 DEF RowInv, Sourced
<1>5. Backed'
  BY <1>1, <1>2 DEF RowInv, Backed, Opened, Resolved
<1>6. Isolated'
  BY <1>2 DEF RowInv, Isolated, Others
<1>7. OneClaimPerEvent'
  <2>1. \A i \in 1 .. Len(log') : Claimed(i)' => i \in 1 .. Len(log) /\ Claimed(i)
    BY <1>1, <1>2, <1>3 DEF Claimed
  <2> QED
    BY <2>1 DEF RowInv, OneClaimPerEvent
<1>8. OpensAlone'
  BY <1>2 DEF RowInv, OpensAlone, Others
<1>9. OneLiveInSight'
  <2>1. /\ ~AtWork(cases[Len(log) + 1])
        /\ \A c \in Consumers : ~AtWork(Sees(c, Len(log) + 1))
    BY <1>1, <1>2, <1>3 DEF Sees, Wrote
  <2>2. \A c \in Consumers : \A i \in 1 .. Len(log') : Sees(c, i)' = Sees(c, i)
    BY DEF Sees
  <2> QED
    BY <1>1, <2>1, <2>2 DEF RowInv, OneLiveInSight
<1> QED
  BY <1>4, <1>5, <1>6, <1>7, <1>8, <1>9 DEF RowInv

LEMMA AbortsKeeps ==
  ASSUME TypeOK, RowInv, NEW c \in Consumers, Aborts(c)
  PROVE  RowInv'
<1> USE DEF Aborts, Ends, OnlyOf
<1>1. /\ Wrote(c)' = {} /\ \A d \in Others(c) : Wrote(d)' = Wrote(d)
      /\ \A d \in Consumers : d = c \/ d \in Others(c)
  BY DEF Wrote, Others
<1>2. Sourced' /\ Backed'
  BY <1>1 DEF RowInv, Sourced, Backed, Opened, Resolved
<1>3. Isolated'
  BY <1>1 DEF RowInv, Isolated, Others
<1>4. OneClaimPerEvent'
  BY <1>1 DEF RowInv, OneClaimPerEvent, Claimed
<1>5. OpensAlone'
  BY <1>1 DEF RowInv, OpensAlone, Others
<1>6. OneLiveInSight'
  BY <1>1, LogSlots DEF RowInv, OneLiveInSight, Sees
<1> QED
  BY <1>2, <1>3, <1>4, <1>5, <1>6 DEF RowInv

LEMMA StopsKeeps ==
  ASSUME TypeOK, RowInv, NEW i \in Slots, Stops(i)
  PROVE  RowInv'
<1> USE DEF Stops, Transactions, Unlocked
<1>1. \A c \in Consumers : Wrote(c)' = Wrote(c) /\ i \notin Wrote(c)
  BY DEF Wrote
<1>2. Sourced'
  BY DEF RowInv, Sourced
<1>3. Backed'
  BY <1>1, LogSlots DEF RowInv, Backed, Opened, Resolved
<1>4. Isolated' /\ OpensAlone'
  BY <1>1 DEF RowInv, Isolated, OpensAlone, Others
<1>5. OneClaimPerEvent'
  BY <1>1, LogSlots DEF RowInv, OneClaimPerEvent, Claimed
<1>6. OneLiveInSight'
  BY LogSlots DEF RowInv, OneLiveInSight, Sees
<1> QED
  BY <1>2, <1>3, <1>4, <1>5, <1>6 DEF RowInv

LEMMA ReopensKeeps ==
  ASSUME TypeOK, RowInv, NEW i \in Slots, Reopens(i)
  PROVE  RowInv'
<1> USE DEF Reopens, Transactions, Unlocked
<1>1. i \in 1 .. Len(log) /\ i \in SlotsOf(log[i].obligation)
  BY DEF RowInv, Sourced, SlotsOf
<1>2. \A c \in Consumers : Wrote(c)' = Wrote(c) /\ i \notin Wrote(c)
  BY <1>1 DEF Wrote
<1>3. Sourced'
  BY DEF RowInv, Sourced
<1>4. Backed'
  BY <1>2, LogSlots DEF RowInv, Backed, Opened, Resolved
<1>5. Isolated' /\ OpensAlone'
  BY <1>2 DEF RowInv, Isolated, OpensAlone, Others
<1>6. OneClaimPerEvent'
  BY <1>2, LogSlots DEF RowInv, OneClaimPerEvent, Claimed
\* Nobody else's case is in sight at work: none is committed, and none is being written.
<1>7. OneLiveInSight'
  <2>1. ASSUME NEW k \in 1 .. Len(log), log[k].obligation = log[i].obligation, k # i
        PROVE  /\ k \in Slots /\ ~AtWork(cases'[k])
               /\ \A c \in Consumers : ~AtWork(Sees(c, k)')
    BY <2>1, LogSlots DEF SlotsOf, Sees
  <2>2. ASSUME NEW k \in 1 .. Len(log), k # i
        PROVE  cases'[k] = cases[k] /\ \A c \in Consumers : Sees(c, k)' = Sees(c, k)
    BY <2>2, LogSlots DEF Sees
  <2> QED
    BY <2>1, <2>2 DEF RowInv, OneLiveInSight
<1> QED
  BY <1>3, <1>4, <1>5, <1>6, <1>7 DEF RowInv

LEMMA CommitsKeeps ==
  ASSUME TypeOK, RowInv, NEW c \in Consumers, Commits(c)
  PROVE  RowInv'
<1> USE DEF Commits, Ends, OnlyOf
<1>1. /\ Wrote(c)' = {} /\ \A d \in Others(c) : Wrote(d)' = Wrote(d)
      /\ \A d \in Consumers : d = c \/ d \in Others(c)
      /\ \A d \in Others(c) : d \in Consumers /\ c \in Others(d)
  BY DEF Wrote, Others
\* What it wrote is committed; the rest is as it was.
<1>2. \A i \in Slots : cases'[i] = IF i \in Wrote(c) THEN draft[c][i] ELSE cases[i]
  BY DEF Wrote, Sees
<1>3. \A i \in Wrote(c) : i \in Slots /\ log[i].id \in processed \cup ids[c]
  BY DEF RowInv, Backed, Sourced, Opened, Resolved, Wrote
<1>4. Sourced'
  BY <1>2, <1>3 DEF RowInv, Sourced, Backed, Wrote
<1>5. Backed'
  <2> SUFFICES ASSUME NEW d \in Others(c), NEW i \in Wrote(d)
               PROVE  i \in 1 .. Len(log) /\ (Opened(d, i)' \/ Resolved(d, i)')
    BY <1>1 DEF Backed
  <2>1. i \in Slots /\ i \notin Wrote(c)
    BY <1>1 DEF RowInv, Isolated, Wrote
  <2> QED
    BY <1>1, <1>2, <2>1 DEF RowInv, Backed, Opened, Resolved
<1>6. Isolated'
  BY <1>1 DEF RowInv, Isolated, Others
<1>7. \A i \in Slots : Claimed(i)' => Claimed(i)
  BY <1>1, <1>2 DEF Claimed
<1>8. OneClaimPerEvent'
  BY <1>7, LogSlots DEF RowInv, OneClaimPerEvent
<1>9. OpensAlone'
  BY <1>1 DEF RowInv, OpensAlone, Others
<1>10. OneLiveInSight'
  <2>1. SUFFICES ASSUME NEW i \in 1 .. Len(log), NEW j \in 1 .. Len(log),
                        log[i].obligation = log[j].obligation
                 PROVE  /\ AtWork(cases'[i]) /\ AtWork(cases'[j]) => i = j
                        /\ \A d \in Consumers :
                             AtWork(Sees(d, i)') /\ AtWork(Sees(d, j)') => i = j
    BY DEF OneLiveInSight
  <2>2. i \in Slots /\ j \in Slots
    BY LogSlots
  <2>3. AtWork(cases'[i]) /\ AtWork(cases'[j]) => i = j
    BY <2>1, <2>2 DEF RowInv, OneLiveInSight
  <2>4. Sees(c, i)' = cases'[i] /\ Sees(c, j)' = cases'[j]
    BY <2>2 DEF Sees
  \* Another transaction sees one of the cases it wrote itself, or one now committed.
  <2>5. ASSUME NEW d \in Others(c), NEW k \in {i, j}, NEW l \in {i, j}
        PROVE  ~(k \in Wrote(d) /\ draft[d][k] = "live" /\ l \notin Wrote(d)
                 /\ ~AtWork(Sees(d, l)) /\ AtWork(cases'[l]))
    <3>1. SUFFICES ASSUME k \in Wrote(d), draft[d][k] = "live", l \notin Wrote(d),
                          ~AtWork(Sees(d, l)), AtWork(cases'[l])
                   PROVE  FALSE
      OBVIOUS
    <3>2. l \in Wrote(c) /\ draft[c][l] = "live"
      <4>1. l \in Slots /\ draft[c][l] \in {"same", "live", "recovered"}
        BY <2>2 DEF TypeOK
      <4>2. l \in Wrote(c)
        BY <1>2, <3>1, <4>1 DEF Sees, Wrote
      <4> QED
        BY <1>2, <3>1, <4>1, <4>2 DEF Wrote
    <3> QED
      BY <1>1, <2>1, <3>1, <3>2 DEF RowInv, OpensAlone
  <2>6. ASSUME NEW d \in Others(c)
        PROVE  AtWork(Sees(d, i)') /\ AtWork(Sees(d, j)') => i = j
    <3>1. draft'[d] = draft[d]
      OBVIOUS
    <3>2. CASE i \in Wrote(d) /\ j \in Wrote(d)
      BY <1>1, <2>1, <2>2, <3>1, <3>2 DEF Sees, Wrote, RowInv, OneLiveInSight
    <3>3. CASE i \notin Wrote(d) /\ j \notin Wrote(d)
      BY <2>2, <2>3, <3>1, <3>3 DEF Sees, Wrote
    <3>4. ASSUME NEW k \in {i, j}, NEW l \in {i, j}, k \in Wrote(d), l \notin Wrote(d),
                 AtWork(Sees(d, k)'), AtWork(Sees(d, l)')
          PROVE  k = l
      <4>1. draft[d][k] = "live" /\ AtWork(Sees(d, k)) /\ AtWork(cases'[l])
        <5>1. k \in Slots /\ l \in Slots /\ draft[d][k] \in {"same", "live", "recovered"}
          BY <2>2 DEF TypeOK, Others
        <5> QED
          BY <3>1, <3>4, <5>1 DEF Sees, Wrote
      <4>2. AtWork(Sees(d, l))
        BY <2>5, <3>4, <4>1
      <4> QED
        BY <1>1, <2>1, <4>1, <4>2 DEF RowInv, OneLiveInSight
    <3> QED
      BY <3>2, <3>3, <3>4
  <2> QED
    BY <1>1, <2>3, <2>4, <2>6
<1> QED
  BY <1>4, <1>5, <1>6, <1>8, <1>9, <1>10 DEF RowInv

\* The slot of a message the transaction has not seen is free.
LEMMA UnseenIsFree ==
  ASSUME RowInv, TypeOK, NEW c \in Consumers, NEW p, Records(c, p)
  PROVE  p \in Slots /\ ~Claimed(p)
         /\ \A i \in 1 .. Len(log) : log[i].id = log[p].id => ~Claimed(i)
<1>1. p \in Slots
  BY LogSlots DEF Records
<1>2. ASSUME NEW i \in 1 .. Len(log), log[i].id = log[p].id PROVE ~Claimed(i)
  <2>1. i \in Slots
    BY LogSlots
  <2>2. log[i].id \notin processed /\ \A d \in Consumers : log[i].id \notin ids[d]
    BY <1>2 DEF Records, Recorded, Others
  <2>3. cases[i] = "none"
    BY <2>1, <2>2 DEF RowInv, Sourced
  <2> QED
    BY <2>2, <2>3 DEF RowInv, Backed, Opened, Resolved, Claimed
<1> QED
  BY <1>1, <1>2 DEF Records

LEMMA RecordsIsolates ==
  ASSUME Isolated, NEW c \in Consumers, NEW p, Records(c, p)
  PROVE  /\ \A d \in Consumers : ids'[d] \cap processed' = {}
         /\ \A d \in Consumers : \A f \in Others(d) : ids'[d] \cap ids'[f] = {}
<1>1. /\ \A d \in Others(c) : ids'[d] = ids[d] /\ log[p].id \notin ids[d]
      /\ ids'[c] = ids[c] \cup {log[p].id} /\ processed' = processed
      /\ log[p].id \notin processed
  BY DEF Records, OnlyOf, Recorded
<1>2. \A d \in Consumers : d = c \/ d \in Others(c)
  BY DEF Others
<1> QED
  BY <1>1, <1>2 DEF Isolated, Others

LEMMA OpensKeeps ==
  ASSUME TypeOK, RowInv, NEW c \in Consumers, NEW p, OpensAt(c, p)
  PROVE  RowInv'
<1>1. /\ Records(c, p) /\ p \in 1 .. Len(log) /\ p \in Slots
      /\ UNCHANGED <<log, processed, cases>>
      /\ ids'[c] = ids[c] \cup {log[p].id}
      /\ \A d \in Others(c) : ids'[d] = ids[d] /\ draft'[d] = draft[d]
  BY UnseenIsFree DEF OpensAt, Records, OnlyOf
<1>2. \A d \in Consumers : d = c \/ (d \in Others(c) /\ c \in Others(d))
  BY DEF Others
<1>3. /\ cases[p] = "none" /\ \A d \in Consumers : p \notin Wrote(d)
      /\ \A i \in 1 .. Len(log) : log[i].id = log[p].id => ~Claimed(i)
  BY <1>1, UnseenIsFree DEF Claimed
<1>4. /\ \A d \in Others(c) : Wrote(d)' = Wrote(d)
      /\ Wrote(c)' = Wrote(c) \/ Wrote(c)' = Wrote(c) \cup {p}
      /\ \A i \in Wrote(c) : i # p /\ draft'[c][i] = draft[c][i]
  <2>1. \A d \in Others(c) : Wrote(d)' = Wrote(d)
    BY <1>1 DEF Wrote
  <2>2. \A i \in Slots : i # p => draft'[c][i] = draft[c][i]
    BY DEF OpensAt
  <2>3. \A i \in Wrote(c) : i # p /\ draft'[c][i] = draft[c][i]
    BY <1>3, <2>2 DEF Wrote
  <2>4. \A i \in Slots : i # p => (i \in Wrote(c)' <=> i \in Wrote(c))
    BY <2>2 DEF Wrote
  <2>5. Wrote(c)' \subseteq Slots /\ Wrote(c) \subseteq Slots
    BY DEF Wrote
  <2> QED
    BY <1>1, <2>1, <2>3, <2>4, <2>5
<1>5. p \in Wrote(c)' => draft'[c][p] = "live" /\ LiveCases(c, log[p].obligation) = {}
  BY <1>3 DEF Wrote, OpensAt
<1>6. Sourced'
  BY <1>1 DEF RowInv, Sourced
<1>7. Backed'
  BY <1>1, <1>2, <1>3, <1>4 DEF RowInv, Backed, Opened, Resolved, OpensAt
<1>8. Isolated'
  BY <1>1, <1>2, <1>3, <1>4, RecordsIsolates DEF RowInv, Isolated, Others
<1>9. OneClaimPerEvent'
  <2>1. \A i \in 1 .. Len(log) : Claimed(i)' => i = p \/ Claimed(i)
    BY <1>1, <1>2, <1>4 DEF Claimed
  <2> QED
    BY <1>1, <1>3, <2>1 DEF RowInv, OneClaimPerEvent
<1>10. OpensAlone'
  <2>1. p \in SlotsOf(log[p].obligation)
    BY <1>1 DEF SlotsOf
  <2>2. ASSUME NEW d \in Others(c), NEW i \in Wrote(d), log[i].obligation = log[p].obligation
        PROVE  FALSE
    <3>1. i \in SlotsOf(log[p].obligation)
      BY <2>2 DEF RowInv, Backed, SlotsOf, Others
    <3> QED
      BY <3>1 DEF OpensAt, Wrote
  <2> QED
    BY <1>1, <1>2, <1>4, <2>2 DEF RowInv, OpensAlone, Others
<1>11. OneLiveInSight'
  <2>1. \A d \in Others(c) : \A i \in 1 .. Len(log) : Sees(d, i)' = Sees(d, i)
    BY <1>1 DEF Sees
  <2>2. \A i \in 1 .. Len(log) : i # p => Sees(c, i)' = Sees(c, i)
    BY <1>1, LogSlots DEF OpensAt, Sees
  <2>3. AtWork(Sees(c, p)') =>
          \A i \in 1 .. Len(log) :
            log[i].obligation = log[p].obligation => ~AtWork(Sees(c, i))
    <3>1. AtWork(Sees(c, p)') => p \in Wrote(c)'
      BY <1>1, <1>3 DEF Sees, Wrote
    <3> QED
      BY <1>5, <3>1 DEF LiveCases, SlotsOf
  <2> QED
    BY <1>1, <1>2, <2>1, <2>2, <2>3 DEF RowInv, OneLiveInSight
<1> QED
  BY <1>6, <1>7, <1>8, <1>9, <1>10, <1>11 DEF RowInv

LEMMA ClosesKeeps ==
  ASSUME TypeOK, RowInv, NEW c \in Consumers, NEW p, ClosesAt(c, p)
  PROVE  RowInv'
<1> DEFINE o == log[p].obligation
<1>1. /\ Records(c, p) /\ UNCHANGED <<log, processed, cases>>
      /\ ids[c] \subseteq ids'[c]
      /\ \A d \in Others(c) : ids'[d] = ids[d] /\ draft'[d] = draft[d]
  BY DEF ClosesAt, Records, OnlyOf
<1>2. \A d \in Consumers : d = c \/ (d \in Others(c) /\ c \in Others(d))
  BY DEF Others
<1>3. \A i \in 1 .. Len(log) :
        draft'[c][i] = IF i \in LiveCases(c, o) THEN "recovered" ELSE draft[c][i]
  BY LogSlots DEF ClosesAt
<1>4. \A i \in LiveCases(c, o) : i \in 1 .. Len(log) /\ i \in SlotsOf(o) /\ AtWork(Sees(c, i))
  BY DEF LiveCases, SlotsOf
<1>5. /\ \A d \in Others(c) : Wrote(d)' = Wrote(d)
      /\ Wrote(c)' = Wrote(c) \cup LiveCases(c, o)
  <2>1. \A d \in Others(c) : Wrote(d)' = Wrote(d)
    BY <1>1 DEF Wrote
  <2>2. \A i \in Slots : i \in LiveCases(c, o) => draft'[c][i] # "same"
    BY DEF ClosesAt
  <2>3. \A i \in Slots : i \notin LiveCases(c, o) => draft'[c][i] = draft[c][i]
    BY DEF ClosesAt
  <2> QED
    BY <1>4, <2>1, <2>2, <2>3, LogSlots DEF Wrote
\* No other transaction wrote what it closes.
<1>6. \A d \in Others(c), i \in LiveCases(c, o) : i \notin Wrote(d)
  <2> SUFFICES ASSUME NEW d \in Others(c), NEW i \in LiveCases(c, o), i \in Wrote(d)
               PROVE  FALSE
    OBVIOUS
  <2>1. d \in Consumers /\ i \notin Wrote(c)
    BY <1>2 DEF RowInv, Isolated, Others
  <2>2. AtWork(cases[i])
    BY <1>4, <2>1, LogSlots DEF Wrote, Sees
  <2> QED
    BY <1>4, <2>2 DEF ClosesAt, Wrote
<1>7. Sourced'
  BY <1>1 DEF RowInv, Sourced
<1>8. Backed'
  <2>1. ASSUME NEW d \in Others(c), NEW i \in Wrote(d)
        PROVE  i \in 1 .. Len(log) /\ (Opened(d, i)' \/ Resolved(d, i)')
    BY <1>1, <1>2 DEF RowInv, Backed, Opened, Resolved, Others
  <2>2. ASSUME NEW i \in Wrote(c), i \notin LiveCases(c, o)
        PROVE  i \in 1 .. Len(log) /\ (Opened(c, i)' \/ Resolved(c, i)')
    <3>1. i \in 1 .. Len(log) /\ (Opened(c, i) \/ Resolved(c, i))
      BY DEF RowInv, Backed
    <3> QED
      BY <1>1, <1>3, <2>2, <3>1 DEF Opened, Resolved
  <2>3. ASSUME NEW i \in LiveCases(c, o)
        PROVE  i \in 1 .. Len(log) /\ (Opened(c, i)' \/ Resolved(c, i)')
    <3>1. i \in 1 .. Len(log) /\ i \in Slots /\ AtWork(Sees(c, i)) /\ draft'[c][i] = "recovered"
      BY <1>3, <1>4, LogSlots
    <3>2. CASE i \in Wrote(c)
      <4>1. Opened(c, i) \/ Resolved(c, i)
        BY <3>2 DEF RowInv, Backed
      <4> QED
        BY <1>1, <3>1, <4>1 DEF Opened, Resolved
    <3>3. CASE i \notin Wrote(c)
      BY <1>1, <3>1, <3>3 DEF Wrote, Sees, Resolved
    <3> QED
      BY <3>1, <3>2, <3>3
  <2> QED
    BY <1>1, <1>2, <1>5, <2>1, <2>2, <2>3 DEF Backed
<1>9. Isolated'
  <2>1. \A d \in Consumers : \A f \in Others(d) : Wrote(d)' \cap Wrote(f)' = {}
    BY <1>2, <1>5, <1>6 DEF RowInv, Isolated, Others
  <2> QED
    BY <1>1, <2>1, RecordsIsolates DEF RowInv, Isolated
<1>10. OneClaimPerEvent'
  <2>1. ASSUME NEW i \in 1 .. Len(log), Claimed(i)' PROVE Claimed(i)
    <3>1. i \in Slots
      BY LogSlots
    <3>2. i \in LiveCases(c, o) => Claimed(i)
      BY <1>4, <3>1 DEF Sees, Claimed, Wrote
    <3> QED
      BY <1>1, <1>2, <1>5, <2>1, <3>2 DEF Claimed
  <2> QED
    BY <1>1, <2>1 DEF RowInv, OneClaimPerEvent
<1>11. OpensAlone'
  <2>1. ASSUME NEW d \in Others(c), NEW k \in Wrote(c)', NEW i \in Wrote(d),
               log[k].obligation = log[i].obligation
        PROVE  draft'[c][k] # "live" /\ draft[d][i] # "live"
    <3>1. d \in Consumers /\ c \in Others(d) /\ i \in 1 .. Len(log)
      BY <1>2 DEF RowInv, Backed, Others
    <3>2. CASE k \in Wrote(c)
      <4>1. k \in 1 .. Len(log)
        BY <3>2 DEF RowInv, Backed
      <4>2. draft[c][k] # "live" /\ draft[d][i] # "live"
        BY <2>1, <3>1, <3>2 DEF RowInv, OpensAlone
      <4> QED
        BY <1>3, <4>1, <4>2
    <3>3. CASE k \notin Wrote(c)
      <4>1. /\ k \in LiveCases(c, o) /\ k \in 1 .. Len(log) /\ k \in Slots
            /\ log[k].obligation = o /\ k \notin Wrote(d)
        BY <1>4, <1>5, <1>6, <2>1, <3>3, LogSlots DEF SlotsOf
      <4>2. draft'[c][k] = "recovered" /\ AtWork(cases[k])
        BY <1>3, <1>4, <3>3, <4>1 DEF Sees, Wrote
      <4>3. AtWork(Sees(d, k)) /\ k # i
        BY <4>1, <4>2 DEF Sees, Wrote
      <4>4. ~AtWork(Sees(d, i))
        BY <2>1, <3>1, <4>1, <4>3 DEF RowInv, OneLiveInSight
      <4> QED
        BY <4>2, <4>4 DEF Sees
    <3> QED
      BY <3>2, <3>3
  <2>2. ASSUME NEW d \in Others(c), NEW f \in Others(c), d # f,
               NEW k \in Wrote(d), NEW i \in Wrote(f), log[k].obligation = log[i].obligation
        PROVE  draft[d][k] # "live"
    BY <2>2 DEF RowInv, OpensAlone, Others
  <2> QED
    BY <1>1, <1>2, <1>5, <2>1, <2>2 DEF OpensAlone, Others
<1>12. OneLiveInSight'
  <2>1. \A d \in Others(c) : \A i \in 1 .. Len(log) : Sees(d, i)' = Sees(d, i)
    BY <1>1 DEF Sees
  <2>2. \A i \in 1 .. Len(log) : AtWork(Sees(c, i)') => AtWork(Sees(c, i))
    BY <1>1, <1>3 DEF Sees
  <2> QED
    BY <1>1, <1>2, <2>1, <2>2 DEF RowInv, OneLiveInSight
<1> QED
  BY <1>7, <1>8, <1>9, <1>10, <1>11, <1>12 DEF RowInv

LEMMA CaseInvInit == Init => CaseInv
<1> SUFFICES ASSUME Init PROVE CaseInv
  OBVIOUS
<1>1. TypeOK /\ Len(log) = 0
  BY TypeInit, EmptySeq DEF Init
<1>2. \A c \in Consumers : Wrote(c) = {} /\ ids[c] = {}
  BY DEF Init, Wrote, Untouched
<1>3. \A i \in Slots : cases[i] = "none"
  BY DEF Init
<1> QED
  BY <1>1, <1>2, <1>3
     DEF CaseInv, RowInv, Sourced, Backed, Isolated, OneClaimPerEvent, OpensAlone,
         OneLiveInSight, Others

LEMMA CaseInvStep ==
  ASSUME CaseInv, [Next]_vars
  PROVE  CaseInv'
BY TypeStep, StepEffect, QuietKeeps, ArrivesKeeps, AbortsKeeps, StopsKeeps,
   ReopensKeeps, CommitsKeeps, OpensKeeps, ClosesKeeps DEF CaseInv

THEOREM CaseInvariant == Spec => []CaseInv
<1>1. CaseInv /\ [Next]_vars => CaseInv'
  BY CaseInvStep
<1> QED
  BY <1>1, CaseInvInit, PTL DEF Spec

\* An obligation has one live case, whatever is redelivered, under whatever id, to
\* however many members.
THEOREM OneLiveCaseHolds == Spec => []OneLiveCase
<1>1. CaseInv => OneLiveCase
  BY DEF CaseInv, RowInv, OneLiveInSight, OneLiveCase, SlotsOf
<1> QED
  BY <1>1, CaseInvariant, PTL

\* An event opens one case, even when it comes again after that case closed.
THEOREM OneCasePerEventHolds == Spec => []OneCasePerEvent
<1>1. CaseInv => OneCasePerEvent
  BY DEF CaseInv, RowInv, OneClaimPerEvent, Claimed, OneCasePerEvent
<1> QED
  BY <1>1, CaseInvariant, PTL

\* No event changes a closed case, and nobody a stopped one: the rows a transaction
\* writes are those it opens and those that are live.
THEOREM ClosedToEventsHolds == Spec => ClosedToEvents
<1> DEFINE Keeps == \A i \in Slots :
             /\ cases[i] = "stopped" => cases'[i] = "stopped"
             /\ cases[i] = "recovered" => UNCHANGED cases[i] \/ StopCase(i) \/ ReopenCase(i)
<1>1. CaseInv /\ [Next]_vars => [Keeps]_vars
  <2> SUFFICES ASSUME CaseInv, [Next]_vars PROVE Keeps
    OBVIOUS
  <2>1. ASSUME NEW c \in Consumers, Commits(c) PROVE Keeps
    BY <2>1 DEF Commits, Sees, CaseInv, RowInv, Backed, Wrote, Opened, Resolved
  <2>2. ASSUME NEW k \in Slots, StopCase(k) \/ ReopenCase(k) PROVE Keeps
    BY <2>2 DEF StopCase, ReopenCase, CaseInv, TypeOK
  <2>3. CASE UNCHANGED cases
    BY <2>3
  <2>4. UNCHANGED cases \/ (\E k \in Slots : StopCase(k) \/ ReopenCase(k))
        \/ \E c \in Consumers : Commits(c)
    BY CasesWrittenBy DEF CaseInv
  <2> QED
    BY <2>1, <2>2, <2>3, <2>4
<1> QED
  BY <1>1, CaseInvariant, PTL DEF Spec, ClosedToEvents

-----------------------------------------------------------------------------
(* What is behind a consumer, with processed_event alone *)

LEMMA CoveredGrows ==
  ASSUME NEW l, NEW m, Len(l) \in Nat, Len(m) \in Nat, Len(l) <= Len(m),
         \A i \in 1 .. Len(l) : m[i] = l[i],
         NEW n \in Nat, NEW S, NEW T, Covered(l, n, S), S \subseteq T
  PROVE  Covered(m, n, T)
BY DEF Covered

LEMMA LogGrows ==
  ASSUME TypeOK, UNCHANGED log \/ Arrives
  PROVE  /\ Len(log) \in Nat /\ Len(log') \in Nat /\ Len(log) <= Len(log')
         /\ \A i \in 1 .. Len(log) : log'[i] = log[i]
<1>1. Len(log) \in Nat
  BY LogSlots
<1>2. CASE UNCHANGED log
  BY <1>1, <1>2
<1>3. CASE Arrives
  BY <1>1, <1>3 DEF Arrives
<1> QED
  BY <1>2, <1>3

\* A member that does not move, while nothing it relies on is lost.
LEMMA StaysBehind ==
  ASSUME TypeOK, NEW c \in Consumers, BehindOf(c), UNCHANGED log \/ Arrives,
         Recorded(c) \subseteq Recorded(c)',
         position'[c] = position[c], last'[c] = last[c],
         (phase'[c] = phase[c] /\ ids'[c] \subseteq ids[c])
           \/ phase'[c] = "polling" \/ ids'[c] = {}
  PROVE  BehindOf(c)'
<1>1. position[c] \in Nat /\ last[c] \in Nat
  BY DEF TypeOK, Offsets
<1> DEFINE R == Recorded(c)
           Q == Recorded(c)'
<1>2. R \subseteq Q /\ Covered(log, position[c], R) /\ Covered(log, last[c], R)
  BY DEF BehindOf
<1> HIDE DEF R, Q
<1>3. Covered(log', position'[c], Q) /\ Covered(log', last'[c], Q)
  BY <1>1, <1>2, LogGrows, CoveredGrows
<1>4. phase'[c] \in {"acking", "draining"} => ids'[c] = {}
  BY DEF BehindOf
<1> QED
  BY <1>3, <1>4 DEF BehindOf, Q

LEMMA CommittedStays ==
  ASSUME TypeOK, Covered(log, committed, processed), UNCHANGED log \/ Arrives,
         committed' = committed, processed \subseteq processed'
  PROVE  Covered(log', committed', processed')
<1>1. committed \in Nat
  BY DEF TypeOK, Offsets
<1> QED
  BY <1>1, LogGrows, CoveredGrows

\* A member that leaves starts over.
LEMMA LeavesBehind ==
  ASSUME TypeOK, Behind, NEW c \in Consumers, Leave(c), UNCHANGED <<log, processed>>
  PROVE  \A d \in Consumers : BehindOf(d)'
<1>1. ASSUME NEW d \in Others(c) PROVE BehindOf(d)'
  <2>1. position'[d] = position[d] /\ last'[d] = last[d] /\ phase'[d] = phase[d]
        /\ ids'[d] = ids[d]
    BY DEF Leave, TypeOK, Others
  <2>2. Recorded(d) \subseteq Recorded(d)' /\ BehindOf(d) /\ d \in Consumers
    BY <2>1 DEF Recorded, Behind, Others
  <2> QED
    BY <2>1, <2>2, StaysBehind
<1>2. BehindOf(c)'
  <2>1. position'[c] = 0 /\ last'[c] = 0 /\ ids'[c] = {} /\ Len(log') \in Nat
    BY LogSlots DEF Leave, TypeOK
  <2> QED
    BY <2>1 DEF BehindOf, Covered
<1> QED
  BY <1>1, <1>2 DEF Others

\* A member that takes a message the database now knows.
LEMMA TakesBehind ==
  ASSUME TypeOK, Behind, NEW c \in Consumers, Polls(c), NEW n, Take(c, n),
         Recorded(c) \subseteq Recorded(c)', \A d \in Others(c) : ids'[d] = ids[d],
         Message(c).type # "other" => Message(c).id \in Recorded(c)'
  PROVE  Behind'
<1>1. /\ log' = log /\ committed' = committed /\ processed' = processed /\ phase' = phase
      /\ position'[c] = position[c] + 1 /\ last'[c] = position[c] + 1
      /\ \A d \in Others(c) : position'[d] = position[d] /\ last'[d] = last[d]
  BY DEF Take, groupVars, TypeOK, Others
<1>2. ASSUME NEW d \in Others(c) PROVE BehindOf(d)'
  <2>1. Recorded(d) \subseteq Recorded(d)' /\ BehindOf(d) /\ d \in Consumers
    BY <1>1 DEF Recorded, Behind, Others
  <2> QED
    BY <1>1, <2>1, StaysBehind
<1>3. Covered(log, position[c] + 1, Recorded(c)')
  <2>1. /\ position[c] + 1 \in 1 .. Len(log) /\ position[c] \in Nat
        /\ Covered(log, position[c], Recorded(c))
    BY MessageTyped DEF Behind, BehindOf, TypeOK, Offsets
  <2>2. \A i \in 1 .. (position[c] + 1) : i \in 1 .. position[c] \/ i = position[c] + 1
    BY <2>1
  <2> DEFINE R == Recorded(c)
             Q == Recorded(c)'
  <2>3. R \subseteq Q /\ Covered(log, position[c], R)
    BY <2>1
  <2>4. log[position[c] + 1].type # "other" => log[position[c] + 1].id \in Q
    BY DEF Message
  <2> HIDE DEF R, Q
  <2>5. Covered(log, position[c] + 1, Q)
    BY <2>1, <2>2, <2>3, <2>4 DEF Covered
  <2> QED
    BY <2>5 DEF Q
<1>4. BehindOf(c)'
  BY <1>1, <1>3 DEF BehindOf, Polls
<1>5. Covered(log', committed', processed')
  BY <1>1 DEF Behind
<1> QED
  BY <1>2, <1>4, <1>5 DEF Behind, Others

LEMMA CommitsBehind ==
  ASSUME TypeOK, Behind, NEW c \in Consumers, Commits(c), phase' = [phase EXCEPT ![c] = phase'[c]],
         UNCHANGED <<committed, position, last>>
  PROVE  Behind'
<1>1. /\ log' = log /\ processed' = processed \cup ids[c] /\ ids'[c] = {}
      /\ \A d \in Others(c) : ids'[d] = ids[d] /\ phase'[d] = phase[d]
  BY DEF Commits, Ends, OnlyOf, Others, TypeOK
<1>2. ASSUME NEW d \in Consumers PROVE BehindOf(d)'
  <2>1. d = c \/ d \in Others(c)
    BY DEF Others
  <2>2. Recorded(d) \subseteq Recorded(d)' /\ BehindOf(d)
    BY <1>1, <2>1 DEF Recorded, Behind
  <2> QED
    BY <1>1, <2>1, <2>2, StaysBehind
<1>3. Covered(log', committed', processed')
  BY <1>1, CommittedStays DEF Behind
<1> QED
  BY <1>2, <1>3 DEF Behind

\* The offset a member commits is that of a transaction that committed.
LEMMA OffsetsBehind ==
  ASSUME TypeOK, Behind, NEW c \in Consumers, CommitOffsets(c)
  PROVE  Behind'
<1>1. log' = log /\ processed' = processed
  BY DEF CommitOffsets, storeVars
<1>2. Covered(log', committed', processed')
  <2>1. phase[c] \in {"acking", "draining"}
    BY DEF CommitOffsets
  <2>2. Recorded(c) = processed
    BY <2>1 DEF Behind, BehindOf, Recorded
  <2>3. Covered(log, last[c], processed) /\ Covered(log, committed, processed)
    BY <2>2 DEF Behind, BehindOf
  <2>4. committed' = last[c] \/ committed' = committed
    BY DEF CommitOffsets
  <2> QED
    BY <1>1, <2>3, <2>4
<1>3. CASE Leave(c)
  BY <1>1, <1>2, <1>3, LeavesBehind DEF Behind
<1>4. CASE /\ phase' = [phase EXCEPT ![c] = "polling"]
           /\ UNCHANGED <<position, last, ids>>
  <2>1. ASSUME NEW d \in Consumers PROVE BehindOf(d)'
    <3>1. phase'[d] = "polling" \/ phase'[d] = phase[d]
      BY <1>4 DEF TypeOK
    <3>2. Recorded(d) \subseteq Recorded(d)' /\ BehindOf(d)
      BY <1>1, <1>4 DEF Recorded, Behind
    <3> QED
      BY <1>1, <1>4, <3>1, <3>2, StaysBehind
  <2> QED
    BY <1>2, <2>1 DEF Behind
<1> QED
  BY <1>3, <1>4 DEF CommitOffsets

\* A member that is given the partition starts at the committed offset.
LEMMA MembershipBehind ==
  ASSUME TypeOK, Behind, NEW c \in Consumers, Membership(c)
  PROVE  Behind'
<1> USE DEF groupVars, storeVars
<1>1. /\ log' = log /\ processed' = processed /\ ids' = ids /\ committed' = committed
      /\ last' = last
      /\ \A d \in Consumers : phase'[d] = phase[d] \/ phase'[d] = "polling"
      /\ \A d \in Consumers : position'[d] = position[d] \/ position'[d] = committed
  BY DEF Membership, Join, Assign, Revoke, TypeOK
<1>2. \A d \in Consumers : Recorded(d)' = Recorded(d) /\ processed \subseteq Recorded(d)
  BY <1>1 DEF Recorded
<1>3. ASSUME NEW d \in Consumers PROVE BehindOf(d)'
  <2>1. /\ Covered(log, position[d], Recorded(d)) /\ Covered(log, last[d], Recorded(d))
        /\ phase[d] \in {"acking", "draining"} => ids[d] = {}
        /\ Covered(log, committed, processed)
    BY DEF Behind, BehindOf
  <2>2. Covered(log, committed, Recorded(d))
    BY <1>2, <2>1 DEF Covered
  <2> QED
    BY <1>1, <1>2, <2>1, <2>2 DEF BehindOf
<1> QED
  BY <1>1, <1>3 DEF Behind

\* Steps that move nobody and forget nothing.
LEMMA OthersBehind ==
  ASSUME TypeOK, Behind, UNCHANGED log \/ Arrives,
         UNCHANGED <<processed, ids, committed, position, last, phase>>
  PROVE  Behind'
<1>1. ASSUME NEW d \in Consumers PROVE BehindOf(d)'
  <2>1. Recorded(d) \subseteq Recorded(d)' /\ BehindOf(d)
    BY DEF Recorded, Behind
  <2> QED
    BY <2>1, StaysBehind
<1>2. Covered(log', committed', processed')
  BY CommittedStays DEF Behind
<1> QED
  BY <1>1, <1>2 DEF Behind

LEMMA BehindStep ==
  ASSUME Durable, TypeOK, Behind, [Next]_vars
  PROVE  Behind'
<1> USE DEF groupVars, storeVars, localVars
<1>1. ASSUME NEW c \in Consumers, Skip(c) PROVE Behind'
  <2>1. Polls(c) /\ Take(c, pending[c]) /\ ids' = ids /\ processed' = processed
    BY <1>1 DEF Skip, Take
  <2>2. Message(c).type # "other" => Message(c).id \in Recorded(c)
    BY <1>1 DEF Skip, Durable, SeenRecently, RecordedDurably, Recorded
  <2>3. Recorded(c)' = Recorded(c)
    BY <2>1 DEF Recorded
  <2> QED
    BY <2>1, <2>2, <2>3, TakesBehind
<1>2. ASSUME NEW c \in Consumers, Apply(c) PROVE Behind'
  <2>1. /\ Polls(c) /\ Take(c, pending[c]) /\ processed' = processed
        /\ ids'[c] = ids[c] \cup {Message(c).id} /\ \A d \in Others(c) : ids'[d] = ids[d]
    BY <1>2 DEF Apply, Take, TypeOK, Others
  <2>2. Recorded(c)' = Recorded(c) \cup {Message(c).id}
    BY <2>1 DEF Recorded
  <2> QED
    BY <2>1, <2>2, TakesBehind
<1>3. ASSUME NEW c \in Consumers, Quarantine(c) PROVE Behind'
  BY <1>3, MessageTyped DEF Quarantine, Durable
<1>4. ASSUME NEW c \in Consumers, CommitBatch(c) PROVE Behind'
  <2>1. Commits(c) /\ phase' = [phase EXCEPT ![c] = phase'[c]]
        /\ UNCHANGED <<committed, position, last>>
    BY <1>4, CommitEffect DEF CommitBatch, TypeOK
  <2> QED
    BY <2>1, CommitsBehind
<1>5. ASSUME NEW c \in Consumers, Drain(c) PROVE Behind'
  <2>1. Commits(c) /\ phase' = [phase EXCEPT ![c] = phase'[c]]
        /\ UNCHANGED <<committed, position, last>>
    BY <1>5, CommitEffect DEF Drain, TypeOK
  <2> QED
    BY <2>1, CommitsBehind
<1>6. ASSUME NEW c \in Consumers, Crash(c) PROVE Behind'
  <2>1. Leave(c) /\ UNCHANGED <<log, committed, processed>>
    BY <1>6 DEF Crash
  <2> QED
    BY <2>1, LeavesBehind DEF Behind
<1>7. CASE Lapse
  BY <1>7, OthersBehind DEF Lapse
<1>8. ASSUME NEW e \in Events, Deliver(e) PROVE Behind'
  <2>1. Arrives
    BY <1>8, DeliverEffect
  <2> QED
    BY <1>8, <2>1, OthersBehind DEF Deliver
<1>9. ASSUME NEW id \in Ids, RedisForgets(id) PROVE Behind'
  BY <1>9, OthersBehind DEF RedisForgets
<1>10. ASSUME NEW i \in Slots, StopCase(i) \/ ReopenCase(i) PROVE Behind'
  BY <1>10, OthersBehind DEF StopCase, ReopenCase
<1>11. CASE UNCHANGED vars
  BY <1>11, OthersBehind DEF vars
<1>12. ASSUME NEW c \in Consumers, Choke(c) PROVE Behind'
  BY <1>12, MessageTyped DEF Choke, Durable
<1> QED
  BY <1>1, <1>2, <1>3, <1>4, <1>5, <1>6, <1>7, <1>8, <1>9, <1>10, <1>11, <1>12,
     OffsetsBehind, MembershipBehind DEF Next, Run

-----------------------------------------------------------------------------
(* The cases a capture settles *)

LEMMA IdsOfLogStep ==
  ASSUME TypeOK, IdsOfLog, [Next]_vars
  PROVE  IdsOfLog'
<1> USE DEF IdsOfLog, InLog
<1>1. \A c, d \in Consumers : c = d \/ c \in Others(d)
  BY DEF Others
<1>2. CASE Arrives
  BY <1>2, LogSlots DEF Arrives, Transactions
<1>3. CASE Quiet
  BY <1>3 DEF Quiet, Transactions
<1>4. ASSUME NEW i \in Slots, Stops(i) \/ Reopens(i) PROVE IdsOfLog'
  BY <1>4 DEF Stops, Reopens, Transactions
<1>5. ASSUME NEW c \in Consumers, Aborts(c) \/ Commits(c) PROVE IdsOfLog'
  <2>1. /\ log' = log /\ processed' \subseteq processed \cup ids[c]
        /\ \A d \in Consumers : ids'[d] \subseteq ids[d]
    BY <1>1, <1>5 DEF Aborts, Commits, Ends, OnlyOf
  <2> QED
    BY <2>1
<1>6. ASSUME NEW c \in Consumers, NEW p \in 1 .. Len(log), OpensAt(c, p) \/ ClosesAt(c, p)
      PROVE  IdsOfLog'
  <2>1. Records(c, p)
    BY <1>6 DEF OpensAt, ClosesAt
  <2>2. /\ log' = log /\ processed' = processed
        /\ \A d \in Consumers : ids'[d] \subseteq ids[d] \cup {log[p].id}
    BY <1>1, <2>1 DEF Records, OnlyOf
  <2> QED
    BY <2>2
<1> QED
  BY <1>2, <1>3, <1>4, <1>5, <1>6, StepEffect

\* A case of an event that is processed, or recorded by c, is not opened elsewhere.
LEMMA NotOpening ==
  ASSUME RowInv, NEW d \in Consumers, NEW i \in Slots, draft[d][i] = "live"
  PROVE  /\ log[i].id \notin processed /\ log[i].type = "payment.failed"
         /\ log[i].id \in ids[d] /\ \A c \in Others(d) : log[i].id \notin Recorded(c)
<1>1. Opened(d, i)
  BY DEF RowInv, Backed, Wrote, Resolved
<1> QED
  BY <1>1 DEF Opened, RowInv, Isolated, Recorded

LEMMA EarlierIn ==
  ASSUME TypeOK, NEW j \in 1 .. Len(log)
  PROVE  /\ \A i \in Earlier(j) : i \in 1 .. Len(log) /\ i \in Slots /\ i < j
                                  /\ log[i].obligation = log[j].obligation
         /\ \A k \in 1 .. Len(log) : k < j => k \in 1 .. (j - 1)
BY LogSlots DEF Earlier

LEMMA ArrivesSettles ==
  ASSUME TypeOK, RowInv, IdsOfLog, Settled, Arrives
  PROVE  Settled'
<1> USE DEF Arrives, Transactions
<1>1. ASSUME NEW j \in 1 .. Len(log) PROVE SettledAt(j)'
  <2>1. /\ j \in 1 .. Len(log') /\ log'[j] = log[j]
        /\ \A i \in 1 .. (j - 1) : i \in 1 .. Len(log) /\ log'[i] = log[i]
    BY LogSlots
  <2>2. FirstAt(j)' = FirstAt(j) /\ Earlier(j)' = Earlier(j)
    BY <2>1 DEF FirstAt, Earlier
  <2>3. \A i \in Earlier(j) : log'[i] = log[i]
    BY <2>1 DEF Earlier
  <2> QED
    BY <2>1, <2>2, <2>3 DEF Settled, SettledAt, FirstCapture, Closed, ClosedFor, Sees, Recorded
<1>2. PICK j \in Nat : j = Len(log) + 1
  BY LogSlots
<1>3. SettledAt(j)'
  <2>1. \A k \in 1 .. Len(log) : k \in 1 .. (j - 1) /\ log'[k] = log[k]
    BY <1>2, LogSlots
  <2>2. FirstAt(j)' => log'[j].id \notin processed /\ \A c \in Consumers : log'[j].id \notin ids[c]
    BY <2>1 DEF IdsOfLog, InLog, FirstAt
  <2> QED
    BY <2>2 DEF SettledAt, FirstCapture
<1>4. \A i \in 1 .. Len(log') : i \in 1 .. Len(log) \/ i = j
  BY <1>2, LogSlots
<1> QED
  BY <1>1, <1>3, <1>4 DEF Settled

LEMMA QuietSettles ==
  ASSUME Settled, Quiet
  PROVE  Settled'
BY DEF Quiet, Transactions, Settled, SettledAt, FirstCapture, FirstAt, Earlier, Closed,
       ClosedFor, Sees, Recorded

LEMMA StopsSettles ==
  ASSUME TypeOK, Settled, NEW i \in Slots, Stops(i) \/ Reopens(i)
  PROVE  Settled'
<1> USE DEF Stops, Reopens
<1> SUFFICES ASSUME NEW j \in 1 .. Len(log) PROVE SettledAt(j)'
  BY DEF Settled
<1>1. FirstCapture(j)' = FirstCapture(j) /\ Earlier(j)' = Earlier(j)
  BY DEF FirstCapture, FirstAt, Earlier
<1>2. \A k \in Earlier(j) : Closed(k) => Closed(k)'
  BY EarlierIn DEF Closed
<1>3. \A c \in Consumers, k \in Earlier(j) : ClosedFor(c, k) => ClosedFor(c, k)'
  BY EarlierIn DEF Transactions, ClosedFor, Sees, Recorded
<1> QED
  BY <1>1, <1>2, <1>3 DEF Settled, SettledAt, Transactions

LEMMA AbortsSettles ==
  ASSUME TypeOK, Settled, NEW c \in Consumers, Aborts(c)
  PROVE  Settled'
<1> SUFFICES ASSUME NEW j \in 1 .. Len(log) PROVE SettledAt(j)'
  BY DEF Aborts, Settled
<1> USE DEF Aborts, Ends, OnlyOf
<1>1. FirstCapture(j)' = FirstCapture(j) /\ Earlier(j)' = Earlier(j)
  BY DEF FirstCapture, FirstAt, Earlier
<1>2. \A k \in Earlier(j) : Closed(k) => Closed(k)'
  BY DEF Closed
<1>3. \A d \in Others(c), k \in Earlier(j) : ClosedFor(d, k) => ClosedFor(d, k)'
  BY DEF ClosedFor, Sees, Recorded
<1>4. \A d \in Consumers : d = c \/ d \in Others(c)
  BY DEF Others
<1> QED
  BY <1>1, <1>2, <1>3, <1>4 DEF Settled, SettledAt

LEMMA CommitsSettles ==
  ASSUME TypeOK, RowInv, Settled, NEW c \in Consumers, Commits(c)
  PROVE  Settled'
<1> SUFFICES ASSUME NEW j \in 1 .. Len(log), FirstCapture(j) PROVE SettledAt(j)'
  BY DEF Commits, Settled, SettledAt, FirstCapture, FirstAt
<1> USE DEF Commits, Ends, OnlyOf
<1>1. Earlier(j)' = Earlier(j) /\ \A i \in Earlier(j) : i \in Slots
  BY EarlierIn DEF Earlier
<1>2. \A d \in Consumers : d = c \/ (d \in Others(c) /\ c \in Others(d))
  BY DEF Others
\* A closed case is not one the transaction opens.
<1>3. \A i \in Earlier(j) : Closed(i) => Closed(i)'
  <2> SUFFICES ASSUME NEW i \in Earlier(j), Closed(i) PROVE Closed(i)'
    OBVIOUS
  <2>1. i \in Slots /\ (draft[c][i] = "live" => log[i].id \notin processed
                                             /\ log[i].type = "payment.failed")
    BY <1>1, NotOpening
  <2> QED
    BY <2>1 DEF Closed, Sees
<1>4. \A i \in Earlier(j) : ClosedFor(c, i) => Closed(i)'
  BY <1>1 DEF Closed, ClosedFor, Recorded
<1>5. ASSUME NEW d \in Others(c), NEW i \in Earlier(j), ClosedFor(d, i)
      PROVE  ClosedFor(d, i)'
  <2>1. i \in Slots /\ draft'[d] = draft[d] /\ Recorded(d) \subseteq Recorded(d)'
    BY <1>1 DEF Recorded
  <2>2. draft[c][i] = "live" => log[i].id \notin Recorded(d) /\ log[i].type = "payment.failed"
    BY <2>1, NotOpening
  <2> QED
    BY <1>5, <2>1, <2>2 DEF ClosedFor, Sees
<1>6. log[j].id \in processed' => \A i \in Earlier(j) : Closed(i)'
  BY <1>3, <1>4 DEF Settled, SettledAt
<1>7. \A d \in Others(c) : log[j].id \in ids'[d] => \A i \in Earlier(j) : ClosedFor(d, i)'
  BY <1>2, <1>5 DEF Settled, SettledAt, Others
<1> QED
  BY <1>1, <1>2, <1>6, <1>7 DEF SettledAt

\* Whoever records a capture for the first time is at its first occurrence.
LEMMA FirstIsHere ==
  ASSUME TypeOK, NEW c \in Consumers, NEW p, Records(c, p),
         Covered(log, p - 1, Recorded(c)),
         NEW j \in 1 .. Len(log), FirstCapture(j), log[j].id = log[p].id
  PROVE  j = p
<1>1. p \in 1 .. Len(log) /\ log[p].id \notin Recorded(c)
  BY DEF Records
<1>2. CASE j < p
  <2>1. j \in 1 .. (p - 1)
    BY <1>1, <1>2, LogSlots
  <2> QED
    BY <1>1, <2>1 DEF Covered, FirstCapture
<1>3. CASE p < j
  <2>1. p \in 1 .. (j - 1)
    BY <1>1, <1>3, LogSlots
  <2> QED
    BY <2>1 DEF FirstCapture, FirstAt
<1> QED
  BY <1>1, <1>2, <1>3, LogSlots

LEMMA RecordsSettles ==
  ASSUME TypeOK, Settled, NEW c \in Consumers, NEW p, Records(c, p),
         Covered(log, p - 1, Recorded(c)),
         \A j \in 1 .. Len(log) : \A i \in Earlier(j) : ClosedFor(c, i) => ClosedFor(c, i)',
         FirstCapture(p) => \A i \in Earlier(p) : ClosedFor(c, i)'
  PROVE  Settled'
<1>1. /\ UNCHANGED <<log, processed, cases>>
      /\ ids'[c] = ids[c] \cup {log[p].id}
      /\ \A d \in Others(c) : ids'[d] = ids[d] /\ draft'[d] = draft[d]
  BY DEF Records, OnlyOf
<1> SUFFICES ASSUME NEW j \in 1 .. Len(log), FirstCapture(j) PROVE SettledAt(j)'
  BY <1>1 DEF Settled, SettledAt, FirstCapture, FirstAt
<1>2. /\ Earlier(j)' = Earlier(j)
      /\ \A i \in Earlier(j) : Closed(i)' = Closed(i)
      /\ \A d \in Others(c), i \in Earlier(j) : ClosedFor(d, i)' = ClosedFor(d, i)
  BY <1>1 DEF Earlier, Closed, ClosedFor, Sees, Recorded
<1>3. log[j].id \in ids'[c] => \A i \in Earlier(j) : ClosedFor(c, i)'
  <2>1. CASE log[j].id \in ids[c]
    BY <2>1 DEF Settled, SettledAt
  <2>2. CASE log[j].id = log[p].id
    BY <2>2, FirstIsHere
  <2> QED
    BY <1>1, <2>1, <2>2
<1>4. \A d \in Consumers : d = c \/ d \in Others(c)
  BY DEF Others
<1> QED
  BY <1>1, <1>2, <1>3, <1>4 DEF Settled, SettledAt

LEMMA OpensSettles ==
  ASSUME TypeOK, RowInv, Settled, NEW c \in Consumers, NEW p, OpensAt(c, p),
         Covered(log, p - 1, Recorded(c))
  PROVE  Settled'
<1>1. /\ Records(c, p) /\ UNCHANGED <<log, processed, cases>> /\ ids[c] \subseteq ids'[c]
      /\ log[p].id \notin Recorded(c) /\ log[p].type = "payment.failed"
  BY DEF OpensAt, Records
<1>2. ASSUME NEW j \in 1 .. Len(log), NEW i \in Earlier(j), ClosedFor(c, i)
      PROVE  ClosedFor(c, i)'
  <2>1. i \in Slots /\ i # p
    BY <1>1, <1>2, EarlierIn DEF ClosedFor
  <2>2. draft'[c][i] = draft[c][i]
    BY <2>1 DEF OpensAt
  <2> QED
    BY <1>1, <1>2, <2>2 DEF ClosedFor, Sees, Recorded
<1> QED
  BY <1>1, <1>2, RecordsSettles DEF FirstCapture

LEMMA ClosesSettles ==
  ASSUME TypeOK, RowInv, Settled, NEW c \in Consumers, NEW p, ClosesAt(c, p),
         Covered(log, p - 1, Recorded(c))
  PROVE  Settled'
<1>1. /\ Records(c, p) /\ UNCHANGED <<log, processed, cases>> /\ ids[c] \subseteq ids'[c]
      /\ p \in 1 .. Len(log)
  BY DEF ClosesAt, Records
<1>2. \A i \in Slots : draft'[c][i] = IF i \in LiveCases(c, log[p].obligation)
                                      THEN "recovered" ELSE draft[c][i]
  BY DEF ClosesAt
<1>3. ASSUME NEW j \in 1 .. Len(log), NEW i \in Earlier(j), ClosedFor(c, i)
      PROVE  ClosedFor(c, i)'
  BY <1>1, <1>2, <1>3, EarlierIn DEF ClosedFor, Sees, Recorded
<1>4. ASSUME NEW i \in Earlier(p) PROVE ClosedFor(c, i)'
  <2>1. i \in 1 .. Len(log) /\ i \in Slots /\ log[i].obligation = log[p].obligation
        /\ i \in 1 .. (p - 1)
    BY <1>1, EarlierIn, LogSlots
  <2>2. Sees(c, i)' # "live"
    BY <1>1, <1>2, <2>1 DEF LiveCases, SlotsOf, Sees
  <2>3. log[i].type # "other" => log[i].id \in Recorded(c)
    BY <2>1 DEF Covered
  <2> QED
    BY <1>1, <2>2, <2>3 DEF ClosedFor, Recorded
<1> QED
  BY <1>1, <1>3, <1>4, RecordsSettles

LEMMA SettledStep ==
  ASSUME TypeOK, RowInv, Behind, IdsOfLog, Settled, [Next]_vars
  PROVE  Settled'
<1>1. ASSUME NEW c \in Consumers, NEW p \in 1 .. Len(log), p = position[c] + 1,
             OpensAt(c, p) \/ ClosesAt(c, p)
      PROVE  Settled'
  <2>1. p - 1 = position[c] /\ Covered(log, position[c], Recorded(c))
    BY <1>1, LogSlots DEF Behind, BehindOf, TypeOK, Offsets
  <2>2. Covered(log, p - 1, Recorded(c))
    BY <2>1
  <2> QED
    BY <1>1, <2>2, OpensSettles, ClosesSettles
<1> QED
  BY <1>1, StepEffect, QuietSettles, ArrivesSettles, AbortsSettles, StopsSettles, CommitsSettles

LEMMA DurableInit == Init => Behind /\ IdsOfLog /\ Settled
<1> SUFFICES ASSUME Init PROVE Behind /\ IdsOfLog /\ Settled
  OBVIOUS
<1>1. Len(log) = 0
  BY EmptySeq DEF Init
<1>2. Behind
  BY <1>1 DEF Init, Behind, BehindOf, Covered
<1> QED
  BY <1>1, <1>2 DEF Init, IdsOfLog, InLog, Settled

THEOREM DurableInvariant ==
  ASSUME Durable
  PROVE  Spec => []DurableInv
<1>1. Init => DurableInv
  BY CaseInvInit, DurableInit DEF DurableInv
<1>2. DurableInv /\ [Next]_vars => DurableInv'
  BY CaseInvStep, BehindStep, IdsOfLogStep, SettledStep DEF DurableInv, CaseInv
<1> QED
  BY <1>1, <1>2, PTL DEF Spec

\* The offset never passes an event that is not durably processed, through crashes,
\* rebalances and stops, when processed_event alone remembers the events.
THEOREM NothingSkippedHolds ==
  ASSUME Durable
  PROVE  Spec => []NothingSkipped
<1>1. DurableInv => NothingSkipped
  BY DEF DurableInv, Behind, Covered, NothingSkipped
<1> QED
  BY <1>1, DurableInvariant, PTL

\* Under the same conditions a capture closes the case of every earlier failure of
\* its obligation, even when two members work through the same stretch.
THEOREM CaptureClosesHolds ==
  ASSUME Durable
  PROVE  Spec => []CaptureCloses
<1>1. DurableInv => CaptureCloses
  <2> SUFFICES ASSUME DurableInv, NEW i \in 1 .. Len(log), NEW j \in 1 .. Len(log), i < j,
                      log[i].obligation = log[j].obligation, SettledCapture(j)
               PROVE  cases[i] # "live"
    BY DEF CaptureCloses
  <2>1. i \in Earlier(j)
    BY LogSlots DEF Earlier, DurableInv, CaseInv
  <2> QED
    BY <2>1 DEF DurableInv, Settled, SettledAt, FirstCapture, SettledCapture, Closed
<1> QED
  BY <1>1, DurableInvariant, PTL
=============================================================================
