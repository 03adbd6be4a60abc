--------------------------- MODULE DispatchProofs ---------------------------
(***************************************************************************)
(* For any processes, any keys and any number of crashes: the dispatcher   *)
(* has at most one effect per key, never one without a durable intent, and *)
(* implements ActionLedger.                                                *)
(***************************************************************************)
EXTENDS Dispatch, TLAPS

\* p is between the commit of its intent and the commit of its outcome.
InFlight(p) == pc[p] \in {"invoke", "settle"}

\* A process inside dispatch() has a key in hand.
HasTask == \A p \in Procs : pc[p] # "idle" => task[p] \in Keys

\* A process in flight works on a pending row, and no other process does.
SoleOwner ==
  /\ \A p \in Procs : InFlight(p) => action[task[p]] = "pending"
  /\ \A p, q \in Procs : InFlight(p) /\ InFlight(q) /\ task[p] = task[q] => p = q

\* What the owner of a key knows about the vendor.
OwnerKnows ==
  \A p \in Procs :
    /\ pc[p] = "invoke" => effects[task[p]] = 0
    /\ pc[p] = "settle" =>
         /\ outcome[p] \in Answers
         /\ outcome[p] = "ok" => effects[task[p]] = 1

IInv ==
  /\ TypeOK
  /\ HasTask
  /\ SoleOwner
  /\ OwnerKnows
  /\ AtMostOneEffect
  /\ IntentBeforeEffect
  /\ RecordsTruthful

LEMMA InitIInv == Init => IInv
BY DEF Init, IInv, TypeOK, HasTask, SoleOwner, OwnerKnows, InFlight,
       AtMostOneEffect, IntentBeforeEffect, RecordsTruthful,
       Steps, Outcomes, Statuses, Settled, Answers, Absent

LEMMA StepIInv == IInv /\ [Next]_vars => IInv'
<1> SUFFICES ASSUME IInv, [Next]_vars PROVE IInv'
  OBVIOUS
<1> USE DispatchAssumption
<1> USE DEF IInv, TypeOK, HasTask, SoleOwner, OwnerKnows, InFlight,
            AtMostOneEffect, IntentBeforeEffect, RecordsTruthful,
            Steps, Outcomes, Statuses, Settled, Answers, Absent
<1>1. ASSUME NEW p \in Procs, NEW k \in Keys, Call(p, k) PROVE IInv'
  BY <1>1 DEF Call
<1>2. ASSUME NEW p \in Procs, Acquire(p) PROVE IInv'
  <2>1. lock' \in [Keys -> BOOLEAN]
    BY <1>2, Zenon DEF Acquire
  <2>2. /\ UNCHANGED <<task, action, effects, announced, crashes>>
        /\ \/ pc' = [pc EXCEPT ![p] = "intent"] /\ UNCHANGED outcome
           \/ /\ pc' = [pc EXCEPT ![p] = "done"]
              /\ outcome' = [outcome EXCEPT ![p] = "duplicate"]
    BY <1>2 DEF Acquire
  <2>3. pc[p] = "acquire"
    BY <1>2 DEF Acquire
  <2>4. QED
    BY <2>1, <2>2, <2>3
<1>3. ASSUME NEW p \in Procs, AcquireUnlocked(p) PROVE IInv'
  BY <1>3 DEF AcquireUnlocked
\* The unique index: a claim finds the key absent, so nobody is in flight on it
\* and it has had no effect.
<1>4. ASSUME NEW p \in Procs, RecordIntent(p) PROVE IInv'
  <2>1. CASE action[task[p]] # Absent
    BY <1>4, <2>1 DEF RecordIntent
  <2>2. CASE action[task[p]] = Absent
    <3>1. task[p] \in Keys /\ effects[task[p]] = 0 /\ announced[task[p]] = 0
      BY <1>4, <2>2 DEF RecordIntent
    <3>2. \A q \in Procs : InFlight(q) => task[q] # task[p]
      BY <2>2
    <3>3. QED
      BY <1>4, <2>2, <3>1, <3>2 DEF RecordIntent
  <2>3. QED
    BY <2>1, <2>2
\* The owner is the only one to call, and it calls once.
<1>5. ASSUME NEW p \in Procs, Invoke(p) PROVE IInv'
  <2>1. /\ task[p] \in Keys /\ effects[task[p]] = 0
        /\ action[task[p]] = "pending" /\ announced[task[p]] = 0
    BY <1>5 DEF Invoke
  <2>2. \A q \in Procs \ {p} : InFlight(q) => task[q] # task[p]
    BY <1>5 DEF Invoke
  <2>3. QED
    BY <1>5, <2>1, <2>2 DEF Invoke
<1>6. ASSUME NEW p \in Procs, Settle(p) PROVE IInv'
  <2>1. /\ task[p] \in Keys /\ outcome[p] \in Answers
        /\ action[task[p]] = "pending" /\ announced[task[p]] = 0
    BY <1>6 DEF Settle
  <2>2. \A q \in Procs \ {p} : InFlight(q) => task[q] # task[p]
    BY <1>6 DEF Settle
  <2>3. QED
    BY <1>6, <2>1, <2>2 DEF Settle
<1>7. ASSUME NEW p \in Procs, Release(p) PROVE IInv'
  BY ZenonT(60), <1>7 DEF Release
<1>8. ASSUME NEW p \in Procs, Return(p) PROVE IInv'
  BY <1>8 DEF Return
<1>9. ASSUME NEW k \in Keys, LockExpires(k) PROVE IInv'
  BY <1>9 DEF LockExpires
\* A dead owner leaves its row pending: nobody is in flight on it any more.
<1>10. ASSUME NEW p \in Procs, Crash(p) PROVE IInv'
  BY <1>10 DEF Crash
<1>11. CASE UNCHANGED vars
  BY <1>11 DEF vars
<1>12. QED
  BY <1>1, <1>2, <1>3, <1>4, <1>5, <1>6, <1>7, <1>8, <1>9, <1>10, <1>11
     DEF Next, Step

LEMMA Invariance == Spec => []IInv
<1>1. QED BY InitIInv, StepIInv, PTL DEF Spec

-----------------------------------------------------------------------------

\* Every variable keeps its type in every behaviour of the dispatcher.
THEOREM TypeCorrect == Spec => []TypeOK
<1>1. IInv => TypeOK
  BY DEF IInv
<1>2. QED BY <1>1, Invariance, PTL

\* The module docstring's guarantee: however many planners race, crash or lose
\* Redis, one fingerprint acts on the outside world at most once.
THEOREM ExactlyOnceEffect == Spec => []AtMostOneEffect
<1>1. IInv => AtMostOneEffect
  BY DEF IInv
<1>2. QED BY <1>1, Invariance, PTL

\* The ordering inside dispatch(): an effect is never without its record.
THEOREM IntentFirst == Spec => []IntentBeforeEffect
<1>1. IInv => IntentBeforeEffect
  BY DEF IInv
<1>2. QED BY <1>1, Invariance, PTL

\* A "dispatched" row and its announcement go together and are true of the
\* vendor: it acted, once.  (A failed or rejected row promises neither way.)
THEOREM Truthful == Spec => []RecordsTruthful
<1>1. IInv => RecordsTruthful
  BY DEF IInv
<1>2. QED BY <1>1, Invariance, PTL

\* No step rewrites an outcome: only the owner of a pending row writes it.
THEOREM OutcomesFinal == Spec => SettledIsFinal
<1>1. IInv /\ [Next]_vars
        => [\A k \in Keys : action[k] \in Settled => action'[k] = action[k]]_vars
  <2> SUFFICES ASSUME IInv, Next, NEW k \in Keys, action[k] \in Settled
               PROVE  action'[k] = action[k]
    BY DEF vars
  <2> USE DEF IInv, TypeOK, SoleOwner, HasTask, InFlight, Settled, Absent
  <2>1. ASSUME NEW p \in Procs, RecordIntent(p) PROVE action'[k] = action[k]
    BY <2>1 DEF RecordIntent
  <2>2. ASSUME NEW p \in Procs, Settle(p) PROVE action'[k] = action[k]
    <3>1. task[p] # k
      BY <2>2 DEF Settle
    <3>2. QED
      BY <2>2, <3>1 DEF Settle
  <2>3. QED
    BY <2>1, <2>2 DEF Next, Step, Call, Acquire, AcquireUnlocked, Invoke,
                      Release, Return, LockExpires, Crash
<1>2. QED BY <1>1, Invariance, PTL DEF Spec, SettledIsFinal

\* dispatch() implements the ledger its callers rely on: claim, then effect,
\* then announcement, each at most once per key.
THEOREM ImplementsLedger == Spec => LedgerSpec
<1>1. Init => Ledger!Init
  BY DEF Init, Ledger!Init, Claimed, Absent
<1>2. IInv /\ [Next]_vars => [Ledger!Next]_(Ledger!vars)
  <2> SUFFICES ASSUME IInv, [Next]_vars
               PROVE  Ledger!Next \/ UNCHANGED <<Claimed, effects, announced>>
    BY DEF Ledger!vars
  <2> USE DEF IInv, TypeOK, SoleOwner, OwnerKnows, HasTask, RecordsTruthful,
              InFlight, Settled, Absent, Claimed
  <2>1. ASSUME NEW p \in Procs, RecordIntent(p)
        PROVE  Ledger!Next \/ UNCHANGED <<Claimed, effects, announced>>
    <3>1. CASE action[task[p]] # Absent
      BY <2>1, <3>1 DEF RecordIntent
    <3>2. CASE action[task[p]] = Absent
      <4>1. task[p] \in Keys
        BY <2>1 DEF RecordIntent
      <4>2. Claimed' = Claimed \cup {task[p]}
        BY <2>1, <3>2, <4>1 DEF RecordIntent
      <4>3. Ledger!Claim(task[p])
        <5>1. task[p] \notin Claimed
          BY <3>2
        <5>2. UNCHANGED <<effects, announced>>
          BY <2>1 DEF RecordIntent
        <5>3. QED
          BY <4>2, <5>1, <5>2 DEF Ledger!Claim
      <4>4. QED
        BY <4>1, <4>3, SMTT(30) DEF Ledger!Next, Ledger!Claim
    <3>3. QED
      BY <3>1, <3>2
  <2>2. ASSUME NEW p \in Procs, Invoke(p)
        PROVE  Ledger!Next \/ UNCHANGED <<Claimed, effects, announced>>
    <3>1. task[p] \in Keys /\ Claimed' = Claimed /\ UNCHANGED announced
      BY <2>2 DEF Invoke
    <3>2. \/ effects' = effects
          \/ effects' = [effects EXCEPT ![task[p]] = 1]
      <4>1. PICK landed \in BOOLEAN :
              effects' = [effects EXCEPT ![task[p]] = IF landed THEN @ + 1 ELSE @]
        BY <2>2, Zenon DEF Invoke
      <4>2. CASE landed
        <5>1. effects' = [effects EXCEPT ![task[p]] = effects[task[p]] + 1]
          BY <4>1, <4>2, Zenon
        <5>2. effects[task[p]] = 0
          BY <2>2 DEF Invoke
        <5>3. QED
          BY <5>1, <5>2
      <4>3. CASE ~landed
        <5>1. effects' = [effects EXCEPT ![task[p]] = effects[task[p]]]
          BY <4>1, <4>3, Zenon
        <5>2. QED
          BY <5>1
      <4>4. QED
        BY <4>2, <4>3
    <3>3. CASE effects' = effects
      BY <3>1, <3>3
    <3>4. CASE effects' = [effects EXCEPT ![task[p]] = 1]
      <4>1. task[p] \in Claimed /\ effects[task[p]] = 0 /\ announced[task[p]] = 0
        BY <2>2, <3>1 DEF Invoke
      <4>2. Ledger!Effect(task[p])
        BY <3>1, <3>4, <4>1 DEF Ledger!Effect
      <4>3. QED
        BY <3>1, <4>2 DEF Ledger!Next
    <3>5. QED
      BY <3>2, <3>3, <3>4
  <2>3. ASSUME NEW p \in Procs, Settle(p)
        PROVE  Ledger!Next \/ UNCHANGED <<Claimed, effects, announced>>
    <3>1. /\ task[p] \in Keys /\ action[task[p]] = "pending"
          /\ announced[task[p]] = 0 /\ UNCHANGED effects
      BY <2>3 DEF Settle
    <3>2. Claimed' = Claimed
      BY <2>3, <3>1 DEF Settle
    <3>3. CASE outcome[p] # "ok"
      BY <2>3, <3>1, <3>2, <3>3 DEF Settle
    <3>4. CASE outcome[p] = "ok"
      <4>1. effects[task[p]] = 1 /\ announced' = [announced EXCEPT ![task[p]] = 1]
        BY <2>3, <3>1, <3>4 DEF Settle
      <4>2. Ledger!Announce(task[p])
        BY <3>1, <3>2, <4>1 DEF Ledger!Announce
      <4>3. QED
        BY <3>1, <4>2 DEF Ledger!Next
    <3>5. QED
      BY <3>3, <3>4
  <2>4. CASE UNCHANGED vars
    BY <2>4 DEF vars
  <2>5. QED
    BY <2>1, <2>2, <2>3, <2>4
       DEF Next, Step, Call, Acquire, AcquireUnlocked, Release, Return,
           LockExpires, Crash
<1>3. QED
  BY <1>1, <1>2, Invariance, PTL DEF Spec, LedgerSpec, Ledger!Spec
=============================================================================
