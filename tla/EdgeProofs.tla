----------------------------- MODULE EdgeProofs -----------------------------
(***************************************************************************)
(* For any number of replicas, webhooks, deliveries and faults: a webhook  *)
(* is produced once and once more for each time Redis could not be asked   *)
(* or lost its keys, a forged one gets no further than its verification,   *)
(* and an acknowledgement with no handler behind it has one of two causes. *)
(***************************************************************************)
EXTENDS Edge, TLAPS, FiniteSetTheorems

Typed ==
  /\ step \in [Replicas -> [Webhooks -> Steps]]
  /\ produced \in [Webhooks -> Nat]
  /\ faults \in [FaultKinds -> Nat]

\* Replicas that have seen e first and have yet to produce it.
Producing(e) == {r \in Replicas : step[r][e] = "produce"}
Claims(e) == IF e \in redis THEN 1 ELSE 0

\* The times Redis could not be asked or lost its keys.
Lapses == faults["redis_down"] + faults["redis_restart"]

\* What was produced and what will be was let through by the key, or by a lapse.
Accounted ==
  \A e \in Webhooks : produced[e] + Cardinality(Producing(e)) <= Claims(e) + Lapses

OnceInv == Typed /\ Accounted

LEMMA ProducingFinite ==
  ASSUME NEW e
  PROVE  IsFiniteSet(Producing(e)) /\ Cardinality(Producing(e)) \in Nat
<1>1. Producing(e) \in SUBSET Replicas
  BY DEF Producing
<1>2. IsFiniteSet(Producing(e))
  BY <1>1, EdgeAssumption, FS_Subset
<1> QED BY <1>2, FS_CardinalityType

LEMMA FaultCounts ==
  ASSUME Typed, NEW kind \in FaultKinds, Fault(kind)
  PROVE  /\ faults' \in [FaultKinds -> Nat]
         /\ Lapses' = Lapses + (IF kind \in {"redis_down", "redis_restart"} THEN 1 ELSE 0)
BY DEF Typed, Fault, FaultKinds, Lapses

LEMMA LapsesCount ==
  ASSUME faults \in [FaultKinds -> Nat]
  PROVE  Lapses \in Nat
BY DEF FaultKinds, Lapses

\* A step that lets nobody through and produces nothing, and gives up no more keys
\* than Redis had lapses.
LEMMA NobodyLetThrough ==
  ASSUME OnceInv, Typed', produced' = produced,
         \A e \in Webhooks : Claims(e) + Lapses <= Claims(e)' + Lapses',
         \A e \in Webhooks, r \in Replicas :
           step'[r][e] = "produce" => step[r][e] = "produce"
  PROVE  OnceInv'
<1> SUFFICES ASSUME NEW e \in Webhooks
             PROVE  produced'[e] + Cardinality(Producing(e)') <= Claims(e)' + Lapses'
  BY DEF OnceInv, Accounted
<1>1. Cardinality(Producing(e)') <= Cardinality(Producing(e))
  <2>1. Producing(e)' \in SUBSET Producing(e)
    BY DEF Producing
  <2> QED BY <2>1, ProducingFinite, FS_Subset
<1>2. Cardinality(Producing(e)') \in Nat /\ Cardinality(Producing(e)) \in Nat
  <2>1. Producing(e)' \in SUBSET Replicas
    BY DEF Producing
  <2>2. IsFiniteSet(Producing(e)')
    BY <2>1, EdgeAssumption, FS_Subset
  <2> QED BY <2>2, ProducingFinite, FS_CardinalityType
<1>3. Claims(e)' \in Nat /\ Claims(e) \in Nat
  BY DEF Claims
<1>4. Lapses \in Nat /\ Lapses' \in Nat
  BY LapsesCount DEF OnceInv, Typed, Lapses, FaultKinds
<1>5. /\ produced[e] + Cardinality(Producing(e)) <= Claims(e) + Lapses
      /\ produced[e] \in Nat /\ produced'[e] = produced[e]
      /\ Claims(e) + Lapses <= Claims(e)' + Lapses'
  BY DEF OnceInv, Accounted, Typed
<1> HIDE DEF Lapses, Claims, Producing
<1> QED BY <1>1, <1>2, <1>3, <1>4, <1>5

\* The keys stay, or grow, and the lapses do too.
LEMMA KeysStay ==
  ASSUME Typed, Typed', redis \subseteq redis', Lapses' >= Lapses
  PROVE  \A e \in Webhooks : Claims(e) + Lapses <= Claims(e)' + Lapses'
<1>1. Lapses \in Nat /\ Lapses' \in Nat
  BY DEF Typed, Lapses, FaultKinds
<1>2. \A e : Claims(e) \in Nat /\ Claims(e)' \in Nat /\ Claims(e) <= Claims(e)'
  BY DEF Claims
<1> QED BY <1>1, <1>2

LEMMA FirstSightKeeps ==
  ASSUME OnceInv, NEW r \in Replicas, NEW e \in Webhooks, FirstSight(r, e)
  PROVE  OnceInv'
<1>1. /\ Typed /\ produced' = produced
      /\ \E s \in {"duplicate", "produce"} : step' = [step EXCEPT ![r][e] = s]
      /\ step[r][e] = "dedup"
      /\ redis \subseteq redis' /\ redis' \subseteq redis \cup {e}
  BY DEF FirstSight, Goto, OnceInv
<1>2. /\ faults' \in [FaultKinds -> Nat]
      /\ Lapses \in Nat /\ Lapses' \in Nat /\ Lapses' >= Lapses
  BY <1>1, FaultCounts, LapsesCount DEF FirstSight, Typed, FaultKinds, Lapses
<1>3. Typed'
  BY <1>1, <1>2 DEF Typed, Steps
<1>4. CASE step' = [step EXCEPT ![r][e] = "duplicate"]
  <2>1. \A d \in Webhooks, q \in Replicas : step'[q][d] = "produce" => step[q][d] = "produce"
    BY <1>1, <1>4 DEF Typed
  <2>2. \A d \in Webhooks : Claims(d) + Lapses <= Claims(d)' + Lapses'
    BY <1>1, <1>2, <1>3, KeysStay
  <2> QED BY <1>1, <1>3, <2>1, <2>2, NobodyLetThrough
<1>5. CASE /\ step' = [step EXCEPT ![r][e] = "produce"]
           /\ \/ e \notin redis /\ UNCHANGED faults /\ redis' = redis \cup {e}
              \/ Fault("redis_down")
  <2> SUFFICES ASSUME NEW d \in Webhooks
               PROVE  produced'[d] + Cardinality(Producing(d)') <= Claims(d)' + Lapses'
    BY <1>3 DEF OnceInv, Accounted
  <2>1. /\ produced[d] + Cardinality(Producing(d)) <= Claims(d) + Lapses
        /\ produced[d] \in Nat /\ Claims(d) \in 0 .. 1 /\ Claims(d)' \in 0 .. 1
        /\ Cardinality(Producing(d)) \in Nat /\ Claims(d) <= Claims(d)'
    BY <1>1, ProducingFinite DEF OnceInv, Accounted, Typed, Claims
  <2>2. \/ Lapses' = Lapses + 1
        \/ Lapses' = Lapses /\ e \notin redis /\ redis' = redis \cup {e}
    BY <1>1, <1>5, FaultCounts DEF FaultKinds, Lapses
  <2>3. CASE d = e
    <3>1. Producing(d)' = Producing(d) \cup {r} /\ r \notin Producing(d)
      BY <2>3, <1>1, <1>5 DEF Producing, Typed
    <3>2. Cardinality(Producing(d)') = Cardinality(Producing(d)) + 1
      BY <3>1, ProducingFinite, FS_AddElement
    <3>3. Claims(d)' + Lapses' >= Claims(d) + Lapses + 1
      <4>1. CASE Lapses' = Lapses + 1
        BY <4>1, <1>2, <2>1
      <4>2. CASE Lapses' = Lapses /\ e \notin redis /\ redis' = redis \cup {e}
        BY <4>2, <1>2, <2>1, <2>3 DEF Claims
      <4> QED BY <2>2, <4>1, <4>2
    <3> HIDE DEF Lapses, Claims, Producing
    <3> QED BY <3>2, <3>3, <1>2, <2>1, <1>1
  <2>4. CASE d # e
    <3>1. Producing(d)' = Producing(d)
      BY <2>4, <1>1, <1>5 DEF Producing, Typed
    <3> HIDE DEF Lapses, Claims, Producing
    <3> QED BY <3>1, <1>2, <2>1, <1>1
  <2> QED BY <2>3, <2>4
<1> QED BY <1>4, <1>5 DEF FirstSight, Goto

LEMMA ProduceKeeps ==
  ASSUME OnceInv, NEW r \in Replicas, NEW e \in Webhooks, Produce(r, e)
  PROVE  OnceInv'
<1>1. /\ step[r][e] = "produce" /\ step' = [step EXCEPT ![r][e] = "accepted"]
      /\ produced' = [produced EXCEPT ![e] = @ + 1]
      /\ redis' = redis /\ faults' = faults
  BY DEF Produce, Goto
<1>2. Typed'
  BY <1>1 DEF OnceInv, Typed, Steps
<1> SUFFICES ASSUME NEW d \in Webhooks
             PROVE  produced'[d] + Cardinality(Producing(d)')
                      <= Claims(d)' + Lapses'
  BY <1>2 DEF OnceInv, Accounted
<1>3. /\ produced[d] + Cardinality(Producing(d)) <= Claims(d) + Lapses
      /\ produced[d] \in Nat /\ Cardinality(Producing(d)) \in Nat
      /\ Lapses \in Nat /\ Claims(d) \in Nat
  BY ProducingFinite, LapsesCount DEF OnceInv, Accounted, Typed, Claims
<1>4. Claims(d)' = Claims(d) /\ Lapses' = Lapses
  BY <1>1 DEF Claims, Lapses
<1> HIDE DEF Lapses, Claims
<1>5. CASE d = e
  <2>1. Producing(d)' = Producing(d) \ {r} /\ r \in Producing(d)
    BY <1>1, <1>5 DEF Producing, OnceInv, Typed
  <2>2. Cardinality(Producing(d)') = Cardinality(Producing(d)) - 1
    BY <2>1, ProducingFinite, FS_RemoveElement
  <2>3. produced'[d] = produced[d] + 1
    BY <1>1, <1>5 DEF OnceInv, Typed
  <2> QED BY <2>2, <2>3, <1>1, <1>3, <1>4
<1>6. CASE d # e
  <2>1. Producing(d)' = Producing(d) /\ produced'[d] = produced[d]
    BY <1>1, <1>6 DEF Producing, OnceInv, Typed
  <2> QED BY <2>1, <1>1, <1>3, <1>4
<1> QED BY <1>5, <1>6

\* The other steps of a request leave no replica about to produce that was not.
LEMMA OthersKeep ==
  ASSUME OnceInv, NEW r \in Replicas, NEW e \in Webhooks,
         Send(r, e) \/ Verify(r, e) \/ Reply(r, e) \/ Flush(r, e) \/ Abandon(r, e)
  PROVE  OnceInv'
<1>1. Typed /\ produced' = produced /\ redis' = redis
  BY DEF OnceInv, Send, Verify, Reply, Flush, Abandon
<1>2. faults' = faults \/ Fault("lost_reply") \/ Fault("abandon")
  BY DEF Send, Verify, Reply, Flush, Abandon
<1>3. faults' \in [FaultKinds -> Nat] /\ Lapses' >= Lapses
  BY <1>1, <1>2, FaultCounts, LapsesCount DEF Typed, FaultKinds, Lapses
<1>4. \/ step' = step
      \/ \E s \in Steps \ {"produce"} : step' = [step EXCEPT ![r][e] = s]
  BY DEF Send, Verify, Reply, Flush, Abandon, Goto, Steps
<1>5. Typed'
  <2>1. step' \in [Replicas -> [Webhooks -> Steps]]
    BY <1>1, <1>4 DEF Typed
  <2> QED BY <1>1, <1>3, <2>1 DEF Typed
<1>6. \A d \in Webhooks, q \in Replicas : step'[q][d] = "produce" => step[q][d] = "produce"
  BY <1>1, <1>4 DEF Typed
<1>7. \A d \in Webhooks : Claims(d) + Lapses <= Claims(d)' + Lapses'
  BY <1>1, <1>3, <1>5, KeysStay
<1> QED BY <1>1, <1>5, <1>6, <1>7, NobodyLetThrough

\* Nor does the end of a process, or its start.
LEMMA ProcessKeeps ==
  ASSUME OnceInv, NEW r \in Replicas, Shutdown(r) \/ Exit(r) \/ Crash(r) \/ Start(r)
  PROVE  OnceInv'
<1>1. Typed /\ produced' = produced /\ redis' = redis
  BY DEF OnceInv, Shutdown, Exit, Crash, Start
<1>2. faults' = faults \/ Fault("stop") \/ Fault("crash")
  BY DEF Shutdown, Exit, Crash, Start
<1>3. faults' \in [FaultKinds -> Nat] /\ Lapses' >= Lapses
  BY <1>1, <1>2, FaultCounts, LapsesCount DEF Typed, FaultKinds, Lapses
<1>4. step' = step \/ step' = [step EXCEPT ![r] = Idle]
  BY DEF Shutdown, Exit, Crash, Start
<1>5. Typed'
  BY <1>1, <1>3, <1>4 DEF Typed, Idle, Steps
<1>6. \A d \in Webhooks, q \in Replicas : step'[q][d] = "produce" => step[q][d] = "produce"
  BY <1>1, <1>4 DEF Typed, Idle
<1>7. \A d \in Webhooks : Claims(d) + Lapses <= Claims(d)' + Lapses'
  BY <1>1, <1>3, <1>5, KeysStay
<1> QED BY <1>1, <1>5, <1>6, <1>7, NobodyLetThrough

\* Redis gives up every key, once for each lapse.
LEMMA RestartKeeps ==
  ASSUME OnceInv, RedisRestart
  PROVE  OnceInv'
<1>1. /\ Typed /\ produced' = produced /\ step' = step
      /\ Fault("redis_restart")
  BY DEF OnceInv, RedisRestart
<1>2. faults' \in [FaultKinds -> Nat] /\ Lapses' = Lapses + 1 /\ Lapses \in Nat
  BY <1>1, FaultCounts, LapsesCount DEF Typed, FaultKinds
<1>3. Typed'
  BY <1>1, <1>2 DEF Typed
<1>4. ASSUME NEW e \in Webhooks
      PROVE  Claims(e) + Lapses <= Claims(e)' + Lapses'
  <2>1. Claims(e) \in 0 .. 1 /\ Claims(e)' \in 0 .. 1
    BY DEF Claims
  <2> HIDE DEF Lapses, Claims
  <2> QED BY <2>1, <1>2
<1> QED BY <1>1, <1>3, <1>4, NobodyLetThrough

LEMMA OnceStep == OnceInv /\ [Next]_vars => OnceInv'
<1> SUFFICES ASSUME OnceInv, [Next]_vars
             PROVE  OnceInv'
  OBVIOUS
<1>1. CASE UNCHANGED vars
  BY <1>1 DEF vars, OnceInv, Typed, Accounted, Producing, Claims, Lapses
<1>2. CASE \E r \in Replicas, e \in Webhooks :
             Send(r, e) \/ Handle(r, e) \/ Flush(r, e) \/ Abandon(r, e)
  BY <1>2, FirstSightKeeps, ProduceKeeps, OthersKeep DEF Handle
<1>3. CASE \E r \in Replicas : Shutdown(r) \/ Exit(r) \/ Crash(r) \/ Start(r)
  BY <1>3, ProcessKeeps
<1>4. CASE \E e \in Webhooks : GrowStale(e)
  <2>1. /\ Typed /\ produced' = produced /\ redis' = redis /\ step' = step
        /\ Fault("stale")
    BY <1>4 DEF GrowStale, OnceInv
  <2>2. faults' \in [FaultKinds -> Nat] /\ Lapses' >= Lapses
    BY <2>1, FaultCounts, LapsesCount DEF Typed, FaultKinds
  <2>3. Typed'
    BY <2>1, <2>2 DEF Typed
  <2>4. \A d \in Webhooks : Claims(d) + Lapses <= Claims(d)' + Lapses'
    BY <2>1, <2>2, <2>3, KeysStay
  <2> QED BY <2>1, <2>3, <2>4, NobodyLetThrough
<1>5. CASE RedisRestart
  BY <1>5, RestartKeeps
<1> QED BY <1>1, <1>2, <1>3, <1>4, <1>5 DEF Next

\* "Two concurrent deliveries of the same webhook cannot both observe 'not seen'"
\* (dedup.go:41-43).
THEOREM ProducedAtMostOnce == Spec => []ProducedOnce
<1>1. Init => OnceInv
  <2> SUFFICES ASSUME Init
               PROVE  OnceInv
    OBVIOUS
  <2>1. Typed
    BY DEF Init, Typed, Idle, Steps
  <2>2. ASSUME NEW e \in Webhooks
        PROVE  produced[e] + Cardinality(Producing(e)) <= Claims(e) + Lapses
    <3>1. Producing(e) = {}
      BY DEF Init, Producing, Idle
    <3>2. Cardinality(Producing(e)) = 0
      BY <3>1, FS_EmptySet
    <3> QED BY <3>2 DEF Init, Claims, FaultKinds, Lapses
  <2> QED BY <2>1, <2>2 DEF OnceInv, Accounted
<1>2. OnceInv /\ [Next]_vars => OnceInv'
  BY OnceStep
<1>3. OnceInv => ProducedOnce
  <2> SUFFICES ASSUME OnceInv, NEW e \in Webhooks
               PROVE  produced[e] <= 1 + Lapses
    BY DEF ProducedOnce, Lapses, OnceInv, Typed, FaultKinds
  <2>1. /\ produced[e] + Cardinality(Producing(e)) <= Claims(e) + Lapses
        /\ produced[e] \in Nat /\ Lapses \in Nat
    BY LapsesCount DEF OnceInv, Accounted, Typed
  <2>2. Cardinality(Producing(e)) \in Nat /\ Claims(e) \in 0 .. 1
    BY ProducingFinite DEF Claims
  <2> HIDE DEF Lapses, Claims
  <2> QED BY <2>1, <2>2
<1> QED BY <1>1, <1>2, <1>3, PTL DEF Spec

-----------------------------------------------------------------------------
(* Forged webhooks *)

Shaped ==
  /\ step \in [Replicas -> [Webhooks -> Steps]]
  /\ buffer \in [Replicas -> [Webhooks -> Nat]]
  /\ topic \in [Webhooks -> Nat]

\* A forged webhook is posted, verified and refused, and leaves nothing behind.
AtTheDoor == {"none", "verify", "rejected"}
Untraced ==
  \A e \in Forged :
    /\ e \notin redis /\ topic[e] = 0
    /\ \A r \in Replicas : step[r][e] \in AtTheDoor /\ buffer[r][e] = 0

DoorInv == Shaped /\ Untraced

\* A step of one request, when no more of it is kept for a forged webhook than before.
LEMMA RequestKeeps ==
  ASSUME DoorInv, NEW r \in Replicas, NEW e \in Webhooks, NEW s \in Steps,
         step' = [step EXCEPT ![r][e] = s], e \in Forged => s \in AtTheDoor,
         redis' \subseteq redis \cup {e}, e \in Forged => redis' = redis,
         buffer' = buffer \/ (e \notin Forged /\ buffer' = [buffer EXCEPT ![r][e] = @ + 1]),
         topic' = topic
  PROVE  DoorInv'
<1>1. Shaped'
  <2>1. buffer' \in [Replicas -> [Webhooks -> Nat]]
    <3>1. buffer[r][e] + 1 \in Nat
      BY DEF DoorInv, Shaped
    <3> QED BY <3>1 DEF DoorInv, Shaped
  <2>2. step' \in [Replicas -> [Webhooks -> Steps]]
    BY DEF DoorInv, Shaped
  <2> QED BY <2>1, <2>2 DEF DoorInv, Shaped
<1>2. ASSUME NEW d \in Forged
      PROVE  /\ d \notin redis' /\ topic'[d] = 0
             /\ \A q \in Replicas : step'[q][d] \in AtTheDoor /\ buffer'[q][d] = 0
  <2>1. d \in Webhooks
    BY EdgeAssumption
  <2>2. d \notin redis' /\ topic'[d] = 0
    BY DEF DoorInv, Untraced
  <2>3. ASSUME NEW q \in Replicas
        PROVE  step'[q][d] \in AtTheDoor
    BY <2>1 DEF DoorInv, Shaped, Untraced
  <2>4. ASSUME NEW q \in Replicas
        PROVE  buffer'[q][d] = 0
    BY <2>1 DEF DoorInv, Shaped, Untraced
  <2> QED BY <2>2, <2>3, <2>4
<1> QED BY <1>1, <1>2 DEF DoorInv, Untraced

LEMMA DoorHandle ==
  ASSUME DoorInv, NEW r \in Replicas, NEW e \in Webhooks,
         Send(r, e) \/ Handle(r, e)
  PROVE  DoorInv'
<1>1. CASE Send(r, e)
  BY <1>1, RequestKeeps DEF Send, Goto, Steps, AtTheDoor
<1>2. CASE Verify(r, e)
  BY <1>2, RequestKeeps DEF Verify, Goto, Steps, AtTheDoor
<1>3. CASE FirstSight(r, e)
  <2>1. e \notin Forged
    BY <1>3 DEF FirstSight, DoorInv, Untraced, AtTheDoor
  <2>2. \E s \in Steps : step' = [step EXCEPT ![r][e] = s]
    BY <1>3 DEF FirstSight, Goto, Steps
  <2>3. redis' \subseteq redis \cup {e} /\ buffer' = buffer /\ topic' = topic
    BY <1>3 DEF FirstSight
  <2> QED BY <2>1, <2>2, <2>3, RequestKeeps
<1>4. CASE Produce(r, e)
  <2>1. e \notin Forged
    BY <1>4 DEF Produce, DoorInv, Untraced, AtTheDoor
  <2> QED BY <2>1, <1>4, RequestKeeps DEF Produce, Goto, Steps
<1>5. CASE Reply(r, e)
  BY <1>5, RequestKeeps DEF Reply, Goto, Steps, AtTheDoor
<1> QED BY <1>1, <1>2, <1>3, <1>4, <1>5 DEF Handle

LEMMA DoorClient ==
  ASSUME DoorInv, NEW r \in Replicas, NEW e \in Webhooks,
         Flush(r, e) \/ Abandon(r, e)
  PROVE  DoorInv'
<1>1. /\ e \notin Forged /\ buffer[r][e] - 1 \in Nat
      /\ step' = step /\ redis' = redis
      /\ buffer' = [buffer EXCEPT ![r][e] = @ - 1]
      /\ topic' = topic \/ topic' = [topic EXCEPT ![e] = @ + 1]
  BY DEF Flush, Abandon, DoorInv, Untraced, Shaped
<1>2. Shaped'
  <2>1. buffer' \in [Replicas -> [Webhooks -> Nat]]
    BY <1>1 DEF DoorInv, Shaped
  <2>2. topic' \in [Webhooks -> Nat]
    BY <1>1 DEF DoorInv, Shaped
  <2> QED BY <1>1, <2>1, <2>2 DEF DoorInv, Shaped
<1>3. ASSUME NEW d \in Forged, NEW q \in Replicas
      PROVE  buffer'[q][d] = buffer[q][d] /\ topic'[d] = topic[d]
  BY <1>1, EdgeAssumption DEF DoorInv, Shaped
<1>4. ASSUME NEW d \in Forged
      PROVE  topic'[d] = topic[d]
  BY <1>1, EdgeAssumption DEF DoorInv, Shaped
<1> QED BY <1>1, <1>2, <1>3, <1>4 DEF DoorInv, Untraced

\* What ends with a process is forgotten.
LEMMA DoorProcess ==
  ASSUME DoorInv, NEW r \in Replicas,
         step' = step \/ step' = [step EXCEPT ![r] = Idle],
         buffer' = buffer \/ buffer' = [buffer EXCEPT ![r] = Empty],
         redis' = redis, topic' = topic
  PROVE  DoorInv'
<1>1. Shaped'
  <2>1. Idle \in [Webhooks -> Steps] /\ Empty \in [Webhooks -> Nat]
    BY DEF Idle, Empty, Steps
  <2> QED BY <2>1 DEF DoorInv, Shaped
<1>2. ASSUME NEW d \in Forged, NEW q \in Replicas
      PROVE  step'[q][d] \in AtTheDoor /\ buffer'[q][d] = 0
  <2>1. d \in Webhooks
    BY EdgeAssumption
  <2>2. step'[q][d] \in AtTheDoor
    BY <2>1 DEF DoorInv, Shaped, Untraced, Idle, AtTheDoor
  <2>3. buffer'[q][d] = 0
    BY <2>1 DEF DoorInv, Shaped, Untraced, Empty
  <2> QED BY <2>2, <2>3
<1> QED BY <1>1, <1>2 DEF DoorInv, Untraced

LEMMA DoorStep == DoorInv /\ [Next]_vars => DoorInv'
<1> SUFFICES ASSUME DoorInv, [Next]_vars
             PROVE  DoorInv'
  OBVIOUS
<1>1. CASE UNCHANGED vars
  BY <1>1 DEF vars, DoorInv, Shaped, Untraced
<1>2. CASE \E r \in Replicas, e \in Webhooks :
             Send(r, e) \/ Handle(r, e) \/ Flush(r, e) \/ Abandon(r, e)
  BY <1>2, DoorHandle, DoorClient
<1>3. CASE \E r \in Replicas : Shutdown(r) \/ Exit(r) \/ Crash(r) \/ Start(r)
  BY <1>3, DoorProcess DEF Shutdown, Exit, Crash, Start
<1>4. CASE \E e \in Webhooks : GrowStale(e)
  BY <1>4 DEF GrowStale, DoorInv, Shaped, Untraced
<1>5. CASE RedisRestart
  BY <1>5 DEF RedisRestart, DoorInv, Shaped, Untraced
<1> QED BY <1>1, <1>2, <1>3, <1>4, <1>5 DEF Next

\* A webhook that fails verification claims no dedup key and reaches no topic
\* (main.go:73-101).
THEOREM ForgedStopsAtTheDoor == Spec => []ForgedLeavesNoTrace
<1>1. Init => DoorInv
  <2> SUFFICES ASSUME Init
               PROVE  DoorInv
    OBVIOUS
  <2>1. Shaped
    BY DEF Init, Shaped, Idle, Empty, Steps
  <2>2. Untraced
    BY EdgeAssumption DEF Init, Untraced, Idle, Empty, AtTheDoor
  <2> QED BY <2>1, <2>2 DEF DoorInv
<1>2. DoorInv /\ [Next]_vars => DoorInv'
  BY DoorStep
<1>3. DoorInv => ForgedLeavesNoTrace
  BY DEF DoorInv, Untraced, ForgedLeavesNoTrace
<1> QED BY <1>1, <1>2, <1>3, PTL DEF Spec

-----------------------------------------------------------------------------
(* What is acknowledged *)

\* While nothing has crashed and no claim was taken for a duplicate of itself, behind
\* a key, a duplicate and an acknowledgement there is a handler that produced the
\* webhook or is about to.  Redis may lose the key in between.
Behind(e) == produced[e] > 0 \/ \E r \in Replicas : step[r][e] = "produce"
Unlost == faults["crash"] = 0 /\ faults["set_twice"] = 0
Answerable ==
  Unlost =>
    \A e \in Webhooks :
      /\ e \in redis \/ acked[e] => Behind(e)
      /\ \A r \in Replicas :
           /\ step[r][e] = "duplicate" => Behind(e)
           /\ step[r][e] = "accepted" => produced[e] > 0

HandledInv == Typed /\ acked \in [Webhooks -> BOOLEAN] /\ Answerable

LEMMA FaultTyped ==
  ASSUME Typed, faults' = faults \/ \E kind \in FaultKinds : Fault(kind)
  PROVE  /\ faults' \in [FaultKinds -> Nat]
         /\ Unlost' => Unlost
BY DEF Typed, Fault, FaultKinds, Unlost

LEMMA HandledHandle ==
  ASSUME HandledInv, NEW r \in Replicas, NEW e \in Webhooks,
         Send(r, e) \/ Handle(r, e)
  PROVE  HandledInv'
<1>1. PICK s \in Steps : step' = [step EXCEPT ![r][e] = s]
  BY DEF Send, Handle, Verify, FirstSight, Produce, Reply, Goto, Steps
<1>2. faults' = faults \/ \E kind \in FaultKinds : Fault(kind)
  BY DEF Send, Handle, Verify, FirstSight, Produce, Reply, FaultKinds
<1>3. Typed' /\ acked' \in [Webhooks -> BOOLEAN]
  <2>1. produced' = produced \/ produced' = [produced EXCEPT ![e] = @ + 1]
    BY DEF Send, Handle, Verify, FirstSight, Produce, Reply
  <2>2. produced' \in [Webhooks -> Nat]
    BY <2>1 DEF HandledInv, Typed
  <2>3. acked' \in [Webhooks -> BOOLEAN]
    BY DEF HandledInv, Send, Handle, Verify, FirstSight, Produce, Reply
  <2>4. step' \in [Replicas -> [Webhooks -> Steps]]
    BY <1>1 DEF HandledInv, Typed
  <2> QED BY <1>2, <2>2, <2>3, <2>4, FaultTyped DEF HandledInv, Typed
<1>4. ASSUME Unlost', NEW d \in Webhooks
      PROVE  /\ d \in redis' \/ acked'[d] => Behind(d)'
             /\ \A q \in Replicas :
                  /\ step'[q][d] = "duplicate" => Behind(d)'
                  /\ step'[q][d] = "accepted" => produced'[d] > 0
  <2>1. /\ d \in redis \/ acked[d] => Behind(d)
        /\ \A q \in Replicas :
             /\ step[q][d] = "duplicate" => Behind(d)
             /\ step[q][d] = "accepted" => produced[d] > 0
    BY <1>2, <1>4, FaultTyped DEF HandledInv, Answerable
  <2>2. CASE d # e
    BY <2>1, <2>2 DEF HandledInv, Typed, Behind, Send, Handle, Verify, FirstSight, Produce,
                      Reply, Goto
  <2>3. CASE d = e /\ (Send(r, e) \/ Verify(r, e))
    <3>1. PICK t \in {"verify", "rejected", "dedup"} : step' = [step EXCEPT ![r][e] = t]
      BY <2>3 DEF Send, Verify, Goto
    <3>2. /\ UNCHANGED <<acked, redis, produced>>
          /\ step[r][e] \in {"none", "verify"}
      BY <2>3 DEF Send, Verify
    <3>3. Behind(e)' <=> Behind(e)
      BY <3>1, <3>2 DEF HandledInv, Typed, Behind
    <3>4. ASSUME NEW q \in Replicas, step'[q][e] \in {"duplicate", "accepted"}
          PROVE  step'[q][e] = step[q][e]
      BY <3>1, <3>4 DEF HandledInv, Typed
    <3> HIDE DEF Behind
    <3> QED BY <2>1, <2>3, <3>2, <3>3, <3>4
  <2>4. CASE d = e /\ FirstSight(r, e)
    <3>1. ~Fault("set_twice")
      BY <1>4 DEF HandledInv, Typed, Unlost, Fault, FaultKinds
    <3>2. CASE e \in redis /\ step' = [step EXCEPT ![r][e] = "duplicate"]
      BY <2>1, <2>4, <3>2 DEF HandledInv, Typed, Behind, FirstSight
    <3>3. CASE step' = [step EXCEPT ![r][e] = "produce"]
      BY <2>1, <2>4, <3>3 DEF HandledInv, Typed, Behind, FirstSight
    <3> QED BY <2>4, <3>1, <3>2, <3>3 DEF FirstSight, Goto
  <2>5. CASE d = e /\ Produce(r, e)
    <3>1. produced'[e] > 0
      BY <2>5 DEF HandledInv, Typed, Produce
    <3> QED BY <2>1, <2>5, <3>1 DEF HandledInv, Typed, Behind, Produce, Goto
  <2>6. CASE d = e /\ Reply(r, e)
    BY <2>1, <2>6 DEF HandledInv, Typed, Behind, Reply, Goto
  <2> QED BY <2>2, <2>3, <2>4, <2>5, <2>6 DEF Handle
<1> QED BY <1>3, <1>4 DEF HandledInv, Answerable

LEMMA HandledStep == HandledInv /\ [Next]_vars => HandledInv'
<1> SUFFICES ASSUME HandledInv, [Next]_vars
             PROVE  HandledInv'
  OBVIOUS
<1>1. CASE \E r \in Replicas, e \in Webhooks : Send(r, e) \/ Handle(r, e)
  BY <1>1, HandledHandle
<1>2. CASE /\ UNCHANGED <<acked, redis, produced, step>>
           /\ faults' = faults \/ \E kind \in FaultKinds : Fault(kind)
  BY <1>2, FaultTyped DEF HandledInv, Typed, Answerable, Behind
<1>3. CASE \E r \in Replicas : Crash(r)
  <2>1. PICK r \in Replicas : Crash(r)
    BY <1>3
  <2>2. step' = [step EXCEPT ![r] = Idle] /\ Fault("crash")
        /\ UNCHANGED <<acked, produced>>
    BY <2>1 DEF Crash
  <2>3. faults' \in [FaultKinds -> Nat] /\ ~Unlost'
    BY <2>2 DEF HandledInv, Typed, Fault, FaultKinds, Unlost
  <2>4. Typed'
    BY <2>2, <2>3 DEF HandledInv, Typed, Idle, Steps
  <2> QED BY <2>2, <2>3, <2>4 DEF HandledInv, Answerable
<1>4. CASE UNCHANGED vars
  BY <1>2, <1>4 DEF vars
<1>5. CASE \E r \in Replicas, e \in Webhooks : Flush(r, e) \/ Abandon(r, e)
  BY <1>2, <1>5 DEF Flush, Abandon, FaultKinds
<1>6. CASE \E r \in Replicas : Shutdown(r) \/ Exit(r) \/ Start(r)
  BY <1>2, <1>6 DEF Shutdown, Exit, Start, FaultKinds
<1>7. CASE \E e \in Webhooks : GrowStale(e)
  BY <1>2, <1>7 DEF GrowStale, FaultKinds
\* Redis may forget a key, and nothing else with it.
<1>8. CASE RedisRestart
  BY <1>8, FaultTyped DEF RedisRestart, HandledInv, Typed, Answerable, Behind, FaultKinds
<1> QED BY <1>1, <1>3, <1>4, <1>5, <1>6, <1>7, <1>8 DEF Next

\* "Something we have already handled" (main.go:102-104): only a crash, and a claim
\* whose reply was lost and whose second try was refused, leave an acknowledgement
\* with no handler behind it.
THEOREM AckedMeansHandled == Spec => []UnhandledHasCause
<1>1. Init => HandledInv
  BY DEF Init, HandledInv, Typed, Answerable, Behind, Idle, Steps, FaultKinds
<1>2. HandledInv /\ [Next]_vars => HandledInv'
  BY HandledStep
<1>3. HandledInv => UnhandledHasCause
  <2> SUFFICES ASSUME HandledInv, Unlost
               PROVE  AckedWasHandled
    BY DEF UnhandledHasCause, Happened, HandledInv, Typed, FaultKinds, Unlost
  <2> QED BY DEF HandledInv, Answerable, Behind, AckedWasHandled, InHand
<1> QED BY <1>1, <1>2, <1>3, PTL DEF Spec
=============================================================================
