---------------------------- MODULE VendorProofs ----------------------------
(***************************************************************************)
(* For any jobs, any number of executions, crashes, timeouts and discarded *)
(* plans.  As long as the vendor remembers its keys, no job is noticed     *)
(* twice: a key, once it is in the store, points at the only resource      *)
(* there is of its job, and every handler asks for it in the step that     *)
(* would create another.  A row that says "dispatched" names what was      *)
(* done: each answer is given for what is in the store.  And what one case *)
(* did is paid twice only after an execution the control plane heard       *)
(* nothing of: of two jobs of a case executed once, one at most is at work *)
(* or through, as long as one planning cycle runs at a time.               *)
(***************************************************************************)
EXTENDS Vendor, TLAPS, FiniteSetTheorems, SequenceTheorems

Paths == {"create", "notify", "charge", "call"}
Stages == {"sent", "emitting", "answered", "refused"}
Statuses == {"created", "completed"} \cup DebitOutcomes \cup ContactOutcomes
Requests ==
  [job : Jobs, try : Nat, path : Paths, stage : Stages, place : Nat]
Resources == [job : Jobs, status : Statuses]

Typed ==
  /\ tries \in [Jobs -> Nat]
  /\ requests \subseteq Requests
  /\ resources \in Seq(Resources)
  /\ \A j \in DOMAIN idempotency : idempotency[j] \in Nat

\* Every resource is the one its job's key stands for.
Remembered ==
  forgotten = 0 =>
    \A i \in DOMAIN resources :
      /\ resources[i].job \in DOMAIN idempotency
      /\ idempotency[resources[i].job] = i

OneResourceAKey == Typed /\ Remembered

\* A request that moves on is still a request of its job.
LEMMA AtTyped ==
  ASSUME Typed, NEW r \in requests
  PROVE  \A place \in Nat :
           /\ At(r, "answered", place) \subseteq Requests
           /\ At(r, "emitting", place) \subseteq Requests
           /\ At(r, "refused", place) \subseteq Requests
BY DEF Typed, At, Requests, Stages

LEMMA PlaceIsNat == Typed => Place \in Nat
BY DEF Typed, Place

\* A new resource under a key the store did not have.
LEMMA PutKeeps ==
  ASSUME OneResourceAKey, NEW j \in Jobs, j \notin DOMAIN idempotency,
         NEW status \in Statuses, Put(j, status)
  PROVE  /\ resources' \in Seq(Resources)
         /\ \A k \in DOMAIN idempotency' : idempotency'[k] \in Nat
         /\ Remembered'
<1> DEFINE new == [job |-> j, status |-> status]
<1>1. new \in Resources
  BY DEF Resources
<1>2. /\ resources' = Append(resources, new)
      /\ forgotten' = forgotten
      /\ DOMAIN idempotency' = DOMAIN idempotency \cup {j}
      /\ idempotency'[j] = Place
      /\ \A k \in DOMAIN idempotency : k # j => idempotency'[k] = idempotency[k]
  BY DEF Put
<1>3. Place = Len(resources) + 1 /\ Place \in Nat
  BY DEF Place, OneResourceAKey, Typed
<1>4. /\ resources' \in Seq(Resources)
      /\ DOMAIN resources' = DOMAIN resources \cup {Place}
      /\ resources'[Place] = new
      /\ \A i \in DOMAIN resources : resources'[i] = resources[i]
  BY <1>1, <1>2, <1>3 DEF OneResourceAKey, Typed
<1>5. \A k \in DOMAIN idempotency' : idempotency'[k] \in Nat
  BY <1>2, <1>3 DEF OneResourceAKey, Typed
<1>6. Remembered'
  <2> SUFFICES ASSUME forgotten' = 0, NEW i \in DOMAIN resources'
               PROVE  /\ resources'[i].job \in DOMAIN idempotency'
                      /\ idempotency'[resources'[i].job] = i
    BY DEF Remembered
  <2>1. CASE i = Place
    BY <2>1, <1>2, <1>4
  <2>2. CASE i \in DOMAIN resources
    <3>1. /\ resources[i].job \in DOMAIN idempotency
          /\ idempotency[resources[i].job] = i
      BY <2>2, <1>2 DEF OneResourceAKey, Remembered
    <3> QED BY <3>1, <2>2, <1>2, <1>4
  <2> QED BY <2>1, <2>2, <1>4
<1> QED BY <1>4, <1>5, <1>6

\* What leaves the store alone and has only typed requests keeps the invariant.
LEMMA StoreAlone ==
  ASSUME OneResourceAKey, UNCHANGED storeVars,
         tries' \in [Jobs -> Nat], requests' \subseteq Requests
  PROVE  OneResourceAKey'
BY DEF OneResourceAKey, Typed, Remembered, storeVars

LEMMA InvokeTyped ==
  ASSUME Typed, NEW j \in Jobs, Invoke(j)
  PROVE  tries' \in [Jobs -> Nat] /\ requests' \subseteq Requests
<1>1. FirstCall(j) \in Paths
  BY DEF FirstCall, Paths
<1>2. Request(j, tries[j] + 1, FirstCall(j), 0) \in Requests
  BY <1>1 DEF Typed, Request, Requests, Paths, Stages
<1> QED BY <1>2 DEF Typed, Invoke

LEMMA Initially == Init => OneResourceAKey
BY DEF Init, OneResourceAKey, Typed, Remembered

\* The processes of the control plane send and await; they store nothing.
LEMMA ClientKeeps ==
  ASSUME OneResourceAKey, Planner \/ Client
  PROVE  OneResourceAKey'
<1>1. Typed
  BY DEF OneResourceAKey
<1>2. CASE ListCases
  <2>1. UNCHANGED storeVars /\ UNCHANGED <<tries, requests>>
    BY <1>2 DEF ListCases, clientVars
  <2> QED BY <2>1, <1>1, StoreAlone DEF Typed
<1>3. ASSUME NEW j \in Jobs, (\E n : Dispatch(j, n)) \/ Redispatch(j)
      PROVE  OneResourceAKey'
  <2>1. UNCHANGED storeVars /\ Invoke(j)
    BY <1>3 DEF Dispatch, Redispatch
  <2> QED BY <2>1, <1>1, InvokeTyped, StoreAlone
<1>4. ASSUME NEW j \in Jobs, Crash(j) \/ GiveUp(j) \/ \E r \in requests : Misread(j, r)
      PROVE  OneResourceAKey'
  <2>1. UNCHANGED storeVars /\ tries' = tries /\ requests' \subseteq requests
    BY <1>4 DEF Crash, GiveUp, Misread, HangUp
  <2> QED BY <2>1, <1>1, StoreAlone DEF Typed
<1>5. ASSUME NEW j \in Jobs, NEW r \in requests, Receive(j, r)
      PROVE  OneResourceAKey'
  <2>1. Request(j, r.try, "notify", r.place) \in Requests
    BY <1>1 DEF Typed, Request, Requests, Paths, Stages
  <2>2. UNCHANGED storeVars /\ tries' = tries
    BY <1>5 DEF Receive
  <2>3. requests' \subseteq Requests
    BY <1>5, <2>1, <1>1 DEF Receive, Typed
  <2> QED BY <2>2, <2>3, <1>1, StoreAlone DEF Typed
<1> QED BY <1>2, <1>3, <1>4, <1>5 DEF Planner, Client

\* The handlers: each asks for the key in the step that stores under it.
LEMMA ServerKeeps ==
  ASSUME OneResourceAKey, Server
  PROVE  OneResourceAKey'
<1>1. Typed
  BY DEF OneResourceAKey
<1>2. PICK r \in requests :
        Replay(r) \/ CreateLink(r) \/ Charge(r) \/ Call(r) \/ Notify(r) \/ Posted(r)
  BY DEF Server
<1>3. r.job \in Jobs /\ r.place \in Nat
  BY <1>1 DEF Typed, Requests
<1>4. tries' = tries
  BY <1>2 DEF Replay, CreateLink, Charge, Call, Notify, Posted, clientVars
<1>5. CASE Replay(r)
  <2>1. idempotency[r.job] \in Nat
    BY <1>5, <1>1 DEF Replay, Replays, Typed
  <2>2. requests' \subseteq Requests
    BY <2>1, <1>5, <1>1, AtTyped DEF Replay
  <2> QED BY <2>2, <1>1, <1>4, <1>5, StoreAlone DEF Replay, Typed
<1>6. CASE Posted(r)
  <2>1. requests' \subseteq Requests
    BY <1>6, <1>1, <1>3, AtTyped DEF Posted, Answered
  <2> QED BY <2>1, <1>1, <1>4, <1>6, StoreAlone DEF Posted, Typed
<1>7. CASE CreateLink(r) \/ Charge(r) \/ Call(r)
  <2>1. /\ r.job \notin DOMAIN idempotency
        /\ \E status \in Statuses : Put(r.job, status)
    <3>1. CASE CreateLink(r)
      BY <3>1 DEF CreateLink, Replays, Statuses
    <3>2. CASE Charge(r)
      <4>1. \E status \in DebitOutcomes : Put(r.job, status)
        BY <3>2 DEF Charge
      <4>2. DebitOutcomes \subseteq Statuses
        BY DEF Statuses
      <4> QED BY <3>2, <4>1, <4>2 DEF Charge, Replays
    <3>3. CASE Call(r)
      BY <3>3 DEF Call, Replays, Statuses
    <3> QED BY <1>7, <3>1, <3>2, <3>3
  <2>2. requests' \subseteq Requests
    <3>1. /\ At(r, "answered", Place) \subseteq Requests
          /\ At(r, "answered", r.place) \subseteq Requests
          /\ At(r, "emitting", r.place) \subseteq Requests
      BY <1>1, <1>3, PlaceIsNat, AtTyped
    <3> QED BY <3>1, <1>7 DEF CreateLink, Charge, Call, Emit, Announce, Answered
  <2>3. /\ resources' \in Seq(Resources)
        /\ \A k \in DOMAIN idempotency' : idempotency'[k] \in Nat
        /\ Remembered'
    BY <2>1, <1>3, PutKeeps
  <2> QED BY <2>2, <2>3, <1>1, <1>4 DEF OneResourceAKey, Typed
<1>8. CASE Notify(r)
  <2>1. requests' \subseteq Requests
    <3>1. /\ At(r, "refused", r.place) \subseteq Requests
          /\ At(r, "answered", r.place) \subseteq Requests
          /\ At(r, "emitting", r.place) \subseteq Requests
      BY <1>1, <1>3, AtTyped
    <3> QED BY <3>1, <1>8 DEF Notify, Emit, Announce, Answered
  <2>2. UNCHANGED <<idempotency, forgotten>>
    BY <1>8 DEF Notify
  <2>3. /\ resources' \in Seq(Resources)
        /\ DOMAIN resources' = DOMAIN resources
        /\ \A i \in DOMAIN resources : resources'[i].job = resources[i].job
    <3>1. CASE UNCHANGED resources
      BY <3>1, <1>1 DEF Typed
    <3>2. CASE \E outcome \in ContactOutcomes :
                 resources' = [resources EXCEPT ![r.place].status = outcome]
      <4>1. PICK outcome \in Statuses :
              resources' = [resources EXCEPT ![r.place].status = outcome]
        <5>1. ContactOutcomes \subseteq Statuses
          BY DEF Statuses
        <5> QED BY <3>2, <5>1
      <4>2. /\ DOMAIN resources = 1 .. Len(resources) /\ Len(resources) \in Nat
            /\ \A i \in DOMAIN resources : resources[i] \in Resources
        BY <1>1 DEF Typed
      <4>3. /\ DOMAIN resources' = DOMAIN resources
            /\ \A i \in DOMAIN resources :
                 resources'[i] \in Resources /\ resources'[i].job = resources[i].job
        BY <4>1, <4>2 DEF Resources
      <4>4. resources' = [i \in 1 .. Len(resources) |-> resources'[i]]
        BY <4>1, <4>2
      <4>5. resources' \in Seq(Resources)
        BY <4>2, <4>3, <4>4, IsASeq
      <4> QED BY <4>3, <4>5
    <3> QED BY <3>1, <3>2, <1>8 DEF Notify
  <2> QED BY <2>1, <2>2, <2>3, <1>1, <1>4 DEF OneResourceAKey, Typed, Remembered
<1> QED BY <1>2, <1>5, <1>6, <1>7, <1>8

LEMMA StepKeeps == OneResourceAKey /\ [Next]_vars => OneResourceAKey'
<1> SUFFICES ASSUME OneResourceAKey, [Next]_vars
             PROVE  OneResourceAKey'
  OBVIOUS
<1>1. Typed
  BY DEF OneResourceAKey
<1>2. CASE Planner \/ Client
  BY <1>2, ClientKeeps
<1>3. CASE Server
  BY <1>3, ServerKeeps
<1>4. CASE Restart
  <2>1. /\ requests' = {} /\ resources' = resources /\ tries' = tries
        /\ DOMAIN idempotency' = {}
    BY <1>4 DEF Restart, clientVars
  <2>2. Typed'
    BY <2>1, <1>1 DEF Typed
  <2>3. forgotten' = Len(resources)
    BY <1>4 DEF Restart
  <2>4. Remembered'
    <3> SUFFICES ASSUME Len(resources) = 0
                 PROVE  DOMAIN resources = {}
      BY <2>1, <2>3 DEF Remembered
    <3>1. DOMAIN resources = 1 .. Len(resources)
      BY <1>1 DEF Typed
    <3> QED BY <3>1
  <2> QED BY <2>2, <2>4 DEF OneResourceAKey
<1>5. CASE \/ ResetPlanning \/ NextDay \/ (\E i \in DOMAIN events : Consume(i))
           \/ (\E o \in Obligations : FailElsewhere(o)) \/ UNCHANGED vars
  <2>1. UNCHANGED <<storeVars, tries, requests>>
    BY <1>5 DEF ResetPlanning, NextDay, Consume, FailElsewhere, clientVars, vars
  <2> QED BY <2>1, <1>1, StoreAlone DEF Typed
<1> QED BY <1>2, <1>3, <1>4, <1>5 DEF Next

\* The invariant says of a job that all its effects are one resource.
LEMMA EffectsAreOne == OneResourceAKey => OnceAKey
<1> SUFFICES ASSUME OneResourceAKey, forgotten = 0, NEW j \in Jobs
             PROVE  Cardinality(Effects(j)) <= 1
  BY DEF OnceAKey
<1>1. Effects(j) \subseteq {idempotency[j]}
  BY DEF Effects, OneResourceAKey, Remembered
<1>2. /\ IsFiniteSet({idempotency[j]}) /\ Cardinality({idempotency[j]}) = 1
  BY FS_Singleton
<1> QED BY <1>1, <1>2, FS_Subset

\* However often a job is executed, whoever crashes and whatever is still being
\* answered, its customer notices it once (store.py:55-58, app.py:248-250).
THEOREM EffectOnceAKey == Spec => []OnceAKey
<1>1. Init => OneResourceAKey
  BY Initially
<1>2. OneResourceAKey /\ [Next]_vars => OneResourceAKey'
  BY StepKeeps
<1>3. OneResourceAKey => OnceAKey
  BY EffectsAreOne
<1> QED BY <1>1, <1>2, <1>3, PTL DEF Spec

-----------------------------------------------------------------------------
(* A row that says "dispatched" names what was done.  An answer is given    *)
(* for work that is in the store, and the store forgets no effect.          *)

Made(j) == \E i \in DOMAIN resources :
             resources[i].job = j /\ resources[i].status # "created"

IsOf(place, j) == place \in DOMAIN resources /\ resources[place].job = j

\* Only a link waits to be sent.
LinksWait ==
  \A i \in DOMAIN resources :
    resources[i].status = "created" => resources[i].job.kind = "message"

KeysPoint == \A j \in DOMAIN idempotency : IsOf(idempotency[j], j)

\* What a request of a job can be: its first call, or the sending of its link.
Fits(r) ==
  /\ \/ r.path = FirstCall(r.job)
     \/ r.path = "notify" /\ r.job.kind = "message"
  /\ r.path = "create" => r.stage # "emitting"

\* What its place and its stage say of the store.
Stands(r) ==
  /\ r.path = "notify" \/ (r.path = "create" /\ r.stage = "answered") => IsOf(r.place, r.job)
  /\ r.path # "create" /\ r.stage \in {"emitting", "answered"} => Made(r.job)

Rows == {None, "pending", "failed", "rejected", "dispatched"}

AnswersHold ==
  /\ row \in [Jobs -> Rows]
  /\ LinksWait
  /\ KeysPoint
  /\ \A r \in requests : Fits(r) /\ Stands(r)
  /\ \A j \in Jobs : row[j] = "dispatched" => Made(j)

\* The store grows and takes nothing back.
Grows ==
  \A i \in DOMAIN resources :
    /\ i \in DOMAIN resources'
    /\ resources'[i].job = resources[i].job
    /\ resources[i].status # "created" => resources'[i].status # "created"

LEMMA FirstCallOfMessage ==
  ASSUME NEW j \in Jobs
  PROVE  j.kind = "message" <=> FirstCall(j) = "create"
BY VendorAssumption DEF FirstCall

\* What growth keeps of a job and of a request that stays.
LEMMA GrowthKeeps ==
  ASSUME Grows
  PROVE  /\ \A j : Made(j) => Made(j)'
         /\ \A place, j : IsOf(place, j) => IsOf(place, j)'
         /\ \A r : Stands(r) => Stands(r)'
BY DEF Grows, Made, IsOf, Stands

\* A step under which the store grows keeps what the requests that stay, and
\* the rows that stay, say of it.
LEMMA HoldOn ==
  ASSUME AnswersHold, Grows, LinksWait', KeysPoint', row' \in [Jobs -> Rows],
         \A j \in Jobs : row'[j] = "dispatched" => row[j] = "dispatched" \/ Made(j)',
         \A r \in requests' : r \in requests \/ (Fits(r) /\ Stands(r)')
  PROVE  AnswersHold'
<1>1. \A r \in requests' : Fits(r) /\ Stands(r)'
  BY GrowthKeeps DEF AnswersHold
<1>2. \A j \in Jobs : row'[j] = "dispatched" => Made(j)'
  BY GrowthKeeps DEF AnswersHold
<1> QED BY <1>1, <1>2 DEF AnswersHold, Fits

LEMMA SameStoreGrows == resources' = resources => Grows
BY DEF Grows

LEMMA SameStoreHolds ==
  ASSUME AnswersHold, UNCHANGED <<resources, idempotency>>
  PROVE  Grows /\ LinksWait' /\ KeysPoint'
BY DEF Grows, AnswersHold, LinksWait, KeysPoint, IsOf

\* A request that moves on keeps its job and its path.
LEMMA Moved ==
  ASSUME Typed, NEW r \in requests, NEW stage \in Stages, NEW place \in Nat,
         NEW q \in At(r, stage, place)
  PROVE  \/ q \in requests
         \/ q.job = r.job /\ q.path = r.path /\ q.stage = stage /\ q.place = place
BY DEF Typed, At, Requests

\* A new resource, found under its key.
LEMMA PutHolds ==
  ASSUME Typed, AnswersHold, NEW j \in Jobs, NEW status, Put(j, status),
         status = "created" => j.kind = "message"
  PROVE  /\ Grows /\ LinksWait' /\ KeysPoint'
         /\ Place \in Nat
         /\ \A place : place = Place => IsOf(place, j)'
         /\ status # "created" => Made(j)'
<1> DEFINE new == [job |-> j, status |-> status]
<1>1. /\ resources' = Append(resources, new)
      /\ DOMAIN idempotency' = DOMAIN idempotency \cup {j}
      /\ idempotency'[j] = Place
      /\ \A k \in DOMAIN idempotency : k # j => idempotency'[k] = idempotency[k]
  BY DEF Put
<1>2. PICK place : place = Place
  OBVIOUS
<1>3. /\ place = Len(resources) + 1 /\ place \in Nat
      /\ DOMAIN resources' = DOMAIN resources \cup {place}
      /\ resources'[place] = new
      /\ \A i \in DOMAIN resources : i # place /\ resources'[i] = resources[i]
  BY <1>1, <1>2 DEF Place, Typed
<1>4. Grows
  BY <1>3 DEF Grows
<1>5. IsOf(place, j)'
  BY <1>3 DEF IsOf
<1>6. LinksWait'
  BY <1>3 DEF LinksWait, AnswersHold
<1>7. KeysPoint'
  BY <1>1, <1>2, <1>4, <1>5, GrowthKeeps DEF KeysPoint, AnswersHold
<1>8. status # "created" => Made(j)'
  BY <1>3 DEF Made
<1> QED BY <1>2, <1>3, <1>4, <1>5, <1>6, <1>7, <1>8

LEMMA RowsHold ==
  ASSUME AnswersHold, UNCHANGED row
  PROVE  /\ row' \in [Jobs -> Rows]
         /\ \A j \in Jobs : row'[j] = "dispatched" => row[j] = "dispatched"
BY DEF AnswersHold

LEMMA ClientHolds ==
  ASSUME Typed, AnswersHold, Planner \/ Client
  PROVE  AnswersHold'
<1>2. Grows /\ LinksWait' /\ KeysPoint'
  <2>1. UNCHANGED <<resources, idempotency>>
    BY DEF Planner, Client, ListCases, Dispatch, Redispatch, Crash, GiveUp, Receive,
           Misread, storeVars
  <2> QED BY <2>1, SameStoreHolds
<1>1. CASE ListCases
  <2>1. UNCHANGED <<requests, row>>
    BY <1>1 DEF ListCases, clientVars
  <2> QED BY <2>1, <1>2, RowsHold, HoldOn
<1>3. ASSUME NEW j \in Jobs, (\E n : Dispatch(j, n)) \/ Redispatch(j)
      PROVE  AnswersHold'
  <2>1. \A r \in requests' : r \in requests \/ (Fits(r) /\ Stands(r)')
    <3>1. PICK try : try = tries[j] + 1
      OBVIOUS
    <3>2. requests' = requests \cup {Request(j, try, FirstCall(j), 0)}
      BY <1>3, <3>1 DEF Dispatch, Redispatch, Invoke
    <3>3. ASSUME NEW r, r = Request(j, try, FirstCall(j), 0)
          PROVE  Fits(r) /\ Stands(r)'
      <4>1. r.job = j /\ r.path = FirstCall(j) /\ r.stage = "sent"
        BY <3>3 DEF Request
      <4>2. FirstCall(j) # "notify"
        BY DEF FirstCall
      <4> QED BY <4>1, <4>2 DEF Fits, Stands
    <3> QED BY <3>2, <3>3
  <2>2. /\ row' \in [Jobs -> Rows]
        /\ \A k \in Jobs : row'[k] = "dispatched" => row[k] = "dispatched"
    BY <1>3 DEF Dispatch, Redispatch, AnswersHold, Rows
  <2> QED BY <1>2, <2>1, <2>2, HoldOn
<1>4. ASSUME NEW j \in Jobs, Crash(j) \/ GiveUp(j) \/ \E r \in requests : Misread(j, r)
      PROVE  AnswersHold'
  <2>1. requests' \subseteq requests
    BY <1>4 DEF Crash, GiveUp, Misread, HangUp
  <2>2. /\ row' \in [Jobs -> Rows]
        /\ \A k \in Jobs : row'[k] = "dispatched" => row[k] = "dispatched"
    BY <1>4 DEF Crash, GiveUp, Misread, Done, AnswersHold, Rows
  <2> QED BY <1>2, <2>1, <2>2, HoldOn
<1>5. ASSUME NEW j \in Jobs, NEW r \in requests, Receive(j, r)
      PROVE  AnswersHold'
  <2>1. r.job = j /\ r.stage = "answered" /\ Fits(r) /\ Stands(r)
    BY <1>5 DEF Receive, Awaited, AnswersHold
  <2>2. CASE r.path = "create"
    <3>1. IsOf(r.place, j) /\ j.kind = "message"
      BY <2>1, <2>2, FirstCallOfMessage DEF Fits, Stands
    <3>2. UNCHANGED row
      BY <2>2, <1>5 DEF Receive
    <3>3. ASSUME NEW q, q = Request(j, r.try, "notify", r.place)
          PROVE  Fits(q) /\ Stands(q)'
      <4>1. /\ q.job = j /\ q.path = "notify" /\ q.stage = "sent"
            /\ q.place = r.place
        BY <3>3 DEF Request
      <4> QED BY <4>1, <3>1, <1>2, GrowthKeeps DEF Fits, Stands
    <3>4. \A q \in requests' : q \in requests \/ (Fits(q) /\ Stands(q)')
      BY <2>2, <1>5, <3>3 DEF Receive
    <3> QED BY <1>2, <3>2, <3>4, HoldOn DEF AnswersHold
  <2>3. CASE r.path # "create"
    <3>1. Made(j)
      BY <2>1, <2>3 DEF Stands
    <3>2. requests' \subseteq requests
      BY <2>3, <1>5 DEF Receive
    <3>3. /\ row' \in [Jobs -> Rows]
          /\ \A k \in Jobs : row'[k] = "dispatched" => row[k] = "dispatched" \/ k = j
      BY <2>3, <1>5 DEF Receive, Done, AnswersHold, Rows
    <3> QED BY <1>2, <3>1, <3>2, <3>3, GrowthKeeps, HoldOn
  <2> QED BY <2>2, <2>3
<1> QED BY <1>1, <1>3, <1>4, <1>5 DEF Planner, Client

\* A request that moves on fits, and stands where what its stage claims is there.
LEMMA MovedStands ==
  ASSUME Typed, AnswersHold, Grows, NEW r \in requests,
         NEW stage \in Stages, NEW place \in Nat,
         r.path = "create" => stage # "emitting",
         r.path = "notify" => place = r.place,
         r.path = "create" => IsOf(place, r.job)',
         r.path # "create" /\ stage \in {"emitting", "answered"} => Made(r.job)'
  PROVE  \A q \in At(r, stage, place) : q \in requests \/ (Fits(q) /\ Stands(q)')
<1> SUFFICES ASSUME NEW q \in At(r, stage, place), q \notin requests
             PROVE  Fits(q) /\ Stands(q)'
  OBVIOUS
<1>1. q.job = r.job /\ q.path = r.path /\ q.stage = stage /\ q.place = place
  BY Moved
<1>2. Fits(r) /\ Stands(r) /\ Stands(r)'
  BY GrowthKeeps DEF AnswersHold
<1>3. Fits(q)
  BY <1>1, <1>2 DEF Fits
<1>4. Stands(q)'
  BY <1>1, <1>2 DEF Stands
<1> QED BY <1>3, <1>4

\* What is moved on by a Put, or by the answer of one: the new resource is there.
LEMMA PutsHold ==
  ASSUME Typed, AnswersHold, NEW r \in requests, CreateLink(r) \/ Charge(r) \/ Call(r)
  PROVE  AnswersHold'
<1>1. r.job \in Jobs /\ r.place \in Nat /\ Fits(r)
  BY DEF Typed, Requests, AnswersHold
<1>2. UNCHANGED row
  BY DEF CreateLink, Charge, Call, clientVars
<1>3. CASE CreateLink(r)
  <2>1. PICK place : place = Place
    OBVIOUS
  <2>2. r.path = "create" /\ r.job.kind = "message" /\ Put(r.job, "created")
    BY <1>1, <1>3, FirstCallOfMessage DEF CreateLink, Pending, Fits
  <2>3. /\ Grows /\ LinksWait' /\ KeysPoint'
        /\ place \in Nat /\ IsOf(place, r.job)'
    BY <1>1, <2>1, <2>2, PutHolds
  <2>4. \A q \in At(r, "answered", place) : q \in requests \/ (Fits(q) /\ Stands(q)')
    BY <2>2, <2>3, MovedStands DEF Stages
  <2>5. requests' = At(r, "answered", place)
    BY <1>3, <2>1 DEF CreateLink
  <2> QED BY <1>2, <2>3, <2>4, <2>5, RowsHold, HoldOn
<1>4. CASE Charge(r) \/ Call(r)
  <2>1. r.path \in {"charge", "call"}
    BY <1>4 DEF Charge, Call, Pending
  <2>2. PICK status : status # "created" /\ Put(r.job, status)
    BY <1>4 DEF Charge, Call, DebitOutcomes
  <2>3. Grows /\ LinksWait' /\ KeysPoint' /\ Made(r.job)'
    BY <1>1, <2>2, PutHolds
  <2>4. \A stage \in {"answered", "emitting"} :
          \A q \in At(r, stage, r.place) : q \in requests \/ (Fits(q) /\ Stands(q)')
    BY <1>1, <2>1, <2>3, MovedStands DEF Stages
  <2>5. requests' = At(r, "answered", r.place) \/ requests' = At(r, "emitting", r.place)
    BY <1>4 DEF Charge, Call, Announce, Emit, Answered
  <2> QED BY <1>2, <2>3, <2>4, <2>5, RowsHold, HoldOn
<1> QED BY <1>3, <1>4

LEMMA ReplayHolds ==
  ASSUME Typed, AnswersHold, NEW r \in requests, Replay(r)
  PROVE  AnswersHold'
<1>1. Fits(r) /\ r.job \in Jobs
  BY DEF AnswersHold, Typed, Requests
<1>2. PICK place : place = idempotency[r.job]
  OBVIOUS
<1>3. IsOf(place, r.job) /\ place \in Nat
  BY <1>2 DEF Replay, Replays, AnswersHold, KeysPoint, Typed
<1>4. r.path \in {"create", "charge", "call"}
  BY DEF Replay, Pending
<1>5. r.path # "create" => Made(r.job)
  BY <1>1, <1>3, <1>4, FirstCallOfMessage DEF Fits, AnswersHold, LinksWait, IsOf, Made
<1>6. UNCHANGED <<resources, idempotency, row>>
  BY DEF Replay, storeVars, clientVars
<1>7. Grows /\ LinksWait' /\ KeysPoint'
  BY <1>6, SameStoreHolds
<1>8. IsOf(place, r.job)' /\ (r.path # "create" => Made(r.job)')
  BY <1>3, <1>5, <1>7, GrowthKeeps
<1>9. \A q \in At(r, "answered", place) : q \in requests \/ (Fits(q) /\ Stands(q)')
  BY <1>3, <1>4, <1>7, <1>8, MovedStands DEF Stages
<1>10. requests' = At(r, "answered", place)
  BY <1>2 DEF Replay
<1> QED BY <1>6, <1>7, <1>9, <1>10, RowsHold, HoldOn

LEMMA PostedHolds ==
  ASSUME Typed, AnswersHold, NEW r \in requests, Posted(r)
  PROVE  AnswersHold'
<1>1. Fits(r) /\ Stands(r) /\ r.place \in Nat /\ r.stage = "emitting"
  BY DEF AnswersHold, Typed, Requests, Posted
<1>2. r.path # "create" /\ Made(r.job)
  BY <1>1 DEF Fits, Stands
<1>3. UNCHANGED <<resources, idempotency, row>>
  BY DEF Posted, storeVars, clientVars
<1>4. Grows /\ LinksWait' /\ KeysPoint'
  BY <1>3, SameStoreHolds
<1>5. Made(r.job)'
  BY <1>2, <1>4, GrowthKeeps
<1>6. \A q \in At(r, "answered", r.place) : q \in requests \/ (Fits(q) /\ Stands(q)')
  BY <1>1, <1>2, <1>4, <1>5, MovedStands DEF Stages
<1>7. requests' = At(r, "answered", r.place)
  BY DEF Posted, Answered
<1> QED BY <1>3, <1>4, <1>6, <1>7, RowsHold, HoldOn

\* A link that is sent: what was a link that waits is an effect.
LEMMA NotifyHolds ==
  ASSUME Typed, AnswersHold, NEW r \in requests, Notify(r)
  PROVE  AnswersHold'
<1>1. /\ Stands(r) /\ r.place \in Nat /\ r.path = "notify"
      /\ UNCHANGED <<idempotency, row>>
  BY DEF AnswersHold, Typed, Requests, Notify, Pending, clientVars
<1>2. IsOf(r.place, r.job)
  BY <1>1 DEF Stands
<1>3. CASE UNCHANGED resources /\ requests' = At(r, "refused", r.place)
  <2>1. Grows /\ LinksWait' /\ KeysPoint'
    BY <1>1, <1>3, SameStoreHolds
  <2>2. \A q \in At(r, "refused", r.place) : q \in requests \/ (Fits(q) /\ Stands(q)')
    BY <1>1, <2>1, MovedStands DEF Stages
  <2> QED BY <1>1, <1>3, <2>1, <2>2, RowsHold, HoldOn
<1>4. CASE /\ UNCHANGED resources /\ resources[r.place].status # "created"
           /\ requests' = Answered(r)
  <2>1. Grows /\ LinksWait' /\ KeysPoint'
    BY <1>1, <1>4, SameStoreHolds
  <2>2. Made(r.job)'
    BY <1>2, <1>4 DEF IsOf, Made
  <2>3. \A q \in At(r, "answered", r.place) : q \in requests \/ (Fits(q) /\ Stands(q)')
    BY <1>1, <2>1, <2>2, MovedStands DEF Stages
  <2> QED BY <1>1, <1>4, <2>1, <2>3, RowsHold, HoldOn DEF Answered
<1>5. ASSUME NEW outcome \in ContactOutcomes,
             resources' = [resources EXCEPT ![r.place].status = outcome],
             Announce(r, outcome)
      PROVE  AnswersHold'
  <2>1. outcome # "created"
    BY DEF ContactOutcomes
  <2>2. \A i \in DOMAIN resources : resources[i] \in Resources
    BY DEF Typed
  <2>3. /\ DOMAIN resources' = DOMAIN resources
        /\ \A i \in DOMAIN resources :
             /\ resources'[i].job = resources[i].job
             /\ i # r.place => resources'[i].status = resources[i].status
             /\ i = r.place => resources'[i].status = outcome
    BY <1>5, <2>2 DEF Resources
  <2>4. Grows /\ Made(r.job)' /\ LinksWait'
    BY <1>2, <2>1, <2>3 DEF Grows, IsOf, Made, LinksWait, AnswersHold
  <2>5. KeysPoint'
    BY <1>1, <2>4, GrowthKeeps DEF KeysPoint, AnswersHold
  <2>6. \A stage \in {"answered", "emitting"} :
          \A q \in At(r, stage, r.place) : q \in requests \/ (Fits(q) /\ Stands(q)')
    BY <1>1, <2>4, MovedStands DEF Stages
  <2>7. requests' = At(r, "answered", r.place) \/ requests' = At(r, "emitting", r.place)
    BY <1>5 DEF Announce, Emit, Answered
  <2> QED BY <1>1, <2>4, <2>5, <2>6, <2>7, RowsHold, HoldOn
<1> QED BY <1>3, <1>4, <1>5 DEF Notify

LEMMA AnswersKept == OneResourceAKey /\ AnswersHold /\ [Next]_vars => AnswersHold'
<1> SUFFICES ASSUME Typed, AnswersHold, [Next]_vars
             PROVE  AnswersHold'
  BY DEF OneResourceAKey
<1>1. CASE Planner \/ Client
  BY <1>1, ClientHolds
<1>2. CASE Server
  BY <1>2, ReplayHolds, PutsHold, NotifyHolds, PostedHolds DEF Server
<1>3. CASE Restart
  <2>1. /\ requests' = {} /\ DOMAIN idempotency' = {} /\ UNCHANGED <<resources, row>>
    BY <1>3 DEF Restart, clientVars
  <2>2. Grows /\ LinksWait' /\ KeysPoint'
    BY <2>1 DEF Grows, LinksWait, KeysPoint, AnswersHold
  <2> QED BY <2>1, <2>2, RowsHold, HoldOn
<1>4. CASE ResetPlanning
  <2>1. UNCHANGED <<requests, resources, idempotency>>
    BY <1>4 DEF ResetPlanning, storeVars
  <2>2. /\ row' \in [Jobs -> Rows]
        /\ \A j \in Jobs : row'[j] = "dispatched" => row[j] = "dispatched"
    BY <1>4 DEF ResetPlanning, AnswersHold, Rows, None
  <2> QED BY <2>1, <2>2, SameStoreHolds, HoldOn
<1>5. CASE \/ NextDay \/ (\E i \in DOMAIN events : Consume(i))
           \/ (\E o \in Obligations : FailElsewhere(o)) \/ UNCHANGED vars
  <2>1. UNCHANGED <<requests, resources, idempotency, row>>
    BY <1>5 DEF NextDay, Consume, FailElsewhere, clientVars, storeVars, vars
  <2> QED BY <2>1, SameStoreHolds, RowsHold, HoldOn
<1> QED BY <1>1, <1>2, <1>3, <1>4, <1>5 DEF Next

LEMMA AnswersInitially == Init => AnswersHold
BY DEF Init, AnswersHold, LinksWait, KeysPoint, Rows, None

\* A row says "dispatched" only if the vendor did what the job is
\* (tools.py ToolOutcome.executed): through crashes, timeouts, restarts of the
\* vendor and discarded plans, for any jobs.
THEOREM DispatchedMeansDone == Spec => []DispatchedWasDone
<1>1. Init => OneResourceAKey /\ AnswersHold
  BY Initially, AnswersInitially
<1>2. (OneResourceAKey /\ AnswersHold) /\ [Next]_vars => (OneResourceAKey /\ AnswersHold)'
  BY StepKeeps, AnswersKept
<1>3. OneResourceAKey /\ AnswersHold => DispatchedWasDone
  BY DEF AnswersHold, Made, DispatchedWasDone, Effects
<1> QED BY <1>1, <1>2, <1>3, PTL DEF Spec

-----------------------------------------------------------------------------
(* Who is charged twice, with one planning cycle at a time.  A job is alive *)
(* while its call is awaited or its row says "dispatched".  Of two jobs of  *)
(* one case that were executed once, one at most is alive: a cycle has a    *)
(* case on its list only while none of its jobs is, and takes it off with   *)
(* the first it dispatches.                                                 *)

Alive(j) == tool[j] # "idle" \/ row[j] = "dispatched"

CaseStates == {"open", "awaiting", "recovered"}

Announcements ==
  [obligation : Obligations, type : DebitOutcomes \cup ContactOutcomes,
   job : Jobs, try : Nat, sent : BOOLEAN]

ClientTyped ==
  /\ row \in [Jobs -> Rows]
  /\ tool \in [Jobs -> Paths \cup {"idle"}]
  /\ worked \in [Jobs -> Nat]
  /\ cases \in [Obligations -> Seq(CaseStates)]
  /\ events \in Seq(Announcements)

\* A job works a case there is.
Numbered == \A j \in Jobs : worked[j] \in DOMAIN cases[j.obligation] \cup {0}

\* The partial unique index.
OneLive ==
  \A o \in Obligations : \A m, n \in DOMAIN cases[o] :
    cases[o][m] # "recovered" /\ cases[o][n] # "recovered" => m = n

InOpen(j) ==
  /\ worked[j] \in DOMAIN cases[j.obligation]
  /\ cases[j.obligation][worked[j]] = "open"

\* A case with a job that is through is not open.
OpenIsUndone ==
  \A j \in Jobs : j.obligation \notin reset /\ row[j] = "dispatched" => ~InOpen(j)

\* A case on the list has no job alive but those of the sweeper.
ListedUndone ==
  \A j \in Jobs :
    j.obligation \notin reset /\ tries[j] <= 1 /\ Alive(j)
      => <<j.obligation, worked[j]>> \notin listed

BothAlive(j, k) ==
  /\ j # k /\ j.obligation = k.obligation /\ worked[j] = worked[k]
  /\ j.obligation \notin reset /\ tries[j] <= 1 /\ tries[k] <= 1
  /\ Alive(j) /\ Alive(k)

OneAlive == \A j, k \in Jobs : ~BothAlive(j, k)

Begun == \A j \in Jobs : row[j] # None => tries[j] >= 1

\* What the vendor is asked, and what it announces, was planned.
Planned(j) == row[j] # None \/ j.obligation \in reset

AllPlanned ==
  /\ \A r \in requests : Planned(r.job)
  /\ \A i \in DOMAIN events : Planned(events[i].job)

OneAtWork ==
  /\ ClientTyped /\ Numbered /\ OneLive /\ OpenIsUndone /\ ListedUndone
  /\ OneAlive /\ Begun /\ AllPlanned

\* A sequence rewritten in place.
LEMMA Rewritten ==
  ASSUME NEW S, NEW s \in Seq(S), NEW t, t = [i \in DOMAIN s |-> t[i]],
         \A i \in DOMAIN s : t[i] \in S
  PROVE  t \in Seq(S) /\ DOMAIN t = DOMAIN s
<1>1. DOMAIN s = 1 .. Len(s) /\ Len(s) \in Nat
  OBVIOUS
<1>2. t = [i \in 1 .. Len(s) |-> t[i]]
  BY <1>1
<1>3. t \in Seq(S)
  BY <1>1, <1>2, IsASeq
<1> QED BY <1>2, <1>3, <1>1

\* What a step may do to the cases: open a new one where none is live, and never
\* open one again unless an operator discards its planning.
CasesMove ==
  /\ cases' \in [Obligations -> Seq(CaseStates)]
  /\ OneLive'
  /\ \A o \in Obligations :
       /\ DOMAIN cases[o] \subseteq DOMAIN cases'[o]
       /\ \A n \in DOMAIN cases[o] :
            cases'[o][n] = "open" => cases[o][n] = "open" \/ o \in reset'

LEMMA CasesStay ==
  ASSUME ClientTyped, OneLive, UNCHANGED cases
  PROVE  CasesMove
BY DEF ClientTyped, OneLive, CasesMove

\* The states of one obligation's cases are rewritten, and none is opened.
LEMMA CasesRewritten ==
  ASSUME ClientTyped, OneLive, NEW p \in Obligations, NEW t,
         cases' = [cases EXCEPT ![p] = t],
         t = [i \in DOMAIN cases[p] |-> t[i]],
         \A i \in DOMAIN cases[p] : t[i] = cases[p][i] \/ t[i] \in {"awaiting", "recovered"},
         \A m, n \in DOMAIN cases[p] : t[m] # "recovered" /\ t[n] # "recovered" => m = n
  PROVE  CasesMove
<1>1. \A i \in DOMAIN cases[p] : t[i] \in CaseStates
  BY DEF ClientTyped, CaseStates
<1>2. t \in Seq(CaseStates) /\ DOMAIN t = DOMAIN cases[p]
  BY <1>1, Rewritten DEF ClientTyped
<1>3. /\ cases' \in [Obligations -> Seq(CaseStates)]
      /\ cases'[p] = t /\ \A o \in Obligations \ {p} : cases'[o] = cases[o]
  BY <1>2 DEF ClientTyped
<1>4. OneLive'
  BY <1>2, <1>3 DEF OneLive
<1> QED BY <1>2, <1>3, <1>4 DEF CasesMove

\* A job that is through leaves its case waiting.
LEMMA DoneMoves ==
  ASSUME ClientTyped, OneLive, NEW j \in Jobs, NEW status, Done(j, status)
  PROVE  CasesMove
<1>1. j.obligation \in Obligations
  BY VendorAssumption
<1>2. CASE UNCHANGED cases
  BY <1>2, CasesStay
<1>3. CASE /\ OthersClosed(j.obligation, worked[j])
           /\ cases' = [cases EXCEPT ![j.obligation][worked[j]] = "awaiting"]
  <2>1. PICK t : t = [cases[j.obligation] EXCEPT ![worked[j]] = "awaiting"]
    OBVIOUS
  <2>2. cases' = [cases EXCEPT ![j.obligation] = t]
    BY <1>3, <2>1
  <2>3. \A i \in DOMAIN cases[j.obligation] :
          t[i] = IF i = worked[j] THEN "awaiting" ELSE cases[j.obligation][i]
    BY <2>1
  <2>4. t = [i \in DOMAIN cases[j.obligation] |-> t[i]]
    BY <2>1
  <2>5. \A m, n \in DOMAIN cases[j.obligation] :
          t[m] # "recovered" /\ t[n] # "recovered" => m = n
    BY <1>3, <2>3 DEF OthersClosed
  <2> QED BY <1>1, <2>2, <2>3, <2>4, <2>5, CasesRewritten
<1> QED BY <1>2, <1>3 DEF Done

LEMMA CaptureMoves ==
  ASSUME ClientTyped, OneLive, NEW o \in Obligations, cases' = AfterCapture(o)
  PROVE  CasesMove
<1>1. PICK t : t = [n \in DOMAIN cases[o] |-> "recovered"]
  OBVIOUS
<1>2. cases' = [cases EXCEPT ![o] = t]
  BY <1>1 DEF AfterCapture
<1>3. \A i \in DOMAIN cases[o] : t[i] = "recovered"
  BY <1>1
<1>4. t = [i \in DOMAIN cases[o] |-> t[i]]
  BY <1>1
<1> QED BY <1>2, <1>3, <1>4, CasesRewritten

LEMMA FailureMoves ==
  ASSUME ClientTyped, OneLive, NEW o \in Obligations, cases' = AfterFailure(o)
  PROVE  CasesMove
<1>1. CASE ~Closed(o)
  BY <1>1, CasesStay DEF AfterFailure
<1>2. CASE Closed(o)
  <2>1. cases[o] \in Seq(CaseStates) /\ "open" \in CaseStates
    BY DEF ClientTyped, CaseStates
  <2>2. PICK t : t = Append(cases[o], "open")
    OBVIOUS
  <2>3. /\ t \in Seq(CaseStates) /\ DOMAIN cases[o] \subseteq DOMAIN t
        /\ \A n \in DOMAIN t :
             \/ n \in DOMAIN cases[o] /\ t[n] = cases[o][n]
             \/ n = Len(cases[o]) + 1
        /\ \A n \in DOMAIN cases[o] : t[n] = cases[o][n]
    BY <2>1, <2>2
  <2>4. cases' = [cases EXCEPT ![o] = t]
    BY <1>2, <2>2 DEF AfterFailure
  <2>5. /\ cases' \in [Obligations -> Seq(CaseStates)]
        /\ cases'[o] = t /\ \A q \in Obligations \ {o} : cases'[q] = cases[q]
    BY <2>3, <2>4 DEF ClientTyped
  <2>6. \A m, n \in DOMAIN t : t[m] # "recovered" /\ t[n] # "recovered" => m = n
    BY <1>2, <2>3 DEF Closed
  <2>7. OneLive'
    BY <2>5, <2>6 DEF OneLive
  <2> QED BY <2>3, <2>5, <2>7 DEF CasesMove
<1> QED BY <1>1, <1>2

LEMMA ResetMoves ==
  ASSUME ClientTyped, OneLive, ResetPlanning
  PROVE  CasesMove /\ row' = [j \in Jobs |-> None] /\ UNCHANGED <<listed, worked, tool, tries>>
         /\ \A j \in Jobs : row[j] # None => j.obligation \in reset'
<1>1. PICK planned :
        /\ planned = {<<j.obligation, worked[j]>> : j \in {k \in Jobs : row[k] # None}}
        /\ row' = [j \in Jobs |-> None]
        /\ cases' = [o \in Obligations |-> [n \in DOMAIN cases[o] |->
                       IF <<o, n>> \in planned THEN "open" ELSE cases[o][n]]]
        /\ \A o \in Obligations : \A m, n \in DOMAIN cases[o] :
             cases'[o][m] # "recovered" /\ cases'[o][n] # "recovered" => m = n
        /\ reset' = reset \cup {c[1] : c \in planned}
        /\ UNCHANGED <<listed, worked, tool, tries>>
  BY DEF ResetPlanning
<1>2. ASSUME NEW o, NEW n, <<o, n>> \in planned
      PROVE  o \in reset'
  <2>1. PICK c \in planned : c = <<o, n>>
    BY <1>2
  <2>2. c[1] = o
    BY <2>1
  <2> QED BY <1>1, <2>2
<1>3. ASSUME NEW o \in Obligations
      PROVE  /\ cases'[o] \in Seq(CaseStates) /\ DOMAIN cases'[o] = DOMAIN cases[o]
             /\ \A n \in DOMAIN cases[o] :
                  cases'[o][n] = IF <<o, n>> \in planned THEN "open" ELSE cases[o][n]
  <2>1. PICK t : t = cases'[o]
    OBVIOUS
  <2>2. t = [n \in DOMAIN cases[o] |-> IF <<o, n>> \in planned THEN "open" ELSE cases[o][n]]
    BY <1>1, <2>1
  <2>3. \A n \in DOMAIN cases[o] :
          /\ t[n] = IF <<o, n>> \in planned THEN "open" ELSE cases[o][n]
          /\ t[n] \in CaseStates
    BY <2>2 DEF ClientTyped, CaseStates
  <2>4. t = [n \in DOMAIN cases[o] |-> t[n]]
    BY <2>2
  <2>5. cases[o] \in Seq(CaseStates)
    BY DEF ClientTyped
  <2>6. t \in Seq(CaseStates) /\ DOMAIN t = DOMAIN cases[o]
    BY <2>3, <2>4, <2>5, Rewritten
  <2> QED BY <2>1, <2>3, <2>6
<1>4. cases' \in [Obligations -> Seq(CaseStates)]
  BY <1>1, <1>3
<1>5. OneLive'
  BY <1>1, <1>3 DEF OneLive
<1>6. CasesMove
  BY <1>2, <1>3, <1>4, <1>5 DEF CasesMove
<1>7. \A j \in Jobs : row[j] # None => j.obligation \in reset'
  BY <1>1, <1>2
<1> QED BY <1>1, <1>6, <1>7

LEMMA CasesSteps ==
  ASSUME ClientTyped, OneLive, [Next]_vars
  PROVE  CasesMove
<1>1. CASE UNCHANGED cases
  BY <1>1, CasesStay
<1>2. CASE Planner
  BY <1>1, <1>2 DEF Planner, ListCases, Dispatch
<1>3. CASE Client
  <2>1. PICK j \in Jobs :
          \/ Redispatch(j) \/ Crash(j) \/ GiveUp(j)
          \/ \E r \in requests : Receive(j, r) \/ Misread(j, r)
    BY <1>3 DEF Client
  <2>2. UNCHANGED cases \/ \E status : Done(j, status)
    BY <2>1 DEF Redispatch, Crash, GiveUp, Receive, Misread, caseVars
  <2> QED BY <2>2, <1>1, DoneMoves
<1>4. CASE ResetPlanning
  BY <1>4, ResetMoves
<1>5. ASSUME NEW i \in DOMAIN events, Consume(i)
      PROVE  CasesMove
  <2>1. events[i].obligation \in Obligations
    <3>1. events[i] \in Announcements
      BY DEF ClientTyped
    <3> QED BY <3>1 DEF Announcements
  <2>2. \/ UNCHANGED cases \/ cases' = AfterCapture(events[i].obligation)
        \/ cases' = AfterFailure(events[i].obligation)
    <3>1. CASE events[i].type = "captured"
      BY <1>5, <3>1 DEF Consume
    <3>2. CASE events[i].type # "captured" /\ events[i].type = "failed"
      BY <1>5, <3>2 DEF Consume
    <3>3. CASE events[i].type # "captured" /\ events[i].type # "failed"
      BY <1>5, <3>3 DEF Consume
    <3> QED BY <3>1, <3>2, <3>3
  <2> QED BY <2>1, <2>2, <1>1, CaptureMoves, FailureMoves
<1>6. CASE \E o \in Obligations : FailElsewhere(o)
  BY <1>6, FailureMoves DEF FailElsewhere
<1>7. CASE Server \/ Restart \/ NextDay \/ UNCHANGED vars
  BY <1>1, <1>7 DEF Server, Replay, CreateLink, Charge, Call, Notify, Posted, Restart,
                    NextDay, caseVars, vars
<1> QED BY <1>2, <1>3, <1>4, <1>5, <1>6, <1>7 DEF Next

\* A cycle takes k, which was not alive, for a case on its list.
Taken(k) ==
  /\ ~Alive(k) /\ row'[k] # "dispatched"
  /\ <<k.obligation, worked'[k]>> \in listed \ listed'
  /\ worked'[k] \in DOMAIN cases[k.obligation]
  /\ \A j \in Jobs \ {k} : tool'[j] = tool[j] /\ row'[j] = row[j] /\ worked'[j] = worked[j]

\* What a step may do to a job: its executions are only counted up; it comes to
\* life by a second one, or is taken.
Lives(k) ==
  /\ tries'[k] >= tries[k]
  /\ \/ worked'[k] = worked[k] /\ (Alive(k)' => Alive(k) \/ tries'[k] >= 2)
     \/ Taken(k)

LEMMA StepsLive ==
  ASSUME ~Overlap, Typed, ClientTyped, OneLive, Begun, [Next]_vars
  PROVE  \A k \in Jobs : Lives(k)
<1> SUFFICES ASSUME NEW k \in Jobs
             PROVE  Lives(k)
  OBVIOUS
<1>1. tries[k] \in Nat
  BY DEF Typed
<1>2. CASE UNCHANGED <<clientVars, worked>>
  BY <1>1, <1>2 DEF clientVars, Lives, Alive
<1>3. CASE ListCases
  BY <1>2, <1>3 DEF ListCases
<1>4. ASSUME NEW j \in Jobs, NEW n \in DOMAIN cases[j.obligation], Dispatch(j, n)
      PROVE  Lives(k)
  <2>1. /\ tries' = [tries EXCEPT ![j] = @ + 1]
        /\ worked' = [worked EXCEPT ![j] = n]
        /\ row[j] = None /\ tool[j] = "idle" /\ row'[j] = "pending"
        /\ <<j.obligation, n>> \in listed /\ <<j.obligation, n>> \notin listed'
        /\ \A i \in Jobs \ {j} : tool'[i] = tool[i] /\ row'[i] = row[i] /\ worked'[i] = worked[i]
    BY <1>4 DEF Dispatch, Invoke, ClientTyped
  <2>2. CASE k = j
    <3>1. worked'[k] = n
      BY <2>1, <2>2 DEF ClientTyped
    <3>2. Taken(k)
      BY <2>1, <2>2, <3>1 DEF Taken, Alive, None
    <3> QED BY <3>2, <2>1, <1>1 DEF Lives, Typed
  <2>3. CASE k # j
    BY <1>1, <2>1, <2>3 DEF Lives, Alive, Typed
  <2> QED BY <2>2, <2>3
<1>5. CASE Client
  <2>1. PICK j \in Jobs :
          \/ Redispatch(j) \/ Crash(j) \/ GiveUp(j)
          \/ \E r \in requests : Receive(j, r) \/ Misread(j, r)
    BY <1>5 DEF Client
  <2>2. UNCHANGED worked
    BY <2>1 DEF Redispatch, Crash, GiveUp, Receive, Misread, Done, caseVars
  <2>3. CASE Redispatch(j)
    <3>1. /\ tries' = [tries EXCEPT ![j] = @ + 1] /\ row' = row
          /\ \A i \in Jobs \ {j} : tool'[i] = tool[i]
      BY <2>3 DEF Redispatch, Invoke, ClientTyped
    <3>2. tries[j] >= 1
      BY <2>3 DEF Redispatch, Begun, None
    <3> QED BY <1>1, <2>2, <3>1, <3>2 DEF Lives, Alive, Typed
  <2>4. CASE \/ Crash(j) \/ GiveUp(j) \/ \E r \in requests : Misread(j, r)
    <3>1. /\ tries' = tries /\ tool' = [tool EXCEPT ![j] = "idle"]
          /\ \A i \in Jobs : row'[i] = "dispatched" => row[i] = "dispatched"
      BY <2>4 DEF Crash, GiveUp, Misread, Done, ClientTyped, None
    <3> QED BY <1>1, <2>2, <3>1 DEF Lives, Alive, ClientTyped
  <2>5. ASSUME NEW r \in requests, Receive(j, r)
        PROVE  Lives(k)
    <3>1. tool[j] # "idle"
      BY <2>5 DEF Receive, Awaited, Typed, Requests, Paths
    <3>2. /\ tries' = tries
          /\ k # j => tool'[k] = tool[k] /\ row'[k] = row[k]
      BY <2>5 DEF Receive, Done, ClientTyped
    <3> QED BY <1>1, <2>2, <3>1, <3>2 DEF Lives, Alive
  <2> QED BY <2>1, <2>3, <2>4, <2>5
<1>6. CASE ResetPlanning
  BY <1>1, <1>6, ResetMoves DEF Lives, Alive, None
<1>7. CASE Server \/ Restart \/ NextDay \/ (\E i \in DOMAIN events : Consume(i))
           \/ (\E o \in Obligations : FailElsewhere(o)) \/ UNCHANGED vars
  BY <1>2, <1>7 DEF Server, Replay, CreateLink, Charge, Call, Notify, Posted, Restart,
                    NextDay, Consume, FailElsewhere, caseVars, vars
<1> QED BY <1>3, <1>4, <1>5, <1>6, <1>7 DEF Next, Planner

LEMMA OneAliveKept ==
  ASSUME ~Overlap, OneResourceAKey, OneAtWork, reset \subseteq reset', [Next]_vars
  PROVE  OneAlive'
<1> SUFFICES ASSUME NEW j \in Jobs, NEW k \in Jobs, BothAlive(j, k)'
             PROVE  FALSE
  BY DEF OneAlive
<1>0. /\ j # k /\ j.obligation = k.obligation /\ worked'[j] = worked'[k]
      /\ j.obligation \notin reset' /\ tries'[j] <= 1 /\ tries'[k] <= 1
      /\ Alive(j)' /\ Alive(k)'
  BY DEF BothAlive
<1>1. Lives(j) /\ Lives(k)
  BY StepsLive DEF OneAtWork, OneResourceAKey
<1>2. tries[j] \in Nat /\ tries[k] \in Nat /\ tries'[j] \in Nat /\ tries'[k] \in Nat
  BY StepKeeps DEF OneResourceAKey, Typed
<1>3. tries[j] <= 1 /\ tries[k] <= 1 /\ j.obligation \notin reset
  BY <1>1, <1>2, <1>0 DEF Lives
\* Whoever is taken finds the case on the list, and the other one alive.
<1>4. CASE Taken(k)
  <2>1. Alive(j) /\ worked[j] = worked'[k]
    BY <1>4, <1>0 DEF Taken, Alive
  <2> QED BY <1>3, <1>4, <1>0, <2>1 DEF Taken, OneAtWork, ListedUndone
<1>5. CASE Taken(j)
  <2>1. Alive(k) /\ worked[k] = worked'[j]
    BY <1>5, <1>0 DEF Taken, Alive
  <2> QED BY <1>3, <1>5, <1>0, <2>1 DEF Taken, OneAtWork, ListedUndone
<1>6. CASE ~Taken(j) /\ ~Taken(k)
  <2>1. Alive(j) /\ Alive(k) /\ worked[j] = worked[k]
    BY <1>1, <1>2, <1>6, <1>0 DEF Lives
  <2> QED BY <1>3, <1>0, <2>1 DEF OneAtWork, OneAlive, BothAlive
<1> QED BY <1>4, <1>5, <1>6

LEMMA ListedKept ==
  ASSUME ~Overlap, OneResourceAKey, OneAtWork, reset \subseteq reset', [Next]_vars
  PROVE  ListedUndone'
<1> SUFFICES ASSUME NEW j \in Jobs, j.obligation \notin reset', tries'[j] <= 1, Alive(j)',
                    <<j.obligation, worked'[j]>> \in listed'
             PROVE  FALSE
  BY DEF ListedUndone
<1>1. Lives(j)
  BY StepsLive DEF OneAtWork, OneResourceAKey
<1>2. tries[j] \in Nat /\ tries'[j] \in Nat
  BY StepKeeps DEF OneResourceAKey, Typed
<1>3. Alive(j) /\ worked'[j] = worked[j] /\ tries[j] <= 1 /\ j.obligation \notin reset
  BY <1>1, <1>2 DEF Lives, Taken
<1>4. <<j.obligation, worked[j]>> \notin listed
  BY <1>3 DEF OneAtWork, ListedUndone
<1>5. CASE ListCases
  <2>1. Idle /\ listed' = OpenCases
    BY <1>5 DEF ListCases
  <2>2. row[j] = "dispatched"
    BY <1>2, <1>3, <2>1 DEF Idle, Alive
  <2>3. ~InOpen(j)
    BY <1>3, <2>2 DEF OneAtWork, OpenIsUndone
  <2>4. <<j.obligation, worked[j]>> \notin OpenCases
    <3> SUFFICES ASSUME NEW o \in Obligations, NEW n \in DOMAIN cases[o],
                        cases[o][n] \in {"open"}, <<j.obligation, worked[j]>> = <<o, n>>
                 PROVE  FALSE
      BY DEF OpenCases, CasesIn
    <3> QED BY <2>3 DEF InOpen
  <2> QED BY <1>3, <2>1, <2>4
<1>6. CASE listed' \subseteq listed
  BY <1>3, <1>4, <1>6
<1>7. CASE Planner
  BY <1>5, <1>6, <1>7 DEF Planner, Dispatch
<1>8. CASE ~Planner
  <2>1. UNCHANGED listed
    BY <1>8 DEF Next, Client, Redispatch, Crash, GiveUp, Receive, Misread, Done, Server,
                Replay, CreateLink, Charge, Call, Notify, Posted, Restart, ResetPlanning,
                NextDay, Consume, FailElsewhere, caseVars, vars
  <2> QED BY <1>6, <2>1
<1> QED BY <1>7, <1>8

LEMMA UndoneKept ==
  ASSUME ~Overlap, Typed, ClientTyped, Numbered, OneLive, OpenIsUndone, Begun, [Next]_vars,
         reset \subseteq reset'
  PROVE  OpenIsUndone'
<1> SUFFICES ASSUME NEW j \in Jobs, j.obligation \notin reset', row'[j] = "dispatched",
                    InOpen(j)'
             PROVE  FALSE
  BY DEF OpenIsUndone
<1>1. j.obligation \in Obligations /\ j.obligation \notin reset
  BY VendorAssumption
<1>2. worked'[j] = worked[j]
  BY StepsLive DEF Lives, Taken
<1>3. worked[j] \in DOMAIN cases[j.obligation] /\ cases[j.obligation][worked[j]] = "open"
  <2>1. CasesMove
    BY CasesSteps
  <2>2. cases'[j.obligation] \in Seq(CaseStates)
    BY <1>1, <2>1 DEF CasesMove
  <2>3. worked[j] # 0
    BY <1>2, <2>2 DEF InOpen
  <2> QED BY <1>1, <1>2, <2>1, <2>3 DEF CasesMove, InOpen, Numbered
<1>4. row[j] # "dispatched"
  BY <1>1, <1>3 DEF OpenIsUndone, InOpen
\* The step is the one that is through: it leaves the case waiting, or there is
\* another live case beside one that is open.
<1>5. PICK r \in requests : Receive(j, r) /\ Done(j, "dispatched")
  <2>1. CASE Client
    <3>1. PICK k \in Jobs :
            \/ Redispatch(k) \/ Crash(k) \/ GiveUp(k)
            \/ \E r \in requests : Receive(k, r) \/ Misread(k, r)
      BY <2>1 DEF Client
    <3>2. ~(Redispatch(k) \/ Crash(k))
      BY <1>4 DEF Redispatch, Crash
    <3>3. ~(GiveUp(k) \/ \E r \in requests : Misread(k, r))
      BY <1>4 DEF GiveUp, Misread, Done, ClientTyped
    <3>4. PICK r \in requests : Receive(k, r)
      BY <3>1, <3>2, <3>3
    <3>5. r.path # "create" /\ Done(k, "dispatched")
      BY <1>4, <3>4 DEF Receive
    <3>6. k = j
      BY <1>4, <3>5 DEF Done, ClientTyped
    <3> QED BY <3>4, <3>5, <3>6
  <2>2. CASE UNCHANGED row
    BY <1>4, <2>2
  <2>3. CASE Planner
    BY <1>4, <2>2, <2>3 DEF Planner, ListCases, Dispatch, ClientTyped, clientVars
  <2>4. CASE ResetPlanning
    BY <2>4, ResetMoves DEF None
  <2>5. CASE Server \/ Restart \/ NextDay \/ (\E i \in DOMAIN events : Consume(i))
             \/ (\E o \in Obligations : FailElsewhere(o)) \/ UNCHANGED vars
    BY <2>2, <2>5 DEF Server, Replay, CreateLink, Charge, Call, Notify, Posted, Restart,
                      NextDay, Consume, FailElsewhere, clientVars, vars
  <2> QED BY <2>1, <2>3, <2>4, <2>5 DEF Next
<1>6. CASE OthersClosed(j.obligation, worked[j])
  <2>1. cases' = [cases EXCEPT ![j.obligation][worked[j]] = "awaiting"]
    BY <1>5, <1>6 DEF Done
  <2>2. cases'[j.obligation][worked[j]] = "awaiting"
    BY <1>1, <1>3, <2>1 DEF ClientTyped
  <2> QED BY <1>2, <2>2 DEF InOpen
<1>7. CASE ~OthersClosed(j.obligation, worked[j])
  BY <1>1, <1>3, <1>7 DEF OthersClosed, OneLive
<1> QED BY <1>6, <1>7

\* What a step does to the rows, the calls and the numbers.
LEMMA ClientSteps ==
  ASSUME ~Overlap, Typed, ClientTyped, Numbered, OneLive, Begun, [Next]_vars
  PROVE  /\ row' \in [Jobs -> Rows]
         /\ tool' \in [Jobs -> Paths \cup {"idle"}]
         /\ worked' \in [Jobs -> Nat] /\ Numbered' /\ Begun'
         /\ reset \subseteq reset'
         /\ \A j \in Jobs : Planned(j) => Planned(j)'
<1> USE DEF Rows
<1>1. \A j \in Jobs : j.obligation \in Obligations /\ FirstCall(j) \in Paths
  BY VendorAssumption DEF FirstCall, Paths
<1>2. \A j \in Jobs : tries[j] \in Nat
  BY DEF Typed
<1>3. \A o \in Obligations : DOMAIN cases[o] \subseteq DOMAIN cases'[o] /\ DOMAIN cases[o] \subseteq Nat
  BY CasesSteps DEF CasesMove, ClientTyped
<1>4. CASE UNCHANGED worked
  <2>1. worked' \in [Jobs -> Nat] /\ Numbered'
    BY <1>1, <1>3, <1>4 DEF ClientTyped, Numbered
  <2>2. CASE UNCHANGED <<row, tool, tries, reset>>
    BY <2>1, <2>2 DEF ClientTyped, Begun, Planned
  <2>3. CASE Client
    <3>1. PICK j \in Jobs :
            \/ Redispatch(j) \/ Crash(j) \/ GiveUp(j)
            \/ \E r \in requests : Receive(j, r) \/ Misread(j, r)
      BY <2>3 DEF Client
    <3>2. CASE Redispatch(j)
      BY <1>1, <1>2, <2>1, <3>2
      DEF Redispatch, Invoke, ClientTyped, Begun, Planned, Typed, None
    <3>3. CASE Crash(j) \/ GiveUp(j)
      BY <1>1, <1>2, <2>1, <3>3 DEF Crash, GiveUp, Done, ClientTyped, Begun, Planned, None
    <3>4. CASE \E r \in requests : Receive(j, r)
      <4>1. /\ row' = row \/ row' = [row EXCEPT ![j] = IF @ = None THEN None ELSE "dispatched"]
            /\ tool' = [tool EXCEPT ![j] = "notify"] \/ tool' = [tool EXCEPT ![j] = "idle"]
            /\ UNCHANGED <<tries, reset>>
        BY <3>4 DEF Receive, Done
      <4>2. tool' \in [Jobs -> Paths \cup {"idle"}]
        BY <4>1 DEF ClientTyped, Paths
      <4>3. /\ row' \in [Jobs -> Rows]
            /\ \A k \in Jobs : row'[k] = None <=> row[k] = None
        BY <4>1 DEF ClientTyped, None
      <4> QED BY <2>1, <4>1, <4>2, <4>3 DEF Begun, Planned
    <3>5. CASE \E r \in requests : Misread(j, r)
      BY <1>1, <1>2, <2>1, <3>5 DEF Misread, Done, ClientTyped, Begun, Planned, None
    <3> QED BY <3>1, <3>2, <3>3, <3>4, <3>5
  <2>4. CASE ResetPlanning
    <3>1. reset \subseteq reset'
      BY <2>4 DEF ResetPlanning
    <3> QED BY <2>1, <2>4, <3>1, ResetMoves DEF ClientTyped, Begun, Planned, None
  <2>5. CASE ListCases
    BY <2>2, <2>5 DEF ListCases, clientVars
  <2>6. CASE Server \/ Restart \/ NextDay \/ (\E i \in DOMAIN events : Consume(i))
             \/ (\E o \in Obligations : FailElsewhere(o)) \/ UNCHANGED vars
    BY <2>2, <2>6 DEF Server, Replay, CreateLink, Charge, Call, Notify, Posted, Restart,
                      NextDay, Consume, FailElsewhere, clientVars, vars
  <2>7. CASE \E j \in Jobs : \E n \in DOMAIN cases[j.obligation] : Dispatch(j, n)
    BY <1>1, <1>2, <2>1, <2>7
    DEF Dispatch, Invoke, ClientTyped, Begun, Planned, Typed, None
  <2> QED BY <2>3, <2>4, <2>5, <2>6, <2>7 DEF Next, Planner
<1>5. ASSUME NEW j \in Jobs, NEW n \in DOMAIN cases[j.obligation], Dispatch(j, n)
      PROVE  /\ row' \in [Jobs -> Rows]
             /\ tool' \in [Jobs -> Paths \cup {"idle"}]
             /\ worked' \in [Jobs -> Nat] /\ Numbered' /\ Begun'
             /\ reset \subseteq reset'
             /\ \A k \in Jobs : Planned(k) => Planned(k)'
  <2>1. worked' = [worked EXCEPT ![j] = n] /\ n \in Nat
    BY <1>1, <1>3, <1>5 DEF Dispatch
  <2>2. worked' \in [Jobs -> Nat] /\ Numbered'
    BY <1>1, <1>3, <2>1 DEF ClientTyped, Numbered
  <2> QED BY <1>1, <1>2, <1>5, <2>2
          DEF Dispatch, Invoke, ClientTyped, Begun, Planned, Typed, None
<1>6. UNCHANGED worked
      \/ \E j \in Jobs : \E n \in DOMAIN cases[j.obligation] : Dispatch(j, n)
  BY DEF Next, Planner, ListCases, Client, Redispatch, Crash, GiveUp, Receive, Misread, Done,
         Server, Replay, CreateLink, Charge, Call, Notify, Posted, Restart, ResetPlanning,
         NextDay, Consume, FailElsewhere, caseVars, vars
<1> QED BY <1>4, <1>5, <1>6

\* A request is of a job that had one, or of one that is planned.
LEMMA RequestsSteps ==
  ASSUME Typed, ClientTyped, [Next]_vars
  PROVE  \A q \in requests' :
           (\E r \in requests : q.job = r.job) \/ (q.job \in Jobs /\ row'[q.job] # None)
<1> SUFFICES ASSUME NEW q \in requests'
             PROVE  \/ \E r \in requests : q.job = r.job
                    \/ q.job \in Jobs /\ row'[q.job] # None
  OBVIOUS
<1>1. CASE requests' \subseteq requests
  BY <1>1
<1>2. ASSUME NEW r \in requests, NEW stage, NEW place, requests' = At(r, stage, place)
      PROVE  \E p \in requests : q.job = p.job
  BY <1>2 DEF At, Typed, Requests
<1>3. ASSUME NEW j \in Jobs, q \notin requests, (\E n : Dispatch(j, n)) \/ Redispatch(j)
      PROVE  q.job = j /\ row'[j] # None
  <2>1. q = Request(j, tries[j] + 1, FirstCall(j), 0)
    <3>1. Invoke(j)
      BY <1>3 DEF Dispatch, Redispatch
    <3> QED BY <1>3, <3>1 DEF Invoke
  <2>3. q.job = j
    BY <2>1 DEF Request
  <2>2. row'[j] # None
    BY <1>3 DEF Dispatch, Redispatch, ClientTyped, None
  <2> QED BY <2>2, <2>3
<1>6. CASE Planner \/ Client
  <2>1. ASSUME NEW j \in Jobs, Crash(j) \/ GiveUp(j) \/ \E r \in requests : Misread(j, r)
        PROVE  q \in requests
    BY <2>1 DEF Crash, GiveUp, Misread, HangUp
  <2>2. ASSUME NEW j \in Jobs, NEW r \in requests, Receive(j, r)
        PROVE  \E p \in requests : q.job = p.job
    BY <2>2 DEF Receive, Awaited, Request
  <2>3. ListCases => q \in requests
    BY DEF ListCases
  <2> QED BY <1>3, <1>6, <2>1, <2>2, <2>3 DEF Planner, Client
<1>4. CASE Server
  <2>1. PICK r \in requests :
          Replay(r) \/ CreateLink(r) \/ Charge(r) \/ Call(r) \/ Notify(r) \/ Posted(r)
    BY <1>4 DEF Server
  <2>2. \E stage, place : requests' = At(r, stage, place)
    BY <2>1 DEF Replay, CreateLink, Charge, Call, Notify, Posted, Announce, Emit, Answered
  <2> QED BY <1>2, <2>2
<1>5. CASE Restart \/ ResetPlanning \/ NextDay \/ (\E i \in DOMAIN events : Consume(i))
           \/ (\E o \in Obligations : FailElsewhere(o)) \/ UNCHANGED vars
  BY <1>1, <1>5 DEF Restart, ResetPlanning, NextDay, Consume, FailElsewhere, vars
<1> QED BY <1>4, <1>5, <1>6 DEF Next

\* An event is one there was, or is of a request.
LEMMA EventsSteps ==
  ASSUME Typed, ClientTyped, [Next]_vars
  PROVE  /\ events' \in Seq(Announcements)
         /\ \A i \in DOMAIN events' :
              \/ i \in DOMAIN events /\ events'[i].job = events[i].job
              \/ \E r \in requests : events'[i].job = r.job
<1>1. CASE UNCHANGED events
  BY <1>1 DEF ClientTyped
<1>2. ASSUME NEW r \in requests, NEW type \in DebitOutcomes \cup ContactOutcomes,
             Emit(r, type)
      PROVE  /\ events' \in Seq(Announcements)
             /\ \A i \in DOMAIN events' :
                  \/ i \in DOMAIN events /\ events'[i].job = events[i].job
                  \/ events'[i].job = r.job
  <2> DEFINE new == [obligation |-> r.job.obligation, type |-> type,
                     job |-> r.job, try |-> r.try, sent |-> FALSE]
  <2>1. new \in Announcements
    BY VendorAssumption DEF Typed, Requests, Announcements
  <2>2. events' = Append(events, new)
    BY <1>2 DEF Emit
  <2> HIDE DEF new
  <2>3. /\ events' \in Seq(Announcements)
        /\ \A i \in DOMAIN events' :
             \/ i \in DOMAIN events /\ events'[i] = events[i]
             \/ events'[i] = new
    BY <2>1, <2>2 DEF ClientTyped
  <2> QED BY <2>3 DEF new
<1>3. ASSUME NEW r \in requests, Posted(r)
      PROVE  /\ events' \in Seq(Announcements)
             /\ \A i \in DOMAIN events' :
                  i \in DOMAIN events /\ events'[i].job = events[i].job
  <2>1. PICK i \in DOMAIN events, delivered \in BOOLEAN :
          events' = [events EXCEPT ![i].sent = delivered]
    BY <1>3 DEF Posted
  <2>2. /\ DOMAIN events = 1 .. Len(events) /\ Len(events) \in Nat
        /\ \A k \in DOMAIN events : events[k] \in Announcements
    BY DEF ClientTyped
  <2>3. /\ DOMAIN events' = DOMAIN events
        /\ \A k \in DOMAIN events :
             /\ events'[k].job = events[k].job
             /\ events'[k] \in Announcements
    BY <2>1, <2>2 DEF Announcements
  <2>4. events' = [k \in 1 .. Len(events) |-> events'[k]]
    BY <2>1, <2>2
  <2>5. events' \in Seq(Announcements)
    BY <2>2, <2>3, <2>4, IsASeq
  <2> QED BY <2>3, <2>5
<1>4. ASSUME NEW r \in requests, Charge(r) \/ Call(r) \/ Notify(r)
      PROVE  \/ UNCHANGED events
             \/ \E type \in DebitOutcomes \cup ContactOutcomes : Emit(r, type)
  BY <1>4 DEF Charge, Call, Notify, Announce
<1>5. CASE Server
  BY <1>1, <1>2, <1>3, <1>4, <1>5 DEF Server, Replay, CreateLink
<1>6. CASE Planner \/ Client \/ Restart \/ ResetPlanning \/ NextDay
           \/ (\E i \in DOMAIN events : Consume(i))
           \/ (\E o \in Obligations : FailElsewhere(o)) \/ UNCHANGED vars
  BY <1>1, <1>6 DEF Planner, ListCases, Client, Dispatch, Redispatch, Crash, GiveUp, Receive,
                    Misread, Restart, ResetPlanning, NextDay, Consume, FailElsewhere, vars
<1> QED BY <1>5, <1>6 DEF Next

LEMMA OneAtWorkKept ==
  ASSUME ~Overlap, OneResourceAKey, OneAtWork, [Next]_vars
  PROVE  OneAtWork'
<1>1. /\ Typed /\ ClientTyped /\ Numbered /\ OneLive /\ OpenIsUndone /\ Begun
      /\ AllPlanned
  BY DEF OneResourceAKey, OneAtWork
<1>2. ClientTyped' /\ Numbered' /\ OneLive' /\ Begun' /\ reset \subseteq reset'
  BY <1>1, ClientSteps, CasesSteps, EventsSteps DEF ClientTyped, CasesMove
<1>9. OpenIsUndone' /\ ListedUndone'
  BY <1>1, <1>2, UndoneKept, ListedKept
<1>3. \A j \in Jobs : Planned(j) => Planned(j)'
  BY <1>1, ClientSteps
<1>4. \A r \in requests : Planned(r.job)'
  BY <1>1, <1>3 DEF AllPlanned, Typed, Requests
<1>5. \A q \in requests' : Planned(q.job)'
  <2> SUFFICES ASSUME NEW q \in requests'
               PROVE  Planned(q.job)'
    OBVIOUS
  <2>1. CASE \E r \in requests : q.job = r.job
    BY <1>4, <2>1
  <2>2. CASE row'[q.job] # None
    BY <2>2 DEF Planned
  <2> QED BY <1>1, <2>1, <2>2, RequestsSteps
<1>6. ASSUME NEW i \in DOMAIN events', NEW j, j = events'[i].job
      PROVE  Planned(j)'
  <2>1. CASE i \in DOMAIN events /\ j = events[i].job
    <3>1. j \in Jobs
      <4>1. \A k \in DOMAIN events : events[k] \in Announcements
        BY <1>1 DEF ClientTyped
      <4> QED BY <2>1, <4>1 DEF Announcements
    <3>2. Planned(j)
      BY <1>1, <2>1 DEF AllPlanned
    <3> QED BY <1>3, <3>1, <3>2
  <2>2. CASE \E r \in requests : j = r.job
    BY <1>4, <2>2
  <2> QED BY <1>1, <1>6, <2>1, <2>2, EventsSteps
<1>7. AllPlanned'
  BY <1>5, <1>6 DEF AllPlanned, Planned
<1>8. OneAlive'
  BY <1>2, OneAliveKept
<1> QED BY <1>2, <1>7, <1>8, <1>9 DEF OneAtWork

LEMMA OneAtWorkInitially == Init => OneAtWork
<1> SUFFICES ASSUME Init
             PROVE  OneAtWork
  OBVIOUS
<1>1. <<"open">> \in Seq(CaseStates) /\ DOMAIN <<"open">> = {1}
  BY DEF CaseStates
<1>2. ClientTyped
  BY <1>1 DEF Init, ClientTyped, Rows, Paths, None
<1>3. Numbered /\ OneLive
  BY <1>1 DEF Init, Numbered, OneLive
<1>4. \A j \in Jobs : row[j] = None /\ tool[j] = "idle" /\ ~Alive(j)
  BY DEF Init, Alive, None
<1>5. OpenIsUndone /\ ListedUndone /\ OneAlive /\ Begun
  <2>1. \A j \in Jobs : row[j] # "dispatched"
    BY <1>4 DEF None
  <2>2. OneAlive
    BY <1>4 DEF OneAlive, BothAlive
  <2>3. ListedUndone
    BY <1>4 DEF ListedUndone
  <2> QED BY <1>4, <2>1, <2>2, <2>3 DEF OpenIsUndone, Begun
<1>6. AllPlanned
  BY DEF Init, AllPlanned
<1> QED BY <1>2, <1>3, <1>5, <1>6 DEF OneAtWork

\* Two jobs of one case that were paid, both heard of at their first execution, would
\* both be alive.
LEMMA TwoInDoubt == OneResourceAKey /\ OneAtWork => TwiceOnlyInDoubt
<1> SUFFICES ASSUME OneResourceAKey, OneAtWork, NEW o \in Obligations \ reset, NEW n, NEW paying,
                    paying = {j \in Captures(o) : worked[j] = n}, ~InDoubt(paying)
             PROVE  ~(Cardinality(paying) > 1)
  BY DEF TwiceOnlyInDoubt
<1>1. \A j \in paying :
        j \in Jobs /\ j.obligation = o /\ worked[j] = n /\ Planned(j)
  BY DEF Captures, OneAtWork, AllPlanned
<1>2. ASSUME NEW j \in paying
      PROVE  tries[j] <= 1 /\ Alive(j)
  <2>1. /\ row[j] \notin {"failed", "rejected", "pending"} /\ ~(tries[j] > 1)
    BY DEF InDoubt
  <2>2. row[j] # None /\ row[j] \in Rows /\ tries[j] \in Nat
    BY <1>1 DEF Planned, OneAtWork, ClientTyped, OneResourceAKey, Typed
  <2> QED BY <2>1, <2>2 DEF Rows, Alive
<1>3. \A j, k \in paying : j = k
  BY <1>1, <1>2 DEF OneAtWork, OneAlive, BothAlive
<1>4. CASE paying = {}
  BY <1>4, FS_EmptySet
<1>5. CASE paying # {}
  <2>1. PICK j \in paying : paying = {j}
    BY <1>3, <1>5
  <2> QED BY <2>1, FS_Singleton
<1> QED BY <1>4, <1>5

\* With one planning cycle at a time, what one case did is paid twice only where the
\* control plane does not know what happened (adapters.py:33-40), or an operator
\* discarded its planning: for any jobs, cases, executions, crashes and timeouts.
THEOREM PaidTwiceOnlyInDoubt ==
  ASSUME ~Overlap
  PROVE  Spec => []TwiceOnlyInDoubt
<1>1. Init => OneResourceAKey /\ OneAtWork
  BY Initially, OneAtWorkInitially
<1>2. (OneResourceAKey /\ OneAtWork) /\ [Next]_vars => (OneResourceAKey /\ OneAtWork)'
  BY StepKeeps, OneAtWorkKept
<1>3. OneResourceAKey /\ OneAtWork => TwiceOnlyInDoubt
  BY TwoInDoubt
<1> QED BY <1>1, <1>2, <1>3, PTL DEF Spec
=============================================================================
