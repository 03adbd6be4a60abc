-------------------------------- MODULE Vendor --------------------------------
(***************************************************************************)
(* The payments vendor and everything between it and a case: the tools and *)
(* HTTP adapters that call it (dispatch/tools.py, dispatch/adapters.py),   *)
(* the sandbox that stands in for it (sandbox/yukti_sandbox), its webhooks *)
(* and what comes of them.  The sandbox is one asyncio process: a handler  *)
(* is atomic up to the POST of its webhook.  Its world is a choice.        *)
(***************************************************************************)
EXTENDS Integers, FiniteSets, Sequences

CONSTANTS
  Jobs,         \* fingerprints: records kind, obligation, day
  Obligations,
  Overlap,      \* planning cycles overlap: a second planner, or a command by hand
  MaxDay, MaxTries,   \* bounds: days, executions of a job
  MaxFaults           \* bound: crashes, timeouts, misread answers, lost webhooks,
                      \* restarts, resets, failures from elsewhere

ASSUME VendorAssumption ==
  /\ \A j \in Jobs : j.kind \in {"retry", "message", "voice"} /\ j.obligation \in Obligations
  /\ Overlap \in BOOLEAN
  /\ MaxDay \in Nat /\ MaxTries \in Nat /\ MaxFaults \in Nat

VARIABLES
  day,
  cases,       \* cases[o]: the obligation's cases as they were opened, each
               \* "open", "awaiting" or "recovered"
  listed,      \* cases <<o, n>> a planning cycle has loaded and not yet reached
  worked,      \* worked[j]: the number of the case j was dispatched for
  row,         \* row[j]: recovery_action.status, or "none"
  tool,        \* tool[j]: the HTTP call its process waits for, or "idle"
  tries,       \* tries[j]: executions begun
  requests,    \* HTTP requests: [job, try, path, stage, place]
  resources,   \* SandboxStore.links, attempts and calls, in order of creation
  idempotency, \* keys the store remembers, with the resource's place
  events,      \* webhooks recorded: [obligation, type, job, try, sent]
  consumed,    \* places of events the opportunity consumer applied
  faults,
  forgotten,   \* resources the store had when it last started
  reset        \* obligations whose planning an operator discarded

clientVars == <<row, tool, tries>>
storeVars == <<resources, idempotency, forgotten>>
caseVars == <<cases, listed, worked>>
vars == <<day, caseVars, clientVars, requests, storeVars, events, consumed, faults, reset>>

None == "none"

Init ==
  /\ day = 0
  /\ cases = [o \in Obligations |-> <<"open">>]
  /\ listed = {}
  /\ worked = [j \in Jobs |-> 0]
  /\ row = [j \in Jobs |-> None]
  /\ tool = [j \in Jobs |-> "idle"]
  /\ tries = [j \in Jobs |-> 0]
  /\ requests = {}
  /\ resources = <<>>
  /\ idempotency = [j \in {} |-> 0]
  /\ events = <<>>
  /\ consumed = {}
  /\ faults = 0
  /\ forgotten = 0 /\ reset = {}

-----------------------------------------------------------------------------
(* The control plane *)

Fault == faults < MaxFaults /\ faults' = faults + 1

FirstCall(j) ==
  CASE j.kind = "retry" -> "charge" [] j.kind = "voice" -> "call" [] OTHER -> "create"

Request(j, try, path, place) ==
  [job |-> j, try |-> try, path |-> path, stage |-> "sent", place |-> place]

\* invoke, and the adapter's POST.
Invoke(j) ==
  /\ tries[j] < MaxTries
  /\ tries' = [tries EXCEPT ![j] = @ + 1]
  /\ tool' = [tool EXCEPT ![j] = FirstCall(j)]
  /\ requests' = requests \cup {Request(j, tries[j] + 1, FirstCall(j), 0)}

Awaited(j, r) == r.job = j /\ r.try = tries[j] /\ r.path = tool[j]

\* A cycle works its cases one by one; a second execution is the sweeper's.
Idle == \A j \in Jobs : tool[j] = "idle" \/ tries[j] > 1

CasesIn(states) ==
  UNION {{<<o, n>> : n \in {m \in DOMAIN cases[o] : cases[o][m] \in states}} : o \in Obligations}

\* Mutant: a case that waits for an outcome is listed too.
LiveCases == CasesIn({"open", "awaiting"})

\* OPEN_CASE_SQL
OpenCases == CasesIn({"open"})

\* A planning cycle begins: the cases are read once.
ListCases ==
  /\ Overlap \/ Idle
  /\ listed' = IF Overlap THEN listed \cup OpenCases ELSE OpenCases
  /\ UNCHANGED <<reset, day, cases, worked, clientVars, requests, storeVars, events,
                 consumed, faults>>

\* It reaches a case, whatever has become of it, with today's fingerprint.
Dispatch(j, n) ==
  /\ j.day = day /\ row[j] = None /\ tool[j] = "idle"
  /\ <<j.obligation, n>> \in listed /\ (Overlap \/ Idle)
  /\ listed' = IF Overlap THEN listed ELSE listed \ {<<j.obligation, n>>}
  /\ row' = [row EXCEPT ![j] = "pending"]
  /\ worked' = [worked EXCEPT ![j] = n]
  /\ Invoke(j)
  /\ UNCHANGED <<reset, day, cases, storeVars, events, consumed, faults>>

\* "Retrying one is safe precisely because the idempotency key is already claimed
\* and the vendor holds it too" (dispatcher.py:289-291): the sweeper it is for.
Redispatch(j) ==
  /\ row[j] = "pending" /\ tool[j] = "idle"
  /\ Invoke(j)
  /\ UNCHANGED <<reset, day, caseVars, row, storeVars, events, consumed, faults>>

\* A handler at work goes on; what it would answer is read by nobody.
HangUp(j) ==
  requests' = {r \in requests : ~Awaited(j, r) \/ r.stage \in {"sent", "emitting"}}

\* The process dies between the intent and the outcome.
Crash(j) ==
  /\ tool[j] # "idle" /\ Fault
  /\ tool' = [tool EXCEPT ![j] = "idle"]
  /\ HangUp(j)
  /\ UNCHANGED <<reset, day, caseVars, row, tries, storeVars, events, consumed>>

Closed(o) == \A n \in DOMAIN cases[o] : cases[o][n] = "recovered"
OthersClosed(o, n) == \A m \in DOMAIN cases[o] : m = n \/ cases[o][m] = "recovered"

\* _mark finds nothing to mark when the row has been deleted.  The case waits for
\* its outcome, even one that was closed in the meantime, unless the unique index
\* refuses because another case of the obligation is live.
Done(j, status) ==
  /\ row' = [row EXCEPT ![j] = IF @ = None THEN None ELSE status]
  /\ tool' = [tool EXCEPT ![j] = "idle"]
  /\ cases' = IF status = "dispatched" /\ OthersClosed(j.obligation, worked[j])
              THEN [cases EXCEPT ![j.obligation][worked[j]] = "awaiting"]
              ELSE cases
  /\ UNCHANGED <<listed, worked>>

\* Mutant: the message is sent once its link exists.
ReceiveCreated(j, r) ==
  /\ Awaited(j, r) /\ r.stage = "answered"
  /\ Done(j, "dispatched")
  /\ requests' = requests \ {r}
  /\ UNCHANGED <<reset, day, tries, storeVars, events, consumed, faults>>

\* An answer.  message: create, then notify.
Receive(j, r) ==
  /\ Awaited(j, r) /\ r.stage = "answered"
  /\ IF r.path = "create"
     THEN /\ tool' = [tool EXCEPT ![j] = "notify"]
          /\ requests' = (requests \ {r}) \cup {Request(j, r.try, "notify", r.place)}
          /\ UNCHANGED <<row, caseVars>>
     ELSE Done(j, "dispatched") /\ requests' = requests \ {r}
  /\ UNCHANGED <<reset, day, tries, storeVars, events, consumed, faults>>

\* An answer that cannot be read: resp.json() or body["id"] raises ValueError or
\* KeyError, which the dispatcher takes for a malformed action.  (So does what a
\* tool refuses before it sends, of which the vendor hears nothing.)
Misread(j, r) ==
  /\ Awaited(j, r) /\ r.stage = "answered"
  /\ Fault
  /\ Done(j, "rejected")
  /\ requests' = requests \ {r}
  /\ UNCHANGED <<reset, day, tries, storeVars, events, consumed>>

\* httpx.HTTPError, a timeout among them, or a status of 400 and above, raised as
\* AdapterError: the dispatcher marks the row failed.
GiveUp(j) ==
  /\ tool[j] # "idle"
  /\ IF \E r \in requests : Awaited(j, r) /\ r.stage # "refused"
     THEN Fault ELSE UNCHANGED faults
  /\ Done(j, "failed")
  /\ HangUp(j)
  /\ UNCHANGED <<reset, day, tries, storeVars, events, consumed>>

\* reset_planning: the cases a planner decided on are opened again, and what it
\* recorded of them is deleted, unless that gave an obligation two live cases.  "A
\* case with a recovery_outcome row is finished history", but nothing that runs here
\* writes one: a capture closes the case.
ResetPlanning ==
  LET planned == {<<j.obligation, worked[j]>> : j \in {k \in Jobs : row[k] # None}}
  IN /\ planned # {} /\ Fault
     /\ row' = [j \in Jobs |-> None]
     /\ cases' = [o \in Obligations |-> [n \in DOMAIN cases[o] |->
                     IF <<o, n>> \in planned THEN "open" ELSE cases[o][n]]]
     /\ \A o \in Obligations : \A m, n \in DOMAIN cases[o] :
          cases'[o][m] # "recovered" /\ cases'[o][n] # "recovered" => m = n
     /\ reset' = reset \cup {c[1] : c \in planned}
     /\ UNCHANGED <<day, listed, worked, tool, tries, requests, storeVars, events, consumed>>

NextDay ==
  /\ day < MaxDay /\ \A j \in Jobs : tool[j] = "idle"
  /\ day' = day + 1
  /\ UNCHANGED <<reset, caseVars, clientVars, requests, storeVars, events, consumed, faults>>

-----------------------------------------------------------------------------
(* The sandbox *)

\* Nobody reads an answer that comes too late.
At(r, stage, place) ==
  (requests \ {r}) \cup IF stage = "emitting" \/ Awaited(r.job, r)
                       THEN {[r EXCEPT !.stage = stage, !.place = place]} ELSE {}
Answered(r) == At(r, "answered", r.place)

\* emit, up to the POST: the event is signed and recorded first.
Emit(r, type) ==
  /\ events' = Append(events, [obligation |-> r.job.obligation, type |-> type,
                               job |-> r.job, try |-> r.try, sent |-> FALSE])
  /\ requests' = At(r, "emitting", r.place)

\* An outcome that changes nothing is not announced.
Announce(r, outcome) ==
  IF outcome = "nothing" THEN requests' = Answered(r) /\ UNCHANGED events
  ELSE Emit(r, outcome)

Place == Len(resources) + 1

\* Mutant: the key is not remembered.
PutForgetful(j, status) ==
  /\ resources' = Append(resources, [job |-> j, status |-> status])
  /\ UNCHANGED <<idempotency, forgotten>>

\* put_link, put_attempt, put_call.
Put(j, status) ==
  /\ resources' = Append(resources, [job |-> j, status |-> status])
  /\ idempotency' = [k \in DOMAIN idempotency \cup {j} |->
                        IF k = j THEN Place ELSE idempotency[k]]
  /\ UNCHANGED forgotten

\* world.resolve and simulate_outcome: what the customer does is the world's choice.
DebitOutcomes == {"captured", "failed"}
ContactOutcomes == {"nothing", "captured", "opted_out"}

Replays(r) == r.job \in DOMAIN idempotency

Pending(r, path) == r \in requests /\ r.stage = "sent" /\ r.path = path

\* Every handler first asks whether it has seen the key: the original resource
\* is the answer.
Replay(r) ==
  /\ \E path \in {"create", "charge", "call"} : Pending(r, path)
  /\ Replays(r)
  /\ requests' = At(r, "answered", idempotency[r.job])
  /\ UNCHANGED <<reset, day, caseVars, clientVars, storeVars, events, consumed, faults>>

\* create_payment_link
CreateLink(r) ==
  /\ Pending(r, "create") /\ ~Replays(r)
  /\ Put(r.job, "created")
  /\ requests' = At(r, "answered", Place)
  /\ UNCHANGED <<reset, day, caseVars, clientVars, events, consumed, faults>>

\* charge: the attempt is stored with its outcome, then announced.
Charge(r) ==
  /\ Pending(r, "charge") /\ ~Replays(r)
  /\ \E status \in DebitOutcomes :
       Put(r.job, status) /\ Emit(r, status)
  /\ UNCHANGED <<reset, day, caseVars, clientVars, consumed, faults>>

\* voice_call
Call(r) ==
  /\ Pending(r, "call") /\ ~Replays(r)
  /\ Put(r.job, "completed")
  /\ \E outcome \in ContactOutcomes : Announce(r, outcome)
  /\ UNCHANGED <<reset, day, caseVars, clientVars, consumed, faults>>

\* notify_by on the link the tool was given.  A medium already notified is a
\* no-op; sending is what decides the outcome, and its announcement.  A link the
\* sandbox has forgotten is a 404.
Notify(r) ==
  /\ Pending(r, "notify")
  /\ \/ /\ r.place <= forgotten
        /\ requests' = At(r, "refused", r.place) /\ UNCHANGED <<resources, events>>
     \/ /\ r.place > forgotten /\ resources[r.place].status # "created"
        /\ requests' = Answered(r) /\ UNCHANGED <<resources, events>>
     \/ /\ r.place > forgotten /\ resources[r.place].status = "created"
        /\ \E outcome \in ContactOutcomes :
             /\ resources' = [resources EXCEPT ![r.place].status = outcome]
             /\ Announce(r, outcome)
  /\ UNCHANGED <<reset, day, caseVars, clientVars, idempotency, forgotten, consumed, faults>>

\* The POST ends, and the handler with it.  A sink that is down loses the event:
\* nothing sends it again.
Posted(r) ==
  /\ r \in requests /\ r.stage = "emitting"
  /\ \E i \in DOMAIN events :
       /\ events[i].job = r.job /\ events[i].try = r.try /\ ~events[i].sent
       /\ \E delivered \in BOOLEAN :
            /\ events' = [events EXCEPT ![i].sent = delivered]
            /\ IF delivered THEN UNCHANGED faults ELSE Fault
  /\ requests' = Answered(r)
  /\ UNCHANGED <<reset, day, caseVars, clientVars, storeVars, consumed>>

\* The store is memory: a restart forgets it, and drops every request.
Restart ==
  /\ Fault
  /\ requests' = {} /\ idempotency' = [j \in {} |-> 0]
  /\ forgotten' = Len(resources)
  /\ UNCHANGED <<reset, day, caseVars, clientVars, resources, events, consumed>>

-----------------------------------------------------------------------------
(* The edge and the opportunity consumer, which have modules of their own *)

\* A failure opens a case when the obligation has no live one, whatever became of
\* those before it.
AfterFailure(o) ==
  IF Closed(o) THEN [cases EXCEPT ![o] = Append(@, "open")] ELSE cases

\* A capture closes the live case.
AfterCapture(o) ==
  [cases EXCEPT ![o] = [n \in DOMAIN @ |-> "recovered"]]

\* payment.captured and payment.failed; an opt-out closes nothing.
Consume(i) ==
  /\ i \in DOMAIN events \ consumed /\ events[i].sent
  /\ consumed' = consumed \cup {i}
  /\ cases' = CASE events[i].type = "captured" -> AfterCapture(events[i].obligation)
                [] events[i].type = "failed"   -> AfterFailure(events[i].obligation)
                [] OTHER -> cases
  /\ UNCHANGED <<reset, day, listed, worked, clientVars, requests, storeVars, events, faults>>

\* A payment.failed that none of these jobs caused.
FailElsewhere(o) ==
  /\ Closed(o) /\ Fault
  /\ cases' = AfterFailure(o)
  /\ UNCHANGED <<reset, day, listed, worked, clientVars, requests, storeVars, events,
                 consumed>>

Planner == ListCases \/ \E j \in Jobs : \E n \in DOMAIN cases[j.obligation] : Dispatch(j, n)
Client == \E j \in Jobs :
  \/ Redispatch(j) \/ Crash(j) \/ GiveUp(j)
  \/ \E r \in requests : Receive(j, r) \/ Misread(j, r)
Server == \E r \in requests :
  Replay(r) \/ CreateLink(r) \/ Charge(r) \/ Call(r) \/ Notify(r) \/ Posted(r)

Next ==
  \/ Planner \/ Client \/ Server \/ Restart \/ ResetPlanning \/ NextDay
  \/ \E i \in DOMAIN events : Consume(i)
  \/ \E o \in Obligations : FailElsewhere(o)

Spec == Init /\ [][Next]_vars

-----------------------------------------------------------------------------
(* Properties *)

\* What a customer notices of a job: a debit that was attempted, a call that was
\* made, a link that was sent.
Effects(j) == {i \in DOMAIN resources : resources[i].job = j /\ resources[i].status # "created"}

\* "Return the original resource rather than creating a second one"
\* (store.py:55-58), and "a repeated notify is a no-op" (app.py:248-250): however
\* often a job is executed, whoever crashes and whatever is still being answered,
\* its customer notices it once.
OnceAKey == forgotten = 0 => \A j \in Jobs : Cardinality(Effects(j)) <= 1

\* A row says "dispatched" only if the vendor did what the job is
\* (tools.py ToolOutcome.executed; a link that is created is not yet sent).
DispatchedWasDone == \A j \in Jobs : row[j] = "dispatched" => Effects(j) # {}

Captures(o) == {j \in Jobs : j.obligation = o /\ \E i \in DOMAIN events :
                  events[i].job = j /\ events[i].type = "captured"}

\* The control plane did not hear how an execution of one of them ended.
InDoubt(jobs) ==
  \E j \in jobs : row[j] \in {"failed", "rejected", "pending"} \/ tries[j] > 1

\* "An AdapterError means we do not know whether the action happened"
\* (adapters.py:33-40): with one planning cycle at a time, a customer who pays twice
\* for what one case did was charged by a job whose execution the control plane
\* heard nothing of, unless an operator discarded its planning.
TwiceOnlyInDoubt ==
  \A o \in Obligations \ reset : \A n \in DOMAIN cases[o] :
    LET paying == {j \in Captures(o) : worked[j] = n}
    IN Cardinality(paying) > 1 => InDoubt(paying)

\* The same for all the cases of an obligation.  A charge nobody waited for fails
\* after the capture, and what opens is a case that knows nothing of it.
ObligationTwiceOnlyInDoubt ==
  \A o \in Obligations \ reset :
    Cardinality(Captures(o)) > 1 => InDoubt(Captures(o))

\* "It must leave the intent recorded and let the idempotency key make a retry
\* safe" (adapters.py:37-40): no obligation is paid twice.
PaidOnce == \A o \in Obligations : Cardinality(Captures(o)) <= 1
=============================================================================
