-------------------------------- MODULE Edge --------------------------------
(***************************************************************************)
(* edge/cmd/ingest-gw: the webhook gateway.  Replicas share Redis; each    *)
(* handles requests concurrently and hands accepted webhooks to a Kafka    *)
(* client that sends them in the background.  The sender repeats a webhook *)
(* until it gets a 2xx, and may repeat it after that.                      *)
(***************************************************************************)
EXTENDS Naturals, FiniteSets, Functions

CONSTANTS
  Replicas,      \* gateway processes
  Webhooks,      \* webhooks the sender has to deliver, by event id
  Forged,        \* those that fail verification
  Faults,        \* what may go wrong, see FaultKinds
  MaxSends,      \* bound: deliveries of one webhook
  MaxFaults      \* bound: faults in one behaviour

FaultKinds ==
  {"crash", "stop", "abandon", "stale", "lost_reply", "redis_down", "redis_restart",
   "set_twice"}

ASSUME EdgeAssumption ==
  /\ IsFiniteSet(Replicas) /\ Forged \subseteq Webhooks
  /\ Faults \subseteq FaultKinds
  /\ MaxSends \in Nat /\ MaxFaults \in Nat

VARIABLES
  acked,      \* acked[e]: the sender has had a 2xx for e
  sends,      \* sends[e]: deliveries so far
  stale,      \* stale[e]: created_at is outside the replay window
  status,     \* status[r]: "up", "draining" or "down"
  step,       \* step[r][e]: where r is in handleWebhook for e
  redis,      \* ids with a key under yukti:edge:evt:
  buffer,     \* buffer[r][e]: copies of e in the client of r, not yet sent
  produced,   \* produced[e]: calls of Produce for e
  topic,      \* topic[e]: copies of e that Kafka has accepted
  faults      \* faults[kind]: faults of that kind so far

vars == <<acked, sends, stale, status, step, redis, buffer, produced, topic, faults>>

Steps == {"none", "verify", "dedup", "produce", "accepted", "duplicate", "rejected"}
Idle == [e \in Webhooks |-> "none"]
Empty == [e \in Webhooks |-> 0]

Init ==
  /\ acked = [e \in Webhooks |-> FALSE]
  /\ sends = [e \in Webhooks |-> 0]
  /\ stale = [e \in Webhooks |-> FALSE]
  /\ status = [r \in Replicas |-> "up"]
  /\ step = [r \in Replicas |-> Idle]
  /\ redis = {}
  /\ buffer = [r \in Replicas |-> Empty]
  /\ produced = [e \in Webhooks |-> 0]
  /\ topic = [e \in Webhooks |-> 0]
  /\ faults = [kind \in FaultKinds |-> 0]

AllOf(f) == FoldFunction(LAMBDA a, b : a + b, 0, f)
Fault(kind) ==
  /\ kind \in Faults /\ AllOf(faults) < MaxFaults
  /\ faults' = [faults EXCEPT ![kind] = @ + 1]
Happened(kinds) == \E kind \in kinds : faults[kind] > 0
Goto(r, e, s) == step' = [step EXCEPT ![r][e] = s]

-----------------------------------------------------------------------------
(* handleWebhook *)

\* The sender posts e, for the first time, as a retry or as a duplicate.
Send(r, e) ==
  /\ status[r] = "up" /\ step[r][e] = "none"
  /\ sends[e] < MaxSends
  /\ sends' = [sends EXCEPT ![e] = @ + 1]
  /\ Goto(r, e, "verify")
  /\ UNCHANGED <<acked, stale, status, redis, buffer, produced, topic, faults>>

\* Mutant: freshness is all that is asked before the key is claimed.
VerifyFreshness(r, e) ==
  /\ step[r][e] = "verify"
  /\ Goto(r, e, IF stale[e] THEN "rejected" ELSE "dedup")
  /\ UNCHANGED <<acked, sends, stale, status, redis, buffer, produced, topic, faults>>

\* Signature, shape, freshness and identifiers.
Verify(r, e) ==
  /\ step[r][e] = "verify"
  /\ Goto(r, e, IF e \in Forged \/ stale[e] THEN "rejected" ELSE "dedup")
  /\ UNCHANGED <<acked, sends, stale, status, redis, buffer, produced, topic, faults>>

\* Mutant: a GET, with the SET left to somebody else.
FirstSightGet(r, e) ==
  /\ step[r][e] = "dedup"
  /\ Goto(r, e, IF e \in redis THEN "duplicate" ELSE "produce")
  /\ UNCHANGED <<acked, sends, stale, status, redis, buffer, produced, topic, faults>>

\* Mutant: Redis being down is taken for a duplicate.
FirstSightFailClosed(r, e) ==
  /\ step[r][e] = "dedup"
  /\ \/ /\ Goto(r, e, IF e \in redis THEN "duplicate" ELSE "produce")
        /\ redis' = redis \cup {e}
        /\ UNCHANGED faults
     \/ Goto(r, e, "duplicate") /\ Fault("redis_down") /\ UNCHANGED redis
  /\ UNCHANGED <<acked, sends, stale, status, buffer, produced, topic>>

\* FailOpen over SET NX, which go-redis tries again when it has no answer.
\*   - Redis answers;
\*   - no try is answered, though one may have been applied: a first sight;
\*   - a try was applied and its reply lost, the next finds the key the first one
\*     left: "not seen first", and no error.
\* The key's seven days outlast the replay window and are not counted.
FirstSight(r, e) ==
  /\ step[r][e] = "dedup"
  /\ \/ /\ Goto(r, e, IF e \in redis THEN "duplicate" ELSE "produce")
        /\ redis' = redis \cup {e}
        /\ UNCHANGED faults
     \/ /\ Goto(r, e, "produce") /\ Fault("redis_down")
        /\ redis' \in {redis, redis \cup {e}}
     \/ /\ e \notin redis
        /\ Goto(r, e, "duplicate") /\ Fault("set_twice")
        /\ redis' = redis \cup {e}
  /\ UNCHANGED <<acked, sends, stale, status, buffer, produced, topic>>

\* Producer.Produce queues the record and returns nil, so the 503 branch is
\* never taken.
Produce(r, e) ==
  /\ step[r][e] = "produce"
  /\ buffer' = [buffer EXCEPT ![r][e] = @ + 1]
  /\ produced' = [produced EXCEPT ![e] = @ + 1]
  /\ Goto(r, e, "accepted")
  /\ UNCHANGED <<acked, sends, stale, status, redis, topic, faults>>

\* Mutant: a rejected webhook is acknowledged too, to quieten the sender.
ReplyAlwaysOk(r, e) ==
  /\ step[r][e] \in {"accepted", "duplicate", "rejected"}
  /\ Goto(r, e, "none")
  /\ acked' = [acked EXCEPT ![e] = TRUE]
  /\ UNCHANGED <<sends, stale, status, redis, buffer, produced, topic, faults>>

\* 200 for an accepted webhook and for a duplicate, 4xx otherwise.  The reply may
\* be lost on the way.
Reply(r, e) ==
  /\ step[r][e] \in {"accepted", "duplicate", "rejected"}
  /\ Goto(r, e, "none")
  /\ \/ /\ acked' = [acked EXCEPT ![e] = @ \/ step[r][e] # "rejected"]
        /\ UNCHANGED faults
     \/ Fault("lost_reply") /\ UNCHANGED acked
  /\ UNCHANGED <<sends, stale, status, redis, buffer, produced, topic>>

-----------------------------------------------------------------------------
(* The Kafka client and the process *)

\* In the background, a buffered record reaches Kafka.
Flush(r, e) ==
  /\ buffer[r][e] > 0
  /\ buffer' = [buffer EXCEPT ![r][e] = @ - 1]
  /\ topic' = [topic EXCEPT ![e] = @ + 1]
  /\ UNCHANGED <<acked, sends, stale, status, step, redis, produced, faults>>

\* The client gives a record up: the handler cancelled its context on return, or
\* the broker refused it.  Nobody is told, the callback is nil.
Abandon(r, e) ==
  /\ buffer[r][e] > 0 /\ step[r][e] # "accepted"
  /\ Fault("abandon")
  /\ buffer' = [buffer EXCEPT ![r][e] = @ - 1]
  /\ UNCHANGED <<acked, sends, stale, status, step, redis, produced, topic>>

\* The replay window of e passes.
GrowStale(e) ==
  /\ ~stale[e]
  /\ Fault("stale")
  /\ stale' = [stale EXCEPT ![e] = TRUE]
  /\ UNCHANGED <<acked, sends, status, step, redis, buffer, produced, topic>>

\* SIGTERM: no new requests, the ones in flight are finished.
Shutdown(r) ==
  /\ status[r] = "up"
  /\ Fault("stop")
  /\ status' = [status EXCEPT ![r] = "draining"]
  /\ UNCHANGED <<acked, sends, stale, step, redis, buffer, produced, topic>>

\* Shutdown returned (a request that outlasts its 20 s dies as in Crash); the
\* deferred Close drops what the client still holds.
Exit(r) ==
  /\ status[r] = "draining" /\ step[r] = Idle
  /\ status' = [status EXCEPT ![r] = "down"]
  /\ buffer' = [buffer EXCEPT ![r] = Empty]
  /\ UNCHANGED <<acked, sends, stale, step, redis, produced, topic, faults>>

Crash(r) ==
  /\ status[r] # "down"
  /\ Fault("crash")
  /\ status' = [status EXCEPT ![r] = "down"]
  /\ step' = [step EXCEPT ![r] = Idle]
  /\ buffer' = [buffer EXCEPT ![r] = Empty]
  /\ UNCHANGED <<acked, sends, stale, redis, produced, topic>>

\* The Deployment starts a new process in its place.
Start(r) ==
  /\ status[r] = "down"
  /\ status' = [status EXCEPT ![r] = "up"]
  /\ UNCHANGED <<acked, sends, stale, step, redis, buffer, produced, topic, faults>>

\* Redis restarts: it runs with neither snapshots nor an append-only file.
RedisRestart ==
  /\ Fault("redis_restart")
  /\ redis' = {}
  /\ UNCHANGED <<acked, sends, stale, status, step, buffer, produced, topic>>

Handle(r, e) ==
  Verify(r, e) \/ FirstSight(r, e) \/ Produce(r, e) \/ Reply(r, e)

Next ==
  \/ \E r \in Replicas, e \in Webhooks :
       Send(r, e) \/ Handle(r, e) \/ Flush(r, e) \/ Abandon(r, e)
  \/ \E r \in Replicas : Shutdown(r) \/ Exit(r) \/ Crash(r) \/ Start(r)
  \/ \E e \in Webhooks : GrowStale(e)
  \/ RedisRestart

Spec == Init /\ [][Next]_vars

\* A request is handled to its reply (every wait in it is bounded), the client
\* keeps sending, a stopping replica exits and is replaced.
FairSpec ==
  /\ Spec
  /\ \A r \in Replicas, e \in Webhooks : WF_vars(Handle(r, e)) /\ WF_vars(Flush(r, e))
  /\ \A r \in Replicas : WF_vars(Exit(r)) /\ WF_vars(Start(r))

-----------------------------------------------------------------------------
(* Properties *)

TypeOK ==
  /\ acked \in [Webhooks -> BOOLEAN]
  /\ sends \in [Webhooks -> 0 .. MaxSends]
  /\ stale \in [Webhooks -> BOOLEAN]
  /\ status \in [Replicas -> {"up", "draining", "down"}]
  /\ step \in [Replicas -> [Webhooks -> Steps]]
  /\ redis \subseteq Webhooks
  /\ buffer \in [Replicas -> [Webhooks -> 0 .. MaxSends]]
  /\ produced \in [Webhooks -> 0 .. MaxSends]
  /\ topic \in [Webhooks -> 0 .. MaxSends]
  /\ faults \in [FaultKinds -> Nat]

InHand(e) == \E r \in Replicas : step[r][e] # "none"
Buffered(e) == \E r \in Replicas : buffer[r][e] > 0

\* "Two concurrent deliveries of the same webhook cannot both observe 'not seen'"
\* (dedup.go:41-43): to however many replicas a webhook is delivered, it is produced
\* once, and once more for each time Redis could not be asked or lost its keys.
ProducedOnce ==
  \A e \in Webhooks : produced[e] <= 1 + faults["redis_down"] + faults["redis_restart"]

\* A webhook that fails verification claims no dedup key, which would have a later
\* genuine one with its id taken for a duplicate, and no copy of it reaches a topic
\* (main.go:73-101).
ForgedLeavesNoTrace ==
  \A e \in Forged : e \notin redis /\ topic[e] = 0

\* A 200 means that some handler produced the webhook, or is about to: "something
\* we have already handled" (main.go:102-104).
AckedWasHandled == \A e \in Webhooks : acked[e] => produced[e] > 0 \/ InHand(e)

\* Two things break that: a replica that crashes between its key and its record,
\* and a SET NX whose reply was lost, whose second try takes the first for somebody
\* else's.  Redis down or restarted, lost 2xx replies, concurrent duplicates, stale
\* retries and graceful stops do not.
UnhandledHasCause == AckedWasHandled \/ Happened({"crash", "set_twice"})

\* "Acking an event we did not durably persist would silently lose a payment
\* failure, which is the one outcome this service exists to prevent"
\* (main.go:116-118).
AckedIsDurable == \A e \in Webhooks : acked[e] => topic[e] > 0

\* "A webhook accepted but not yet produced would otherwise be acked and lost"
\* (main.go:209-210): an acknowledged webhook is on the topic or on its way.
AckedIsKept ==
  \A e \in Webhooks : acked[e] => topic[e] > 0 \/ Buffered(e) \/ InHand(e)

\* Every acknowledged webhook reaches the topic, unless a replica crashed or
\* stopped, the client gave a record up, or a claim was taken for a duplicate of
\* itself.
AckedArrives ==
  \A e \in Webhooks :
    acked[e] ~>
      (topic[e] > 0 \/ Happened({"crash", "stop", "abandon", "set_twice"}))
=============================================================================
