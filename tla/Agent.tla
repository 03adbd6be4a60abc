-------------------------------- MODULE Agent --------------------------------
(***************************************************************************)
(* The agent beside the planner: the supervisor's run over the degraded    *)
(* issuers (agent/supervisor.py), the evidence store (agent/memory.py),    *)
(* the specialists (agent/specialists.py) and the provider chain with its  *)
(* circuit breaker, its retry and its disk cache (llm/).  A process asks   *)
(* one question at a time, and waits.  The attempts a scan reads           *)
(* (intelligence/degradation.py), what a cycle needs composed and what a   *)
(* model answers are choices; prompts and models are left out.             *)
(***************************************************************************)
EXTENDS Integers, FiniteSets, Sequences, SequencesExt, TLC

CONSTANTS
  Processes,
  Providers,            \* the configured providers, in the order of the chain
  Structured,           \* how many structured-output modes a provider has
  Issuers,              \* those customers pay through
  Markets,              \* what a scan may read: by issuer, the attempts of the last
                        \* hours (n, ok of them captured) and of the fortnight
                        \* before (baseN, baseOk)
  Templates,            \* what the funded actions may need composed
  MaxAdvices,           \* a bound: how often advise is called
  MaxCrashes            \* a bound

ASSUME AgentAssumption ==
  /\ Providers \in Seq(STRING)
  /\ Structured \in [Range(Providers) -> Nat \ {0}]
  /\ IsFiniteSet(Issuers)
  /\ \A m \in Markets :
       /\ DOMAIN m \subseteq Issuers
       /\ \A i \in DOMAIN m : /\ m[i].n \in Nat /\ m[i].ok \in 0 .. m[i].n
                             /\ m[i].baseN \in Nat /\ m[i].baseOk \in 0 .. m[i].baseN
  /\ MaxAdvices \in Nat /\ MaxCrashes \in Nat

VARIABLES
  runs,        \* agent_run: [process, state, entries]
  evidence,    \* agent_evidence by id: [run, issuer]
  conclusions, \* agent_conclusion: [run, subject, cites, provenance]
  todo,        \* todo[p]: questions the process has still to settle
  prior,       \* prior[p]: the run's conclusions when advise began, and the last id
  question,    \* question[p]: the one before the chain, or None
  chain,       \* chain[p]: [at, attempt, rung], the provider being asked
  disabled,    \* disabled[p]: the breaker
  refused,     \* refused[p][v]: failures that disable, of provider v in process p
  cache,       \* the disk cache: composed bodies by template, "good" or "bad"
  crashes

store == <<runs, evidence, conclusions>>
local == <<todo, prior, question, chain, disabled, refused>>
vars == <<store, local, cache, crashes>>

None == "none"
Nothing == [concluded |-> {}, last |-> 0]
Idle == [at |-> 0, attempt |-> 0, rung |-> 0]
First(v) == [at |-> v, attempt |-> 1, rung |-> 1]

Init ==
  /\ runs = <<>> /\ evidence = <<>> /\ conclusions = {}
  /\ todo = [p \in Processes |-> {}]
  /\ prior = [p \in Processes |-> Nothing]
  /\ question = [p \in Processes |-> None]
  /\ chain = [p \in Processes |-> Idle]
  /\ disabled = [p \in Processes |-> {}]
  /\ refused = [p \in Processes |-> [v \in Range(Providers) |-> 0]]
  /\ cache = [t \in Templates |-> None]
  /\ crashes = 0

-----------------------------------------------------------------------------
(* degradation.degraded: success rates per mille, rounded down *)

MinSample == 30
MinDrop == 80
ZThreshold == 3

Rate(ok, n) == IF n = 0 THEN 0 ELSE (1000 * ok) \div n

\* The platform in the fortnight and in the window: what moves it moves everyone.
Before(m) == Rate(MapThenSumSet(LAMBDA i : m[i].baseOk, DOMAIN m),
                  MapThenSumSet(LAMBDA i : m[i].baseN, DOMAIN m))
Lately(m) == Rate(MapThenSumSet(LAMBDA i : m[i].ok, DOMAIN m),
                  MapThenSumSet(LAMBDA i : m[i].n, DOMAIN m))

\* _HEALTH_SQL: the issuers that are in the window, with a baseline.
Scanned(m) == {i \in DOMAIN m : m[i].n > 0 /\ m[i].baseN >= MinSample}

\* What an issuer's own rate comes to in the conditions of the platform.
Expected(m, i) ==
  LET historical == Rate(m[i].baseOk, m[i].baseN)
  IN Min({999, IF Before(m) = 0 THEN historical
               ELSE (historical * Lately(m)) \div Before(m)})

\* z >= ZThreshold, squared: the drop is not negative where it is asked.
Significant(drop, expected, n) ==
  drop * drop * n >= ZThreshold * ZThreshold * Max({expected * (1000 - expected), 1})

\* is_degraded: enough of them, a large drop and a real one.
Degraded(m) ==
  {i \in Scanned(m) :
     LET drop == Expected(m, i) - Rate(m[i].ok, m[i].n)
     IN /\ m[i].n >= MinSample /\ drop >= MinDrop
        /\ Significant(drop, Expected(m, i), m[i].n)}

-----------------------------------------------------------------------------
(* Supervisor.advise and the compositions of a cycle *)

RunOf(p) == Max({r \in DOMAIN runs : runs[r].process = p} \cup {0})
Entries == FoldSeq(LAMBDA run, n : run.entries + n, 0, runs)
Working(p) == todo[p] # {} \/ question[p] # None

\* memory.retrieve
Shown(r, issuer) == {i \in DOMAIN evidence : evidence[i].run = r /\ evidence[i].issuer = issuer}
Concluded(r) == {c \in conclusions : c.run = r}

\* memory.record: the facts of a subject get the next ids.
Record(r, subjects) ==
  evidence' = evidence \o SetToSeq({[run |-> r, issuer |-> i] : i \in subjects})

\* gather: facts for every issuer the scan finds degraded.
Gather(r, degraded) == Record(r, degraded)

\* _compose_bodies: one body for every distinct template of the funded actions.
Needed == SUBSET Templates

\* advise: the run's conclusions are read, then evidence is gathered afresh; the
\* compositions are what its cycle comes to afterwards.
Advise(p, r) ==
  /\ prior' = [prior EXCEPT ![p] = [concluded |-> Concluded(r), last |-> Len(evidence)]]
  /\ \E market \in Markets, needed \in Needed :
       /\ Gather(r, Degraded(market))
       /\ todo' = [todo EXCEPT ![p] = Degraded(market) \cup needed]
  /\ UNCHANGED <<conclusions, question, chain, disabled, refused, cache, crashes>>

OpenRun(p) ==
  /\ ~Working(p) /\ Entries < MaxAdvices
  /\ \A r \in DOMAIN runs : runs[r].process = p => runs[r].state # "running"
  /\ runs' = Append(runs, [process |-> p, state |-> "running", entries |-> 1])
  /\ Advise(p, Len(runs) + 1)

\* "Safe to call again": the same run is entered once more.
Reenter(p) ==
  /\ ~Working(p) /\ RunOf(p) # 0
  /\ runs[RunOf(p)].state = "completed"
  /\ Entries < MaxAdvices
  /\ runs' = [runs EXCEPT ![RunOf(p)].entries = @ + 1]
  /\ Advise(p, RunOf(p))

CloseRun(p) ==
  /\ ~Working(p) /\ RunOf(p) # 0 /\ runs[RunOf(p)].state = "running"
  /\ runs' = [runs EXCEPT ![RunOf(p)].state = "completed"]
  /\ UNCHANGED <<evidence, conclusions, local, cache, crashes>>

Settled(p, q) ==
  /\ todo' = [todo EXCEPT ![p] = @ \ {q}]
  /\ question' = [question EXCEPT ![p] = None]
  /\ chain' = [chain EXCEPT ![p] = Idle]

\* An issuer the run has concluded on before is not asked about again.
Reread(p, i) ==
  /\ question[p] = None /\ i \in todo[p] \cap Issuers
  /\ \E c \in prior[p].concluded : c.subject = i
  /\ Settled(p, i)
  /\ UNCHANGED <<store, prior, disabled, refused, cache, crashes>>

\* complete begins.  An issuer's question carries evidence ids and is not cached;
\* compositions come after the advice.
Ask(p, q) ==
  /\ question[p] = None /\ q \in todo[p]
  /\ q \in Issuers => \A c \in prior[p].concluded : c.subject # q
  /\ q \in Templates => todo[p] \cap Issuers = {} /\ cache[q] = None
  /\ question' = [question EXCEPT ![p] = q]
  /\ chain' = [chain EXCEPT ![p] = First(1)]
  /\ UNCHANGED <<store, todo, prior, disabled, refused, cache, crashes>>

\* memory.conclude.  The posture, which only removes candidates, is Planning's advice.
Conclude(p, subject, cites, provenance) ==
  conclusions' = conclusions \cup
    {[run |-> RunOf(p), subject |-> subject, cites |-> cites, provenance |-> provenance]}

\* compose checks the placeholders of what it is given; the template is the
\* fallback.
Compose(p, t, body) ==
  Conclude(p, t, {}, IF body = "good" THEN "llm" ELSE "fallback")

CacheHit(p, t) ==
  /\ question[p] = None /\ t \in todo[p] \cap Templates /\ todo[p] \cap Issuers = {}
  /\ cache[t] # None
  /\ Compose(p, t, cache[t]) /\ Settled(p, t)
  /\ UNCHANGED <<runs, evidence, prior, disabled, refused, cache, crashes>>

-----------------------------------------------------------------------------
(* LayeredClient.complete: one provider after the other *)

Provider(p) == Providers[chain[p].at]
Asking(p) ==
  question[p] # None /\ chain[p].at \in DOMAIN Providers /\ Provider(p) \notin disabled[p]

MoveOn(p) == chain' = [chain EXCEPT ![p] = First(@.at + 1)]

Skip(p) ==
  /\ question[p] # None /\ chain[p].at \in DOMAIN Providers
  /\ Provider(p) \in disabled[p]
  /\ MoveOn(p)
  /\ UNCHANGED <<store, todo, prior, question, disabled, refused, cache, crashes>>

\* Mutant: a well-formed verdict is taken as it is.
ValidUnchecked(p, cites) == TRUE

\* cites_only_real_evidence, memory.uncited.
Valid(p, cites) == cites \subseteq Shown(RunOf(p), question[p])

\* What it may cite: all it was shown, one row of whatever run, or no row at all.
Citations(p) == {Shown(RunOf(p), question[p])} \cup {{i} : i \in 0..Len(evidence)}

\* A verdict that passes the caller's validation.
Analysed(p) ==
  /\ Asking(p) /\ question[p] \in Issuers
  /\ \E cites \in Citations(p) : Valid(p, cites) /\ Conclude(p, question[p], cites, "llm")
  /\ Settled(p, question[p])
  /\ UNCHANGED <<runs, evidence, prior, disabled, refused, cache, crashes>>

\* Invalid: to the next provider.  So does one that is unavailable.
PassedOver(p) ==
  /\ Asking(p) /\ MoveOn(p)
  /\ UNCHANGED <<store, todo, prior, question, disabled, refused, cache, crashes>>

\* A body needs no validation here: it is cached, and only then looked at.
Answered(p) ==
  /\ Asking(p) /\ question[p] \in Templates
  /\ \E body \in {"good", "bad"} :
       /\ cache' = [cache EXCEPT ![question[p]] = body]
       /\ Compose(p, question[p], body)
  /\ Settled(p, question[p])
  /\ UNCHANGED <<runs, evidence, prior, disabled, refused, crashes>>

\* Mutant: what does not match the schema is asked for until it does.
MalformedAgain(p) ==
  /\ Asking(p)
  /\ chain' = [chain EXCEPT ![p].attempt = 3 - @]
  /\ UNCHANGED <<store, todo, prior, question, disabled, refused, cache, crashes>>

\* RETRY, once and from the first mode; then the next.
Malformed(p) ==
  /\ Asking(p)
  /\ IF chain[p].attempt = 1
     THEN chain' = [chain EXCEPT ![p].attempt = 2, ![p].rung = 1] ELSE MoveOn(p)
  /\ UNCHANGED <<store, todo, prior, question, disabled, refused, cache, crashes>>

\* A parameter the provider does not implement: a weaker mode of it is tried.
StepDown(p) ==
  /\ Asking(p) /\ chain[p].rung < Structured[Provider(p)]
  /\ chain' = [chain EXCEPT ![p].rung = @ + 1]
  /\ UNCHANGED <<store, todo, prior, question, disabled, refused, cache, crashes>>

\* Mutant: the failure is not remembered.
DisableForgotten(p) == UNCHANGED disabled

Disable(p) == disabled' = [disabled EXCEPT ![p] = @ \cup {Provider(p)}]

\* DISABLE: unreachable, 401 to 404.
Refused(p) ==
  /\ Asking(p)
  /\ refused' = [refused EXCEPT ![p][Provider(p)] = @ + 1]
  /\ Disable(p) /\ MoveOn(p)
  /\ UNCHANGED <<store, todo, prior, question, cache, crashes>>

\* AllProvidersFailed: the specialist's conservative default.
Exhausted(p) ==
  /\ question[p] # None /\ chain[p].at \notin DOMAIN Providers
  /\ Conclude(p, question[p], {}, "fallback")
  /\ Settled(p, question[p])
  /\ UNCHANGED <<runs, evidence, prior, disabled, refused, cache, crashes>>

\* The process dies.  Nothing is committed before the run is closed (cli.py:269-274),
\* so of a run that was entered again only what it had before is left; the ids of
\* the others are not given again.
Crash(p) ==
  /\ Working(p) \/ \E r \in DOMAIN runs : runs[r].process = p /\ runs[r].state = "running"
  /\ crashes < MaxCrashes
  /\ crashes' = crashes + 1
  /\ runs' = [runs EXCEPT ![RunOf(p)].state = IF @ = "running" THEN "gone" ELSE @]
  /\ evidence' = [i \in DOMAIN evidence |->
       IF i > prior[p].last /\ evidence[i].run = RunOf(p)
       THEN [evidence[i] EXCEPT !.run = 0] ELSE evidence[i]]
  /\ conclusions' = prior[p].concluded \cup {c \in conclusions : c.run # RunOf(p)}
  /\ todo' = [todo EXCEPT ![p] = {}]
  /\ prior' = [prior EXCEPT ![p] = Nothing]
  /\ question' = [question EXCEPT ![p] = None]
  /\ chain' = [chain EXCEPT ![p] = Idle]
  /\ disabled' = [disabled EXCEPT ![p] = {}]
  /\ refused' = [refused EXCEPT ![p] = [v \in Range(Providers) |-> 0]]
  /\ UNCHANGED cache

-----------------------------------------------------------------------------

Supervise(p) ==
  \/ OpenRun(p) \/ Reenter(p) \/ CloseRun(p)
  \/ \E i \in Issuers : Reread(p, i)
  \/ \E q \in Issuers \cup Templates : Ask(p, q)
  \/ \E t \in Templates : CacheHit(p, t)
Complete(p) ==
  Skip(p) \/ Analysed(p) \/ Answered(p) \/ PassedOver(p) \/ Malformed(p) \/ StepDown(p)
    \/ Refused(p) \/ Exhausted(p)

Next == \E p \in Processes : Supervise(p) \/ Complete(p) \/ Crash(p)

\* Every request has a timeout (openai_compat.py:53-55), so a call ends one way or
\* another; the process goes on with the next.
Fairness == \A p \in Processes :
  WF_vars(Complete(p)) /\ WF_vars(Supervise(p))

Spec == Init /\ [][Next]_vars /\ Fairness

-----------------------------------------------------------------------------
(* Properties *)

\* "Every fact carries an id; every conclusion records which ids it was shown"
\* (memory.py:13-16): a conclusion of the model cites evidence of its own run and
\* its own issuer, however often the run is entered and whoever else gathers.
CitesWhatItWasShown ==
  \A c \in conclusions : c.provenance = "llm" =>
    \A i \in c.cites : i \in DOMAIN evidence /\ evidence[i].run = c.run
                                              /\ evidence[i].issuer = c.subject

\* "Do not pay this provider's timeout again this process" (chain.py:217): the
\* breaker holds from one question to the next and across specialists.
RefusedOnceAProcess ==
  \A p \in Processes, v \in Range(Providers) : refused[p][v] <= 1

\* However its providers misbehave, a run comes to its end: the planner that asked
\* is not kept waiting.
EveryRunEnds == \A p \in Processes : Working(p) ~> ~Working(p)

\* "A rejected answer is neither cached nor returned" (chain.py:135-136).
NothingRejectedIsCached == \A t \in Templates : cache[t] # "bad"
=============================================================================
