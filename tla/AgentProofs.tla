----------------------------- MODULE AgentProofs -----------------------------
(***************************************************************************)
(* For any processes, any chain of providers and whatever the models do:   *)
(* a provider that has failed for good is not asked again by the process,  *)
(* and a conclusion of the model cites evidence of its own run and issuer. *)
(* For the citations a crash is the hard step: it takes back the evidence  *)
(* and the conclusions of a run that was entered again, so the invariant   *)
(* says of what advise has read (prior) that it cites nothing newer.       *)
(***************************************************************************)
EXTENDS Agent, TLAPS, FiniteSetTheorems, FunctionTheorems, SequenceTheorems

Chained == Range(Providers)

Typed ==
  /\ disabled \in [Processes -> SUBSET Chained]
  /\ refused \in [Processes -> [Chained -> Nat]]

\* The breaker is the memory of every refusal: one that is not open has seen none.
Remembered ==
  \A p \in Processes, v \in Chained :
    /\ refused[p][v] <= 1
    /\ refused[p][v] # 0 => v \in disabled[p]

BreakerInv == Typed /\ Remembered

LEMMA Initially == Init => BreakerInv
BY DEF Init, BreakerInv, Typed, Remembered, Chained

\* The one step that counts a refusal opens the breaker, and found it closed.
LEMMA RefusedKeeps ==
  ASSUME BreakerInv, NEW p \in Processes, Refused(p)
  PROVE  BreakerInv'
<1> DEFINE v == Provider(p)
<1>1. v \in Chained
  BY DEF Refused, Asking, Provider, Chained, Range
<1>2. v \notin disabled[p]
  BY DEF Refused, Asking
<1>3. /\ refused' = [refused EXCEPT ![p][v] = @ + 1]
      /\ disabled' = [disabled EXCEPT ![p] = @ \cup {v}]
  BY DEF Refused, Disable
<1>4. refused[p][v] = 0
  BY <1>1, <1>2 DEF BreakerInv, Typed, Remembered
<1> HIDE DEF v
<1>5. Typed'
  BY <1>1, <1>3 DEF BreakerInv, Typed
<1>6. Remembered'
  <2> SUFFICES ASSUME NEW q \in Processes, NEW w \in Chained
               PROVE  /\ refused'[q][w] <= 1
                      /\ refused'[q][w] # 0 => w \in disabled'[q]
    BY DEF Remembered
  <2>1. CASE q = p /\ w = v
    BY <2>1, <1>1, <1>3, <1>4 DEF BreakerInv, Typed
  <2>2. CASE ~(q = p /\ w = v)
    <3>1. refused'[q][w] = refused[q][w] /\ disabled[q] \subseteq disabled'[q]
      BY <2>2, <1>1, <1>3 DEF BreakerInv, Typed
    <3> QED BY <3>1 DEF BreakerInv, Remembered
  <2> QED BY <2>1, <2>2
<1> QED BY <1>5, <1>6 DEF BreakerInv

\* A process that dies forgets its breakers, and its count with them.
LEMMA CrashKeeps ==
  ASSUME BreakerInv, NEW p \in Processes, Crash(p)
  PROVE  BreakerInv'
<1>1. /\ disabled' = [disabled EXCEPT ![p] = {}]
      /\ refused' = [refused EXCEPT ![p] = [v \in Chained |-> 0]]
  BY DEF Crash, Chained
<1>2. Typed'
  BY <1>1 DEF BreakerInv, Typed
<1>3. Remembered'
  BY <1>1 DEF BreakerInv, Typed, Remembered
<1> QED BY <1>2, <1>3 DEF BreakerInv

\* No other step touches a breaker.
LEMMA OthersKeep ==
  ASSUME BreakerInv, UNCHANGED <<disabled, refused>>
  PROVE  BreakerInv'
BY DEF BreakerInv, Typed, Remembered

LEMMA StepKeeps == BreakerInv /\ [Next]_vars => BreakerInv'
<1> SUFFICES ASSUME BreakerInv, [Next]_vars
             PROVE  BreakerInv'
  OBVIOUS
<1>1. CASE UNCHANGED vars
  BY <1>1, OthersKeep DEF vars, local
<1>2. CASE Next
  <2>1. PICK p \in Processes : Supervise(p) \/ Complete(p) \/ Crash(p)
    BY <1>2 DEF Next
  <2>2. CASE Supervise(p)
    <3>1. UNCHANGED <<disabled, refused>>
      BY <2>2 DEF Supervise, OpenRun, Reenter, CloseRun, Advise, Reread, Ask, CacheHit, local
    <3> QED BY <3>1, OthersKeep
  <2>3. CASE Complete(p) /\ ~Refused(p)
    <3>1. UNCHANGED <<disabled, refused>>
      BY <2>3 DEF Complete, Skip, Analysed, Answered, PassedOver, Malformed, StepDown, Exhausted
    <3> QED BY <3>1, OthersKeep
  <2>4. CASE Refused(p)
    BY <2>4, RefusedKeeps
  <2>5. CASE Crash(p)
    BY <2>5, CrashKeeps
  <2> QED BY <2>1, <2>2, <2>3, <2>4, <2>5
<1> QED BY <1>1, <1>2

\* "Do not pay this provider's timeout again this process" (chain.py:217).
THEOREM BreakerHolds == Spec => []RefusedOnceAProcess
<1>1. Init => BreakerInv
  BY Initially
<1>2. BreakerInv /\ [Next]_vars => BreakerInv'
  BY StepKeeps
<1>3. BreakerInv => RefusedOnceAProcess
  BY DEF BreakerInv, Remembered, RefusedOnceAProcess, Chained
<1> QED BY <1>1, <1>2, <1>3, PTL DEF Spec

-----------------------------------------------------------------------------
(* Citations.  What a model concludes cites what its run was shown, and the *)
(* evidence table is only appended to; but a process that dies takes back   *)
(* what its run recorded since it was entered, and of its conclusions only  *)
(* those it had then are left: they cite nothing of what is taken back.     *)

Runs == [process : Processes, state : {"running", "completed", "gone"}, entries : Nat]
Facts == [run : Nat, issuer : Issuers]

Cited(c) ==
  c.provenance = "llm" =>
    \A i \in c.cites : i \in DOMAIN evidence /\ evidence[i].run = c.run
                                              /\ evidence[i].issuer = c.subject

\* A process has a last run.
Top(x, S) == x \in S /\ \A y \in S : x >= y
RunsOf(p) == {r \in DOMAIN runs : runs[r].process = p} \cup {0}
Topped == \A p \in Processes : \E x : Top(x, RunsOf(p))

Kept(p, c) ==
  /\ Cited(c)
  /\ c.run \in DOMAIN runs /\ runs[c.run].process = p
  /\ c.provenance = "llm" => \A i \in c.cites : i <= prior[p].last

CiteInv ==
  /\ runs \in Seq(Runs)
  /\ evidence \in Seq(Facts)
  /\ DOMAIN prior = Processes /\ \A p \in Processes : prior[p].last \in Nat
  /\ Topped
  /\ \A c \in conclusions : Cited(c)
  /\ \A p \in Processes : \A c \in prior[p].concluded : Kept(p, c)

\* SetToSeq lists a finite set.
LEMMA Listed ==
  ASSUME NEW S, IsFiniteSet(S)
  PROVE  SetToSeq(S) \in Seq(S)
<1>1. Cardinality(S) \in Nat /\ ExistsBijection(1..Cardinality(S), S)
  BY FS_CardinalityType
<1>2. PICK f \in [1..Cardinality(S) -> S] : IsInjective(f)
  BY <1>1 DEF ExistsBijection, Bijection, Injection
<1>3. SetToSeq(S) \in [1..Cardinality(S) -> S]
  BY <1>2 DEF SetToSeq
<1> QED BY <1>1, <1>3, SeqDef

\* A scan finds issuers there are attempts of.
LEMMA ScanFindsIssuers ==
  ASSUME NEW m \in Markets
  PROVE  Degraded(m) \in SUBSET Issuers
BY AgentAssumption DEF Degraded, Scanned

\* What record adds comes behind what there was.
LEMMA Recorded ==
  ASSUME evidence \in Seq(Facts), NEW r \in Nat, NEW subjects \in SUBSET Issuers,
         Record(r, subjects)
  PROVE  /\ evidence' \in Seq(Facts)
         /\ \A i \in DOMAIN evidence : i \in DOMAIN evidence' /\ evidence'[i] = evidence[i]
<1> DEFINE new == {[run |-> r, issuer |-> i] : i \in subjects}
           f == [i \in subjects |-> [run |-> r, issuer |-> i]]
<1>1. IsFiniteSet(subjects)
  BY AgentAssumption, FS_Subset
<1>2. f \in Bijection(subjects, new)
  BY Fun_IsBij
<1>3. IsFiniteSet(new)
  BY <1>1, <1>2, FS_Bijection DEF ExistsBijection
<1>4. new \subseteq Facts
  BY DEF Facts
<1> HIDE DEF new
<1>5. SetToSeq(new) \in Seq(Facts)
  BY <1>3, <1>4, Listed
<1>6. evidence' = evidence \o SetToSeq(new)
  BY DEF Record, new
<1> QED BY <1>5, <1>6

LEMMA LastRun ==
  ASSUME CiteInv, NEW p \in Processes
  PROVE  /\ Top(RunOf(p), RunsOf(p))
         /\ RunOf(p) \in Nat
         /\ RunOf(p) # 0 => RunOf(p) \in DOMAIN runs /\ runs[RunOf(p)].process = p
<1>1. RunsOf(p) \subseteq Nat
  BY DEF RunsOf, CiteInv
<1>2. PICK x : Top(x, RunsOf(p))
  BY DEF CiteInv, Topped
<1>3. RunOf(p) = x
  <2>1. \A y \in RunsOf(p) : (\A z \in RunsOf(p) : y >= z) => y = x
    BY <1>1, <1>2 DEF Top
  <2>2. RunOf(p) = Max(RunsOf(p))
    BY DEF RunOf, RunsOf
  <2> HIDE DEF RunsOf
  <2> QED BY <1>2, <2>1, <2>2 DEF Max, Top
<1> QED BY <1>1, <1>2, <1>3 DEF Top, RunsOf

\* A step that leaves the runs and what advise read, adds to the evidence at
\* most, and concludes what cites it.
LEMMA ConcludeKeeps ==
  ASSUME CiteInv, UNCHANGED <<runs, evidence, prior>>, \A c \in conclusions' : Cited(c)
  PROVE  CiteInv'
<1>1. Topped'
  BY DEF CiteInv, Topped, RunsOf
<1>2. \A c : Cited(c) => Cited(c)'
  BY DEF Cited
<1>3. \A p \in Processes : \A c : Kept(p, c) => Kept(p, c)'
  BY <1>2 DEF Kept
<1> QED BY <1>1, <1>2, <1>3 DEF CiteInv

\* A run that is entered remembers conclusions that cite what is there.
LEMMA AdviseKeeps ==
  ASSUME CiteInv, NEW p \in Processes, NEW r \in Nat, Advise(p, r),
         runs' \in Seq(Runs), Topped',
         \A x \in DOMAIN runs : x \in DOMAIN runs' /\ runs'[x].process = runs[x].process,
         r \in DOMAIN runs', runs'[r].process = p
  PROVE  CiteInv'
<1>1. /\ evidence' \in Seq(Facts)
      /\ \A i \in DOMAIN evidence : i \in DOMAIN evidence' /\ evidence'[i] = evidence[i]
  BY Recorded, ScanFindsIssuers DEF Advise, Gather, CiteInv
<1>2. conclusions' = conclusions
  BY DEF Advise
<1>3. /\ prior' = [prior EXCEPT ![p] = [concluded |-> Concluded(r), last |-> Len(evidence)]]
      /\ DOMAIN evidence = 1..Len(evidence) /\ Len(evidence) \in Nat
  BY DEF Advise, CiteInv
<1>4. /\ DOMAIN prior' = Processes /\ \A q \in Processes : prior'[q].last \in Nat
  BY <1>3 DEF CiteInv
<1>5. \A c : Cited(c) => Cited(c)'
  BY <1>1 DEF Cited
<1>6. ASSUME NEW q \in Processes, NEW c \in prior'[q].concluded
      PROVE  Kept(q, c)'
  <2>1. CASE q = p
    <3>1. c \in conclusions /\ c.run = r
      BY <1>3, <2>1 DEF Concluded, CiteInv
    <3>2. Cited(c) /\ (c.provenance = "llm" => \A i \in c.cites : i <= Len(evidence))
      BY <1>3, <3>1 DEF CiteInv, Cited
    <3>3. prior'[q].last = Len(evidence)
      BY <1>3, <2>1 DEF CiteInv
    <3> QED BY <1>5, <2>1, <3>1, <3>2, <3>3 DEF Kept
  <2>2. CASE q # p
    <3>1. prior'[q] = prior[q]
      BY <1>3, <2>2 DEF CiteInv
    <3> QED BY <1>5, <3>1 DEF Kept, CiteInv
  <2> QED BY <2>1, <2>2
<1> QED BY <1>1, <1>2, <1>4, <1>5, <1>6 DEF CiteInv

LEMMA OpenRunKeeps ==
  ASSUME CiteInv, NEW p \in Processes, OpenRun(p)
  PROVE  CiteInv'
<1> DEFINE new == [process |-> p, state |-> "running", entries |-> 1]
<1>1. PICK r : r = Len(runs) + 1
  OBVIOUS
<1>2. /\ runs' \in Seq(Runs) /\ r \in Nat
      /\ DOMAIN runs' = DOMAIN runs \cup {r} /\ r \notin DOMAIN runs
      /\ \A x \in DOMAIN runs : runs'[x] = runs[x] /\ r >= x
      /\ runs'[r].process = p
  BY <1>1 DEF OpenRun, CiteInv, Runs
<1>3. Topped'
  <2> SUFFICES ASSUME NEW q \in Processes
               PROVE  \E x : Top(x, RunsOf(q)')
    BY DEF Topped, Top
  <2>1. CASE q = p
    <3>1. Top(r, RunsOf(q)')
      BY <1>2, <2>1 DEF Top, RunsOf
    <3> QED BY <3>1
  <2>2. CASE q # p
    <3>1. RunsOf(q)' = RunsOf(q)
      BY <1>2, <2>2 DEF RunsOf
    <3> QED BY <3>1 DEF CiteInv, Topped
  <2> QED BY <2>1, <2>2
<1>4. Advise(p, r)
  BY <1>1 DEF OpenRun
<1> QED BY <1>2, <1>3, <1>4, AdviseKeeps

\* A run whose state or count changes is still the run of its process.
LEMMA SameRuns ==
  ASSUME CiteInv, DOMAIN runs' = DOMAIN runs,
         \A x \in DOMAIN runs : runs'[x].process = runs[x].process
  PROVE  Topped' 
<1>1. \A q \in Processes : RunsOf(q)' = RunsOf(q)
  BY DEF RunsOf
<1> QED BY <1>1 DEF CiteInv, Topped, Top

LEMMA SameLength ==
  ASSUME NEW S, NEW T, NEW s \in Seq(S), NEW t,
         t = [i \in DOMAIN s |-> t[i]], \A i \in DOMAIN s : t[i] \in T
  PROVE  t \in Seq(T)
<1>1. DOMAIN s = 1..Len(s) /\ Len(s) \in Nat
  OBVIOUS
<1>2. t = [i \in 1..Len(s) |-> t[i]] /\ \A i \in 1..Len(s) : t[i] \in T
  BY <1>1
<1> QED BY <1>1, <1>2, IsASeq

LEMMA ReenterKeeps ==
  ASSUME CiteInv, NEW p \in Processes, Reenter(p)
  PROVE  CiteInv'
<1>1. PICK r : r = RunOf(p)
  OBVIOUS
<1>2. r \in Nat /\ r \in DOMAIN runs /\ runs[r].process = p
  BY <1>1, LastRun DEF Reenter
<1>3. Advise(p, r) /\ runs' = [runs EXCEPT ![r].entries = @ + 1]
  BY <1>1 DEF Reenter
<1>4. /\ runs' = [x \in DOMAIN runs |-> runs'[x]]
      /\ \A x \in DOMAIN runs : runs'[x] \in Runs /\ runs'[x].process = runs[x].process
  <2>1. \A x \in DOMAIN runs : runs[x] \in Runs
    BY DEF CiteInv
  <2>2. PICK n \in Nat : n = runs[r].entries + 1
    BY <1>2, <2>1 DEF Runs
  <2>3. /\ runs' = [x \in DOMAIN runs |-> runs'[x]]
        /\ runs'[r] = [runs[r] EXCEPT !.entries = n]
        /\ \A x \in DOMAIN runs : x # r => runs'[x] = runs[x]
    BY <1>2, <1>3, <2>2
  <2>4. runs'[r] \in Runs /\ runs'[r].process = runs[r].process
    BY <1>2, <2>1, <2>3 DEF Runs
  <2> QED BY <2>1, <2>3, <2>4
<1>5. runs' \in Seq(Runs)
  BY <1>4, SameLength DEF CiteInv
<1>6. Topped'
  BY <1>4, SameRuns
<1> QED BY <1>2, <1>3, <1>4, <1>5, <1>6, AdviseKeeps

\* A run that is closed, with everything it has.
LEMMA CloseRunKeeps ==
  ASSUME CiteInv, NEW p \in Processes, CloseRun(p)
  PROVE  CiteInv'
<1>1. PICK r : r = RunOf(p)
  OBVIOUS
<1>2. /\ runs' = [runs EXCEPT ![r].state = "completed"]
      /\ UNCHANGED <<evidence, conclusions, prior>>
  BY <1>1 DEF CloseRun, local
<1>3. /\ runs' = [x \in DOMAIN runs |-> runs'[x]]
      /\ \A x \in DOMAIN runs : runs'[x] \in Runs /\ runs'[x].process = runs[x].process
  <2>1. \A x \in DOMAIN runs : runs[x] \in Runs
    BY DEF CiteInv
  <2> QED BY <1>2, <2>1 DEF Runs
<1>4. runs' \in Seq(Runs)
  BY <1>3, SameLength DEF CiteInv
<1>5. Topped'
  BY <1>3, SameRuns
<1>6. \A c : Cited(c) => Cited(c)'
  BY <1>2 DEF Cited
<1>7. \A q \in Processes : \A c : Kept(q, c) => Kept(q, c)'
  BY <1>2, <1>3, <1>6 DEF Kept
<1> QED BY <1>2, <1>4, <1>5, <1>6, <1>7 DEF CiteInv

\* A process that dies takes back evidence of its own run only, and none that a
\* conclusion left behind cites.
LEMMA CrashCites ==
  ASSUME CiteInv, NEW p \in Processes, Crash(p)
  PROVE  CiteInv'
<1>1. PICK r : r = RunOf(p)
  OBVIOUS
<1>2. r \in Nat /\ (r # 0 => r \in DOMAIN runs /\ runs[r].process = p)
  BY <1>1, LastRun
<1>3. /\ runs' = [runs EXCEPT ![r].state = IF @ = "running" THEN "gone" ELSE @]
      /\ evidence' = [i \in DOMAIN evidence |->
           IF i > prior[p].last /\ evidence[i].run = r
           THEN [evidence[i] EXCEPT !.run = 0] ELSE evidence[i]]
      /\ conclusions' = prior[p].concluded \cup {c \in conclusions : c.run # r}
      /\ prior' = [prior EXCEPT ![p] = Nothing]
  BY <1>1 DEF Crash
<1>4. /\ runs' = [x \in DOMAIN runs |-> runs'[x]]
      /\ \A x \in DOMAIN runs : runs'[x] \in Runs /\ runs'[x].process = runs[x].process
  <2>1. \A x \in DOMAIN runs : runs[x] \in Runs
    BY DEF CiteInv
  <2> QED BY <1>3, <2>1 DEF Runs
<1>5. runs' \in Seq(Runs)
  BY <1>4, SameLength DEF CiteInv
<1>6. Topped'
  BY <1>4, SameRuns
<1>7. \A i \in DOMAIN evidence :
        /\ i \in Nat /\ evidence[i] \in Facts /\ evidence'[i] \in Facts
        /\ i <= prior[p].last \/ evidence[i].run # r => evidence'[i] = evidence[i]
  <2>1. \A i \in DOMAIN evidence : i \in Nat /\ evidence[i] \in Facts
    BY DEF CiteInv
  <2>2. prior[p].last \in Nat
    BY DEF CiteInv
  <2> QED BY <1>3, <2>1, <2>2 DEF Facts
<1>8. evidence' \in Seq(Facts) /\ DOMAIN evidence' = DOMAIN evidence
  <2>1. evidence' = [i \in DOMAIN evidence |-> evidence'[i]]
    BY <1>3
  <2> QED BY <1>7, <2>1, SameLength DEF CiteInv
<1>9. /\ DOMAIN prior' = Processes /\ \A q \in Processes : prior'[q].last \in Nat
      /\ prior'[p].concluded = {}
      /\ \A q \in Processes : q # p => prior'[q] = prior[q]
  BY <1>3 DEF CiteInv, Nothing
\* A conclusion of another run, or of this one before it was entered.
<1>10. ASSUME NEW c, Cited(c),
              c.run # r \/ (c.provenance = "llm" => \A i \in c.cites : i <= prior[p].last)
       PROVE  Cited(c)'
  BY <1>7, <1>8, <1>10 DEF Cited
<1>11. \A c \in conclusions' : Cited(c)'
  BY <1>3, <1>10 DEF CiteInv, Kept
<1>12. ASSUME NEW q \in Processes, NEW c \in prior'[q].concluded
       PROVE  Kept(q, c)'
  <2>1. q # p /\ c \in prior[q].concluded /\ prior'[q] = prior[q]
    BY <1>9, <1>12
  <2>2. Kept(q, c)
    BY <2>1 DEF CiteInv
  <2>3. c.run # r
    <3>1. 0 \notin DOMAIN runs
      BY DEF CiteInv
    <3> QED BY <1>2, <2>1, <2>2, <3>1 DEF Kept
  <2> QED BY <1>4, <1>10, <2>1, <2>2, <2>3 DEF Kept
<1> QED BY <1>5, <1>6, <1>8, <1>9, <1>11, <1>12 DEF CiteInv

\* The steps that conclude: a model's verdict after it was checked, a body, and a
\* fallback.
LEMMA ConcludingCites ==
  ASSUME CiteInv, NEW p \in Processes,
         Analysed(p) \/ Answered(p) \/ Exhausted(p) \/ (\E t \in Templates : CacheHit(p, t))
  PROVE  CiteInv'
<1>1. UNCHANGED <<runs, evidence, prior>>
  BY DEF Analysed, Answered, Exhausted, CacheHit
<1>2. PICK subject, cites, provenance :
        /\ Conclude(p, subject, cites, provenance)
        /\ provenance = "llm" => cites \subseteq Shown(RunOf(p), subject)
  <2>1. CASE Analysed(p)
    BY <2>1 DEF Analysed, Valid
  <2>2. CASE Answered(p) \/ (\E t \in Templates : CacheHit(p, t))
    BY <2>2 DEF Answered, CacheHit, Compose
  <2>3. CASE Exhausted(p)
    BY <2>3 DEF Exhausted
  <2> QED BY <2>1, <2>2, <2>3
<1>3. \A c \in conclusions' : Cited(c)
  <2> DEFINE new == [run |-> RunOf(p), subject |-> subject, cites |-> cites,
                     provenance |-> provenance]
  <2>1. conclusions' = conclusions \cup {new}
    BY <1>2 DEF Conclude
  <2>2. Cited(new)
    BY <1>2 DEF Cited, Shown
  <2> QED BY <2>1, <2>2 DEF CiteInv
<1> QED BY <1>1, <1>3, ConcludeKeeps

LEMMA StepCites == CiteInv /\ [Next]_vars => CiteInv'
<1> SUFFICES ASSUME CiteInv, [Next]_vars
             PROVE  CiteInv'
  OBVIOUS
<1>1. CASE UNCHANGED <<runs, evidence, conclusions, prior>>
  BY <1>1, ConcludeKeeps DEF CiteInv
<1>2. CASE UNCHANGED vars
  BY <1>1, <1>2 DEF vars, store, local
<1>3. CASE Next
  <2>1. PICK p \in Processes : Supervise(p) \/ Complete(p) \/ Crash(p)
    BY <1>3 DEF Next
  <2>2. CASE \/ (\E i \in Issuers : Reread(p, i))
             \/ (\E q \in Issuers \cup Templates : Ask(p, q))
             \/ Skip(p) \/ PassedOver(p) \/ Malformed(p) \/ StepDown(p) \/ Refused(p)
    BY <1>1, <2>2 DEF Reread, Ask, Skip, PassedOver, Malformed, StepDown, Refused, store
  <2> QED BY <2>1, <2>2, OpenRunKeeps, ReenterKeeps, CloseRunKeeps, CrashCites,
             ConcludingCites
          DEF Supervise, Complete
<1> QED BY <1>2, <1>3

LEMMA CitesInitially == Init => CiteInv
<1> SUFFICES ASSUME Init
             PROVE  CiteInv
  OBVIOUS
<1>1. runs = <<>> /\ evidence = <<>> /\ conclusions = {}
  BY DEF Init
<1>2. prior = [p \in Processes |-> Nothing]
  BY DEF Init
<1>3. Topped
  BY <1>1 DEF Topped, Top, RunsOf
<1> QED BY <1>1, <1>2, <1>3 DEF CiteInv, Nothing

\* "Every fact carries an id; every conclusion records which ids it was shown"
\* (memory.py:13-16): for any processes and issuers, however often a run is
\* entered, whoever else gathers and whoever dies.
THEOREM CitationsHold == Spec => []CitesWhatItWasShown
<1>1. Init => CiteInv
  BY CitesInitially
<1>2. CiteInv /\ [Next]_vars => CiteInv'
  BY StepCites
<1>3. CiteInv => CitesWhatItWasShown
  BY DEF CiteInv, Cited, CitesWhatItWasShown
<1> QED BY <1>1, <1>2, <1>3, PTL DEF Spec
=============================================================================
