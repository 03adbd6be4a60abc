----------------------------- MODULE Candidates -----------------------------
(***************************************************************************)
(* control/yukti/candidates.py and intelligence/debit_timing: what could   *)
(* be done about a case.  A case c is a record with id, customer, amount,  *)
(* rail, decline, consent, preferred; a policy is one of Policy.  A        *)
(* history is a function from days of a month of Month days to [n, ok],    *)
(* the attempts of the day and those captured; a curve scores every day.   *)
(***************************************************************************)
EXTENDS Policy, SequencesExt

CONSTANTS
  Horizon,   \* days best_slot looks ahead
  Month      \* days after which the curve repeats

ASSUME CandidatesAssumption == Horizon \in Nat \ {0} /\ Month \in Nat \ {0}

\* A list comprehension with a condition: what S has of a sequence.
Keep(seq, S) == FoldLeft(LAMBDA kept, x : IF x \in S THEN Append(kept, x) ELSE kept, <<>>, seq)

Tiers == <<5, 10, 15, 25>>
DebitHour(offset) == 7 + (offset % 4)

\* The first of CONTACT_HOURS after asOf, or tomorrow's first.
ContactHour(asOf) ==
  LET later == {h \in {10, 13, 16, 19} : Hour(asOf) < h}
  IN IF later = {} THEN 24 * (Date(asOf) + 1) + 10
     ELSE 24 * Date(asOf) + CHOOSE h \in later : \A g \in later : h <= g

-----------------------------------------------------------------------------
(* DebitTimingModel.fit *)

\* The curve of a model that is not fitted: as soon as allowed.
Unfitted == [d \in 0 .. Month - 1 |-> 1000]

\* The day's rate per mille of the overall one, drawn towards it as the day is
\* thin; a day of fewer than five attempts is left where it is.
Fit(history) ==
  LET N == MapThenSumSet(LAMBDA d : history[d].n, DOMAIN history)
      ok == MapThenSumSet(LAMBDA d : history[d].ok, DOMAIN history)
      Shrunk(day) == (1000 * (day.ok * N + 30 * ok)) \div ((day.n + 30) * ok)
  IN [d \in DOMAIN Unfitted |->
        IF d \notin DOMAIN history \/ history[d].n < 5 THEN Unfitted[d]
        ELSE IF ok = 0 THEN 0 ELSE Shrunk(history[d])]

-----------------------------------------------------------------------------
(* DebitTimingModel.best_slot, for codes that are not permanent *)

EarliestRetry(after, code) == after + Lookup(code).gap

\* The presentation hour on the day offset days on; an hour already past is
\* moved to the next day.
SlotAt(earliest, offset) ==
  LET at == 24 * (Date(earliest) + offset) + DebitHour(offset)
  IN IF at < earliest THEN at + 24 ELSE at

\* The first day of the horizon with the best score.
BestSlot(after, code, curve) ==
  LET earliest == EarliestRetry(after, code)
      Score(offset) == curve[(Date(earliest) + offset) % Month]
      best == CHOOSE o \in 0 .. Horizon - 1 :
                /\ \A other \in 0 .. Horizon - 1 : Score(other) <= Score(o)
                /\ \A sooner \in 0 .. o - 1 : Score(sooner) < Score(o)
  IN SlotAt(earliest, best)

-----------------------------------------------------------------------------
(* generate *)

Usable(c, p, ch) == ch \in p.channels /\ ch \in c.consent
Messaging == <<"email", "sms", "whatsapp">>
UsableMessaging(c, p) == Keep(Messaging, {ch \in Channels : Usable(c, p, ch)})

\* _preferred_channel: as a set, empty if nothing is usable.
Preferred(c, p) ==
  IF Usable(c, p, c.preferred) THEN {c.preferred}
  ELSE IF UsableMessaging(c, p) = <<>> THEN {} ELSE {UsableMessaging(c, p)[1]}

\* int(round(..)) rounds to even; the amounts here are multiples of 100.
Candidate(c, kind, ch, at, pct) ==
  [case |-> c.id, customer |-> c.customer, kind |-> kind, channel |-> ch,
   at |-> at, amount |-> c.amount, pct |-> pct, discount |-> (c.amount \div 100) * pct]

NoticeHours == 25

\* Retry, and the same attempt behind a notice.
MoneyMoving(c, asOf, curve) ==
  LET spec == Lookup(c.decline)
      slot == BestSlot(asOf, c.decline, curve)
      noticed == IF slot > asOf + NoticeHours THEN slot ELSE asOf + NoticeHours
  IN IF c.rail \in MandateRails /\ spec.silently /\ spec.transience # "permanent"
     THEN <<Candidate(c, "silent_retry", "none", slot, 0),
            Candidate(c, "schedule_debit", "none", noticed, 0)>>
     ELSE <<>>

Messages(c, p, at) ==
  LET chs == UsableMessaging(c, p)
  IN [i \in DOMAIN chs |-> Candidate(c, "message", chs[i], at, 0)]

\* Every permitted tier, over one channel.
Discounts(c, p, at) ==
  LET tiers == Keep(Tiers, 0 .. p.maxPct)
      Over(ch) == [i \in DOMAIN tiers |-> Candidate(c, "discount_offer", ch, at, tiers[i])]
  IN IF Preferred(c, p) = {} THEN <<>>
     ELSE Over(CHOOSE ch \in Preferred(c, p) : TRUE)

Voice(c, p, at) ==
  IF Usable(c, p, "voice") THEN <<Candidate(c, "voice_call", "voice", at, 0)>> ELSE <<>>

\* generate: every coherent action, cheapest first; doing nothing is always one.
Generate(c, p, asOf, curve) ==
  LET at == ContactHour(asOf)
  IN <<Candidate(c, "suppress", "none", asOf, 0)>> \o MoneyMoving(c, asOf, curve)
       \o Messages(c, p, at) \o Discounts(c, p, at) \o Voice(c, p, at)
=============================================================================
