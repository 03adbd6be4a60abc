------------------------------- MODULE Policy -------------------------------
(***************************************************************************)
(* control/yukti/policy: the regulatory pack, the merchant pack, and the   *)
(* engine that reduces both to one verdict.                                *)
(***************************************************************************)
EXTENDS Domain, Integers, FiniteSets

\* ActionRequest; notice is a set, empty or of the hour it was sent.
Requests ==
  [kind : ActionKinds, channel : Channels, at : Int, amount : Int, category : STRING,
   decline : STRING, attempts : Int, pct : Int, consent : SUBSET Channels,
   notice : SUBSET Int, template : BOOLEAN, afa : BOOLEAN]

\* MerchantPolicy
Policies ==
  [cap : Int, maxPct : Int, threshold : Int, floor : Int, channels : SUBSET Channels,
   blackout : SUBSET Int, stacking : BOOLEAN]

\* MerchantContext
Contexts == [contacts : Int, recentDiscount : BOOLEAN, approved : BOOLEAN]

AfaFreeLimit(category) ==
  IF category \in {"mutual_fund", "insurance", "credit_card_bill"}
  THEN 10000000 ELSE 1500000

-----------------------------------------------------------------------------
(* Regulatory rules.  Each says when it blocks. *)

rbi_predebit_24h(r) ==
  r.kind = "schedule_debit" /\ \A sent \in r.notice : r.at - sent < 24
rbi_predebit_missing(r) == r.kind = "schedule_debit" /\ r.notice = {}
rbi_afa_limit(r) ==
  MovesMoney(r.kind) /\ r.amount > AfaFreeLimit(r.category) /\ ~r.afa
npci_represent_cap(r) ==
  MovesMoney(r.kind) /\ r.attempts >= Lookup(r.decline).maxAttempts
trai_quiet_hours(r) ==
  ContactsCustomer(r.kind) /\ (Hour(r.at) >= 21 \/ Hour(r.at) < 9)
trai_dlt_template(r) == r.channel \in {"sms", "whatsapp"} /\ ~r.template
dpdp_consent(r) ==
  ContactsCustomer(r.kind) /\ r.channel # "none" /\ r.channel \notin r.consent

Regulatory(r) ==
  [RBI_PREDEBIT_24H   |-> rbi_predebit_24h(r) \/ rbi_predebit_missing(r),
   RBI_AFA_LIMIT      |-> rbi_afa_limit(r),
   NPCI_REPRESENT_CAP |-> npci_represent_cap(r),
   TRAI_QUIET_HOURS   |-> trai_quiet_hours(r),
   TRAI_DLT_TEMPLATE  |-> trai_dlt_template(r),
   DPDP_CONSENT       |-> dpdp_consent(r)]

-----------------------------------------------------------------------------
(* Merchant rules *)

contact_cap(r, p, ctx) == ContactsCustomer(r.kind) /\ ctx.contacts >= p.cap
discount_ceiling(r, p) == r.pct > p.maxPct
discount_stacking(r, p, ctx) == r.pct > 0 /\ ~p.stacking /\ ctx.recentDiscount
allowed_channel(r, p) ==
  ContactsCustomer(r.kind) /\ r.channel # "none" /\ r.channel \notin p.channels
blackout(r, p) == ContactsCustomer(r.kind) /\ Date(r.at) \in p.blackout
minimum_value(r, p) == r.kind # "suppress" /\ r.amount < p.floor

\* The one rule that escalates, and the one a human approval answers.
approval_threshold(r, p, ctx) ==
  r.kind # "suppress" /\ r.amount >= p.threshold /\ ~ctx.approved

Merchant(r, p, ctx) ==
  [MERCHANT_CONTACT_CAP       |-> contact_cap(r, p, ctx),
   MERCHANT_DISCOUNT_CEILING  |-> discount_ceiling(r, p),
   MERCHANT_DISCOUNT_STACKING |-> discount_stacking(r, p, ctx),
   MERCHANT_ALLOWED_CHANNEL   |-> allowed_channel(r, p),
   MERCHANT_BLACKOUT          |-> blackout(r, p),
   MERCHANT_MIN_VALUE         |-> minimum_value(r, p)]

-----------------------------------------------------------------------------
(* The engine *)

Failing(results) == {rule \in DOMAIN results : results[rule]}

\* PolicyDecision.blocks: every rule runs, both packs.
Blocks(r, p, ctx) == Failing(Regulatory(r)) \cup Failing(Merchant(r, p, ctx))

\* evaluate: BLOCK absorbs ESCALATE absorbs ALLOW.
Verdict(r, p, ctx) ==
  IF Blocks(r, p, ctx) # {} THEN "block"
  ELSE IF approval_threshold(r, p, ctx) THEN "escalate" ELSE "allow"

is_feasible(r, p, ctx) == Verdict(r, p, ctx) # "block"

-----------------------------------------------------------------------------
(* Stored configuration *)

Clamp(v, lo, hi) == IF v < lo THEN lo ELSE IF v > hi THEN hi ELSE v

\* MerchantPolicy(), the configuration of a merchant with no active pack.
DefaultPolicy ==
  [cap |-> 3, maxPct |-> 15, threshold |-> 2500000, floor |-> 10000,
   channels |-> {"whatsapp", "sms", "email"}, blackout |-> {}, stacking |-> FALSE]

\* compile_from_settings and load_policy, for settings that parse: a key that is
\* absent, or does not parse, takes its default; every number is clamped; an
\* empty channel list is taken for an absent one.
Compile(settings) ==
  LET Get(key) == IF key \in DOMAIN settings THEN settings[key] ELSE DefaultPolicy[key]
  IN [cap       |-> Clamp(Get("cap"), 0, 14),
      maxPct    |-> Clamp(Get("maxPct"), 0, 50),
      threshold |-> Clamp(Get("threshold"), 0, 100000000),
      floor     |-> Clamp(Get("floor"), 0, 1000000),
      channels  |-> IF Get("channels") = {} THEN DefaultPolicy.channels
                    ELSE Get("channels") \cap Channels,
      blackout  |-> Get("blackout"),
      stacking  |-> Get("stacking")]

\* SEGMENT_DEFAULTS, and _most_restrictive for a segment nobody configured.
Segment(cap, maxPct, threshold, floor, channels) ==
  [cap |-> cap, maxPct |-> maxPct, threshold |-> threshold, floor |-> floor,
   channels |-> channels]
Segments == {"d2c_subscription", "edtech", "saas", "nbfc_lending", "marketplace",
             "b2b_services", "other"}
SegmentDefaults ==
  [s \in Segments |->
     CASE s = "d2c_subscription" ->
            Segment(3, 15, 2500000, 10000, {"whatsapp", "sms", "email"})
       [] s = "edtech" ->
            Segment(4, 20, 5000000, 50000, {"whatsapp", "sms", "email", "voice"})
       [] s = "saas" -> Segment(2, 10, 10000000, 100000, {"email", "whatsapp"})
       [] s = "nbfc_lending" ->
            Segment(5, 2, 7500000, 50000, {"whatsapp", "sms", "voice"})
       [] s = "marketplace" ->
            Segment(2, 12, 1500000, 5000, {"whatsapp", "sms", "email"})
       [] s = "b2b_services" ->
            Segment(2, 5, 2500000, 500000, {"email", "whatsapp", "voice"})
       [] s = "other" -> Segment(2, 2, 1500000, 500000, {"email"})]

\* policy_pack rows, the active one, and load_policy: the newest active pack, or
\* conservative defaults.
Pack(version, settings, active) ==
  [version |-> version, compiled |-> settings, active |-> active]
IsPack(pack) ==
  /\ pack.version \in Nat /\ pack.active \in BOOLEAN
  /\ "cap" \in DOMAIN pack.compiled => pack.compiled.cap \in Int
Active(packs) == {pack \in packs : pack.active}
LoadPolicy(packs) ==
  IF Active(packs) = {} THEN DefaultPolicy
  ELSE Compile((CHOOSE p \in Active(packs) :
                  \A q \in Active(packs) : q.version <= p.version).compiled)

\* seed_defaults: a merchant that has an active pack is left alone.
SeedDefaults(packs, segment) ==
  IF Active(packs) # {} THEN packs
  ELSE packs \cup {Pack(1, SegmentDefaults[IF segment \in Segments THEN segment
                                          ELSE "other"], TRUE)}
=============================================================================
