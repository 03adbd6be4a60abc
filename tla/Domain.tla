------------------------------- MODULE Domain -------------------------------
(***************************************************************************)
(* The closed vocabularies of control/yukti/domain and the decline table.  *)
(* Amounts are paise, times are hours, discounts and fees whole percents.  *)
(***************************************************************************)
EXTENDS Naturals

ActionKinds == {"suppress", "silent_retry", "schedule_debit", "payment_link",
                "message", "voice_call", "discount_offer", "escalate"}
ContactsCustomer(kind) == kind \in {"message", "voice_call", "discount_offer"}
MovesMoney(kind) == kind \in {"silent_retry", "schedule_debit"}

Channels == {"none", "whatsapp", "sms", "email", "voice"}
MandateRails == {"upi_autopay", "enach", "card_recurring"}
Rails == MandateRails \cup {"upi_intent", "upi_collect", "card", "netbanking", "wallet"}

\* CHANNEL_COST_PAISE
ChannelCost == [ch \in Channels |-> CASE ch = "none" -> 0 [] ch = "email" -> 10
                  [] ch = "sms" -> 25 [] ch = "whatsapp" -> 75 [] ch = "voice" -> 900]

DeclineSpec(transience, silently, actionable, attempts, gap) ==
  [transience |-> transience, silently |-> silently, actionable |-> actionable,
   maxAttempts |-> attempts, gap |-> gap]

System == {"BANK_DOWN", "PSP_TIMEOUT", "GATEWAY_ERROR", "NPCI_UNAVAILABLE"}
Auth == {"AP39", "UPI_PIN_INCORRECT", "AUTH_TIMEOUT", "COLLECT_EXPIRED"}
NeedsChange == {"CARD_EXPIRED", "MANDATE_PAUSED", "AP12"}
Permanent == {"MANDATE_REVOKED", "ACCOUNT_CLOSED", "CARD_BLOCKED", "AP08"}
Codes == {"INSUFFICIENT_FUNDS", "AP01", "EXCEEDS_LIMIT"}
           \cup System \cup Auth \cup NeedsChange \cup Permanent

\* BY_CODE
DeclineTable ==
  [code \in Codes |->
     CASE code = "INSUFFICIENT_FUNDS" -> DeclineSpec("funds", TRUE, TRUE, 4, 24)
       [] code \in {"AP01", "EXCEEDS_LIMIT"} -> DeclineSpec("funds", TRUE, TRUE, 3, 24)
       [] code \in System -> DeclineSpec("system", TRUE, FALSE, 5, 1)
       [] code \in Auth -> DeclineSpec("auth", FALSE, TRUE, 3, 0)
       [] code \in NeedsChange -> DeclineSpec("semi_permanent", FALSE, TRUE, 1, 0)
       [] code \in Permanent -> DeclineSpec("permanent", FALSE, FALSE, 0, 0)]

\* A code that is not in the table, or none, is UNKNOWN: one cheap attempt.
Lookup(code) == IF code \in Codes THEN DeclineTable[code]
                ELSE DeclineSpec("unclassified", TRUE, TRUE, 1, 24)

Hour(t) == t % 24
Date(t) == t \div 24
=============================================================================
