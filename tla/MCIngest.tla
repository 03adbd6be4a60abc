------------------------------ MODULE MCIngest ------------------------------
(* Events about one obligation o1, in any order and number.  A failure also    *)
(* comes a second time under a new id.                                         *)
EXTENDS Ingest, TLC
CONSTANTS m1, m2

Event(id, type, body) ==
  [id |-> id, type |-> type, obligation |-> "o1", version |-> 1, body |-> body]
Failed == Event("evt_fail", "payment.failed", "good")
FailedAgain == Event("evt_again", "payment.failed", "good")
Captured == Event("evt_cap", "payment.captured", "good")
Ignored == Event("evt_other", "other", "good")
Malformed == Event("evt_bad", "payment.failed", "malformed")
Poisoned == Event("evt_poison", "payment.failed", "fatal")
Unparseable == Event("evt_none", "unparseable", "malformed")

FailAndCapture == {Failed, Captured}
WithMalformed == {Failed, Malformed}
WithPoisoned == {Failed, Poisoned}
Mixed == {Failed, FailedAgain, Captured, Malformed, Poisoned, Unparseable, Ignored}
OneObligation == {"o1"}
OneMember == {m1}
TwoMembers == {m1, m2}
MemberSymmetry == Permutations(TwoMembers)
UpOnly == {TRUE}
DownOnly == {FALSE}
=============================================================================
