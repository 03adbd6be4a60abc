----------------------------- MODULE MCRecovery -----------------------------
(* Small merchants: c1 and c2 are ordinary cases, h1 is in the holdout arm, e1 *)
(* is above the approval threshold.                                            *)
EXTENDS Recovery
CONSTANTS c1, c2, h1, e1, p1, p2, r1, r2

NoCases == {}
HeldAndOne == {c1, h1}
OneCase == {c1}
TwoCases == {c1, c2}
MixedCases == {c1, h1, e1}
HeldCases == {h1}
BigCases == {e1}
Message == {"message"}
OnePlanner == {p1}
TwoPlanners == {p1, p2}
NoReviewer == {}
OneReviewer == {r1}
TwoReviewers == {r1, r2}
=============================================================================
