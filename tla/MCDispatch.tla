----------------------------- MODULE MCDispatch -----------------------------
(* Two dispatchers racing on two fingerprints. *)
EXTENDS Dispatch
CONSTANTS p1, p2, k1, k2
MCProcs == {p1, p2}
MCKeys == {k1, k2}
=============================================================================
