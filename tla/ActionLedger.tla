---------------------------- MODULE ActionLedger ----------------------------
(***************************************************************************)
(* What the dispatcher promises its callers, without saying how: each      *)
(* idempotency key is claimed at most once, has at most one effect outside *)
(* and never before its claim, and is announced downstream at most once    *)
(* and never before its effect.  Dispatch implements it.                   *)
(***************************************************************************)
EXTENDS Naturals

CONSTANT Keys               \* the idempotency keys

VARIABLES
  claimed,                  \* keys whose intent is durable
  effects,                  \* effects[k]: times k acted on the outside world
  announced                 \* announced[k]: events published for k

vars == <<claimed, effects, announced>>

Init ==
  /\ claimed = {}
  /\ effects = [k \in Keys |-> 0]
  /\ announced = [k \in Keys |-> 0]

Claim(k) ==
  /\ k \notin claimed
  /\ claimed' = claimed \cup {k}
  /\ UNCHANGED <<effects, announced>>

Effect(k) ==
  /\ k \in claimed
  /\ effects[k] = 0
  /\ announced[k] = 0
  /\ effects' = [effects EXCEPT ![k] = 1]
  /\ UNCHANGED <<claimed, announced>>

Announce(k) ==
  /\ effects[k] = 1
  /\ announced[k] = 0
  /\ announced' = [announced EXCEPT ![k] = 1]
  /\ UNCHANGED <<claimed, effects>>

Next == \E k \in Keys : Claim(k) \/ Effect(k) \/ Announce(k)

Spec == Init /\ [][Next]_vars
=============================================================================
