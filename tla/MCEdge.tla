------------------------------- MODULE MCEdge -------------------------------
(* Two replicas behind a load balancer, a webhook and a forged one. *)
EXTENDS Edge
CONSTANTS r1, r2, w1, f1
TwoReplicas == {r1, r2}
OneReplica == {r1}
OneWebhook == {w1}
WithForged == {w1, f1}
ForgedOnly == {f1}
NoWebhooks == {}
NoFault == {}
AllFaults == FaultKinds
CrashOnly == {"crash"}
StopOnly == {"stop"}
SetTwiceOnly == {"set_twice"}
=============================================================================
