----------------------------- MODULE CaseStates -----------------------------
(***************************************************************************)
(* The states of a recovery case and the state machine that              *)
(* control/yukti/domain/fsm.py declares for it.                            *)
(***************************************************************************)

CaseState == {"open", "planning", "held_out", "scheduled", "escalated", "acting",
              "awaiting_outcome", "stopped", "recovered", "lost"}

\* _CASE_TRANSITIONS: the states each state may go to.
CaseTransitions ==
  [s \in CaseState |->
     CASE s = "open" -> {"planning", "scheduled", "escalated", "awaiting_outcome",
                         "held_out", "stopped", "recovered"}
       [] s = "planning" -> {"scheduled", "escalated", "held_out", "stopped",
                             "recovered"}
       [] s = "held_out" -> {"planning", "stopped", "recovered", "lost"}
       [] s = "scheduled" -> {"acting", "planning", "escalated", "stopped",
                              "recovered"}
       [] s = "escalated" -> {"acting", "scheduled", "stopped", "recovered", "lost"}
       [] s = "acting" -> {"awaiting_outcome", "stopped", "recovered"}
       [] s = "awaiting_outcome" -> {"planning", "recovered", "lost", "stopped"}
       [] OTHER -> {}]

\* CaseState.is_terminal, and the live cases of case_one_live_per_obligation.
Terminal == {"stopped", "recovered", "lost"}
Live == CaseState \ Terminal

\* can_transition_case
CanTransition(src, dst) == dst \in CaseTransitions[src]
=============================================================================
