------------------------------ MODULE NodeStates ------------------------------
(***************************************************************************)
(* The life-event node state machine: the states a node of a case graph    *)
(* can be in and the table of transitions every state change is checked    *)
(* against (backend/app/workflows/state_machine.py, models/enums.py).      *)
(***************************************************************************)
NodeState ==
    {"PENDING", "READY", "WAITING_FOR_HUMAN", "SUBMITTING", "SUBMITTED",
     "PROCESSING", "WAITING_FOR_PARENT", "DOCUMENT_MISSING", "STALLED",
     "BLOCKED", "REJECTED", "CLEARED", "COMPLETED"}

DONE_STATES == {"CLEARED", "COMPLETED"}

\* The statuses an authority may report for an application.
ENTITY_REPORTABLE ==
    {"SUBMITTED", "PROCESSING", "CLEARED", "COMPLETED", "BLOCKED",
     "DOCUMENT_MISSING", "STALLED", "REJECTED", "WAITING_FOR_PARENT"}

\* The targets that may follow a state.
ALLOWED == [s \in NodeState |->
    CASE s = "PENDING" ->
           {"READY", "WAITING_FOR_PARENT", "DOCUMENT_MISSING", "BLOCKED"}
      [] s = "READY" ->
           {"WAITING_FOR_HUMAN", "WAITING_FOR_PARENT", "DOCUMENT_MISSING",
            "SUBMITTING", "PENDING", "BLOCKED"}
      [] s = "WAITING_FOR_HUMAN" ->
           {"SUBMITTING", "BLOCKED", "DOCUMENT_MISSING", "REJECTED", "READY"}
      [] s = "SUBMITTING" ->
           {"SUBMITTED", "PROCESSING", "STALLED", "BLOCKED", "REJECTED",
            "DOCUMENT_MISSING"}
      [] s = "SUBMITTED" ->
           {"PROCESSING", "CLEARED", "COMPLETED", "BLOCKED",
            "DOCUMENT_MISSING", "STALLED", "REJECTED", "WAITING_FOR_PARENT"}
      [] s = "PROCESSING" ->
           {"CLEARED", "COMPLETED", "BLOCKED", "DOCUMENT_MISSING", "STALLED",
            "REJECTED", "WAITING_FOR_PARENT"}
      [] s = "WAITING_FOR_PARENT" ->
           {"PROCESSING", "COMPLETED", "CLEARED", "STALLED",
            "DOCUMENT_MISSING", "READY", "WAITING_FOR_HUMAN", "BLOCKED"}
      [] s = "DOCUMENT_MISSING" ->
           {"READY", "WAITING_FOR_HUMAN", "WAITING_FOR_PARENT", "BLOCKED",
            "SUBMITTING"}
      [] s = "STALLED" ->
           {"SUBMITTING", "SUBMITTED", "PROCESSING", "WAITING_FOR_HUMAN",
            "WAITING_FOR_PARENT", "BLOCKED", "CLEARED", "COMPLETED", "READY",
            "DOCUMENT_MISSING", "REJECTED"}
      [] s = "BLOCKED" ->
           {"WAITING_FOR_HUMAN", "DOCUMENT_MISSING", "READY", "SUBMITTING",
            "REJECTED"}
      [] s = "REJECTED" -> {"WAITING_FOR_HUMAN", "READY"}
      [] s = "CLEARED" -> {"COMPLETED"}
      [] s = "COMPLETED" -> {}]

can_transition(s, t) == t \in ALLOWED[s]

\* Mutant: documents can be asked for after the authority cleared the node.
assert_transition_reopening(s, t) ==
    s = t \/ can_transition(s, t) \/ (s = "CLEARED" /\ t = "DOCUMENT_MISSING")

\* assert_transition lets a node stay where it is and raises InvalidTransition
\* (here: is false) on everything else that the table does not list.
assert_transition(s, t) == s = t \/ can_transition(s, t)
================================================================================
