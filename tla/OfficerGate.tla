------------------------------ MODULE OfficerGate ------------------------------
(***************************************************************************)
(* The officer gate of one node that is filed, as its operations look from *)
(* outside (services/approval_service.py): each one a single step that     *)
(* decides from what is so at that moment. CaseFiling, where requests are  *)
(* atomic, passes every filing through such a gate; Decisions, where they  *)
(* are transactions that read before they write, is such a gate as long as *)
(* they do not cross.                                                      *)
(***************************************************************************)
EXTENDS Naturals, NodeStates

VARIABLES
    node,      \* the node's state
    pending,   \* an approval of the node is PENDING
    released,  \* how many filings were released
    missing    \* a document the node needs is outstanding

vars == <<node, pending, released, missing>>

Init ==
    /\ node = "PENDING"
    /\ ~ pending
    /\ released = 0
    /\ missing \in BOOLEAN

Approve ==
    /\ pending /\ node = "WAITING_FOR_HUMAN" /\ ~ missing
    /\ node' = "SUBMITTING" /\ pending' = FALSE /\ released' = released + 1
    /\ UNCHANGED missing

Reject ==
    /\ pending /\ assert_transition(node, "BLOCKED")
    /\ node' = "BLOCKED" /\ pending' = FALSE
    /\ UNCHANGED <<released, missing>>

\* Documents are asked for, which may be none that this node needs.
Ask ==
    /\ assert_transition(node, "DOCUMENT_MISSING")
    /\ node' = "DOCUMENT_MISSING" /\ pending' = FALSE
    /\ missing' \in BOOLEAN /\ (missing => missing')
    /\ UNCHANGED released

REQUESTABLE_FROM == {"READY", "DOCUMENT_MISSING", "BLOCKED", "REJECTED", "STALLED"}

Park == ~ pending /\ pending' = TRUE /\ node' = "WAITING_FOR_HUMAN" /\ UNCHANGED released

\* By an officer, or by the orchestrator when the node can start.
Prepare ==
    /\ Park
    /\ node \in REQUESTABLE_FROM \/ (node = "PENDING" /\ ~ missing)
    /\ UNCHANGED missing

\* An upload resumes a node that has what it needs.
Resume == Park /\ node = "DOCUMENT_MISSING" /\ missing' = FALSE

\* A document comes or goes.
Document == missing' = ~ missing /\ UNCHANGED <<node, pending, released>>

\* The outcome of a submission is validated against the state it loaded, and
\* may be committed over another.
LateOutcome(s) ==
    s \in {"SUBMITTED", "STALLED"} /\ released > 0 /\ node \notin DONE_STATES

\* Submissions, statuses, retries, deadlines and a start without documents move
\* the node, but never to the gate and never past it.
Move ==
    /\ \E s \in NodeState \ {"WAITING_FOR_HUMAN"} :
          /\ can_transition(node, s) \/ LateOutcome(s)
          /\ node = "WAITING_FOR_HUMAN" => s # "SUBMITTING"
          /\ node' = s
    /\ missing' \in BOOLEAN
    /\ UNCHANGED <<pending, released>>

Next ==
    Approve \/ Reject \/ Ask \/ Prepare \/ Resume \/ Document \/ Move

Spec == Init /\ [][Next]_vars
================================================================================
