------------------------------- MODULE Decisions -------------------------------
(***************************************************************************)
(* The officer gate of one node, with several officers, the orchestrator   *)
(* and the resident's uploads at once (services/approval_service.py,       *)
(* EntityService.release, DocumentService.resume_after_documents).         *)
(*                                                                         *)
(* Each of them is a transaction under READ COMMITTED: it reads the rows   *)
(* its handler decides from, and writes, when it commits, the columns its  *)
(* session changed, whatever they have become since. It reads at one       *)
(* instant. The first statement that writes locks the node's row, so       *)
(* writing and committing is one step, and what is read after it (the      *)
(* request of an idempotency key) is what is committed by then.            *)
(*                                                                         *)
(* Officers act on lists that may be out of date, so any approval can be   *)
(* named. All documents of the node are one. Filing, statuses, retries and *)
(* reports are in CaseFiling; here they move the node along the table.     *)
(***************************************************************************)
EXTENDS Naturals, NodeStates

CONSTANTS
    Clients,       \* officers, the orchestrator, residents that upload
    MaxApprovals,  \* bound: approvals of the node
    Occurring      \* the states the rest of the system moves the node to

ASSUME DecisionsAssumption ==
    /\ MaxApprovals \in Nat
    /\ Occurring \subseteq NodeState \ {"WAITING_FOR_HUMAN"}

VARIABLES
    node,      \* the node's state
    attempts,  \* the node's attempts column
    approval,  \* approval[k]: the state of the node's k-th approval
    request,   \* request[i]: the approval the request of attempt i was made under
    missing,   \* a document the node needs is outstanding
    tx,        \* tx[c]: the open transaction of client c
    crossed    \* history: a status took the node from the gate, or a
               \* transaction committed over what others had committed

vars == <<node, attempts, approval, request, missing, tx, crossed>>

Approvals == 1 .. MaxApprovals
None == 0
ApprovalState == {"none", "PENDING", "APPROVED", "REJECTED", "CANCELLED"}
Operations == {"none", "approve", "reject", "ask", "prepare", "upload", "resume"}

\* The approval a transaction decides, and what it read.
Transaction == [op : Operations, of : Approvals \cup {None}, node : NodeState,
                attempts : 0 .. MaxApprovals, missing : BOOLEAN, fresh : BOOLEAN]

Idle == [op |-> "none", of |-> None, node |-> "PENDING", attempts |-> 0, missing |-> FALSE, fresh |-> TRUE]

Pending == {k \in Approvals : approval[k] = "PENDING"}

Gate == INSTANCE OfficerGate WITH pending <- Pending # {}, released <- attempts

Init ==
    /\ node = "PENDING"
    /\ attempts = 0
    /\ approval = [k \in Approvals |-> "none"]
    /\ request = [i \in Approvals |-> None]
    /\ missing \in BOOLEAN
    /\ tx = [c \in Clients |-> Idle]
    /\ crossed = FALSE

--------------------------------------------------------------------------------
(* Reading: a handler raises here or goes on. *)

REQUESTABLE_FROM == {"READY", "DOCUMENT_MISSING", "BLOCKED", "REJECTED", "STALLED"}

Begin(c, op, k) ==
    /\ tx[c].op = "none"
    /\ tx' = [tx EXCEPT ![c] = [op |-> op, of |-> k, node |-> node, attempts |-> attempts,
                                missing |-> missing, fresh |-> TRUE]]
    /\ UNCHANGED <<node, attempts, approval, request, missing, crossed>>

\* Mutant: a submission is approved although a document is outstanding.
BeginApproveIncomplete(c, k) ==
    /\ approval[k] = "PENDING" /\ node = "WAITING_FOR_HUMAN"
    /\ Begin(c, "approve", k)

BeginApprove(c, k) ==
    /\ approval[k] = "PENDING" /\ node = "WAITING_FOR_HUMAN" /\ ~ missing
    /\ Begin(c, "approve", k)

BeginReject(c, k) ==
    /\ approval[k] = "PENDING" /\ assert_transition(node, "BLOCKED")
    /\ Begin(c, "reject", k)

\* An officer asks for documents of a node that has a pending approval or none.
BeginAsk(c) ==
    /\ assert_transition(node, "DOCUMENT_MISSING")
    /\ IF Pending = {} THEN Begin(c, "ask", None) ELSE \E k \in Pending : Begin(c, "ask", k)

\* The orchestrator takes a PENDING node through READY in one transaction.
\* With an approval pending request returns it and does nothing.
BeginPrepare(c) ==
    /\ Pending = {}
    /\ node \in REQUESTABLE_FROM \/ (node = "PENDING" /\ ~ missing)
    /\ Begin(c, "prepare", None)

\* An upload; a node that waits for it and has no approval is prepared again.
BeginUpload(c) ==
    IF node = "DOCUMENT_MISSING" /\ Pending = {} THEN Begin(c, "resume", None)
    ELSE missing /\ Begin(c, "upload", None)

--------------------------------------------------------------------------------
(* Writing. *)

\* The transaction of c is over; those that are open no longer see the newest rows.
Committed(c) ==
    /\ tx' = [d \in Clients |-> IF d = c THEN Idle
                                ELSE IF tx[d].op = "none" THEN Idle ELSE [tx[d] EXCEPT !.fresh = FALSE]]
    /\ crossed' = (crossed \/ ~ tx[c].fresh)

\* A column is written only if the session changed it.
write(c, target) == node' = IF tx[c].node = target THEN node ELSE target
writeMissing(c, value) == missing' = IF tx[c].missing = value THEN missing ELSE value

\* Mutant: the key is made from the row as it is now.
ApproveAnew(c) ==
    /\ tx[c].op = "approve" /\ attempts < MaxApprovals
    /\ approval' = [approval EXCEPT ![tx[c].of] = "APPROVED"]
    /\ attempts' = attempts + 1
    /\ request' = [request EXCEPT ![attempts + 1] = IF @ = None THEN tx[c].of ELSE @]
    /\ write(c, "SUBMITTING")
    /\ Committed(c)
    /\ UNCHANGED missing

\* Mutant: a repeated release counts as two attempts.
ApproveTwice(c) ==
    /\ tx[c].op = "approve"
    /\ approval' = [approval EXCEPT ![tx[c].of] = "APPROVED"]
    /\ attempts' = IF request[tx[c].attempts + 1] = None THEN tx[c].attempts + 1 ELSE attempts + 1
    /\ request' = [request EXCEPT ![tx[c].attempts + 1] = IF @ = None THEN tx[c].of ELSE @]
    /\ write(c, "SUBMITTING")
    /\ Committed(c)
    /\ UNCHANGED missing

\* approve and release: a request is made unless its key is there already.
Approve(c) ==
    /\ tx[c].op = "approve"
    /\ approval' = [approval EXCEPT ![tx[c].of] = "APPROVED"]
    /\ attempts' = tx[c].attempts + 1
    /\ request' = [request EXCEPT ![tx[c].attempts + 1] = IF @ = None THEN tx[c].of ELSE @]
    /\ write(c, "SUBMITTING")
    /\ Committed(c)
    /\ UNCHANGED missing

\* Mutant: the decision is recorded and the node stays at the gate.
RejectApprovalOnly(c) ==
    /\ tx[c].op = "reject"
    /\ approval' = [approval EXCEPT ![tx[c].of] = "REJECTED"]
    /\ Committed(c)
    /\ UNCHANGED <<node, attempts, request, missing>>

Reject(c) ==
    /\ tx[c].op = "reject"
    /\ approval' = [approval EXCEPT ![tx[c].of] = "REJECTED"]
    /\ write(c, "BLOCKED")
    /\ Committed(c)
    /\ UNCHANGED <<attempts, request, missing>>

\* Mutant: a document request does not cancel what was prepared.
AskKeeping(c) ==
    /\ tx[c].op = "ask"
    /\ writeMissing(c, TRUE)
    /\ write(c, "DOCUMENT_MISSING")
    /\ Committed(c)
    /\ UNCHANGED <<approval, attempts, request>>

Ask(c) ==
    /\ tx[c].op = "ask"
    /\ approval' = [k \in Approvals |-> IF k = tx[c].of THEN "CANCELLED" ELSE approval[k]]
    /\ writeMissing(c, TRUE)
    /\ write(c, "DOCUMENT_MISSING")
    /\ Committed(c)
    /\ UNCHANGED <<attempts, request>>

\* ApprovalService.request: a new approval, and the node is parked for it.
Request ==
    /\ \E k \in Approvals :
          /\ approval[k] = "none" /\ \A j \in Approvals : j < k => approval[j] # "none"
          /\ approval' = [approval EXCEPT ![k] = "PENDING"]
    /\ node' = "WAITING_FOR_HUMAN"

Prepare(c) ==
    /\ tx[c].op = "prepare"
    /\ Request
    /\ Committed(c)
    /\ UNCHANGED <<attempts, request, missing>>

Upload(c) ==
    /\ \/ tx[c].op = "upload" /\ UNCHANGED <<node, approval>>
       \/ tx[c].op = "resume" /\ Request
    /\ writeMissing(c, FALSE)
    /\ Committed(c)
    /\ UNCHANGED <<attempts, request>>

\* The handler raises or the connection is lost.
Rollback(c) ==
    /\ tx[c].op # "none"
    /\ tx' = [tx EXCEPT ![c] = Idle]
    /\ UNCHANGED <<node, attempts, approval, request, missing, crossed>>

\* Whatever else moves the node or its documents: submissions, whose outcomes may
\* come late, statuses, retries, deadlines, documents set by hand.
Move ==
    /\ UNCHANGED <<attempts, approval, request>>
    /\ Gate!Document \/ (Gate!Move /\ node' \in Occurring)
    /\ tx' = [c \in Clients |-> IF tx[c].op = "none" THEN Idle ELSE [tx[c] EXCEPT !.fresh = FALSE]]
    /\ crossed' = (crossed \/ (node = "WAITING_FOR_HUMAN" /\ node' # node))

Next ==
    \/ Move
    \/ \E c \in Clients :
          \/ BeginAsk(c) \/ BeginPrepare(c) \/ BeginUpload(c)
          \/ \E k \in Approvals : BeginApprove(c, k) \/ BeginReject(c, k)
          \/ Approve(c) \/ Reject(c) \/ Ask(c) \/ Prepare(c) \/ Upload(c) \/ Rollback(c)

Spec == Init /\ [][Next]_vars

--------------------------------------------------------------------------------
\* Every variable has its type; attempts never outrun the approvals.
TypeOK ==
    /\ node \in NodeState
    /\ attempts \in 0 .. MaxApprovals
    /\ approval \in [Approvals -> ApprovalState]
    /\ request \in [Approvals -> Approvals \cup {None}]
    /\ missing \in BOOLEAN
    /\ tx \in [Clients -> Transaction]
    /\ crossed \in BOOLEAN

\* However officers, uploads and the orchestrator overwrite one another, a node
\* that waits for an officer has an approval an officer can decide.
GateIsDecidable ==
    node = "WAITING_FOR_HUMAN" => Pending # {}

\* However many officers release the same prepared submission at once, or a
\* stale one is released later, an approval makes at most one request; the
\* idempotency key counts attempts as the transaction read them.
OneRequestPerApproval ==
    \A i, j \in Approvals : request[i] = request[j] /\ request[i] # None => i = j

\* When transactions do not cross, at most one approval is pending, and only
\* while the node waits for it; so preparing a node again is never answered
\* with an approval that no one can decide.
PendingIsAtGate ==
    ~ crossed => \A k \in Pending : node = "WAITING_FOR_HUMAN" /\ Pending = {k}

\* As long as transactions do not cross they might as well have been single
\* steps: each commit does what the operation does at that moment.
UncrossedIsSerial ==
    [][~ crossed' => [Gate!Next]_(Gate!vars)]_vars
================================================================================
