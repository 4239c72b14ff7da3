------------------------------ MODULE CaseFiling ------------------------------
(***************************************************************************)
(* One case: the life-event graph, the officer gate, the filing of a       *)
(* released request with an authority and the way back of its status.      *)
(*                                                                         *)
(* Actors: the orchestrator, the entity-submitter and the entity-status    *)
(* consumers (one consumer task, so one handler at a time), the officer    *)
(* and the resident (API requests), the poll and SLA jobs, the authority.  *)
(*                                                                         *)
(* An API request, a job iteration and a handler are one database          *)
(* transaction and one action, except entity-submitter: it loads the node, *)
(* waits for the authority (up to three attempts of five seconds) and      *)
(* commits what it computed from the node it loaded, so it takes two       *)
(* actions with everything else but the consumer running in between.       *)
(*                                                                         *)
(* Abstractions: a document is outstanding (MISSING, EXPIRED) or not; an   *)
(* SLA may expire whenever it is set; texts, timeline, audit, callbacks,   *)
(* escalations and officer access are not state here.                      *)
(***************************************************************************)
EXTENDS Integers, NodeStates

CONSTANTS
    Nodes,            \* keys of the graph's nodes
    ParentReported,   \* the nodes of type PARENT_REPORTED (the consulate)
    Deps,             \* Deps[n]: the nodes n depends on
    SuccessState,     \* SuccessState[n]: the done state of node n
    Docs,             \* document types
    RequiredDocs,     \* RequiredDocs[n]: documents node n needs
    Outputs,          \* Outputs[n]: documents node n's success brings
    InitiallyMissing, \* documents reported missing at intake
    Statuses,         \* the statuses the authorities report
    MaxAttempts,      \* bound: releases of one node
    MaxCopies,        \* bound: undelivered events of one kind for one request
    OfficerAsksEarly, \* officers ask for documents of nodes not yet started
    RetryOverlaps     \* officers retry a release that is still undelivered

ASSUME NodesAssumption ==
    /\ ParentReported \subseteq Nodes
    /\ Deps \in [Nodes -> SUBSET Nodes]
    /\ SuccessState \in [Nodes -> DONE_STATES]

ASSUME DocsAssumption ==
    /\ RequiredDocs \in [Nodes -> SUBSET Docs]
    /\ Outputs \in [Nodes -> SUBSET Docs]
    /\ InitiallyMissing \subseteq Docs

ASSUME BoundsAssumption ==
    /\ Statuses \subseteq ENTITY_REPORTABLE
    /\ "SUBMITTED" \in Statuses
    /\ MaxAttempts \in Nat
    /\ MaxCopies \in Nat
    /\ OfficerAsksEarly \in BOOLEAN
    /\ RetryOverlaps \in BOOLEAN

VARIABLES
    node,         \* node[n]: state of n
    pending,      \* the nodes with a PENDING approval
    granted,      \* granted[n]: number of approvals of n that were APPROVED
    attempts,     \* attempts[n]: the node's attempts column
    request,      \* request[n][k]: state of the k-th entity request of n
    filed,        \* filed[n]: the requests of n whose external_ref is stored
    outstanding,  \* the documents that are MISSING or EXPIRED
    releases,     \* releases[n][k]: undelivered EntityRequestReleased events
    statuses,     \* statuses[n][k][s]: undelivered EntityStatusReceived events
    submission,   \* the submission entity-submitter is waiting for
    wake,         \* an orchestrator trigger is undelivered
    application,  \* application[n][k]: status of the authority's record
    confirmed     \* history: nodes an authority confirmed the success of

requestVars == <<attempts, request, filed>>
eventVars   == <<releases, statuses>>
world       == <<application, confirmed>>
vars == <<node, pending, granted, requestVars, outstanding, eventVars,
          submission, wake, world>>

Attempts == 1 .. MaxAttempts
Filings  == Nodes \ ParentReported
None     == "NONE"  \* no such request, no such application

\* What an authority can decide about an application it has received.
Decisions == Statuses \ {"SUBMITTED"}

RequestState == ENTITY_REPORTABLE \cup {None, "SUBMITTING", "FAILED"}

Outcomes == {"ACCEPTED", "UNREACHABLE"}
Submission == [node : Nodes, k : Attempts, seen : NodeState, outcome : Outcomes]
Idle == [node |-> None, k |-> 0, seen |-> None, outcome |-> None]

--------------------------------------------------------------------------------
(* Steps the handlers share. *)

\* Mutant: only a change that comes with a reason is recorded as an event.
transition_silent(n, target, reason) ==
    /\ assert_transition(node[n], target)
    /\ node' = [node EXCEPT ![n] = target]
    /\ wake' = (wake \/ reason)

\* GraphService.transition: validated, records the node event that wakes the
\* orchestrator; a move to the present state without a reason records nothing.
transition(n, target, reason) ==
    /\ assert_transition(node[n], target)
    /\ node' = [node EXCEPT ![n] = target]
    /\ wake' = (wake \/ reason \/ node[n] # target)

missing_for_node(n, docs) == RequiredDocs[n] \cap docs

\* Mutant: a dependency that has started is taken for one that is done.
unlockable_early ==
    {n \in Nodes : node[n] = "PENDING" /\ \A d \in Deps[n] : node[d] # "PENDING"}

unlockable ==
    {n \in Nodes : node[n] = "PENDING"
                   /\ \A d \in Deps[n] : node[d] \in DONE_STATES}

\* Where ApprovalService.request leaves a node it is called for in state s: a
\* pending approval is returned as it is and the node does not move.
Gated(n, s) == IF n \in pending THEN s ELSE "WAITING_FOR_HUMAN"

\* DocumentService.resume_after_documents with the given documents outstanding.
resumable(docs) ==
    {n \in Nodes : node[n] = "DOCUMENT_MISSING"
                   /\ missing_for_node(n, docs) = {}}

\* Mutant: the node goes back to the gate without a new approval.
resume_without_approval(docs) ==
    /\ node' = [n \in Nodes |->
          IF n \notin resumable(docs) THEN node[n]
          ELSE IF n \in ParentReported THEN "WAITING_FOR_PARENT"
          ELSE "WAITING_FOR_HUMAN"]
    /\ pending' = pending
    /\ wake' = (wake \/ node' # node)

resume_after_documents(docs) ==
    LET resumed == resumable(docs)
    IN  /\ node' = [n \in Nodes |->
              IF n \notin resumed THEN node[n]
              ELSE IF n \in ParentReported THEN "WAITING_FOR_PARENT"
              ELSE Gated(n, node[n])]
        /\ pending' = pending \cup (resumed \cap Filings)
        /\ wake' = (wake \/ node' # node)

--------------------------------------------------------------------------------
(* Case creation: every node PENDING, IntakeCompleted in the outbox. *)

Init ==
    /\ node = [n \in Nodes |-> "PENDING"]
    /\ pending = {}
    /\ granted = [n \in Nodes |-> 0]
    /\ attempts = [n \in Nodes |-> 0]
    /\ request = [n \in Nodes |-> [k \in Attempts |-> None]]
    /\ filed = [n \in Nodes |-> {}]
    /\ outstanding = InitiallyMissing
    /\ releases = [n \in Nodes |-> [k \in Attempts |-> 0]]
    /\ statuses = [n \in Nodes |-> [k \in Attempts |-> [s \in Statuses |-> 0]]]
    /\ submission = Idle
    /\ wake = TRUE
    /\ application = [n \in Nodes |-> [k \in Attempts |-> None]]
    /\ confirmed = {}

--------------------------------------------------------------------------------
(* The orchestrator. *)

\* Mutant: only filings are planned.
PlannedFilings(n) ==
    IF n \in ParentReported THEN "PENDING"
    ELSE IF missing_for_node(n, outstanding) # {} THEN "DOCUMENT_MISSING"
    ELSE Gated(n, "READY")

\* plan_next_action and entity_action for one unlocked node.
Planned(n) ==
    IF n \in ParentReported THEN "WAITING_FOR_PARENT"
    ELSE IF missing_for_node(n, outstanding) # {} THEN "DOCUMENT_MISSING"
    ELSE Gated(n, "READY")

PreparedByOrchestrator ==
    {n \in unlockable \cap Filings : missing_for_node(n, outstanding) = {}}

\* One trigger is consumed. It need not have been the last one; a run that
\* moves a node records new ones.
Orchestrate ==
    /\ wake
    /\ submission = Idle
    /\ node' = [n \in Nodes |-> IF n \in unlockable THEN Planned(n) ELSE node[n]]
    /\ pending' = pending \cup PreparedByOrchestrator
    /\ wake' \in {TRUE, unlockable # {}}
    /\ UNCHANGED <<granted, requestVars, outstanding, eventVars, submission, world>>

--------------------------------------------------------------------------------
(* The officer. *)

\* EntityService.release: a request of its own for this attempt, and its event.
release(n) ==
    LET k == attempts[n] + 1
    IN  /\ k <= MaxAttempts
        /\ attempts' = [attempts EXCEPT ![n] = k]
        /\ request' = [request EXCEPT ![n][k] = "SUBMITTING"]
        /\ releases' = [releases EXCEPT ![n][k] = @ + 1]
        /\ transition(n, "SUBMITTING", FALSE)

\* Approve & Release.
Approve(n) ==
    /\ n \in pending
    /\ node[n] = "WAITING_FOR_HUMAN"
    /\ missing_for_node(n, outstanding) = {}
    /\ pending' = pending \ {n}
    /\ granted' = [granted EXCEPT ![n] = @ + 1]
    /\ release(n)
    /\ UNCHANGED <<filed, outstanding, statuses, submission, world>>

\* Asks only that the approval is PENDING; an InvalidTransition undoes it all.
Reject(n) ==
    /\ n \in pending
    /\ pending' = pending \ {n}
    /\ transition(n, "BLOCKED", TRUE)
    /\ UNCHANGED <<granted, requestVars, outstanding, eventVars, submission, world>>

\* Any node may be asked about, also one that has not started.
RequestDocuments(n, docs) ==
    /\ docs # {}
    /\ OfficerAsksEarly \/ node[n] # "PENDING"
    /\ pending' = pending \ {n}
    /\ outstanding' = outstanding \cup docs
    /\ \/ node[n] = "DOCUMENT_MISSING" /\ UNCHANGED <<node, wake>>
       \/ node[n] # "DOCUMENT_MISSING" /\ transition(n, "DOCUMENT_MISSING", TRUE)
    /\ UNCHANGED <<granted, requestVars, eventVars, submission, world>>

REQUESTABLE_FROM == {"READY", "DOCUMENT_MISSING", "BLOCKED", "REJECTED", "STALLED"}

\* ApprovalService.request, as an officer's prepare, the agent's prepare tools
\* and the demo panel call it. With a pending approval it changes nothing.
Prepare(n) ==
    /\ n \notin pending
    /\ node[n] \in REQUESTABLE_FROM
    /\ pending' = pending \cup {n}
    /\ node' = [node EXCEPT ![n] = "WAITING_FOR_HUMAN"]
    /\ wake' = TRUE
    /\ UNCHANGED <<granted, requestVars, outstanding, eventVars, submission, world>>

\* Mutant: retry releases again instead of reusing the released request.
RetryReleasing(n) ==
    LET k == attempts[n] + 1
    IN  /\ node[n] = "STALLED"
        /\ k \in 2 .. MaxAttempts
        /\ attempts' = [attempts EXCEPT ![n] = k]
        /\ request' = [request EXCEPT ![n][k] = "SUBMITTING"]
        /\ releases' = [releases EXCEPT ![n][k] = @ + 1]
        /\ transition(n, "SUBMITTING", FALSE)
        /\ UNCHANGED <<pending, granted, filed, outstanding, statuses,
                       submission, world>>

\* Mutant: retry moves the node and forgets the event.
RetryWithoutEvent(n) ==
    /\ node[n] = "STALLED"
    /\ attempts[n] > 0
    /\ attempts[n] \notin filed[n]
    /\ request' = [request EXCEPT ![n][attempts[n]] = "SUBMITTING"]
    /\ transition(n, "SUBMITTING", FALSE)
    /\ UNCHANGED <<pending, granted, attempts, filed, outstanding, eventVars,
                   submission, world>>

\* Retry of a stalled submission that never reached the authority.
Retry(n) ==
    LET k == attempts[n]
    IN  /\ node[n] = "STALLED"
        /\ k > 0
        /\ k \notin filed[n]
        /\ releases[n][k] < IF RetryOverlaps THEN MaxCopies ELSE 1
        /\ request' = [request EXCEPT ![n][k] = "SUBMITTING"]
        /\ releases' = [releases EXCEPT ![n][k] = @ + 1]
        /\ transition(n, "SUBMITTING", FALSE)
        /\ UNCHANGED <<pending, granted, attempts, filed, outstanding,
                       statuses, submission, world>>

--------------------------------------------------------------------------------
(* Documents. *)

\* A resident's upload, or an officer setting UPLOADED, VERIFIED or
\* NOT_APPLICABLE.
ProvideDocument(d) ==
    /\ outstanding' = outstanding \ {d}
    /\ resume_after_documents(outstanding \ {d})
    /\ UNCHANGED <<granted, requestVars, eventVars, submission, world>>

\* An officer setting MISSING or EXPIRED, or back to REQUIRED: no node moves.
SetDocumentStatus(d) ==
    /\ outstanding' \in {outstanding \cup {d}, outstanding \ {d}}
    /\ UNCHANGED <<node, pending, granted, requestVars, eventVars, submission,
                   wake, world>>

--------------------------------------------------------------------------------
(* The parent reports a consulate milestone. *)

OPEN_STATES == {"WAITING_FOR_PARENT", "PROCESSING", "STALLED"}

MILESTONES ==
    [APPOINTMENT_BOOKED |-> "WAITING_FOR_PARENT",
     APPLICATION_SUBMITTED |-> "PROCESSING",
     PASSPORT_ISSUED |-> "COMPLETED",
     DELAYED |-> "STALLED"]

\* An issued passport is no longer MISSING (an EXPIRED one stays so).
Report(n, m) ==
    /\ node[n] \in OPEN_STATES
    /\ transition(n, MILESTONES[m], m = "DELAYED")
    /\ IF m = "PASSPORT_ISSUED"
       THEN outstanding' \in {outstanding, outstanding \ Outputs[n]}
       ELSE UNCHANGED outstanding
    /\ UNCHANGED <<pending, granted, requestVars, eventVars, submission, world>>

--------------------------------------------------------------------------------
(* entity-submitter: EntityService.submit. *)

\* Mutant: an event is acknowledged that was not delivered.
SkipSubmitUndelivered(n, k) ==
    /\ submission = Idle
    /\ request[n][k] # "SUBMITTING"
    /\ releases' = [releases EXCEPT ![n][k] = @ - 1]
    /\ UNCHANGED <<node, pending, granted, requestVars, outstanding, statuses,
                   submission, wake, world>>

\* The event's request is no longer SUBMITTING: acknowledged without effect.
SkipSubmit(n, k) ==
    /\ submission = Idle
    /\ releases[n][k] > 0
    /\ request[n][k] # "SUBMITTING"
    /\ releases' = [releases EXCEPT ![n][k] = @ - 1]
    /\ UNCHANGED <<node, pending, granted, requestVars, outstanding, statuses,
                   submission, wake, world>>

\* The consulate adapter refuses without a call (NotSupported). When the node
\* cannot become BLOCKED the handler fails and the event is dead-lettered.
SubmitRefused(n, k) ==
    /\ submission = Idle
    /\ releases[n][k] > 0
    /\ request[n][k] = "SUBMITTING"
    /\ n \in ParentReported
    /\ releases' = [releases EXCEPT ![n][k] = @ - 1]
    /\ IF assert_transition(node[n], "BLOCKED")
       THEN /\ transition(n, "BLOCKED", TRUE)
            /\ request' = [request EXCEPT ![n][k] = "FAILED"]
       ELSE UNCHANGED <<node, wake, request>>
    /\ UNCHANGED <<pending, granted, attempts, filed, outstanding, statuses,
                   submission, world>>

\* The node is loaded and the authority called, with retries. An accepted
\* filing is recorded by the authority once per idempotency key; a timeout
\* does not tell whether it was.
SubmitCall(n, k, outcome) ==
    /\ submission = Idle
    /\ releases[n][k] > 0
    /\ request[n][k] = "SUBMITTING"
    /\ n \in Filings
    /\ submission' = [node |-> n, k |-> k, seen |-> node[n], outcome |-> outcome]
    /\ LET recorded == IF application[n][k] = None THEN "SUBMITTED"
                       ELSE application[n][k]
           accepted == [application EXCEPT ![n][k] = recorded]
       IN  application' \in IF outcome = "ACCEPTED" THEN {accepted}
                            ELSE {accepted, application}
    /\ UNCHANGED <<node, pending, granted, requestVars, outstanding, eventVars,
                   wake, confirmed>>

SubmitTarget == IF submission.outcome = "ACCEPTED" THEN "SUBMITTED" ELSE "STALLED"

\* Mutant: an unreachable authority fails the handler, which never gives up.
SubmitCommitOrRetry ==
    /\ submission # Idle
    /\ submission' = Idle
    /\ IF submission.outcome = "UNREACHABLE" THEN UNCHANGED <<node, request, filed, releases>>
       ELSE /\ node' = [node EXCEPT ![submission.node] = "SUBMITTED"]
            /\ request' = [request EXCEPT ![submission.node][submission.k] = "SUBMITTED"]
            /\ filed' = [filed EXCEPT ![submission.node] = @ \cup {submission.k}]
            /\ releases' = [releases EXCEPT ![submission.node][submission.k] = @ - 1]
    /\ wake' = TRUE
    /\ UNCHANGED <<pending, granted, attempts, outstanding, statuses, world>>

\* The outcome is committed. The transition is validated against, and writes
\* the state only when it differs from, the state that was loaded.
SubmitCommit ==
    LET n == submission.node
        k == submission.k
    IN  /\ submission # Idle
        /\ assert_transition(submission.seen, SubmitTarget)
        /\ submission' = Idle
        /\ node' = IF submission.seen = SubmitTarget THEN node
                   ELSE [node EXCEPT ![n] = SubmitTarget]
        /\ wake' = (wake \/ submission.seen # SubmitTarget
                         \/ submission.outcome = "UNREACHABLE")
        /\ request' = [request EXCEPT ![n][k] = SubmitTarget]
        /\ filed' = IF submission.outcome = "ACCEPTED"
                    THEN [filed EXCEPT ![n] = @ \cup {k}] ELSE filed
        /\ releases' = [releases EXCEPT ![n][k] = @ - 1]
        /\ UNCHANGED <<pending, granted, attempts, outstanding, statuses, world>>

\* InvalidTransition: nothing is written. The handler runs again, and after its
\* third failure the event is dead-lettered.
SubmitFails ==
    LET n == submission.node
        k == submission.k
    IN  /\ submission # Idle
        /\ ~ assert_transition(submission.seen, SubmitTarget)
        /\ submission' = Idle
        /\ releases' \in {releases, [releases EXCEPT ![n][k] = @ - 1]}
        /\ UNCHANGED <<node, pending, granted, requestVars, outstanding,
                       statuses, wake, world>>

\* The process dies while the authority is being called. The offset of the
\* event was not committed, so Kafka delivers it again.
CrashInSubmit ==
    /\ submission # Idle
    /\ submission' = Idle
    /\ UNCHANGED <<node, pending, granted, requestVars, outstanding, eventVars,
                   wake, world>>

--------------------------------------------------------------------------------
(* Status: the poll job, the demo simulation and the entity-status consumer. *)

POLLABLE == {"SUBMITTED", "PROCESSING", "WAITING_FOR_PARENT"}

Poll(n, k) ==
    LET s == application[n][k]
    IN  /\ request[n][k] \in POLLABLE
        /\ k \in filed[n]
        /\ s \notin {None, request[n][k]}
        /\ statuses[n][k][s] < MaxCopies
        /\ statuses' = [statuses EXCEPT ![n][k][s] = @ + 1]
        /\ UNCHANGED <<node, pending, granted, requestVars, outstanding,
                       releases, submission, wake, world>>

\* ApplicationNotFound: filed again under the same idempotency key.
Refile(n, k) ==
    /\ request[n][k] \in POLLABLE
    /\ k \in filed[n]
    /\ application[n][k] = None
    /\ application' = [application EXCEPT ![n][k] = "SUBMITTED"]
    /\ UNCHANGED <<node, pending, granted, requestVars, outstanding, eventVars,
                   submission, wake, confirmed>>

\* The authority moves an application on.
AuthorityDecides(n, k, s) ==
    /\ application[n][k] \notin {None, s}
    /\ application' = [application EXCEPT ![n][k] = s]
    /\ confirmed' = IF s \in DONE_STATES THEN confirmed \cup {n} ELSE confirmed
    /\ UNCHANGED <<node, pending, granted, requestVars, outstanding, eventVars,
                   submission, wake>>

\* The authority loses its record (the mock's cache is reset or expires).
AuthorityForgets(n, k) ==
    /\ application[n][k] # None
    /\ application' = [application EXCEPT ![n][k] = None]
    /\ UNCHANGED <<node, pending, granted, requestVars, outstanding, eventVars,
                   submission, wake, confirmed>>

\* Demo control: set the status of the latest request and fetch it at once.
Simulate(n, s) ==
    LET k == attempts[n]
    IN  /\ k > 0
        /\ k \in filed[n]
        /\ statuses[n][k][s] < MaxCopies
        /\ application' = [application EXCEPT ![n][k] = s]
        /\ confirmed' = IF s \in DONE_STATES THEN confirmed \cup {n} ELSE confirmed
        /\ statuses' = [statuses EXCEPT ![n][k][s] = @ + 1]
        /\ UNCHANGED <<node, pending, granted, requestVars, outstanding,
                       releases, submission, wake>>

\* Mutant: every status that is not a failure of the authority is a success.
StatusTargetLax(n, s) ==
    IF s \notin {"BLOCKED", "STALLED", "REJECTED"} THEN SuccessState[n] ELSE s

\* The node state a reported status stands for.
StatusTarget(n, s) == IF s \in DONE_STATES THEN SuccessState[n] ELSE s

\* The statuses apply_status passes on with a reason.
WithReason == {"DOCUMENT_MISSING", "BLOCKED", "STALLED", "REJECTED"}

\* apply_status: the request takes the status whatever the node does with it;
\* an invalid transition is logged and ignored.
ApplyStatus(n, k, s, docs) ==
    LET applies == s # "SUBMITTED" /\ assert_transition(node[n], StatusTarget(n, s))
    IN  /\ submission = Idle
        /\ statuses[n][k][s] > 0
        /\ statuses' = [statuses EXCEPT ![n][k][s] = @ - 1]
        /\ request' = [request EXCEPT ![n][k] = s]
        /\ IF applies THEN transition(n, StatusTarget(n, s), s \in WithReason)
                      ELSE UNCHANGED <<node, wake>>
        /\ outstanding' = IF s = "DOCUMENT_MISSING" THEN outstanding \cup docs
                          ELSE IF s \in DONE_STATES /\ applies
                          THEN outstanding \ Outputs[n]
                          ELSE outstanding
        /\ UNCHANGED <<pending, granted, attempts, filed, releases, submission, world>>

\* The SLA watchdog: a filing past its due time is STALLED.
SlaWatchdog(n) ==
    /\ n \in Filings
    /\ node[n] \in {"SUBMITTED", "PROCESSING"}
    /\ transition(n, "STALLED", TRUE)
    /\ UNCHANGED <<pending, granted, requestVars, outstanding, eventVars,
                   submission, world>>
--------------------------------------------------------------------------------

NonEmptyDocs == SUBSET Docs \ {{}}

Officer(n) ==
    \/ Approve(n) \/ Reject(n) \/ Prepare(n) \/ Retry(n)
    \/ \E docs \in NonEmptyDocs : RequestDocuments(n, docs)

Submitter(n, k) ==
    \/ SkipSubmit(n, k) \/ SubmitRefused(n, k)
    \/ \E outcome \in Outcomes : SubmitCall(n, k, outcome)

StatusReports(n, k) ==
    \/ Poll(n, k) \/ Refile(n, k)
    \/ \E s \in Statuses, docs \in NonEmptyDocs : ApplyStatus(n, k, s, docs)

Authority(n, k) ==
    \/ AuthorityForgets(n, k)
    \/ \E s \in Decisions : AuthorityDecides(n, k, s)

Next ==
    \/ Orchestrate
    \/ SubmitCommit \/ SubmitFails \/ CrashInSubmit
    \/ \E d \in Docs : ProvideDocument(d) \/ SetDocumentStatus(d)
    \/ \E n \in ParentReported, m \in DOMAIN MILESTONES : Report(n, m)
    \/ \E n \in Nodes :
          \/ Officer(n) \/ SlaWatchdog(n)
          \/ \E s \in Decisions : Simulate(n, s)
          \/ \E k \in Attempts :
                Submitter(n, k) \/ StatusReports(n, k) \/ Authority(n, k)

Spec == Init /\ [][Next]_vars

(***************************************************************************)
(* Fairness. The one consumer task handles the events of its topics in     *)
(* the order they were published, so an event is handled although others   *)
(* keep coming (strong fairness: a handler waits while a submission is in  *)
(* progress); and the process does not die in every call it makes to an    *)
(* authority. People, authorities and timers owe nothing.                  *)
(***************************************************************************)
FairSpec ==
    /\ Spec
    /\ SF_vars(Orchestrate)
    /\ SF_vars(SubmitCommit)
    /\ SF_vars(SubmitFails)
    /\ \A n \in Nodes, k \in Attempts : SF_vars(Submitter(n, k))

--------------------------------------------------------------------------------
TypeOK ==
    /\ node \in [Nodes -> NodeState]
    /\ pending \subseteq Nodes
    /\ granted \in [Nodes -> Nat]
    /\ attempts \in [Nodes -> 0 .. MaxAttempts]
    /\ request \in [Nodes -> [Attempts -> RequestState]]
    /\ filed \in [Nodes -> SUBSET Attempts]
    /\ outstanding \subseteq Docs
    /\ releases \in [Nodes -> [Attempts -> Nat]]
    /\ statuses \in [Nodes -> [Attempts -> [Statuses -> Nat]]]
    /\ submission \in Submission \cup {Idle}
    /\ wake \in BOOLEAN
    /\ application \in [Nodes -> [Attempts -> Statuses \cup {None}]]
    /\ confirmed \subseteq Nodes

\* Every node parked at the officer gate has the approval the officer decides
\* on: no handler takes the approval away and leaves the node waiting.
GateHasApproval ==
    \A n \in Nodes : node[n] = "WAITING_FOR_HUMAN" => n \in pending

\* The human gate: whatever is retried, redelivered or refiled, an authority
\* never holds more applications for a node than officers granted releases.
FiledUnderApproval ==
    \A n \in Nodes, k \in Attempts : application[n][k] # None => k <= granted[n]

\* A filing node is done only if its authority confirmed an application.
DoneIsEarned ==
    \A n \in Filings : node[n] \in DONE_STATES => n \in confirmed

\* A node has left PENDING only when everything it depends on is done.
DependencyOrder ==
    \A n \in Nodes : node[n] # "PENDING" => \A d \in Deps[n] : node[d] \in DONE_STATES

\* A node that can start is not forgotten: an orchestrator trigger is on its way.
NoLostUnlock == unlockable # {} => wake

\* A node being filed has its request and the event that will file it.
NoStrandedRelease ==
    \A n \in Nodes : node[n] = "SUBMITTING" =>
        /\ attempts[n] > 0
        /\ request[n][attempts[n]] = "SUBMITTING"
        /\ releases[n][attempts[n]] > 0

\* Once its dependencies are done a node is started, whatever the officers,
\* the authorities and other nodes' submissions do meanwhile.
UnlockedStarts == \A n \in Nodes : n \in unlockable ~> node[n] # "PENDING"

\* A released filing is filed, or stalls, or is taken back: no node stays
\* "being filed with the authority" for ever.
EveryReleaseResolves ==
    \A n \in Nodes : node[n] = "SUBMITTING" ~> node[n] # "SUBMITTING"

\* A done node stays done: no late status, stale submission or officer's
\* request reopens it.
DoneIsFinal ==
    [][\A n \in Nodes : node[n] \in DONE_STATES => node'[n] \in DONE_STATES]_vars

\* The case as the family and the officers may rely on it: what the handlers,
\* retries, polls and the consumer together do implements CasePromise.
Promise == INSTANCE CasePromise WITH
    Reported <- ParentReported,
    InOrder <- ~ OfficerAsksEarly,
    started <- {n \in Nodes : node[n] # "PENDING"},
    held <- {x \in Nodes \X Attempts : application[x[1]][x[2]] # None},
    done <- {n \in Nodes : node[n] \in DONE_STATES}

\* Every step of a case starts nodes whose dependencies are done, grants, files,
\* loses, confirms or finishes one node as promised, or changes none of that.
ImplementsCasePromise == Promise!Spec

\* Each filing's own gate.
Gate(n) == INSTANCE OfficerGate WITH
    node <- node[n],
    pending <- n \in pending,
    released <- granted[n],
    missing <- missing_for_node(n, outstanding) # {}

\* Whatever handler of whatever node runs, of each filing it does nothing but a
\* step of its gate: only an officer's approval of what is prepared and complete
\* releases it, and only a new approval parks it.
PassesGate ==
    [][\A n \in Filings : [Gate(n)!Next]_(Gate(n)!vars)]_vars
================================================================================
