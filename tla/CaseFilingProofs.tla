--------------------------- MODULE CaseFilingProofs ---------------------------
(***************************************************************************)
(* Proofs about CaseFiling, for every graph, every set of documents and    *)
(* statuses and every bound.                                               *)
(***************************************************************************)
EXTENDS CaseFiling, TLAPS

\* What the state machine's tables name are node states.
LEMMA StateTypes ==
    /\ DONE_STATES \subseteq NodeState
    /\ ENTITY_REPORTABLE \subseteq NodeState
    /\ \A m \in DOMAIN MILESTONES : MILESTONES[m] \in NodeState
    /\ \A n \in Nodes, s \in Statuses : StatusTarget(n, s) \in NodeState
    /\ SubmitTarget \in NodeState
BY NodesAssumption, BoundsAssumption
   DEF DONE_STATES, ENTITY_REPORTABLE, NodeState, MILESTONES, StatusTarget,
       SubmitTarget

\* GraphService.transition keeps the types of what it changes.
LEMMA TransitionType ==
    ASSUME TypeOK, NEW n \in Nodes, NEW target \in NodeState,
           NEW reason \in BOOLEAN, transition(n, target, reason)
    PROVE  node' \in [Nodes -> NodeState] /\ wake' \in BOOLEAN
BY DEF TypeOK, transition

--------------------------------------------------------------------------------
(* Types. That no event counter goes below zero needs to be known of the     *)
(* event a submission in progress is about to acknowledge.                   *)

\* The event of a submission in progress stays undelivered until it is over.
InFlightHasEvent ==
    submission # Idle =>
        /\ submission \in Submission
        /\ submission.node \in Filings
        /\ releases[submission.node][submission.k] > 0

TypeInv == TypeOK /\ InFlightHasEvent

\* Case creation is well typed.
LEMMA InitType == Init => TypeInv
<1> SUFFICES ASSUME Init PROVE TypeInv
    OBVIOUS
<1>1. TypeOK
    BY NodesAssumption, DocsAssumption, BoundsAssumption
       DEF Init, TypeOK, NodeState, RequestState
<1>2. QED
    BY <1>1 DEF Init, TypeInv, InFlightHasEvent

\* Every step of every actor keeps the types.
LEMMA NextType == TypeInv /\ [Next]_vars => TypeInv'
<1> SUFFICES ASSUME TypeInv, [Next]_vars PROVE TypeInv'
    OBVIOUS
<1> USE NodesAssumption, DocsAssumption, BoundsAssumption, StateTypes
    DEF TypeInv
<1>1. CASE Orchestrate
    BY <1>1 DEF TypeOK, Orchestrate, Planned, Gated, PreparedByOrchestrator,
       Filings, NodeState, InFlightHasEvent, requestVars, eventVars, world
<1>2. CASE SubmitCommit
    <2>1. submission.node \in Nodes /\ submission.k \in Attempts
        BY <1>2 DEF SubmitCommit, InFlightHasEvent, Submission
    <2>2. SubmitTarget \in RequestState
        BY DEF SubmitTarget, RequestState, ENTITY_REPORTABLE
    <2>3. releases[submission.node][submission.k] - 1 \in Nat
        BY <1>2, <2>1 DEF SubmitCommit, InFlightHasEvent, TypeOK
    <2>4. QED
        BY <1>2, <2>1, <2>2, <2>3 DEF TypeOK, SubmitCommit, InFlightHasEvent, world
<1>3. CASE SubmitFails
    <2>1. submission.node \in Nodes /\ submission.k \in Attempts
        BY <1>3 DEF SubmitFails, InFlightHasEvent, Submission
    <2>2. releases[submission.node][submission.k] - 1 \in Nat
        BY <1>3, <2>1 DEF SubmitFails, InFlightHasEvent, TypeOK
    <2>3. releases' \in [Nodes -> [Attempts -> Nat]]
        <3>1. CASE releases' = releases
            BY <3>1 DEF TypeOK
        <3>2. CASE releases' = [releases EXCEPT ![submission.node][submission.k] = @ - 1]
            BY <2>1, <2>2, <3>2 DEF TypeOK
        <3>3. QED
            BY <1>3, <3>1, <3>2 DEF SubmitFails
    <2>4. QED
        BY <1>3, <2>3 DEF TypeOK, SubmitFails, InFlightHasEvent, requestVars, world
<1>4. CASE CrashInSubmit
    BY <1>4 DEF TypeOK, CrashInSubmit, InFlightHasEvent, requestVars, eventVars, world
<1>5. ASSUME NEW d \in Docs, ProvideDocument(d) PROVE TypeInv'
    BY <1>5 DEF TypeOK, ProvideDocument, resume_after_documents, resumable, Gated,
       Filings, NodeState, InFlightHasEvent, requestVars, eventVars, world
<1>6. ASSUME NEW d \in Docs, SetDocumentStatus(d) PROVE TypeInv'
    BY <1>6 DEF TypeOK, SetDocumentStatus, InFlightHasEvent, requestVars,
       eventVars, world
<1>7. ASSUME NEW n \in ParentReported, NEW m \in DOMAIN MILESTONES, Report(n, m)
      PROVE  TypeInv'
    <2>1. n \in Nodes /\ MILESTONES[m] \in NodeState /\ (m = "DELAYED") \in BOOLEAN
        OBVIOUS
    <2>2. node' \in [Nodes -> NodeState] /\ wake' \in BOOLEAN
        BY <1>7, <2>1, TransitionType DEF Report
    <2>3. QED
        BY <1>7, <2>2 DEF TypeOK, Report, InFlightHasEvent, requestVars,
           eventVars, world
<1>8. ASSUME NEW n \in Nodes, Officer(n) PROVE TypeInv'
    <2>1. CASE Approve(n)
        <3>1. node' \in [Nodes -> NodeState] /\ wake' \in BOOLEAN
            BY <2>1, TransitionType DEF Approve, release, NodeState
        <3>2. attempts[n] + 1 \in Attempts /\ "SUBMITTING" \in RequestState
            BY <2>1 DEF Approve, release, TypeOK, Attempts, RequestState
        <3>3. releases' \in [Nodes -> [Attempts -> Nat]]
            BY <2>1, <3>2 DEF TypeOK, Approve, release
        <3>4. request' \in [Nodes -> [Attempts -> RequestState]]
            BY <2>1, <3>2 DEF TypeOK, Approve, release
        <3>5. \A i \in Nodes, j \in Attempts : releases'[i][j] >= releases[i][j]
            BY <2>1, <3>2 DEF TypeOK, Approve, release
        <3>6. InFlightHasEvent'
            BY <2>1, <3>3, <3>5 DEF Approve, release, TypeOK, InFlightHasEvent, Submission, Filings
        <3>7. attempts' \in [Nodes -> 0 .. MaxAttempts] /\ granted' \in [Nodes -> Nat]
            BY <2>1, <3>2 DEF TypeOK, Approve, release, Attempts
        <3>8. QED
            BY <2>1, <3>1, <3>3, <3>4, <3>6, <3>7 DEF TypeOK, Approve, release, world
    <2>2. CASE Reject(n)
        BY <2>2, TransitionType DEF TypeOK, Reject, NodeState, InFlightHasEvent,
           requestVars, eventVars, world
    <2>3. CASE Prepare(n)
        BY <2>3 DEF TypeOK, Prepare, NodeState, InFlightHasEvent,
           requestVars, eventVars, world
    <2>4. CASE Retry(n)
        <3>1. node' \in [Nodes -> NodeState] /\ wake' \in BOOLEAN
            BY <2>4, TransitionType DEF Retry, NodeState
        <3>2. attempts[n] \in Attempts /\ "SUBMITTING" \in RequestState
            BY <2>4 DEF Retry, TypeOK, Attempts, RequestState
        <3>3. releases' \in [Nodes -> [Attempts -> Nat]]
            BY <2>4, <3>2 DEF TypeOK, Retry
        <3>4. request' \in [Nodes -> [Attempts -> RequestState]]
            BY <2>4, <3>2 DEF TypeOK, Retry
        <3>5. \A i \in Nodes, j \in Attempts : releases'[i][j] >= releases[i][j]
            BY <2>4, <3>2 DEF TypeOK, Retry
        <3>6. InFlightHasEvent'
            BY <2>4, <3>3, <3>5 DEF Retry, TypeOK, InFlightHasEvent, Submission, Filings
        <3>7. QED
            BY <2>4, <3>1, <3>2, <3>3, <3>4, <3>6 DEF TypeOK, Retry, world
    <2>5. ASSUME NEW docs \in NonEmptyDocs, RequestDocuments(n, docs) PROVE TypeInv'
        <3>1. node' \in [Nodes -> NodeState] /\ wake' \in BOOLEAN
            BY <2>5, TransitionType DEF RequestDocuments, NodeState, TypeOK
        <3>2. QED
            BY <2>5, <3>1 DEF TypeOK, RequestDocuments, NonEmptyDocs,
               InFlightHasEvent, requestVars, eventVars, world
    <2>6. QED
        BY <1>8, <2>1, <2>2, <2>3, <2>4, <2>5 DEF Officer
<1>9. ASSUME NEW n \in Nodes, SlaWatchdog(n) PROVE TypeInv'
    BY <1>9, TransitionType DEF TypeOK, SlaWatchdog, NodeState, InFlightHasEvent,
       requestVars, eventVars, world
<1>10. ASSUME NEW n \in Nodes, NEW s \in Decisions, Simulate(n, s) PROVE TypeInv'
    <2>1. attempts[n] \in Attempts /\ s \in Statuses /\ s \in ENTITY_REPORTABLE
        BY <1>10 DEF Simulate, TypeOK, Attempts, Decisions
    <2>2. QED
        BY <1>10, <2>1 DEF TypeOK, Simulate, InFlightHasEvent, requestVars
<1>11. ASSUME NEW n \in Nodes, NEW k \in Attempts, Submitter(n, k) PROVE TypeInv'
    <2>1. CASE SkipSubmit(n, k)
        BY <2>1 DEF TypeOK, SkipSubmit, InFlightHasEvent, requestVars, world
    <2>2. CASE SubmitRefused(n, k)
        <3>1. node' \in [Nodes -> NodeState] /\ wake' \in BOOLEAN
            BY <2>2, TransitionType DEF SubmitRefused, NodeState, TypeOK
        <3>2. "FAILED" \in RequestState
            BY DEF RequestState
        <3>3. releases' \in [Nodes -> [Attempts -> Nat]]
            BY <2>2 DEF TypeOK, SubmitRefused
        <3>4. request' \in [Nodes -> [Attempts -> RequestState]]
            <4>1. CASE request' = request
                BY <4>1 DEF TypeOK
            <4>2. CASE request' = [request EXCEPT ![n][k] = "FAILED"]
                BY <3>2, <4>2 DEF TypeOK
            <4>3. QED
                BY <2>2, <4>1, <4>2 DEF SubmitRefused
        <3>5. QED
            BY <2>2, <3>1, <3>3, <3>4 DEF TypeOK, SubmitRefused, InFlightHasEvent, world
    <2>3. ASSUME NEW outcome \in Outcomes, SubmitCall(n, k, outcome) PROVE TypeInv'
        <3> DEFINE recorded == IF application[n][k] = None THEN "SUBMITTED"
                               ELSE application[n][k]
        <3>1. application' \in [Nodes -> [Attempts -> Statuses \cup {None}]]
            <4>1. recorded \in Statuses \cup {None}
                BY DEF TypeOK
            <4>2. CASE application' = application
                BY <4>2 DEF TypeOK
            <4>3. CASE application' = [application EXCEPT ![n][k] = recorded]
                <5> HIDE DEF recorded
                <5>1. QED
                    BY <4>1, <4>3 DEF TypeOK
            <4>4. QED
                BY <2>3, <4>2, <4>3 DEF SubmitCall
        <3>2. submission' \in Submission
            BY <2>3 DEF TypeOK, SubmitCall, Submission
        <3>3. QED
            BY <2>3, <3>1, <3>2 DEF TypeOK, SubmitCall, InFlightHasEvent,
               requestVars, eventVars
    <2>4. QED
        BY <1>11, <2>1, <2>2, <2>3 DEF Submitter
<1>12. ASSUME NEW n \in Nodes, NEW k \in Attempts, StatusReports(n, k) PROVE TypeInv'
    <2>1. CASE Poll(n, k)
        <3>1. application[n][k] \in Statuses
            BY <2>1 DEF TypeOK, Poll
        <3>2. QED
            BY <2>1, <3>1 DEF TypeOK, Poll, InFlightHasEvent, requestVars, world
    <2>2. CASE Refile(n, k)
        BY <2>2 DEF TypeOK, Refile, InFlightHasEvent, requestVars, eventVars,
           ENTITY_REPORTABLE
    <2>3. ASSUME NEW s \in Statuses, NEW docs \in NonEmptyDocs,
                 ApplyStatus(n, k, s, docs)
          PROVE  TypeInv'
        <3>1. node' \in [Nodes -> NodeState] /\ wake' \in BOOLEAN
            <4>1. CASE UNCHANGED <<node, wake>>
                BY <4>1 DEF TypeOK
            <4>2. CASE transition(n, StatusTarget(n, s), s \in WithReason)
                BY <4>2 DEF TypeOK, transition
            <4>3. QED
                BY <2>3, <4>1, <4>2 DEF ApplyStatus
        <3>2. s \in RequestState
            BY DEF RequestState
        <3>3. statuses' \in [Nodes -> [Attempts -> [Statuses -> Nat]]]
            BY <2>3 DEF TypeOK, ApplyStatus
        <3>4. outstanding' \subseteq Docs
            BY <2>3 DEF TypeOK, ApplyStatus, NonEmptyDocs
        <3>5. request' \in [Nodes -> [Attempts -> RequestState]]
            BY <2>3, <3>2 DEF TypeOK, ApplyStatus
        <3>6. QED
            BY <2>3, <3>1, <3>3, <3>4, <3>5 DEF TypeOK, ApplyStatus,
               InFlightHasEvent, world
    <2>4. QED
        BY <1>12, <2>1, <2>2, <2>3 DEF StatusReports
<1>13. ASSUME NEW n \in Nodes, NEW k \in Attempts, Authority(n, k) PROVE TypeInv'
    <2>1. CASE AuthorityForgets(n, k)
        BY <2>1 DEF TypeOK, AuthorityForgets, InFlightHasEvent, requestVars, eventVars
    <2>2. ASSUME NEW s \in Decisions, AuthorityDecides(n, k, s) PROVE TypeInv'
        BY <2>2 DEF TypeOK, AuthorityDecides, Decisions, InFlightHasEvent,
           requestVars, eventVars
    <2>3. QED
        BY <1>13, <2>1, <2>2 DEF Authority
<1>14. CASE UNCHANGED vars
    BY <1>14 DEF TypeOK, InFlightHasEvent, vars, requestVars, eventVars, world
<1>15. QED
    BY <1>1, <1>2, <1>3, <1>4, <1>5, <1>6, <1>7, <1>8, <1>9, <1>10, <1>11,
       <1>12, <1>13, <1>14 DEF Next

\* Every variable keeps its type, and no event is acknowledged more often than
\* it was recorded.
THEOREM TypeCorrect == Spec => []TypeOK
<1>1. Spec => []TypeInv
    BY InitType, NextType, PTL DEF Spec
<1>2. QED
    BY <1>1, PTL DEF TypeInv

--------------------------------------------------------------------------------
(* The strengthenings of the safety invariants.                              *)

\* Attempts are counted by approvals, and nothing is known, stored, reported or
\* in flight for an attempt that was not released yet.
ReleasedInv ==
    /\ \A n \in Nodes : granted[n] = attempts[n]
    /\ \A n \in Nodes, k \in Attempts : k > attempts[n] =>
          /\ request[n][k] = None
          /\ k \notin filed[n]
          /\ application[n][k] = None
          /\ \A s \in Statuses : statuses[n][k][s] = 0
    /\ submission # Idle => submission.k <= attempts[submission.node]

\* A success was confirmed where it is recorded, on its way or applied.
EarnedInv ==
    /\ \A n \in Nodes, k \in Attempts :
          application[n][k] \in DONE_STATES => n \in confirmed
    /\ \A n \in Nodes, k \in Attempts, s \in Statuses \cap DONE_STATES :
          statuses[n][k][s] > 0 => n \in confirmed
    /\ DoneIsEarned

\* A submission in progress does not overlook that its node is done.
SeenDone ==
    submission # Idle /\ node[submission.node] \in DONE_STATES
        => submission.seen \in DONE_STATES

\* A node with an approval or an attempt has been started.
StartedInv == \A n \in Nodes : n \in pending \/ attempts[n] > 0 => node[n] # "PENDING"

--------------------------------------------------------------------------------
(* The officer gate.                                                         *)

\* The steps that can move a node, open or close an approval; every other step
\* leaves nodes, approvals and the trigger alone.
LEMMA StepKinds ==
    ASSUME TypeInv, Next
    PROVE  \/ UNCHANGED <<node, pending, wake>>
           \/ Orchestrate \/ SubmitCommit
           \/ \E d \in Docs : ProvideDocument(d)
           \/ \E n \in ParentReported, m \in DOMAIN MILESTONES : Report(n, m)
           \/ \E n \in Nodes : \/ Approve(n) \/ Reject(n) \/ Prepare(n)
                               \/ Retry(n) \/ SlaWatchdog(n)
           \/ \E n \in Nodes, docs \in NonEmptyDocs : RequestDocuments(n, docs)
           \/ \E n \in Nodes, k \in Attempts : SubmitRefused(n, k)
           \/ \E n \in Nodes, k \in Attempts, s \in Statuses, docs \in NonEmptyDocs :
                 ApplyStatus(n, k, s, docs)
<1>1. CASE SubmitFails \/ CrashInSubmit \/ \E d \in Docs : SetDocumentStatus(d)
    BY <1>1 DEF SubmitFails, CrashInSubmit, SetDocumentStatus
<1>2. CASE \E n \in Nodes, s \in Decisions : Simulate(n, s)
    BY <1>2 DEF Simulate
<1>3. ASSUME NEW n \in Nodes, NEW k \in Attempts,
             \/ SkipSubmit(n, k) \/ Poll(n, k) \/ Refile(n, k) \/ Authority(n, k)
             \/ \E outcome \in Outcomes : SubmitCall(n, k, outcome)
      PROVE  UNCHANGED <<node, pending, wake>>
    BY <1>3 DEF SkipSubmit, Poll, Refile, Authority, AuthorityForgets,
       AuthorityDecides, SubmitCall
<1>4. QED
    BY <1>1, <1>2, <1>3 DEF Next, Officer, Submitter, StatusReports

\* Where an authority's status or a submission's outcome can take a node.
LEMMA Targets ==
    /\ SubmitTarget \in {"SUBMITTED", "STALLED"}
    /\ \A n \in Nodes, s \in Statuses :
          StatusTarget(n, s) \in ENTITY_REPORTABLE /\ (StatusTarget(n, s) \in DONE_STATES <=> s \in DONE_STATES)
    /\ \A m \in DOMAIN MILESTONES : MILESTONES[m] \in OPEN_STATES \cup {"COMPLETED"}
BY NodesAssumption, BoundsAssumption
   DEF SubmitTarget, StatusTarget, ENTITY_REPORTABLE, DONE_STATES, MILESTONES, OPEN_STATES

\* No step parks a node at the gate without its approval or takes the approval
\* of a parked node away.
LEMMA GateStep == TypeInv /\ GateHasApproval /\ [Next]_vars => GateHasApproval'
<1> SUFFICES ASSUME TypeInv, GateHasApproval, Next PROVE GateHasApproval'
    BY DEF GateHasApproval, vars
<1> USE NodesAssumption, BoundsAssumption, Targets DEF TypeInv, TypeOK, GateHasApproval
<1>1. CASE UNCHANGED <<node, pending, wake>>
    BY <1>1
<1>2. CASE Orchestrate
    BY <1>2 DEF Orchestrate, Planned, Gated, PreparedByOrchestrator, unlockable, Filings
<1>3. CASE SubmitCommit
    BY <1>3 DEF SubmitCommit
<1>4. ASSUME NEW d \in Docs, ProvideDocument(d) PROVE GateHasApproval'
    BY <1>4 DEF ProvideDocument, resume_after_documents, resumable, Gated, Filings
<1>5. ASSUME NEW n \in ParentReported, NEW m \in DOMAIN MILESTONES, Report(n, m)
      PROVE  GateHasApproval'
    BY <1>5 DEF Report, transition, OPEN_STATES
<1>6. ASSUME NEW n \in Nodes,
             Approve(n) \/ Reject(n) \/ Prepare(n) \/ Retry(n) \/ SlaWatchdog(n)
      PROVE  GateHasApproval'
    BY <1>6 DEF Approve, release, Reject, Prepare, Retry, SlaWatchdog, transition
<1>7. ASSUME NEW n \in Nodes, NEW docs \in NonEmptyDocs, RequestDocuments(n, docs)
      PROVE  GateHasApproval'
    BY <1>7 DEF RequestDocuments, transition
<1>8. ASSUME NEW n \in Nodes, NEW k \in Attempts, SubmitRefused(n, k)
      PROVE  GateHasApproval'
    BY <1>8 DEF SubmitRefused, transition
<1>9. ASSUME NEW n \in Nodes, NEW k \in Attempts, NEW s \in Statuses,
             NEW docs \in NonEmptyDocs, ApplyStatus(n, k, s, docs)
      PROVE  GateHasApproval'
    <2>1. StatusTarget(n, s) # "WAITING_FOR_HUMAN"
        BY DEF ENTITY_REPORTABLE
    <2>2. QED
        BY <1>9, <2>1 DEF ApplyStatus, transition
<1>10. QED
    BY StepKinds, <1>1, <1>2, <1>3, <1>4, <1>5, <1>6, <1>7, <1>8, <1>9

\* Every node parked at the officer gate has a pending approval.
THEOREM GateSafe == Spec => []GateHasApproval
<1>1. Init => TypeInv /\ GateHasApproval
    BY InitType DEF Init, GateHasApproval
<1>2. QED
    BY <1>1, NextType, GateStep, PTL DEF Spec

--------------------------------------------------------------------------------
(* Nothing reaches an authority without an approval.                         *)

\* Nothing is known of an attempt that was not released.
Unreleased(n, k) ==
    /\ request[n][k] = None
    /\ k \notin filed[n]
    /\ application[n][k] = None
    /\ \A s \in Statuses : statuses[n][k][s] = 0

\* A step that keeps the count of attempts and touches only a released attempt
\* of one node makes no unreleased attempt known.
LEMMA OneAttemptTouched ==
    ASSUME TypeInv, ReleasedInv, NEW n \in Nodes, NEW k \in Attempts,
           k <= attempts[n], UNCHANGED <<granted, attempts>>,
           \A i \in Nodes, j \in Attempts : i # n \/ j # k =>
              /\ request'[i][j] = request[i][j]
              /\ j \in filed'[i] => j \in filed[i]
              /\ application'[i][j] = application[i][j]
              /\ \A s \in Statuses : statuses'[i][j][s] = statuses[i][j][s],
           submission' \in {submission, Idle} \/ (submission'.node = n /\ submission'.k = k)
    PROVE  ReleasedInv'
<1>1. \A i \in Nodes, j \in Attempts : j > attempts[i] => i # n \/ j # k
    <2>1. attempts[n] \in Int /\ k \in Int
        BY BoundsAssumption DEF TypeInv, TypeOK, Attempts
    <2>2. QED
        BY <2>1
<1>2. \A i \in Nodes, j \in Attempts : j > attempts'[i] => Unreleased(i, j)'
    BY <1>1 DEF ReleasedInv, Unreleased
<1>3. submission' # Idle => submission'.k <= attempts'[submission'.node]
    BY DEF ReleasedInv
<1>4. QED
    BY <1>2, <1>3 DEF ReleasedInv, Unreleased

\* An attempt of which anything is known was released.
LEMMA KnownIsReleased ==
    ASSUME TypeInv, ReleasedInv, NEW n \in Nodes, NEW k \in Attempts,
           ~ Unreleased(n, k)
    PROVE  k <= attempts[n]
BY BoundsAssumption DEF TypeInv, TypeOK, ReleasedInv, Unreleased, Attempts

\* No step makes an attempt known before an officer released it.
LEMMA ReleasedStep == TypeInv /\ ReleasedInv /\ [Next]_vars => ReleasedInv'
<1> SUFFICES ASSUME TypeInv, ReleasedInv, [Next]_vars PROVE ReleasedInv'
    OBVIOUS
<1> USE BoundsAssumption
<1>1. CASE UNCHANGED <<granted, requestVars, statuses, submission, application>>
    BY <1>1 DEF requestVars, ReleasedInv
<1>2. CASE SubmitFails \/ CrashInSubmit
    BY <1>2 DEF SubmitFails, CrashInSubmit, requestVars, eventVars, world, ReleasedInv
<1>3. CASE SubmitCommit
    <2>1. submission.node \in Nodes /\ submission.k \in Attempts
        BY <1>3 DEF SubmitCommit, TypeInv, InFlightHasEvent, Submission
    <2>2. submission.k <= attempts[submission.node]
        BY <1>3 DEF SubmitCommit, ReleasedInv
    <2>3. QED
        BY <1>3, <2>1, <2>2, OneAttemptTouched
           DEF SubmitCommit, TypeInv, TypeOK, world
<1>4. ASSUME NEW n \in Nodes, Approve(n) PROVE ReleasedInv'
    <2>1. attempts[n] \in Nat /\ Attempts \subseteq Nat
        BY DEF TypeInv, TypeOK, Attempts
    <2>2. attempts' = [attempts EXCEPT ![n] = attempts[n] + 1]
          /\ granted' = [granted EXCEPT ![n] = granted[n] + 1]
          /\ request' = [request EXCEPT ![n][attempts[n] + 1] = "SUBMITTING"]
          /\ UNCHANGED <<filed, statuses, submission, application>>
        BY <1>4 DEF Approve, release, world
    <2>3. \A i \in Nodes : granted'[i] = attempts'[i]
        BY <2>2 DEF TypeInv, TypeOK, ReleasedInv
    <2>4. \A i \in Nodes : attempts'[i] \in Nat /\ attempts'[i] >= attempts[i]
        BY <2>1, <2>2 DEF TypeInv, TypeOK
    <2>5. \A i \in Nodes, j \in Attempts : j > attempts'[i] => j > attempts[i]
        BY <2>1, <2>4 DEF TypeInv, TypeOK
    <2>6. \A i \in Nodes, j \in Attempts : j > attempts'[i] => request'[i][j] = None
        <3>1. SUFFICES ASSUME NEW i \in Nodes, NEW j \in Attempts, j > attempts'[i]
                       PROVE  request'[i][j] = None
            OBVIOUS
        <3>2. request[i][j] = None
            BY <2>5, <3>1 DEF ReleasedInv
        <3>3. i # n \/ j # attempts[n] + 1
            BY <2>1, <2>2, <3>1 DEF TypeInv, TypeOK
        <3>4. QED
            BY <2>2, <3>2, <3>3 DEF TypeInv, TypeOK
    <2>7. submission' # Idle => submission'.k <= attempts'[submission'.node]
        <3>1. submission # Idle => /\ submission.node \in Nodes
                                   /\ submission.k \in Attempts
                                   /\ attempts[submission.node] \in Nat
            BY DEF TypeInv, TypeOK, InFlightHasEvent, Submission
        <3>2. QED
            BY <2>1, <2>2, <2>4, <3>1 DEF ReleasedInv
    <2>8. QED
        BY <2>2, <2>3, <2>5, <2>6, <2>7 DEF ReleasedInv
<1>5. ASSUME NEW n \in Nodes, Retry(n) PROVE ReleasedInv'
    <2>1. attempts[n] \in Attempts /\ attempts[n] <= attempts[n]
        BY <1>5 DEF Retry, TypeInv, TypeOK, Attempts
    <2>2. QED
        BY <1>5, <2>1, OneAttemptTouched DEF Retry, TypeInv, TypeOK, world
<1>6. ASSUME NEW n \in Nodes, NEW s \in Decisions, Simulate(n, s) PROVE ReleasedInv'
    <2>1. attempts[n] \in Attempts /\ attempts[n] <= attempts[n]
        BY <1>6 DEF Simulate, TypeInv, TypeOK, Attempts
    <2>2. QED
        BY <1>6, <2>1, OneAttemptTouched DEF Simulate, TypeInv, TypeOK, requestVars
<1>7. ASSUME NEW n \in Nodes, NEW k \in Attempts,
             SubmitRefused(n, k) \/ \E outcome \in Outcomes : SubmitCall(n, k, outcome)
      PROVE  ReleasedInv'
    <2>1. k <= attempts[n]
        BY <1>7, KnownIsReleased DEF SubmitRefused, SubmitCall, Unreleased, None
    <2>2. CASE SubmitRefused(n, k)
        <3>1. \A i \in Nodes, j \in Attempts : i # n \/ j # k =>
                request'[i][j] = request[i][j]
            <4>1. request' \in {request, [request EXCEPT ![n][k] = "FAILED"]}
                BY <2>2 DEF SubmitRefused
            <4>2. QED
                BY <4>1 DEF TypeInv, TypeOK
        <3>2. QED
            BY <2>1, <2>2, <3>1, OneAttemptTouched DEF SubmitRefused, world
    <2>3. ASSUME NEW outcome \in Outcomes, SubmitCall(n, k, outcome)
          PROVE  ReleasedInv'
        <3>1. submission'.node = n /\ submission'.k = k
            BY <2>3 DEF SubmitCall
        <3>2. UNCHANGED <<granted, requestVars, eventVars>>
            BY <2>3 DEF SubmitCall
        <3>3. \A i \in Nodes, j \in Attempts : i # n \/ j # k =>
                application'[i][j] = application[i][j]
            <4>1. PICK v : application' \in {application,
                                           [application EXCEPT ![n][k] = v]}
                BY <2>3 DEF SubmitCall
            <4>2. QED
                BY <4>1 DEF TypeInv, TypeOK
        <3>4. QED
            BY <2>1, <3>1, <3>2, <3>3, OneAttemptTouched DEF requestVars, eventVars
    <2>4. QED
        BY <1>7, <2>2, <2>3
<1>8. ASSUME NEW n \in Nodes, NEW k \in Attempts,
             Poll(n, k) \/ Refile(n, k) \/ Authority(n, k)
      PROVE  ReleasedInv'
    <2>1. k <= attempts[n]
        BY <1>8, KnownIsReleased DEF Poll, Refile, Authority, AuthorityForgets,
           AuthorityDecides, Unreleased
    <2>2. CASE Poll(n, k)
        BY <2>1, <2>2, OneAttemptTouched DEF Poll, TypeInv, TypeOK, requestVars, world
    <2>3. CASE Refile(n, k)
        BY <2>1, <2>3, OneAttemptTouched
           DEF Refile, TypeInv, TypeOK, requestVars, eventVars
    <2>4. CASE Authority(n, k)
        <3>1. UNCHANGED <<granted, requestVars, eventVars, submission>>
            BY <2>4 DEF Authority, AuthorityForgets, AuthorityDecides
        <3>2. PICK v : application' = [application EXCEPT ![n][k] = v]
            BY <2>4 DEF Authority, AuthorityForgets, AuthorityDecides
        <3>3. \A i \in Nodes, j \in Attempts : i # n \/ j # k =>
                application'[i][j] = application[i][j]
            BY <3>2 DEF TypeInv, TypeOK
        <3>4. QED
            BY <2>1, <3>1, <3>3, OneAttemptTouched DEF requestVars, eventVars
    <2>5. QED
        BY <1>8, <2>2, <2>3, <2>4
<1>9. ASSUME NEW n \in Nodes, NEW k \in Attempts, NEW s \in Statuses,
             NEW docs \in NonEmptyDocs, ApplyStatus(n, k, s, docs)
      PROVE  ReleasedInv'
    <2>1. k <= attempts[n]
        BY <1>9, KnownIsReleased DEF ApplyStatus, Unreleased
    <2>2. QED
        BY <1>9, <2>1, OneAttemptTouched DEF ApplyStatus, TypeInv, TypeOK, world
<1>10. ASSUME \/ Orchestrate
              \/ \E d \in Docs : ProvideDocument(d) \/ SetDocumentStatus(d)
              \/ \E n \in ParentReported, m \in DOMAIN MILESTONES : Report(n, m)
              \/ \E n \in Nodes : Reject(n) \/ Prepare(n) \/ SlaWatchdog(n)
              \/ \E n \in Nodes, docs \in NonEmptyDocs : RequestDocuments(n, docs)
              \/ \E n \in Nodes, k \in Attempts : SkipSubmit(n, k)
       PROVE  UNCHANGED <<granted, requestVars, statuses, submission, application>>
    BY <1>10 DEF Orchestrate, ProvideDocument, SetDocumentStatus, Report, Reject,
       Prepare, SlaWatchdog, RequestDocuments, SkipSubmit, eventVars, world
<1>11. CASE UNCHANGED vars
    BY <1>1, <1>11 DEF vars, eventVars, world
<1>12. QED
    BY <1>1, <1>2, <1>3, <1>4, <1>5, <1>6, <1>7, <1>8, <1>9, <1>10, <1>11
       DEF Next, Officer, Submitter, StatusReports

\* The human gate: an authority holds an application only for an attempt that
\* an officer's approval released, whatever is retried, redelivered or refiled.
THEOREM HumanGate == Spec => []FiledUnderApproval
<1>1. Init => TypeInv /\ ReleasedInv
    BY InitType DEF Init, ReleasedInv
<1>2. TypeInv /\ ReleasedInv => FiledUnderApproval
    BY DEF TypeInv, TypeOK, ReleasedInv, FiledUnderApproval, Attempts
<1>3. QED
    BY <1>1, <1>2, NextType, ReleasedStep, PTL DEF Spec

--------------------------------------------------------------------------------
(* A success is a success of the authority.                                  *)

\* Of the steps that report nothing new, none makes a filing node done.
LEMMA NoNewSuccess ==
    ASSUME TypeInv,
           \/ Orchestrate \/ SubmitCommit \/ SubmitFails \/ CrashInSubmit
           \/ \E d \in Docs : ProvideDocument(d) \/ SetDocumentStatus(d)
           \/ \E n \in ParentReported, m \in DOMAIN MILESTONES : Report(n, m)
           \/ \E n \in Nodes : Officer(n) \/ SlaWatchdog(n)
           \/ \E n \in Nodes, k \in Attempts : SkipSubmit(n, k) \/ SubmitRefused(n, k)
    PROVE  /\ UNCHANGED <<application, confirmed, statuses>>
           /\ \A i \in Filings : node'[i] \in DONE_STATES => node[i] \in DONE_STATES
<1> USE NodesAssumption, Targets
<1>1. UNCHANGED <<application, confirmed, statuses>>
    BY DEF Orchestrate, SubmitCommit, SubmitFails, CrashInSubmit, ProvideDocument,
       SetDocumentStatus, Report, Officer, Approve, release, Reject, Prepare, Retry,
       RequestDocuments, SlaWatchdog, SkipSubmit, SubmitRefused, eventVars, world
<1>2. SUFFICES ASSUME NEW i \in Filings, node'[i] \in DONE_STATES
               PROVE  node[i] \in DONE_STATES
    BY <1>1
<1>3. i \in Nodes /\ i \notin ParentReported /\ node \in [Nodes -> NodeState]
    BY DEF Filings, TypeInv, TypeOK
<1> USE <1>2, <1>3 DEF DONE_STATES
<1>4. CASE Orchestrate
    BY <1>4 DEF Orchestrate, Planned, Gated
<1>5. CASE SubmitCommit
    BY <1>5 DEF SubmitCommit
<1>6. CASE SubmitFails \/ CrashInSubmit \/ \E d \in Docs : SetDocumentStatus(d)
    BY <1>6 DEF SubmitFails, CrashInSubmit, SetDocumentStatus
<1>7. CASE \E d \in Docs : ProvideDocument(d)
    BY <1>7 DEF ProvideDocument, resume_after_documents, Gated
<1>8. CASE \E n \in ParentReported, m \in DOMAIN MILESTONES : Report(n, m)
    BY <1>8 DEF Report, transition
<1>9. CASE \E n \in Nodes : Officer(n) \/ SlaWatchdog(n)
    BY <1>9 DEF Officer, Approve, release, Reject, Prepare, Retry, RequestDocuments,
       SlaWatchdog, transition
<1>10. CASE \E n \in Nodes, k \in Attempts : SkipSubmit(n, k) \/ SubmitRefused(n, k)
    BY <1>10 DEF SkipSubmit, SubmitRefused, transition
<1>11. QED
    BY <1>4, <1>5, <1>6, <1>7, <1>8, <1>9, <1>10

\* No step lets a success appear that no authority confirmed.
LEMMA EarnedStep == TypeInv /\ EarnedInv /\ [Next]_vars => EarnedInv'
<1> SUFFICES ASSUME TypeInv, EarnedInv, [Next]_vars PROVE EarnedInv'
    OBVIOUS
<1> USE NodesAssumption, BoundsAssumption, Targets
    DEF TypeInv, TypeOK, EarnedInv, DoneIsEarned
<1>1. ASSUME UNCHANGED <<application, confirmed, statuses>>,
             \A i \in Filings : node'[i] \in DONE_STATES => node[i] \in DONE_STATES
      PROVE  EarnedInv'
    BY <1>1
<1>2. ASSUME NEW n \in Nodes, NEW s \in Decisions, Simulate(n, s) PROVE EarnedInv'
    <2>1. attempts[n] \in Attempts /\ s \in Statuses
        BY <1>2 DEF Simulate, Attempts, Decisions
    <2>2. confirmed \subseteq confirmed' /\ (s \in DONE_STATES => n \in confirmed')
          /\ node' = node
        BY <1>2 DEF Simulate
    <2>3. \A i \in Nodes, j \in Attempts :
            application'[i][j] \in DONE_STATES => i \in confirmed'
        BY <1>2, <2>1, <2>2 DEF Simulate
    <2>4. \A i \in Nodes, j \in Attempts, t \in Statuses \cap DONE_STATES :
            statuses'[i][j][t] > 0 => i \in confirmed'
        BY <1>2, <2>1, <2>2 DEF Simulate
    <2>5. QED
        BY <2>2, <2>3, <2>4 DEF Filings
<1>3. ASSUME NEW n \in Nodes, NEW k \in Attempts, NEW outcome \in Outcomes,
             SubmitCall(n, k, outcome)
      PROVE  EarnedInv'
    <2>1. UNCHANGED <<node, statuses, confirmed>>
        BY <1>3 DEF SubmitCall, eventVars
    <2>2. \A i \in Nodes, j \in Attempts :
            application'[i][j] \in DONE_STATES => i \in confirmed
        <3>1. CASE application' = application
            BY <3>1
        <3>2. CASE application' = [application EXCEPT ![n][k] =
                     IF application[n][k] = None THEN "SUBMITTED" ELSE application[n][k]]
            BY <3>2 DEF DONE_STATES
        <3>3. QED
            BY <1>3, <3>1, <3>2 DEF SubmitCall
    <2>3. QED
        BY <2>1, <2>2
<1>4. ASSUME NEW n \in Nodes, NEW k \in Attempts, Poll(n, k) PROVE EarnedInv'
    <2>1. application[n][k] \in Statuses
        BY <1>4 DEF Poll
    <2>2. QED
        BY <1>4, <2>1 DEF Poll, world
<1>5. ASSUME NEW n \in Nodes, NEW k \in Attempts, Refile(n, k) PROVE EarnedInv'
    BY <1>5 DEF Refile, eventVars, DONE_STATES
<1>6. ASSUME NEW n \in Nodes, NEW k \in Attempts, NEW s \in Statuses,
             NEW docs \in NonEmptyDocs, ApplyStatus(n, k, s, docs)
      PROVE  EarnedInv'
    <2>1. UNCHANGED <<application, confirmed>>
        BY <1>6 DEF ApplyStatus, world
    <2>2. \A i \in Nodes, j \in Attempts, t \in Statuses :
            statuses'[i][j][t] > 0 => statuses[i][j][t] > 0
        BY <1>6 DEF ApplyStatus
    <2>3. \A i \in Filings : node'[i] \in DONE_STATES => i \in confirmed
        <3>1. s \in DONE_STATES => n \in confirmed
            BY <1>6 DEF ApplyStatus
        <3>2. CASE node' = node
            BY <3>2
        <3>3. CASE node' = [node EXCEPT ![n] = StatusTarget(n, s)]
            BY <3>1, <3>3 DEF Filings
        <3>4. QED
            BY <1>6, <3>2, <3>3 DEF ApplyStatus, transition
    <2>4. QED
        BY <2>1, <2>2, <2>3
<1>7. ASSUME NEW n \in Nodes, NEW k \in Attempts, AuthorityForgets(n, k)
      PROVE  EarnedInv'
    BY <1>7 DEF AuthorityForgets, eventVars, None, DONE_STATES
<1>8. ASSUME NEW n \in Nodes, NEW k \in Attempts, NEW s \in Decisions,
             AuthorityDecides(n, k, s)
      PROVE  EarnedInv'
    <2>1. confirmed \subseteq confirmed' /\ (s \in DONE_STATES => n \in confirmed')
          /\ UNCHANGED <<node, statuses>>
        BY <1>8 DEF AuthorityDecides, eventVars
    <2>2. \A i \in Nodes, j \in Attempts :
            application'[i][j] \in DONE_STATES => i \in confirmed'
        BY <1>8, <2>1 DEF AuthorityDecides
    <2>3. QED
        BY <2>1, <2>2 DEF Filings
<1>9. CASE UNCHANGED vars
    BY <1>1, <1>9 DEF vars, eventVars, world
<1>10. QED
    <2> HIDE DEF TypeInv, EarnedInv
    <2>1. QED
        BY <1>1, <1>2, <1>3, <1>4, <1>5, <1>6, <1>7, <1>8, <1>9, NoNewSuccess
           DEF Next, Submitter, StatusReports, Authority

\* A filing node is done only when its authority confirmed an application: not
\* by a late, duplicated or superseded report of anything else.
THEOREM SuccessIsEarned == Spec => []DoneIsEarned
<1>1. Init => TypeInv /\ EarnedInv
    BY InitType DEF Init, EarnedInv, DoneIsEarned, DONE_STATES, None, Filings
<1>2. EarnedInv => DoneIsEarned
    BY DEF EarnedInv
<1>3. QED
    BY <1>1, <1>2, NextType, EarnedStep, PTL DEF Spec

--------------------------------------------------------------------------------
(* Done nodes stay done, and nodes start in dependency order.                *)

\* The table lets a done node only become COMPLETED.
LEMMA DoneAllows ==
    ASSUME NEW s \in DONE_STATES, NEW t, assert_transition(s, t)
    PROVE  t \in DONE_STATES
BY DEF DONE_STATES, assert_transition, can_transition, ALLOWED, NodeState

\* No step takes a done node back.
LEMMA DoneStep ==
    ASSUME TypeInv, SeenDone, Next, NEW i \in Nodes, node[i] \in DONE_STATES
    PROVE  node'[i] \in DONE_STATES
<1> USE NodesAssumption, BoundsAssumption, DoneAllows
<1>1. node \in [Nodes -> NodeState]
    BY DEF TypeInv, TypeOK
<1>2. CASE UNCHANGED <<node, pending, wake>>
    BY <1>2
<1>3. CASE Orchestrate
    BY <1>3 DEF Orchestrate, unlockable, DONE_STATES
<1>4. CASE SubmitCommit
    <2>1. CASE i = submission.node
        <3>1. submission.seen \in DONE_STATES
            BY <1>4, <2>1 DEF SubmitCommit, SeenDone
        <3>2. SubmitTarget \notin DONE_STATES
            BY Targets DEF DONE_STATES
        <3>3. QED
            BY <1>4, <3>1, <3>2 DEF SubmitCommit
    <2>2. CASE i # submission.node
        BY <1>1, <1>4, <2>2 DEF SubmitCommit
    <2>3. QED
        BY <2>1, <2>2
<1>5. CASE \E d \in Docs : ProvideDocument(d)
    BY <1>5 DEF ProvideDocument, resume_after_documents, resumable, DONE_STATES
<1>6. CASE \E n \in ParentReported, m \in DOMAIN MILESTONES : Report(n, m)
    BY <1>1, <1>6 DEF Report, transition
<1>7. CASE \E n \in Nodes : Approve(n) \/ Reject(n) \/ Retry(n) \/ SlaWatchdog(n)
    BY <1>1, <1>7 DEF Approve, release, Reject, Retry, SlaWatchdog, transition
<1>8. CASE \E n \in Nodes : Prepare(n)
    BY <1>1, <1>8 DEF Prepare, REQUESTABLE_FROM, DONE_STATES
<1>9. CASE \E n \in Nodes, docs \in NonEmptyDocs : RequestDocuments(n, docs)
    BY <1>1, <1>9 DEF RequestDocuments, transition
<1>10. CASE \E n \in Nodes, k \in Attempts : SubmitRefused(n, k)
    BY <1>1, <1>10 DEF SubmitRefused, transition
<1>11. ASSUME NEW n \in Nodes, NEW k \in Attempts, NEW s \in Statuses,
              NEW docs \in NonEmptyDocs, ApplyStatus(n, k, s, docs)
       PROVE  node'[i] \in DONE_STATES
    <2>1. CASE UNCHANGED <<node, wake>>
        BY <2>1
    <2>2. CASE transition(n, StatusTarget(n, s), s \in WithReason)
        BY <1>1, <2>2 DEF transition
    <2>3. QED
        BY <1>11, <2>1, <2>2 DEF ApplyStatus
<1>12. QED
    BY StepKinds, <1>2, <1>3, <1>4, <1>5, <1>6, <1>7, <1>8, <1>9, <1>10, <1>11

\* The node of a submission in progress does not become done: statuses are
\* applied by the consumer task that is busy with the submission.
LEMMA SeenStep == TypeInv /\ SeenDone /\ [Next]_vars => SeenDone'
<1> SUFFICES ASSUME TypeInv, SeenDone, [Next]_vars,
                    submission' # Idle, node'[submission'.node] \in DONE_STATES
             PROVE  submission'.seen \in DONE_STATES
    BY DEF SeenDone
<1>1. CASE UNCHANGED <<node, submission>>
    BY <1>1 DEF SeenDone
<1>2. CASE \E n \in Nodes, k \in Attempts, outcome \in Outcomes :
             SubmitCall(n, k, outcome)
    BY <1>2 DEF SubmitCall
<1>3. ASSUME \/ Orchestrate \/ SubmitCommit \/ SubmitFails \/ CrashInSubmit
             \/ \E d \in Docs : ProvideDocument(d) \/ SetDocumentStatus(d)
             \/ \E n \in ParentReported, m \in DOMAIN MILESTONES : Report(n, m)
             \/ \E n \in Nodes : Officer(n) \/ SlaWatchdog(n)
             \/ \E n \in Nodes, k \in Attempts : SkipSubmit(n, k) \/ SubmitRefused(n, k)
      PROVE  submission'.seen \in DONE_STATES
    <2>1. submission' = submission
        BY <1>3 DEF Orchestrate, SubmitCommit, SubmitFails, CrashInSubmit,
           ProvideDocument, SetDocumentStatus, Report, Officer, Approve, release, Reject,
           Prepare, Retry, RequestDocuments, SlaWatchdog, SkipSubmit, SubmitRefused
    <2>2. submission.node \in Filings
        BY <2>1 DEF TypeInv, InFlightHasEvent
    <2>3. node[submission.node] \in DONE_STATES
        BY <1>3, <2>1, <2>2, NoNewSuccess
    <2>4. QED
        BY <2>1, <2>3 DEF SeenDone
<1>4. CASE \E n \in Nodes, k \in Attempts, s \in Statuses, docs \in NonEmptyDocs :
             ApplyStatus(n, k, s, docs)
    BY <1>4 DEF ApplyStatus
<1>5. CASE \/ UNCHANGED vars
           \/ \E n \in Nodes, s \in Decisions : Simulate(n, s)
           \/ \E n \in Nodes, k \in Attempts :
                 Poll(n, k) \/ Refile(n, k) \/ Authority(n, k)
    BY <1>1, <1>5 DEF vars, Simulate, Poll, Refile, Authority, AuthorityForgets,
       AuthorityDecides
<1>6. QED
    BY <1>2, <1>3, <1>4, <1>5 DEF Next, Submitter, StatusReports

\* A done node stays done, although submissions commit what they computed from
\* a node they loaded earlier.
THEOREM DoneForGood == Spec => DoneIsFinal
<1>1. Init => TypeInv /\ SeenDone
    BY InitType DEF Init, SeenDone
<1>2. TypeInv /\ SeenDone /\ [Next]_vars =>
        [\A n \in Nodes : node[n] \in DONE_STATES => node'[n] \in DONE_STATES]_vars
    BY DoneStep
<1>3. QED
    BY <1>1, <1>2, NextType, SeenStep, PTL DEF Spec, DoneIsFinal

\* A node with a released attempt has been started.
LEMMA ReleasedIsStarted ==
    ASSUME TypeInv, StartedInv, NEW n \in Nodes, NEW k \in Attempts, k <= attempts[n]
    PROVE  node[n] # "PENDING"
BY BoundsAssumption DEF TypeInv, TypeOK, StartedInv, Attempts

\* While officers ask for documents of started nodes only, a node leaves PENDING
\* in no other way than by the orchestrator unlocking it.
LEMMA StartStep ==
    ASSUME TypeInv, ReleasedInv, StartedInv, ~ OfficerAsksEarly, Next,
           NEW i \in Nodes, node[i] = "PENDING", node'[i] # "PENDING"
    PROVE  i \in unlockable
<1> USE NodesAssumption, BoundsAssumption
<1>1. node \in [Nodes -> NodeState]
    BY DEF TypeInv, TypeOK
<1>2. CASE UNCHANGED <<node, pending, wake>>
    BY <1>2
<1>3. CASE Orchestrate
    BY <1>3 DEF Orchestrate
<1>4. CASE SubmitCommit
    <2>1. submission.node \in Nodes /\ submission.k \in Attempts
          /\ submission.k <= attempts[submission.node]
        BY <1>4 DEF SubmitCommit, TypeInv, InFlightHasEvent, Submission, ReleasedInv
    <2>2. i # submission.node
        BY <2>1, ReleasedIsStarted
    <2>3. QED
        BY <1>1, <1>4, <2>2 DEF SubmitCommit
<1>5. CASE \E d \in Docs : ProvideDocument(d)
    BY <1>5 DEF ProvideDocument, resume_after_documents, resumable
<1>6. CASE \E n \in ParentReported, m \in DOMAIN MILESTONES : Report(n, m)
    BY <1>1, <1>6 DEF Report, transition, OPEN_STATES
<1>7. CASE \E n \in Nodes : Approve(n) \/ Prepare(n) \/ Retry(n) \/ SlaWatchdog(n)
    BY <1>1, <1>7 DEF Approve, release, Prepare, Retry, SlaWatchdog, transition, REQUESTABLE_FROM
<1>8. CASE \E n \in Nodes : Reject(n)
    BY <1>1, <1>8 DEF Reject, transition, StartedInv
<1>9. CASE \E n \in Nodes, docs \in NonEmptyDocs : RequestDocuments(n, docs)
    BY <1>1, <1>9 DEF RequestDocuments, transition
<1>10. ASSUME NEW n \in Nodes, NEW k \in Attempts, SubmitRefused(n, k)
       PROVE  i \in unlockable
    <2>1. k <= attempts[n]
        BY <1>10, KnownIsReleased DEF SubmitRefused, Unreleased, None
    <2>2. QED
        BY <1>1, <1>10, <2>1, ReleasedIsStarted DEF SubmitRefused, transition
<1>11. ASSUME NEW n \in Nodes, NEW k \in Attempts, NEW s \in Statuses,
              NEW docs \in NonEmptyDocs, ApplyStatus(n, k, s, docs)
       PROVE  i \in unlockable
    <2>1. k <= attempts[n]
        BY <1>11, KnownIsReleased DEF ApplyStatus, Unreleased
    <2>2. i # n
        BY <2>1, ReleasedIsStarted
    <2>3. CASE transition(n, StatusTarget(n, s), s \in WithReason)
        BY <1>1, <2>2, <2>3 DEF transition
    <2>4. QED
        BY <1>11, <2>3 DEF ApplyStatus
<1>12. QED
    BY StepKinds, <1>2, <1>3, <1>4, <1>5, <1>6, <1>7, <1>8, <1>9, <1>10, <1>11

\* No step sends a node back to PENDING.
LEMMA NeverUnstarted ==
    ASSUME TypeInv, Next, NEW i \in Nodes, node'[i] = "PENDING"
    PROVE  node[i] = "PENDING"
<1> USE NodesAssumption, BoundsAssumption, Targets
<1>1. node \in [Nodes -> NodeState]
    BY DEF TypeInv, TypeOK
<1>2. CASE UNCHANGED <<node, pending, wake>>
    BY <1>2
<1>3. CASE Orchestrate
    BY <1>3 DEF Orchestrate, unlockable
<1>4. CASE SubmitCommit
    BY <1>1, <1>4 DEF SubmitCommit
<1>5. CASE \E d \in Docs : ProvideDocument(d)
    BY <1>5 DEF ProvideDocument, resume_after_documents, resumable, Gated
<1>6. CASE \E n \in ParentReported, m \in DOMAIN MILESTONES : Report(n, m)
    BY <1>1, <1>6 DEF Report, transition, OPEN_STATES
<1>7. CASE \E n \in Nodes : \/ Approve(n) \/ Reject(n) \/ Prepare(n)
                            \/ Retry(n) \/ SlaWatchdog(n)
    BY <1>1, <1>7 DEF Approve, release, Reject, Prepare, Retry, SlaWatchdog, transition
<1>8. CASE \E n \in Nodes, docs \in NonEmptyDocs : RequestDocuments(n, docs)
    BY <1>1, <1>8 DEF RequestDocuments, transition
<1>9. CASE \E n \in Nodes, k \in Attempts : SubmitRefused(n, k)
    BY <1>1, <1>9 DEF SubmitRefused, transition
<1>10. ASSUME NEW n \in Nodes, NEW k \in Attempts, NEW s \in Statuses,
              NEW docs \in NonEmptyDocs, ApplyStatus(n, k, s, docs)
       PROVE  node[i] = "PENDING"
    <2>1. StatusTarget(n, s) # "PENDING"
        BY DEF ENTITY_REPORTABLE
    <2>2. CASE transition(n, StatusTarget(n, s), s \in WithReason)
        BY <1>1, <2>1, <2>2 DEF transition
    <2>3. QED
        BY <1>10, <2>2 DEF ApplyStatus
<1>11. QED
    BY StepKinds, <1>2, <1>3, <1>4, <1>5, <1>6, <1>7, <1>8, <1>9, <1>10

\* Attempts are counted by approvals only.
LEMMA AttemptsStep ==
    ASSUME Next PROVE attempts' = attempts \/ \E n \in Nodes : Approve(n)
<1>1. CASE \/ Orchestrate \/ SubmitCommit \/ SubmitFails \/ CrashInSubmit
           \/ \E d \in Docs : ProvideDocument(d) \/ SetDocumentStatus(d)
           \/ \E n \in ParentReported, m \in DOMAIN MILESTONES : Report(n, m)
    BY <1>1 DEF Orchestrate, SubmitCommit, SubmitFails, CrashInSubmit,
       ProvideDocument, SetDocumentStatus, Report, requestVars
<1>2. ASSUME NEW n \in Nodes, Officer(n) \/ SlaWatchdog(n)
      PROVE  attempts' = attempts \/ Approve(n)
    BY <1>2 DEF Officer, Reject, Prepare, Retry, RequestDocuments, SlaWatchdog,
       requestVars
<1>3. CASE \E n \in Nodes, s \in Decisions : Simulate(n, s)
    BY <1>3 DEF Simulate, requestVars
<1>4. ASSUME NEW n \in Nodes, NEW k \in Attempts,
             Submitter(n, k) \/ StatusReports(n, k) \/ Authority(n, k)
      PROVE  attempts' = attempts
    BY <1>4 DEF Submitter, SkipSubmit, SubmitRefused, SubmitCall, StatusReports,
       Poll, Refile, ApplyStatus, Authority, AuthorityForgets, AuthorityDecides,
       requestVars
<1>5. QED
    BY <1>1, <1>2, <1>3, <1>4 DEF Next

\* A step opens an approval, or an attempt, only of a node it leaves started.
LEMMA StartedStep == TypeInv /\ StartedInv /\ [Next]_vars => StartedInv'
<1> SUFFICES ASSUME TypeInv, StartedInv, Next, NEW i \in Nodes,
                    i \in pending' \/ attempts'[i] > 0, node'[i] = "PENDING"
             PROVE  FALSE
    BY DEF StartedInv, vars, requestVars
<1>1. node[i] = "PENDING" /\ i \notin pending /\ ~ (attempts[i] > 0)
    BY NeverUnstarted DEF StartedInv
<1>2. attempts' = attempts \/ \E n \in Nodes : Approve(n)
    BY AttemptsStep
<1>3. CASE \E n \in Nodes : Approve(n)
    BY <1>1, <1>3 DEF Approve, release, transition, TypeInv, TypeOK
<1>4. CASE attempts' = attempts /\ i \in pending'
    <2>1. \/ Orchestrate \/ \E d \in Docs : ProvideDocument(d)
          \/ \E n \in Nodes : Prepare(n)
        BY <1>1, <1>4, StepKinds DEF SubmitCommit, Report, Approve, release, Reject, Retry,
           SlaWatchdog, RequestDocuments, SubmitRefused, ApplyStatus
    <2>2. CASE Orchestrate
        BY <1>1, <2>2, <1>4 DEF Orchestrate, PreparedByOrchestrator, Planned, Gated,
           unlockable, Filings, missing_for_node
    <2>3. CASE \E d \in Docs : ProvideDocument(d)
        BY <1>1, <2>3, <1>4 DEF ProvideDocument, resume_after_documents, resumable
    <2>4. CASE \E n \in Nodes : Prepare(n)
        BY <1>1, <2>4, <1>4 DEF Prepare, REQUESTABLE_FROM
    <2>5. QED
        BY <2>1, <2>2, <2>3, <2>4
<1>5. QED
    BY <1>1, <1>2, <1>3, <1>4

\* Nodes start in dependency order: as long as officers ask for documents only
\* of nodes that have started, no node leaves PENDING before everything it
\* depends on is done, and what is done stays so.
THEOREM StartsInOrder ==
    ASSUME ~ OfficerAsksEarly PROVE Spec => []DependencyOrder
<1> DEFINE Inv == /\ TypeInv /\ ReleasedInv /\ SeenDone /\ StartedInv
                  /\ DependencyOrder
<1>1. Init => Inv
    BY InitType DEF Init, ReleasedInv, SeenDone, StartedInv, DependencyOrder
<1>2. ASSUME Inv, Next PROVE DependencyOrder'
    <2>1. SUFFICES ASSUME NEW n \in Nodes, node'[n] # "PENDING", NEW d \in Deps[n]
                   PROVE  node'[d] \in DONE_STATES
        BY DEF DependencyOrder
    <2>2. d \in Nodes
        BY NodesAssumption
    <2>3. node[d] \in DONE_STATES
        <3>1. CASE node[n] = "PENDING"
            BY <1>2, <2>1, <3>1, StartStep DEF unlockable
        <3>2. CASE node[n] # "PENDING"
            BY <1>2, <3>2 DEF DependencyOrder
        <3>3. QED
            BY <3>1, <3>2
    <2>4. QED
        BY <1>2, <2>2, <2>3, DoneStep
<1>3. Inv /\ UNCHANGED vars => DependencyOrder'
    BY DEF DependencyOrder, vars
<1>4. Inv /\ [Next]_vars => Inv'
    BY <1>2, <1>3, NextType, ReleasedStep, SeenStep, StartedStep
<1>5. QED
    BY <1>1, <1>4, PTL DEF Spec

--------------------------------------------------------------------------------
(* No node that can start is forgotten.                                      *)

\* Whatever changes a node's state leaves a trigger for the orchestrator, except
\* an orchestrator run, after which nothing is left to unlock.
LEMMA UnlockStep == TypeInv /\ NoLostUnlock /\ [Next]_vars => NoLostUnlock'
<1> SUFFICES ASSUME TypeInv, NoLostUnlock, [Next]_vars PROVE NoLostUnlock'
    OBVIOUS
<1>1. node \in [Nodes -> NodeState] /\ wake \in BOOLEAN
    BY DEF TypeInv, TypeOK
<1>2. CASE UNCHANGED <<node, wake>>
    BY <1>2 DEF NoLostUnlock, unlockable
<1>3. ASSUME NEW n \in Nodes, NEW t, NEW r, transition(n, t, r) PROVE NoLostUnlock'
    <2>1. CASE node' = node
        BY <1>3, <2>1 DEF transition, NoLostUnlock, unlockable
    <2>2. CASE node' # node
        BY <1>1, <1>3, <2>2 DEF transition, NoLostUnlock
    <2>3. QED
        BY <2>1, <2>2
<1>4. CASE Orchestrate
    <2>1. CASE unlockable = {}
        BY <1>1, <1>4, <2>1 DEF Orchestrate, NoLostUnlock, unlockable
    <2>2. CASE unlockable # {}
        BY <1>4, <2>2 DEF Orchestrate, NoLostUnlock
    <2>3. QED
        BY <2>1, <2>2
<1>5. CASE SubmitCommit
    <2>1. CASE node' = node
        BY <1>5, <2>1 DEF SubmitCommit, NoLostUnlock, unlockable
    <2>2. CASE node' # node
        BY <1>5, <2>2 DEF SubmitCommit, NoLostUnlock
    <2>3. QED
        BY <2>1, <2>2
<1>6. CASE \E d \in Docs : ProvideDocument(d)
    <2>1. wake' = (wake \/ node' # node)
        BY <1>6 DEF ProvideDocument, resume_after_documents
    <2>2. QED
        BY <2>1 DEF NoLostUnlock, unlockable
<1>7. CASE \E n \in Nodes : Prepare(n)
    BY <1>7 DEF Prepare, NoLostUnlock
<1>8. CASE \E n \in ParentReported, m \in DOMAIN MILESTONES : Report(n, m)
    BY <1>3, <1>8, NodesAssumption DEF Report
<1>9. CASE \E n \in Nodes : Approve(n) \/ Reject(n) \/ Retry(n) \/ SlaWatchdog(n)
    BY <1>3, <1>9 DEF Approve, release, Reject, Retry, SlaWatchdog
<1>10. CASE \E n \in Nodes, docs \in NonEmptyDocs : RequestDocuments(n, docs)
    BY <1>2, <1>3, <1>10 DEF RequestDocuments
<1>11. CASE \E n \in Nodes, k \in Attempts : SubmitRefused(n, k)
    BY <1>2, <1>3, <1>11 DEF SubmitRefused
<1>12. CASE \E n \in Nodes, k \in Attempts, s \in Statuses, docs \in NonEmptyDocs :
              ApplyStatus(n, k, s, docs)
    BY <1>2, <1>3, <1>12 DEF ApplyStatus
<1>13. CASE UNCHANGED vars
    BY <1>2, <1>13 DEF vars
<1>14. QED
    BY StepKinds, <1>2, <1>4, <1>5, <1>6, <1>7, <1>8, <1>9, <1>10, <1>11, <1>12, <1>13

\* Whenever a node can start, an event that makes the orchestrator look at the
\* graph is on its way.
THEOREM UnlocksAreSeen == Spec => []NoLostUnlock
<1>1. Init => TypeInv /\ NoLostUnlock
    BY InitType DEF Init, NoLostUnlock
<1>2. QED
    BY <1>1, NextType, UnlockStep, PTL DEF Spec

--------------------------------------------------------------------------------
(* No release is stranded. A node that is being filed must keep the event    *)
(* that files it. The event is used up by a submission of the same attempt,  *)
(* so that submission has to have loaded the node as SUBMITTING (it then     *)
(* moves it on), and by a status of that attempt, which is reported only     *)
(* after the attempt was filed.                                              *)

\* The current attempt of n waits for entity-submitter.
BeingFiled(n) ==
    /\ attempts[n] > 0
    /\ request[n][attempts[n]] = "SUBMITTING"
    /\ releases[n][attempts[n]] > 0
    /\ attempts[n] \notin filed[n]

FilingInv == \A n \in Nodes : node[n] = "SUBMITTING" => BeingFiled(n)

\* Statuses are reported of filed attempts only.
ReportedInv ==
    \A n \in Nodes, k \in Attempts, s \in Statuses :
        statuses[n][k][s] > 0 => k \in filed[n]

\* A submission of the current attempt has not missed that its node was released.
SeenSubmitting ==
    /\ submission # Idle
    /\ submission.k = attempts[submission.node]
    /\ node[submission.node] = "SUBMITTING"
    => submission.seen = "SUBMITTING"

\* Only an approval or a retry sends a node to its authority.
LEMMA SubmittingStep ==
    ASSUME TypeInv, Next, NEW i \in Nodes, node'[i] = "SUBMITTING"
    PROVE  node[i] = "SUBMITTING" \/ Approve(i) \/ Retry(i)
<1> USE NodesAssumption, BoundsAssumption, Targets
<1>1. node \in [Nodes -> NodeState]
    BY DEF TypeInv, TypeOK
<1>2. CASE UNCHANGED <<node, pending, wake>>
    BY <1>2
<1>3. CASE Orchestrate
    BY <1>3 DEF Orchestrate, Planned, Gated
<1>4. CASE SubmitCommit
    BY <1>1, <1>4 DEF SubmitCommit
<1>5. CASE \E d \in Docs : ProvideDocument(d)
    BY <1>5 DEF ProvideDocument, resume_after_documents, Gated
<1>6. CASE \E n \in ParentReported, m \in DOMAIN MILESTONES : Report(n, m)
    BY <1>1, <1>6 DEF Report, transition, OPEN_STATES
<1>7. CASE \E n \in Nodes : \/ Approve(n) \/ Reject(n) \/ Prepare(n)
                            \/ Retry(n) \/ SlaWatchdog(n)
    BY <1>1, <1>7 DEF Approve, release, Reject, Prepare, Retry, SlaWatchdog, transition
<1>8. CASE \E n \in Nodes, docs \in NonEmptyDocs : RequestDocuments(n, docs)
    BY <1>1, <1>8 DEF RequestDocuments, transition
<1>9. CASE \E n \in Nodes, k \in Attempts : SubmitRefused(n, k)
    BY <1>1, <1>9 DEF SubmitRefused, transition
<1>10. ASSUME NEW n \in Nodes, NEW k \in Attempts, NEW s \in Statuses,
              NEW docs \in NonEmptyDocs, ApplyStatus(n, k, s, docs)
       PROVE  node[i] = "SUBMITTING"
    <2>1. StatusTarget(n, s) # "SUBMITTING"
        BY DEF ENTITY_REPORTABLE
    <2>2. CASE transition(n, StatusTarget(n, s), s \in WithReason)
        BY <1>1, <2>1, <2>2 DEF transition
    <2>3. QED
        BY <1>10, <2>2 DEF ApplyStatus
<1>11. QED
    BY StepKinds, <1>2, <1>3, <1>4, <1>5, <1>6, <1>7, <1>8, <1>9, <1>10

\* No step reports on an attempt that is not filed.
LEMMA ReportedStep == TypeInv /\ ReportedInv /\ [Next]_vars => ReportedInv'
<1> SUFFICES ASSUME TypeInv, ReportedInv, [Next]_vars PROVE ReportedInv'
    OBVIOUS
<1> USE BoundsAssumption
<1>1. CASE UNCHANGED <<filed, statuses>>
    BY <1>1 DEF ReportedInv
<1>2. CASE SubmitCommit
    <2>1. submission.node \in Nodes
        BY <1>2 DEF SubmitCommit, TypeInv, InFlightHasEvent, Submission
    <2>2. \A n \in Nodes : filed[n] \subseteq filed'[n]
        BY <1>2, <2>1 DEF SubmitCommit, TypeInv, TypeOK
    <2>3. QED
        BY <1>2, <2>2 DEF SubmitCommit, ReportedInv
<1>3. ASSUME NEW n \in Nodes, NEW s \in Decisions, Simulate(n, s) PROVE ReportedInv'
    <2>1. attempts[n] \in Attempts /\ s \in Statuses
        BY <1>3 DEF Simulate, TypeInv, TypeOK, Attempts, Decisions
    <2>2. QED
        BY <1>3, <2>1 DEF Simulate, TypeInv, TypeOK, requestVars, ReportedInv
<1>4. ASSUME NEW n \in Nodes, NEW k \in Attempts, Poll(n, k) PROVE ReportedInv'
    <2>1. application[n][k] \in Statuses
        BY <1>4 DEF Poll, TypeInv, TypeOK
    <2>2. QED
        BY <1>4, <2>1 DEF Poll, TypeInv, TypeOK, requestVars, ReportedInv
<1>5. ASSUME NEW n \in Nodes, NEW k \in Attempts, NEW s \in Statuses,
             NEW docs \in NonEmptyDocs, ApplyStatus(n, k, s, docs)
      PROVE  ReportedInv'
    BY <1>5 DEF ApplyStatus, TypeInv, TypeOK, ReportedInv
<1>6. ASSUME \/ Orchestrate \/ SubmitFails \/ CrashInSubmit
             \/ \E d \in Docs : ProvideDocument(d) \/ SetDocumentStatus(d)
             \/ \E n \in ParentReported, m \in DOMAIN MILESTONES : Report(n, m)
             \/ UNCHANGED vars
      PROVE  UNCHANGED <<filed, statuses>>
    BY <1>6 DEF Orchestrate, SubmitFails, CrashInSubmit, ProvideDocument,
       SetDocumentStatus, Report, requestVars, eventVars, vars
<1>7. ASSUME NEW n \in Nodes, Officer(n) \/ SlaWatchdog(n)
      PROVE  UNCHANGED <<filed, statuses>>
    BY <1>7 DEF Officer, Approve, Reject, Prepare, Retry, RequestDocuments,
       SlaWatchdog, requestVars, eventVars
<1>8. ASSUME NEW n \in Nodes, NEW k \in Attempts,
             Submitter(n, k) \/ Refile(n, k) \/ Authority(n, k)
      PROVE  UNCHANGED <<filed, statuses>>
    BY <1>8 DEF Submitter, SkipSubmit, SubmitRefused, SubmitCall, Refile,
       Authority, AuthorityForgets, AuthorityDecides, requestVars, eventVars
<1>9. QED
    BY <1>1, <1>2, <1>3, <1>4, <1>5, <1>6, <1>7, <1>8 DEF Next, StatusReports

\* A step of the rest of the system leaves a node that is being filed alone: it
\* keeps the node's requests, events and filings.
LEMMA OthersKeepFiling ==
    ASSUME \/ Orchestrate \/ CrashInSubmit
           \/ \E d \in Docs : ProvideDocument(d) \/ SetDocumentStatus(d)
           \/ \E n \in ParentReported, m \in DOMAIN MILESTONES : Report(n, m)
           \/ \E n \in Nodes : Reject(n) \/ Prepare(n) \/ SlaWatchdog(n)
           \/ \E n \in Nodes, docs \in NonEmptyDocs : RequestDocuments(n, docs)
           \/ \E n \in Nodes, s \in Decisions : Simulate(n, s)
           \/ \E n \in Nodes, k \in Attempts :
                 \/ Poll(n, k) \/ Refile(n, k) \/ Authority(n, k)
                 \/ \E outcome \in Outcomes : SubmitCall(n, k, outcome)
    PROVE  UNCHANGED <<attempts, request, filed, releases>>
BY DEF Orchestrate, CrashInSubmit, ProvideDocument, SetDocumentStatus, Report,
   Reject, Prepare, SlaWatchdog, RequestDocuments, Simulate, Poll, Refile,
   Authority, AuthorityForgets, AuthorityDecides, SubmitCall, requestVars, eventVars

\* A node that is being filed moves on with the step that uses its event up.
LEMMA FilingStep ==
    ASSUME TypeInv, ReleasedInv, ReportedInv, FilingInv, SeenSubmitting, [Next]_vars
    PROVE  FilingInv'
<1> SUFFICES ASSUME Next, NEW i \in Nodes, node'[i] = "SUBMITTING"
             PROVE  BeingFiled(i)'
    BY DEF FilingInv, BeingFiled, vars, requestVars, eventVars
<1> USE BoundsAssumption
<1>1. CASE Approve(i)
    <2>1. attempts[i] + 1 \in Attempts /\ attempts[i] + 1 > attempts[i]
          /\ attempts[i] + 1 > 0
        BY <1>1 DEF Approve, release, TypeInv, TypeOK, Attempts
    <2>2. releases[i][attempts[i] + 1] \in Nat /\ attempts[i] + 1 \notin filed[i]
        BY <2>1 DEF TypeInv, TypeOK, ReleasedInv
    <2>3. QED
        BY <1>1, <2>1, <2>2 DEF Approve, release, TypeInv, TypeOK, BeingFiled
<1>2. CASE Retry(i)
    <2>1. attempts[i] \in Attempts /\ attempts[i] > 0
        BY <1>2 DEF Retry, TypeInv, TypeOK, Attempts
    <2>2. QED
        BY <1>2, <2>1 DEF Retry, TypeInv, TypeOK, BeingFiled
<1>3. CASE node[i] = "SUBMITTING"
    <2> DEFINE c == attempts[i]
    <2>1. BeingFiled(i) /\ c \in Attempts
        BY <1>3 DEF FilingInv, BeingFiled, TypeInv, TypeOK, Attempts
    <2>2. CASE UNCHANGED <<attempts, request, filed, releases>>
        BY <2>1, <2>2 DEF BeingFiled
    <2>3. ASSUME NEW n \in Nodes, NEW k \in Attempts, n # i \/ k # c,
                 UNCHANGED attempts,
                 \A j \in Attempts : n # i \/ j # k =>
                    /\ request'[i][j] = request[i][j]
                    /\ releases'[i][j] = releases[i][j]
                    /\ j \in filed'[i] => j \in filed[i]
          PROVE  BeingFiled(i)'
        BY <2>1, <2>3 DEF BeingFiled
    <2>4. CASE \E n \in Nodes : Approve(n) \/ Retry(n)
        <3>1. PICK n \in Nodes : Approve(n) \/ Retry(n)
            BY <2>4
        <3>2. n # i
            BY <1>3, <3>1 DEF Approve, Retry
        <3>3. QED
            BY <2>1, <3>1, <3>2 DEF Approve, Retry, release, TypeInv, TypeOK, BeingFiled
    <2>5. CASE SubmitCommit
        <3>1. submission.node \in Nodes /\ submission.k \in Attempts
            BY <2>5 DEF SubmitCommit, TypeInv, InFlightHasEvent, Submission
        <3>2. submission.node # i \/ submission.k # c
            <4>1. SUFFICES ASSUME submission.node = i, submission.k = c PROVE FALSE
                OBVIOUS
            <4>2. submission.seen = "SUBMITTING"
                BY <1>3, <2>5, <4>1 DEF SubmitCommit, SeenSubmitting
            <4>3. node'[i] = SubmitTarget
                BY <2>5, <4>1, <4>2, Targets DEF SubmitCommit, TypeInv, TypeOK
            <4>4. QED
                BY <4>3, Targets
        <3>3. UNCHANGED attempts
              /\ \A j \in Attempts : submission.node # i \/ j # submission.k =>
                    /\ request'[i][j] = request[i][j]
                    /\ releases'[i][j] = releases[i][j]
                    /\ j \in filed'[i] => j \in filed[i]
            BY <2>5, <3>1 DEF SubmitCommit, TypeInv, TypeOK
        <3>4. QED
            BY <2>3, <3>1, <3>2, <3>3
    <2>6. CASE SubmitFails
        <3>1. submission.node \in Nodes /\ submission.k \in Attempts
            BY <2>6 DEF SubmitFails, TypeInv, InFlightHasEvent, Submission
        <3>2. submission.node # i \/ submission.k # c
            BY <1>3, <2>6, Targets DEF SubmitFails, SeenSubmitting, assert_transition,
               can_transition, ALLOWED, NodeState
        <3>3. UNCHANGED <<attempts, request, filed>>
              /\ \A j \in Attempts : submission.node # i \/ j # submission.k =>
                    releases'[i][j] = releases[i][j]
            BY <2>6, <3>1 DEF SubmitFails, requestVars, TypeInv, TypeOK
        <3>4. QED
            BY <2>3, <3>1, <3>2, <3>3
    <2>7. ASSUME NEW n \in Nodes, NEW k \in Attempts, SkipSubmit(n, k)
          PROVE  BeingFiled(i)'
        <3>1. n # i \/ k # c
            BY <2>1, <2>7 DEF SkipSubmit, BeingFiled
        <3>2. UNCHANGED <<attempts, request, filed>>
              /\ \A j \in Attempts : n # i \/ j # k => releases'[i][j] = releases[i][j]
            BY <2>7 DEF SkipSubmit, requestVars, TypeInv, TypeOK
        <3>3. QED
            BY <2>3, <3>1, <3>2
    <2>8. ASSUME NEW n \in Nodes, NEW k \in Attempts, SubmitRefused(n, k)
          PROVE  BeingFiled(i)'
        <3>1. n # i
            BY <1>3, <2>8 DEF SubmitRefused, transition, assert_transition,
               can_transition, ALLOWED, NodeState, TypeInv, TypeOK
        <3>2. UNCHANGED <<attempts, filed>>
              /\ \A j \in Attempts : /\ request'[i][j] = request[i][j]
                                     /\ releases'[i][j] = releases[i][j]
            BY <2>8, <3>1 DEF SubmitRefused, TypeInv, TypeOK
        <3>3. QED
            BY <2>3, <3>1, <3>2
    <2>9. ASSUME NEW n \in Nodes, NEW k \in Attempts, NEW s \in Statuses,
                 NEW docs \in NonEmptyDocs, ApplyStatus(n, k, s, docs)
          PROVE  BeingFiled(i)'
        <3>1. n # i \/ k # c
            BY <2>1, <2>9 DEF ApplyStatus, ReportedInv, BeingFiled
        <3>2. UNCHANGED <<attempts, filed, releases>>
              /\ \A j \in Attempts : n # i \/ j # k => request'[i][j] = request[i][j]
            BY <2>9 DEF ApplyStatus, TypeInv, TypeOK
        <3>3. QED
            BY <2>3, <3>1, <3>2
    <2>10. QED
        <3> HIDE DEF c
        <3>1. QED
            BY OthersKeepFiling, <2>2, <2>4, <2>5, <2>6, <2>7, <2>8, <2>9
               DEF Next, Officer, Submitter, StatusReports
<1>4. QED
    BY <1>1, <1>2, <1>3, SubmittingStep

\* Where retries wait for their event to be handled, none of them releases the
\* attempt of a submission in progress, and an approval opens another attempt.
LEMMA SeenSubmittingStep ==
    ASSUME TypeInv, ReleasedInv, SeenSubmitting, ~ RetryOverlaps, [Next]_vars
    PROVE  SeenSubmitting'
<1> SUFFICES ASSUME Next, submission' # Idle,
                    submission'.k = attempts'[submission'.node],
                    node'[submission'.node] = "SUBMITTING"
             PROVE  submission'.seen = "SUBMITTING"
    BY DEF SeenSubmitting, vars, requestVars
<1> USE BoundsAssumption
<1> DEFINE i == submission.node
           k == submission.k
<1>1. CASE \E n \in Nodes, j \in Attempts, outcome \in Outcomes :
             SubmitCall(n, j, outcome)
    BY <1>1 DEF SubmitCall
<1>2. CASE submission' = submission
    <2>1. /\ i \in Nodes /\ k \in Attempts /\ attempts[i] \in Nat
          /\ releases[i][k] > 0 /\ k <= attempts[i]
        BY <1>2 DEF TypeInv, TypeOK, InFlightHasEvent, Submission, Filings, ReleasedInv
    <2>2. CASE Approve(i)
        <3>1. attempts'[i] = attempts[i] + 1
            BY <2>1, <2>2 DEF Approve, release, TypeInv, TypeOK
        <3>2. k <= attempts[i] /\ k = attempts[i] + 1
            BY <1>2, <2>1, <3>1
        <3>3. QED
            BY <2>1, <3>2 DEF Attempts
    <2>3. CASE Retry(i)
        <3>1. attempts' = attempts /\ releases[i][attempts[i]] < 1
            BY <2>3 DEF Retry
        <3>2. releases[i][k] \in Nat
            BY <2>1 DEF TypeInv, TypeOK
        <3>3. QED
            BY <1>2, <2>1, <3>1, <3>2
    <2>4. CASE node[i] = "SUBMITTING"
        <3>1. k = attempts[i]
            <4>1. CASE attempts' = attempts
                BY <1>2, <4>1
            <4>2. CASE \E n \in Nodes : Approve(n)
                BY <1>2, <2>1, <2>4, <4>2 DEF Approve, release, TypeInv, TypeOK
            <4>3. QED
                BY <4>1, <4>2, AttemptsStep
        <3>2. QED
            BY <1>2, <2>4, <3>1 DEF SeenSubmitting
    <2>5. QED
        BY <1>2, <2>1, <2>2, <2>3, <2>4, SubmittingStep
<1>3. CASE SubmitCommit \/ SubmitFails \/ CrashInSubmit
    BY <1>3 DEF SubmitCommit, SubmitFails, CrashInSubmit
<1>4. CASE \/ Orchestrate
           \/ \E d \in Docs : ProvideDocument(d) \/ SetDocumentStatus(d)
           \/ \E n \in ParentReported, m \in DOMAIN MILESTONES : Report(n, m)
           \/ \E n \in Nodes, s \in Decisions : Simulate(n, s)
    BY <1>2, <1>4 DEF Orchestrate, ProvideDocument, SetDocumentStatus, Report, Simulate
<1>5. ASSUME NEW n \in Nodes, Officer(n) \/ SlaWatchdog(n)
      PROVE  submission' = submission
    BY <1>5 DEF Officer, Approve, Reject, Prepare, Retry, RequestDocuments, SlaWatchdog
<1>6. ASSUME NEW n \in Nodes, NEW j \in Attempts,
             \/ SkipSubmit(n, j) \/ SubmitRefused(n, j)
             \/ StatusReports(n, j) \/ Authority(n, j)
      PROVE  submission' = submission
    BY <1>6 DEF SkipSubmit, SubmitRefused, StatusReports, Poll, Refile, ApplyStatus,
       Authority, AuthorityForgets, AuthorityDecides
<1>7. QED
    BY <1>1, <1>2, <1>3, <1>4, <1>5, <1>6 DEF Next, Submitter

\* As long as officers do not retry a release whose event is still undelivered,
\* a node that is being filed has its request and the event that will file it:
\* no duplicate, late status, crash or failed handler uses the event up without
\* moving the node on.
THEOREM ReleasesAreNotStranded ==
    ASSUME ~ RetryOverlaps PROVE Spec => []NoStrandedRelease
<1> DEFINE Inv == /\ TypeInv /\ ReleasedInv /\ ReportedInv
                  /\ FilingInv /\ SeenSubmitting
<1>1. Init => Inv
    BY InitType DEF Init, ReleasedInv, ReportedInv, FilingInv, SeenSubmitting
<1>2. Inv /\ [Next]_vars => Inv'
    BY NextType, ReleasedStep, ReportedStep, FilingStep, SeenSubmittingStep
<1>3. Inv => NoStrandedRelease
    BY DEF FilingInv, BeingFiled, NoStrandedRelease
<1>4. QED
    BY <1>1, <1>2, <1>3, PTL DEF Spec
--------------------------------------------------------------------------------
(* The case keeps its promise. A step of CaseFiling either leaves the world  *)
(* of the authorities and the grants alone and moves nodes, or is an         *)
(* officer's approval, or changes the world and moves no node.               *)

\* The refinement mapping.
Started == {n \in Nodes : node[n] # "PENDING"}
Held == {x \in Nodes \X Attempts : application[x[1]][x[2]] # None}
Finished == {n \in Nodes : node[n] \in DONE_STATES}

\* A step that leaves what is mapped alone is a stutter of the promise.
LEMMA PromiseStutter ==
    ASSUME UNCHANGED <<Started, Held, Finished, granted, confirmed>>
    PROVE  UNCHANGED Promise!vars
BY DEF Promise!vars, Started, Held, Finished

\* A step that moves one node starts it, finishes it, or does neither.
LEMMA MovesOne ==
    ASSUME TypeInv, ReleasedInv, StartedInv, SeenDone, Next,
           NEW n \in Nodes, NEW t \in NodeState,
           node' = [node EXCEPT ![n] = t],
           UNCHANGED <<granted, application, confirmed>>,
           t \in DONE_STATES =>
              node[n] # "PENDING" /\ n \in ParentReported \cup confirmed
    PROVE  [Promise!Next]_(Promise!vars)
<1> USE NodesAssumption
<1>1. node \in [Nodes -> NodeState] /\ "PENDING" \notin DONE_STATES
    BY DEF TypeInv, TypeOK, DONE_STATES
<1>2. UNCHANGED Held
    BY DEF Held
<1>3. CASE node[n] = "PENDING" /\ t # "PENDING"
    <2>1. Started' = Started \cup {n} /\ Finished' = Finished
        BY <1>1, <1>3 DEF Started, Finished
    <2>2. ~ OfficerAsksEarly => Deps[n] \subseteq Finished
        BY <1>1, <1>3, StartStep DEF unlockable, Finished
    <2>3. Promise!Start({n})
        BY <1>2, <1>3, <2>1, <2>2 DEF Promise!Start, Started, Held, Finished
    <2>4. QED
        BY <2>3 DEF Promise!Next
<1>4. CASE t = "PENDING"
    <2>1. node[n] = "PENDING"
        BY <1>1, <1>4, NeverUnstarted
    <2>2. node' = node
        BY <1>1, <1>4, <2>1
    <2>3. QED
        BY <1>2, <2>2, PromiseStutter DEF Started, Finished
<1>5. CASE node[n] # "PENDING" /\ t # "PENDING"
    <2>1. Started' = Started /\ n \in Started
        BY <1>1, <1>5 DEF Started
    <2>2. CASE t \in DONE_STATES
        <3>1. Finished' = Finished \cup {n}
            BY <1>1, <2>2 DEF Finished
        <3>2. Promise!Finish(n)
            BY <1>2, <2>1, <2>2, <3>1 DEF Promise!Finish, Started, Held, Finished
        <3>3. QED
            BY <3>2 DEF Promise!Next
    <2>3. CASE t \notin DONE_STATES
        <3>1. node[n] \notin DONE_STATES
            BY <1>1, <2>3, DoneStep
        <3>2. Finished' = Finished
            BY <1>1, <2>3, <3>1 DEF Finished
        <3>3. QED
            BY <1>2, <2>1, <3>2, PromiseStutter
    <2>4. QED
        BY <2>2, <2>3
<1>6. QED
    BY <1>3, <1>4, <1>5

\* A validated transition of a node is such a step.
LEMMA TransitionMovesOne ==
    ASSUME TypeInv, ReleasedInv, StartedInv, SeenDone, Next,
           NEW n \in Nodes, NEW t \in NodeState, NEW r, transition(n, t, r),
           UNCHANGED <<granted, application, confirmed>>,
           t \in DONE_STATES =>
              node[n] # "PENDING" /\ n \in ParentReported \cup confirmed
    PROVE  [Promise!Next]_(Promise!vars)
BY MovesOne DEF transition
\* The steps that leave grants and authorities alone.
NodeSteps ==
    \/ Orchestrate \/ SubmitCommit \/ SubmitFails \/ CrashInSubmit
    \/ \E d \in Docs : ProvideDocument(d) \/ SetDocumentStatus(d)
    \/ \E n \in ParentReported, m \in DOMAIN MILESTONES : Report(n, m)
    \/ \E n \in Nodes : \/ Reject(n) \/ Prepare(n) \/ Retry(n) \/ SlaWatchdog(n)
                        \/ \E docs \in NonEmptyDocs : RequestDocuments(n, docs)
    \/ \E n \in Nodes, k \in Attempts :
          \/ SkipSubmit(n, k) \/ SubmitRefused(n, k) \/ Poll(n, k)
          \/ \E s \in Statuses, docs \in NonEmptyDocs : ApplyStatus(n, k, s, docs)

\* They do.
LEMMA NodeStepsFrame ==
    ASSUME NodeSteps PROVE UNCHANGED <<granted, application, confirmed>>
<1>1. CASE \/ Orchestrate \/ SubmitCommit \/ SubmitFails \/ CrashInSubmit
           \/ \E d \in Docs : ProvideDocument(d) \/ SetDocumentStatus(d)
           \/ \E n \in ParentReported, m \in DOMAIN MILESTONES : Report(n, m)
    BY <1>1 DEF Orchestrate, SubmitCommit, SubmitFails, CrashInSubmit,
       ProvideDocument, SetDocumentStatus, Report, world
<1>2. ASSUME NEW n \in Nodes,
             \/ Reject(n) \/ Prepare(n) \/ Retry(n) \/ SlaWatchdog(n)
             \/ \E docs \in NonEmptyDocs : RequestDocuments(n, docs)
      PROVE  UNCHANGED <<granted, application, confirmed>>
    BY <1>2 DEF Reject, Prepare, Retry, SlaWatchdog, RequestDocuments, world
<1>3. ASSUME NEW n \in Nodes, NEW k \in Attempts,
             \/ SkipSubmit(n, k) \/ SubmitRefused(n, k) \/ Poll(n, k)
             \/ \E s \in Statuses, docs \in NonEmptyDocs : ApplyStatus(n, k, s, docs)
      PROVE  UNCHANGED <<granted, application, confirmed>>
    BY <1>3 DEF SkipSubmit, SubmitRefused, Poll, ApplyStatus, world
<1>4. QED
    BY <1>1, <1>2, <1>3 DEF NodeSteps

\* An orchestrator run starts the nodes it unlocked, if there are any.
LEMMA OrchestrateStarts ==
    ASSUME TypeInv, Orchestrate
    PROVE  [Promise!Next]_(Promise!vars)
<1> USE NodesAssumption
<1>1. node \in [Nodes -> NodeState] /\ "PENDING" \notin DONE_STATES
    BY DEF TypeInv, TypeOK, DONE_STATES
<1>2. UNCHANGED <<Held, granted, confirmed>>
    BY DEF Orchestrate, world, Held
<1>3. \A n \in Nodes : Planned(n) \notin DONE_STATES \cup {"PENDING"}
    <2>1. \A n \in unlockable : node[n] = "PENDING"
        BY DEF unlockable
    <2>2. QED
        BY DEF Planned, Gated, DONE_STATES
<1>4. /\ Started' = Started \cup unlockable
      /\ Finished' = Finished
      /\ unlockable \cap Started = {}
      /\ unlockable \in SUBSET Nodes
    BY <1>1, <1>3 DEF Orchestrate, Started, Finished, unlockable
<1>5. CASE unlockable = {}
    BY <1>2, <1>4, <1>5, PromiseStutter
<1>6. CASE unlockable # {}
    <2>1. PICK S \in SUBSET Nodes : S = unlockable
        BY <1>4
    <2>2. Deps \in [Nodes -> SUBSET Nodes] /\ \A n \in S : Deps[n] \subseteq Finished
        BY <2>1 DEF unlockable, Finished
    <2>3. Promise!Start(S)
        BY <1>2, <1>4, <1>6, <2>1, <2>2 DEF Promise!Start, Started, Held, Finished
    <2>4. QED
        BY <2>3 DEF Promise!Next
<1>7. QED
    BY <1>5, <1>6

\* Complete documents bring nodes to the gate or to the parent: they have
\* started, and are not done.
LEMMA ResumingStutters ==
    ASSUME TypeInv, NEW d \in Docs, ProvideDocument(d)
    PROVE  UNCHANGED Promise!vars
<1>1. node \in [Nodes -> NodeState]
    BY DEF TypeInv, TypeOK
<1>2. UNCHANGED <<Held, granted, confirmed>>
    BY DEF ProvideDocument, world, Held
<1>3. \A n \in Nodes : /\ node'[n] = "PENDING" <=> node[n] = "PENDING"
                       /\ node'[n] \in DONE_STATES <=> node[n] \in DONE_STATES
    BY <1>1 DEF ProvideDocument, resume_after_documents, resumable, Gated, DONE_STATES
<1>4. QED
    BY <1>2, <1>3, PromiseStutter DEF Started, Finished

\* Whatever moves a node moves it as promised.
LEMMA NodeStepsKeepPromise ==
    ASSUME TypeInv, ReleasedInv, EarnedInv, StartedInv, SeenDone, Next, NodeSteps
    PROVE  [Promise!Next]_(Promise!vars)
<1> USE NodesAssumption, BoundsAssumption, Targets, StateTypes, NodeStepsFrame
<1>0. node \in [Nodes -> NodeState]
    BY DEF TypeInv, TypeOK
<1>1. CASE UNCHANGED node
    BY <1>1, PromiseStutter DEF Started, Held, Finished
<1>2. CASE Orchestrate
    BY <1>2, OrchestrateStarts
<1>3. CASE SubmitCommit
    <2>1. submission.node \in Nodes /\ SubmitTarget \notin DONE_STATES
        BY <1>3 DEF SubmitCommit, TypeInv, InFlightHasEvent, Submission, DONE_STATES
    <2>2. QED
        BY <1>1, <1>3, <2>1, MovesOne DEF SubmitCommit
<1>4. CASE \E d \in Docs : ProvideDocument(d)
    BY <1>4, ResumingStutters
<1>5. ASSUME NEW n \in ParentReported, NEW m \in DOMAIN MILESTONES, Report(n, m)
      PROVE  [Promise!Next]_(Promise!vars)
    <2>1. node[n] # "PENDING" /\ transition(n, MILESTONES[m], m = "DELAYED")
        BY <1>5 DEF Report, OPEN_STATES
    <2>2. QED
        BY <2>1, TransitionMovesOne
<1>6. ASSUME NEW n \in Nodes, NEW t \in {"BLOCKED", "SUBMITTING", "STALLED", "DOCUMENT_MISSING"},
             NEW r, transition(n, t, r)
      PROVE  [Promise!Next]_(Promise!vars)
    <2>1. t \in NodeState \ DONE_STATES
        BY DEF NodeState, DONE_STATES
    <2>2. QED
        BY <1>6, <2>1, TransitionMovesOne
<1>7. CASE \E n \in Nodes : Reject(n) \/ Retry(n) \/ SlaWatchdog(n)
    BY <1>6, <1>7 DEF Reject, Retry, SlaWatchdog
<1>8. ASSUME NEW n \in Nodes, Prepare(n) PROVE [Promise!Next]_(Promise!vars)
    <2>1. "WAITING_FOR_HUMAN" \in NodeState \ DONE_STATES
        BY DEF NodeState, DONE_STATES
    <2>2. QED
        BY <1>8, <2>1, MovesOne DEF Prepare
<1>9. CASE \E n \in Nodes, docs \in NonEmptyDocs : RequestDocuments(n, docs)
    BY <1>1, <1>6, <1>9 DEF RequestDocuments
<1>10. CASE \E n \in Nodes, k \in Attempts : SubmitRefused(n, k)
    BY <1>1, <1>6, <1>10 DEF SubmitRefused
<1>11. ASSUME NEW n \in Nodes, NEW k \in Attempts, NEW s \in Statuses,
              NEW docs \in NonEmptyDocs, ApplyStatus(n, k, s, docs)
       PROVE  [Promise!Next]_(Promise!vars)
    <2>1. k <= attempts[n]
        BY <1>11, KnownIsReleased DEF ApplyStatus, Unreleased
    <2>2. node[n] # "PENDING"
        BY <2>1, ReleasedIsStarted
    <2>3. StatusTarget(n, s) \in DONE_STATES => n \in confirmed
        BY <1>11 DEF ApplyStatus, EarnedInv
    <2>4. CASE transition(n, StatusTarget(n, s), s \in WithReason)
        BY <2>2, <2>3, <2>4, TransitionMovesOne
    <2>5. QED
        BY <1>1, <1>11, <2>4 DEF ApplyStatus
<1>12. CASE \/ SubmitFails \/ CrashInSubmit \/ \E d \in Docs : SetDocumentStatus(d)
            \/ \E n \in Nodes, k \in Attempts : SkipSubmit(n, k) \/ Poll(n, k)
    BY <1>1, <1>12 DEF SubmitFails, CrashInSubmit, SetDocumentStatus, SkipSubmit, Poll
<1>13. QED
    BY <1>2, <1>3, <1>4, <1>5, <1>7, <1>8, <1>9, <1>10, <1>11, <1>12 DEF NodeSteps
\* What an authority records for a released attempt is a filing it was granted,
\* and what it loses is a filing it held.
LEMMA RecordsAsGranted ==
    ASSUME TypeInv, ReleasedInv, NEW n \in Nodes, NEW k \in Attempts,
           NEW s \in Statuses \cup {None},
           UNCHANGED <<node, granted, confirmed>>,
           application' = [application EXCEPT ![n][k] = s],
           s # None => k <= attempts[n]
    PROVE  [Promise!Next]_(Promise!vars)
<1>1. /\ application \in [Nodes -> [Attempts -> Statuses \cup {None}]]
      /\ granted[n] = attempts[n] /\ attempts[n] \in Nat /\ k \in Nat \ {0}
      /\ MaxAttempts \in Nat
    BY BoundsAssumption DEF TypeInv, TypeOK, ReleasedInv, Attempts
<1>2. Started' = Started /\ Finished' = Finished
    BY DEF Started, Finished
<1>3. CASE s # None
    <2>1. Held' = Held \cup {<<n, k>>}
        BY <1>1, <1>3 DEF Held
    <2>2. k \in 1 .. granted[n]
        BY <1>1, <1>3
    <2>3. Promise!File(n, k)
        BY <1>2, <2>1, <2>2 DEF Promise!File, Started, Held, Finished
    <2>4. QED
        BY <2>2, <2>3 DEF Promise!Next
<1>4. CASE s = None /\ application[n][k] = None
    <2>1. Held' = Held
        BY <1>1, <1>4 DEF Held
    <2>2. QED
        BY <1>2, <2>1, PromiseStutter
<1>5. CASE s = None /\ application[n][k] # None
    <2>1. Held' = Held \ {<<n, k>>} /\ <<n, k>> \in Held
        BY <1>1, <1>5 DEF Held
    <2>2. k \in 1 .. granted[n]
        BY <1>1, <1>5, KnownIsReleased DEF Unreleased
    <2>3. Promise!Lose(n, k)
        BY <1>2, <2>1 DEF Promise!Lose, Started, Held, Finished
    <2>4. QED
        BY <2>2, <2>3 DEF Promise!Next
<1>6. QED
    BY <1>3, <1>4, <1>5

\* An authority that reports a success confirms a filing it was granted.
LEMMA ConfirmsAsGranted ==
    ASSUME TypeInv, ReleasedInv, NEW n \in Nodes, NEW k \in Attempts,
           NEW s \in Statuses, UNCHANGED <<node, granted>>, k <= attempts[n],
           application' = [application EXCEPT ![n][k] = s],
           confirmed' = confirmed \cup {n}
    PROVE  [Promise!Next]_(Promise!vars)
<1>1. /\ application \in [Nodes -> [Attempts -> Statuses \cup {None}]]
      /\ k \in 1 .. granted[n] /\ s # None
    BY BoundsAssumption
       DEF TypeInv, TypeOK, ReleasedInv, Attempts, None, ENTITY_REPORTABLE
<1>2. Started' = Started /\ Finished' = Finished
    BY DEF Started, Finished
<1>3. Held' = Held \cup {<<n, k>>}
    BY <1>1 DEF Held
<1>4. Promise!Confirm(n, k)
    BY <1>1, <1>2, <1>3 DEF Promise!Confirm, Started, Held, Finished
<1>5. QED
    BY <1>1, <1>4 DEF Promise!Next

\* The steps in which an authority records, decides or forgets.
LEMMA WorldStepsKeepPromise ==
    ASSUME TypeInv, ReleasedInv,
           \/ \E n \in Nodes, s \in Decisions : Simulate(n, s)
           \/ \E n \in Nodes, k \in Attempts :
                 \/ Refile(n, k) \/ Authority(n, k)
                 \/ \E outcome \in Outcomes : SubmitCall(n, k, outcome)
    PROVE  [Promise!Next]_(Promise!vars)
<1> USE BoundsAssumption
<1>1. ASSUME NEW n \in Nodes, NEW k \in Attempts, NEW s \in Decisions,
             UNCHANGED <<node, granted>>, k <= attempts[n],
             application' = [application EXCEPT ![n][k] = s],
             confirmed' = IF s \in DONE_STATES THEN confirmed \cup {n} ELSE confirmed
      PROVE  [Promise!Next]_(Promise!vars)
    <2>1. s \in Statuses /\ s # None
        BY DEF Decisions, None, ENTITY_REPORTABLE
    <2>2. CASE s \in DONE_STATES
        BY <1>1, <2>1, <2>2, ConfirmsAsGranted
    <2>3. CASE s \notin DONE_STATES
        BY <1>1, <2>1, <2>3, RecordsAsGranted
    <2>4. QED
        BY <2>2, <2>3
<1>2. ASSUME NEW n \in Nodes, NEW s \in Decisions, Simulate(n, s)
      PROVE  [Promise!Next]_(Promise!vars)
    <2>1. attempts[n] \in Attempts /\ attempts[n] <= attempts[n]
        BY <1>2 DEF Simulate, TypeInv, TypeOK, Attempts
    <2>2. QED
        BY <1>1, <1>2, <2>1 DEF Simulate
<1>3. ASSUME NEW n \in Nodes, NEW k \in Attempts, Refile(n, k)
      PROVE  [Promise!Next]_(Promise!vars)
    <2>1. k <= attempts[n]
        BY <1>3, KnownIsReleased DEF Refile, Unreleased
    <2>2. QED
        BY <1>3, <2>1, RecordsAsGranted DEF Refile
<1>4. ASSUME NEW n \in Nodes, NEW k \in Attempts, AuthorityForgets(n, k)
      PROVE  [Promise!Next]_(Promise!vars)
    BY <1>4, RecordsAsGranted DEF AuthorityForgets
<1>5. ASSUME NEW n \in Nodes, NEW k \in Attempts, NEW s \in Decisions,
             AuthorityDecides(n, k, s)
      PROVE  [Promise!Next]_(Promise!vars)
    <2>1. k <= attempts[n]
        BY <1>5, KnownIsReleased DEF AuthorityDecides, Unreleased
    <2>2. QED
        BY <1>1, <1>5, <2>1 DEF AuthorityDecides
<1>6. ASSUME NEW n \in Nodes, NEW k \in Attempts, NEW outcome \in Outcomes,
             SubmitCall(n, k, outcome)
      PROVE  [Promise!Next]_(Promise!vars)
    <2> DEFINE recorded == IF application[n][k] = None THEN "SUBMITTED"
                           ELSE application[n][k]
    <2>1. k <= attempts[n]
        BY <1>6, KnownIsReleased DEF SubmitCall, Unreleased, None
    <2>2. recorded \in Statuses
        BY DEF TypeInv, TypeOK
    <2>3. UNCHANGED <<node, granted, confirmed>>
        BY <1>6 DEF SubmitCall
    <2>4. CASE application' = application
        BY <2>3, <2>4, PromiseStutter DEF Started, Held, Finished
    <2>5. CASE application' = [application EXCEPT ![n][k] = recorded]
        <3> HIDE DEF recorded
        <3>1. QED
            BY <2>1, <2>2, <2>3, <2>5, RecordsAsGranted
    <2>6. QED
        BY <1>6, <2>4, <2>5 DEF SubmitCall
<1>7. QED
    BY <1>2, <1>3, <1>4, <1>5, <1>6 DEF Authority

\* An approval grants one filing of a node that waits at the gate.
LEMMA ApprovalGrants ==
    ASSUME TypeInv, NEW n \in Nodes, Approve(n)
    PROVE  [Promise!Next]_(Promise!vars)
<1>1. node \in [Nodes -> NodeState]
    BY DEF TypeInv, TypeOK
<1>2. node[n] = "WAITING_FOR_HUMAN" /\ node' = [node EXCEPT ![n] = "SUBMITTING"]
    BY DEF Approve, release, transition
<1>3. /\ Started' = Started /\ Finished' = Finished /\ Held' = Held
      /\ n \in Started \ Finished
    BY <1>1, <1>2 DEF Approve, world, Started, Finished, Held, DONE_STATES
<1>4. Promise!Grant(n)
    BY <1>3 DEF Approve, world, Promise!Grant, Started, Finished, Held
<1>5. QED
    BY <1>4 DEF Promise!Next

\* Every case keeps the promise of CasePromise: its nodes start once and after
\* their dependencies, officers grant what authorities come to hold, and a node
\* finishes by the parent's report or its authority's confirmation, and for good.
THEOREM CaseKeepsPromise == Spec => ImplementsCasePromise
<1> DEFINE Inv == /\ TypeInv /\ ReleasedInv /\ EarnedInv /\ SeenDone /\ StartedInv
<1>1. Init => Inv
    BY InitType
       DEF Init, ReleasedInv, EarnedInv, DoneIsEarned, SeenDone, StartedInv,
           DONE_STATES, None, Filings
<1>2. Inv /\ [Next]_vars => Inv'
    BY NextType, ReleasedStep, EarnedStep, SeenStep, StartedStep
<1>3. Init => Promise!Init
    BY DEF Init, Promise!Init, DONE_STATES
<1>4. Inv /\ [Next]_vars => [Promise!Next]_(Promise!vars)
    <2>1. SUFFICES ASSUME Inv, Next PROVE [Promise!Next]_(Promise!vars)
        BY PromiseStutter DEF vars, world, Started, Held, Finished
    <2>2. \/ NodeSteps
          \/ \E n \in Nodes : Approve(n)
          \/ \E n \in Nodes, s \in Decisions : Simulate(n, s)
          \/ \E n \in Nodes, k \in Attempts :
                \/ Refile(n, k) \/ Authority(n, k)
                \/ \E outcome \in Outcomes : SubmitCall(n, k, outcome)
        BY <2>1 DEF Next, NodeSteps, Officer, Submitter, StatusReports
    <2>3. QED
        BY <2>1, <2>2, NodeStepsKeepPromise, WorldStepsKeepPromise, ApprovalGrants
<1>5. QED
    BY <1>1, <1>2, <1>3, <1>4, PTL DEF Spec, ImplementsCasePromise, Promise!Spec
================================================================================
