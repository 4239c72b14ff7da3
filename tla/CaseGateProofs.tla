---------------------------- MODULE CaseGateProofs ----------------------------
(***************************************************************************)
(* Every filing of a case passes the gate of OfficerGate: proof for every  *)
(* graph, every set of documents and statuses and every bound.             *)
(***************************************************************************)
EXTENDS CaseFilingProofs

\* A step of the gate of i, or none.
Passes(i) == [Gate(i)!Next]_(Gate(i)!vars)

\* A step of every filing's gate, or none.
AllPass == \A n \in Filings : [Gate(n)!Next]_(Gate(n)!vars)

Short(i) == missing_for_node(i, outstanding) # {}

\* The gate has the table of the nodes.
LEMMA GateTable ==
    ASSUME NEW i \in Filings
    PROVE  /\ Gate(i)!NodeState = NodeState
           /\ Gate(i)!DONE_STATES = DONE_STATES
           /\ \A s, t : Gate(i)!can_transition(s, t) = can_transition(s, t)
           /\ \A s, t : Gate(i)!assert_transition(s, t) = assert_transition(s, t)
<1>1. Gate(i)!NodeState = NodeState
    BY DEF Gate!NodeState, NodeState
<1>2. Gate(i)!DONE_STATES = DONE_STATES
    BY DEF Gate!DONE_STATES, DONE_STATES
<1>3. Gate(i)!ALLOWED = ALLOWED
    BY <1>1 DEF Gate!ALLOWED, ALLOWED
<1>4. QED
    BY <1>1, <1>2, <1>3 DEF Gate!can_transition, can_transition,
       Gate!assert_transition, assert_transition

\* A step that leaves the filing, its approval and its grants alone changes at
\* most whether its documents are complete.
LEMMA OthersPass ==
    ASSUME NEW i \in Filings, node'[i] = node[i], i \in pending' <=> i \in pending,
           granted'[i] = granted[i]
    PROVE  Passes(i)
<1>1. CASE Short(i)' = Short(i)
    BY <1>1 DEF Passes, Gate!vars, Short
<1>2. CASE Short(i)' # Short(i)
    <2>1. Gate(i)!Document
        BY <1>2 DEF Gate!Document, Short
    <2>2. QED
        BY <2>1 DEF Passes, Gate!Next
<1>3. QED
    BY <1>1, <1>2

\* A move along the table, or a late outcome of a submission, that does not pass
\* the gate.
LEMMA MovesPass ==
    ASSUME NEW i \in Filings, NEW t \in NodeState \ {"WAITING_FOR_HUMAN"},
           node'[i] = t, i \in pending' <=> i \in pending, granted'[i] = granted[i],
           \/ assert_transition(node[i], t)
           \/ t \in {"SUBMITTED", "STALLED"} /\ granted[i] > 0 /\ node[i] \notin DONE_STATES,
           node[i] = "WAITING_FOR_HUMAN" => t # "SUBMITTING"
    PROVE  Passes(i)
<1>1. CASE t = node[i]
    BY <1>1, OthersPass
<1>2. CASE t # node[i]
    <2>1. can_transition(node[i], t) \/ Gate(i)!LateOutcome(t)
        BY <1>2, GateTable DEF assert_transition, Gate!LateOutcome
    <2>2. Gate(i)!Move
        BY <2>1, GateTable DEF Gate!Move
    <2>3. QED
        BY <2>2 DEF Passes, Gate!Next
<1>3. QED
    BY <1>1, <1>2

\* A validated transition of one node, at the hand of no officer.
LEMMA TransitionPasses ==
    ASSUME TypeInv, NEW i \in Filings, NEW n \in Nodes,
           NEW t \in NodeState \ {"WAITING_FOR_HUMAN"}, NEW r, transition(n, t, r),
           pending' = pending, granted' = granted,
           node[n] = "WAITING_FOR_HUMAN" => t # "SUBMITTING"
    PROVE  Passes(i)
<1>1. node' = [node EXCEPT ![n] = t] /\ assert_transition(node[n], t)
    BY DEF transition
<1>2. node \in [Nodes -> NodeState] /\ i \in Nodes
    BY DEF TypeInv, TypeOK, Filings
<1>3. CASE i = n
    BY <1>1, <1>2, <1>3, MovesPass
<1>4. CASE i # n
    BY <1>1, <1>2, <1>4, OthersPass
<1>5. QED
    BY <1>3, <1>4

--------------------------------------------------------------------------------
\* The orchestrator starts a filing that lacks documents by asking for them, and
\* parks one that has them under a new approval.
LEMMA OrchestratePasses ==
    ASSUME TypeInv, Orchestrate, NEW i \in Filings
    PROVE  Passes(i)
<1>1. /\ node \in [Nodes -> NodeState] /\ i \in Nodes /\ i \notin ParentReported
      /\ granted' = granted /\ outstanding' = outstanding
      /\ node' = [n \in Nodes |-> IF n \in unlockable THEN Planned(n) ELSE node[n]]
      /\ pending' = pending \cup PreparedByOrchestrator
    BY DEF TypeInv, TypeOK, Filings, Orchestrate
<1>2. CASE i \notin unlockable
    BY <1>1, <1>2, OthersPass DEF PreparedByOrchestrator
<1>3. CASE i \in unlockable
    <2>1. node[i] = "PENDING" /\ node'[i] = Planned(i)
        BY <1>1, <1>3 DEF unlockable
    <2>2. CASE Short(i)
        <3>1. node'[i] = "DOCUMENT_MISSING" /\ (i \in pending' <=> i \in pending)
            BY <1>1, <2>1, <2>2 DEF Planned, Short, PreparedByOrchestrator
        <3>2. can_transition("PENDING", "DOCUMENT_MISSING")
            BY DEF can_transition, ALLOWED, NodeState
        <3>3. QED
            BY <1>1, <2>1, <3>1, <3>2, MovesPass DEF assert_transition, NodeState
    <2>3. CASE ~ Short(i) /\ i \in pending
        <3>1. node'[i] = "READY" /\ (i \in pending' <=> i \in pending)
            BY <1>1, <2>1, <2>3 DEF Planned, Gated, Short
        <3>2. can_transition("PENDING", "READY")
            BY DEF can_transition, ALLOWED, NodeState
        <3>3. QED
            BY <1>1, <2>1, <3>1, <3>2, MovesPass DEF assert_transition, NodeState
    <2>4. CASE ~ Short(i) /\ i \notin pending
        <3>1. node'[i] = "WAITING_FOR_HUMAN" /\ i \in pending'
            BY <1>1, <1>3, <2>1, <2>4 DEF Planned, Gated, Short, PreparedByOrchestrator
        <3>2. Gate(i)!Prepare
            BY <1>1, <2>1, <2>4, <3>1 DEF Gate!Prepare, Gate!Park, Short
        <3>3. QED
            BY <3>2 DEF Passes, Gate!Next
    <2>5. QED
        BY <2>2, <2>3, <2>4
<1>4. QED
    BY <1>2, <1>3

\* The outcome of a submission moves a node that was released and is not done,
\* whatever it has become since it was loaded.
LEMMA SubmitCommitPasses ==
    ASSUME TypeInv, ReleasedInv, SeenDone, SubmitCommit, NEW i \in Filings
    PROVE  Passes(i)
<1>1. /\ node \in [Nodes -> NodeState] /\ i \in Nodes
      /\ granted' = granted /\ pending' = pending
      /\ submission # Idle /\ assert_transition(submission.seen, SubmitTarget)
      /\ node' = IF submission.seen = SubmitTarget THEN node
                 ELSE [node EXCEPT ![submission.node] = SubmitTarget]
    BY DEF TypeInv, TypeOK, Filings, SubmitCommit
<1>2. CASE node'[i] = node[i]
    BY <1>1, <1>2, OthersPass
<1>3. CASE node'[i] # node[i]
    <2>1. i = submission.node /\ node'[i] = SubmitTarget
        BY <1>1, <1>3
    <2>2. granted[i] > 0
        <3>1. submission.k \in Nat \ {0} /\ attempts[i] \in Nat
            BY <1>1, BoundsAssumption
               DEF TypeInv, TypeOK, InFlightHasEvent, Submission, Attempts
        <3>2. submission.k <= granted[i]
            BY <1>1, <2>1 DEF ReleasedInv
        <3>3. granted[i] = attempts[i]
            BY <1>1 DEF ReleasedInv
        <3>4. QED
            BY <3>1, <3>2, <3>3
    <2>3. node[i] \notin DONE_STATES
        <3>1. SubmitTarget \notin DONE_STATES
            BY Targets DEF DONE_STATES
        <3>2. submission.seen \notin DONE_STATES
            BY <1>1, <3>1, DoneAllows
        <3>3. QED
            BY <1>1, <2>1, <3>2 DEF SeenDone
    <2>4. SubmitTarget \in NodeState \ {"WAITING_FOR_HUMAN", "SUBMITTING"}
        BY Targets DEF NodeState
    <2>5. QED
        BY <1>1, <2>1, <2>2, <2>3, <2>4, Targets, MovesPass
<1>4. QED
    BY <1>2, <1>3

\* An upload that completes a filing's documents parks it under a new approval;
\* one with an approval stays where it is.
LEMMA ResumePasses ==
    ASSUME TypeInv, NEW d \in Docs, ProvideDocument(d), NEW i \in Filings
    PROVE  Passes(i)
<1>1. PICK docs \in SUBSET Docs : docs = outstanding \ {d}
    BY DEF TypeInv, TypeOK
<1>2. /\ i \in Nodes /\ i \notin ParentReported
      /\ granted' = granted /\ outstanding' = docs
      /\ node'[i] = IF i \in resumable(docs) THEN Gated(i, node[i]) ELSE node[i]
      /\ pending' = pending \cup (resumable(docs) \cap Filings)
    BY <1>1 DEF TypeInv, TypeOK, Filings, ProvideDocument, resume_after_documents
<1>3. CASE i \notin resumable(docs) \/ i \in pending
    BY <1>2, <1>3, OthersPass DEF Gated
<1>4. CASE i \in resumable(docs) /\ i \notin pending
    <2>1. node[i] = "DOCUMENT_MISSING" /\ missing_for_node(i, outstanding') = {}
        BY <1>2, <1>4 DEF resumable
    <2>2. Gate(i)!Resume
        BY <1>2, <1>4, <2>1 DEF Gate!Resume, Gate!Park, Gated, missing_for_node
    <2>3. QED
        BY <2>2 DEF Passes, Gate!Next
<1>5. QED
    BY <1>3, <1>4

--------------------------------------------------------------------------------
(* The officer. *)

LEMMA ApprovePasses ==
    ASSUME TypeInv, NEW n \in Nodes, Approve(n), NEW i \in Filings
    PROVE  Passes(i)
<1>1. /\ node \in [Nodes -> NodeState] /\ granted \in [Nodes -> Nat] /\ i \in Nodes
      /\ node' = [node EXCEPT ![n] = "SUBMITTING"]
      /\ pending' = pending \ {n} /\ granted' = [granted EXCEPT ![n] = @ + 1]
      /\ outstanding' = outstanding
      /\ n \in pending /\ node[n] = "WAITING_FOR_HUMAN"
      /\ missing_for_node(n, outstanding) = {}
    BY DEF TypeInv, TypeOK, Filings, Approve, release, transition
<1>2. CASE i = n
    <2>1. Gate(i)!Approve
        BY <1>1, <1>2 DEF Gate!Approve
    <2>2. QED
        BY <2>1 DEF Passes, Gate!Next
<1>3. CASE i # n
    BY <1>1, <1>3, OthersPass
<1>4. QED
    BY <1>2, <1>3

LEMMA RejectPasses ==
    ASSUME TypeInv, NEW n \in Nodes, Reject(n), NEW i \in Filings
    PROVE  Passes(i)
<1>1. /\ node \in [Nodes -> NodeState] /\ i \in Nodes
      /\ node' = [node EXCEPT ![n] = "BLOCKED"] /\ assert_transition(node[n], "BLOCKED")
      /\ n \in pending /\ pending' = pending \ {n}
      /\ granted' = granted /\ outstanding' = outstanding
    BY DEF TypeInv, TypeOK, Filings, Reject, transition
<1>2. CASE i = n
    <2>1. Gate(i)!Reject
        BY <1>1, <1>2, GateTable DEF Gate!Reject
    <2>2. QED
        BY <2>1 DEF Passes, Gate!Next
<1>3. CASE i # n
    BY <1>1, <1>3, OthersPass
<1>4. QED
    BY <1>2, <1>3

LEMMA PreparePasses ==
    ASSUME TypeInv, NEW n \in Nodes, Prepare(n), NEW i \in Filings
    PROVE  Passes(i)
<1>1. /\ node \in [Nodes -> NodeState] /\ i \in Nodes
      /\ node' = [node EXCEPT ![n] = "WAITING_FOR_HUMAN"]
      /\ n \notin pending /\ node[n] \in REQUESTABLE_FROM
      /\ pending' = pending \cup {n}
      /\ granted' = granted /\ outstanding' = outstanding
    BY DEF TypeInv, TypeOK, Filings, Prepare
<1>2. CASE i = n
    <2>1. Gate(i)!Prepare
        BY <1>1, <1>2 DEF Gate!Prepare, Gate!Park, Gate!REQUESTABLE_FROM, REQUESTABLE_FROM
    <2>2. QED
        BY <2>1 DEF Passes, Gate!Next
<1>3. CASE i # n
    BY <1>1, <1>3, OthersPass
<1>4. QED
    BY <1>2, <1>3

LEMMA AskPasses ==
    ASSUME TypeInv, NEW n \in Nodes, NEW docs \in NonEmptyDocs,
           RequestDocuments(n, docs), NEW i \in Filings
    PROVE  Passes(i)
<1>1. /\ node \in [Nodes -> NodeState] /\ i \in Nodes
      /\ pending' = pending \ {n} /\ granted' = granted
      /\ outstanding' = outstanding \cup docs
    BY DEF TypeInv, TypeOK, Filings, RequestDocuments
<1>2. /\ node' = [node EXCEPT ![n] = "DOCUMENT_MISSING"]
      /\ assert_transition(node[n], "DOCUMENT_MISSING")
    BY <1>1 DEF RequestDocuments, transition, assert_transition
<1>3. CASE i = n
    <2>1. Short(i) => Short(i)'
        BY <1>1 DEF Short, missing_for_node
    <2>2. Gate(i)!Ask
        <3>1. i \notin pending' /\ node'[i] = "DOCUMENT_MISSING"
            BY <1>1, <1>2, <1>3
        <3>2. Gate(i)!assert_transition(node[i], "DOCUMENT_MISSING")
            BY <1>2, <1>3, GateTable
        <3>3. QED
            BY <1>1, <2>1, <3>1, <3>2 DEF Gate!Ask, Short
    <2>3. QED
        BY <2>2 DEF Passes, Gate!Next
<1>4. CASE i # n
    BY <1>1, <1>2, <1>4, OthersPass
<1>5. QED
    BY <1>3, <1>4

--------------------------------------------------------------------------------
\* Only an approval grants a release.
LEMMA OnlyApprovalGrants ==
    ASSUME Next PROVE UNCHANGED granted \/ \E n \in Nodes : Approve(n)
<1>1. NodeSteps => UNCHANGED granted
    BY NodeStepsFrame
<1>2. \A n \in Nodes, k \in Attempts :
          \/ Refile(n, k) \/ Authority(n, k)
          \/ \E outcome \in Outcomes : SubmitCall(n, k, outcome)
          => UNCHANGED granted
    BY DEF Refile, Authority, AuthorityForgets, AuthorityDecides, SubmitCall
<1>3. \A n \in Nodes, s \in Decisions : Simulate(n, s) => UNCHANGED granted
    BY DEF Simulate
<1>4. QED
    BY <1>1, <1>2, <1>3 DEF Next, NodeSteps, Officer, Submitter, StatusReports

\* Whatever step a case takes, every filing passes its gate.
LEMMA StepPasses ==
    ASSUME TypeInv, ReleasedInv, SeenDone, Next, NEW i \in Filings
    PROVE  Passes(i)
<1> USE NodesAssumption, BoundsAssumption
<1>1. CASE \E n \in Nodes : Approve(n)
    BY <1>1, ApprovePasses
<1>2. CASE UNCHANGED granted /\ UNCHANGED <<node, pending, wake>>
    BY <1>2, OthersPass
<1>3. CASE Orchestrate
    BY <1>3, OrchestratePasses
<1>4. CASE SubmitCommit
    BY <1>4, SubmitCommitPasses
<1>5. CASE \E d \in Docs : ProvideDocument(d)
    BY <1>5, ResumePasses
<1>6. CASE \E n \in Nodes : Reject(n) \/ Prepare(n)
    BY <1>6, RejectPasses, PreparePasses
<1>7. CASE \E n \in Nodes, docs \in NonEmptyDocs : RequestDocuments(n, docs)
    BY <1>7, AskPasses
<1>8. ASSUME NEW n \in Nodes, Retry(n) \/ SlaWatchdog(n) PROVE Passes(i)
    <2>1. {"SUBMITTING", "STALLED"} \subseteq NodeState \ {"WAITING_FOR_HUMAN"}
        BY DEF NodeState
    <2>2. CASE Retry(n)
        BY <2>1, <2>2, TransitionPasses DEF Retry
    <2>3. CASE SlaWatchdog(n)
        BY <2>1, <2>3, TransitionPasses DEF SlaWatchdog
    <2>4. QED
        BY <1>8, <2>2, <2>3
<1>9. ASSUME NEW n \in ParentReported, NEW m \in DOMAIN MILESTONES, Report(n, m)
      PROVE  Passes(i)
    <2>1. MILESTONES[m] \in NodeState \ {"WAITING_FOR_HUMAN", "SUBMITTING"}
        BY Targets, StateTypes DEF OPEN_STATES
    <2>2. QED
        BY <1>9, <2>1, TransitionPasses DEF Report
<1>10. ASSUME NEW n \in Nodes, NEW k \in Attempts, SubmitRefused(n, k)
       PROVE  Passes(i)
    <2>1. "BLOCKED" \in NodeState \ {"WAITING_FOR_HUMAN"}
        BY DEF NodeState
    <2>2. CASE assert_transition(node[n], "BLOCKED")
        BY <1>10, <2>1, <2>2, TransitionPasses DEF SubmitRefused
    <2>3. CASE ~ assert_transition(node[n], "BLOCKED")
        BY <1>10, <2>3, OthersPass DEF SubmitRefused
    <2>4. QED
        BY <2>2, <2>3
<1>11. ASSUME NEW n \in Nodes, NEW k \in Attempts, NEW s \in Statuses,
              NEW docs \in NonEmptyDocs, ApplyStatus(n, k, s, docs)
       PROVE  Passes(i)
    <2>1. StatusTarget(n, s) \in NodeState \ {"WAITING_FOR_HUMAN", "SUBMITTING"}
        BY Targets, StateTypes DEF ENTITY_REPORTABLE
    <2>2. CASE transition(n, StatusTarget(n, s), s \in WithReason)
        BY <1>11, <2>1, <2>2, TransitionPasses DEF ApplyStatus
    <2>3. CASE UNCHANGED <<node, wake>>
        BY <1>11, <2>3, OthersPass DEF ApplyStatus
    <2>4. QED
        BY <1>11, <2>2, <2>3 DEF ApplyStatus
<1>12. QED
    BY StepKinds, OnlyApprovalGrants, <1>1, <1>2, <1>3, <1>4, <1>5, <1>6, <1>7,
       <1>8, <1>9, <1>10, <1>11

\* Whatever the officers, the orchestrator, the consumers, the jobs and the
\* resident do, each filing's gate is only passed by an officer's approval of a
\* prepared and complete submission, and only a new approval parks it.
THEOREM EveryFilingPassesItsGate == Spec => PassesGate
<1> DEFINE Inv == TypeInv /\ ReleasedInv /\ SeenDone
<1>1. Init => Inv
    BY InitType DEF Init, ReleasedInv, SeenDone, None
<1>2. Inv /\ [Next]_vars => Inv'
    BY NextType, ReleasedStep, SeenStep
<1>3. Inv /\ [Next]_vars => [AllPass]_vars
    BY StepPasses DEF AllPass, Passes
<1>4. Spec => [][AllPass]_vars
    BY <1>1, <1>2, <1>3, PTL DEF Spec
<1>5. [][AllPass]_vars => PassesGate
    BY DEF AllPass, PassesGate
<1>6. QED
    BY <1>4, <1>5
================================================================================
