------------------------------- MODULE CaseStatus -------------------------------
(***************************************************************************)
(* The status of a case. Nobody sets it: every transaction that moves a    *)
(* node, opens an escalation or resolves one computes it again from what   *)
(* it sees (CaseService.refresh) and writes it if it differs from what it  *)
(* read. Transactions run under READ COMMITTED without row versions, so    *)
(* what one saw may be out of date when it commits.                        *)
(*                                                                         *)
(* A transaction reads, writes (the point where it computes the status)    *)
(* and commits; the others commit in between. A node is known by its kind, *)
(* the part of its state the status depends on. Two transactions at once   *)
(* move different nodes. Left out: risk, which is written the same way,    *)
(* the cases in INTAKE and CLOSED, whose status is not computed, and       *)
(* rollbacks for other reasons, which leave nothing behind.                *)
(***************************************************************************)
EXTENDS Naturals, FiniteSets, NodeStates

CONSTANTS
    Nodes,     \* the nodes of the case
    Clients,   \* requests, jobs and handlers that run at once
    Occurring, \* the kinds of node states that occur
    MaxOpened  \* bound: escalations opened

ASSUME CaseStatusAssumption ==
    /\ Nodes # {} /\ "none" \notin Nodes
    /\ "orchestrator" \notin Clients
    /\ Occurring \subseteq {"done", "parent", "officer", "other"}
    /\ MaxOpened \in Nat \ {0}

VARIABLES
    node,         \* node[n]: the kind of n's state
    escalation,   \* escalation[i]: the i-th escalation
    status,       \* the case's status
    announced,    \* CaseCompleted events recorded
    wake,         \* undelivered triggers of the orchestrator
    txn,          \* txn[c]: the transaction of client c
    drift,        \* history: the last status was computed while others committed
    lapsed        \* history: a resolution wrote a status over a newer one

vars == <<node, escalation, status, announced, wake, txn, drift, lapsed>>

Orchestrator == "orchestrator"
Workers == Clients \cup {Orchestrator}
Opened == 1 .. MaxOpened

CaseStates == {"ACTIVE", "WAITING_FOR_PARENT", "WAITING_FOR_HUMAN", "ESCALATED", "COMPLETED"}
EscalationStates == {"none", "OPEN", "IN_PROGRESS", "RESOLVED"}
Triggers == {"node", "completed"}

\* What refresh tells apart of a node's state, and the moves between them that
\* the transition table allows.
Kinds == {"done", "parent", "officer", "other"}
Kind(s) == CASE s \in DONE_STATES -> "done"
             [] s \in {"WAITING_FOR_PARENT", "DOCUMENT_MISSING"} -> "parent"
             [] s = "WAITING_FOR_HUMAN" -> "officer"
             [] OTHER -> "other"
Moves == {m \in Kinds \X Kinds : \E s, t \in NodeState :
              can_transition(s, t) /\ Kind(s) = m[1] /\ Kind(t) = m[2]}

Operations == {"none", "move", "open", "resolve", "complete"}
Transactions ==
    [op : Operations,
     node : Nodes \cup {"none"}, to : Kinds,   \* a move: of which node, to which kind
     id : Opened \cup {0},                     \* a resolution: of which escalation
     at : {"idle", "read", "written"},
     saw : CaseStates, nodes : [Nodes -> Kinds],
     status : CaseStates,                      \* the status it computed
     announces : BOOLEAN,                      \* it inserts CaseCompleted
     alone : BOOLEAN]                          \* history: no other changed anything since it began

Idle == [op |-> "none", node |-> "none", to |-> "other", id |-> 0, at |-> "idle",
         saw |-> "ACTIVE", nodes |-> [n \in Nodes |-> "other"], status |-> "ACTIVE",
         announces |-> FALSE, alone |-> TRUE]

Open(i) == escalation[i] \in {"OPEN", "IN_PROGRESS"}
OpenNow == {i \in Opened : Open(i)}
AllDone(ns) == \A n \in Nodes : ns[n] = "done"

Init ==
    /\ node = [n \in Nodes |-> "other"]
    /\ escalation = [i \in Opened |-> "none"]
    /\ status = "ACTIVE"
    /\ announced = 0
    /\ wake = {"node"}
    /\ txn = [c \in Workers |-> Idle]
    /\ drift = FALSE /\ lapsed = FALSE

--------------------------------------------------------------------------------
\* Mutant: an escalation comes before completion.
refreshEscalated(ns, open) ==
    IF open # {} THEN "ESCALATED"
    ELSE IF AllDone(ns) THEN "COMPLETED"
    ELSE IF \E n \in Nodes : ns[n] = "parent" THEN "WAITING_FOR_PARENT"
    ELSE IF \E n \in Nodes : ns[n] = "officer" THEN "WAITING_FOR_HUMAN"
    ELSE "ACTIVE"

\* CaseService.refresh: the status of a case with these nodes and escalations.
refresh(ns, open) ==
    IF AllDone(ns) THEN "COMPLETED"
    ELSE IF open # {} THEN "ESCALATED"
    ELSE IF \E n \in Nodes : ns[n] = "parent" THEN "WAITING_FOR_PARENT"
    ELSE IF \E n \in Nodes : ns[n] = "officer" THEN "WAITING_FOR_HUMAN"
    ELSE "ACTIVE"

--------------------------------------------------------------------------------
(* Reading. A session keeps the rows it has loaded. *)

Begin(c, t) ==
    /\ txn[c] = Idle
    /\ txn' = [txn EXCEPT ![c] = [t EXCEPT !.saw = status, !.nodes = node, !.at = "read"]]
    /\ UNCHANGED <<node, escalation, status, announced, drift, lapsed>>

ReadMove(c, n) ==
    /\ \A d \in Workers : txn[d].node # n
    /\ \E k \in Occurring :
          /\ <<node[n], k>> \in Moves
          /\ Begin(c, [Idle EXCEPT !.op = "move", !.node = n, !.to = k])
    /\ UNCHANGED wake

\* EscalationService.open returns an open escalation about the same node and
\* reason; what follows is the opening of another one.
ReadOpen(c) ==
    /\ Cardinality({i \in Opened : escalation[i] = "none"})
         > Cardinality({d \in Workers : txn[d].op = "open"})
    /\ Begin(c, [Idle EXCEPT !.op = "open"])
    /\ UNCHANGED wake

ReadResolve(c, i) ==
    /\ Open(i)
    /\ Begin(c, [Idle EXCEPT !.op = "resolve", !.id = i])
    /\ UNCHANGED wake

\* A run of the orchestrator on one trigger, perhaps not the last. What it
\* moves is a move; it completes the case if every node it sees is done.
ReadComplete(w) ==
    /\ w \in wake /\ wake' \in {wake, wake \ {w}}
    /\ txn[Orchestrator] = Idle
    /\ IF AllDone(node) /\ w # "completed"
       THEN Begin(Orchestrator, [Idle EXCEPT !.op = "complete"])
       ELSE UNCHANGED <<node, escalation, status, announced, txn, drift, lapsed>>

--------------------------------------------------------------------------------
(* Writing: the row is locked and the status computed. The nodes are those the *)
(* session has loaded or those committed by now, its own move included.        *)

Locked(i) == \E c \in Workers : txn[c].at = "written" /\ txn[c].id = i

Sees(t, ns) == [n \in Nodes |-> IF n = t.node THEN t.to ELSE ns[n]]
Leaves(t) == CASE t.op = "open" -> OpenNow \cup {0}
               [] t.op = "resolve" -> OpenNow \ {t.id}
               [] OTHER -> OpenNow

Write(c) ==
    LET t == txn[c] IN
    /\ t.at = "read"
    /\ t.op = "resolve" => ~ Locked(t.id)
    /\ \E ns \in {t.nodes} \cup (IF t.op = "complete" THEN {} ELSE {node}) :
          LET now == refresh(Sees(t, ns), Leaves(t)) IN
          txn' = [txn EXCEPT ![c] =
                    [t EXCEPT !.at = "written", !.status = now, !.nodes = Idle.nodes,
                              !.announces = now = "COMPLETED" /\ t.saw # now /\ announced = 0]]
    /\ UNCHANGED <<node, escalation, status, announced, wake, drift, lapsed>>

--------------------------------------------------------------------------------
(* Committing. *)

\* Mutant: a resolution leaves the status to the next transition.
WrittenLater(t) == IF t.status # t.saw /\ t.op # "resolve" THEN t.status ELSE status

\* Only what differs from what was read is written.
Written(t) == IF t.status # t.saw THEN t.status ELSE status

\* Mutant: only moves within the case are events for the orchestrator.
WakesUnlessDone(t) ==
    (IF t.op = "open" \/ (t.op = "move" /\ t.to # "done") THEN {"node"} ELSE {})
    \cup (IF t.announces THEN {"completed"} ELSE {})

\* The triggers a transaction records; a resolution is none.
Wakes(t) ==
    (IF t.op \in {"move", "open"} THEN {"node"} ELSE {})
    \cup (IF t.announces THEN {"completed"} ELSE {})

\* Mutant: the key of CaseCompleted is not unique.
ClashesNever(t) == FALSE

\* CaseCompleted has one idempotency key, which a unique index guards.
Clashes(t) == t.announces /\ announced > 0

\* The others have not seen this commit.
Meanwhile(t, effective) == [t EXCEPT !.alone = @ /\ ~ (effective /\ t.at # "idle")]

Done(c, effective) ==
    txn' = [d \in Workers |-> IF d = c THEN Idle ELSE Meanwhile(txn[d], effective)]

Abort(c) ==
    LET t == txn[c] IN
    /\ t.at = "written" /\ Clashes(t)
    /\ Done(c, FALSE)
    /\ wake' = wake \cup (IF t.op = "complete" THEN {"node"} ELSE {})
    /\ UNCHANGED <<node, escalation, status, announced, drift, lapsed>>

Escalated(t, i) ==
    CASE t.op = "open" -> [escalation EXCEPT ![i] = "OPEN"]
      [] t.op = "resolve" -> [escalation EXCEPT ![t.id] = "RESOLVED"]
      [] OTHER -> escalation

Commit(c) ==
    LET t == txn[c] IN
    /\ t.at = "written" /\ ~ Clashes(t)
    /\ \E i \in Opened :
          /\ t.op = "open" => escalation[i] = "none"
          /\ escalation' = Escalated(t, i)
    /\ node' = IF t.op = "move" THEN [node EXCEPT ![t.node] = t.to] ELSE node
    /\ status' = Written(t)
    /\ announced' = IF t.announces THEN announced + 1 ELSE announced
    /\ wake' = wake \cup Wakes(t)
    /\ drift' = ~ t.alone
    /\ lapsed' = (lapsed \/ (t.op = "resolve" /\ AllDone(node) /\ t.status # "COMPLETED"))
    /\ Done(c, TRUE)

\* Taking an escalation asks nothing of its state and computes no status.
Take(i) ==
    /\ escalation[i] # "none" /\ ~ Locked(i)
    /\ escalation' = [escalation EXCEPT ![i] = "IN_PROGRESS"]
    /\ IF escalation[i] = "RESOLVED"
       THEN drift' = TRUE /\ txn' = [c \in Workers |-> Meanwhile(txn[c], TRUE)]
       ELSE UNCHANGED <<drift, txn>>
    /\ UNCHANGED <<node, status, announced, wake, lapsed>>

--------------------------------------------------------------------------------
Next ==
    \/ \E c \in Clients :
          \/ \E n \in Nodes : ReadMove(c, n)
          \/ ReadOpen(c)
          \/ \E i \in Opened : ReadResolve(c, i)
    \/ \E w \in Triggers : ReadComplete(w)
    \/ \E c \in Workers : Write(c) \/ Commit(c) \/ Abort(c)
    \/ \E i \in Opened : Take(i)

Spec == Init /\ [][Next]_vars

--------------------------------------------------------------------------------
\* Every variable has its type.
TypeOK ==
    /\ node \in [Nodes -> Kinds]
    /\ escalation \in [Opened -> EscalationStates]
    /\ status \in CaseStates
    /\ announced \in Nat
    /\ wake \subseteq Triggers
    /\ txn \in [Workers -> Transactions]
    /\ drift \in BOOLEAN /\ lapsed \in BOOLEAN

\* CaseCompleted is recorded at most once, and always when the case is COMPLETED.
AnnouncedOnce ==
    announced <= 1 /\ (status = "COMPLETED" => announced = 1)

\* When the last status was computed by a transaction that no other overlapped,
\* it is the status of the nodes and escalations as they are, whatever the
\* transactions before left behind.
StatusHeals ==
    ~ drift => status = refresh(node, OpenNow)

\* A case whose nodes are all done is COMPLETED, or somebody will look at it
\* again: a trigger is on its way or a transaction that sees it is running;
\* unless an escalation was resolved by somebody who had not seen the last node.
CompletionIsSeen ==
    AllDone(node) /\ status # "COMPLETED" =>
        lapsed \/ "node" \in wake \/ txn[Orchestrator].op = "complete"
================================================================================
