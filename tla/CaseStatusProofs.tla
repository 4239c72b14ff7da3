---------------------------- MODULE CaseStatusProofs ----------------------------
(***************************************************************************)
(* Proofs about CaseStatus, for any number of nodes, concurrent            *)
(* transactions and escalations.                                           *)
(***************************************************************************)
EXTENDS CaseStatus, TLAPS

\* What a transaction has in its hands, whatever the others do: a move moves a
\* node; a status computed as COMPLETED and not read as such is announced, or
\* the announcement was there; a run that completes saw every node done.
HeldInv ==
    \A c \in Workers : LET t == txn[c] IN
        /\ IF t.op = "move" THEN t.node \in Nodes ELSE t.node = "none"
        /\ t.op = "resolve" => t.id \in Opened
        /\ t.at = "idle" => t = Idle
        /\ t.op = "none" => t.at = "idle"
        /\ t.announces => t.status = "COMPLETED"
        /\ t.at = "written" /\ t.status = "COMPLETED" /\ t.saw # "COMPLETED" =>
               t.announces \/ announced > 0
        /\ t.op = "complete" /\ t.at = "read" => AllDone(t.nodes)
        /\ t.op = "complete" /\ t.at = "written" => t.status = "COMPLETED"

\* What a transaction that nobody overlapped knows is so.
AloneInv ==
    \A c \in Workers : LET t == txn[c] IN
        t.alone /\ t.at # "idle" =>
            /\ t.saw = status
            /\ t.at = "read" => t.nodes = node
            /\ t.at = "written" => t.status = refresh(Sees(t, node), Leaves(t))

\* The orchestrator completes only, and one that began when the case was
\* COMPLETED and whose end will not write it has another look to come.
RunInv ==
    /\ txn[Orchestrator].op \in {"none", "complete"}
    /\ \A c \in Clients : txn[c].op # "complete"
    /\ txn[Orchestrator].op = "complete" /\ txn[Orchestrator].saw = "COMPLETED"
         /\ AllDone(node) /\ status # "COMPLETED" => lapsed \/ "node" \in wake

StatusInv == TypeOK /\ HeldInv /\ AnnouncedOnce /\ AloneInv /\ StatusHeals

CompletionInv == StatusInv /\ RunInv /\ CompletionIsSeen

--------------------------------------------------------------------------------
LEMMA RefreshType == ASSUME NEW ns, NEW open PROVE refresh(ns, open) \in CaseStates
BY DEF refresh, CaseStates

\* The status depends on whether an escalation is open, not on which.
LEMMA RefreshSame ==
    ASSUME NEW ns, NEW open, NEW others, open = {} <=> others = {}
    PROVE  refresh(ns, open) = refresh(ns, others)
BY DEF refresh

LEMMA RefreshCompletes ==
    ASSUME NEW ns, NEW open
    PROVE  refresh(ns, open) = "COMPLETED" <=> AllDone(ns)
BY DEF refresh

LEMMA IdleType == Idle \in Transactions
BY CaseStatusAssumption DEF Idle, Transactions, Operations, Kinds, CaseStates

LEMMA Roles == Orchestrator \in Workers /\ Clients \subseteq Workers
               /\ Orchestrator \notin Clients
               /\ Workers = Clients \cup {Orchestrator}
BY CaseStatusAssumption DEF Workers, Orchestrator

\* The initial state satisfies the invariant.
LEMMA InitCompletion == Init => CompletionInv
<1> SUFFICES ASSUME Init PROVE CompletionInv
    OBVIOUS
<1>1. TypeOK
    BY IdleType DEF Init, TypeOK, Kinds, EscalationStates, CaseStates, Triggers
<1>2. HeldInv
    BY DEF Init, HeldInv, Idle
<1>3. AloneInv
    BY DEF Init, AloneInv, Idle
<1>4. ~ AllDone(node)
    BY CaseStatusAssumption DEF Init, AllDone
<1>5. StatusHeals
  <2>1. OpenNow = {}
      BY DEF Init, OpenNow, Open
  <2> QED
      BY <2>1, <1>4 DEF Init, StatusHeals, refresh
<1>6. RunInv
    BY Roles DEF Init, RunInv, Idle
<1> QED
    BY <1>1, <1>2, <1>3, <1>4, <1>5, <1>6
    DEF Init, CompletionInv, StatusInv, AnnouncedOnce, CompletionIsSeen

--------------------------------------------------------------------------------
(* What the steps of a transaction do, said once. *)

\* A transaction begins: the database stands still.
Begins(c) ==
    /\ txn[c] = Idle
    /\ \E t \in Transactions :
          /\ t.op # "none"
          /\ IF t.op = "move" THEN t.node \in Nodes ELSE t.node = "none"
          /\ t.op = "resolve" => t.id \in Opened
          /\ t.op = "complete" <=> c = Orchestrator
          /\ t.op = "complete" => AllDone(node)
          /\ t.at = "read" /\ t.saw = status /\ t.nodes = node /\ ~ t.announces
          /\ txn' = [txn EXCEPT ![c] = t]
    /\ UNCHANGED <<node, escalation, status, announced, drift, lapsed>>

LEMMA BeginTransaction ==
    ASSUME TypeOK, NEW c \in Workers, NEW t \in Transactions, Begin(c, t),
           t.op # "none",
           IF t.op = "move" THEN t.node \in Nodes ELSE t.node = "none",
           t.op = "resolve" => t.id \in Opened,
           t.op = "complete" <=> c = Orchestrator,
           t.op = "complete" => AllDone(node),
           ~ t.announces
    PROVE  Begins(c)
<1> DEFINE u == [t EXCEPT !.saw = status, !.nodes = node, !.at = "read"]
<1>1. u \in Transactions
    BY DEF TypeOK, Transactions
<1>2. /\ u.op = t.op /\ u.node = t.node /\ u.id = t.id /\ u.announces = t.announces
      /\ u.at = "read" /\ u.saw = status /\ u.nodes = node
    BY DEF Transactions
<1>3. txn[c] = Idle /\ txn' = [txn EXCEPT ![c] = u]
    BY DEF Begin
<1>4. UNCHANGED <<node, escalation, status, announced, drift, lapsed>>
    BY DEF Begin
<1> QED
    BY <1>1, <1>2, <1>3, <1>4 DEF Begins

LEMMA BeginMove ==
    ASSUME TypeOK, NEW c \in Clients, NEW n \in Nodes, ReadMove(c, n)
    PROVE  Begins(c) /\ wake' = wake
<1>1. PICK k \in Occurring : Begin(c, [Idle EXCEPT !.op = "move", !.node = n, !.to = k])
    BY DEF ReadMove
<1>2. [Idle EXCEPT !.op = "move", !.node = n, !.to = k] \in Transactions
    BY IdleType, CaseStatusAssumption DEF Transactions, Operations, Kinds
<1> QED
    BY <1>1, <1>2, BeginTransaction, Roles DEF ReadMove, Idle

LEMMA BeginOpen ==
    ASSUME TypeOK, NEW c \in Clients, ReadOpen(c)
    PROVE  Begins(c) /\ wake' = wake
<1>1. [Idle EXCEPT !.op = "open"] \in Transactions
    BY IdleType DEF Transactions, Operations
<1> QED
    BY <1>1, BeginTransaction, Roles DEF ReadOpen, Idle

LEMMA BeginResolve ==
    ASSUME TypeOK, NEW c \in Clients, NEW i \in Opened, ReadResolve(c, i)
    PROVE  Begins(c) /\ wake' = wake
<1>1. [Idle EXCEPT !.op = "resolve", !.id = i] \in Transactions
    BY IdleType DEF Transactions, Operations
<1> QED
    BY <1>1, BeginTransaction, Roles DEF ReadResolve, Idle

\* A run of the orchestrator takes a trigger; unless it finds every node done
\* there is nothing to complete.
LEMMA BeginComplete ==
    ASSUME TypeOK, NEW w \in Triggers, ReadComplete(w)
    PROVE  /\ wake' \subseteq Triggers /\ wake \ {w} \subseteq wake'
           /\ \/ AllDone(node) /\ w # "completed" /\ Begins(Orchestrator)
              \/ /\ ~ AllDone(node) \/ w = "completed"
                 /\ UNCHANGED <<node, escalation, status, announced, txn, drift, lapsed>>
<1>1. [Idle EXCEPT !.op = "complete"] \in Transactions
    BY IdleType DEF Transactions, Operations
<1> QED
    BY <1>1, BeginTransaction, Roles DEF ReadComplete, Idle, TypeOK

--------------------------------------------------------------------------------
(* Beginning. *)

LEMMA BeginsStatus ==
    ASSUME StatusInv, NEW c \in Workers, Begins(c), wake' \subseteq Triggers
    PROVE  StatusInv'
<1>1. PICK t \in Transactions :
          /\ t.op # "none"
          /\ IF t.op = "move" THEN t.node \in Nodes ELSE t.node = "none"
          /\ t.op = "resolve" => t.id \in Opened
          /\ t.op = "complete" => AllDone(node)
          /\ t.at = "read" /\ t.saw = status /\ t.nodes = node /\ ~ t.announces
          /\ txn' = [txn EXCEPT ![c] = t]
    BY DEF Begins
<1>2. UNCHANGED <<node, escalation, status, announced, drift, lapsed>>
    BY DEF Begins
<1>3. txn'[c] = t /\ \A d \in Workers \ {c} : txn'[d] = txn[d]
    BY <1>1 DEF StatusInv, TypeOK
<1>4. TypeOK'
    BY <1>1, <1>2 DEF StatusInv, TypeOK
<1>5. OpenNow' = OpenNow
    BY <1>2 DEF OpenNow, Open
<1>6. HeldInv'
    BY <1>1, <1>2, <1>3 DEF StatusInv, HeldInv, AllDone
<1>7. AloneInv'
  <2> SUFFICES ASSUME NEW d \in Workers, txn'[d].alone, txn'[d].at # "idle"
               PROVE  /\ txn'[d].saw = status'
                      /\ txn'[d].at = "read" => txn'[d].nodes = node'
                      /\ txn'[d].at = "written" =>
                            txn'[d].status = refresh(Sees(txn'[d], node'), Leaves(txn[d])')
      BY DEF AloneInv, Leaves
  <2>1. CASE d = c
      BY <2>1, <1>1, <1>2, <1>3
  <2>2. CASE d # c
    <3>1. txn'[d] = txn[d]
        BY <2>2, <1>3
    <3>2. Leaves(txn[d])' = Leaves(txn[d])
        BY <3>1, <1>5 DEF Leaves
    <3> QED
        BY <3>1, <3>2, <1>2 DEF StatusInv, AloneInv
  <2> QED
      BY <2>1, <2>2
<1>8. AnnouncedOnce' /\ StatusHeals'
    BY <1>2, <1>5 DEF StatusInv, AnnouncedOnce, StatusHeals
<1> QED
    BY <1>4, <1>6, <1>7, <1>8 DEF StatusInv

--------------------------------------------------------------------------------
(* Writing. *)

LEMMA SeesType ==
    ASSUME TypeOK, NEW c \in Workers, NEW ns \in [Nodes -> Kinds]
    PROVE  Sees(txn[c], ns) \in [Nodes -> Kinds]
BY DEF Sees, TypeOK, Transactions

\* The record a transaction writes, field by field.
Writes(c, now, u) ==
    LET t == txn[c] IN
    /\ u \in Transactions
    /\ u.op = t.op /\ u.node = t.node /\ u.to = t.to /\ u.id = t.id /\ u.saw = t.saw
    /\ u.alone = t.alone /\ u.at = "written" /\ u.status = now
    /\ u.announces <=> now = "COMPLETED" /\ t.saw # now /\ announced = 0
    /\ txn' = [txn EXCEPT ![c] = u]

LEMMA Rewrite ==
    ASSUME NEW t \in Transactions, NEW now \in CaseStates, NEW nodes \in [Nodes -> Kinds],
           NEW announces \in BOOLEAN
    PROVE  LET u == [t EXCEPT !.at = "written", !.status = now, !.nodes = nodes,
                              !.announces = announces] IN
           /\ u \in Transactions
           /\ u.op = t.op /\ u.node = t.node /\ u.to = t.to /\ u.id = t.id /\ u.saw = t.saw
           /\ u.alone = t.alone /\ u.at = "written" /\ u.status = now
           /\ u.announces = announces
BY DEF Transactions

LEMMA WriteWrites ==
    ASSUME TypeOK, NEW c \in Workers, Write(c)
    PROVE  \E ns \in [Nodes -> Kinds], u \in Transactions :
              /\ ns \in {txn[c].nodes, node}
              /\ txn[c].op = "complete" => ns = txn[c].nodes
              /\ txn[c].at = "read"
              /\ Writes(c, refresh(Sees(txn[c], ns), Leaves(txn[c])), u)
<1> DEFINE t == txn[c]
           now(ns) == refresh(Sees(t, ns), Leaves(t))
           first(ns) == (now(ns) = "COMPLETED" /\ t.saw # now(ns) /\ announced = 0)
           u(ns) == [t EXCEPT !.at = "written", !.status = now(ns), !.nodes = Idle.nodes,
                              !.announces = first(ns)]
<1>1. PICK ns \in {t.nodes} \cup (IF t.op = "complete" THEN {} ELSE {node}) :
          txn' = [txn EXCEPT ![c] = u(ns)]
    BY DEF Write
<1>2. t \in Transactions
    BY DEF TypeOK
<1>3. ns \in [Nodes -> Kinds] /\ (t.op = "complete" => ns = t.nodes) /\ ns \in {t.nodes, node}
    BY <1>1, <1>2 DEF TypeOK, Transactions
<1>4. Idle.nodes \in [Nodes -> Kinds]
    BY IdleType DEF Transactions
<1>5. now(ns) \in CaseStates /\ first(ns) \in BOOLEAN
    BY RefreshType
<1>6. /\ u(ns) \in Transactions
      /\ u(ns).op = t.op /\ u(ns).node = t.node /\ u(ns).to = t.to /\ u(ns).id = t.id
      /\ u(ns).saw = t.saw /\ u(ns).alone = t.alone /\ u(ns).at = "written"
      /\ u(ns).status = now(ns) /\ u(ns).announces = first(ns)
  <2> HIDE DEF now, first
  <2> QED
      BY <1>2, <1>4, <1>5 DEF Transactions
<1>7. Writes(c, now(ns), u(ns))
  <2> HIDE DEF now, u
  <2>1. u(ns).announces <=> now(ns) = "COMPLETED" /\ t.saw # now(ns) /\ announced = 0
      BY <1>6
  <2> QED
      BY <1>1, <1>6, <2>1 DEF Writes
<1>8. t.at = "read"
    BY DEF Write
<1> QED
    BY <1>3, <1>6, <1>7, <1>8

LEMMA WriteStatus ==
    ASSUME StatusInv, NEW c \in Workers, Write(c)
    PROVE  StatusInv'
<1> DEFINE t == txn[c]
<1>1. PICK ns \in [Nodes -> Kinds], u \in Transactions :
          /\ ns \in {t.nodes, node}
          /\ t.op = "complete" => ns = t.nodes
          /\ t.at = "read"
          /\ Writes(c, refresh(Sees(t, ns), Leaves(t)), u)
    BY WriteWrites DEF StatusInv
<1> DEFINE now == refresh(Sees(t, ns), Leaves(t))
<1>2. UNCHANGED <<node, escalation, status, announced, wake, drift, lapsed>>
    BY DEF Write
<1>3. txn'[c] = u /\ \A d \in Workers \ {c} : txn'[d] = txn[d]
    BY <1>1 DEF Writes, StatusInv, TypeOK
<1>4. TypeOK'
    BY <1>1, <1>2 DEF StatusInv, TypeOK, Writes
<1>5. OpenNow' = OpenNow
    BY <1>2 DEF OpenNow, Open
<1>6. t.op = "complete" => now = "COMPLETED"
  <2> SUFFICES ASSUME t.op = "complete" PROVE AllDone(Sees(t, ns))
      BY RefreshCompletes
  <2>1. ns = t.nodes /\ AllDone(t.nodes) /\ t.node = "none"
      BY <1>1 DEF StatusInv, HeldInv
  <2> QED
      BY <2>1, CaseStatusAssumption DEF Sees, AllDone
<1>7. HeldInv'
  <2> HIDE DEF now
  <2>1. /\ u.op = t.op /\ u.node = t.node /\ u.id = t.id /\ u.saw = t.saw
        /\ u.at = "written" /\ u.status = now
        /\ u.announces <=> now = "COMPLETED" /\ t.saw # now /\ announced = 0
      BY <1>1 DEF Writes, now
  <2>2. announced \in Nat
      BY DEF StatusInv, TypeOK
  <2>3. t.op # "none"
      BY <1>1 DEF StatusInv, HeldInv
  <2> QED
      BY <1>2, <1>3, <1>6, <2>1, <2>2, <2>3 DEF StatusInv, HeldInv, AllDone
<1>8. AloneInv'
  <2> SUFFICES ASSUME NEW d \in Workers, txn'[d].alone, txn'[d].at # "idle"
               PROVE  /\ txn'[d].saw = status'
                      /\ txn'[d].at = "read" => txn'[d].nodes = node'
                      /\ txn'[d].at = "written" =>
                            txn'[d].status = refresh(Sees(txn'[d], node'), Leaves(txn[d])')
      BY DEF AloneInv, Leaves
  <2>1. CASE d = c
    <3>1. t.alone /\ t.at = "read" /\ t.saw = status /\ t.nodes = node /\ ns = node
        BY <2>1, <1>1, <1>3 DEF Writes, StatusInv, AloneInv
    <3>2. Sees(u, node) = Sees(t, node) /\ Leaves(txn[c])' = Leaves(t)
        BY <1>1, <1>3, <1>5 DEF Writes, Sees, Leaves
    <3> QED
        BY <2>1, <1>1, <1>2, <1>3, <3>1, <3>2 DEF Writes
  <2>2. CASE d # c
    <3>1. txn'[d] = txn[d]
        BY <2>2, <1>3
    <3>2. Leaves(txn[d])' = Leaves(txn[d])
        BY <3>1, <1>5 DEF Leaves
    <3> QED
        BY <3>1, <3>2, <1>2 DEF StatusInv, AloneInv
  <2> QED
      BY <2>1, <2>2
<1>9. AnnouncedOnce' /\ StatusHeals'
    BY <1>2, <1>5 DEF StatusInv, AnnouncedOnce, StatusHeals
<1> QED
    BY <1>4, <1>7, <1>8, <1>9 DEF StatusInv

--------------------------------------------------------------------------------
(* Committing and giving up. *)

\* Another transaction ended: this one learns at most that it was not alone.
Untouched(u, t) ==
    /\ u.op = t.op /\ u.node = t.node /\ u.to = t.to /\ u.id = t.id
    /\ u.at = t.at /\ u.saw = t.saw /\ u.nodes = t.nodes /\ u.status = t.status
    /\ u.announces = t.announces
    /\ t.at = "idle" => u = t

LEMMA MeanwhileUntouched ==
    ASSUME NEW t \in Transactions, NEW effective \in BOOLEAN
    PROVE  /\ Meanwhile(t, effective) \in Transactions
           /\ Untouched(Meanwhile(t, effective), t)
           /\ Meanwhile(t, effective).alone <=> (t.alone /\ ~ (effective /\ t.at # "idle"))
<1> DEFINE b == t.alone /\ ~ (effective /\ t.at # "idle")
<1>1. ASSUME NEW a \in BOOLEAN, t.at = "idle" => t.alone = a
      PROVE  /\ [t EXCEPT !.alone = a] \in Transactions
             /\ [t EXCEPT !.alone = a].alone = a
             /\ Untouched([t EXCEPT !.alone = a], t)
    BY <1>1 DEF Transactions, Untouched
<1>2. b \in BOOLEAN /\ (t.at = "idle" => t.alone = b)
    BY DEF Transactions
<1>3. Meanwhile(t, effective) = [t EXCEPT !.alone = b]
    BY DEF Meanwhile
<1>4. [t EXCEPT !.alone = b] \in Transactions /\ [t EXCEPT !.alone = b].alone = b
      /\ Untouched([t EXCEPT !.alone = b], t)
  <2> HIDE DEF b
  <2> QED
      BY <1>1, <1>2
<1>5. Meanwhile(t, effective).alone = b
    BY <1>3, <1>4
<1>6. Meanwhile(t, effective) \in Transactions /\ Untouched(Meanwhile(t, effective), t)
    BY <1>3, <1>4
<1> QED
    BY <1>5, <1>6

LEMMA DoneTxn ==
    ASSUME TypeOK, NEW c, NEW effective \in BOOLEAN, Done(c, effective)
    PROVE  /\ txn' \in [Workers -> Transactions]
           /\ c \in Workers => txn'[c] = Idle
           /\ \A d \in Workers \ {c} :
                 /\ Untouched(txn'[d], txn[d])
                 /\ txn'[d].alone <=> (txn[d].alone /\ ~ (effective /\ txn[d].at # "idle"))
BY IdleType, MeanwhileUntouched DEF Done, TypeOK

LEMMA AbortStatus ==
    ASSUME StatusInv, NEW c \in Workers, Abort(c)
    PROVE  StatusInv'
<1>1. UNCHANGED <<node, escalation, status, announced, drift, lapsed>>
    BY DEF Abort
<1>2. /\ txn' \in [Workers -> Transactions]
      /\ txn'[c] = Idle
      /\ \A d \in Workers \ {c} : Untouched(txn'[d], txn[d]) /\ (txn'[d].alone <=> txn[d].alone)
  <2>1. Done(c, FALSE)
      BY DEF Abort
  <2> QED
      BY <2>1, DoneTxn DEF StatusInv
<1>3. TypeOK'
  <2>1. wake' \subseteq Triggers
      BY DEF Abort, StatusInv, TypeOK, Triggers
  <2> QED
      BY <1>1, <1>2, <2>1 DEF StatusInv, TypeOK
<1>4. OpenNow' = OpenNow
    BY <1>1 DEF OpenNow, Open
<1>5. HeldInv'
  <2> SUFFICES ASSUME NEW d \in Workers
               PROVE  LET t == txn'[d] IN
                      /\ IF t.op = "move" THEN t.node \in Nodes ELSE t.node = "none"
                      /\ t.op = "resolve" => t.id \in Opened
                      /\ t.at = "idle" => t = Idle
                      /\ t.op = "none" => t.at = "idle"
                      /\ t.announces => t.status = "COMPLETED"
                      /\ t.at = "written" /\ t.status = "COMPLETED" /\ t.saw # "COMPLETED" =>
                             t.announces \/ announced' > 0
                      /\ t.op = "complete" /\ t.at = "read" => AllDone(t.nodes)
                      /\ t.op = "complete" /\ t.at = "written" => t.status = "COMPLETED"
      BY DEF HeldInv, AllDone
  <2>1. CASE d = c
      BY <2>1, <1>2 DEF Idle
  <2>2. CASE d # c
      BY <2>2, <1>1, <1>2 DEF StatusInv, HeldInv, AllDone, Untouched
  <2> QED
      BY <2>1, <2>2
<1>6. AloneInv'
  <2> SUFFICES ASSUME NEW d \in Workers, txn'[d].alone, txn'[d].at # "idle"
               PROVE  /\ txn'[d].saw = status'
                      /\ txn'[d].at = "read" => txn'[d].nodes = node'
                      /\ txn'[d].at = "written" =>
                            txn'[d].status = refresh(Sees(txn'[d], node'), Leaves(txn[d])')
      BY DEF AloneInv, Leaves
  <2>1. d # c
      BY <1>2 DEF Idle
  <2>2. Sees(txn'[d], node) = Sees(txn[d], node)
      BY <2>1, <1>2 DEF Untouched, Sees
  <2>3. Leaves(txn[d])' = Leaves(txn[d])
      BY <2>1, <1>2, <1>4 DEF Untouched, Leaves
  <2> QED
      BY <2>1, <2>2, <2>3, <1>1, <1>2 DEF StatusInv, AloneInv, Untouched
<1>7. AnnouncedOnce' /\ StatusHeals'
    BY <1>1, <1>4 DEF StatusInv, AnnouncedOnce, StatusHeals
<1> QED
    BY <1>3, <1>5, <1>6, <1>7 DEF StatusInv

LEMMA CommitStatus ==
    ASSUME StatusInv, NEW c \in Workers, Commit(c)
    PROVE  StatusInv'
<1> DEFINE t == txn[c]
<1>1. t \in Transactions
    BY DEF StatusInv, TypeOK
<1>2. /\ txn' \in [Workers -> Transactions]
      /\ txn'[c] = Idle
      /\ \A d \in Workers \ {c} : Untouched(txn'[d], txn[d])
      /\ \A d \in Workers : txn'[d].alone => txn'[d].at = "idle"
  <2>1. Done(c, TRUE)
      BY DEF Commit
  <2>2. Idle.at = "idle"
      BY DEF Idle
  <2>3. /\ txn' \in [Workers -> Transactions] /\ txn'[c] = Idle
        /\ \A d \in Workers \ {c} :
              /\ Untouched(txn'[d], txn[d])
              /\ txn'[d].alone <=> (txn[d].alone /\ ~ (TRUE /\ txn[d].at # "idle"))
      BY <2>1, DoneTxn DEF StatusInv
  <2> QED
      BY <2>2, <2>3 DEF Untouched
<1>3. PICK i \in Opened : (t.op = "open" => escalation[i] = "none") /\ escalation' = Escalated(t, i)
    BY DEF Commit
<1>4. /\ t.at = "written" /\ ~ (t.announces /\ announced > 0)
      /\ node' = IF t.op = "move" THEN [node EXCEPT ![t.node] = t.to] ELSE node
      /\ status' = IF t.status # t.saw THEN t.status ELSE status
      /\ announced' = IF t.announces THEN announced + 1 ELSE announced
      /\ wake' = wake \cup Wakes(t)
      /\ drift' = ~ t.alone
      /\ lapsed' = (lapsed \/ (t.op = "resolve" /\ AllDone(node) /\ t.status # "COMPLETED"))
    BY DEF Commit, Clashes, Written
<1>5. /\ IF t.op = "move" THEN t.node \in Nodes ELSE t.node = "none"
      /\ t.op = "resolve" => t.id \in Opened
      /\ t.announces => t.status = "COMPLETED"
      /\ t.status = "COMPLETED" /\ t.saw # "COMPLETED" => t.announces \/ announced > 0
    BY <1>4 DEF StatusInv, HeldInv
<1>6. TypeOK'
  <2>1. escalation' \in [Opened -> EscalationStates]
      BY <1>3 DEF StatusInv, TypeOK, Escalated, EscalationStates
  <2>2. node' \in [Nodes -> Kinds] /\ status' \in CaseStates /\ announced' \in Nat
    <3>1. /\ node \in [Nodes -> Kinds] /\ status \in CaseStates /\ announced \in Nat
          /\ t.to \in Kinds /\ t.status \in CaseStates
        BY <1>1 DEF StatusInv, TypeOK, Transactions
    <3>2. node' \in [Nodes -> Kinds]
        BY <3>1, <1>4
    <3>3. status' \in CaseStates
        BY <3>1, <1>4
    <3>4. announced' \in Nat
        BY <3>1, <1>4
    <3> QED
        BY <3>2, <3>3, <3>4
  <2>3. wake' \subseteq Triggers
      BY <1>4 DEF StatusInv, TypeOK, Wakes, Triggers
  <2>4. drift' \in BOOLEAN /\ lapsed' \in BOOLEAN
      BY <1>4, Zenon
  <2> QED
      BY <1>2, <2>1, <2>2, <2>3, <2>4 DEF TypeOK
<1>7. announced' \in Nat /\ announced \in Nat /\ announced' >= announced
    BY <1>4 DEF StatusInv, TypeOK
<1>8. HeldInv'
  <2> SUFFICES ASSUME NEW d \in Workers
               PROVE  LET u == txn'[d] IN
                      /\ IF u.op = "move" THEN u.node \in Nodes ELSE u.node = "none"
                      /\ u.op = "resolve" => u.id \in Opened
                      /\ u.at = "idle" => u = Idle
                      /\ u.op = "none" => u.at = "idle"
                      /\ u.announces => u.status = "COMPLETED"
                      /\ u.at = "written" /\ u.status = "COMPLETED" /\ u.saw # "COMPLETED" =>
                             u.announces \/ announced' > 0
                      /\ u.op = "complete" /\ u.at = "read" => AllDone(u.nodes)
                      /\ u.op = "complete" /\ u.at = "written" => u.status = "COMPLETED"
      BY DEF HeldInv, AllDone
  <2>1. CASE d = c
      BY <2>1, <1>2 DEF Idle
  <2>2. CASE d # c
      BY <2>2, <1>2, <1>7 DEF StatusInv, HeldInv, AllDone, Untouched
  <2> QED
      BY <2>1, <2>2
<1>9. AnnouncedOnce'
    BY <1>4, <1>5, <1>7 DEF StatusInv, AnnouncedOnce
<1>10. AloneInv'
    BY <1>2 DEF AloneInv
<1>11. StatusHeals'
  <2> SUFFICES ASSUME t.alone PROVE status' = refresh(node', OpenNow')
      BY <1>4 DEF StatusHeals
  <2>1. t.saw = status /\ t.status = refresh(Sees(t, node), Leaves(t))
      BY <1>4 DEF StatusInv, AloneInv
  <2>2. node' = Sees(t, node)
      BY <1>4, <1>5, CaseStatusAssumption DEF Sees, StatusInv, TypeOK
  <2>3. OpenNow' = {} <=> Leaves(t) = {}
    <3>1. CASE t.op = "open"
      <4>1. i \in OpenNow'
          BY <3>1, <1>3 DEF Escalated, OpenNow, Open, StatusInv, TypeOK
      <4> QED
          BY <3>1, <4>1 DEF Leaves
    <3>2. CASE t.op = "resolve"
      <4>1. escalation' = [escalation EXCEPT ![t.id] = "RESOLVED"]
          BY <3>2, <1>3 DEF Escalated
      <4>2. OpenNow' = OpenNow \ {t.id}
          BY <4>1 DEF OpenNow, Open, StatusInv, TypeOK
      <4> QED
          BY <3>2, <4>2 DEF Leaves
    <3>3. CASE t.op \notin {"open", "resolve"}
        BY <3>3, <1>3 DEF Escalated, Leaves, OpenNow, Open
    <3> QED
        BY <3>1, <3>2, <3>3
  <2>4. status' = t.status
      BY <2>1, <1>4
  <2> QED
      BY <2>1, <2>2, <2>3, <2>4, RefreshSame
<1> QED
    BY <1>6, <1>8, <1>9, <1>10, <1>11 DEF StatusInv

\* Taking an escalation that is open leaves as many open as there were.
LEMMA TakeStatus ==
    ASSUME StatusInv, NEW i \in Opened, Take(i)
    PROVE  StatusInv'
<1>1. UNCHANGED <<node, status, announced, wake, lapsed>>
      /\ escalation' = [escalation EXCEPT ![i] = "IN_PROGRESS"]
    BY DEF Take
<1>2. escalation' \in [Opened -> EscalationStates]
    BY <1>1 DEF StatusInv, TypeOK, EscalationStates
<1>3. CASE escalation[i] = "RESOLVED"
  <2>1. drift' = TRUE /\ txn' = [c \in Workers |-> Meanwhile(txn[c], TRUE)]
      BY <1>3 DEF Take
  <2>2. /\ txn' \in [Workers -> Transactions]
        /\ \A d \in Workers : Untouched(txn'[d], txn[d]) /\ (txn'[d].alone => txn'[d].at = "idle")
      BY <2>1, MeanwhileUntouched DEF StatusInv, TypeOK, Untouched
  <2>3. TypeOK'
      BY <1>1, <1>2, <2>1, <2>2 DEF StatusInv, TypeOK
  <2>4. HeldInv'
      BY <1>1, <2>2 DEF StatusInv, HeldInv, Untouched, AllDone
  <2>5. AloneInv'
      BY <2>2 DEF AloneInv
  <2>6. AnnouncedOnce' /\ StatusHeals'
      BY <1>1, <2>1 DEF StatusInv, AnnouncedOnce, StatusHeals
  <2> QED
      BY <2>3, <2>4, <2>5, <2>6 DEF StatusInv
<1>4. CASE escalation[i] # "RESOLVED"
  <2>1. UNCHANGED <<drift, txn>> /\ Open(i)
      BY <1>4 DEF Take, Open, StatusInv, TypeOK, EscalationStates
  <2>2. OpenNow' = OpenNow
      BY <1>1, <2>1 DEF OpenNow, Open, StatusInv, TypeOK
  <2>3. TypeOK'
      BY <1>1, <1>2, <2>1 DEF StatusInv, TypeOK
  <2>4. HeldInv'
      BY <1>1, <2>1 DEF StatusInv, HeldInv, AllDone
  <2>5. AloneInv'
    <3>1. \A d \in Workers : Leaves(txn[d])' = Leaves(txn[d])
        BY <2>1, <2>2 DEF Leaves
    <3> QED
        BY <1>1, <2>1, <3>1 DEF StatusInv, AloneInv, Leaves, Sees
  <2>6. AnnouncedOnce' /\ StatusHeals'
      BY <1>1, <2>1, <2>2 DEF StatusInv, AnnouncedOnce, StatusHeals
  <2> QED
      BY <2>3, <2>4, <2>5, <2>6 DEF StatusInv
<1> QED
    BY <1>3, <1>4

LEMMA NextStatus == StatusInv /\ [Next]_vars => StatusInv'
<1> SUFFICES ASSUME StatusInv, [Next]_vars PROVE StatusInv'
    OBVIOUS
<1>0. TypeOK /\ wake \subseteq Triggers
    BY DEF StatusInv, TypeOK
<1>1. ASSUME NEW c \in Clients, NEW n \in Nodes, ReadMove(c, n) PROVE StatusInv'
    BY <1>0, <1>1, BeginMove, BeginsStatus, Roles
<1>2. ASSUME NEW c \in Clients, ReadOpen(c) PROVE StatusInv'
    BY <1>0, <1>2, BeginOpen, BeginsStatus, Roles
<1>3. ASSUME NEW c \in Clients, NEW i \in Opened, ReadResolve(c, i) PROVE StatusInv'
    BY <1>0, <1>3, BeginResolve, BeginsStatus, Roles
<1>4. ASSUME NEW w \in Triggers, ReadComplete(w) PROVE StatusInv'
  <2>1. wake' \subseteq Triggers
      BY <1>0, <1>4, BeginComplete
  <2>2. CASE Begins(Orchestrator)
      BY <2>1, <2>2, BeginsStatus, Roles
  <2>3. CASE UNCHANGED <<node, escalation, status, announced, txn, drift, lapsed>>
    <3>1. OpenNow' = OpenNow /\ \A d \in Workers : Leaves(txn[d])' = Leaves(txn[d])
        BY <2>3 DEF OpenNow, Open, Leaves
    <3>2. TypeOK' /\ HeldInv'
        BY <2>1, <2>3 DEF StatusInv, TypeOK, HeldInv, AllDone
    <3>3. AloneInv'
        BY <2>3, <3>1 DEF StatusInv, AloneInv, Leaves, Sees
    <3> QED
        BY <2>3, <3>1, <3>2, <3>3 DEF StatusInv, AnnouncedOnce, StatusHeals
  <2> QED
      BY <1>0, <1>4, <2>2, <2>3, BeginComplete
<1>5. ASSUME NEW c \in Workers, Write(c) \/ Commit(c) \/ Abort(c) PROVE StatusInv'
    BY <1>5, WriteStatus, CommitStatus, AbortStatus
<1>6. ASSUME NEW i \in Opened, Take(i) PROVE StatusInv'
    BY <1>6, TakeStatus
<1>7. CASE UNCHANGED vars
  <2>1. OpenNow' = OpenNow /\ \A d \in Workers : Leaves(txn[d])' = Leaves(txn[d])
      BY <1>7 DEF vars, OpenNow, Open, Leaves
  <2>2. TypeOK' /\ HeldInv'
      BY <1>7 DEF vars, StatusInv, TypeOK, HeldInv, AllDone
  <2>3. AloneInv'
      BY <1>7, <2>1 DEF vars, StatusInv, AloneInv, Leaves, Sees
  <2> QED
      BY <1>7, <2>1, <2>2, <2>3 DEF vars, StatusInv, AnnouncedOnce, StatusHeals
<1> QED
    BY <1>1, <1>2, <1>3, <1>4, <1>5, <1>6, <1>7 DEF Next

--------------------------------------------------------------------------------
(* Somebody looks at a case whose nodes are all done. *)

\* A client begins: the orchestrator is where it was.
LEMMA BeginsCompletion ==
    ASSUME CompletionInv, NEW c \in Clients, Begins(c), wake' = wake
    PROVE  RunInv' /\ CompletionIsSeen'
<1>1. PICK t \in Transactions : (t.op = "complete" <=> c = Orchestrator) /\ txn' = [txn EXCEPT ![c] = t]
    BY DEF Begins
<1>2. UNCHANGED <<node, status, lapsed>>
    BY DEF Begins
<1>3. txn' [c] = t /\ (\A d \in Workers \ {c} : txn'[d] = txn[d]) /\ c # Orchestrator /\ Orchestrator \in Workers
    BY <1>1, Roles DEF CompletionInv, StatusInv, TypeOK
<1> QED
    BY <1>1, <1>2, <1>3, Roles DEF CompletionInv, RunInv, CompletionIsSeen, AllDone

LEMMA RunCompletion ==
    ASSUME CompletionInv, NEW w \in Triggers, ReadComplete(w)
    PROVE  RunInv' /\ CompletionIsSeen'
<1>1. wake \ {w} \subseteq wake'
    BY BeginComplete DEF CompletionInv, StatusInv
<1>2. CASE AllDone(node) /\ w # "completed" /\ Begins(Orchestrator)
  <2>1. PICK t \in Transactions : /\ t.op = "complete" /\ t.saw = status
                                  /\ txn' = [txn EXCEPT ![Orchestrator] = t]
      BY <1>2 DEF Begins
  <2>2. UNCHANGED <<node, status, lapsed>>
      BY <1>2 DEF Begins
  <2>3. txn'[Orchestrator] = t /\ \A d \in Clients : txn'[d] = txn[d]
      BY <2>1, Roles DEF CompletionInv, StatusInv, TypeOK
  <2> QED
      BY <2>1, <2>2, <2>3 DEF CompletionInv, RunInv, CompletionIsSeen, AllDone
<1>3. CASE /\ ~ AllDone(node) \/ w = "completed"
           /\ UNCHANGED <<node, escalation, status, announced, txn, drift, lapsed>>
    BY <1>1, <1>3 DEF CompletionInv, RunInv, CompletionIsSeen, AllDone
<1> QED
    BY <1>2, <1>3, BeginComplete DEF CompletionInv, StatusInv

LEMMA WriteCompletion ==
    ASSUME CompletionInv, NEW c \in Workers, Write(c)
    PROVE  RunInv' /\ CompletionIsSeen'
<1>1. PICK u : u.op = txn[c].op /\ u.saw = txn[c].saw /\ txn' = [txn EXCEPT ![c] = u]
    BY WriteWrites DEF Writes, CompletionInv, StatusInv
<1>2. \A d \in Workers : txn'[d].op = txn[d].op /\ txn'[d].saw = txn[d].saw
    BY <1>1 DEF CompletionInv, StatusInv, TypeOK
<1>3. UNCHANGED <<node, status, wake, lapsed>>
    BY DEF Write
<1> QED
    BY <1>2, <1>3, Roles DEF CompletionInv, RunInv, CompletionIsSeen, AllDone

LEMMA AbortCompletion ==
    ASSUME CompletionInv, NEW c \in Workers, Abort(c)
    PROVE  RunInv' /\ CompletionIsSeen'
<1>1. /\ txn'[c] = Idle
      /\ \A d \in Workers \ {c} : Untouched(txn'[d], txn[d])
  <2>1. Done(c, FALSE)
      BY DEF Abort
  <2> QED
      BY <2>1, DoneTxn DEF CompletionInv, StatusInv
<1>2. /\ UNCHANGED <<node, status, lapsed>> /\ wake \subseteq wake'
      /\ txn[c].op = "complete" => "node" \in wake'
    BY DEF Abort
<1>3. CASE c = Orchestrator
    BY <1>1, <1>2, <1>3, Roles DEF CompletionInv, RunInv, CompletionIsSeen, AllDone, Untouched, Idle
<1>4. CASE c # Orchestrator
    BY <1>1, <1>2, <1>4, Roles DEF CompletionInv, RunInv, CompletionIsSeen, AllDone, Untouched, Idle
<1> QED
    BY <1>3, <1>4

\* Whatever is written over COMPLETED, or done last, leaves a trigger; the
\* resolutions that leave none are those that "lapsed" names.
LEMMA CommitCompletion ==
    ASSUME CompletionInv, NEW c \in Workers, Commit(c)
    PROVE  RunInv' /\ CompletionIsSeen'
<1> DEFINE t == txn[c]
<1>1. /\ txn'[c] = Idle
      /\ \A d \in Workers \ {c} : Untouched(txn'[d], txn[d])
  <2>1. Done(c, TRUE)
      BY DEF Commit
  <2> QED
      BY <2>1, DoneTxn DEF CompletionInv, StatusInv
<1>2. /\ t.at = "written" /\ wake \subseteq wake'
      /\ node' = IF t.op = "move" THEN [node EXCEPT ![t.node] = t.to] ELSE node
      /\ status' = IF t.status # t.saw THEN t.status ELSE status
      /\ t.op \in {"move", "open"} => "node" \in wake'
      /\ lapsed => lapsed'
      /\ t.op = "resolve" /\ AllDone(node) /\ t.status # "COMPLETED" => lapsed'
    BY DEF Commit, Written, Wakes
<1>3. t.op \in Operations /\ t # Idle
    BY <1>2 DEF CompletionInv, StatusInv, TypeOK, Transactions, Idle
<1>4. CASE t.op \in {"move", "open"}
    BY <1>1, <1>2, <1>4, Roles DEF CompletionInv, RunInv, CompletionIsSeen, Untouched, Idle
<1>5. CASE t.op \in {"none", "resolve", "complete"}
  <2>1. node' = node
      BY <1>2, <1>5
  <2>2. ASSUME AllDone(node), status' # "COMPLETED", ~ lapsed', status = "COMPLETED"
        PROVE  FALSE
    <3>1. CASE t.op = "resolve"
        BY <1>2, <2>2, <3>1
    <3>2. CASE t.op = "complete"
        BY <1>2, <2>2, <3>2 DEF CompletionInv, StatusInv, HeldInv
    <3>3. CASE t.op = "none"
        BY <1>2, <2>2, <3>3 DEF CompletionInv, StatusInv, HeldInv
    <3> QED
        BY <1>5, <3>1, <3>2, <3>3
  <2>3. CASE c # Orchestrator
      BY <1>1, <1>2, <2>1, <2>2, <2>3, Roles
      DEF CompletionInv, RunInv, CompletionIsSeen, AllDone, Untouched, Idle
  <2>4. CASE c = Orchestrator
      BY <1>1, <1>2, <2>1, <2>2, <2>4, Roles
      DEF CompletionInv, StatusInv, HeldInv, RunInv, CompletionIsSeen, AllDone, Untouched, Idle
  <2> QED
      BY <2>3, <2>4
<1> QED
    BY <1>3, <1>4, <1>5 DEF Operations

LEMMA TakeCompletion ==
    ASSUME CompletionInv, NEW i \in Opened, Take(i)
    PROVE  RunInv' /\ CompletionIsSeen'
<1>1. UNCHANGED <<node, status, wake, lapsed>>
    BY DEF Take
<1>2. \A d \in Workers : txn'[d].op = txn[d].op /\ txn'[d].saw = txn[d].saw
  <2>1. CASE UNCHANGED txn
      BY <2>1
  <2>2. CASE txn' = [c \in Workers |-> Meanwhile(txn[c], TRUE)]
      BY <2>2, MeanwhileUntouched DEF CompletionInv, StatusInv, TypeOK, Untouched
  <2> QED
      BY <2>1, <2>2 DEF Take
<1> QED
    BY <1>1, <1>2, Roles DEF CompletionInv, RunInv, CompletionIsSeen, AllDone

LEMMA NextCompletion == CompletionInv /\ [Next]_vars => CompletionInv'
<1> SUFFICES ASSUME CompletionInv, [Next]_vars PROVE RunInv' /\ CompletionIsSeen'
    BY NextStatus DEF CompletionInv
<1>0. TypeOK
    BY DEF CompletionInv, StatusInv
<1>1. ASSUME NEW c \in Clients, NEW n \in Nodes, ReadMove(c, n) PROVE RunInv' /\ CompletionIsSeen'
    BY <1>0, <1>1, BeginMove, BeginsCompletion
<1>2. ASSUME NEW c \in Clients, ReadOpen(c) PROVE RunInv' /\ CompletionIsSeen'
    BY <1>0, <1>2, BeginOpen, BeginsCompletion
<1>3. ASSUME NEW c \in Clients, NEW i \in Opened, ReadResolve(c, i) PROVE RunInv' /\ CompletionIsSeen'
    BY <1>0, <1>3, BeginResolve, BeginsCompletion
<1>4. ASSUME NEW w \in Triggers, ReadComplete(w) PROVE RunInv' /\ CompletionIsSeen'
    BY <1>4, RunCompletion
<1>5. ASSUME NEW c \in Workers, Write(c) \/ Commit(c) \/ Abort(c) PROVE RunInv' /\ CompletionIsSeen'
    BY <1>5, WriteCompletion, CommitCompletion, AbortCompletion
<1>6. ASSUME NEW i \in Opened, Take(i) PROVE RunInv' /\ CompletionIsSeen'
    BY <1>6, TakeCompletion
<1>7. CASE UNCHANGED vars
    BY <1>7 DEF vars, CompletionInv, RunInv, CompletionIsSeen, AllDone
<1> QED
    BY <1>1, <1>2, <1>3, <1>4, <1>5, <1>6, <1>7 DEF Next

LEMMA CompletionInvariant == Spec => []CompletionInv
<1> QED
    BY InitCompletion, NextCompletion, PTL DEF Spec

--------------------------------------------------------------------------------
\* The variables of CaseStatus have their types in every reachable state.
THEOREM StatusTypes == Spec => []TypeOK
<1>1. CompletionInv => TypeOK
    BY DEF CompletionInv, StatusInv
<1> QED
    BY <1>1, CompletionInvariant, PTL

\* CaseService.refresh announces the completion of a case once, however many
\* transactions see the last node done at the same time.
THEOREM CompletionAnnouncedOnce == Spec => []AnnouncedOnce
<1>1. CompletionInv => AnnouncedOnce
    BY DEF CompletionInv, StatusInv
<1> QED
    BY <1>1, CompletionInvariant, PTL

\* CaseService.refresh: a status computed without a concurrent commit is right,
\* whatever the status was before.
THEOREM RefreshHeals == Spec => []StatusHeals
<1>1. CompletionInv => StatusHeals
    BY DEF CompletionInv, StatusInv
<1> QED
    BY <1>1, CompletionInvariant, PTL

\* The orchestrator's last look: a case whose nodes are all done and that is
\* not COMPLETED has a trigger on its way or a run under way that completes it,
\* but for the resolutions that overlapped the last node.
THEOREM CompletionComes == Spec => []CompletionIsSeen
<1>1. CompletionInv => CompletionIsSeen
    BY DEF CompletionInv
<1> QED
    BY <1>1, CompletionInvariant, PTL

================================================================================
