---------------------------- MODULE DecisionsProofs ----------------------------
(***************************************************************************)
(* Proofs about Decisions, for any number of officers, residents and       *)
(* approvals, and whatever the rest of the system moves the node to.       *)
(***************************************************************************)
EXTENDS Decisions, FiniteSetTheorems, TLAPS

\* Requests are made in the order of the attempts: those a transaction read, and
\* those the node counts, are all there.
FiledInv ==
    /\ \A i \in 1 .. attempts : request[i] # None
    /\ \A c \in Clients : \A i \in 1 .. tx[c].attempts : request[i] # None

\* No request was made under an approval nobody decided.
UndecidedInv ==
    \A k \in Approvals : approval[k] \in {"none", "PENDING"} =>
        \A i \in Approvals : request[i] # k

\* What a transaction decides: an approval that was asked for; and once a request
\* was made under the one it releases, its own key is taken.
HeldInv ==
    \A c \in Clients : LET t == tx[c] IN
        /\ t.op = "none" => t = Idle
        /\ t.op \in {"prepare", "upload", "resume"} => t.of = None
        /\ t.op \in {"approve", "reject"} => t.of \in Approvals
        /\ t.op = "approve" => t.node = "WAITING_FOR_HUMAN"
        /\ t.of \in Approvals => approval[t.of] # "none"
        /\ t.op = "approve" => \A i \in Approvals : request[i] = t.of =>
               t.attempts < MaxApprovals /\ request[t.attempts + 1] # None

\* The approval a waiting node keeps: whoever decides it moves the node.
GateInv ==
    node = "WAITING_FOR_HUMAN" =>
        \E k \in Pending : \A c \in Clients : tx[c].of = k => tx[c].node = "WAITING_FOR_HUMAN"

\* What an operation asks of the node before it begins.
Allowed(op) ==
    /\ op = "approve" => node = "WAITING_FOR_HUMAN" /\ ~ missing
    /\ op = "reject" => assert_transition(node, "BLOCKED")
    /\ op = "ask" => assert_transition(node, "DOCUMENT_MISSING")
    /\ op = "prepare" => node \in REQUESTABLE_FROM \/ (node = "PENDING" /\ ~ missing)
    /\ op = "resume" => node = "DOCUMENT_MISSING"

\* A transaction over which nothing was committed knows the node and its
\* approvals as they are, and could begin now.
FreshInv ==
    \A c \in Clients : LET t == tx[c] IN
        t.fresh /\ t.op # "none" =>
            /\ t.node = node /\ t.attempts = attempts /\ t.missing = missing
            /\ Allowed(t.op)
            /\ t.op \in {"approve", "reject"} => t.of \in Pending
            /\ t.op = "ask" => t.of \in Pending \/ (t.of = None /\ Pending = {})
            /\ t.op \in {"prepare", "resume"} => Pending = {}

DecisionInv ==
    /\ TypeOK
    /\ FiledInv
    /\ UndecidedInv
    /\ HeldInv
    /\ OneRequestPerApproval
    /\ GateInv
    /\ FreshInv
    /\ PendingIsAtGate

--------------------------------------------------------------------------------
\* The gate has the table of the nodes.
LEMMA SameTable ==
    /\ Gate!NodeState = NodeState
    /\ \A s, t : Gate!can_transition(s, t) = can_transition(s, t)
    /\ \A s, t : Gate!assert_transition(s, t) = assert_transition(s, t)
<1>1. Gate!NodeState = NodeState
    BY DEF Gate!NodeState, NodeState
<1>2. Gate!DONE_STATES = DONE_STATES
    BY DEF Gate!DONE_STATES, DONE_STATES
<1>3. Gate!ALLOWED = ALLOWED
    BY <1>1 DEF Gate!ALLOWED, ALLOWED
<1> QED
    BY <1>1, <1>3 DEF Gate!can_transition, can_transition, Gate!assert_transition, assert_transition

LEMMA IdleType == Idle \in Transaction
BY DecisionsAssumption DEF Idle, Transaction, Operations, NodeState

LEMMA NoneIsNoApproval == None \notin Approvals
BY DecisionsAssumption DEF None, Approvals

\* The initial state satisfies the invariant.
LEMMA InitDecision == Init => DecisionInv
<1> SUFFICES ASSUME Init PROVE DecisionInv
    OBVIOUS
<1>1. TypeOK
  <2>1. node \in NodeState /\ attempts \in 0 .. MaxApprovals
      BY DecisionsAssumption DEF Init, NodeState
  <2>2. /\ approval \in [Approvals -> ApprovalState]
        /\ request \in [Approvals -> Approvals \cup {None}]
        /\ tx \in [Clients -> Transaction]
      BY IdleType DEF Init, ApprovalState
  <2>3. missing \in BOOLEAN /\ crossed \in BOOLEAN
      BY DEF Init
  <2> QED
      BY <2>1, <2>2, <2>3 DEF TypeOK
<1>2. FiledInv
    BY DEF Init, FiledInv, Idle
<1>3. UndecidedInv
    BY NoneIsNoApproval DEF Init, UndecidedInv
<1>4. HeldInv
    BY NoneIsNoApproval DEF Init, HeldInv, Idle
<1>5. OneRequestPerApproval
    BY DEF Init, OneRequestPerApproval
<1>6. Pending = {}
    BY DEF Init, Pending
<1>7. GateInv /\ FreshInv /\ PendingIsAtGate
    BY <1>6 DEF Init, GateInv, FreshInv, PendingIsAtGate, Idle
<1> QED
    BY <1>1, <1>2, <1>3, <1>4, <1>5, <1>7 DEF DecisionInv

--------------------------------------------------------------------------------
\* A transaction begins: it read the rows as they are, and the database stands
\* still.
LEMMA BeginStep ==
    ASSUME DecisionInv, NEW c \in Clients,
           NEW op \in Operations \ {"none"}, NEW k \in Approvals \cup {None},
           Begin(c, op, k), Allowed(op),
           op \in {"approve", "reject"} => k \in Pending,
           op = "ask" => k \in Pending \/ (k = None /\ Pending = {}),
           op \in {"prepare", "upload", "resume"} => k = None,
           op \in {"prepare", "resume"} => Pending = {}
    PROVE  DecisionInv'
<1> DEFINE t == [op |-> op, of |-> k, node |-> node, attempts |-> attempts,
                 missing |-> missing, fresh |-> TRUE]
<1>1. t \in Transaction
    BY DEF DecisionInv, TypeOK, Transaction
<1>2. /\ t.op = op /\ t.of = k /\ t.node = node /\ t.attempts = attempts
      /\ t.missing = missing
    OBVIOUS
<1>3. /\ tx' = [tx EXCEPT ![c] = t]
      /\ UNCHANGED <<node, attempts, approval, request, missing, crossed>>
    BY DEF Begin
<1> HIDE DEF t
<1>4. Pending' = Pending
    BY <1>3 DEF Pending
<1>5. tx'[c] = t /\ \A d \in Clients : d # c => tx'[d] = tx[d]
    BY <1>3 DEF DecisionInv, TypeOK
<1>6. TypeOK'
    BY <1>1, <1>3 DEF DecisionInv, TypeOK
<1>7. FiledInv'
    BY <1>2, <1>3, <1>5 DEF DecisionInv, FiledInv
<1>8. UndecidedInv'
    BY <1>3 DEF DecisionInv, UndecidedInv
<1>9. HeldInv'
  <2> SUFFICES ASSUME NEW d \in Clients
               PROVE  LET u == tx'[d] IN
                 /\ u.op = "none" => u = Idle
                 /\ u.op \in {"prepare", "upload", "resume"} => u.of = None
                 /\ u.op \in {"approve", "reject"} => u.of \in Approvals
                 /\ u.op = "approve" => u.node = "WAITING_FOR_HUMAN"
                 /\ u.of \in Approvals => approval[u.of] # "none"
                 /\ u.op = "approve" => \A i \in Approvals : request[i] = u.of =>
                        u.attempts < MaxApprovals /\ request[u.attempts + 1] # None
      BY <1>3 DEF HeldInv
  <2>1. CASE d # c
      BY <2>1, <1>5 DEF DecisionInv, HeldInv
  <2>2. CASE d = c
    <3>1. k \in Pending => approval[k] = "PENDING" /\ k \in Approvals
        BY DEF Pending
    <3>2. k \in Pending => \A i \in Approvals : request[i] # k
        BY <3>1 DEF DecisionInv, UndecidedInv
    <3>3. k \in Approvals => k \in Pending
        BY NoneIsNoApproval DEF Operations
    <3> QED
        BY <2>2, <1>2, <1>5, <3>1, <3>2, <3>3 DEF Allowed
  <2> QED
      BY <2>1, <2>2
<1>10. OneRequestPerApproval'
    BY <1>3 DEF DecisionInv, OneRequestPerApproval
<1>11. GateInv'
    BY <1>2, <1>3, <1>4, <1>5 DEF DecisionInv, GateInv
<1>12. FreshInv'
  <2>1. \A o : Allowed(o)' = Allowed(o)
      BY <1>3 DEF Allowed, assert_transition, can_transition
  <2> QED
      BY <2>1, <1>2, <1>3, <1>4, <1>5 DEF DecisionInv, FreshInv
<1>13. PendingIsAtGate'
    BY <1>3, <1>4 DEF DecisionInv, PendingIsAtGate
<1> QED
    BY <1>6, <1>7, <1>8, <1>9, <1>10, <1>11, <1>12, <1>13 DEF DecisionInv

LEMMA Begins ==
    ASSUME DecisionInv, NEW c \in Clients,
           \/ BeginAsk(c) \/ BeginPrepare(c) \/ BeginUpload(c)
           \/ \E k \in Approvals : BeginApprove(c, k) \/ BeginReject(c, k)
    PROVE  DecisionInv'
<1>1. CASE BeginAsk(c)
    BY <1>1, BeginStep DEF BeginAsk, Allowed, Pending, Operations
<1>2. CASE BeginPrepare(c)
    BY <1>2, BeginStep DEF BeginPrepare, Allowed, Operations
<1>3. CASE BeginUpload(c)
    BY <1>3, BeginStep DEF BeginUpload, Allowed, Operations
<1>4. ASSUME NEW k \in Approvals, BeginApprove(c, k) PROVE DecisionInv'
    BY <1>4, BeginStep DEF BeginApprove, Allowed, Pending, Operations
<1>5. ASSUME NEW k \in Approvals, BeginReject(c, k) PROVE DecisionInv'
    BY <1>5, BeginStep DEF BeginReject, Allowed, Pending, Operations
<1> QED
    BY <1>1, <1>2, <1>3, <1>4, <1>5

--------------------------------------------------------------------------------
\* A commit ends its transaction and leaves the others what they read.
Ends(c) ==
    /\ tx' \in [Clients -> Transaction]
    /\ tx'[c] = Idle
    /\ \A d \in Clients : d # c =>
          /\ tx'[d].op = tx[d].op /\ tx'[d].of = tx[d].of
          /\ tx'[d].node = tx[d].node /\ tx'[d].attempts = tx[d].attempts
          /\ tx[d].op = "none" => tx'[d] = Idle
    /\ \A d \in Clients : tx'[d].op # "none" => ~ tx'[d].fresh

LEMMA CommittedEnds ==
    ASSUME TypeOK, HeldInv, NEW c \in Clients, Committed(c)
    PROVE  Ends(c)
<1> DEFINE stale(d) == [tx[d] EXCEPT !.fresh = FALSE]
<1>1. tx' = [d \in Clients |-> IF d = c THEN Idle
                               ELSE IF tx[d].op = "none" THEN Idle ELSE stale(d)]
    BY DEF Committed
<1>2. \A d \in Clients :
          /\ stale(d) \in Transaction /\ ~ stale(d).fresh
          /\ stale(d).op = tx[d].op /\ stale(d).of = tx[d].of
          /\ stale(d).node = tx[d].node /\ stale(d).attempts = tx[d].attempts
    BY DEF TypeOK, Transaction
<1>3. \A d \in Clients : tx[d].op = "none" => tx[d] = Idle
    BY DEF HeldInv
<1>4. Idle.op = "none"
    BY DEF Idle
<1> HIDE DEF stale
<1> QED
    BY <1>1, <1>2, <1>3, <1>4, IdleType DEF Ends

\* After a commit that decides approvals, or asks for new ones, without filing.
LEMMA EndsHeld ==
    ASSUME DecisionInv, NEW c \in Clients, Ends(c),
           request' = request, attempts' = attempts,
           \A k \in Approvals : approval[k] # "none" => approval'[k] # "none"
    PROVE  FiledInv' /\ HeldInv' /\ OneRequestPerApproval' /\ FreshInv'
<1>1. /\ Idle.op = "none" /\ Idle.of = None /\ Idle.attempts = 0
    BY DEF Idle
<1>2. FiledInv'
    BY <1>1 DEF DecisionInv, FiledInv, Ends
<1>3. HeldInv'
  <2> SUFFICES ASSUME NEW d \in Clients
               PROVE  LET u == tx'[d] IN
                 /\ u.op = "none" => u = Idle
                 /\ u.op \in {"prepare", "upload", "resume"} => u.of = None
                 /\ u.op \in {"approve", "reject"} => u.of \in Approvals
                 /\ u.op = "approve" => u.node = "WAITING_FOR_HUMAN"
                 /\ u.of \in Approvals => approval'[u.of] # "none"
                 /\ u.op = "approve" => \A i \in Approvals : request[i] = u.of =>
                        u.attempts < MaxApprovals /\ request[u.attempts + 1] # None
      BY DEF HeldInv
  <2>1. CASE d = c
      BY <2>1, <1>1, NoneIsNoApproval DEF Ends
  <2>2. CASE d # c
      BY <2>2 DEF Ends, DecisionInv, HeldInv
  <2> QED
      BY <2>1, <2>2
<1>4. OneRequestPerApproval'
    BY DEF DecisionInv, OneRequestPerApproval
<1>5. FreshInv'
    BY DEF Ends, FreshInv
<1> QED
    BY <1>2, <1>3, <1>4, <1>5

--------------------------------------------------------------------------------
\* A release that still has to file has a key left: the approvals that filed are
\* as many as the attempts, and its own is not among them.
LEMMA KeyLeft ==
    ASSUME DecisionInv, NEW c \in Clients, tx[c].op = "approve"
    PROVE  tx[c].attempts < MaxApprovals
<1> DEFINE t == tx[c]
<1>1. t.attempts \in 0 .. MaxApprovals /\ t.of \in Approvals
    BY DEF DecisionInv, TypeOK, Transaction, HeldInv
<1>2. SUFFICES ASSUME t.attempts = MaxApprovals PROVE FALSE
    BY <1>1, DecisionsAssumption
<1>3. \A i \in Approvals : request[i] # None
    BY <1>2 DEF DecisionInv, FiledInv, Approvals
<1>4. \A i \in Approvals : request[i] # t.of
    BY <1>2, DecisionsAssumption DEF DecisionInv, HeldInv
<1> DEFINE Others == Approvals \ {t.of}
<1>5. request \in [Approvals -> Others]
    BY <1>3, <1>4 DEF DecisionInv, TypeOK
<1>6. IsFiniteSet(Approvals)
    BY DecisionsAssumption, FS_Interval DEF Approvals
<1>7. /\ IsFiniteSet(Others) /\ Cardinality(Others) = Cardinality(Approvals) - 1
    BY <1>1, <1>6, FS_RemoveElement
<1>8. Cardinality(Others) < Cardinality(Approvals)
    BY <1>6, <1>7, FS_CardinalityType
<1>9. \E i, j \in Approvals : i # j /\ request[i] = request[j]
  <2> HIDE DEF Others
  <2> QED
      BY <1>5, <1>6, <1>7, <1>8, FS_PigeonHole
<1> QED
    BY <1>3, <1>9 DEF DecisionInv, OneRequestPerApproval

LEMMA ApproveStep ==
    ASSUME DecisionInv, NEW c \in Clients, Approve(c)
    PROVE  DecisionInv'
<1> DEFINE t == tx[c]
           m == t.attempts + 1
<1>1. /\ t.op = "approve" /\ t.of \in Approvals /\ t.attempts \in Nat
      /\ t.node = "WAITING_FOR_HUMAN"
    BY DecisionsAssumption DEF Approve, DecisionInv, HeldInv, TypeOK, Transaction
<1>2. m \in Approvals /\ m - 1 = t.attempts
    BY <1>1, KeyLeft, DecisionsAssumption DEF Approvals
<1>3. Ends(c)
    BY CommittedEnds DEF Approve, DecisionInv
<1>4. /\ approval' = [approval EXCEPT ![t.of] = "APPROVED"]
      /\ attempts' = m
      /\ request' = [request EXCEPT ![m] = IF @ = None THEN t.of ELSE @]
      /\ node' = "SUBMITTING" /\ missing' = missing
      /\ crossed' = (crossed \/ ~ t.fresh)
    BY <1>1 DEF Approve, write, Committed
<1>5. /\ request'[m] = IF request[m] = None THEN t.of ELSE request[m]
      /\ \A i \in Approvals : i # m => request'[i] = request[i]
      /\ request' \in [Approvals -> Approvals \cup {None}]
    BY <1>1, <1>2, <1>4 DEF DecisionInv, TypeOK
<1>6. /\ approval'[t.of] = "APPROVED"
      /\ \A k \in Approvals : k # t.of => approval'[k] = approval[k]
      /\ approval' \in [Approvals -> ApprovalState]
    BY <1>1, <1>4 DEF DecisionInv, TypeOK, ApprovalState
<1>7. \A i \in Approvals : request[i] # None => request'[i] = request[i]
    BY <1>2, <1>5
<1>8. \A i \in 1 .. m : request'[i] # None
  <2>1. request'[m] # None
      BY <1>1, <1>5, NoneIsNoApproval
  <2>2. \A i \in 1 .. t.attempts : i \in Approvals /\ request[i] # None
      BY <1>1, <1>2, DecisionsAssumption DEF DecisionInv, FiledInv, Approvals
  <2>3. \A i \in 1 .. m : i = m \/ i \in 1 .. t.attempts
      BY <1>1, <1>2
  <2> QED
      BY <2>1, <2>2, <2>3, <1>7
<1>9. \A d \in Clients : tx[d].attempts \in 0 .. MaxApprovals
    BY DEF DecisionInv, TypeOK, Transaction
<1> HIDE DEF m
<1>10. TypeOK'
  <2>1. m \in 0 .. MaxApprovals
      BY <1>2, DecisionsAssumption DEF Approvals
  <2>2. node' \in NodeState
      BY <1>4 DEF NodeState
  <2>3. crossed' \in BOOLEAN
    <3>1. crossed \in BOOLEAN /\ t.fresh \in BOOLEAN
        BY DEF DecisionInv, TypeOK, Transaction
    <3> QED
        BY <3>1, <1>4, Zenon
  <2> QED
      BY <2>1, <2>2, <2>3, <1>3, <1>4, <1>5, <1>6 DEF TypeOK, DecisionInv, Ends
<1>11. FiledInv'
  <2>1. \A i \in 1 .. attempts' : request'[i] # None
      BY <1>4, <1>8
  <2>2. ASSUME NEW d \in Clients, NEW i \in 1 .. tx'[d].attempts
        PROVE  request'[i] # None
    <3>1. d # c
        BY <2>2, <1>3 DEF Ends, Idle
    <3>2. i \in 1 .. tx[d].attempts
        BY <3>1, <2>2, <1>3 DEF Ends
    <3>3. i \in Approvals /\ request[i] # None
        BY <3>2, <1>9, DecisionsAssumption DEF DecisionInv, FiledInv, Approvals
    <3> QED
        BY <3>3, <1>7
  <2> QED
      BY <2>1, <2>2 DEF FiledInv
<1>12. UndecidedInv'
    BY <1>1, <1>2, <1>5, <1>6 DEF DecisionInv, UndecidedInv
<1>13. HeldInv'
  <2> SUFFICES ASSUME NEW d \in Clients
               PROVE  LET u == tx'[d] IN
                 /\ u.op = "none" => u = Idle
                 /\ u.op \in {"prepare", "upload", "resume"} => u.of = None
                 /\ u.op \in {"approve", "reject"} => u.of \in Approvals
                 /\ u.op = "approve" => u.node = "WAITING_FOR_HUMAN"
                 /\ u.of \in Approvals => approval'[u.of] # "none"
                 /\ u.op = "approve" => \A i \in Approvals : request'[i] = u.of =>
                        u.attempts < MaxApprovals /\ request'[u.attempts + 1] # None
      BY DEF HeldInv
  <2>1. CASE d = c
      BY <2>1, <1>3, NoneIsNoApproval DEF Ends, Idle
  <2>2. CASE d # c
    <3> DEFINE u == tx[d]
    <3>1. /\ tx'[d].op = u.op /\ tx'[d].of = u.of /\ tx'[d].node = u.node
          /\ tx'[d].attempts = u.attempts /\ (u.op = "none" => tx'[d] = Idle)
        BY <2>2, <1>3 DEF Ends
    <3>2. /\ u.op \in {"prepare", "upload", "resume"} => u.of = None
          /\ u.op \in {"approve", "reject"} => u.of \in Approvals
          /\ u.op = "approve" => u.node = "WAITING_FOR_HUMAN"
          /\ u.of \in Approvals => approval'[u.of] # "none"
        BY <1>6 DEF DecisionInv, HeldInv
    <3>3. ASSUME u.op = "approve", NEW i \in Approvals, request'[i] = u.of
          PROVE  u.attempts < MaxApprovals /\ request'[u.attempts + 1] # None
      <4>1. u.attempts < MaxApprovals
          BY <3>3, KeyLeft
      <4>2. u.attempts + 1 \in Approvals
          BY <4>1, <1>9, DecisionsAssumption DEF Approvals
      <4>3. CASE request[i] = u.of
        <5>1. request[u.attempts + 1] # None
            BY <4>3, <3>3 DEF DecisionInv, HeldInv
        <5> QED
            BY <5>1, <4>1, <4>2, <1>7
      <4>4. CASE request[i] # u.of
        <5>1. i = m /\ request[m] = None
            BY <4>4, <3>3, <1>5
        <5>2. u.attempts + 1 <= m
            BY <5>1, <1>2, <1>9, DecisionsAssumption DEF DecisionInv, FiledInv, Approvals
        <5> QED
            BY <5>2, <4>1, <4>2, <1>8 DEF Approvals
      <4> QED
          BY <4>3, <4>4
    <3> QED
        BY <3>1, <3>2, <3>3
  <2> QED
      BY <2>1, <2>2
<1>14. OneRequestPerApproval'
  <2>1. ASSUME NEW i \in Approvals, i # m, request[m] = None PROVE request'[i] # t.of
      BY <2>1, <1>1, <1>5 DEF DecisionInv, HeldInv, m
  <2> QED
      BY <2>1, <1>2, <1>5 DEF DecisionInv, OneRequestPerApproval
<1>15. GateInv' /\ FreshInv'
    BY <1>3, <1>4 DEF GateInv, FreshInv, Ends
<1>16. PendingIsAtGate'
  <2> SUFFICES ASSUME ~ crossed' PROVE Pending' = {}
      BY DEF PendingIsAtGate
  <2>1. ~ crossed /\ t.fresh
      BY <1>4
  <2>2. t.of \in Pending
      BY <1>1, <2>1 DEF DecisionInv, FreshInv
  <2>3. Pending = {t.of}
      BY <2>1, <2>2 DEF DecisionInv, PendingIsAtGate
  <2> QED
      BY <2>3, <1>6 DEF Pending
<1> QED
    BY <1>10, <1>11, <1>12, <1>13, <1>14, <1>15, <1>16 DEF DecisionInv

--------------------------------------------------------------------------------
\* A decision that refuses: the one approval it decides is no longer pending,
\* and the node is no longer where the approval was asked for.
LEMMA Refuses ==
    ASSUME DecisionInv, NEW c \in Clients, Ends(c),
           NEW target \in NodeState \ {"WAITING_FOR_HUMAN"}, write(c, target),
           NEW decided \in {"REJECTED", "CANCELLED"},
           tx[c].op \in {"reject", "ask"},
           approval' = [k \in Approvals |-> IF k = tx[c].of THEN decided ELSE approval[k]],
           request' = request, attempts' = attempts, missing' \in BOOLEAN,
           crossed' = (crossed \/ ~ tx[c].fresh)
    PROVE  DecisionInv'
<1>1. /\ approval' \in [Approvals -> ApprovalState]
      /\ \A k \in Approvals : k # tx[c].of => approval'[k] = approval[k]
      /\ \A k \in Approvals : k = tx[c].of => approval'[k] = decided
    BY DEF DecisionInv, TypeOK, ApprovalState
<1>2. Pending' = Pending \ {tx[c].of}
    BY <1>1 DEF Pending
<1>3. TypeOK'
  <2>1. node' \in NodeState
      BY DEF write, DecisionInv, TypeOK
  <2>2. crossed' \in BOOLEAN
    <3>1. crossed \in BOOLEAN /\ tx[c].fresh \in BOOLEAN
        BY DEF DecisionInv, TypeOK, Transaction
    <3> QED
        BY <3>1, Zenon
  <2> QED
      BY <2>1, <2>2, <1>1 DEF DecisionInv, TypeOK, Ends
<1>4. FiledInv' /\ HeldInv' /\ OneRequestPerApproval' /\ FreshInv'
  <2>1. \A k \in Approvals : approval[k] # "none" => approval'[k] # "none"
      BY <1>1
  <2> QED
      BY <2>1, EndsHeld
<1>5. UndecidedInv'
    BY <1>1 DEF DecisionInv, UndecidedInv
<1>6. GateInv'
  <2> SUFFICES ASSUME node' = "WAITING_FOR_HUMAN"
               PROVE  \E k \in Pending' : \A d \in Clients :
                          tx'[d].of = k => tx'[d].node = "WAITING_FOR_HUMAN"
      BY DEF GateInv
  <2>1. tx[c].node = target /\ node = "WAITING_FOR_HUMAN"
      BY DEF write
  <2>2. PICK k \in Pending : \A d \in Clients :
             tx[d].of = k => tx[d].node = "WAITING_FOR_HUMAN"
      BY <2>1 DEF DecisionInv, GateInv
  <2>3. k # tx[c].of
      BY <2>1, <2>2
  <2>4. Idle.of # k
      BY NoneIsNoApproval DEF Idle, Pending
  <2>5. \A d \in Clients : tx'[d].of = k => tx'[d].node = "WAITING_FOR_HUMAN"
      BY <2>2, <2>4 DEF Ends
  <2> QED
      BY <1>2, <2>3, <2>5
<1>7. PendingIsAtGate'
  <2> SUFFICES ASSUME ~ crossed' PROVE Pending' = {}
      BY DEF PendingIsAtGate
  <2>1. ~ crossed /\ tx[c].fresh
      OBVIOUS
  <2>2. tx[c].of \in Pending \/ Pending = {}
      BY <2>1 DEF DecisionInv, FreshInv
  <2>3. tx[c].of \in Pending => Pending = {tx[c].of}
      BY <2>1 DEF DecisionInv, PendingIsAtGate
  <2> QED
      BY <2>2, <2>3, <1>2
<1> QED
    BY <1>3, <1>4, <1>5, <1>6, <1>7 DEF DecisionInv

LEMMA RejectStep ==
    ASSUME DecisionInv, NEW c \in Clients, Reject(c)
    PROVE  DecisionInv'
<1>1. approval' = [k \in Approvals |-> IF k = tx[c].of THEN "REJECTED" ELSE approval[k]]
    BY DEF Reject, DecisionInv, TypeOK
<1>2. "BLOCKED" \in NodeState \ {"WAITING_FOR_HUMAN"}
    BY DEF NodeState
<1>3. Ends(c)
    BY CommittedEnds DEF Reject, DecisionInv
<1>4. missing' \in BOOLEAN
    BY DEF Reject, DecisionInv, TypeOK
<1> QED
    BY <1>1, <1>2, <1>3, <1>4, Refuses DEF Reject, Committed

LEMMA AskStep ==
    ASSUME DecisionInv, NEW c \in Clients, Ask(c)
    PROVE  DecisionInv'
<1>1. "DOCUMENT_MISSING" \in NodeState \ {"WAITING_FOR_HUMAN"}
    BY DEF NodeState
<1>2. Ends(c)
    BY CommittedEnds DEF Ask, DecisionInv
<1>3. missing' \in BOOLEAN
    BY DEF Ask, writeMissing, DecisionInv, TypeOK
<1> QED
    BY <1>1, <1>2, <1>3, Refuses DEF Ask, Committed

--------------------------------------------------------------------------------
\* A new approval: nobody can have decided it, and the node waits for it.
LEMMA RequestStep ==
    ASSUME DecisionInv, NEW c \in Clients, Ends(c), Request,
           tx[c].op \in {"prepare", "resume"},
           request' = request, attempts' = attempts, missing' \in BOOLEAN,
           crossed' = (crossed \/ ~ tx[c].fresh)
    PROVE  DecisionInv'
<1>1. PICK k \in Approvals : approval[k] = "none" /\ approval' = [approval EXCEPT ![k] = "PENDING"]
    BY DEF Request
<1>2. node' = "WAITING_FOR_HUMAN"
    BY DEF Request
<1>3. /\ approval' \in [Approvals -> ApprovalState]
      /\ approval'[k] = "PENDING"
      /\ \A j \in Approvals : j # k => approval'[j] = approval[j]
    BY <1>1 DEF DecisionInv, TypeOK, ApprovalState
<1>4. Pending' = Pending \cup {k}
    BY <1>3 DEF Pending
<1>5. TypeOK'
  <2>1. node' \in NodeState
      BY <1>2 DEF NodeState
  <2>2. crossed' \in BOOLEAN
    <3>1. crossed \in BOOLEAN /\ tx[c].fresh \in BOOLEAN
        BY DEF DecisionInv, TypeOK, Transaction
    <3> QED
        BY <3>1, Zenon
  <2> QED
      BY <2>1, <2>2, <1>3 DEF DecisionInv, TypeOK, Ends
<1>6. FiledInv' /\ HeldInv' /\ OneRequestPerApproval' /\ FreshInv'
  <2>1. \A j \in Approvals : approval[j] # "none" => approval'[j] # "none"
      BY <1>1, <1>3
  <2> QED
      BY <2>1, EndsHeld
<1>7. UndecidedInv'
    BY <1>1, <1>3 DEF DecisionInv, UndecidedInv
<1>8. GateInv'
  <2>1. \A d \in Clients : tx[d].of # k
      BY <1>1 DEF DecisionInv, HeldInv
  <2>2. Idle.of # k
      BY NoneIsNoApproval DEF Idle
  <2>3. \A d \in Clients : tx'[d].of # k
      BY <2>1, <2>2 DEF Ends
  <2> QED
      BY <2>3, <1>4 DEF GateInv
<1>9. PendingIsAtGate'
  <2> SUFFICES ASSUME ~ crossed' PROVE Pending' = {k}
      BY <1>2 DEF PendingIsAtGate
  <2>1. Pending = {}
      BY DEF DecisionInv, FreshInv
  <2> QED
      BY <2>1, <1>4
<1> QED
    BY <1>5, <1>6, <1>7, <1>8, <1>9 DEF DecisionInv

LEMMA PrepareStep ==
    ASSUME DecisionInv, NEW c \in Clients, Prepare(c)
    PROVE  DecisionInv'
<1>1. Ends(c)
    BY CommittedEnds DEF Prepare, DecisionInv
<1>2. missing' \in BOOLEAN
    BY DEF Prepare, DecisionInv, TypeOK
<1> QED
    BY <1>1, <1>2, RequestStep DEF Prepare, Committed

LEMMA UploadStep ==
    ASSUME DecisionInv, NEW c \in Clients, Upload(c)
    PROVE  DecisionInv'
<1>1. Ends(c)
    BY CommittedEnds DEF Upload, DecisionInv
<1>2. missing' \in BOOLEAN
    BY DEF Upload, writeMissing, DecisionInv, TypeOK
<1>3. CASE tx[c].op = "resume" /\ Request
    BY <1>1, <1>2, <1>3, RequestStep DEF Upload, Committed
<1>4. CASE tx[c].op = "upload" /\ UNCHANGED <<node, approval>>
  <2>1. Pending' = Pending /\ approval' = approval /\ node' = node
      BY <1>4 DEF Pending
  <2>2. request' = request /\ attempts' = attempts /\ crossed' = (crossed \/ ~ tx[c].fresh)
      BY DEF Upload, Committed
  <2>3. TypeOK'
    <3>1. crossed' \in BOOLEAN
      <4>1. crossed \in BOOLEAN /\ tx[c].fresh \in BOOLEAN
          BY DEF DecisionInv, TypeOK, Transaction
      <4> QED
          BY <4>1, <2>2, Zenon
    <3> QED
        BY <3>1, <2>1, <2>2, <1>1, <1>2 DEF DecisionInv, TypeOK, Ends
  <2>4. FiledInv' /\ HeldInv' /\ OneRequestPerApproval' /\ FreshInv'
      BY <2>1, <2>2, <1>1, EndsHeld
  <2>5. UndecidedInv'
      BY <2>1, <2>2 DEF DecisionInv, UndecidedInv
  <2>6. GateInv'
    <3>1. \A k \in Pending : Idle.of # k
        BY NoneIsNoApproval DEF Idle, Pending
    <3> QED
        BY <3>1, <2>1, <1>1 DEF DecisionInv, GateInv, Ends
  <2>7. PendingIsAtGate'
      BY <2>1, <2>2 DEF DecisionInv, PendingIsAtGate
  <2> QED
      BY <2>3, <2>4, <2>5, <2>6, <2>7 DEF DecisionInv
<1> QED
    BY <1>3, <1>4 DEF Upload

LEMMA RollbackStep ==
    ASSUME DecisionInv, NEW c \in Clients, Rollback(c)
    PROVE  DecisionInv'
<1>1. /\ tx' = [tx EXCEPT ![c] = Idle]
      /\ UNCHANGED <<node, attempts, approval, request, missing, crossed>>
    BY DEF Rollback
<1>2. Pending' = Pending
    BY <1>1 DEF Pending
<1>3. /\ tx'[c] = Idle /\ \A d \in Clients : d # c => tx'[d] = tx[d]
      /\ Idle.op = "none" /\ Idle.of = None /\ Idle.attempts = 0
    BY <1>1 DEF DecisionInv, TypeOK, Idle
<1>4. TypeOK'
    BY <1>1, IdleType DEF DecisionInv, TypeOK
<1>5. FiledInv' /\ UndecidedInv' /\ OneRequestPerApproval'
    BY <1>1, <1>3 DEF DecisionInv, FiledInv, UndecidedInv, OneRequestPerApproval
<1>6. HeldInv'
    BY <1>1, <1>3, NoneIsNoApproval DEF DecisionInv, HeldInv
<1>7. GateInv'
  <2>1. \A k \in Pending : Idle.of # k
      BY <1>3, NoneIsNoApproval DEF Pending
  <2> QED
      BY <2>1, <1>1, <1>2, <1>3 DEF DecisionInv, GateInv
<1>8. FreshInv' /\ PendingIsAtGate'
  <2>1. \A o : Allowed(o)' = Allowed(o)
      BY <1>1 DEF Allowed, assert_transition, can_transition
  <2> QED
      BY <2>1, <1>1, <1>2, <1>3 DEF DecisionInv, FreshInv, PendingIsAtGate
<1> QED
    BY <1>4, <1>5, <1>6, <1>7, <1>8 DEF DecisionInv

LEMMA MoveStep ==
    ASSUME DecisionInv, Move
    PROVE  DecisionInv'
<1> DEFINE stale(d) == [tx[d] EXCEPT !.fresh = FALSE]
<1>1. /\ tx' = [d \in Clients |-> IF tx[d].op = "none" THEN Idle ELSE stale(d)]
      /\ crossed' = (crossed \/ (node = "WAITING_FOR_HUMAN" /\ node' # node))
      /\ UNCHANGED <<attempts, approval, request>>
      /\ missing' \in BOOLEAN
      /\ node' = node \/ node' \in NodeState \ {"WAITING_FOR_HUMAN"}
  <2>1. /\ tx' = [d \in Clients |-> IF tx[d].op = "none" THEN Idle ELSE stale(d)]
        /\ crossed' = (crossed \/ (node = "WAITING_FOR_HUMAN" /\ node' # node))
        /\ UNCHANGED <<attempts, approval, request>>
        /\ Gate!Document \/ Gate!Move
      BY DEF Move
  <2>2. CASE Gate!Document
      BY <2>1, <2>2 DEF Gate!Document
  <2>3. CASE Gate!Move
      BY <2>1, <2>3, SameTable DEF Gate!Move
  <2> QED
      BY <2>1, <2>2, <2>3
<1>2. Pending' = Pending
    BY <1>1 DEF Pending
<1>3. \A d \in Clients :
          /\ stale(d) \in Transaction /\ ~ stale(d).fresh
          /\ stale(d).op = tx[d].op /\ stale(d).of = tx[d].of
          /\ stale(d).node = tx[d].node /\ stale(d).attempts = tx[d].attempts
    BY DEF DecisionInv, TypeOK, Transaction
<1>4. \A d \in Clients : tx[d].op = "none" => tx[d] = Idle
    BY DEF DecisionInv, HeldInv
<1>5. Idle.op = "none"
    BY DEF Idle
<1> HIDE DEF stale
<1>6. /\ tx' \in [Clients -> Transaction]
      /\ \A d \in Clients :
            /\ tx'[d].op = tx[d].op /\ tx'[d].of = tx[d].of
            /\ tx'[d].node = tx[d].node /\ tx'[d].attempts = tx[d].attempts
            /\ tx'[d].op = "none" => tx'[d] = Idle
            /\ tx'[d].op # "none" => ~ tx'[d].fresh
    BY <1>1, <1>3, <1>4, <1>5, IdleType
<1>7. TypeOK'
  <2>1. crossed' \in BOOLEAN
    <3>1. crossed \in BOOLEAN
        BY DEF DecisionInv, TypeOK
    <3> QED
        BY <3>1, <1>1, Zenon
  <2> QED
      BY <2>1, <1>1, <1>6 DEF DecisionInv, TypeOK
<1>8. FiledInv' /\ UndecidedInv' /\ OneRequestPerApproval'
    BY <1>1, <1>6 DEF DecisionInv, FiledInv, UndecidedInv, OneRequestPerApproval
<1>9. HeldInv'
    BY <1>1, <1>6 DEF DecisionInv, HeldInv
<1>10. GateInv'
    BY <1>1, <1>2, <1>6 DEF DecisionInv, GateInv
<1>11. FreshInv'
    BY <1>6 DEF FreshInv
<1>12. PendingIsAtGate'
    BY <1>1, <1>2 DEF DecisionInv, PendingIsAtGate
<1> QED
    BY <1>7, <1>8, <1>9, <1>10, <1>11, <1>12 DEF DecisionInv

--------------------------------------------------------------------------------
LEMMA NextDecision ==
    ASSUME DecisionInv, [Next]_vars
    PROVE  DecisionInv'
<1>1. CASE Move
    BY <1>1, MoveStep
<1>2. ASSUME NEW c \in Clients,
             \/ BeginAsk(c) \/ BeginPrepare(c) \/ BeginUpload(c)
             \/ \E k \in Approvals : BeginApprove(c, k) \/ BeginReject(c, k)
      PROVE  DecisionInv'
    BY <1>2, Begins
<1>3. ASSUME NEW c \in Clients,
             Approve(c) \/ Reject(c) \/ Ask(c) \/ Prepare(c) \/ Upload(c) \/ Rollback(c)
      PROVE  DecisionInv'
    BY <1>3, ApproveStep, RejectStep, AskStep, PrepareStep, UploadStep, RollbackStep
<1>4. CASE UNCHANGED vars
    BY <1>4 DEF vars, DecisionInv, TypeOK, FiledInv, UndecidedInv, HeldInv,
       OneRequestPerApproval, GateInv, FreshInv, Allowed, assert_transition,
       can_transition, PendingIsAtGate, Pending
<1> QED
    BY <1>1, <1>2, <1>3, <1>4 DEF Next

LEMMA DecisionInvariant == Spec => []DecisionInv
<1>1. Init => DecisionInv
    BY InitDecision
<1>2. DecisionInv /\ [Next]_vars => DecisionInv'
    BY NextDecision
<1> QED
    BY <1>1, <1>2, PTL DEF Spec

\* Every variable has its type: attempts, which count requests, never pass the
\* number of approvals, whatever is released twice or late
\* (ApprovalService, EntityService.release).
THEOREM DecisionTypes == Spec => []TypeOK
<1>1. DecisionInv => TypeOK
    BY DEF DecisionInv
<1> QED
    BY <1>1, DecisionInvariant, PTL

\* A node that waits for an officer has an approval an officer can decide,
\* however transactions of the gate overwrite one another.
THEOREM GateDecidable == Spec => []GateIsDecidable
<1>1. DecisionInv => GateIsDecidable
    BY DEF DecisionInv, GateInv, GateIsDecidable
<1> QED
    BY <1>1, DecisionInvariant, PTL

\* An approval makes at most one request, however often and however late it is
\* released (the idempotency key of EntityService.release).
THEOREM OneRequest == Spec => []OneRequestPerApproval
<1>1. DecisionInv => OneRequestPerApproval
    BY DEF DecisionInv
<1> QED
    BY <1>1, DecisionInvariant, PTL

\* While transactions do not cross, at most one approval is pending, and only
\* while the node waits for it (ApprovalService.request returns it if asked).
THEOREM PendingAtGate == Spec => []PendingIsAtGate
<1>1. DecisionInv => PendingIsAtGate
    BY DEF DecisionInv
<1> QED
    BY <1>1, DecisionInvariant, PTL

--------------------------------------------------------------------------------
(* Uncrossed transactions are steps of the gate. *)

\* A transaction commits over nothing: what it read and decided from is so.
LEMMA CommitIsFresh ==
    ASSUME DecisionInv, NEW c \in Clients, tx[c].op # "none", Committed(c), ~ crossed'
    PROVE  /\ tx[c].node = node /\ tx[c].attempts = attempts /\ tx[c].missing = missing
           /\ Allowed(tx[c].op)
           /\ tx[c].op \in {"approve", "reject"} => Pending = {tx[c].of}
           /\ tx[c].op = "ask" => Pending \subseteq {tx[c].of}
           /\ tx[c].op \in {"prepare", "resume"} => Pending = {}
<1>1. ~ crossed /\ tx[c].fresh
    BY DEF Committed
<1> QED
    BY <1>1 DEF DecisionInv, FreshInv, PendingIsAtGate

\* Deciding the only approval there is leaves none.
LEMMA DecidedIsLast ==
    ASSUME TypeOK, NEW k \in Approvals \cup {None}, Pending \subseteq {k},
           NEW decided \in {"APPROVED", "REJECTED", "CANCELLED"},
           \A j \in Approvals : approval'[j] = IF j = k THEN decided ELSE approval[j]
    PROVE  Pending' = {}
BY DEF Pending

LEMMA SerialStep ==
    ASSUME DecisionInv, Next, ~ crossed'
    PROVE  [Gate!Next]_(Gate!vars)
<1>1. CASE Move
    BY <1>1 DEF Move, Gate!Next
<1>2. ASSUME NEW c \in Clients,
             \/ BeginAsk(c) \/ BeginPrepare(c) \/ BeginUpload(c) \/ Rollback(c)
             \/ \E k \in Approvals : BeginApprove(c, k) \/ BeginReject(c, k)
      PROVE  UNCHANGED Gate!vars
  <2>1. UNCHANGED <<node, attempts, approval, missing>>
      BY <1>2 DEF BeginAsk, BeginPrepare, BeginUpload, Rollback, BeginApprove,
         BeginReject, Begin
  <2> QED
      BY <2>1 DEF Gate!vars, Pending
<1>3. ASSUME NEW c \in Clients, Approve(c) PROVE Gate!Approve
  <2>1. /\ node = "WAITING_FOR_HUMAN" /\ ~ missing /\ Pending = {tx[c].of}
        /\ tx[c].node = node /\ tx[c].attempts = attempts
      BY <1>3, CommitIsFresh DEF Approve, Allowed
  <2>2. tx[c].of \in Approvals
      BY <2>1 DEF Pending
  <2>3. Pending' = {}
    <3>1. \A j \in Approvals : approval'[j] = IF j = tx[c].of THEN "APPROVED" ELSE approval[j]
        BY <1>3, <2>2 DEF Approve, DecisionInv, TypeOK
    <3> QED
        BY <3>1, <2>1, <2>2, DecidedIsLast DEF DecisionInv
  <2> QED
      BY <1>3, <2>1, <2>3 DEF Approve, write, Gate!Approve
<1>4. ASSUME NEW c \in Clients, Reject(c) PROVE Gate!Reject
  <2>1. /\ assert_transition(node, "BLOCKED") /\ Pending = {tx[c].of}
        /\ tx[c].node = node
      BY <1>4, CommitIsFresh DEF Reject, Allowed
  <2>2. tx[c].of \in Approvals
      BY <2>1 DEF Pending
  <2>3. Pending' = {}
    <3>1. \A j \in Approvals : approval'[j] = IF j = tx[c].of THEN "REJECTED" ELSE approval[j]
        BY <1>4, <2>2 DEF Reject, DecisionInv, TypeOK
    <3> QED
        BY <3>1, <2>1, <2>2, DecidedIsLast DEF DecisionInv
  <2> QED
      BY <1>4, <2>1, <2>3, SameTable DEF Reject, write, Gate!Reject
<1>5. ASSUME NEW c \in Clients, Ask(c) PROVE Gate!Ask
  <2>1. /\ assert_transition(node, "DOCUMENT_MISSING") /\ Pending \subseteq {tx[c].of}
        /\ tx[c].node = node /\ tx[c].missing = missing
      BY <1>5, CommitIsFresh DEF Ask, Allowed
  <2>2. tx[c].of \in Approvals \cup {None} /\ missing \in BOOLEAN
      BY DEF DecisionInv, TypeOK, Transaction
  <2>3. Pending' = {}
    <3>1. \A j \in Approvals : approval'[j] = IF j = tx[c].of THEN "CANCELLED" ELSE approval[j]
        BY <1>5 DEF Ask
    <3> QED
        BY <3>1, <2>1, <2>2, DecidedIsLast DEF DecisionInv
  <2>4. missing' \in BOOLEAN /\ (missing => missing')
      BY <1>5, <2>2 DEF Ask, writeMissing
  <2> QED
      BY <1>5, <2>1, <2>3, <2>4, SameTable DEF Ask, write, Gate!Ask
<1>6. ASSUME Request PROVE Pending' # {} /\ node' = "WAITING_FOR_HUMAN"
  <2>1. PICK k \in Approvals : approval' = [approval EXCEPT ![k] = "PENDING"]
      BY <1>6 DEF Request
  <2> QED
      BY <1>6, <2>1 DEF Request, Pending, DecisionInv, TypeOK
<1>7. ASSUME NEW c \in Clients, Prepare(c) PROVE Gate!Prepare
  <2>1. /\ node \in REQUESTABLE_FROM \/ (node = "PENDING" /\ ~ missing)
        /\ Pending = {}
      BY <1>7, CommitIsFresh DEF Prepare, Allowed
  <2> QED
      BY <1>6, <1>7, <2>1 DEF Prepare, Gate!Prepare, Gate!Park,
         REQUESTABLE_FROM, Gate!REQUESTABLE_FROM
<1>8. ASSUME NEW c \in Clients, Upload(c)
      PROVE  Gate!Resume \/ Gate!Document \/ UNCHANGED Gate!vars
  <2>1. tx[c].missing = missing /\ missing \in BOOLEAN
      BY <1>8, CommitIsFresh DEF Upload, DecisionInv, TypeOK
  <2>2. missing' = FALSE /\ attempts' = attempts
      BY <1>8, <2>1 DEF Upload, writeMissing
  <2>3. CASE tx[c].op = "resume" /\ Request
    <3>1. node = "DOCUMENT_MISSING" /\ Pending = {}
        BY <1>8, <2>3, CommitIsFresh DEF Upload, Allowed
    <3> QED
        BY <1>6, <2>2, <2>3, <3>1 DEF Gate!Resume, Gate!Park
  <2>4. CASE UNCHANGED <<node, approval>>
      BY <2>1, <2>2, <2>4 DEF Gate!Document, Gate!vars, Pending
  <2> QED
      BY <1>8, <2>3, <2>4 DEF Upload
<1> QED
    BY <1>1, <1>2, <1>3, <1>4, <1>5, <1>7, <1>8 DEF Next, Gate!Next

\* As long as transactions do not cross, each commit is one step of the gate:
\* what officers, the orchestrator and uploads read is still so when they write,
\* and they might as well have been single steps.
THEOREM UncrossedSerial == Spec => UncrossedIsSerial
<1>1. DecisionInv /\ [Next]_vars => (~ crossed' => [Gate!Next]_(Gate!vars))
  <2> SUFFICES ASSUME DecisionInv, [Next]_vars, ~ crossed' PROVE [Gate!Next]_(Gate!vars)
      OBVIOUS
  <2>1. CASE Next
      BY <2>1, SerialStep
  <2>2. CASE UNCHANGED vars
      BY <2>2 DEF vars, Gate!vars, Pending
  <2> QED
      BY <2>1, <2>2
<1> QED
    BY <1>1, DecisionInvariant, PTL DEF Spec, UncrossedIsSerial
================================================================================
