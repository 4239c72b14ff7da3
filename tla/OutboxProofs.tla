----------------------------- MODULE OutboxProofs -----------------------------
(***************************************************************************)
(* Proofs about Outbox: for any number of events, consumers, tries, crashes*)
(* and messages the pipeline implements ReliableDelivery with either       *)
(* broker, and with Kafka loses no event.                                  *)
(***************************************************************************)
EXTENDS Outbox, TLAPS

\* The dispatcher is between two messages, about to look at a consumer or past
\* the last one, or running a registered consumer.
TaskShape ==
    /\ task.pc = "idle" => task = NoTask
    /\ task.pc # "idle" => /\ task.ev \in 1 .. recorded
                           /\ task.c \in 1 .. NumConsumers + 1
                           /\ task.try \in 1 .. MaxTries
    /\ task.pc \in {"handle", "give_up"} => task.c \in Consumers
    /\ Durable /\ task.pc # "idle" => log # <<>> /\ Head(log) = task.ev

\* Only recorded events are locked, published or in the broker; the relay
\* publishes what it locked and only pending rows are locked.
KnownEvents ==
    /\ \A i \in 1 .. Len(log) : log[i] <= recorded
    /\ relay.batch \subseteq 1 .. recorded
    /\ relay.published \subseteq relay.batch
    /\ \A e \in relay.batch : status[e] = "PENDING"

\* Effects are what there are receipts for; a running handler has none yet.
ReceiptPerEffect ==
    /\ \A e \in Events, c \in Consumers :
          effects[e][c] = IF c \in receipts[e] THEN 1 ELSE 0
    /\ task.pc \in {"handle", "give_up"} => task.c \notin receipts[task.ev]

\* The dispatcher's flag is right about the consumers it is done with.
HonestTask ==
    task.pc # "idle" =>
        /\ ~ task.failed => \A c \in Consumers : c < task.c => c \in receipts[task.ev]
        /\ task.failed => \E c \in Consumers : c < task.c /\ c \notin receipts[task.ev]

DeliveryInv == TypeOK /\ TaskShape /\ KnownEvents /\ ReceiptPerEffect /\ HonestTask

--------------------------------------------------------------------------------
\* What publishing and acknowledging do to the broker's messages.
LEMMA AppendFacts ==
    ASSUME NEW S, NEW s \in Seq(S), NEW e \in S
    PROVE  /\ Append(s, e) \in Seq(S)
           /\ Append(s, e) # <<>>
           /\ Len(Append(s, e)) = Len(s) + 1
           /\ \A i \in 1 .. Len(s) : Append(s, e)[i] = s[i]
           /\ Append(s, e)[Len(s) + 1] = e
           /\ s # <<>> => Head(Append(s, e)) = Head(s)
<1>1. /\ Append(s, e) \in Seq(S)
      /\ Len(Append(s, e)) = Len(s) + 1
      /\ \A i \in 1 .. Len(s) : Append(s, e)[i] = s[i]
      /\ Append(s, e)[Len(s) + 1] = e
    OBVIOUS
<1>2. Append(s, e) # <<>>
    BY <1>1
<1>3. s # <<>> => Head(Append(s, e)) = Head(s)
    BY <1>1
<1>4. QED
    BY <1>1, <1>2, <1>3

LEMMA TailFacts ==
    ASSUME NEW S, NEW s \in Seq(S), s # <<>>
    PROVE  /\ Tail(s) \in Seq(S)
           /\ Len(Tail(s)) = Len(s) - 1
           /\ \A i \in 1 .. Len(s) - 1 : Tail(s)[i] = s[i + 1]
           /\ Head(s) = s[1]
           /\ Len(s) \in Nat \ {0}
OBVIOUS

\* The dispatcher's record keeps its type when the next consumer's turn comes.
LEMMA NextConsumerType ==
    ASSUME TypeOK, task.c \in Consumers, NEW f \in BOOLEAN
    PROVE  /\ NextConsumer(f) \in TaskState
           /\ NextConsumer(f).ev = task.ev
           /\ NextConsumer(f).c = task.c + 1
           /\ NextConsumer(f).try = 1
           /\ NextConsumer(f).failed = f
           /\ NextConsumer(f).pc = "check"
<1>1. task.c + 1 \in 0 .. NumConsumers + 1 /\ 1 \in 0 .. MaxTries
    BY OutboxAssumption DEF Consumers
<1>2. QED
    BY <1>1 DEF TypeOK, TaskState, NextConsumer

\* Neither does an idle relay or dispatcher leave its type.
LEMMA IdleTypes == NoTask \in TaskState /\ NoRelay \in RelayState
BY OutboxAssumption DEF NoTask, NoRelay, TaskState, RelayState

\* The empty outbox satisfies the invariant.
LEMMA InitDelivery == Init => DeliveryInv
<1> SUFFICES ASSUME Init PROVE DeliveryInv
    OBVIOUS
<1>1. TypeOK
    BY OutboxAssumption, IdleTypes DEF Init, TypeOK, OutboxStatus
<1>2. TaskShape /\ HonestTask /\ ReceiptPerEffect
    BY DEF Init, TaskShape, HonestTask, ReceiptPerEffect, NoTask
<1>3. KnownEvents
    BY DEF Init, KnownEvents, NoRelay
<1>4. QED
    BY <1>1, <1>2, <1>3 DEF DeliveryInv

\* Every step keeps the types.
LEMMA NextType == DeliveryInv /\ [Next]_vars => TypeOK'
<1> SUFFICES ASSUME DeliveryInv, [Next]_vars PROVE TypeOK'
    OBVIOUS
<1> USE OutboxAssumption, IdleTypes DEF DeliveryInv
<1>1. CASE Emit
    BY <1>1 DEF TypeOK, Emit, relayVars, dispatchVars
<1>2. CASE RelaySelect
    <2>1. Available \subseteq Events
        BY DEF TypeOK, Available, Events
    <2>2. relay' \in RelayState
        BY <1>2, <2>1 DEF RelaySelect, RelayState, NoRelay
    <2>3. QED
        BY <1>2, <2>2 DEF TypeOK, RelaySelect, dispatchVars
<1>3. ASSUME NEW e \in Events, RelayPublish(e) \/ RelayPublishFails(e) PROVE TypeOK'
    <2>1. relay' \in RelayState
        <3>1. CASE relay' = [relay EXCEPT !.published = @ \cup {e}]
            BY <3>1 DEF TypeOK, RelayState
        <3>2. CASE relay' = [relay EXCEPT !.failed = {e}]
            BY <3>2 DEF TypeOK, RelayState
        <3>3. QED
            BY <1>3, <3>1, <3>2 DEF RelayPublish, RelayPublishFails
    <2>2. log' \in Seq(Events)
        <3>1. Append(log, e) \in Seq(Events)
            BY DEF TypeOK
        <3>2. QED
            BY <1>3, <3>1 DEF TypeOK, RelayPublish, RelayPublishFails
    <2>3. UNCHANGED <<recorded, status, waiting, dispatchVars, faults>>
        BY <1>3 DEF RelayPublish, RelayPublishFails
    <2>4. QED
        BY <2>1, <2>2, <2>3 DEF TypeOK, dispatchVars
<1>5. CASE RelayCommit
    <2>1. waiting' \subseteq Events
        BY <1>5 DEF TypeOK, RelayState, RelayCommit
    <2>2. status' \in [Events -> OutboxStatus]
        BY <1>5 DEF TypeOK, RelayCommit, OutboxStatus
    <2>3. QED
        BY <1>5, <2>1, <2>2 DEF TypeOK, RelayCommit, dispatchVars
<1>6. ASSUME NEW e \in Events, BackoffExpires(e) PROVE TypeOK'
    BY <1>6 DEF TypeOK, BackoffExpires, dispatchVars
<1>7. CASE Take
    <2>1. Head(log) \in 0 .. MaxEvents /\ Tail(log) \in Seq(Events)
        BY <1>7 DEF TypeOK, Take, Events
    <2>2. 1 \in 0 .. NumConsumers + 1 /\ 1 \in 0 .. MaxTries
        OBVIOUS
    <2>3. task' \in TaskState
        BY <1>7, <2>1, <2>2 DEF Take, TaskState
    <2>4. QED
        BY <1>7, <2>1, <2>3 DEF TypeOK, Take, relayVars
<1>8. CASE CheckReceipt
    <2>1. task' \in TaskState
        <3>1. CASE task' = NextConsumer(task.failed)
            BY <1>8, <3>1, NextConsumerType DEF CheckReceipt, TypeOK, TaskState
        <3>2. CASE task' = [task EXCEPT !.pc = "handle"]
            BY <3>2 DEF TypeOK, TaskState
        <3>3. QED
            BY <1>8, <3>1, <3>2 DEF CheckReceipt
    <2>2. QED
        BY <1>8, <2>1 DEF TypeOK, CheckReceipt, relayVars
<1>9. CASE HandlerCommits
    <2>1. task.ev \in Events /\ task.c \in Consumers /\ task.failed \in BOOLEAN
        BY <1>9 DEF HandlerCommits, TypeOK, TaskState, TaskShape, Events
    <2>2. task' \in TaskState
        BY <1>9, <2>1, NextConsumerType DEF HandlerCommits
    <2>3. recorded' \in 0 .. MaxEvents
        BY <1>9 DEF HandlerCommits
    <2>4. receipts' \in [Events -> SUBSET Consumers]
        BY <1>9, <2>1 DEF TypeOK, HandlerCommits
    <2>5. effects' \in [Events -> [Consumers -> Nat]]
        BY <1>9, <2>1 DEF TypeOK, HandlerCommits
    <2>6. QED
        BY <1>9, <2>2, <2>3, <2>4, <2>5 DEF TypeOK, HandlerCommits, relayVars
<1>10. CASE HandlerFails
    <2>1. task' \in TaskState
        <3>1. CASE task.try < MaxTries /\ task' = [task EXCEPT !.try = @ + 1, !.pc = "check"]
            <4>1. task.try + 1 \in 0 .. MaxTries
                BY <3>1 DEF TypeOK, TaskState
            <4>2. QED
                BY <3>1, <4>1 DEF TypeOK, TaskState
        <3>2. CASE task' = [task EXCEPT !.pc = "give_up"]
            BY <3>2 DEF TypeOK, TaskState
        <3>3. QED
            BY <1>10, <3>1, <3>2 DEF HandlerFails
    <2>2. QED
        BY <1>10, <2>1 DEF TypeOK, HandlerFails, relayVars
<1>11. CASE GiveUp
    <2>1. task' \in TaskState
        BY <1>11, NextConsumerType DEF GiveUp, TaskShape
    <2>2. QED
        BY <1>11, <2>1 DEF TypeOK, GiveUp, relayVars
<1>12. CASE Finish
    <2>1. task.ev \in Events /\ Outcome \in OutboxStatus
        BY <1>12 DEF Finish, TaskShape, TypeOK, Events, Outcome, OutboxStatus
    <2>2. status' \in [Events -> OutboxStatus]
        BY <1>12, <2>1 DEF TypeOK, Finish
    <2>3. log' \in Seq(Events)
        BY <1>12 DEF TypeOK, Finish, TaskShape
    <2>4. QED
        BY <1>12, <2>2, <2>3 DEF TypeOK, Finish
<1>13. CASE DispatchFails
    BY <1>13 DEF TypeOK, DispatchFails, relayVars
<1>14. CASE Crash
    BY <1>14 DEF TypeOK, Crash
<1>15. CASE UNCHANGED vars
    BY <1>15 DEF TypeOK, vars, relayVars, dispatchVars
<1>16. QED
    BY <1>1, <1>2, <1>3, <1>5, <1>6, <1>7, <1>8, <1>9, <1>10, <1>11, <1>12,
       <1>13, <1>14, <1>15 DEF Next, Relay, Consume

\* Events are never taken out of the outbox.
LEMMA RecordedGrows ==
    ASSUME TypeOK, [Next]_vars
    PROVE  recorded \in Nat /\ recorded' \in Nat /\ recorded' >= recorded
<1>1. recorded \in Nat
    BY DEF TypeOK
<1>2. CASE Emit \/ HandlerCommits
    BY <1>1, <1>2 DEF Emit, HandlerCommits
<1>3. CASE \/ RelaySelect \/ RelayCommit
           \/ \E e \in Events : \/ RelayPublish(e) \/ RelayPublishFails(e)
                                \/ BackoffExpires(e)
    BY <1>1, <1>3 DEF RelaySelect, RelayCommit, RelayPublish, RelayPublishFails,
       BackoffExpires
<1>4. CASE \/ Take \/ CheckReceipt \/ HandlerFails \/ GiveUp \/ Finish
           \/ DispatchFails \/ Crash \/ UNCHANGED vars
    <2>1. recorded' = recorded
        BY <1>4 DEF Take, CheckReceipt, HandlerFails, GiveUp, Finish,
           DispatchFails, Crash, vars
    <2>2. QED
        BY <1>1, <2>1
<1>5. QED
    BY <1>2, <1>3, <1>4 DEF Next, Relay, Consume

\* Every step of the dispatcher keeps its bookkeeping right.
LEMMA NextShape == DeliveryInv /\ [Next]_vars => TaskShape'
<1> SUFFICES ASSUME DeliveryInv, [Next]_vars PROVE TaskShape'
    OBVIOUS
<1> USE OutboxAssumption DEF DeliveryInv
<1>1. recorded' \in Nat /\ recorded \in Nat /\ recorded' >= recorded
    BY RecordedGrows
<1>2. ASSUME task' = task, log' = log PROVE TaskShape'
    BY <1>1, <1>2 DEF TaskShape
<1>3. ASSUME NEW e \in Events, RelayPublish(e) \/ RelayPublishFails(e) PROVE TaskShape'
    <2>1. task' = task /\ recorded' = recorded
        BY <1>3 DEF RelayPublish, RelayPublishFails, dispatchVars
    <2>2. log' \in {log, Append(log, e)}
        BY <1>3 DEF RelayPublish, RelayPublishFails
    <2>3. log # <<>> => log' # <<>> /\ Head(log') = Head(log)
        <3>1. CASE log' = log
            BY <3>1
        <3>2. CASE log' = Append(log, e)
            BY <3>2, AppendFacts DEF TypeOK
        <3>3. QED
            BY <2>2, <3>1, <3>2
    <2>4. QED
        BY <2>1, <2>3 DEF TaskShape
<1>4. CASE Take
    <2>1. Head(log) \in 1 .. recorded
        BY <1>4 DEF Take, TypeOK, KnownEvents, Events
    <2>2. QED
        BY <1>4, <2>1 DEF Take, TaskShape
<1>5. ASSUME task.c \in Consumers, NEW f \in BOOLEAN, task' = NextConsumer(f),
             task.pc # "idle", log' = log
      PROVE  TaskShape'
    <2>1. task'.pc = "check" /\ task'.ev = task.ev /\ task'.c = task.c + 1 /\ task'.try = 1
        BY <1>5, NextConsumerType
    <2>2. QED
        BY <1>1, <1>5, <2>1 DEF TaskShape, Consumers
<1>6. CASE CheckReceipt
    <2>1. CASE task' = NextConsumer(task.failed)
        BY <1>5, <1>6, <2>1 DEF CheckReceipt, TypeOK, TaskState
    <2>2. CASE task' = [task EXCEPT !.pc = "handle"]
        BY <1>1, <1>6, <2>2 DEF CheckReceipt, TypeOK, TaskState, TaskShape
    <2>3. QED
        BY <1>6, <2>1, <2>2 DEF CheckReceipt
<1>7. CASE HandlerCommits
    BY <1>5, <1>7 DEF HandlerCommits, TypeOK, TaskState, TaskShape
<1>8. CASE HandlerFails
    <2>1. CASE task.try < MaxTries /\ task' = [task EXCEPT !.try = @ + 1, !.pc = "check"]
        BY <1>8, <2>1 DEF HandlerFails, TypeOK, TaskState, TaskShape
    <2>2. CASE task' = [task EXCEPT !.pc = "give_up"]
        BY <1>8, <2>2 DEF HandlerFails, TypeOK, TaskState, TaskShape
    <2>3. QED
        BY <1>8, <2>1, <2>2 DEF HandlerFails
<1>9. CASE GiveUp
    BY <1>5, <1>9 DEF GiveUp, TaskShape
<1>10. CASE Finish \/ DispatchFails \/ Crash
    BY <1>10 DEF Finish, DispatchFails, Crash, TaskShape, NoTask
<1>11. CASE \/ Emit \/ RelaySelect \/ RelayCommit \/ UNCHANGED vars
            \/ \E e \in Events : BackoffExpires(e)
    BY <1>2, <1>11 DEF Emit, RelaySelect, RelayCommit, BackoffExpires, vars, dispatchVars
<1>12. QED
    BY <1>3, <1>4, <1>6, <1>7, <1>8, <1>9, <1>10, <1>11 DEF Next, Relay, Consume

\* No step locks, publishes or enqueues what was not recorded, or touches the
\* status of a locked row.
LEMMA NextKnown == DeliveryInv /\ [Next]_vars => KnownEvents'
<1> SUFFICES ASSUME DeliveryInv, [Next]_vars PROVE KnownEvents'
    OBVIOUS
<1> USE OutboxAssumption DEF DeliveryInv
<1>1. ASSUME recorded' \in Nat, recorded' >= recorded, UNCHANGED <<log, relay, status>>
      PROVE  KnownEvents'
    BY <1>1 DEF KnownEvents, TypeOK, Events
<1>2. CASE RelaySelect
    BY <1>2 DEF RelaySelect, Available, NoRelay, KnownEvents, TypeOK
<1>3. ASSUME NEW e \in Events, RelayPublish(e) \/ RelayPublishFails(e) PROVE KnownEvents'
    <2>1. e \in relay.batch /\ e <= recorded
        BY <1>3 DEF RelayPublish, RelayPublishFails, IsNext, KnownEvents
    <2>2. log' \in {log, Append(log, e)} /\ UNCHANGED <<recorded, status>>
        BY <1>3 DEF RelayPublish, RelayPublishFails
    <2>3. \A i \in 1 .. Len(log') : log'[i] <= recorded
        <3>1. CASE log' = log
            BY <3>1 DEF KnownEvents
        <3>2. CASE log' = Append(log, e)
            <4>1. Len(log) \in Nat /\ Len(log') = Len(log) + 1 /\ log'[Len(log) + 1] = e
                  /\ \A i \in 1 .. Len(log) : log'[i] = log[i]
                BY <3>2, AppendFacts DEF TypeOK
            <4>2. QED
                BY <2>1, <4>1 DEF KnownEvents
        <3>3. QED
            BY <2>2, <3>1, <3>2
    <2>4. relay'.batch = relay.batch /\ relay'.published \subseteq relay.batch
        <3>1. CASE relay' = [relay EXCEPT !.published = @ \cup {e}]
            BY <2>1, <3>1 DEF KnownEvents, TypeOK, RelayState
        <3>2. CASE relay' = [relay EXCEPT !.failed = {e}]
            BY <3>2 DEF KnownEvents, TypeOK, RelayState
        <3>3. QED
            BY <1>3, <3>1, <3>2 DEF RelayPublish, RelayPublishFails
    <2>5. QED
        BY <2>2, <2>3, <2>4 DEF KnownEvents
<1>4. CASE RelayCommit
    BY <1>4 DEF RelayCommit, NoRelay, KnownEvents
<1>5. ASSUME log' \in {log, Tail(log)}, log' # log => log # <<>>,
             UNCHANGED <<recorded, relay>>,
             \A e \in Events : status[e] = "PENDING" => status'[e] = "PENDING"
      PROVE  KnownEvents'
    <2>1. \A i \in 1 .. Len(log') : log'[i] <= recorded
        <3>1. CASE log' = log
            BY <3>1 DEF KnownEvents
        <3>2. CASE log' = Tail(log) /\ log # <<>>
            BY <3>2, TailFacts DEF KnownEvents, TypeOK
        <3>3. QED
            BY <1>5, <3>1, <3>2
    <2>2. relay.batch \subseteq Events
        BY DEF TypeOK, RelayState
    <2>3. QED
        BY <1>5, <2>1, <2>2 DEF KnownEvents
<1>6. CASE Take
    BY <1>5, <1>6 DEF Take, relayVars
<1>7. CASE Finish
    <2>1. \A e \in Events : status[e] = "PENDING" => status'[e] = "PENDING"
        BY <1>7 DEF Finish, TypeOK
    <2>2. Durable => log # <<>>
        BY <1>7 DEF Finish, TaskShape
    <2>3. QED
        BY <1>5, <1>7, <2>1, <2>2 DEF Finish
<1>8. CASE Crash
    BY <1>8 DEF Crash, NoRelay, KnownEvents
<1>9. CASE \/ CheckReceipt \/ HandlerFails \/ GiveUp \/ DispatchFails \/ UNCHANGED vars
           \/ \E e \in Events : BackoffExpires(e)
    <2>1. UNCHANGED <<log, relay, status>>
        BY <1>9 DEF CheckReceipt, HandlerFails, GiveUp, DispatchFails, BackoffExpires,
           vars, relayVars
    <2>2. QED
        BY <1>1, <2>1, RecordedGrows
<1>10. CASE Emit \/ HandlerCommits
    BY <1>1, <1>10, RecordedGrows DEF Emit, HandlerCommits, relayVars
<1>11. QED
    BY <1>2, <1>3, <1>4, <1>6, <1>7, <1>8, <1>9, <1>10 DEF Next, Relay, Consume

\* A handler commits together with its receipt and runs only without one.
LEMMA NextReceipt == DeliveryInv /\ [Next]_vars => ReceiptPerEffect'
<1> SUFFICES ASSUME DeliveryInv, [Next]_vars PROVE ReceiptPerEffect'
    OBVIOUS
<1> USE DEF DeliveryInv
<1>1. ASSUME UNCHANGED <<receipts, effects>>,
             task'.pc \in {"handle", "give_up"} => task'.c \notin receipts[task'.ev]
      PROVE  ReceiptPerEffect'
    BY <1>1 DEF ReceiptPerEffect
<1>2. CASE HandlerCommits
    <2>1. task.ev \in Events /\ task.c \in Consumers /\ task.c \notin receipts[task.ev]
          /\ task.failed \in BOOLEAN
        BY <1>2 DEF HandlerCommits, TypeOK, TaskShape, TaskState, ReceiptPerEffect, Events
    <2>2. task'.pc = "check"
        BY <1>2, <2>1, NextConsumerType DEF HandlerCommits
    <2>3. \A e \in Events, c \in Consumers :
            effects'[e][c] = IF c \in receipts'[e] THEN 1 ELSE 0
        BY <1>2, <2>1 DEF HandlerCommits, TypeOK, ReceiptPerEffect
    <2>4. QED
        BY <2>2, <2>3 DEF ReceiptPerEffect
<1>3. CASE CheckReceipt
    <2>1. CASE task.c \in receipts[task.ev]
        BY <1>1, <1>3, <2>1, NextConsumerType DEF CheckReceipt, TypeOK, TaskState
    <2>2. CASE task.c \notin receipts[task.ev]
        BY <1>1, <1>3, <2>2 DEF CheckReceipt, TypeOK, TaskState
    <2>3. QED
        BY <2>1, <2>2
<1>4. CASE HandlerFails
    <2>1. task.c \notin receipts[task.ev]
        BY <1>4 DEF HandlerFails, ReceiptPerEffect
    <2>2. task'.ev = task.ev /\ task'.c = task.c
        BY <1>4 DEF HandlerFails, TypeOK, TaskState
    <2>3. QED
        BY <1>1, <1>4, <2>1, <2>2 DEF HandlerFails
<1>5. CASE GiveUp
    BY <1>1, <1>5, NextConsumerType DEF GiveUp, TaskShape
<1>6. CASE Take \/ Finish \/ DispatchFails \/ Crash
    BY <1>1, <1>6 DEF Take, Finish, DispatchFails, Crash, NoTask
<1>7. CASE \/ Emit \/ RelaySelect \/ RelayCommit \/ UNCHANGED vars
           \/ \E e \in Events : \/ RelayPublish(e) \/ RelayPublishFails(e)
                                \/ BackoffExpires(e)
    <2>1. UNCHANGED dispatchVars
        BY <1>7 DEF Emit, RelaySelect, RelayCommit, RelayPublish, RelayPublishFails,
           BackoffExpires, vars
    <2>2. QED
        BY <1>1, <2>1 DEF dispatchVars, ReceiptPerEffect
<1>8. QED
    BY <1>2, <1>3, <1>4, <1>5, <1>6, <1>7 DEF Next, Relay, Consume

\* The dispatcher's flag stays right.
LEMMA NextHonest == DeliveryInv /\ [Next]_vars => HonestTask'
<1> SUFFICES ASSUME DeliveryInv, [Next]_vars PROVE HonestTask'
    OBVIOUS
<1> USE OutboxAssumption DEF DeliveryInv
<1>1. ASSUME task'.pc # "idle" => /\ task.pc # "idle"
                                  /\ task'.ev = task.ev
                                  /\ task'.c = task.c
                                  /\ task'.failed = task.failed,
             receipts' = receipts
      PROVE  HonestTask'
    BY <1>1 DEF HonestTask
<1>2. CASE Take
    BY <1>2 DEF Take, HonestTask, Consumers
<1>3. CASE CheckReceipt
    <2>1. CASE task.c \in receipts[task.ev]
        <3>1. /\ task'.ev = task.ev
              /\ task'.c = task.c + 1
              /\ task'.failed = task.failed
              /\ receipts' = receipts
            BY <1>3, <2>1, NextConsumerType DEF CheckReceipt, TypeOK, TaskState
        <3>2. task.c \in Consumers /\ task.pc # "idle"
            BY <1>3 DEF CheckReceipt
        <3>3. QED
            BY <2>1, <3>1, <3>2 DEF HonestTask, Consumers
    <2>2. CASE task.c \notin receipts[task.ev]
        BY <1>1, <1>3, <2>2 DEF CheckReceipt, TypeOK, TaskState
    <2>3. QED
        BY <2>1, <2>2
<1>4. CASE HandlerCommits
    <2>1. task.ev \in Events /\ task.c \in Consumers /\ task.failed \in BOOLEAN
        BY <1>4 DEF HandlerCommits, TypeOK, TaskShape, TaskState, Events
    <2>2. task'.ev = task.ev /\ task'.c = task.c + 1 /\ task'.failed = task.failed
        BY <1>4, <2>1, NextConsumerType DEF HandlerCommits
    <2>3. receipts'[task.ev] = receipts[task.ev] \cup {task.c}
        BY <1>4, <2>1 DEF HandlerCommits, TypeOK
    <2>4. task.pc # "idle"
        BY <1>4 DEF HandlerCommits
    <2>5. QED
        BY <2>1, <2>2, <2>3, <2>4 DEF HonestTask, Consumers
<1>5. CASE HandlerFails
    <2>1. task'.ev = task.ev /\ task'.c = task.c /\ task'.failed = task.failed
        BY <1>5 DEF HandlerFails, TypeOK, TaskState
    <2>2. QED
        BY <1>1, <1>5, <2>1 DEF HandlerFails
<1>6. CASE GiveUp
    <2>1. task.c \in Consumers /\ task.c \notin receipts[task.ev]
        BY <1>6 DEF GiveUp, TaskShape, ReceiptPerEffect
    <2>2. task'.ev = task.ev /\ task'.c = task.c + 1 /\ task'.failed = TRUE
        BY <1>6, <2>1, NextConsumerType DEF GiveUp
    <2>3. task.c < task'.c
        BY <2>1, <2>2 DEF Consumers
    <2>4. \E c \in Consumers : c < task'.c /\ c \notin receipts'[task'.ev]
        BY <1>6, <2>1, <2>2, <2>3 DEF GiveUp
    <2>5. QED
        BY <2>2, <2>4 DEF HonestTask
<1>7. CASE Finish \/ DispatchFails \/ Crash
    BY <1>7 DEF Finish, DispatchFails, Crash, NoTask, HonestTask
<1>8. CASE \/ Emit \/ RelaySelect \/ RelayCommit \/ UNCHANGED vars
           \/ \E e \in Events : \/ RelayPublish(e) \/ RelayPublishFails(e)
                                \/ BackoffExpires(e)
    <2>1. UNCHANGED dispatchVars
        BY <1>8 DEF Emit, RelaySelect, RelayCommit, RelayPublish, RelayPublishFails,
           BackoffExpires, vars
    <2>2. QED
        BY <1>1, <2>1 DEF dispatchVars
<1>9. QED
    BY <1>2, <1>3, <1>4, <1>5, <1>6, <1>7, <1>8 DEF Next, Relay, Consume

\* The invariant behind both theorems below.
LEMMA DeliveryInvariant == Spec => []DeliveryInv
<1>1. DeliveryInv /\ [Next]_vars => DeliveryInv'
    BY NextType, NextShape, NextKnown, NextReceipt, NextHonest DEF DeliveryInv
<1>2. QED
    BY InitDelivery, <1>1, PTL DEF Spec

\* Every variable of the pipeline keeps its type: no handler is tried more often
\* than consumer_max_attempts allows, no offset is committed past the end.
THEOREM OutboxTypes == Spec => []TypeOK
<1>1. DeliveryInv => TypeOK
    BY DEF DeliveryInv
<1>2. QED
    BY DeliveryInvariant, <1>1, PTL

--------------------------------------------------------------------------------
(* Refinement. *)

\* What the promise sees does not change.
LEMMA PromiseStutters ==
    ASSUME UNCHANGED <<recorded, effects, status>> PROVE UNCHANGED Promise!vars
BY DEF Promise!vars

\* Every step is a step of ReliableDelivery or invisible there.
LEMMA PromiseStep == DeliveryInv /\ [Next]_vars => [Promise!Next]_(Promise!vars)
<1> SUFFICES ASSUME DeliveryInv, [Next]_vars PROVE Promise!Next \/ UNCHANGED Promise!vars
    OBVIOUS
<1> USE DEF DeliveryInv
<1>1. CASE Emit
    BY <1>1 DEF Emit, relayVars, dispatchVars, Promise!Next, Promise!Record
<1>2. CASE HandlerCommits
    <2>1. task.ev \in Events /\ task.c \in Consumers /\ task.ev <= recorded
          /\ task.c \notin receipts[task.ev]
        BY <1>2, OutboxAssumption
           DEF HandlerCommits, TypeOK, TaskShape, ReceiptPerEffect, Events
    <2>2. effects[task.ev][task.c] = 0
        BY <2>1 DEF ReceiptPerEffect
    <2>3. effects' = [effects EXCEPT ![task.ev][task.c] = 1]
        BY <1>2, <2>2 DEF HandlerCommits
    <2>4. Promise!Apply(task.ev, task.c)
        BY <1>2, <2>1, <2>2, <2>3 DEF HandlerCommits, relayVars, Promise!Apply
    <2>5. QED
        BY <2>1, <2>4 DEF Promise!Next, Promise!Events, Events
<1>3. CASE Finish
    <2>1. task.ev \in Events /\ task.ev <= recorded /\ task.pc # "idle"
        BY <1>3, OutboxAssumption DEF Finish, TypeOK, TaskShape, Events
    <2>2. CASE status[task.ev] = "PUBLISHED"
        <3>1. \A c \in Consumers : c < task.c
            BY <1>3, OutboxAssumption DEF Finish, TaskShape, Consumers
        <3>2. task.failed \in BOOLEAN
            BY DEF TypeOK, TaskState
        <3>3. OutcomeOf(Outcome) =
                 IF \A c \in Consumers : effects[task.ev][c] = 1 THEN "DONE" ELSE "ABANDONED"
            BY <2>1, <3>1, <3>2 DEF OutcomeOf, Outcome, HonestTask, ReceiptPerEffect
        <3>4. status' = [status EXCEPT ![task.ev] = Outcome]
            BY <1>3, <2>2 DEF Finish
        <3>5. [e \in Events |-> OutcomeOf(status'[e])] =
                 [[e \in Events |-> OutcomeOf(status[e])] EXCEPT ![task.ev] = OutcomeOf(Outcome)]
            BY <2>1, <3>4 DEF TypeOK
        <3>6. OutcomeOf(status[task.ev]) = "OPEN"
            BY <2>2 DEF OutcomeOf
        <3>7. Promise!Conclude(task.ev)
            BY <1>3, <2>1, <3>3, <3>5, <3>6 DEF Finish, Promise!Conclude
        <3>8. QED
            BY <2>1, <3>7 DEF Promise!Next, Promise!Events, Events
    <2>3. CASE status[task.ev] # "PUBLISHED"
        BY <1>3, <2>3, PromiseStutters DEF Finish
    <2>4. QED
        BY <2>2, <2>3
<1>4. CASE RelayCommit
    <2>1. \A e \in Events : OutcomeOf(status'[e]) = OutcomeOf(status[e])
        BY <1>4 DEF RelayCommit, KnownEvents, OutcomeOf
    <2>2. QED
        BY <1>4, <2>1 DEF RelayCommit, dispatchVars, Promise!vars
<1>5. CASE \/ RelaySelect \/ Take \/ CheckReceipt \/ HandlerFails \/ GiveUp
           \/ DispatchFails \/ Crash \/ UNCHANGED vars
           \/ \E e \in Events : \/ RelayPublish(e) \/ RelayPublishFails(e)
                                \/ BackoffExpires(e)
    <2>1. UNCHANGED <<recorded, effects, status>>
        BY <1>5 DEF RelaySelect, Take, CheckReceipt, HandlerFails, GiveUp,
           DispatchFails, Crash, vars, RelayPublish, RelayPublishFails,
           BackoffExpires, relayVars, dispatchVars
    <2>2. QED
        BY <2>1, PromiseStutters
<1>6. QED
    BY <1>1, <1>2, <1>3, <1>4, <1>5 DEF Next, Relay, Consume

\* The outbox, the relay, either broker and the dispatcher implement
\* ReliableDelivery: no effect happens twice, whatever is published twice,
\* redelivered or cut short by a crash, and outcomes tell the truth.
THEOREM PipelineKeepsPromise == Spec => ImplementsPromise
<1>1. Init => Promise!Init
    BY DEF Init, Promise!Init, OutcomeOf, Events, Promise!Events
<1>2. QED
    BY <1>1, DeliveryInvariant, PromiseStep, PTL DEF Spec, ImplementsPromise, Promise!Spec

--------------------------------------------------------------------------------
(* Nothing is lost with Kafka. *)

Handled(e) == receipts[e] = Consumers

\* NoEventLost is not inductive. A consumer may give up on e while the relay
\* holds e's row unpublished, and Finish then drops e's message: nothing is lost
\* only because GiveUp waits for the row lock, so that a publish of e which the
\* relay has not committed yet came later and put a second message in the log.
KeptInv ==
    /\ \A e \in Events : status[e] = "PROCESSED" => Handled(e)
    /\ \A e \in Events :
          status[e] = "PUBLISHED" \/ e \in relay.published =>
              Handled(e) \/ e \in Range(log)
    /\ task.pc # "idle" /\ task.failed /\ task.ev \in relay.published =>
          task.ev \in Range(Tail(log))

LEMMA RangeAppend ==
    ASSUME NEW S, NEW s \in Seq(S), NEW e \in S
    PROVE  /\ Range(Append(s, e)) = Range(s) \cup {e}
           /\ s # <<>> => Range(Tail(Append(s, e))) = Range(Tail(s)) \cup {e}
<1>1. ASSUME NEW t \in Seq(S) PROVE Range(Append(t, e)) = Range(t) \cup {e}
    <2>1. Range(Append(t, e)) \subseteq Range(t) \cup {e}
        BY AppendFacts DEF Range
    <2>2. Range(t) \subseteq Range(Append(t, e))
        <3>1. ASSUME NEW i \in 1 .. Len(t) PROVE t[i] \in Range(Append(t, e))
            <4>1. i \in 1 .. Len(Append(t, e)) /\ t[i] = Append(t, e)[i]
                BY AppendFacts
            <4>2. QED
                BY <4>1 DEF Range
        <3>2. QED
            BY <3>1 DEF Range
    <2>3. e \in Range(Append(t, e))
        <3>1. Len(t) + 1 \in 1 .. Len(Append(t, e)) /\ Append(t, e)[Len(t) + 1] = e
            BY AppendFacts
        <3>2. QED
            BY <3>1 DEF Range
    <2>4. QED
        BY <2>1, <2>2, <2>3
<1>2. ASSUME s # <<>> PROVE Range(Tail(Append(s, e))) = Range(Tail(s)) \cup {e}
    <2>1. Tail(s) \in Seq(S)
        BY <1>2
    <2>2. Tail(Append(s, e)) = Append(Tail(s), e)
        BY <1>2
    <2>3. QED
        BY <1>1, <2>1, <2>2
<1>3. QED
    BY <1>1, <1>2

LEMMA RangeTail ==
    ASSUME NEW S, NEW s \in Seq(S), s # <<>>
    PROVE  Range(s) = {Head(s)} \cup Range(Tail(s))
<1>1. ASSUME NEW i \in 1 .. Len(s) PROVE s[i] = Head(s) \/ s[i] \in Range(Tail(s))
    <2>1. CASE i = 1
        BY <2>1, TailFacts
    <2>2. CASE i # 1
        <3>1. i - 1 \in 1 .. Len(Tail(s)) /\ Tail(s)[i - 1] = s[i]
            BY <2>2, TailFacts
        <3>2. QED
            BY <3>1 DEF Range
    <2>3. QED
        BY <2>1, <2>2
<1>2. ASSUME NEW i \in 1 .. Len(Tail(s)) PROVE Tail(s)[i] \in Range(s)
    <2>1. i + 1 \in 1 .. Len(s) /\ Tail(s)[i] = s[i + 1]
        BY TailFacts
    <2>2. QED
        BY <2>1 DEF Range
<1>3. Head(s) \in Range(s)
    BY TailFacts DEF Range
<1>4. QED
    BY <1>1, <1>2, <1>3 DEF Range

\* Every step keeps what is not handled yet within reach.
LEMMA NextKept ==
    ASSUME Durable PROVE DeliveryInv /\ KeptInv /\ [Next]_vars => KeptInv'
<1> SUFFICES ASSUME DeliveryInv, KeptInv, [Next]_vars PROVE KeptInv'
    OBVIOUS
<1> USE OutboxAssumption DEF DeliveryInv
<1>1. ASSUME UNCHANGED <<receipts, status, log>>,
             relay'.published \subseteq relay.published,
             task'.pc # "idle" /\ task'.failed =>
                task.pc # "idle" /\ task.failed /\ task'.ev = task.ev
      PROVE  KeptInv'
    BY <1>1 DEF KeptInv, Handled
<1>2. ASSUME NEW e \in Events, RelayPublish(e) \/ RelayPublishFails(e) PROVE KeptInv'
    <2>1. UNCHANGED <<receipts, status, task>>
        BY <1>2 DEF RelayPublish, RelayPublishFails, dispatchVars
    <2>2. relay'.published \in {relay.published, relay.published \cup {e}}
        BY <1>2 DEF RelayPublish, RelayPublishFails, TypeOK, RelayState
    <2>3. CASE log' = log
        <3>1. log # Append(log, e)
            BY AppendFacts DEF TypeOK
        <3>2. relay'.published = relay.published
            BY <1>2, <2>3, <3>1 DEF RelayPublish, RelayPublishFails, TypeOK, RelayState
        <3>3. QED
            BY <1>1, <2>1, <2>3, <3>2
    <2>4. CASE log' = Append(log, e)
        <3>1. Range(log') = Range(log) \cup {e}
            BY <2>4, RangeAppend DEF TypeOK
        <3>2. log # <<>> => Range(Tail(log')) = Range(Tail(log)) \cup {e}
            BY <2>4, RangeAppend DEF TypeOK
        <3>3. task.pc # "idle" => log # <<>>
            BY DEF TaskShape
        <3>4. QED
            BY <2>1, <2>2, <3>1, <3>2, <3>3 DEF KeptInv, Handled
    <2>5. QED
        BY <1>2, <2>3, <2>4 DEF RelayPublish, RelayPublishFails
<1>3. CASE RelayCommit
    <2>1. relay'.published = {} /\ UNCHANGED <<receipts, log, task>>
        BY <1>3 DEF RelayCommit, NoRelay, dispatchVars
    <2>2. \A e \in Events :
            \/ status'[e] = status[e]
            \/ e \in relay.published /\ status'[e] = "PUBLISHED"
        BY <1>3 DEF RelayCommit
    <2>3. QED
        BY <2>1, <2>2 DEF KeptInv, Handled
<1>4. CASE HandlerCommits
    <2>1. task.ev \in Events /\ task.c \in Consumers /\ task.failed \in BOOLEAN
        BY <1>4 DEF HandlerCommits, TypeOK, TaskShape, TaskState, Events
    <2>2. task'.ev = task.ev /\ task'.failed = task.failed /\ task.pc # "idle"
        BY <1>4, <2>1, NextConsumerType DEF HandlerCommits
    <2>3. \A e \in Events : Handled(e) => receipts'[e] = Consumers
        BY <1>4, <2>1 DEF HandlerCommits, Handled, TypeOK
    <2>4. UNCHANGED <<status, relay, log>>
        BY <1>4 DEF HandlerCommits, relayVars
    <2>5. QED
        BY <2>2, <2>3, <2>4 DEF KeptInv, Handled
<1>5. CASE GiveUp
    <2>1. task.c \in Consumers
        BY <1>5 DEF GiveUp, TaskShape
    <2>2. task'.ev = task.ev
        BY <1>5, <2>1, NextConsumerType DEF GiveUp
    <2>3. task.ev \notin relay.published
        BY <1>5 DEF GiveUp, KnownEvents
    <2>4. UNCHANGED <<receipts, status, relay, log>>
        BY <1>5 DEF GiveUp, relayVars
    <2>5. QED
        BY <2>2, <2>3, <2>4 DEF KeptInv, Handled
<1>6. CASE Finish
    <2>1. task.pc # "idle" /\ task.ev \in Events /\ task.failed \in BOOLEAN
        BY <1>6 DEF Finish, TypeOK, TaskShape, TaskState, Events
    <2>2. \A c \in Consumers : c < task.c
        BY <1>6 DEF Finish, TaskShape, Consumers
    <2>3. ~ task.failed => Handled(task.ev)
        BY <2>1, <2>2 DEF HonestTask, Handled, TypeOK
    <2>4. log # <<>> /\ Head(log) = task.ev /\ log' = Tail(log)
        BY <1>6, <2>1 DEF Finish, TaskShape
    <2>5. Range(log) = {task.ev} \cup Range(log')
        BY <2>4, RangeTail DEF TypeOK
    <2>6. \A e \in Events : e # task.ev => status'[e] = status[e]
        BY <1>6, <2>1 DEF Finish, TypeOK
    <2>7. status'[task.ev] = "PROCESSED" => Handled(task.ev)
        <3>1. CASE status[task.ev] = "PUBLISHED"
            BY <1>6, <2>1, <2>3, <3>1 DEF Finish, TypeOK, Outcome
        <3>2. CASE status[task.ev] # "PUBLISHED"
            BY <1>6, <2>1, <3>2 DEF Finish, KeptInv
        <3>3. QED
            BY <3>1, <3>2
    <2>8. status'[task.ev] # "PUBLISHED"
        BY <1>6, <2>1 DEF Finish, TypeOK, Outcome
    <2>9. task.ev \in relay.published => Handled(task.ev) \/ task.ev \in Range(log')
        BY <2>1, <2>3, <2>4 DEF KeptInv
    <2>10. UNCHANGED <<receipts, relay>> /\ task'.pc = "idle"
        BY <1>6 DEF Finish, NoTask
    <2>11. QED
        BY <2>5, <2>6, <2>7, <2>8, <2>9, <2>10 DEF KeptInv, Handled
<1>7. CASE RelaySelect
    BY <1>1, <1>7 DEF RelaySelect, NoRelay, dispatchVars
<1>8. CASE CheckReceipt
    <2>1. task'.ev = task.ev /\ task'.failed = task.failed /\ task.pc # "idle"
        <3>1. CASE task.c \in receipts[task.ev]
            BY <1>8, <3>1, NextConsumerType DEF CheckReceipt, TypeOK, TaskState
        <3>2. CASE task.c \notin receipts[task.ev]
            BY <1>8, <3>2 DEF CheckReceipt, TypeOK, TaskState
        <3>3. QED
            BY <3>1, <3>2
    <2>2. QED
        BY <1>1, <1>8, <2>1 DEF CheckReceipt, relayVars
<1>9. CASE HandlerFails
    <2>1. task'.ev = task.ev /\ task'.failed = task.failed /\ task.pc # "idle"
        BY <1>9 DEF HandlerFails, TypeOK, TaskState
    <2>2. QED
        BY <1>1, <1>9, <2>1 DEF HandlerFails, relayVars
<1>10. CASE Take
    BY <1>1, <1>10 DEF Take, relayVars
<1>11. CASE DispatchFails \/ Crash
    BY <1>1, <1>11 DEF DispatchFails, Crash, NoTask, NoRelay, relayVars
<1>12. CASE Emit \/ UNCHANGED vars \/ \E e \in Events : BackoffExpires(e)
    BY <1>1, <1>12 DEF Emit, BackoffExpires, vars, relayVars, dispatchVars
<1>13. QED
    BY <1>2, <1>3, <1>4, <1>5, <1>6, <1>7, <1>8, <1>9, <1>10, <1>11, <1>12
       DEF Next, Relay, Consume

\* With Kafka delivery is at least once: whatever crashes, fails or is published
\* twice, an event that some consumer has not handled is still pending, with the
\* broker, being dispatched or dead-lettered.
THEOREM NothingLost == ASSUME Durable PROVE Spec => []NoEventLost
<1>1. Init => KeptInv
    BY DEF Init, KeptInv, NoRelay, NoTask
<1>2. DeliveryInv /\ KeptInv => NoEventLost
    <2> SUFFICES ASSUME DeliveryInv, KeptInv, NEW e \in 1 .. recorded
                 PROVE  \/ receipts[e] = Consumers \/ e \in Range(log)
                        \/ status[e] \in {"PENDING", "FAILED"}
        BY DEF NoEventLost
    <2>1. e \in Events
        BY OutboxAssumption DEF DeliveryInv, TypeOK, Events
    <2>2. status[e] \in OutboxStatus
        BY <2>1 DEF DeliveryInv, TypeOK
    <2>3. QED
        BY <2>1, <2>2 DEF KeptInv, Handled, OutboxStatus
<1>3. QED
    BY <1>1, <1>2, DeliveryInvariant, NextKept, PTL DEF Spec
================================================================================
