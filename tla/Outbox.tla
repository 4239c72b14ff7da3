-------------------------------- MODULE Outbox --------------------------------
(***************************************************************************)
(* The event pipeline: transactional outbox, relay, broker, dispatcher     *)
(* with consumer receipts, dead letters, crashes and restarts.             *)
(*                                                                         *)
(* The events are those of one case on one topic, numbered in the order    *)
(* their transactions commit. A transaction is one action; the relay holds *)
(* one transaction over a whole batch of publishes, so it takes several,   *)
(* with the row locks of its batch held in between.                        *)
(*                                                                         *)
(* The relay's limit of 100 rows is not reached; the audit copy, which no  *)
(* consumer takes, appears only in how a publish can fail; metrics, error  *)
(* texts and wake-ups are left out.                                        *)
(***************************************************************************)
EXTENDS Naturals, Sequences

CONSTANTS
    MaxEvents,    \* bound: events recorded
    NumConsumers, \* registrations for the events, run in this order
    MaxTries,     \* Settings.consumer_max_attempts
    Durable,      \* TRUE: Kafka, FALSE: the in-memory broker
    MaxLog,       \* bound: messages in the broker
    MaxFaults     \* bound: crashes and failed dispatches

ASSUME OutboxAssumption ==
    /\ MaxEvents \in Nat
    /\ NumConsumers \in Nat
    /\ MaxTries \in Nat \ {0}
    /\ Durable \in BOOLEAN
    /\ MaxLog \in Nat
    /\ MaxFaults \in Nat

VARIABLES
    recorded,  \* events 1 .. recorded are in the outbox table
    status,    \* status[e]: the outbox row's status
    waiting,   \* the events whose available_at lies in the future
    relay,     \* the relay's transaction: its locked batch, what it published
    log,       \* messages of the broker that are not acknowledged
    task,      \* the message being dispatched
    receipts,  \* receipts[e]: the consumers with a receipt for e
    effects,   \* history: effects[e][c], commits of handler c for e
    faults     \* crashes and failed dispatches so far

relayVars    == <<status, waiting, relay>>
dispatchVars == <<task, receipts, effects>>
vars == <<recorded, relayVars, log, dispatchVars, faults>>

Events      == 1 .. MaxEvents
Consumers   == 1 .. NumConsumers
OutboxStatus == {"PENDING", "PUBLISHED", "PROCESSED", "FAILED"}

NoRelay == [batch |-> {}, published |-> {}, failed |-> {}]
NoTask  == [ev |-> 0, c |-> 0, try |-> 0, failed |-> FALSE, pc |-> "idle"]

Range(s) == {s[i] : i \in 1 .. Len(s)}

Init ==
    /\ recorded = 0
    /\ status = [e \in Events |-> "PENDING"]
    /\ waiting = {}
    /\ relay = NoRelay
    /\ log = <<>>
    /\ task = NoTask
    /\ receipts = [e \in Events |-> {}]
    /\ effects = [e \in Events |-> [c \in Consumers |-> 0]]
    /\ faults = 0

--------------------------------------------------------------------------------
(* EventRecorder.emit in a transaction of the API or of a job. *)

Emit ==
    /\ recorded < MaxEvents
    /\ recorded' = recorded + 1
    /\ UNCHANGED <<relayVars, log, dispatchVars, faults>>

--------------------------------------------------------------------------------
(* relay_once. *)

Available == {e \in 1 .. recorded : status[e] = "PENDING"} \ waiting

\* SELECT ... FOR UPDATE: the rows that are pending and due.
RelaySelect ==
    /\ relay = NoRelay
    /\ Available # {}
    /\ relay' = [NoRelay EXCEPT !.batch = Available]
    /\ UNCHANGED <<recorded, status, waiting, log, dispatchVars, faults>>

\* The first event of the batch, in creation order, that was not published yet.
IsNext(e) ==
    /\ relay.failed = {}
    /\ e \in relay.batch \ relay.published
    /\ \A d \in relay.batch \ relay.published : e <= d

RelayPublish(e) ==
    /\ IsNext(e)
    /\ Len(log) < MaxLog
    /\ log' = Append(log, e)
    /\ relay' = [relay EXCEPT !.published = @ \cup {e}]
    /\ UNCHANGED <<recorded, status, waiting, dispatchVars, faults>>

\* BrokerUnavailable ends the batch. The message may have reached the broker all
\* the same: the send timed out, or only the audit copy failed.
RelayPublishFails(e) ==
    /\ IsNext(e)
    /\ \/ log' = log
       \/ Len(log) < MaxLog /\ log' = Append(log, e)
    /\ relay' = [relay EXCEPT !.failed = {e}]
    /\ UNCHANGED <<recorded, status, waiting, dispatchVars, faults>>

RelayCommit ==
    /\ relay # NoRelay
    /\ relay.failed # {} \/ relay.published = relay.batch
    /\ status' = [e \in Events |->
                     IF e \in relay.published THEN "PUBLISHED" ELSE status[e]]
    /\ waiting' = waiting \cup relay.failed
    /\ relay' = NoRelay
    /\ UNCHANGED <<recorded, log, dispatchVars, faults>>

BackoffExpires(e) ==
    /\ e \in waiting
    /\ waiting' = waiting \ {e}
    /\ UNCHANGED <<recorded, status, relay, log, dispatchVars, faults>>

--------------------------------------------------------------------------------
(* The consumer loop, dispatch and _run. *)

\* Mutant: the offset is committed before the message is dispatched.
TakeCommitting ==
    /\ task = NoTask
    /\ log # <<>>
    /\ task' = [ev |-> Head(log), c |-> 1, try |-> 1, failed |-> FALSE, pc |-> "check"]
    /\ log' = Tail(log)
    /\ UNCHANGED <<recorded, relayVars, receipts, effects, faults>>

\* Kafka keeps the message until the offset is committed; the queue does not.
Take ==
    /\ task = NoTask
    /\ log # <<>>
    /\ task' = [ev |-> Head(log), c |-> 1, try |-> 1, failed |-> FALSE, pc |-> "check"]
    /\ log' = IF Durable THEN log ELSE Tail(log)
    /\ UNCHANGED <<recorded, relayVars, receipts, effects, faults>>

NextConsumer(failed) ==
    [task EXCEPT !.c = @ + 1, !.try = 1, !.failed = failed, !.pc = "check"]

\* Mutant: the receipt is not looked up.
CheckNothing ==
    /\ task.pc = "check"
    /\ task.c \in Consumers
    /\ task' = [task EXCEPT !.pc = "handle"]
    /\ UNCHANGED <<recorded, relayVars, log, receipts, effects, faults>>

\* A consumer with a receipt is passed over, any other one's handler starts.
CheckReceipt ==
    /\ task.pc = "check"
    /\ task.c \in Consumers
    /\ task' = IF task.c \in receipts[task.ev] THEN NextConsumer(task.failed)
               ELSE [task EXCEPT !.pc = "handle"]
    /\ UNCHANGED <<recorded, relayVars, log, receipts, effects, faults>>

\* The handler's changes, an event it may emit and the receipt in one commit.
HandlerCommits ==
    /\ task.pc = "handle"
    /\ receipts' = [receipts EXCEPT ![task.ev] = @ \cup {task.c}]
    /\ effects' = [effects EXCEPT ![task.ev][task.c] = @ + 1]
    /\ recorded' \in {recorded, recorded + 1} \cap (0 .. MaxEvents)
    /\ task' = NextConsumer(task.failed)
    /\ UNCHANGED <<relayVars, log, faults>>

\* Mutant: one try too many.
HandlerFailsOnceMore ==
    /\ task.pc = "handle"
    /\ task' = IF task.try <= MaxTries
               THEN [task EXCEPT !.try = @ + 1, !.pc = "check"]
               ELSE [task EXCEPT !.pc = "give_up"]
    /\ UNCHANGED <<recorded, relayVars, log, receipts, effects, faults>>

\* Mutant: a handler that fails is run again for ever.
HandlerFailsForever ==
    /\ task.pc = "handle"
    /\ task' = [task EXCEPT !.pc = "check"]
    /\ UNCHANGED <<recorded, relayVars, log, receipts, effects, faults>>

\* The handler raises: again, or give up after the last try.
HandlerFails ==
    /\ task.pc = "handle"
    /\ task' = IF task.try < MaxTries
               THEN [task EXCEPT !.try = @ + 1, !.pc = "check"]
               ELSE [task EXCEPT !.pc = "give_up"]
    /\ UNCHANGED <<recorded, relayVars, log, receipts, effects, faults>>

\* The error is written to the outbox row, which waits for the relay's row lock.
GiveUp ==
    /\ task.pc = "give_up"
    /\ task.ev \notin relay.batch
    /\ task' = NextConsumer(TRUE)
    /\ UNCHANGED <<recorded, relayVars, log, receipts, effects, faults>>

Outcome == IF task.failed THEN "FAILED" ELSE "PROCESSED"

\* Only a row that is PUBLISHED by now is marked (the WHERE of the UPDATE).
Finish ==
    /\ task.pc = "check"
    /\ task.c \notin Consumers
    /\ status' = IF status[task.ev] = "PUBLISHED"
                 THEN [status EXCEPT ![task.ev] = Outcome] ELSE status
    /\ log' = IF Durable THEN Tail(log) ELSE log
    /\ task' = NoTask
    /\ UNCHANGED <<recorded, waiting, relay, receipts, effects, faults>>

\* The database fails while an error or the outcome is written: dispatch raises
\* and the loop starts a new consumer.
DispatchFails ==
    /\ \/ task.pc = "give_up"
       \/ task.pc = "check" /\ task.c \notin Consumers
    /\ faults < MaxFaults
    /\ faults' = faults + 1
    /\ task' = NoTask
    /\ UNCHANGED <<recorded, relayVars, log, receipts, effects>>

\* The process dies and starts again: open transactions are undone, the
\* in-memory queue is gone.
Crash ==
    /\ faults < MaxFaults
    /\ faults' = faults + 1
    /\ task' = NoTask
    /\ relay' = NoRelay
    /\ log' = IF Durable THEN log ELSE <<>>
    /\ UNCHANGED <<recorded, status, waiting, receipts, effects>>

--------------------------------------------------------------------------------

Relay ==
    \/ RelaySelect \/ RelayCommit
    \/ \E e \in Events : RelayPublish(e) \/ RelayPublishFails(e)

Consume ==
    \/ Take \/ CheckReceipt \/ HandlerCommits \/ HandlerFails \/ GiveUp \/ Finish

Next ==
    \/ Emit \/ Relay \/ Consume
    \/ \E e \in Events : BackoffExpires(e)
    \/ DispatchFails \/ Crash

Spec == Init /\ [][Next]_vars

(***************************************************************************)
(* Fairness. The relay and the consumer loop run for ever (runner.py), the *)
(* back-off is at most 30 seconds, who waits for a row lock gets it in     *)
(* turn, and a broker that is down comes back: a publish that keeps being  *)
(* tried succeeds at last.                                                 *)
(***************************************************************************)
FairSpec ==
    /\ Spec
    /\ WF_vars(Relay)
    /\ WF_vars(Consume)
    /\ SF_vars(GiveUp)
    /\ \A e \in Events : WF_vars(BackoffExpires(e)) /\ SF_vars(RelayPublish(e))

--------------------------------------------------------------------------------
RelayState ==
    [batch : SUBSET Events, published : SUBSET Events, failed : SUBSET Events]

TaskState ==
    [ev : 0 .. MaxEvents, c : 0 .. NumConsumers + 1, try : 0 .. MaxTries,
     failed : BOOLEAN, pc : {"idle", "check", "handle", "give_up"}]

TypeOK ==
    /\ recorded \in 0 .. MaxEvents
    /\ status \in [Events -> OutboxStatus]
    /\ waiting \subseteq Events
    /\ relay \in RelayState
    /\ log \in Seq(Events)
    /\ task \in TaskState
    /\ receipts \in [Events -> SUBSET Consumers]
    /\ effects \in [Events -> [Consumers -> Nat]]
    /\ faults \in 0 .. MaxFaults

OutcomeOf(s) ==
    IF s = "PROCESSED" THEN "DONE" ELSE IF s = "FAILED" THEN "ABANDONED" ELSE "OPEN"

Promise == INSTANCE ReliableDelivery WITH
    outcome <- [e \in Events |-> OutcomeOf(status[e])]

\* The pipeline implements ReliableDelivery: redelivery, duplicate publishes and
\* restarts never run a handler's effect twice, and an event is concluded
\* PROCESSED or FAILED according to what its consumers did.
ImplementsPromise == Promise!Spec

\* At-least-once: an event that some consumer did not handle is still to be
\* published, still with the broker or being dispatched, or dead-lettered.
NoEventLost ==
    \A e \in 1 .. recorded, c \in Consumers :
        \/ c \in receipts[e]
        \/ status[e] \in {"PENDING", "FAILED"}
        \/ e \in Range(log)
        \/ task.ev = e

\* Every recorded event is handled by every consumer or dead-lettered.
EveryEventHandled ==
    \A e \in Events :
        e <= recorded ~> (receipts[e] = Consumers \/ status[e] = "FAILED")
================================================================================
