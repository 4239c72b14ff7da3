--------------------------- MODULE ReliableDelivery ---------------------------
(***************************************************************************)
(* What the event pipeline promises (events/consumers.py, models/outbox.py)*)
(* without its outbox table, broker, receipts and crashes: an event is     *)
(* recorded, has its effect through each of its consumers once, and its    *)
(* outcome tells the truth: DONE when every consumer had its effect,       *)
(* ABANDONED when one had not.                                             *)
(***************************************************************************)
EXTENDS Naturals

CONSTANTS
    Consumers,  \* the consumers registered for the events
    MaxEvents   \* bound: events recorded

VARIABLES
    recorded,   \* events 1 .. recorded exist
    effects,    \* effects[e][c]: how often event e had its effect through c
    outcome     \* outcome[e]

vars == <<recorded, effects, outcome>>

Events == 1 .. MaxEvents

Init ==
    /\ recorded = 0
    /\ effects = [e \in Events |-> [c \in Consumers |-> 0]]
    /\ outcome = [e \in Events |-> "OPEN"]

Record ==
    /\ recorded < MaxEvents
    /\ recorded' = recorded + 1
    /\ UNCHANGED <<effects, outcome>>

\* An effect may record one more event.
Apply(e, c) ==
    /\ e <= recorded
    /\ effects[e][c] = 0
    /\ effects' = [effects EXCEPT ![e][c] = 1]
    /\ recorded' \in {recorded, recorded + 1} \cap (0 .. MaxEvents)
    /\ UNCHANGED outcome

Conclude(e) ==
    /\ e <= recorded
    /\ outcome[e] = "OPEN"
    /\ outcome' = [outcome EXCEPT ![e] =
          IF \A c \in Consumers : effects[e][c] = 1 THEN "DONE" ELSE "ABANDONED"]
    /\ UNCHANGED <<recorded, effects>>

Next ==
    \/ Record
    \/ \E e \in Events : Conclude(e) \/ \E c \in Consumers : Apply(e, c)

Spec == Init /\ [][Next]_vars
================================================================================
