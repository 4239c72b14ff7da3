----------------------------- MODULE CasePromise -----------------------------
(***************************************************************************)
(* What a case promises, without its requests, events, retries, polls,     *)
(* documents and crashes (workflows/state_machine.py, services/            *)
(* graph_service.py, services/approval_service.py): a node starts once and *)
(* after everything it depends on, an authority comes to hold a filing only *)
(* where an officer granted one, and a node finishes only by the parent's  *)
(* report or by what its authority confirmed. Nothing is taken back but    *)
(* what the authority itself loses.                                        *)
(***************************************************************************)
EXTENDS Naturals

CONSTANTS
    Nodes,      \* the nodes of the case
    Reported,   \* the nodes whose end the parent reports
    Deps,       \* Deps[n]: the nodes n depends on
    InOrder     \* no node is started but by its dependencies being done

VARIABLES
    started,    \* the nodes that have started
    granted,    \* granted[n]: how many filings of n officers granted
    held,       \* <<n, k>>: an authority holds the k-th filing of n
    confirmed,  \* the nodes of which an authority confirmed a filing
    done        \* the nodes that have finished

vars == <<started, granted, held, confirmed, done>>

Init ==
    /\ started = {}
    /\ granted = [n \in Nodes |-> 0]
    /\ held = {}
    /\ confirmed = {}
    /\ done = {}

Start(S) ==
    /\ S # {}
    /\ S \cap started = {}
    /\ InOrder => \A n \in S : Deps[n] \subseteq done
    /\ started' = started \cup S
    /\ UNCHANGED <<granted, held, confirmed, done>>

Grant(n) ==
    /\ n \in started \ done
    /\ granted' = [granted EXCEPT ![n] = @ + 1]
    /\ UNCHANGED <<started, held, confirmed, done>>

File(n, k) ==
    /\ k \in 1 .. granted[n]
    /\ held' = held \cup {<<n, k>>}
    /\ UNCHANGED <<started, granted, confirmed, done>>

Lose(n, k) ==
    /\ <<n, k>> \in held
    /\ held' = held \ {<<n, k>>}
    /\ UNCHANGED <<started, granted, confirmed, done>>

\* The authority confirms a filing it holds, or is told of while it decides.
Confirm(n, k) ==
    /\ k \in 1 .. granted[n]
    /\ held' = held \cup {<<n, k>>}
    /\ confirmed' = confirmed \cup {n}
    /\ UNCHANGED <<started, granted, done>>

Finish(n) ==
    /\ n \in started
    /\ n \in Reported \cup confirmed
    /\ done' = done \cup {n}
    /\ UNCHANGED <<started, granted, held, confirmed>>

Next ==
    \/ \E S \in SUBSET Nodes : Start(S)
    \/ \E n \in Nodes :
          \/ Grant(n) \/ Finish(n)
          \/ \E k \in 1 .. granted[n] : File(n, k) \/ Lose(n, k) \/ Confirm(n, k)

Spec == Init /\ [][Next]_vars
================================================================================
