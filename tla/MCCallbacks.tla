------------------------------ MODULE MCCallbacks ------------------------------
(* Instances of Callbacks for TLC. *)
EXTENDS Callbacks, TLC

\* Callbacks are alike, and so are clients.
Symmetry == Permutations(Callbacks) \cup Permutations(Clients)
================================================================================
