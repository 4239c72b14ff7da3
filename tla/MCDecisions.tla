------------------------------ MODULE MCDecisions ------------------------------
\* Decisions for TLC: the clients are alike.
EXTENDS Decisions, TLC

Symmetry == Permutations(Clients)
================================================================================
