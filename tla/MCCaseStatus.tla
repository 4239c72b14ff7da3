------------------------------ MODULE MCCaseStatus ------------------------------
(* A small instance of CaseStatus; the clients are interchangeable. *)
EXTENDS CaseStatus, TLC

Symmetry == Permutations(Clients)
================================================================================
