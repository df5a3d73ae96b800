----------------------------- MODULE MCTargets -----------------------------
(* A small instance of Targets for TLC, and with it the assumptions of     *)
(* MCResultBudget, whose result list_targets returns.                      *)
EXTENDS Targets, MCResultBudget, TLC

CONSTANT r1

\* Both editors have the same project open.
OneRoot == [e \in Editors |-> r1]

\* Calls, clients, editors and sessions are interchangeable (safety only).
Symmetry == Permutations(Calls) \cup Permutations(Clients)
            \cup Permutations(Editors) \cup Permutations(Sessions)
=============================================================================
