---------------------------- MODULE MCInspection ----------------------------
(* A small instance of Inspection for TLC.                                 *)
EXTENDS Inspection, TLC

\* Calls are interchangeable (safety runs only).
CallSymmetry == Permutations(Commands)
=============================================================================
