--------------------------- MODULE MCClientConfig ---------------------------
(* A small instance of ClientConfig for TLC.                               *)
EXTENDS ClientConfig, TLC

\* Commands are interchangeable.
CommandSymmetry == Permutations(Commands)
=============================================================================
