--------------------------- MODULE MCCommandQueue ---------------------------
(* The instance of CommandQueue for TLC; it extends the proofs so that TLC *)
(* evaluates what they assume of the constants.                            *)
EXTENDS CommandQueueProofs
=============================================================================
