--------------------------- MODULE MCBreakpoints ---------------------------
(* A small instance of Breakpoints, and so of Activation, for TLC.         *)
EXTENDS Breakpoints
=============================================================================
