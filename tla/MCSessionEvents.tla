--------------------------- MODULE MCSessionEvents ---------------------------
(* A small instance of SessionEvents for TLC.                              *)
EXTENDS SessionEvents

\* No filter, a control filter and an output filter.
SomeFilters == {Kinds, {"stopped", "terminated"}, {"output"}}
=============================================================================
