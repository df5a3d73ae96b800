--------------------------- MODULE StateProjector ---------------------------
(***************************************************************************)
(* StateProjector (src/debug/stateProjector.ts): how the messages of a     *)
(* debug adapter move the projected state of its session.  The modules     *)
(* that keep a session's state share these operators.                      *)
(*                                                                         *)
(* A state is [phase, gen]: the generation tells one stop of the program   *)
(* from the next, and everything that outlives an await compares both.     *)
(* Reason and thread are payload of the stopped phase and are left out, as *)
(* is eventSequence, which snapshot() always brings up to the cursor.      *)
(***************************************************************************)
EXTENDS Naturals

Phases == {"starting", "running", "stopped", "reloading", "terminated"}

\* What the tracker may hand over: a successful attach response, the DAP
\* events, the two console lines that announce a domain reload, and anything
\* else (bad bodies, failed responses, unknown events).
Messages == {"attached", "stopped", "continued", "terminated",
             "reloadDetected", "reloadComplete", "output", "breakpoint",
             "other"}

ProjectedKinds == {"stopped", "continued", "reload-started",
                   "reload-completed", "terminated"}

Kinds == ProjectedKinds \cup {"breakpoint", "reload-progress", "output"}

Starting == [phase |-> "starting", gen |-> 0]

\* The kind of the event that message m projects to in state s, or "none".
ProjectedKind(s, m) ==
    CASE m = "stopped" /\ s.phase \in {"starting", "running", "stopped"}
           -> "stopped"
      [] m = "continued" /\ s.phase = "stopped" -> "continued"
      [] m = "terminated" /\ s.phase # "terminated" -> "terminated"
      [] m = "reloadDetected" /\ s.phase = "running" -> "reload-started"
      [] m = "reloadComplete" /\ s.phase = "reloading" -> "reload-completed"
      [] OTHER -> "none"

PhaseAfter(kind) ==
    CASE kind = "stopped" -> "stopped"
      [] kind \in {"continued", "reload-completed"} -> "running"
      [] kind = "reload-started" -> "reloading"
      [] kind = "terminated" -> "terminated"

\* Fault: a completed reload keeps the generation.
GenerationStepAcrossReload(s, kind) ==
    CASE kind \in {"stopped", "continued"} -> 1
      [] kind = "terminated" /\ s.phase \in {"stopped", "reloading"} -> 1
      [] OTHER -> 0

\* How many generations a transition out of state s ends.
GenerationStep(s, kind) ==
    CASE kind \in {"stopped", "continued", "reload-completed"} -> 1
      [] kind = "terminated" /\ s.phase \in {"stopped", "reloading"} -> 1
      [] OTHER -> 0

\* A successful attach response starts the session without an event.
AcceptAttached(s) == [s EXCEPT !.phase = "running"]

Transition(s, kind) == [phase |-> PhaseAfter(kind),
                        gen |-> s.gen + GenerationStep(s, kind)]

\* The state that message m leaves behind.
Project(s, m) ==
    IF ProjectedKind(s, m) # "none" THEN Transition(s, ProjectedKind(s, m))
    ELSE IF m = "attached" /\ s.phase = "starting" THEN AcceptAttached(s)
    ELSE s

-----------------------------------------------------------------------------
(* The order in which a session's states may follow one another.           *)

Rank(phase) == CASE phase = "starting" -> 0
                 [] phase = "running" -> 1
                 [] phase \in {"stopped", "reloading"} -> 2
                 [] phase = "terminated" -> 3

\* State t comes after state s: a later generation, or a later phase of the
\* same one.  The order is strict, so a state that was left never returns.
After(t, s) ==
    \/ t.gen > s.gen
    \/ t.gen = s.gen /\ Rank(t.phase) > Rank(s.phase)
=============================================================================
