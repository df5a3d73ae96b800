-------------------------- MODULE InspectionProofs --------------------------
(***************************************************************************)
(* Proofs about Inspection, for any set of calls, any session and any      *)
(* bound on the generations.                                               *)
(***************************************************************************)
EXTENDS Inspection, SequenceTheorems, TLAPS

-----------------------------------------------------------------------------
(* The invariant.                                                          *)

States == [phase : Phases, gen : Nat]

\* The handler of c awaits an answer of the adapter.
Active(c) == step[c] \in {"inspect", "choose", "control"}

\* The types of what TypeOK leaves out.
DataInv ==
    /\ mode \in [Commands -> Modes] /\ target \in [Commands -> Sessions]
    /\ ticket \in [Commands -> Nat] /\ lastTicket \in Nat
    /\ settled \subseteq Commands
    /\ context \in [Commands -> States]
    /\ gathered \in [Commands -> Seq(Nat)]
    /\ outcome \in [Commands -> {"none", "ok", "error", "cancelled"}]

\* Handlers and queue: a call that awaits an answer is granted.
QueueInv ==
    /\ \A c \in Commands : ticket[c] <= lastTicket
    /\ \A c, d \in Commands : Arrived(c) /\ ticket[c] = ticket[d] => c = d
    /\ \A c \in Commands : step[c] = "idle" <=> ~Arrived(c)
    /\ \A c \in Commands : step[c] = "done" <=> c \in settled
    /\ \A c \in Commands : Active(c) => Granted(c)
    /\ \A c \in Commands : mode[c] = "read" <=> tool[c] \in Reads

\* What a handler has captured and gathered.
HandlerInv ==
    /\ \A c \in Commands : step[c] = "inspect" =>
         /\ tool[c] \notin Controls /\ context[c].phase = "stopped"
         /\ \A i \in 1..Len(gathered[c]) : gathered[c][i] = context[c].gen
    /\ \A c \in Commands : step[c] \in {"choose", "control"} =>
         tool[c] \in Controls /\ context[c].phase = PhaseFor(c)
    /\ \A c \in Commands : step[c] \in {"idle", "queued"} => gathered[c] = <<>>
    /\ \A c \in Commands : outcome[c] # "none" => step[c] = "done"
    /\ ResultsAreCoherent

\* The request a handler awaits was asked in the generation it has captured.
FlightInv ==
    \A c \in Commands : Active(c) =>
      asked[c] = context[c].gen /\ asked[c] <= state.gen

\* A transition is that of the only control under way, and a stop that a
\* resume has ended has one.
TransitionInv ==
    /\ TransitionsAreEarned
    /\ transition # None =>
         /\ step[transition.token] = "control" =>
              transition.left = context[transition.token]
         /\ transition.left.phase = "stopped" => transition.left.gen \in resumed
    /\ \A c \in Commands : step[c] = "control" =>
         transition = None \/ transition.token = c
    /\ present /\ state.phase = "stopped" /\ state.gen \in resumed =>
         transition # None
    /\ \A g \in resumed : g <= state.gen

\* References are those of the state last synchronised with.
ReferenceInv ==
    /\ observed \in {None, state}
    /\ \A r \in references :
         /\ present /\ state.phase = "stopped" /\ generation[r] = state.gen
         /\ state.gen \notin resumed
    /\ references # {} => observed # None
    /\ NoInspectionAfterResume

Inv ==
    /\ TypeOK /\ DataInv /\ QueueInv /\ HandlerInv /\ FlightInv
    /\ TransitionInv /\ ReferenceInv

-----------------------------------------------------------------------------
(* What a message does to a projected state.                               *)

\* A transition changes the generation by what GenerationStep says.
LEMMA TransitionResult ==
    ASSUME NEW s \in States, NEW kind \in ProjectedKinds
    PROVE  /\ Transition(s, kind) \in States
           /\ Transition(s, kind).gen >= s.gen
           /\ Transition(s, kind).phase = "stopped" =>
                Transition(s, kind).gen = s.gen + 1
<1>1. PhaseAfter(kind) \in Phases /\ (PhaseAfter(kind) = "stopped" => kind = "stopped")
  BY DEF PhaseAfter, ProjectedKinds, Phases
<1>2. GenerationStep(s, kind) \in {0, 1} /\ (kind = "stopped" => GenerationStep(s, kind) = 1)
  BY DEF GenerationStep, ProjectedKinds
<1>3. s.gen \in Nat
  BY DEF States
<1>4. s.gen + GenerationStep(s, kind) \in Nat
      /\ s.gen + GenerationStep(s, kind) >= s.gen
  BY <1>2, <1>3
<1> QED
  BY <1>1, <1>2, <1>4 DEF Transition, States

\* Generations never decrease, and a new stop has a new one.
LEMMA ProjectResult ==
    ASSUME NEW s \in States, NEW m \in Messages
    PROVE  /\ Project(s, m) \in States
           /\ Project(s, m).gen >= s.gen
           /\ Project(s, m) # s /\ Project(s, m).phase = "stopped" =>
                Project(s, m).gen > s.gen
<1>1. s.gen \in Nat /\ s.gen + 1 > s.gen /\ s.gen >= s.gen
  BY DEF States
<1>2. CASE ProjectedKind(s, m) # "none"
  <2>1. ProjectedKind(s, m) \in ProjectedKinds
    BY <1>2 DEF ProjectedKind, ProjectedKinds
  <2>2. Project(s, m) = Transition(s, ProjectedKind(s, m))
    BY <1>2 DEF Project
  <2> QED
    BY <1>1, <2>1, <2>2, TransitionResult
<1>3. CASE ProjectedKind(s, m) = "none" /\ m = "attached" /\ s.phase = "starting"
  <2>1. Project(s, m) = [s EXCEPT !.phase = "running"]
    BY <1>3 DEF Project, AcceptAttached
  <2>2. Project(s, m) \in States /\ Project(s, m).gen = s.gen
        /\ Project(s, m).phase = "running"
    BY <2>1 DEF States, Phases
  <2> QED
    BY <1>1, <2>2
<1>4. CASE ProjectedKind(s, m) = "none" /\ ~(m = "attached" /\ s.phase = "starting")
  <2>1. Project(s, m) = s
    BY <1>4 DEF Project
  <2> QED
    BY <1>1, <2>1
<1> QED
  BY <1>2, <1>3, <1>4

-----------------------------------------------------------------------------
(* The steps, reduced to what they do to handlers, queue and adapter.      *)

\* A stretch of c's handler begins: its operation starts or its request has been
\* answered.
Enters(c) == Ready(c) \/ Active(c)

\* A call is queued.
Queues(c) ==
    /\ step[c] = "idle" /\ Arrive(c)
    /\ step' = [step EXCEPT ![c] = "queued"]
    /\ UNCHANGED <<state, tool, context, gathered, outcome, generation, asked>>

\* A handler asks the adapter in the state it has captured.
Asks(c, where) ==
    /\ Enters(c) /\ where \in {"inspect", "choose", "control"}
    /\ step' = [step EXCEPT ![c] = where]
    /\ context' = [context EXCEPT ![c] = state]
    /\ Active(c) => context[c] = state
    /\ Ask(c)
    /\ \/ where = "inspect" /\ tool[c] \notin Controls /\ state.phase = "stopped"
       \/ where # "inspect" /\ tool[c] \in Controls /\ state.phase = PhaseFor(c)
    /\ \/ UNCHANGED gathered /\ (where = "inspect" => ~Active(c))
       \/ /\ where = "inspect" /\ step[c] = "inspect"
          /\ gathered' = [gathered EXCEPT ![c] = Append(@, asked[c])]
    /\ UNCHANGED <<frwVars, state, tool, outcome, generation>>

\* A handler ends.
Ends(c, how) ==
    /\ Enters(c)
    /\ Settle(c, how)
    /\ \/ /\ how = "ok" => tool[c] \in Controls
          /\ UNCHANGED <<gathered, generation>>
       \/ /\ how = "ok" /\ step[c] = "inspect" /\ context[c] = state
          /\ gathered' = [gathered EXCEPT ![c] = Append(@, asked[c])]
          /\ generation' = [generation EXCEPT ![c] = state.gen]
    /\ UNCHANGED <<state, tool>>

\* The tracker, or nobody, does something.
Passes ==
    /\ \/ UNCHANGED state
       \/ \E m \in Messages : state' = Project(state, m)
    /\ UNCHANGED <<frwVars, tool, step, context, gathered, outcome, generation,
                   asked>>

HandlerStep ==
    \/ \E c \in Commands :
         \/ Queues(c)
         \/ \E where \in {"inspect", "choose", "control"} : Asks(c, where)
         \/ \E how \in {"ok", "error", "cancelled"} : Ends(c, how)
    \/ Passes

\* What is known of a handler that gets its answer.
LEMMA AnsweredIsActive ==
    ASSUME NEW c \in Commands, NEW where \in {"inspect", "choose", "control"},
           Answered(c, where)
    PROVE  Enters(c) /\ Active(c)
BY DEF Answered, Enters, Active

\* Every step of the specification is one of those.
LEMMA HandlerSteps ==
    ASSUME DataInv, HandlerInv, Next
    PROVE  HandlerStep
<1> USE DEF sessionVars, dispatchVars, callVars, handlerVars
<1>1. ASSUME NEW c \in Commands, Call(c) PROVE Queues(c)
  BY <1>1 DEF Call, Queues
<1>2. ASSUME NEW c \in Commands, Cancel(c) PROVE Passes
  BY <1>2 DEF Cancel, Passes
<1>3. ASSUME NEW c \in Commands, BeginRefused(c) PROVE Ends(c, "error")
  BY <1>3 DEF BeginRefused, Ends, Enters
<1>4. ASSUME NEW c \in Commands, BeginInspection(c)
      PROVE  Ends(c, "error") \/ Asks(c, "inspect")
  <2>1. step[c] = "queued" /\ Enters(c) /\ ~Active(c)
    BY <1>4 DEF BeginInspection, Enters, Active, Ready
  <2>2. CASE Settle(c, "error")
    BY <1>4, <2>1, <2>2 DEF BeginInspection, Ends
  <2>3. CASE /\ May("stopped") /\ Proceed(c, "inspect")
             /\ context' = [context EXCEPT ![c] = state]
             /\ Ask(c)
    BY <1>4, <2>1, <2>3 DEF BeginInspection, Asks, May, Proceed
  <2> QED
    BY <1>4, <2>2, <2>3 DEF BeginInspection
<1>5. ASSUME NEW c \in Commands, BeginControl(c)
      PROVE  Ends(c, "error") \/ Asks(c, "choose") \/ Asks(c, "control")
  <2>1. step[c] = "queued" /\ Enters(c) /\ ~Active(c)
        /\ tool[c] \in Controls
    BY <1>5 DEF BeginControl, Enters, Active, Ready
  <2>2. CASE Settle(c, "error")
    BY <1>5, <2>1, <2>2 DEF BeginControl, Ends
  <2>3. CASE /\ May(PhaseFor(c)) /\ Proceed(c, "choose")
             /\ context' = [context EXCEPT ![c] = state]
             /\ Ask(c)
    BY <1>5, <2>1, <2>3 DEF BeginControl, Asks, May, Proceed
  <2>4. CASE /\ May(PhaseFor(c)) /\ Forward(c)
             /\ context' = [context EXCEPT ![c] = state]
    BY <1>5, <2>1, <2>4 DEF BeginControl, Asks, May, Forward, Proceed
  <2> QED
    BY <1>5, <2>2, <2>3, <2>4 DEF BeginControl
<1>6. ASSUME NEW c \in Commands, AnswerUnused(c)
      PROVE  Ends(c, "error") \/ Ends(c, "cancelled")
  <2>1. Enters(c)
    BY <1>6, AnsweredIsActive DEF AnswerUnused
  <2> QED
    BY <1>6, <2>1 DEF AnswerUnused, Ends
<1>7. ASSUME NEW c \in Commands, InspectionStale(c) PROVE Ends(c, "error")
  <2>1. Enters(c)
    BY <1>7, AnsweredIsActive DEF InspectionStale
  <2> QED
    BY <1>7, <2>1 DEF InspectionStale, Ends
<1>8. ASSUME NEW c \in Commands, InspectionContinues(c) PROVE Asks(c, "inspect")
  <2>1. Enters(c) /\ step[c] = "inspect"
    BY <1>8, AnsweredIsActive DEF InspectionContinues, Answered
  <2>2. context[c] = state /\ state.phase = "stopped" /\ tool[c] \notin Controls
    BY <1>8, <2>1 DEF InspectionContinues, StillMay, May, HandlerInv
  <2>3. context' = [context EXCEPT ![c] = state]
    BY <1>8, <2>2 DEF InspectionContinues, DataInv
  <2> QED
    BY <1>8, <2>1, <2>2, <2>3 DEF InspectionContinues, Asks, Proceed
<1>9. ASSUME NEW c \in Commands, InspectionPublishes(c) PROVE Ends(c, "ok")
  <2>1. Enters(c) /\ step[c] = "inspect"
    BY <1>9, AnsweredIsActive DEF InspectionPublishes, Answered
  <2>2. context[c] = state
    BY <1>9 DEF InspectionPublishes, StillMay
  <2> QED
    BY <1>9, <2>1, <2>2 DEF InspectionPublishes, Ends
<1>10. ASSUME NEW c \in Commands, ThreadChosen(c)
       PROVE  Ends(c, "error") \/ Asks(c, "control")
  <2>1. Enters(c) /\ step[c] = "choose"
    BY <1>10, AnsweredIsActive DEF ThreadChosen, Answered
  <2>2. tool[c] \in Controls
    BY <2>1 DEF HandlerInv
  <2>3. CASE Settle(c, "error")
    BY <1>10, <2>1, <2>3 DEF ThreadChosen, Ends
  <2>4. CASE StillMay(c, PhaseFor(c)) /\ Forward(c) /\ UNCHANGED context
    <3>1. context[c] = state /\ state.phase = PhaseFor(c)
      BY <2>4 DEF StillMay, May
    <3>2. context' = [context EXCEPT ![c] = state]
      BY <2>4, <3>1 DEF DataInv
    <3> QED
      BY <1>10, <2>1, <2>2, <2>4, <3>1, <3>2
         DEF ThreadChosen, Asks, Forward, Proceed
  <2> QED
    BY <1>10, <2>3, <2>4 DEF ThreadChosen
<1>11. ASSUME NEW c \in Commands, ControlFailed(c) PROVE Ends(c, "error")
  <2>1. Enters(c)
    BY <1>11, AnsweredIsActive DEF ControlFailed
  <2> QED
    BY <1>11, <2>1 DEF ControlFailed, Ends
<1>12. ASSUME NEW c \in Commands, ControlSucceeded(c)
       PROVE  \E how \in {"ok", "error", "cancelled"} : Ends(c, how)
  <2>1. Enters(c) /\ step[c] = "control"
    BY <1>12, AnsweredIsActive DEF ControlSucceeded, Answered
  <2>2. tool[c] \in Controls
    BY <2>1 DEF HandlerInv
  <2> QED
    BY <1>12, <2>1, <2>2 DEF ControlSucceeded, Ends
<1>13. ASSUME NEW m \in Messages, Deliver(m) PROVE Passes
  BY <1>13 DEF Deliver, Passes
<1>14. ASSUME Remove PROVE Passes
  BY <1>14 DEF Remove, Passes
<1> QED
  BY <1>1, <1>2, <1>3, <1>4, <1>5, <1>6, <1>7, <1>8, <1>9, <1>10, <1>11,
     <1>12, <1>13, <1>14 DEF Next, Answer, HandlerStep

-----------------------------------------------------------------------------
(* Facts that several steps need.                                          *)

\* A granted control is granted alone: the session has one queue.
LEMMA ControlsAreAlone ==
    ASSUME DataInv, QueueInv, NEW c \in Commands, NEW d \in Commands,
           tool[c] \in Controls, Granted(c), Granted(d)
    PROVE  c = d
<1>1. mode[c] = "write"
  BY DEF DataInv, QueueInv, Modes, Controls, Reads
<1>2. target[c] = target[d]
  BY OneSessionAssumption DEF DataInv
<1>3. ticket[c] \in Nat /\ ticket[d] \in Nat
  BY DEF DataInv
<1>4. Conflict(c, d) /\ Conflict(d, c)
  BY <1>2, <1>1 DEF Conflict
<1>5. ~(ticket[c] < ticket[d]) /\ ~(ticket[d] < ticket[c])
  BY <1>4 DEF Granted
<1>6. ticket[c] = ticket[d]
  BY <1>3, <1>5
<1> QED
  BY <1>6 DEF QueueInv, Granted

\* Whoever enters a stretch of its handler is granted.
LEMMA EntersIsGranted ==
    ASSUME QueueInv, HandlerInv, NEW c \in Commands, Enters(c)
    PROVE  /\ Granted(c) /\ step[c] \in {"queued", "inspect", "choose", "control"}
           /\ c \notin settled /\ Arrived(c) /\ outcome[c] = "none"
<1>1. Granted(c) /\ step[c] \in {"queued", "inspect", "choose", "control"}
  BY DEF QueueInv, Enters, Ready, Active
<1> QED
  BY <1>1 DEF Granted, HandlerInv

-----------------------------------------------------------------------------
(* Handlers, queue and adapter.                                            *)

LEMMA DataStep ==
    ASSUME TypeOK, DataInv, QueueInv, HandlerInv, FlightInv, HandlerStep
    PROVE  DataInv'
<1>1. Starting \in States /\ state \in States
  BY DEF Starting, States, Phases, TypeOK
<1>2. ASSUME NEW c \in Commands, Queues(c) PROVE DataInv'
  BY <1>2 DEF Queues, Arrive, DataInv
<1>4. ASSUME NEW c \in Commands, Enters(c), step[c] = "inspect",
             gathered' = [gathered EXCEPT ![c] = Append(@, asked[c])]
      PROVE  gathered' \in [Commands -> Seq(Nat)]
  <2>1. Append(gathered[c], asked[c]) \in Seq(Nat)
    BY AppendProperties DEF DataInv, TypeOK
  <2> QED
    BY <1>4, <2>1 DEF DataInv
<1>5. ASSUME NEW c \in Commands, NEW where \in {"inspect", "choose", "control"},
             Asks(c, where)
      PROVE  DataInv'
  <2>1. context' \in [Commands -> States]
    BY <1>1, <1>5 DEF Asks, DataInv
  <2>2. gathered' \in [Commands -> Seq(Nat)]
    BY <1>4, <1>5 DEF Asks, DataInv
  <2> QED
    BY <1>5, <2>1, <2>2 DEF Asks, DataInv, frwVars
<1>6. ASSUME NEW c \in Commands, NEW how \in {"ok", "error", "cancelled"},
             Ends(c, how)
      PROVE  DataInv'
  <2>1. context' \in [Commands -> States]
    BY <1>1, <1>6 DEF Ends, Settle, DataInv
  <2>2. gathered' \in [Commands -> Seq(Nat)]
    BY <1>4, <1>6 DEF Ends, DataInv
  <2> QED
    BY <1>6, <2>1, <2>2 DEF Ends, Settle, Finish, DataInv
<1>7. CASE Passes
  BY <1>7 DEF Passes, DataInv, frwVars
<1> QED
  BY <1>2, <1>5, <1>6, <1>7 DEF HandlerStep

\* What is granted stays granted until it ends: later arrivals wait.
LEMMA QueueStep ==
    ASSUME TypeOK, DataInv, QueueInv, HandlerInv, FlightInv, HandlerStep
    PROVE  QueueInv'
<1>1. ASSUME NEW c \in Commands, Queues(c) PROVE QueueInv'
  <2>1. /\ mode' = mode /\ target' = target /\ settled' = settled /\ tool' = tool
        /\ lastTicket' = lastTicket + 1 /\ lastTicket \in Nat
        /\ \A d \in Commands : ticket'[d] = IF d = c THEN lastTicket + 1 ELSE ticket[d]
        /\ \A d \in Commands : step'[d] = IF d = c THEN "queued" ELSE step[d]
        /\ \A d \in Commands : ticket[d] \in Nat /\ ticket[d] <= lastTicket
        /\ ~Arrived(c) /\ step[c] = "idle"
    BY <1>1 DEF Queues, Arrive, DataInv, TypeOK, QueueInv
  <2>2. \A d \in Commands : ticket'[d] <= lastTicket'
    BY <2>1
  <2>3. \A d, e \in Commands : Arrived(d)' /\ ticket'[d] = ticket'[e] => d = e
    BY <2>1 DEF Arrived, QueueInv
  <2>4. \A d \in Commands : step'[d] = "idle" <=> ~Arrived(d)'
    BY <2>1 DEF Arrived, QueueInv
  <2>5. \A d \in Commands : step'[d] = "done" <=> d \in settled'
    BY <2>1 DEF QueueInv
  <2>6. ASSUME NEW d \in Commands, Active(d)' PROVE Granted(d)'
    <3>1. d # c /\ Active(d) /\ Granted(d) /\ ticket'[d] = ticket[d]
      BY <2>1, <2>6 DEF Active, QueueInv
    <3>2. ASSUME NEW e \in Commands, ticket'[e] # 0, ticket'[e] < ticket'[d]
          PROVE  e # c /\ ticket'[e] = ticket[e]
      BY <2>1, <3>1, <3>2
    <3> QED
      BY <2>1, <3>1, <3>2 DEF Granted, Arrived, Conflict
  <2>7. \A d \in Commands : mode'[d] = "read" <=> tool'[d] \in Reads
    BY <2>1 DEF QueueInv
  <2> QED
    BY <2>2, <2>3, <2>4, <2>5, <2>6, <2>7 DEF QueueInv
<1>2. ASSUME NEW c \in Commands, NEW where \in {"inspect", "choose", "control"},
             Asks(c, where)
      PROVE  QueueInv'
  <2>1. Granted(c) /\ step[c] \notin {"idle", "done"} /\ c \notin settled /\ Arrived(c)
    BY <1>2, EntersIsGranted DEF Asks
  <2>2. /\ UNCHANGED <<mode, target, ticket, lastTicket, settled, tool>>
        /\ \A d \in Commands : d # c => step'[d] = step[d]
        /\ step'[c] \in {"inspect", "choose", "control"}
    BY <1>2 DEF Asks, frwVars, TypeOK
  <2>3. \A d \in Commands : Granted(d)' <=> Granted(d)
    BY <2>2 DEF Granted, Arrived, Conflict
  <2> QED
    BY <2>1, <2>2, <2>3 DEF QueueInv, Arrived, Active
<1>3. ASSUME NEW c \in Commands, NEW how \in {"ok", "error", "cancelled"},
             Ends(c, how)
      PROVE  QueueInv'
  <2>1. Granted(c) /\ step[c] \notin {"idle", "done"} /\ Arrived(c)
    BY <1>3, EntersIsGranted DEF Ends
  <2>2. /\ UNCHANGED <<mode, target, ticket, lastTicket, tool>>
        /\ \A d \in Commands : step'[d] = IF d = c THEN "done" ELSE step[d]
        /\ settled' = settled \cup {c}
    BY <1>3 DEF Ends, Settle, Finish, TypeOK
  <2>3. \A d \in Commands : d # c /\ Granted(d) => Granted(d)'
    BY <2>2 DEF Granted, Arrived, Conflict
  <2> QED
    BY <2>1, <2>2, <2>3 DEF QueueInv, Arrived, Active
<1>4. CASE Passes
  BY <1>4 DEF Passes, frwVars, QueueInv, Granted, Arrived, Conflict, Active
<1> QED
  BY <1>1, <1>2, <1>3, <1>4 DEF HandlerStep

\* Results stay of one stop: a piece is added only while the captured state is
\* still the projected one.
LEMMA HandlerInvStep ==
    ASSUME TypeOK, DataInv, QueueInv, HandlerInv, FlightInv, HandlerStep
    PROVE  HandlerInv'
<1>1. ASSUME NEW c \in Commands, Queues(c) PROVE HandlerInv'
  <2>1. /\ UNCHANGED <<tool, context, gathered, outcome, generation>>
        /\ step[c] = "idle"
        /\ \A d \in Commands : step'[d] = IF d = c THEN "queued" ELSE step[d]
    BY <1>1 DEF Queues, TypeOK
  <2> QED
    BY <2>1 DEF HandlerInv, ResultsAreCoherent, Issuers, PhaseFor
<1>2. ASSUME NEW c \in Commands, Enters(c), step[c] = "inspect", context[c] = state,
             gathered' = [gathered EXCEPT ![c] = Append(@, asked[c])]
      PROVE  \A i \in 1..Len(gathered'[c]) : gathered'[c][i] = state.gen
  <2>2. asked[c] = state.gen
    BY <1>2 DEF FlightInv, Active
  <2>3. gathered[c] \in Seq(Nat) /\ state.gen \in Nat
    BY DEF DataInv, TypeOK
  <2>4. gathered'[c] = Append(gathered[c], state.gen)
    BY <1>2, <2>2 DEF DataInv
  <2>5. \A i \in 1..Len(gathered[c]) : gathered[c][i] = state.gen
    BY <1>2 DEF HandlerInv
  <2>6. /\ Len(gathered'[c]) = Len(gathered[c]) + 1 /\ Len(gathered[c]) \in Nat
        /\ \A i \in 1..Len(gathered[c]) : gathered'[c][i] = gathered[c][i]
        /\ gathered'[c][Len(gathered[c]) + 1] = state.gen
    BY <2>3, <2>4, AppendProperties
  <2> QED
    BY <2>5, <2>6
<1>3. ASSUME NEW c \in Commands, NEW where \in {"inspect", "choose", "control"},
             Asks(c, where)
      PROVE  HandlerInv'
  <2>1. step[c] \notin {"idle", "done"} /\ outcome[c] = "none"
        /\ (~Active(c) => step[c] = "queued")
    BY <1>3, EntersIsGranted DEF Asks, Active
  <2>2. /\ UNCHANGED <<tool, outcome, generation>>
        /\ \A d \in Commands : d # c =>
             step'[d] = step[d] /\ context'[d] = context[d] /\ gathered'[d] = gathered[d]
        /\ context'[c] = state
        /\ step'[c] = where
    BY <1>3 DEF Asks, TypeOK, DataInv
  <2>3. ASSUME where = "inspect"
        PROVE  \A i \in 1..Len(gathered'[c]) : gathered'[c][i] = state.gen
    <3>1. CASE UNCHANGED gathered /\ ~Active(c)
      BY <2>1, <3>1 DEF HandlerInv
    <3>2. CASE /\ step[c] = "inspect"
               /\ gathered' = [gathered EXCEPT ![c] = Append(@, asked[c])]
      BY <1>2, <1>3, <3>2 DEF Asks, Active
    <3> QED
      BY <1>3, <2>3, <3>1, <3>2 DEF Asks
  <2>4. \A d \in Commands : step'[d] = "inspect" =>
          /\ tool'[d] \notin Controls /\ context'[d].phase = "stopped"
          /\ \A i \in 1..Len(gathered'[d]) : gathered'[d][i] = context'[d].gen
    <3> SUFFICES ASSUME NEW d \in Commands, step'[d] = "inspect"
                 PROVE  /\ tool'[d] \notin Controls /\ context'[d].phase = "stopped"
                        /\ \A i \in 1..Len(gathered'[d]) :
                             gathered'[d][i] = context'[d].gen
      OBVIOUS
    <3>1. CASE d = c
      <4>1. where = "inspect"
        BY <2>2, <3>1
      <4> QED
        BY <1>3, <2>2, <2>3, <3>1, <4>1 DEF Asks
    <3>2. CASE d # c
      BY <2>2, <3>2 DEF HandlerInv
    <3> QED
      BY <3>1, <3>2
  <2>5. \A d \in Commands : step'[d] \in {"choose", "control"} =>
          tool'[d] \in Controls /\ context'[d].phase = PhaseFor(d)'
    <3> SUFFICES ASSUME NEW d \in Commands, step'[d] \in {"choose", "control"}
                 PROVE  tool'[d] \in Controls /\ context'[d].phase = PhaseFor(d)'
      OBVIOUS
    <3>1. PhaseFor(d)' = PhaseFor(d)
      BY <2>2 DEF PhaseFor
    <3>2. CASE d = c
      <4>1. where # "inspect"
        BY <2>2, <3>2
      <4> QED
        BY <1>3, <2>2, <3>1, <3>2, <4>1 DEF Asks
    <3>3. CASE d # c
      BY <2>2, <3>1, <3>3 DEF HandlerInv
    <3> QED
      BY <3>2, <3>3
  <2>6. step'[c] \notin {"idle", "queued"}
    BY <2>2
  <2>7. \A d \in Commands : step'[d] \in {"idle", "queued"} => gathered'[d] = <<>>
    BY <2>2, <2>6 DEF HandlerInv
  <2>8. \A d \in Commands : outcome'[d] # "none" => step'[d] = "done"
    BY <2>1, <2>2 DEF HandlerInv
  <2>9. ResultsAreCoherent'
    BY <2>1, <2>2 DEF HandlerInv, ResultsAreCoherent, Issuers
  <2> QED
    BY <2>4, <2>5, <2>7, <2>8, <2>9 DEF HandlerInv
<1>4. ASSUME NEW c \in Commands, NEW how \in {"ok", "error", "cancelled"},
             Ends(c, how)
      PROVE  HandlerInv'
  <2>1. /\ tool' = tool
        /\ \A d \in Commands : d # c =>
             /\ step'[d] = step[d] /\ context'[d] = context[d]
             /\ gathered'[d] = gathered[d] /\ outcome'[d] = outcome[d]
             /\ generation'[d] = generation[d]
        /\ step'[c] = "done" /\ outcome'[c] = how
    BY <1>4 DEF Ends, Settle, TypeOK, DataInv
  <2>2. /\ \A d \in Commands : step'[d] = "inspect" =>
             /\ tool'[d] \notin Controls /\ context'[d].phase = "stopped"
             /\ \A i \in 1..Len(gathered'[d]) : gathered'[d][i] = context'[d].gen
        /\ \A d \in Commands : step'[d] \in {"choose", "control"} =>
             tool'[d] \in Controls /\ context'[d].phase = PhaseFor(d)'
        /\ \A d \in Commands : step'[d] \in {"idle", "queued"} => gathered'[d] = <<>>
        /\ \A d \in Commands : outcome'[d] # "none" => step'[d] = "done"
    BY <2>1 DEF HandlerInv, PhaseFor
  <2>3. ASSUME how = "ok", tool[c] \notin Controls
        PROVE  \A i \in 1..Len(gathered'[c]) : gathered'[c][i] = generation'[c]
    <3>1. /\ step[c] = "inspect" /\ context[c] = state /\ Enters(c)
          /\ gathered' = [gathered EXCEPT ![c] = Append(@, asked[c])]
          /\ generation'[c] = state.gen
      BY <1>4, <2>3 DEF Ends, TypeOK
    <3> QED
      BY <1>2, <3>1
  <2>4. ResultsAreCoherent'
    <3> SUFFICES ASSUME NEW d \in Commands, outcome'[d] = "ok", tool'[d] \notin Controls
                 PROVE  \A i \in 1..Len(gathered'[d]) : gathered'[d][i] = generation'[d]
      BY DEF ResultsAreCoherent, Issuers
    <3>1. CASE d = c
      BY <2>1, <2>3, <3>1
    <3>2. CASE d # c
      BY <2>1, <3>2 DEF HandlerInv, ResultsAreCoherent, Issuers
    <3> QED
      BY <3>1, <3>2
  <2> QED
    BY <2>2, <2>4 DEF HandlerInv
<1>5. CASE Passes
  BY <1>5 DEF Passes, HandlerInv, ResultsAreCoherent, Issuers, PhaseFor
<1> QED
  BY <1>1, <1>3, <1>4, <1>5 DEF HandlerStep

\* A handler asks in the state it captures, and recaptures nothing while it awaits.
LEMMA FlightStep ==
    ASSUME TypeOK, DataInv, QueueInv, HandlerInv, FlightInv, HandlerStep
    PROVE  FlightInv'
<1>1. state \in States /\ state.gen \in Nat
  BY DEF TypeOK, States
<1>2. ASSUME NEW c \in Commands, Queues(c) PROVE FlightInv'
  <2>1. /\ UNCHANGED <<context, asked, state>>
        /\ \A d \in Commands : step'[d] = IF d = c THEN "queued" ELSE step[d]
    BY <1>2 DEF Queues, TypeOK
  <2> QED
    BY <2>1 DEF FlightInv, Active
<1>3. ASSUME NEW c \in Commands, NEW where \in {"inspect", "choose", "control"},
             Asks(c, where)
      PROVE  FlightInv'
  <2>1. /\ state' = state /\ context'[c] = state /\ asked'[c] = state.gen
        /\ \A d \in Commands : d # c => /\ step'[d] = step[d]
                                        /\ context'[d] = context[d]
                                        /\ asked'[d] = asked[d]
    BY <1>3 DEF Asks, Ask, TypeOK, DataInv
  <2> QED
    BY <1>1, <2>1 DEF FlightInv, Active
<1>4. ASSUME NEW c \in Commands, NEW how \in {"ok", "error", "cancelled"},
             Ends(c, how)
      PROVE  FlightInv'
  <2>1. /\ state' = state /\ step'[c] = "done"
        /\ \A d \in Commands : d # c => /\ step'[d] = step[d]
                                        /\ context'[d] = context[d]
                                        /\ asked'[d] = asked[d]
    BY <1>4 DEF Ends, Settle, TypeOK, DataInv
  <2> QED
    BY <2>1 DEF FlightInv, Active
<1>5. CASE Passes
  <2>1. UNCHANGED <<step, context, asked>>
    BY <1>5 DEF Passes
  <2>2. state'.gen \in Nat /\ state.gen <= state'.gen
    BY <1>1, <1>5, ProjectResult DEF Passes, States
  <2>3. \A c \in Commands : asked[c] \in Nat
    BY DEF TypeOK
  <2> QED
    BY <1>1, <2>1, <2>2, <2>3 DEF FlightInv, Active
<1> QED
  BY <1>2, <1>3, <1>4, <1>5 DEF HandlerStep

\* Variables keep their types.
LEMMA TypeStep ==
    ASSUME TypeOK, DataInv, QueueInv, HandlerInv, FlightInv, Next
    PROVE  TypeOK'
<1>1. HandlerStep
  BY HandlerSteps
<1>2. state \in States /\ state' \in States
  <2>1. state \in States
    BY DEF TypeOK, States
  <2>2. state' = state \/ \E m \in Messages : state' = Project(state, m)
    BY <1>1 DEF HandlerStep, Queues, Asks, Ends, Passes
  <2> QED
    BY <2>1, <2>2, ProjectResult
<1>3. /\ generation' \in [Commands -> Nat] /\ tool' \in [Commands -> Tools]
      /\ step' \in [Commands -> Steps]
  <2>1. state.gen \in Nat
    BY <1>2 DEF States
  <2>2. ASSUME NEW c \in Commands, Queues(c)
        PROVE  /\ generation' \in [Commands -> Nat] /\ tool' \in [Commands -> Tools]
               /\ step' \in [Commands -> Steps]
    BY <2>2 DEF Queues, TypeOK, Steps
  <2>3. ASSUME NEW c \in Commands, NEW where \in {"inspect", "choose", "control"},
               Asks(c, where)
        PROVE  /\ generation' \in [Commands -> Nat] /\ tool' \in [Commands -> Tools]
               /\ step' \in [Commands -> Steps]
    BY <2>3 DEF Asks, TypeOK, Steps
  <2>4. ASSUME NEW c \in Commands, NEW how \in {"ok", "error", "cancelled"},
               Ends(c, how)
        PROVE  /\ generation' \in [Commands -> Nat] /\ tool' \in [Commands -> Tools]
               /\ step' \in [Commands -> Steps]
    BY <2>1, <2>4 DEF Ends, Settle, TypeOK, Steps
  <2>5. CASE Passes
    BY <2>5 DEF Passes, TypeOK
  <2> QED
    BY <1>1, <2>2, <2>3, <2>4, <2>5 DEF HandlerStep
<1>4. asked' \in [Commands -> Nat]
  <2>1. state.gen \in Nat
    BY <1>2 DEF States
  <2> QED
    BY <1>1, <2>1 DEF HandlerStep, Queues, Asks, Ask, Ends, Settle, Passes, TypeOK
<1>5. SyncedReferences(state) \subseteq Commands /\ SyncedReferences(state') \subseteq Commands
  BY DEF SyncedReferences, TypeOK
<1>6. \A s \in {state, state'} : SyncedTransition(s) \in {None, transition}
  BY DEF SyncedTransition
<1> DEFINE Rest ==
      /\ present' \in BOOLEAN
      /\ observed' = None \/ observed' \in States
      /\ transition' = None \/ transition' \in [left : States, token : Commands]
      /\ references' \subseteq Commands /\ cancelled' \subseteq Commands
      /\ given' \in [Commands -> Commands \cup {None}]
      /\ resumed' \subseteq Nat
<1>7. Rest
  <2> USE DEF sessionVars, dispatchVars, callVars, handlerVars
  <2>1. /\ present \in BOOLEAN
        /\ observed = None \/ observed \in States
        /\ transition = None \/ transition \in [left : States, token : Commands]
        /\ references \subseteq Commands /\ cancelled \subseteq Commands
        /\ given \in [Commands -> Commands \cup {None}]
        /\ resumed \subseteq Nat
    BY DEF TypeOK, States
  <2>2. ASSUME NEW c \in Commands, Call(c) PROVE Rest
    <3>1. Issuers \subseteq Commands
      BY DEF Issuers
    <3> QED
      BY <2>1, <2>2, <3>1 DEF Call
  <2>3. ASSUME NEW c \in Commands, Cancel(c) PROVE Rest
    BY <2>1, <2>3 DEF Cancel
  <2>4. ASSUME NEW c \in Commands, BeginRefused(c) PROVE Rest
    BY <2>1, <2>4 DEF BeginRefused
  <2>5. ASSUME NEW c \in Commands, BeginInspection(c) PROVE Rest
    BY <1>2, <1>5, <1>6, <2>1, <2>5 DEF BeginInspection, Sync
  <2>6. ASSUME NEW c \in Commands, Forward(c), UNCHANGED <<present, cancelled, given>>
        PROVE  Rest
    <3>1. transition' \in [left : States, token : Commands]
      BY <1>2, <2>6 DEF Forward
    <3>2. state.gen \in Nat
      BY <1>2 DEF States
    <3> QED
      BY <1>2, <1>5, <2>1, <2>6, <3>1, <3>2 DEF Forward
  <2>7. ASSUME NEW c \in Commands, BeginControl(c) PROVE Rest
    <3>1. CASE Forward(c)
      BY <2>6, <2>7, <3>1 DEF BeginControl
    <3>2. CASE Sync(state) /\ UNCHANGED resumed
      BY <1>2, <1>5, <1>6, <2>1, <2>7, <3>2 DEF BeginControl, Sync
    <3> QED
      BY <2>7, <3>1, <3>2 DEF BeginControl
  <2>8. ASSUME NEW c \in Commands, AnswerUnused(c) PROVE Rest
    BY <2>1, <2>8 DEF AnswerUnused
  <2>9. ASSUME NEW c \in Commands, InspectionStale(c) PROVE Rest
    BY <1>2, <1>6, <2>1, <2>9 DEF InspectionStale
  <2>10. ASSUME NEW c \in Commands, InspectionContinues(c) PROVE Rest
    BY <1>2, <1>5, <1>6, <2>1, <2>10 DEF InspectionContinues, Sync
  <2>11. ASSUME NEW c \in Commands, InspectionPublishes(c) PROVE Rest
    BY <1>2, <1>5, <1>6, <2>1, <2>11 DEF InspectionPublishes
  <2>12. ASSUME NEW c \in Commands, ThreadChosen(c) PROVE Rest
    <3>1. CASE Forward(c)
      BY <2>6, <2>12, <3>1 DEF ThreadChosen
    <3>2. CASE /\ IF present THEN Sync(state)
                             ELSE UNCHANGED <<observed, references, transition>>
               /\ UNCHANGED resumed
      BY <1>2, <1>5, <1>6, <2>1, <2>12, <3>2 DEF ThreadChosen, Sync
    <3> QED
      BY <2>12, <3>1, <3>2 DEF ThreadChosen
  <2>13. ASSUME NEW c \in Commands, ControlFailed(c) PROVE Rest
    BY <2>1, <2>13 DEF ControlFailed
  <2>14. ASSUME NEW c \in Commands, ControlSucceeded(c) PROVE Rest
    BY <1>2, <1>5, <1>6, <2>1, <2>14 DEF ControlSucceeded, Sync, Cleanup
  <2>15. ASSUME NEW m \in Messages, Deliver(m) PROVE Rest
    BY <1>2, <1>5, <1>6, <2>1, <2>15 DEF Deliver, Sync
  <2>16. ASSUME Remove PROVE Rest
    BY <2>1, <2>16 DEF Remove, Cleanup
  <2> HIDE DEF Rest
  <2> QED
    BY <2>2, <2>3, <2>4, <2>5, <2>7, <2>8, <2>9, <2>10, <2>11, <2>12, <2>13,
       <2>14, <2>15, <2>16 DEF Next, Answer
<1> QED
  BY <1>2, <1>3, <1>4, <1>7 DEF TypeOK, States

-----------------------------------------------------------------------------
(* Transitions and references.                                             *)

\* A sync in a state that was synchronised before changes nothing.
LEMMA SyncedIsSame ==
    ASSUME TransitionInv, ReferenceInv
    PROVE  SyncedReferences(state) = references /\ SyncedTransition(state) = transition
BY DEF SyncedReferences, SyncedTransition, TransitionInv, TransitionsAreEarned, ReferenceInv

\* The checks of an inspection leave no room for a forwarded resume.
LEMMA MayInspect ==
    ASSUME TransitionInv, ReferenceInv, present, May("stopped")
    PROVE  state.phase = "stopped" /\ state.gen \notin resumed
BY SyncedIsSame DEF May, TransitionInv

\* When a control enters a stretch, nobody else waits for the adapter.
LEMMA ControlsFindNobody ==
    ASSUME DataInv, QueueInv, HandlerInv,
           NEW c \in Commands, tool[c] \in Controls, Enters(c),
           NEW d \in Commands, Active(d)
    PROVE  d = c
BY EntersIsGranted, ControlsAreAlone DEF QueueInv

\* A stretch that neither begins nor answers a control leaves its transition.
LEMMA TransitionKept ==
    ASSUME TypeOK, TransitionInv, NEW c \in Commands,
           UNCHANGED <<state, present, transition, resumed>>,
           step[c] \notin {"control", "done"}, step'[c] # "control",
           \A d \in Commands : d # c => /\ step'[d] = step[d]
                                        /\ outcome'[d] = outcome[d]
                                        /\ context'[d] = context[d]
    PROVE  TransitionInv'
<1>1. transition # None => transition.token \in Commands /\ transition.token # c
  BY DEF TypeOK, TransitionInv, TransitionsAreEarned
<1>2. TransitionsAreEarned'
  BY <1>1 DEF TransitionInv, TransitionsAreEarned
<1>3. transition' # None =>
        /\ step'[transition'.token] = "control" =>
             transition'.left = context'[transition'.token]
        /\ transition'.left.phase = "stopped" => transition'.left.gen \in resumed'
  BY <1>1 DEF TransitionInv
<1>4. \A d \in Commands : step'[d] = "control" =>
        transition' = None \/ transition'.token = d
  BY DEF TransitionInv
<1>5. /\ present' /\ state'.phase = "stopped" /\ state'.gen \in resumed' =>
           transition' # None
      /\ \A g \in resumed' : g <= state'.gen
  BY DEF TransitionInv
<1> QED
  BY <1>2, <1>3, <1>4, <1>5 DEF TransitionInv

\* A forwarded control begins the only transition.
LEMMA ForwardBegins ==
    ASSUME TypeOK, DataInv, QueueInv, HandlerInv, FlightInv, TransitionInv,
           NEW c \in Commands, Forward(c), Enters(c),
           tool[c] \in Controls, present, state.phase = PhaseFor(c),
           UNCHANGED <<state, present>>, context' = [context EXCEPT ![c] = state]
    PROVE  TransitionInv'
<1>1. state.gen \in Nat /\ state \in States
  BY DEF TypeOK, States
<1>2. /\ transition' = [left |-> state, token |-> c] /\ context'[c] = state
      /\ \A d \in Commands : step'[d] = IF d = c THEN "control" ELSE step[d]
  BY DEF Forward, Proceed, TypeOK, DataInv
<1>3. transition' # None
  BY <1>1, <1>2, NoneAssumption DEF States
<1>4. \A d \in Commands : step[d] = "control" => d = c
  BY ControlsFindNobody DEF Active
<1>5. state.phase = "stopped" => resumed' = resumed \cup {state.gen}
  BY DEF Forward, PhaseFor, Controls
<1>6. \A g \in resumed' : g <= state.gen
  BY <1>1 DEF Forward, TransitionInv
<1> QED
  BY <1>2, <1>3, <1>4, <1>5, <1>6 DEF TransitionInv, TransitionsAreEarned

\* A transition lasts while the state it left is still projected, and ends with
\* the control that began it when that one fails.
LEMMA TransitionStep ==
    ASSUME Inv, Next
    PROVE  TransitionInv'
<1> USE DEF sessionVars, dispatchVars, callVars, handlerVars
<1>1. /\ SyncedReferences(state) = references
      /\ SyncedTransition(state) = transition
      /\ TypeOK /\ DataInv /\ QueueInv /\ HandlerInv /\ FlightInv /\ TransitionInv
  BY SyncedIsSame DEF Inv
<1>2. state \in States /\ state.gen \in Nat
  BY DEF Inv, TypeOK, States
<1> DEFINE Kept(c) ==
      /\ UNCHANGED <<state, present, transition, resumed>>
      /\ step[c] \notin {"control", "done"} /\ step'[c] # "control"
      /\ \A d \in Commands : d # c => /\ step'[d] = step[d]
                                      /\ outcome'[d] = outcome[d]
                                      /\ context'[d] = context[d]
<1>3. ASSUME NEW c \in Commands, NEW how, Settle(c, how)
      PROVE  step'[c] = "done" /\ outcome'[c] = how
             /\ \A d \in Commands : d # c => /\ step'[d] = step[d]
                                             /\ outcome'[d] = outcome[d]
                                             /\ context'[d] = context[d]
  BY <1>1, <1>3 DEF Settle, TypeOK, DataInv
<1>4. ASSUME NEW c \in Commands, NEW to, Proceed(c, to),
             UNCHANGED context \/ context' = [context EXCEPT ![c] = state]
      PROVE  step'[c] = to
             /\ \A d \in Commands : d # c => /\ step'[d] = step[d]
                                             /\ outcome'[d] = outcome[d]
                                             /\ context'[d] = context[d]
  BY <1>1, <1>4 DEF Proceed, TypeOK, DataInv
<1>5. ASSUME NEW c \in Commands, Call(c) PROVE TransitionInv'
  <2>1. Kept(c)
    BY <1>1, <1>5 DEF Call, TypeOK
  <2> QED
    BY <1>1, <2>1, TransitionKept
<1>6. ASSUME NEW c \in Commands, Cancel(c) PROVE TransitionInv'
  BY <1>1, <1>6 DEF Cancel, TransitionInv, TransitionsAreEarned
<1>7. ASSUME NEW c \in Commands, BeginRefused(c) PROVE TransitionInv'
  <2>1. Kept(c)
    BY <1>3, <1>7 DEF BeginRefused, Ready
  <2> QED
    BY <1>1, <2>1, TransitionKept
<1>8. ASSUME NEW c \in Commands, BeginInspection(c) PROVE TransitionInv'
  <2>1. Kept(c)
    BY <1>1, <1>3, <1>4, <1>8 DEF BeginInspection, Ready, Sync
  <2> QED
    BY <1>1, <2>1, TransitionKept
<1>9. ASSUME NEW c \in Commands, BeginControl(c) PROVE TransitionInv'
  <2>1. step[c] = "queued" /\ UNCHANGED <<state, present>>
    BY <1>9 DEF BeginControl, Ready
  <2>2. CASE Proceed(c, "choose") /\ Sync(state) /\ UNCHANGED resumed
             /\ context' = [context EXCEPT ![c] = state]
    <3>1. step'[c] = "choose"
          /\ \A d \in Commands : d # c => /\ step'[d] = step[d]
                                          /\ outcome'[d] = outcome[d]
                                          /\ context'[d] = context[d]
      BY <1>4, <2>2
    <3>2. Kept(c)
      BY <1>1, <2>1, <2>2, <3>1 DEF Sync
    <3> QED
      BY <1>1, <3>2, TransitionKept
  <2>3. CASE Settle(c, "error") /\ Sync(state) /\ UNCHANGED resumed
    <3>1. Kept(c)
      BY <1>1, <1>3, <2>1, <2>3 DEF Sync
    <3> QED
      BY <1>1, <3>1, TransitionKept
  <2>4. CASE Forward(c) /\ May(PhaseFor(c))
             /\ context' = [context EXCEPT ![c] = state]
    BY <1>1, <1>9, <2>4, ForwardBegins DEF BeginControl, Enters, May
  <2> QED
    BY <1>9, <2>2, <2>3, <2>4 DEF BeginControl
<1>10. ASSUME NEW c \in Commands, AnswerUnused(c) PROVE TransitionInv'
  <2>1. Kept(c)
    BY <1>3, <1>10 DEF AnswerUnused, Answered
  <2> QED
    BY <1>1, <2>1, TransitionKept
<1>11. ASSUME NEW c \in Commands, InspectionStale(c) PROVE TransitionInv'
  <2>1. Kept(c)
    BY <1>1, <1>3, <1>11 DEF InspectionStale, Answered
  <2> QED
    BY <1>1, <2>1, TransitionKept
<1>12. ASSUME NEW c \in Commands, InspectionContinues(c) PROVE TransitionInv'
  <2>1. Kept(c)
    BY <1>1, <1>4, <1>12 DEF InspectionContinues, Answered, Sync
  <2> QED
    BY <1>1, <2>1, TransitionKept
<1>13. ASSUME NEW c \in Commands, InspectionPublishes(c) PROVE TransitionInv'
  <2>1. Kept(c)
    BY <1>1, <1>3, <1>13 DEF InspectionPublishes, Answered
  <2> QED
    BY <1>1, <2>1, TransitionKept
<1>14. ASSUME NEW c \in Commands, ThreadChosen(c) PROVE TransitionInv'
  <2>1. CASE StillMay(c, PhaseFor(c)) /\ Forward(c) /\ UNCHANGED context
    <3>1. Enters(c) /\ tool[c] \in Controls
      BY <1>1, <1>14, AnsweredIsActive DEF ThreadChosen, Answered, HandlerInv
    <3>2. context' = [context EXCEPT ![c] = state] /\ present /\ state.phase = PhaseFor(c)
      BY <1>1, <2>1 DEF StillMay, May, DataInv
    <3> QED
      BY <1>1, <1>14, <2>1, <3>1, <3>2, ForwardBegins DEF ThreadChosen
  <2>2. CASE /\ IF present THEN Sync(state)
                           ELSE UNCHANGED <<observed, references, transition>>
             /\ Settle(c, "error") /\ UNCHANGED resumed
    <3>1. Kept(c)
      BY <1>1, <1>3, <1>14, <2>2 DEF ThreadChosen, Answered, Sync
    <3> QED
      BY <1>1, <3>1, TransitionKept
  <2> QED
    BY <1>14, <2>1, <2>2 DEF ThreadChosen
<1>15. ASSUME NEW c \in Commands, ControlFailed(c) PROVE TransitionInv'
  <2>1. /\ step[c] = "control" /\ UNCHANGED <<state, present>>
        /\ transition' = IF transition # None /\ transition.token = c
                         THEN None ELSE transition
        /\ resumed' = IF tool[c] = "resume" THEN resumed \ {asked[c]}
                      ELSE resumed
        /\ \A d \in Commands : d # c => step'[d] = step[d]
        /\ step'[c] = "done"
    BY <1>3, <1>15 DEF ControlFailed, Answered
  <2>2. transition' = None
    BY <1>1, <2>1 DEF TransitionInv
  <2>3. asked[c] = context[c].gen
    BY <1>1, <2>1 DEF FlightInv, Active
  <2>4. tool[c] \in Controls /\ context[c].phase = PhaseFor(c)
    BY <1>1, <2>1 DEF HandlerInv
  <2>5. ~(present /\ state.phase = "stopped" /\ state.gen \in resumed')
    <3> SUFFICES ASSUME present, state.phase = "stopped", state.gen \in resumed'
                 PROVE  FALSE
      OBVIOUS
    <3>1. transition # None
      BY <1>1, <2>1 DEF TransitionInv
    <3>2. context[c] = state
      BY <1>1, <2>1, <3>1 DEF TransitionInv, TransitionsAreEarned
    <3>3. tool[c] = "resume"
      BY <2>4, <3>2 DEF PhaseFor, Controls
    <3> QED
      BY <2>1, <2>3, <3>2, <3>3
  <2>6. \A g \in resumed' : g <= state'.gen
    BY <1>1, <2>1 DEF TransitionInv
  <2> QED
    BY <2>1, <2>2, <2>5, <2>6 DEF TransitionInv, TransitionsAreEarned
<1>16. ASSUME NEW c \in Commands, ControlSucceeded(c) PROVE TransitionInv'
  <2>1. /\ step[c] = "control" /\ step'[c] = "done"
        /\ UNCHANGED <<state, present, resumed>>
        /\ \A d \in Commands : d # c => /\ step'[d] = step[d]
                                        /\ outcome'[d] = outcome[d]
                                        /\ context'[d] = context[d]
    BY <1>3, <1>16 DEF ControlSucceeded, Answered
  <2>2. \A d \in Commands : step'[d] = "control" => step[d] = "control" /\ d # c
    BY <2>1
  <2>3. CASE outcome'[c] \in {"ok", "cancelled"} /\ transition' = transition
    <3>1. transition # None => transition.token \in Commands
      BY <1>1 DEF TypeOK
    <3>2. TransitionsAreEarned'
      BY <1>1, <2>1, <2>3, <3>1 DEF TransitionInv, TransitionsAreEarned
    <3> QED
      BY <1>1, <2>1, <2>2, <2>3, <3>1, <3>2 DEF TransitionInv
  <2>4. CASE ~present /\ transition' = None
    BY <1>1, <2>1, <2>4 DEF TransitionInv, TransitionsAreEarned
  <2> QED
    BY <1>1, <1>3, <1>16, <2>3, <2>4 DEF ControlSucceeded, Sync, Cleanup
<1>17. ASSUME NEW m \in Messages, Deliver(m) PROVE TransitionInv'
  <2>1. /\ state' # state /\ state'.gen \in Nat /\ state'.gen >= state.gen
        /\ state'.phase = "stopped" => state'.gen > state.gen
    BY <1>2, <1>17, ProjectResult DEF Deliver, States
  <2>2. transition' = None /\ resumed' = resumed /\ step' = step
    BY <1>1, <1>17, <2>1
       DEF Deliver, Sync, SyncedTransition, TransitionInv, TransitionsAreEarned
  <2>3. \A g \in resumed : g \in Nat /\ g <= state.gen
    BY <1>1 DEF TypeOK, TransitionInv
  <2>4. \A g \in resumed : g <= state'.gen /\ (state'.phase = "stopped" => g # state'.gen)
    BY <1>2, <2>1, <2>3
  <2> QED
    BY <2>2, <2>4 DEF TransitionInv, TransitionsAreEarned
<1>18. ASSUME Remove PROVE TransitionInv'
  BY <1>1, <1>18 DEF Remove, Cleanup, TransitionInv, TransitionsAreEarned
<1> QED
  BY <1>5, <1>6, <1>7, <1>8, <1>9, <1>10, <1>11, <1>12, <1>13, <1>14, <1>15,
     <1>16, <1>17, <1>18 DEF Next, Answer

\* The inspections that await an answer after a step awaited it before, or ask
\* in a state that no resume has ended.
AsksInTheStop ==
    \A d \in Commands : step'[d] = "inspect" =>
      \/ step[d] = "inspect" /\ asked'[d] = asked[d]
      \/ asked'[d] = state.gen /\ state.gen \notin resumed

LEMMA EndsInTheStop ==
    ASSUME TypeOK, NEW c \in Commands, NEW how, Settle(c, how)
    PROVE  AsksInTheStop
BY DEF Settle, TypeOK, AsksInTheStop

LEMMA AskedInTheStop ==
    ASSUME TypeOK, NEW c \in Commands, NEW where, Proceed(c, where), Ask(c),
           where = "inspect" => state.gen \notin resumed
    PROVE  AsksInTheStop
BY DEF Proceed, Ask, TypeOK, AsksInTheStop

\* A stretch that publishes nothing and forwards no resume.
LEMMA ReferencesKept ==
    ASSUME TypeOK, ReferenceInv, UNCHANGED <<state, present, generation>>,
           \/ observed' \in {observed, state} /\ references' \in {references, {}}
           \/ observed' = None /\ references' = {},
           resumed' \subseteq resumed, AsksInTheStop
    PROVE  ReferenceInv'
<1>1. state # None
  BY NoneAssumption DEF TypeOK
<1>2. NoInspectionAfterResume'
  BY DEF AsksInTheStop, ReferenceInv, NoInspectionAfterResume
<1>3. references' # {} => references' = references /\ observed' # None
  BY <1>1 DEF ReferenceInv
<1> QED
  BY <1>2, <1>3 DEF ReferenceInv

\* A forwarded control: a resume ends the references, and no inspection of its
\* stop awaits an answer, because the call runs alone.
LEMMA ForwardDropsReferences ==
    ASSUME Inv, NEW c \in Commands, Enters(c), Forward(c),
           tool[c] \in Controls, UNCHANGED <<state, present, generation>>
    PROVE  ReferenceInv'
<1>1. TypeOK /\ ReferenceInv /\ SyncedReferences(state) = references
  BY SyncedIsSame DEF Inv
<1>2. CASE tool[c] = "resume"
  <2>1. \A d \in Commands : step'[d] # "inspect"
    <3>1. \A d \in Commands : step[d] = "inspect" => d = c
      BY ControlsFindNobody DEF Inv, Active
    <3> QED
      BY <1>1, <3>1 DEF Forward, Proceed, TypeOK
  <2>2. NoInspectionAfterResume'
    BY <2>1 DEF NoInspectionAfterResume
  <2> QED
    BY <1>2, <2>2 DEF Forward, ReferenceInv
<1>3. CASE tool[c] # "resume"
  <2>1. /\ Proceed(c, "control") /\ Ask(c) /\ resumed' = resumed
        /\ observed' = state /\ references' = references
    BY <1>1, <1>3 DEF Forward
  <2>2. AsksInTheStop
    BY <1>1, <2>1, AskedInTheStop
  <2> QED
    BY <1>1, <2>1, <2>2, ReferencesKept
<1> QED
  BY <1>2, <1>3

\* What is published belongs to the stop the program is in.
LEMMA PublishesTheStop ==
    ASSUME Inv, NEW c \in Commands, InspectionPublishes(c)
    PROVE  ReferenceInv'
<1>1. /\ TypeOK /\ ReferenceInv /\ TransitionInv
      /\ SyncedReferences(state) = references
  BY SyncedIsSame DEF Inv
<1>2. present /\ state.phase = "stopped" /\ state.gen \notin resumed
  BY <1>1, MayInspect DEF InspectionPublishes, StillMay
<1>3. /\ UNCHANGED <<state, present, resumed>>
      /\ observed' = state /\ references' = references \cup {c}
      /\ \A r \in Commands : generation'[r] = IF r = c THEN state.gen ELSE generation[r]
  BY <1>1 DEF InspectionPublishes, sessionVars, TypeOK
<1>4. references \subseteq Commands /\ state # None
  BY <1>1, NoneAssumption DEF TypeOK
<1>5. AsksInTheStop
  BY <1>1, EndsInTheStop DEF InspectionPublishes
<1>6. NoInspectionAfterResume'
  BY <1>1, <1>3, <1>5 DEF NoInspectionAfterResume, ReferenceInv, AsksInTheStop
<1>7. \A r \in references' :
        /\ present' /\ state'.phase = "stopped" /\ generation'[r] = state'.gen
        /\ state'.gen \notin resumed'
  BY <1>1, <1>2, <1>3, <1>4 DEF ReferenceInv
<1> QED
  BY <1>3, <1>4, <1>6, <1>7 DEF ReferenceInv

\* References end with their stop at the latest.
LEMMA ReferenceStep ==
    ASSUME Inv, Next
    PROVE  ReferenceInv'
<1> USE DEF sessionVars, dispatchVars, callVars, handlerVars
<1>1. /\ TypeOK /\ ReferenceInv /\ TransitionInv /\ HandlerInv
      /\ SyncedReferences(state) = references
  BY SyncedIsSame DEF Inv
<1>2. ASSUME NEW c \in Commands, Call(c) PROVE ReferenceInv'
  <2>1. AsksInTheStop
    BY <1>1, <1>2 DEF Call, AsksInTheStop, TypeOK
  <2> QED
    BY <1>1, <1>2, <2>1, ReferencesKept DEF Call
<1>3. ASSUME NEW c \in Commands, Cancel(c) PROVE ReferenceInv'
  <2>1. AsksInTheStop
    BY <1>3 DEF Cancel, AsksInTheStop
  <2> QED
    BY <1>1, <1>3, <2>1, ReferencesKept DEF Cancel
<1>4. ASSUME NEW c \in Commands, NEW how, Settle(c, how) PROVE AsksInTheStop
  BY <1>1, <1>4, EndsInTheStop
<1>5. ASSUME NEW c \in Commands, BeginRefused(c) PROVE ReferenceInv'
  <2>1. AsksInTheStop
    BY <1>4, <1>5 DEF BeginRefused
  <2> QED
    BY <1>1, <1>5, <2>1, ReferencesKept DEF BeginRefused
<1>6. ASSUME NEW c \in Commands, Answered(c, "inspect") \/ Answered(c, "choose")
      PROVE  Enters(c)
  BY <1>6, AnsweredIsActive
<1>7. ASSUME NEW c \in Commands, BeginInspection(c) PROVE ReferenceInv'
  <2>1. /\ present /\ observed' = state /\ references' = references
        /\ UNCHANGED <<state, present, generation, resumed>>
    BY <1>1, <1>7 DEF BeginInspection, Sync
  <2>2. CASE Settle(c, "error")
    BY <1>1, <1>4, <2>1, <2>2, ReferencesKept
  <2>3. CASE May("stopped") /\ Proceed(c, "inspect") /\ Ask(c)
    <3>1. state.gen \notin resumed
      BY <1>1, <2>1, <2>3, MayInspect
    <3>2. AsksInTheStop
      BY <1>1, <2>3, <3>1, AskedInTheStop
    <3> QED
      BY <1>1, <2>1, <3>2, ReferencesKept
  <2> QED
    BY <1>7, <2>2, <2>3 DEF BeginInspection
<1>8. ASSUME NEW c \in Commands, BeginControl(c) PROVE ReferenceInv'
  <2>1. /\ Enters(c) /\ tool[c] \in Controls
        /\ UNCHANGED <<state, present, generation>>
    BY <1>8 DEF BeginControl, Enters
  <2>2. CASE Sync(state) /\ Proceed(c, "choose") /\ Ask(c) /\ UNCHANGED resumed
    <3>1. AsksInTheStop
      BY <1>1, <2>2, AskedInTheStop
    <3> QED
      BY <1>1, <2>1, <2>2, <3>1, ReferencesKept DEF Sync
  <2>3. CASE Forward(c)
    BY <2>1, <2>3, ForwardDropsReferences
  <2>4. CASE Sync(state) /\ Settle(c, "error") /\ UNCHANGED resumed
    BY <1>1, <1>4, <2>1, <2>4, ReferencesKept DEF Sync
  <2> QED
    BY <1>8, <2>2, <2>3, <2>4 DEF BeginControl
<1>9. ASSUME NEW c \in Commands, AnswerUnused(c) PROVE ReferenceInv'
  <2>1. /\ UNCHANGED <<state, present, observed, references, generation, resumed>>
        /\ AsksInTheStop
    BY <1>4, <1>9 DEF AnswerUnused
  <2> QED
    BY <1>1, <2>1, ReferencesKept
<1>10. ASSUME NEW c \in Commands, InspectionStale(c) PROVE ReferenceInv'
  <2>1. /\ UNCHANGED <<state, present, generation, resumed>>
        /\ observed' \in {observed, state} /\ references' = {}
        /\ AsksInTheStop
    BY <1>4, <1>10 DEF InspectionStale
  <2> QED
    BY <1>1, <2>1, ReferencesKept
<1>11. ASSUME NEW c \in Commands, InspectionContinues(c) PROVE ReferenceInv'
  <2>1. /\ UNCHANGED <<state, present, generation, resumed>>
        /\ observed' = state /\ references' = references
        /\ present /\ May("stopped") /\ Proceed(c, "inspect") /\ Ask(c)
    BY <1>1, <1>11 DEF InspectionContinues, Sync, StillMay
  <2>2. state.gen \notin resumed
    BY <1>1, <2>1, MayInspect
  <2>3. AsksInTheStop
    BY <1>1, <2>1, <2>2, AskedInTheStop
  <2> QED
    BY <1>1, <2>1, <2>3, ReferencesKept
<1>12. ASSUME NEW c \in Commands, InspectionPublishes(c) PROVE ReferenceInv'
  BY <1>12, PublishesTheStop
<1>13. ASSUME NEW c \in Commands, ThreadChosen(c) PROVE ReferenceInv'
  <2>1. /\ UNCHANGED <<state, present, generation>> /\ tool[c] \in Controls
        /\ Enters(c)
    BY <1>1, <1>6, <1>13 DEF ThreadChosen, Answered, HandlerInv
  <2>2. CASE Forward(c)
    BY <2>1, <2>2, ForwardDropsReferences
  <2>3. CASE /\ IF present THEN Sync(state)
                           ELSE UNCHANGED <<observed, references, transition>>
             /\ Settle(c, "error") /\ UNCHANGED resumed
    <3>1. /\ observed' \in {observed, state} /\ references' = references
          /\ AsksInTheStop
      BY <1>1, <1>4, <2>3 DEF Sync
    <3> QED
      BY <1>1, <2>1, <2>3, <3>1, ReferencesKept
  <2> QED
    BY <1>13, <2>2, <2>3 DEF ThreadChosen
<1>14. ASSUME NEW c \in Commands, ControlFailed(c) PROVE ReferenceInv'
  <2>1. /\ UNCHANGED <<state, present, observed, references, generation>>
        /\ resumed' \subseteq resumed /\ AsksInTheStop
    BY <1>4, <1>14 DEF ControlFailed
  <2> QED
    BY <1>1, <2>1, ReferencesKept
<1>15. ASSUME NEW c \in Commands, ControlSucceeded(c) PROVE ReferenceInv'
  <2>1. UNCHANGED <<state, present, generation, resumed>> /\ AsksInTheStop
    BY <1>4, <1>15 DEF ControlSucceeded
  <2>2. \/ observed' \in {observed, state} /\ references' \in {references, {}}
        \/ observed' = None /\ references' = {}
    BY <1>1, <1>15 DEF ControlSucceeded, Sync, Cleanup
  <2> QED
    BY <1>1, <2>1, <2>2, ReferencesKept
<1>16. ASSUME NEW m \in Messages, Deliver(m) PROVE ReferenceInv'
  <2>1. /\ state' # state /\ observed' = state'
        /\ UNCHANGED <<present, step, asked, resumed>>
    BY <1>16 DEF Deliver, Sync
  <2>2. references' = {}
    BY <1>1, <1>16, <2>1 DEF Deliver, Sync, SyncedReferences, ReferenceInv
  <2> QED
    BY <1>1, <2>1, <2>2 DEF ReferenceInv, NoInspectionAfterResume
<1>17. ASSUME Remove PROVE ReferenceInv'
  BY <1>1, <1>17 DEF Remove, Cleanup, ReferenceInv, NoInspectionAfterResume
<1> QED
  BY <1>2, <1>3, <1>5, <1>7, <1>8, <1>9, <1>10, <1>11, <1>12, <1>13, <1>14,
     <1>15, <1>16, <1>17 DEF Next, Answer

-----------------------------------------------------------------------------
(* The theorems.                                                           *)

LEMMA InvInit == Init => Inv
<1> SUFFICES ASSUME Init PROVE Inv
  OBVIOUS
<1> USE DEF Init, FInit
<1>1. Starting \in States /\ Starting.gen = 0
  BY DEF Starting, States, Phases
<1>2. tool \in [Commands -> Tools] /\ mode \in [Commands -> Modes]
  OBVIOUS
<1>3. TypeOK
  BY <1>1, <1>2 DEF TypeOK, States, Steps
<1>4. DataInv
  BY <1>1, <1>2 DEF DataInv
<1>5. QueueInv
  BY DEF QueueInv, Arrived, Active
<1>6. HandlerInv
  BY DEF HandlerInv, ResultsAreCoherent, Issuers
<1>7. FlightInv
  BY DEF FlightInv, Active
<1>8. TransitionInv
  BY DEF TransitionInv, TransitionsAreEarned
<1>9. ReferenceInv
  BY DEF ReferenceInv, NoInspectionAfterResume
<1> QED
  BY <1>3, <1>4, <1>5, <1>6, <1>7, <1>8, <1>9 DEF Inv

LEMMA InvStep == Inv /\ [Next]_vars => Inv'
<1>1. ASSUME Inv, Next PROVE Inv'
  <2>1. TypeOK /\ DataInv /\ QueueInv /\ HandlerInv /\ FlightInv
    BY <1>1 DEF Inv
  <2>2. HandlerStep
    BY <1>1, <2>1, HandlerSteps
  <2>3. TypeOK' /\ DataInv' /\ QueueInv' /\ HandlerInv' /\ FlightInv'
    BY <1>1, <2>1, <2>2, TypeStep, DataStep, QueueStep, HandlerInvStep, FlightStep
  <2>4. TransitionInv' /\ ReferenceInv'
    BY <1>1, TransitionStep, ReferenceStep
  <2> QED
    BY <2>3, <2>4 DEF Inv
<1>2. ASSUME Inv, UNCHANGED vars PROVE Inv'
  <2> USE <1>2 DEF Inv, vars, frwVars, sessionVars, dispatchVars, callVars, handlerVars
  <2>1. TypeOK'
    BY DEF TypeOK
  <2>2. DataInv'
    BY DEF DataInv
  <2>3. QueueInv'
    BY DEF QueueInv, Arrived, Active, Granted, Conflict
  <2>4. HandlerInv'
    BY DEF HandlerInv, ResultsAreCoherent, Issuers, PhaseFor
  <2>5. FlightInv'
    BY DEF FlightInv, Active
  <2>6. TransitionInv'
    BY DEF TransitionInv, TransitionsAreEarned
  <2>7. ReferenceInv'
    BY DEF ReferenceInv, NoInspectionAfterResume
  <2> QED
    BY <2>1, <2>2, <2>3, <2>4, <2>5, <2>6, <2>7
<1> QED
  BY <1>1, <1>2

\* What holds whenever no stretch of a handler is running.
THEOREM Invariant == SafeSpec => []Inv
BY InvInit, InvStep, PTL DEF SafeSpec

\* A reference that resolves is one of the stop the program is in, whatever
\* the adapter sends while a handler of toolDispatcher.ts awaits an answer and
\* however calls are cancelled or fail.
THEOREM CurrentReferences == SafeSpec => []ReferencesAreCurrent
<1>1. Inv => ReferencesAreCurrent
  BY DEF Inv, ReferenceInv, ReferencesAreCurrent
<1> QED
  BY <1>1, Invariant, PTL

\* When #beginControlTransition has forwarded a resume, no request of that stop
\* is with the adapter: the command queue lets the control run alone.
THEOREM ResumeIsAlone == SafeSpec => []NoInspectionAfterResume
<1>1. Inv => NoInspectionAfterResume
  BY DEF Inv, ReferenceInv
<1> QED
  BY <1>1, Invariant, PTL

\* The pieces of a result come from the stop its references are bound to:
\* #recheckStopped notices every other one.
THEOREM CoherentResults == SafeSpec => []ResultsAreCoherent
<1>1. Inv => ResultsAreCoherent
  BY DEF Inv, HandlerInv
<1> QED
  BY <1>1, Invariant, PTL

\* A transition stands for the state it left and for a control that may have
\* taken effect: #clearFailedTransition and #syncState end every other one.
THEOREM EarnedTransitions == SafeSpec => []TransitionsAreEarned
<1>1. Inv => TransitionsAreEarned
  BY DEF Inv, TransitionInv
<1> QED
  BY <1>1, Invariant, PTL

\* An answer that is found to be stale in a stop that has references is one the
\* handler has awaited since an earlier state.
LEMMA StaleAnswersAreLate ==
    ASSUME Inv, NEW c \in Commands, InspectionStale(c), references # {}
    PROVE  EndsOutOfDate(c)
<1>1. /\ TypeOK /\ TransitionInv /\ ReferenceInv
      /\ SyncedTransition(state) = transition
  BY SyncedIsSame DEF Inv
<1>2. step[c] = "inspect" /\ ~StillMay(c, "stopped") /\ outcome'[c] = "error"
  <2>1. outcome \in [Commands -> {"none", "ok", "error", "cancelled"}]
    BY DEF Inv, DataInv
  <2> QED
    BY <2>1 DEF InspectionStale, Answered, Settle
<1>3. present /\ state.phase = "stopped" /\ state.gen \notin resumed
  BY <1>1 DEF ReferenceInv
<1>4. transition = None
  BY <1>1, <1>3 DEF TransitionInv, TransitionsAreEarned
<1> QED
  BY <1>1, <1>2, <1>3, <1>4 DEF StillMay, May, EndsOutOfDate

\* References end all at once, and only with the stop, with a forwarded resume,
\* with the session or when the answer of an inspection that began in an earlier
\* state is dropped (#recheckStopped); no call of the present stop, however it
\* is answered, fails or is withdrawn, takes them.
THEOREM LastingReferences == SafeSpec => ReferencesEndForCause
<1> USE DEF sessionVars, dispatchVars, callVars, handlerVars
<1> DEFINE Step ==
      ~(references \subseteq references')
        => /\ StopEnds \/ \E c \in Commands : EndsOutOfDate(c)
           /\ references' = {}
<1>1. ASSUME Inv, Next PROVE Step
  <2>1. /\ TypeOK /\ TransitionInv /\ ReferenceInv
        /\ SyncedReferences(state) = references
    BY <1>1, SyncedIsSame DEF Inv
  <2>2. ASSUME NEW c \in Commands, Call(c) \/ Cancel(c) \/ BeginRefused(c) PROVE Step
    BY <2>2 DEF Call, Cancel, BeginRefused
  <2>3. ASSUME NEW c \in Commands, BeginInspection(c) PROVE Step
    BY <2>1, <2>3 DEF BeginInspection, Sync
  <2>4. ASSUME NEW c \in Commands, Forward(c) PROVE Step
    BY <2>1, <2>4 DEF Forward, ReferenceInv, StopEnds
  <2>5. ASSUME NEW c \in Commands, BeginControl(c) PROVE Step
    <3>1. CASE Sync(state)
      BY <2>1, <3>1 DEF Sync
    <3> QED
      BY <2>4, <2>5, <3>1 DEF BeginControl
  <2>6. ASSUME NEW c \in Commands, AnswerUnused(c) PROVE Step
    BY <2>6 DEF AnswerUnused
  <2>7. ASSUME NEW c \in Commands, InspectionStale(c) PROVE Step
    BY <1>1, <2>7, StaleAnswersAreLate DEF InspectionStale
  <2>8. ASSUME NEW c \in Commands, InspectionContinues(c) PROVE Step
    BY <2>1, <2>8 DEF InspectionContinues, Sync
  <2>9. ASSUME NEW c \in Commands, InspectionPublishes(c) PROVE Step
    BY <2>1, <2>9 DEF InspectionPublishes
  <2>10. ASSUME NEW c \in Commands, ThreadChosen(c) PROVE Step
    <3>1. CASE IF present THEN Sync(state)
                          ELSE UNCHANGED <<observed, references, transition>>
      BY <2>1, <3>1 DEF Sync
    <3> QED
      BY <2>4, <2>10, <3>1 DEF ThreadChosen
  <2>11. ASSUME NEW c \in Commands, ControlFailed(c) PROVE Step
    BY <2>11 DEF ControlFailed
  <2>12. ASSUME NEW c \in Commands, ControlSucceeded(c) PROVE Step
    BY <2>1, <2>12 DEF ControlSucceeded, Sync, Cleanup, StopEnds
  <2>13. ASSUME NEW m \in Messages, Deliver(m) PROVE Step
    BY <2>1, <2>13 DEF Deliver, Sync, StopEnds, SyncedReferences, ReferenceInv
  <2>14. ASSUME Remove PROVE Step
    BY <2>14 DEF Remove, Cleanup, StopEnds
  <2> HIDE DEF Step
  <2> QED
    BY <1>1, <2>2, <2>3, <2>5, <2>6, <2>7, <2>8, <2>9, <2>10, <2>11, <2>12,
       <2>13, <2>14 DEF Next, Answer
<1>2. Inv /\ [Next]_vars => [Step]_vars
  BY <1>1
<1> QED
  BY <1>2, Invariant, PTL DEF SafeSpec, ReferencesEndForCause
=============================================================================
