----------------------------- MODULE Inspection -----------------------------
(***************************************************************************)
(* The ToolDispatcher's inspection and control calls on one tracked debug  *)
(* session (src/tools/toolDispatcher.ts), the ReferenceStore they publish  *)
(* handles through and the control transitions that bridge the gap between *)
(* a control response and the event that confirms it.                      *)
(*                                                                         *)
(* The command queue appears as its promise, FairReadersWriters: a call's  *)
(* operation runs while it is granted, and ending it is the Finish step.   *)
(* The adapter is external: it sends any message at any time and answers   *)
(* its requests in any order, since every customRequest settles by itself. *)
(* Between two awaits a handler runs without interruption, so each action  *)
(* is one such stretch.                                                    *)
(***************************************************************************)
EXTENDS FairReadersWriters, StateProjector, Sequences

CONSTANTS None,          \* no observed state, no transition, no reference
          MaxGeneration  \* bound on the stop generations of a behaviour

ASSUME OneSessionAssumption == \E s \in Sessions : Sessions = {s}
ASSUME NoneAssumption ==
    /\ None \notin Commands /\ None \notin [phase : Phases, gen : Nat]
    /\ None \notin [left : [phase : Phases, gen : Nat], token : Commands]

VARIABLES state,      \* what the session's StateProjector holds
          present,    \* the session is in the SessionRegistry
          observed,   \* #observedStates: the state last synchronised with
          transition, \* #controlTransitions: the state a control left behind
          references, \* ReferenceStore: the calls whose references resolve
          generation, \* the generation a call's references are bound to
          tool,       \* which tool a call is of
          given,      \* the reference a call passes: the call that issued it
          cancelled,  \* calls aborted, or whose client has gone
          step,       \* where a call's handler is
          context,    \* the state a handler captured before its first await
          gathered,   \* per call: the generations its answers were asked at
          outcome,    \* per call: how its promise was settled
          asked,      \* the generation in which a call's last request was sent
          resumed     \* history: generations ended by a forwarded resume

sessionVars == <<state, present>>
dispatchVars == <<observed, transition, references, generation>>
callVars == <<tool, given>>
handlerVars == <<step, context, gathered, outcome, asked>>
vars == <<frwVars, sessionVars, dispatchVars, callVars, cancelled,
          handlerVars, resumed>>

\* "follow" stands for stack_trace, scopes, variables and evaluate_safe,
\* which pass a reference; "explicit" for evaluate_explicit.
Reads == {"threads", "follow", "snapshot"}
Controls == {"pause", "resume"}
Tools == Reads \cup {"explicit"} \cup Controls
Followers == {"follow", "explicit"}

\* snapshot asks for threads, a stack, scopes and variables in turn.  The
\* later three requests are alike and the model keeps one of them.
RequestsOf(t) == IF t = "snapshot" THEN 2 ELSE 1

Init ==
    /\ FInit
    /\ tool \in {f \in [Commands -> Tools] :
                   \A c \in Commands : mode[c] = "read" <=> f[c] \in Reads}
    /\ state = Starting
    /\ present = TRUE
    /\ observed = None /\ transition = None
    /\ references = {}
    /\ generation = [c \in Commands |-> 0]
    /\ given = [c \in Commands |-> None]
    /\ cancelled = {}
    /\ step = [c \in Commands |-> "idle"]
    /\ context = [c \in Commands |-> Starting]
    /\ gathered = [c \in Commands |-> <<>>]
    /\ outcome = [c \in Commands |-> "none"]
    /\ asked = [c \in Commands |-> 0]
    /\ resumed = {}

-----------------------------------------------------------------------------
(* Helpers of the dispatcher.                                              *)

\* Fault: only the phase is compared.
SyncedByPhase(s) ==
    IF observed # None /\ observed.phase # s.phase THEN {} ELSE references

\* #syncState: a state that differs from the one last seen ends the
\* references, and one that differs from a transition's ends the transition.
SyncedReferences(s) ==
    IF observed # None /\ observed # s THEN {} ELSE references

SyncedTransition(s) ==
    IF transition # None /\ transition.left # s THEN None ELSE transition

Sync(s) ==
    /\ observed' = s
    /\ references' = SyncedReferences(s)
    /\ transition' = SyncedTransition(s)

\* #cleanupSessionRuntime
Cleanup ==
    /\ observed' = None
    /\ references' = {}
    /\ transition' = None

\* Fault: a control transition does not stand in the way.
MayDuringTransition(phase) == state.phase = phase

\* #assertInspectableState and #assertControlPhase, after the sync.
May(phase) == state.phase = phase /\ SyncedTransition(state) = None

\* Fault: the generation is not compared again after an await.
StillMayInPhase(c, phase) ==
    present /\ context[c].phase = state.phase /\ May(phase)

\* #recheckStopped and #recheckControlState: what the handler captured before
\* the await still holds after it.
StillMay(c, phase) == present /\ context[c] = state /\ May(phase)

PhaseFor(c) == IF tool[c] = "pause" THEN "running" ELSE "stopped"

\* A DAP request is sent.  A handler awaits one request at a time, and its step
\* tells which: "inspect", "choose" (threads) or "control".
Ask(c) == asked' = [asked EXCEPT ![c] = state.gen]

\* A call's promise is settled ("error" stands for every error the tools
\* tell apart) and what its handler had captured is gone.
Settle(c, how) ==
    /\ Finish(c)
    /\ step' = [step EXCEPT ![c] = "done"]
    /\ outcome' = [outcome EXCEPT ![c] = how]
    /\ context' = [context EXCEPT ![c] = Starting]
    /\ asked' = [asked EXCEPT ![c] = 0]

Proceed(c, to) ==
    /\ step' = [step EXCEPT ![c] = to]
    /\ UNCHANGED <<frwVars, outcome>>

-----------------------------------------------------------------------------
(* Clients.                                                                *)

\* The calls whose results carried references.
Issuers == {c \in Commands : outcome[c] = "ok" /\ tool[c] \notin Controls}

\* A call that passes its first checks is queued.  A follower may pass any
\* reference that was ever published, or one that never was.
Call(c) ==
    /\ step[c] = "idle" /\ present
    /\ Arrive(c)
    /\ step' = [step EXCEPT ![c] = "queued"]
    /\ \E r \in {None} \cup (IF tool[c] \in Followers THEN Issuers ELSE {}) :
         given' = [given EXCEPT ![c] = r]
    /\ UNCHANGED <<sessionVars, dispatchVars, tool, cancelled, context,
                   gathered, outcome, asked, resumed>>

\* The request is aborted, its client disconnects or trust is withdrawn.
Cancel(c) ==
    /\ step[c] \notin {"idle", "done"} /\ c \notin cancelled
    /\ cancelled' = cancelled \cup {c}
    /\ UNCHANGED <<frwVars, sessionVars, dispatchVars, callVars, handlerVars,
                   resumed>>

-----------------------------------------------------------------------------
(* Queued operations begin.                                                *)

Ready(c) == Granted(c) /\ step[c] = "queued"

\* Fault: an operation whose session has gone is never settled.
BeginRefusedIfCancelled(c) ==
    /\ Ready(c) /\ c \in cancelled
    /\ Settle(c, "error")
    /\ UNCHANGED <<sessionVars, dispatchVars, callVars, cancelled, gathered,
                   resumed>>

\* Any operation that finds its request withdrawn or its session gone.
BeginRefused(c) ==
    /\ Ready(c) /\ (c \in cancelled \/ ~present)
    /\ Settle(c, "error")
    /\ UNCHANGED <<sessionVars, dispatchVars, callVars, cancelled, gathered,
                   resumed>>

\* resolve(): the reference is stored and bound to the current generation.
Resolves(r) ==
    r \in SyncedReferences(state) /\ generation[r] = state.gen

\* #stoppedContext, resolve(), then the first DAP request of an inspection.
BeginInspection(c) ==
    /\ Ready(c) /\ c \notin cancelled /\ present /\ tool[c] \notin Controls
    /\ Sync(state)
    /\ IF May("stopped") /\ (tool[c] \in Followers => Resolves(given[c]))
       THEN /\ Proceed(c, "inspect")
            /\ context' = [context EXCEPT ![c] = state]
            /\ Ask(c)
       ELSE Settle(c, "error")
    /\ UNCHANGED <<sessionVars, generation, callVars, cancelled, gathered,
                   resumed>>

\* #beginControlTransition and the control request; a resume invalidates the
\* references in between.
Forward(c) ==
    /\ transition' = [left |-> state, token |-> c]
    /\ observed' = state
    /\ references' = IF tool[c] = "resume" THEN {} ELSE SyncedReferences(state)
    /\ resumed' = IF tool[c] = "resume" THEN resumed \cup {state.gen} ELSE resumed
    /\ Proceed(c, "control")
    /\ Ask(c)

\* The first stretch of pause and resume: a pause asks for the threads, a
\* resume only if the stop did not name one.
BeginControl(c) ==
    /\ Ready(c) /\ c \notin cancelled /\ present /\ tool[c] \in Controls
    /\ \/ /\ May(PhaseFor(c))
          /\ context' = [context EXCEPT ![c] = state]
          /\ Sync(state)
          /\ Proceed(c, "choose")
          /\ Ask(c)
          /\ UNCHANGED resumed
       \/ /\ May(PhaseFor(c)) /\ tool[c] = "resume"
          /\ context' = [context EXCEPT ![c] = state]
          /\ Forward(c)
       \/ /\ ~May(PhaseFor(c))
          /\ Sync(state)
          /\ Settle(c, "error")
          /\ UNCHANGED resumed
    /\ UNCHANGED <<sessionVars, generation, callVars, cancelled, gathered>>

-----------------------------------------------------------------------------
(* The adapter answers a request, an older or a newer one, and the handler *)
(* that awaits it goes on.                                                 *)

Answered(c, where) == step[c] = where

\* Fault: a failed request takes the session's references with it.
AnswerUnusedInvalidates(c) ==
    /\ Answered(c, "inspect") \/ Answered(c, "choose")
    /\ \E failed \in BOOLEAN :
         /\ failed \/ c \in cancelled
         /\ Settle(c, IF failed THEN "error" ELSE "cancelled")
    /\ references' = {}
    /\ UNCHANGED <<sessionVars, observed, transition, generation, callVars,
                   cancelled, gathered, resumed>>

\* An inspection or threads request fails, or its answer finds the request
\* withdrawn.
AnswerUnused(c) ==
    /\ Answered(c, "inspect") \/ Answered(c, "choose")
    /\ \E failed \in BOOLEAN :
         /\ failed \/ c \in cancelled
         /\ Settle(c, IF failed THEN "error" ELSE "cancelled")
    /\ UNCHANGED <<sessionVars, dispatchVars, callVars, cancelled, gathered,
                   resumed>>

\* #recheckStopped finds the session gone or elsewhere: the answer is dropped
\* and every reference of the session with it.
InspectionStale(c) ==
    /\ Answered(c, "inspect") /\ c \notin cancelled
    /\ ~StillMay(c, "stopped")
    /\ references' = {}
    /\ IF present
       THEN observed' = state /\ transition' = SyncedTransition(state)
       ELSE UNCHANGED <<observed, transition>>
    /\ Settle(c, "error")
    /\ UNCHANGED <<sessionVars, generation, callVars, cancelled, gathered,
                   resumed>>

\* A snapshot asks for its next piece.
InspectionContinues(c) ==
    /\ Answered(c, "inspect") /\ c \notin cancelled
    /\ StillMay(c, "stopped")
    /\ Len(gathered[c]) + 1 < RequestsOf(tool[c])
    /\ Sync(state)
    /\ gathered' = [gathered EXCEPT ![c] = Append(@, asked[c])]
    /\ Proceed(c, "inspect")
    /\ Ask(c)
    /\ UNCHANGED <<sessionVars, generation, callVars, cancelled, context,
                   resumed>>

\* The last answer: publish references bound to the current generation.
InspectionPublishes(c) ==
    /\ Answered(c, "inspect") /\ c \notin cancelled
    /\ StillMay(c, "stopped")
    /\ Len(gathered[c]) + 1 = RequestsOf(tool[c])
    /\ observed' = state
    /\ transition' = SyncedTransition(state)
    /\ references' = SyncedReferences(state) \cup {c}
    /\ generation' = [generation EXCEPT ![c] = state.gen]
    /\ gathered' = [gathered EXCEPT ![c] = Append(@, asked[c])]
    /\ Settle(c, "ok")
    /\ UNCHANGED <<sessionVars, callVars, cancelled, resumed>>

\* The threads are there (or none is, which ends the call): recheck, then
\* forward the control request.
ThreadChosen(c) ==
    /\ Answered(c, "choose") /\ c \notin cancelled
    /\ \/ /\ StillMay(c, PhaseFor(c))
          /\ Forward(c)
          /\ UNCHANGED context
       \/ /\ IF present THEN Sync(state)
                        ELSE UNCHANGED <<observed, references, transition>>
          /\ Settle(c, "error")
          /\ UNCHANGED resumed
    /\ UNCHANGED <<sessionVars, generation, callVars, cancelled, gathered>>

\* Fault: a failed control leaves its transition behind.
ControlFailedUncleared(c) ==
    /\ Answered(c, "control")
    /\ resumed' = IF tool[c] = "resume" THEN resumed \ {asked[c]}
                  ELSE resumed
    /\ Settle(c, "error")
    /\ UNCHANGED <<sessionVars, dispatchVars, callVars, cancelled, gathered>>

\* The control request fails: #clearFailedTransition.
ControlFailed(c) ==
    /\ Answered(c, "control")
    /\ transition' = IF transition # None /\ transition.token = c
                     THEN None ELSE transition
    /\ resumed' = IF tool[c] = "resume" THEN resumed \ {asked[c]}
                  ELSE resumed
    /\ Settle(c, "error")
    /\ UNCHANGED <<sessionVars, observed, references, generation, callVars,
                   cancelled, gathered>>

\* The control request succeeds: #completeControl, unless the request was
\* withdrawn meanwhile, which leaves the transition alone.
ControlSucceeded(c) ==
    /\ Answered(c, "control")
    /\ \/ /\ c \in cancelled
          /\ Settle(c, "cancelled")
          /\ UNCHANGED <<observed, references, transition>>
       \/ /\ c \notin cancelled /\ present
          /\ Sync(state)
          /\ Settle(c, "ok")
       \/ /\ c \notin cancelled /\ ~present
          /\ Cleanup
          /\ Settle(c, "error")
    /\ UNCHANGED <<sessionVars, generation, callVars, cancelled, gathered,
                   resumed>>

Answer(c) ==
    \/ AnswerUnused(c)
    \/ InspectionStale(c) \/ InspectionContinues(c) \/ InspectionPublishes(c)
    \/ ThreadChosen(c)
    \/ ControlFailed(c) \/ ControlSucceeded(c)

-----------------------------------------------------------------------------
(* The tracker and the session's life.                                     *)

\* A message that changes the projected state: onSessionStateChanged.
\* MaxGeneration bounds the generations of a behaviour.
Deliver(m) ==
    /\ present
    /\ Project(state, m) # state
    /\ Project(state, m).gen <= MaxGeneration
    /\ state' = Project(state, m)
    /\ Sync(state')
    /\ UNCHANGED <<frwVars, present, generation, callVars, cancelled,
                   handlerVars, resumed>>

\* The session is removed from the registry, on its end or its replacement:
\* references.invalidate and onSessionStateChanged, which finds it gone.
Remove ==
    /\ present
    /\ present' = FALSE
    /\ Cleanup
    /\ UNCHANGED <<frwVars, state, generation, callVars, cancelled,
                   handlerVars, resumed>>

Next ==
    \/ \E c \in Commands :
         \/ Call(c) \/ Cancel(c)
         \/ BeginRefused(c) \/ BeginInspection(c) \/ BeginControl(c)
         \/ Answer(c)
    \/ \E m \in Messages : Deliver(m)
    \/ Remove

SafeSpec == Init /\ [][Next]_vars

Begin(c) == BeginRefused(c) \/ BeginInspection(c) \/ BeginControl(c)

\* The queue starts what it grants and the adapter answers each request; no
\* client need call and no event need come.
Spec == SafeSpec /\ \A c \in Commands : WF_vars(Begin(c)) /\ WF_vars(Answer(c))

-----------------------------------------------------------------------------
(* Properties.                                                             *)

Steps == {"idle", "queued", "inspect", "choose", "control", "done"}

TypeOK ==
    /\ state \in [phase : Phases, gen : Nat]
    /\ present \in BOOLEAN
    /\ observed = None \/ observed \in [phase : Phases, gen : Nat]
    /\ transition = None \/ transition \in
         [left : [phase : Phases, gen : Nat], token : Commands]
    /\ references \subseteq Commands /\ cancelled \subseteq Commands
    /\ generation \in [Commands -> Nat]
    /\ tool \in [Commands -> Tools]
    /\ given \in [Commands -> Commands \cup {None}]
    /\ step \in [Commands -> Steps]
    /\ asked \in [Commands -> Nat]
    /\ resumed \subseteq Nat

\* Variables keep their types, and a reference that resolves belongs to the
\* stop the program is in: its session is there, stopped, in the reference's
\* generation, and no resume has been forwarded since.
ReferencesAreCurrent ==
    /\ TypeOK
    /\ \A r \in references :
         /\ present /\ state.phase = "stopped" /\ generation[r] = state.gen
         /\ state.gen \notin resumed

\* No inspection request of a stop is with the adapter once a resume of that
\* stop has been forwarded: the adapter never sees a handle it has dropped.
NoInspectionAfterResume ==
    \A c \in Commands : step[c] = "inspect" => asked[c] \notin resumed

\* All the pieces of a published result come from one stop, the one its
\* references are bound to.
ResultsAreCoherent ==
    \A c \in Issuers : \A i \in 1..Len(gathered[c]) :
      gathered[c][i] = generation[c]

\* A transition stands only while the state it left is still projected and
\* the control that began it is unanswered or was accepted: a failed control
\* never leaves the session looking as if it ran.
TransitionsAreEarned ==
    transition # None =>
      /\ present /\ transition.left = state
      /\ \/ step[transition.token] = "control"
         \/ /\ step[transition.token] = "done"
            /\ outcome[transition.token] \in {"ok", "cancelled"}

\* The state moves on, a resume is forwarded or the session goes.
StopEnds == state' # state \/ ~present' \/ resumed' # resumed

\* c ends with what it awaited in a state that the program has left.
EndsOutOfDate(c) ==
    /\ step[c] = "inspect" /\ outcome'[c] = "error"
    /\ context[c] # state

\* References end when their stop does (continue, step, reload, termination or
\* a new stop, as the design says) and, as it does not say, when the answer of
\* an inspection of an earlier state comes so late that they are already there
\* (#recheckStopped).  Nothing else ends them: no call that began in the current
\* stop, however it is answered, withdrawn or failed, takes the references of
\* the others with it, and what is left is never a part.
ReferencesEndForCause ==
    [][~(references \subseteq references')
         => /\ StopEnds \/ \E c \in Commands : EndsOutOfDate(c)
            /\ references' = {}]_vars

\* Every queued call settles, whatever is cancelled or removed meanwhile.
EveryCallSettles ==
    \A c \in Commands : step[c] = "queued" ~> step[c] = "done"
=============================================================================
