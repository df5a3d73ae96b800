-------------------------- MODULE SessionLifecycle --------------------------
(***************************************************************************)
(* How debug sessions come into the extension's tables and leave them, and *)
(* how clients attach to them and wait for their end: the lifecycle        *)
(* callbacks of src/extension.ts, SessionRegistry (src/debug/              *)
(* sessionRegistry.ts) and the attach, disconnect, status and              *)
(* wait_for_event tools of src/tools/toolDispatcher.ts.                    *)
(*                                                                         *)
(* VS Code is external: it creates session objects, possibly several under *)
(* one identifier, and reports their start and end.  A callback runs to    *)
(* its end and then the microtasks it queued run, oldest first, before the *)
(* next callback.  All sessions belong to the one workspace root clients   *)
(* attach to.                                                              *)
(***************************************************************************)
EXTENDS Naturals, Sequences, FiniteSets

CONSTANTS Sessions, \* the debug session objects of VS Code
          Ids,      \* their identifiers
          IdOf,     \* the identifier of each session
          Clients,  \* MCP connections
          None      \* no entry, no runtime

ASSUME IdOfAssumption == IdOf \in [Sessions -> Ids]
ASSUME NoneAssumption ==
    /\ None \notin [ref : Nat, session : Sessions, tracked : BOOLEAN]
    /\ None \notin [ref : Nat, session : Sessions, phase : {"live", "terminated"}]
ASSUME ClientsAssumption == IsFiniteSet(Clients)

VARIABLES world,      \* per session: what VS Code has done with it
          announced,  \* the sessions whose start was reported
          entry,      \* SessionRegistry.#bySessionId
          lastRef,    \* how many session references were issued
          runtime,    \* runtimeBySessionId
          byRef,      \* the keys of runtimeBySessionRef
          observed,   \* the keys of the dispatcher's #observedStates
          microtasks, \* what the current callback queued
          gate,       \* the attach queue
          starting,   \* the head of the gate awaits startAttach
          call,       \* per client: the call it has under way
          watched,    \* per client: the session it waits on, and for its end?
          selection,  \* per client: ClientState.selectionRef, 0 if undefined
          told,       \* per client: what its last call came to
          replaced    \* history: references whose session was replaced

worldVars == <<world, announced>>
tableVars == <<entry, lastRef, runtime, byRef, observed>>
attachVars == <<gate, starting, selection>>
vars == <<worldVars, tableVars, microtasks, attachVars, call, watched, told,
          replaced>>

Entry(ref, s, tracked) == [ref |-> ref, session |-> s, tracked |-> tracked]
Runtime(ref, s) == [ref |-> ref, session |-> s, phase |-> "live"]

\* The sessions that were there before activation have no tracker; one of
\* them may be the active one, which activation registers.
Init ==
    /\ world \in [Sessions -> {"unborn", "older"}]
    /\ announced = {}
    /\ \/ entry = [i \in Ids |-> None] /\ lastRef = 0
       \/ \E s \in Sessions :
            /\ world[s] = "older"
            /\ entry = [i \in Ids |-> IF i = IdOf[s] THEN Entry(1, s, FALSE)
                                                     ELSE None]
            /\ lastRef = 1
    /\ runtime = [i \in Ids |-> None]
    /\ byRef = {} /\ observed = {}
    /\ microtasks = <<>>
    /\ gate = <<>> /\ starting = FALSE
    /\ call = [k \in Clients |-> "none"]
    /\ watched = [k \in Clients |-> [ref |-> 0, end |-> FALSE]]
    /\ selection = [k \in Clients |-> 0]
    /\ told = [k \in Clients |-> <<"nothing">>]
    /\ replaced = {}

-----------------------------------------------------------------------------
(* Helpers.                                                                *)

Entries == {entry[i] : i \in {j \in Ids : entry[j] # None}}
LiveRefs == {e.ref : e \in Entries}
Tracked == {e \in Entries : e.tracked}

RuntimeRefs(i) == IF runtime[i] = None THEN {} ELSE {runtime[i].ref}

\* #cleanupSessionRuntime
Forget(refs) == observed \ refs

\* The next callback comes when the microtasks of the last one have run.
AtRest == microtasks = <<>>

WaitingOn(ref) == {k \in Clients : call[k] = "wait" /\ watched[k].ref = ref}
WaitingForEnd(ref) == {k \in WaitingOn(ref) : watched[k].end}

Resume(k, how) == [run |-> "resume", client |-> k, how |-> how]

\* The waits in ks settle: their calls go on in microtasks, in any order.
\* The callback then queues what is in after.
Release(ks, how, queue, after) ==
    /\ \E order \in {q \in [1..Cardinality(ks) -> ks] :
                       \A i, j \in DOMAIN q : i # j => q[i] # q[j]} :
         microtasks' = queue \o [i \in DOMAIN order |-> Resume(order[i], how)]
                             \o after
    /\ call' = [k \in Clients |-> IF k \in ks THEN "resuming" ELSE call[k]]

\* removeReplacedSession finds another object under the identifier of s.
Evicts(s) == entry[IdOf[s]] # None /\ entry[IdOf[s]].session # s

EvictedRefs(s) == IF Evicts(s) THEN {entry[IdOf[s]].ref} ELSE {}

\* SessionRegistry.register, after an eviction if there is one.
Register(s, tracked) ==
    LET i == IdOf[s]
    IN  IF entry[i] = None \/ Evicts(s)
        THEN /\ lastRef' = lastRef + 1
             /\ entry' = [entry EXCEPT ![i] = Entry(lastRef', s, tracked)]
        ELSE /\ entry' = [entry EXCEPT ![i] =
                            Entry(@.ref, s, @.tracked \/ tracked)]
             /\ UNCHANGED lastRef

-----------------------------------------------------------------------------
(* Callbacks of VS Code.                                                   *)

\* onDidStartDebugSession
DidStart(s) ==
    LET i == IdOf[s]
        drops == Evicts(s) /\ runtime[i] # None
                 /\ runtime[i].session = entry[i].session
    IN  /\ AtRest
        /\ world[s] \in {"live", "older"} /\ s \notin announced
        /\ announced' = announced \cup {s}
        /\ Register(s, FALSE)
        /\ observed' = Forget(EvictedRefs(s))
        /\ replaced' = replaced \cup EvictedRefs(s)
        /\ IF drops
           THEN /\ runtime' = [runtime EXCEPT ![i] = None]
                /\ byRef' = byRef \ RuntimeRefs(i)
                /\ Release(WaitingOn(runtime[i].ref), "notAttached", <<>>, <<>>)
           ELSE UNCHANGED <<runtime, byRef, microtasks, call>>
        /\ UNCHANGED <<world, attachVars, watched, told>>

\* Fault: the runtime that is replaced stays in the table by reference.
TrackerCreatedLeaking(s) ==
    LET i == IdOf[s]
    IN  /\ AtRest
        /\ world[s] = "unborn"
        /\ world' = [world EXCEPT ![s] = "live"]
        /\ Register(s, TRUE)
        /\ replaced' = replaced \cup EvictedRefs(s)
        /\ runtime' = [runtime EXCEPT ![i] = Runtime(entry'[i].ref, s)]
        /\ observed' = Forget(EvictedRefs(s)) \cup {entry'[i].ref}
        /\ byRef' = byRef \cup {entry'[i].ref}
        /\ Release(UNION {WaitingOn(r) : r \in RuntimeRefs(i)}, "notAttached",
                   <<>>, <<>>)
        /\ UNCHANGED <<announced, attachVars, watched, told>>

\* createTracker; VS Code asks for a tracker once, when it starts a session.
TrackerCreated(s) ==
    LET i == IdOf[s]
    IN  /\ AtRest
        /\ world[s] = "unborn"
        /\ world' = [world EXCEPT ![s] = "live"]
        /\ Register(s, TRUE)
        /\ replaced' = replaced \cup EvictedRefs(s)
        /\ runtime' = [runtime EXCEPT ![i] = Runtime(entry'[i].ref, s)]
        /\ observed' = Forget(EvictedRefs(s)) \cup {entry'[i].ref}
        /\ byRef' = (byRef \ RuntimeRefs(i)) \cup {entry'[i].ref}
        /\ Release(UNION {WaitingOn(r) : r \in RuntimeRefs(i)}, "notAttached",
                   <<>>, <<>>)
        /\ UNCHANGED <<announced, attachVars, watched, told>>

\* acceptAdapterMessage of a terminated event for the session of runtime i:
\* waits for it are resolved; the callback then queues what is in after.
AcceptTerminated(i, after) ==
    /\ runtime' = [runtime EXCEPT ![i].phase = "terminated"]
    /\ observed' = IF runtime[i].ref \in LiveRefs
                   THEN observed \cup {runtime[i].ref}
                   ELSE observed \ {runtime[i].ref}
    /\ Release(WaitingForEnd(runtime[i].ref), "event", <<>>, after)

\* The tracker hands the adapter's terminated event over, unless its session
\* has been replaced.
AdapterTerminates(s) ==
    LET i == IdOf[s]
    IN  /\ AtRest
        /\ runtime[i] # None /\ runtime[i].session = s
        /\ runtime[i].phase = "live"
        /\ AcceptTerminated(i, <<>>)
        /\ UNCHANGED <<worldVars, entry, lastRef, byRef, attachVars, watched,
                       told, replaced>>

Removal(s, ref) == [run |-> "remove", session |-> s, ref |-> ref]

\* Fault: the session is removed before its waits hear of its end.
DidTerminateEagerly(s) ==
    LET i == IdOf[s]
    IN  /\ AtRest
        /\ world[s] \in {"live", "older"}
        /\ world' = [world EXCEPT ![s] = "ended"]
        /\ IF entry[i] = None \/ (runtime[i] # None /\ runtime[i].session # s)
           THEN UNCHANGED <<runtime, observed, microtasks, call>>
           ELSE /\ microtasks' = <<Removal(s, entry[i].ref)>>
                /\ UNCHANGED <<runtime, observed, call>>
        /\ UNCHANGED <<announced, entry, lastRef, byRef, attachVars, watched,
                       told, replaced>>

\* onDidTerminateDebugSession: the synchronous part of terminateSession.
DidTerminate(s) ==
    LET i == IdOf[s]
    IN  /\ AtRest
        /\ world[s] \in {"live", "older"}
        /\ world' = [world EXCEPT ![s] = "ended"]
        /\ IF entry[i] = None \/ (runtime[i] # None /\ runtime[i].session # s)
           THEN UNCHANGED <<runtime, observed, microtasks, call>>
           ELSE LET removal == <<Removal(s, entry[i].ref)>>
                IN  IF runtime[i] # None /\ runtime[i].phase = "live"
                    THEN AcceptTerminated(i, removal)
                    ELSE /\ microtasks' = removal
                         /\ UNCHANGED <<runtime, observed, call>>
        /\ UNCHANGED <<announced, entry, lastRef, byRef, attachVars, watched,
                       told, replaced>>

-----------------------------------------------------------------------------
(* Microtasks.                                                             *)

\* Fault: whatever session has the identifier now is removed.
RemovesAnySession(m) == entry[IdOf[m.session]] # None

\* Fault: a session without a projector stays.
RemovesTracked(m) ==
    LET i == IdOf[m.session]
    IN  entry[i] # None /\ entry[i].ref = m.ref /\ runtime[i] # None

\* The microtask of terminateSession still finds its own session.
Removes(m) ==
    LET e == entry[IdOf[m.session]]
    IN  e # None /\ e.ref = m.ref /\ e.session = m.session

\* The removal that terminateSession put off.
Remove ==
    /\ ~AtRest /\ Head(microtasks).run = "remove"
    /\ LET m == Head(microtasks)
           i == IdOf[m.session]
       IN  IF Removes(m)
           THEN /\ entry' = [entry EXCEPT ![i] = None]
                /\ runtime' = [runtime EXCEPT ![i] = None]
                /\ byRef' = byRef \ RuntimeRefs(i)
                /\ observed' = Forget({m.ref})
                /\ Release(WaitingOn(m.ref), "notAttached", Tail(microtasks), <<>>)
           ELSE /\ microtasks' = Tail(microtasks)
                /\ UNCHANGED <<entry, runtime, byRef, observed, call>>
    /\ UNCHANGED <<worldVars, lastRef, attachVars, watched, told, replaced>>

\* A wait that was settled goes on: #freshLiveState decides what is told.
ResumeWait ==
    /\ ~AtRest /\ Head(microtasks).run = "resume"
    /\ LET m == Head(microtasks)
           k == m.client
           ref == watched[k].ref
           fresh == m.how = "event" /\ \E e \in Tracked : e.ref = ref
       IN  /\ call' = [call EXCEPT ![k] = "none"]
           /\ told' = [told EXCEPT ![k] = IF fresh THEN <<"event">>
                                          ELSE <<"notAttached", ref>>]
           /\ observed' = IF fresh THEN observed \cup {ref}
                          ELSE IF m.how = "event" THEN observed \ {ref}
                          ELSE observed
    /\ microtasks' = Tail(microtasks)
    /\ UNCHANGED <<worldVars, entry, lastRef, runtime, byRef, attachVars,
                   watched, replaced>>

-----------------------------------------------------------------------------
(* Clients.                                                                *)

\* unity_debug_wait_for_event, with a filter that lets the terminated event
\* through or not.
Wait(k) ==
    /\ AtRest /\ call[k] = "none"
    /\ \E i \in Ids, end \in BOOLEAN :
         /\ entry[i] # None /\ entry[i].tracked
         /\ entry[i].ref \in byRef
         /\ watched' = [watched EXCEPT ![k] = [ref |-> entry[i].ref, end |-> end]]
         /\ observed' = observed \cup {entry[i].ref}
         /\ IF end /\ runtime[i].phase = "terminated"
            THEN /\ call' = [call EXCEPT ![k] = "resuming"]
                 /\ microtasks' = <<Resume(k, "event")>>
            ELSE /\ call' = [call EXCEPT ![k] = "wait"]
                 /\ UNCHANGED microtasks
    /\ told' = [told EXCEPT ![k] = <<"nothing">>]
    /\ UNCHANGED <<worldVars, entry, lastRef, runtime, byRef, attachVars,
                   replaced>>

\* A wait times out or is cancelled.
WaitEnds(k) ==
    /\ AtRest /\ call[k] = "wait"
    /\ call' = [call EXCEPT ![k] = "none"]
    /\ UNCHANGED <<worldVars, tableVars, microtasks, attachVars, watched, told,
                   replaced>>

\* unity_debug_attach takes its place in the attach queue.
Attach(k) ==
    /\ AtRest /\ call[k] = "none"
    /\ call' = [call EXCEPT ![k] = "attach"]
    /\ gate' = Append(gate, k)
    /\ told' = [told EXCEPT ![k] = <<"nothing">>]
    /\ UNCHANGED <<worldVars, tableVars, microtasks, starting, selection,
                   watched, replaced>>

\* The head of the attach queue ends and the next command may run.
LeaveGate(k, what) ==
    /\ gate' = Tail(gate)
    /\ starting' = FALSE
    /\ call' = [call EXCEPT ![k] = IF @ = "gone" THEN @ ELSE "none"]
    /\ told' = [told EXCEPT ![k] = what]

Phase(e) == IF runtime[IdOf[e.session]] = None THEN "starting"
            ELSE runtime[IdOf[e.session]].phase

\* The client has the session: #attachedStatus, then its selection.
Select(k, e, how) ==
    /\ LeaveGate(k, <<how, Phase(e)>>)
    /\ selection' = [selection EXCEPT ![k] = e.ref]
    /\ observed' = observed \cup {e.ref}

\* #attachUnderGate up to startAttach: one tracked session of the root is
\* reused, several are ambiguous, and without any a session is started.
AttachBegins ==
    /\ AtRest /\ gate # <<>> /\ ~starting
    /\ LET k == Head(gate)
       IN  \/ /\ call[k] = "gone" \/ Cardinality(Tracked) > 1
              /\ LeaveGate(k, <<"refused">>)
              /\ UNCHANGED <<selection, observed>>
           \/ /\ call[k] # "gone"
              /\ \E e \in Tracked : Tracked = {e} /\ Select(k, e, "reused")
           \/ /\ call[k] # "gone" /\ Tracked = {}
              /\ starting' = TRUE
              /\ UNCHANGED <<gate, selection, call, told, observed>>
    /\ UNCHANGED <<worldVars, entry, lastRef, runtime, byRef, microtasks,
                   watched, replaced>>

\* startAttach fails, or names a session that is tracked by now or is not.
AttachEnds ==
    /\ AtRest /\ starting
    /\ LET k == Head(gate)
       IN  \/ /\ LeaveGate(k, <<"refused">>)
              /\ UNCHANGED <<selection, observed>>
           \/ /\ call[k] # "gone"
              /\ \E e \in Tracked : Select(k, e, "started")
    /\ UNCHANGED <<worldVars, entry, lastRef, runtime, byRef, microtasks,
                   watched, replaced>>

\* unity_debug_status of the cached selection, which a session that has gone
\* clears.
Status(k) ==
    /\ AtRest /\ call[k] = "none" /\ selection[k] # 0
    /\ IF selection[k] \in LiveRefs
       THEN /\ observed' = observed \cup {selection[k]}
            /\ UNCHANGED selection
       ELSE /\ selection' = [selection EXCEPT ![k] = 0]
            /\ UNCHANGED observed
    /\ told' = [told EXCEPT ![k] = <<"nothing">>]
    /\ UNCHANGED <<worldVars, entry, lastRef, runtime, byRef, microtasks, gate,
                   starting, call, watched, replaced>>

\* unity_debug_disconnect drops the selection; with terminateSession it also
\* asks VS Code to end the session, which then reports it like any other end.
Disconnect(k) ==
    /\ AtRest /\ call[k] = "none" /\ selection[k] \in LiveRefs
    /\ selection' = [selection EXCEPT ![k] = 0]
    /\ UNCHANGED <<worldVars, tableVars, microtasks, gate, starting, call,
                   watched, told, replaced>>

\* The connection ends: onDisconnect, and the signals of its calls fire.
ClientGone(k) ==
    /\ AtRest /\ call[k] # "gone"
    /\ call' = [call EXCEPT ![k] = "gone"]
    /\ selection' = [selection EXCEPT ![k] = 0]
    /\ told' = [told EXCEPT ![k] = <<"nothing">>]
    /\ UNCHANGED <<worldVars, tableVars, microtasks, gate, starting, watched,
                   replaced>>

Next ==
    \/ \E s \in Sessions :
         DidStart(s) \/ TrackerCreated(s) \/ AdapterTerminates(s) \/ DidTerminate(s)
    \/ Remove \/ ResumeWait
    \/ \E k \in Clients :
         \/ Wait(k) \/ WaitEnds(k) \/ Attach(k)
         \/ Status(k) \/ Disconnect(k) \/ ClientGone(k)
    \/ AttachBegins \/ AttachEnds

Spec == Init /\ [][Next]_vars

-----------------------------------------------------------------------------
(* Properties.                                                             *)

TypeOK ==
    /\ world \in [Sessions -> {"unborn", "older", "live", "ended"}]
    /\ announced \subseteq Sessions
    /\ entry \in [Ids -> [ref : 1..lastRef, session : Sessions,
                          tracked : BOOLEAN] \cup {None}]
    /\ lastRef \in Nat
    /\ runtime \in [Ids -> [ref : 1..lastRef, session : Sessions,
                            phase : {"live", "terminated"}] \cup {None}]
    /\ byRef \subseteq 1..lastRef /\ observed \subseteq 1..lastRef
    /\ gate \in Seq(Clients) /\ starting \in BOOLEAN
    /\ starting => gate # <<>>
    /\ call \in [Clients -> {"none", "wait", "resuming", "attach", "gone"}]
    /\ selection \in [Clients -> 0..lastRef]

\* Variables keep their types, and the registry and the two runtime tables
\* tell one story between callbacks:
\* a session is tracked exactly when it has a projector and a buffer, and
\* both tables and the registry name the same object and reference.
TablesAgree ==
    /\ TypeOK
    /\ \A i \in Ids :
         (entry[i] # None /\ entry[i].tracked) <=> runtime[i] # None
    /\ \A i \in Ids : runtime[i] # None =>
         /\ runtime[i].ref = entry[i].ref
         /\ runtime[i].session = entry[i].session
    /\ byRef = {runtime[i].ref : i \in {j \in Ids : runtime[j] # None}}

\* When VS Code has reported the end of a session and the callback is over,
\* no table knows the session any more; the dispatcher keeps nothing of one
\* that has left the registry.
EndedSessionsAreForgotten ==
    /\ AtRest => \A s \in Sessions : world[s] = "ended" =>
         entry[IdOf[s]] = None \/ entry[IdOf[s]].session # s
    /\ observed \subseteq LiveRefs

\* A reference names one session object for ever, so what a client attached to
\* is never exchanged under it: an entry stays as it is, is taken over by
\* another object under a new reference, or goes when the end of its own
\* object was reported - a late report about an object that was replaced does
\* no harm to the one that replaced it.
ReferencesKeepTheirSession ==
    [][\A i \in Ids :
         LET e == entry[i]
             f == entry'[i]
         IN  \/ f # None /\ e # None /\ f.ref = e.ref /\ f.session = e.session
             \/ f # None /\ f.ref > lastRef
                /\ (e # None => f.session # e.session)
             \/ f = None /\ (e # None => world[e.session] = "ended")]_vars

\* Whoever waits for the end of a session hears of it as an event, although
\* the session leaves the registry at the same time; only a replaced session
\* ends its waits without one.
WaitersHearOfTheEnd ==
    \A k \in Clients : told[k][1] = "notAttached" /\ watched[k].end
      => told[k][2] \in replaced

\* What the design says of attach: it reuses a matching active session.
ReusedSessionsAreActive ==
    \A k \in Clients : told[k][1] = "reused" => told[k][2] # "terminated"
=============================================================================
