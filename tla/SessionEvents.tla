---------------------------- MODULE SessionEvents ----------------------------
(***************************************************************************)
(* The event side of one debug session: the tracker callback of            *)
(* extension.ts feeds the StateProjector and the EventBuffer, which share  *)
(* one sequence counter, and unity_debug_wait_for_event waits on the       *)
(* buffer (src/debug/eventBuffer.ts).  Every callback runs to its end; the *)
(* actions interleave callbacks of the tracker, of clients, of timers and  *)
(* of abort signals.                                                       *)
(***************************************************************************)
EXTENDS StateProjector, Sequences, FiniteSets

CONSTANTS Waiters,     \* the calls of waitFor
          Capacity,    \* EVENT_CAPACITY
          Filters,     \* the kind filters clients ask for
          MaxSequence  \* bound on the events of a behaviour

ASSUME CapacityAssumption == Capacity \in Nat \ {0}
ASSUME FiltersAssumption == \A f \in Filters : f \subseteq Kinds

VARIABLES state,        \* the projector's state
          cursor,       \* EventSequencer.#current, shared
          lastSequence, \* EventBuffer.#lastSequence
          events,       \* EventBuffer.#events, the ring
          waiters,      \* EventBuffer.#waiters
          timers,       \* the waiters whose timer is armed
          listeners,    \* the waiters whose abort listener is installed
          query,        \* per waiter: afterSequence and kinds
          outcome,      \* per waiter: how its promise was settled
          invalidated,  \* EventBuffer.#invalidatedError is set
          log,          \* history: every record ever stored
          oldest        \* history: per waiter, what the ring had dropped

bufferVars == <<cursor, lastSequence, events, log>>
waitVars == <<waiters, timers, listeners, query, outcome, oldest>>
vars == <<state, bufferVars, waitVars, invalidated>>

NotSettled == [by |-> "none"]
ResolvedWith(e) == [by |-> "event", event |-> e]
RejectedWith(why) == [by |-> why]

Init ==
    /\ state = Starting
    /\ cursor = 0 /\ lastSequence = 0
    /\ events = <<>> /\ log = <<>>
    /\ waiters = {} /\ timers = {} /\ listeners = {}
    /\ query = [w \in Waiters |-> [asked |-> FALSE]]
    /\ outcome = [w \in Waiters |-> NotSettled]
    /\ oldest = [w \in Waiters |-> 0]
    /\ invalidated = FALSE

-----------------------------------------------------------------------------
(* Helpers of EventBuffer.                                                 *)

Matches(e, q) == e.sequence > q.after /\ e.kind \in q.kinds

Matching(s, q) == {i \in 1..Len(s) : Matches(s[i], q)}

\* Fault: the newest match instead of the first.
LatestMatch(s, q) ==
    s[CHOOSE i \in Matching(s, q) : \A j \in Matching(s, q) : i >= j]

\* #find: the first retained event that matches.
FirstMatch(s, q) ==
    s[CHOOSE i \in Matching(s, q) : \A j \in Matching(s, q) : i <= j]

\* Fault: the timer is not cleared.
SettleKeepingTimers(ws) ==
    /\ waiters' = waiters \ ws
    /\ listeners' = listeners \ ws
    /\ UNCHANGED timers

\* #settle for every waiter in ws: forget it, its timer and its listener.
Settle(ws) ==
    /\ waiters' = waiters \ ws
    /\ timers' = timers \ ws
    /\ listeners' = listeners \ ws

\* #reject for every waiter in ws that is not settled yet.
Reject(ws, why) ==
    /\ Settle(ws)
    /\ outcome' = [w \in Waiters |->
                     IF w \in ws /\ outcome[w] = NotSettled
                     THEN RejectedWith(why) ELSE outcome[w]]

\* Fault: one event too few is kept.
PushOffByOne(s, e) == LET t == Append(s, e)
                      IN  IF Len(t) >= Capacity THEN Tail(t) ELSE t

\* events.push, shift when over capacity.
Push(s, e) == LET t == Append(s, e)
              IN  IF Len(t) > Capacity THEN Tail(t) ELSE t

\* Fault: the waiters are not looked at.
StoreSilently(e) ==
    /\ lastSequence' = e.sequence
    /\ events' = Push(events, e)
    /\ log' = Append(log, e)
    /\ UNCHANGED waitVars

\* #store: append the record and resolve the waiters it matches.
Store(e) ==
    LET woken == {w \in waiters : Matches(e, query[w])}
    IN  /\ lastSequence' = e.sequence
        /\ events' = Push(events, e)
        /\ log' = Append(log, e)
        /\ Settle(woken)
        /\ outcome' = [w \in Waiters |->
                         IF w \in woken /\ outcome[w] = NotSettled
                         THEN ResolvedWith(e) ELSE outcome[w]]
        /\ UNCHANGED <<query, oldest>>

-----------------------------------------------------------------------------
(* The tracker callback, acceptAdapterMessage of extension.ts.             *)

\* The projector has allocated the sequence; appendProjected takes it only
\* if it is the one after the last stored, and throws otherwise.
StoreProjected(m) ==
    LET kind == ProjectedKind(state, m)
        next == Project(state, m)
    IN  /\ kind # "none"
        /\ state' = next
        /\ cursor' = cursor + 1
        /\ IF cursor' = lastSequence + 1
           THEN Store([sequence |-> cursor', kind |-> kind,
                       phase |-> next.phase, gen |-> next.gen])
           ELSE UNCHANGED <<lastSequence, events, log, waitVars>>

\* appendOrdinaryEvent: the kind depends on the phase before the message.
OrdinaryKind(s, m) ==
    CASE m = "breakpoint" -> "breakpoint"
      [] m \in {"output", "reloadDetected", "reloadComplete"} ->
           IF s.phase = "reloading" THEN "reload-progress" ELSE "output"
      [] OTHER -> "none"

StoreOrdinary(m) ==
    LET kind == OrdinaryKind(state, m)
    IN  /\ ProjectedKind(state, m) = "none"
        /\ kind # "none"
        /\ UNCHANGED state
        /\ IF cursor = lastSequence
           THEN /\ cursor' = cursor + 1
                /\ Store([sequence |-> cursor', kind |-> kind])
           ELSE UNCHANGED <<bufferVars, waitVars>>

\* A message that leaves no event: the attach response, or nothing at all.
StoreNothing(m) ==
    /\ ProjectedKind(state, m) = "none"
    /\ OrdinaryKind(state, m) = "none"
    /\ state' = Project(state, m)
    /\ UNCHANGED <<bufferVars, waitVars>>

\* MaxSequence bounds the events of a behaviour.
Deliver(m) ==
    /\ cursor < MaxSequence
    /\ StoreProjected(m) \/ StoreOrdinary(m) \/ StoreNothing(m)
    /\ UNCHANGED invalidated

-----------------------------------------------------------------------------
(* Waits.                                                                  *)

\* The sequence numbers up to this one have left the ring.
Dropped == IF events = <<>> THEN 0 ELSE events[1].sequence - 1

\* waitFor that settles at once: the buffer is invalidated, the signal is
\* already aborted, or a retained event matches.
WaitForSettled(w, after, kinds, aborted) ==
    LET q == [asked |-> TRUE, after |-> after, kinds |-> kinds]
    IN  /\ ~query[w].asked
        /\ invalidated \/ aborted \/ Matching(events, q) # {}
        /\ query' = [query EXCEPT ![w] = q]
        /\ oldest' = [oldest EXCEPT ![w] = Dropped]
        /\ outcome' = [outcome EXCEPT ![w] =
                         IF invalidated THEN RejectedWith("invalidated")
                         ELSE IF aborted THEN RejectedWith("cancelled")
                         ELSE ResolvedWith(FirstMatch(events, q))]
        /\ UNCHANGED <<state, bufferVars, waiters, timers, listeners,
                       invalidated>>

\* Fault: no timer is armed.
WaitForUntimed(w, after, kinds) ==
    LET q == [asked |-> TRUE, after |-> after, kinds |-> kinds]
    IN  /\ ~query[w].asked
        /\ ~invalidated /\ Matching(events, q) = {}
        /\ query' = [query EXCEPT ![w] = q]
        /\ oldest' = [oldest EXCEPT ![w] = Dropped]
        /\ waiters' = waiters \cup {w}
        /\ listeners' = listeners \cup {w}
        /\ UNCHANGED <<state, bufferVars, timers, outcome, invalidated>>

\* waitFor that registers a waiter; the rescan after registration finds what
\* the first scan found, because the callback is not interrupted.
WaitForRegistered(w, after, kinds) ==
    LET q == [asked |-> TRUE, after |-> after, kinds |-> kinds]
    IN  /\ ~query[w].asked
        /\ ~invalidated /\ Matching(events, q) = {}
        /\ query' = [query EXCEPT ![w] = q]
        /\ oldest' = [oldest EXCEPT ![w] = Dropped]
        /\ waiters' = waiters \cup {w}
        /\ timers' = timers \cup {w}
        /\ listeners' = listeners \cup {w}
        /\ UNCHANGED <<state, bufferVars, outcome, invalidated>>

WaitFor(w) ==
    \E after \in 0..MaxSequence, kinds \in Filters :
      \/ \E aborted \in BOOLEAN : WaitForSettled(w, after, kinds, aborted)
      \/ WaitForRegistered(w, after, kinds)

TimeOut(w) ==
    /\ w \in timers
    /\ Reject({w}, "timeout")
    /\ UNCHANGED <<state, bufferVars, query, oldest, invalidated>>

Abort(w) ==
    /\ w \in listeners
    /\ Reject({w}, "cancelled")
    /\ UNCHANGED <<state, bufferVars, query, oldest, invalidated>>

\* The session was removed or replaced, or the extension is disposed.  The
\* tracker may still deliver messages while a disposal is under way.
Invalidate ==
    /\ ~invalidated
    /\ invalidated' = TRUE
    /\ Reject(waiters, "invalidated")
    /\ UNCHANGED <<state, bufferVars, query, oldest>>

Next ==
    \/ \E m \in Messages : Deliver(m)
    \/ \E w \in Waiters : WaitFor(w) \/ TimeOut(w) \/ Abort(w)
    \/ Invalidate

SafeSpec == Init /\ [][Next]_vars

\* Armed timers fire.  No adapter need send anything and no client need call.
Spec == SafeSpec /\ \A w \in Waiters : WF_vars(TimeOut(w))

-----------------------------------------------------------------------------
(* Properties.                                                             *)

Record == [sequence : Nat \ {0}, kind : Kinds \ ProjectedKinds]
          \cup [sequence : Nat \ {0}, kind : ProjectedKinds, phase : Phases,
                gen : Nat]

TypeOK ==
    /\ state \in [phase : Phases, gen : Nat]
    /\ cursor \in Nat /\ lastSequence \in Nat
    /\ events \in Seq(Record) /\ log \in Seq(Record)
    /\ waiters \subseteq Waiters
    /\ timers \subseteq Waiters /\ listeners \subseteq Waiters
    /\ invalidated \in BOOLEAN
    /\ \A w \in Waiters : outcome[w].by \in {"none", "event", "timeout",
                                             "cancelled", "invalidated"}

\* Variables keep their types, and projector and buffer never lose step: no accepted event is dropped by the
\* sequence checks of append and appendProjected, whose errors the tracker
\* swallows, and the ring holds the latest Capacity events without a gap.
NoEventIsLost ==
    /\ TypeOK
    /\ cursor = lastSequence
    /\ Len(log) = cursor
    /\ \A i \in 1..Len(log) : log[i].sequence = i
    /\ LET kept == IF cursor > Capacity THEN Capacity ELSE cursor
       IN  events = SubSeq(log, cursor - kept + 1, cursor)

\* No client sleeps through an event: what was in the ring when its wait
\* began or came later, and matches, has woken it.
NoLostWakeup ==
    \A w \in waiters :
      \A i \in 1..Len(log) : i > oldest[w] => ~Matches(log[i], query[w])

\* A wait resolves with the first matching event after afterSequence that the
\* ring still held when the wait began, whatever raced with it.
FirstRetainedMatch ==
    \A w \in Waiters : outcome[w].by = "event" =>
      LET e == outcome[w].event
      IN  /\ Matches(e, query[w])
          /\ \A i \in 1..(e.sequence - 1) :
               i > oldest[w] => ~Matches(log[i], query[w])

\* Timers and listeners live exactly as long as the wait they belong to, an
\* answered wait is not waited for, and no wait outlives the session.
NothingOutlivesAWait ==
    /\ timers = waiters /\ listeners = waiters
    /\ \A w \in Waiters :
         w \in waiters <=> query[w].asked /\ outcome[w] = NotSettled
    /\ invalidated => waiters = {}

\* A phase and generation that was left never comes back, so comparing both
\* after an await is enough to notice everything that happened meanwhile; a
\* terminated session stays terminated.
StatesNeverReturn ==
    [][state' # state => After(state', state)]_vars

\* Every wait is answered, at the latest by its timer.
EveryWaitIsAnswered ==
    \A w \in Waiters : query[w].asked ~> outcome[w] # NotSettled
=============================================================================
