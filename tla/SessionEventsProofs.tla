------------------------- MODULE SessionEventsProofs -------------------------
(***************************************************************************)
(* Proofs about SessionEvents, for any waiters, any filters, any capacity  *)
(* of the ring and any bound on the events.                                *)
(***************************************************************************)
EXTENDS SessionEvents, SequenceTheorems, WellFoundedInduction, TLAPS

-----------------------------------------------------------------------------
(* The invariant.                                                          *)

States == [phase : Phases, gen : Nat]

Queries == [asked : {FALSE}]
           \cup [asked : {TRUE}, after : Nat, kinds : SUBSET Kinds]

Outcomes == {NotSettled} \cup [by : {"event"}, event : Record]
            \cup [by : {"timeout", "cancelled", "invalidated"}]

\* The types of what TypeOK leaves out.
DataInv ==
    /\ query \in [Waiters -> Queries]
    /\ outcome \in [Waiters -> Outcomes]
    /\ oldest \in [Waiters -> Nat]

Kept == IF cursor > Capacity THEN Capacity ELSE cursor

\* Counters, log and ring keep step; the ring holds the end of the log.
LogInv ==
    /\ cursor = lastSequence /\ Len(log) = cursor
    /\ \A i \in 1..cursor : log[i].sequence = i
    /\ Len(events) = Kept
    /\ \A i \in 1..Kept : events[i] = log[cursor - Kept + i]

WaitInv ==
    /\ NothingOutlivesAWait
    /\ \A w \in Waiters : outcome[w] # NotSettled => query[w].asked

\* That w, if it resolved with e, did so with the first event that matches: e
\* is in the log, where its sequence says, and nothing before it would have done.
RightFor(w, e) ==
    /\ e.sequence \in 1..cursor /\ log[e.sequence] = e
    /\ Matches(e, query[w])
    /\ \A i \in 1..(e.sequence - 1) : i > oldest[w] => ~Matches(log[i], query[w])

MatchInv ==
    \A w \in Waiters : outcome[w].by = "event" => RightFor(w, outcome[w].event)

Inv == TypeOK /\ DataInv /\ LogInv /\ WaitInv /\ NoLostWakeup /\ MatchInv

-----------------------------------------------------------------------------
(* The states of a session.                                                *)

\* A message that projects to an event moves the state, and forward.
LEMMA TransitionIsAfter ==
    ASSUME NEW s \in States, NEW m \in Messages, ProjectedKind(s, m) # "none"
    PROVE  /\ ProjectedKind(s, m) \in ProjectedKinds
           /\ Project(s, m) \in States /\ After(Project(s, m), s)
<1> DEFINE k == ProjectedKind(s, m)
<1>1. /\ s.gen \in Nat /\ s.phase \in Phases
  BY DEF States
<1>2. \/ k = "stopped"
      \/ k = "continued" /\ s.phase = "stopped"
      \/ k = "terminated" /\ s.phase # "terminated"
      \/ k = "reload-started" /\ s.phase = "running"
      \/ k = "reload-completed" /\ s.phase = "reloading"
  BY DEF ProjectedKind
<1>3. Project(s, m) = Transition(s, k)
  BY DEF Project
<1> HIDE DEF k
<1>4. PhaseAfter(k) \in Phases /\ GenerationStep(s, k) \in {0, 1}
  BY <1>2 DEF PhaseAfter, GenerationStep, Phases
<1>5. GenerationStep(s, k) = 0 => Rank(PhaseAfter(k)) > Rank(s.phase)
  <2>1. CASE k \in {"stopped", "continued", "reload-completed"}
    BY <2>1 DEF GenerationStep
  <2>2. CASE k = "terminated"
    <3>1. Rank(PhaseAfter(k)) = 3
      BY <2>2 DEF PhaseAfter, Rank
    <3>2. GenerationStep(s, k) = 0 => s.phase \in {"starting", "running"}
      BY <1>1, <1>2, <2>2 DEF GenerationStep, Phases
    <3>3. Rank("starting") = 0 /\ Rank("running") = 1
      BY DEF Rank
    <3> QED
      BY <3>1, <3>2, <3>3
  <2>3. CASE k = "reload-started" /\ s.phase = "running"
    BY <2>3 DEF PhaseAfter, Rank
  <2> QED
    BY <1>2, <2>1, <2>2, <2>3
<1>6. Transition(s, k) \in States
  BY <1>1, <1>4 DEF Transition, States
<1>7. After(Transition(s, k), s)
  <2>1. /\ Transition(s, k).gen = s.gen + GenerationStep(s, k)
        /\ Transition(s, k).phase = PhaseAfter(k)
    BY DEF Transition
  <2> QED
    BY <1>1, <1>4, <1>5, <2>1 DEF After
<1>8. k \in ProjectedKinds
  BY <1>2 DEF ProjectedKinds
<1> QED
  BY <1>3, <1>6, <1>7, <1>8 DEF k

\* Whatever the message, the state is kept or moves forward.
LEMMA ProjectIsAfter ==
    ASSUME NEW s \in States, NEW m \in Messages
    PROVE  /\ Project(s, m) \in States
           /\ Project(s, m) # s => After(Project(s, m), s)
<1>1. CASE ProjectedKind(s, m) # "none"
  BY <1>1, TransitionIsAfter
<1>2. CASE ProjectedKind(s, m) = "none" /\ m = "attached" /\ s.phase = "starting"
  <2>1. Project(s, m) = [s EXCEPT !.phase = "running"]
    BY <1>2 DEF Project, AcceptAttached
  <2>2. Project(s, m) \in States /\ Project(s, m).gen = s.gen
        /\ Project(s, m).phase = "running"
    BY <2>1 DEF States, Phases
  <2> QED
    BY <1>2, <2>2 DEF After, Rank
<1>3. CASE ProjectedKind(s, m) = "none" /\ ~(m = "attached" /\ s.phase = "starting")
  BY <1>3 DEF Project
<1> QED
  BY <1>1, <1>2, <1>3

-----------------------------------------------------------------------------
(* The steps, reduced to what they do to the buffer and its waiters.       *)

\* A record is stored under the next sequence number.
Stores(e) ==
    /\ e.sequence = cursor + 1 /\ cursor' = cursor + 1
    /\ Store(e)
    /\ UNCHANGED invalidated

\* Waits are rejected; an invalidation rejects them all.
Rejects(ws, why) ==
    /\ ws \subseteq waiters /\ why \in {"timeout", "cancelled", "invalidated"}
    /\ Reject(ws, why)
    /\ \/ UNCHANGED invalidated
       \/ ws = waiters /\ invalidated' = TRUE
    /\ UNCHANGED <<bufferVars, query, oldest>>

Asks(w, after, kinds) ==
    \/ \E aborted \in BOOLEAN : WaitForSettled(w, after, kinds, aborted)
    \/ WaitForRegistered(w, after, kinds)

Passes == UNCHANGED <<bufferVars, waitVars, invalidated>>

Step ==
    \/ \E e \in Record : Stores(e)
    \/ \E w \in Waiters, after \in Nat, kinds \in SUBSET Kinds : Asks(w, after, kinds)
    \/ \E ws \in SUBSET Waiters, why \in {"timeout", "cancelled", "invalidated"} :
         Rejects(ws, why)
    \/ Passes

\* The tracker callback allocates a sequence exactly when it stores a record:
\* the checks of append and appendProjected never fail.
LEMMA DeliverStores ==
    ASSUME TypeOK, LogInv, NEW m \in Messages, Deliver(m)
    PROVE  (\E e \in Record : Stores(e)) \/ Passes
<1>1. cursor \in Nat /\ cursor = lastSequence /\ state \in States
  BY DEF TypeOK, LogInv, States
<1>2. cursor + 1 \in Nat \ {0}
  BY <1>1
<1>3. CASE StoreProjected(m)
  <2> DEFINE e == [sequence |-> cursor + 1, kind |-> ProjectedKind(state, m),
                   phase |-> Project(state, m).phase, gen |-> Project(state, m).gen]
  <2>1. /\ ProjectedKind(state, m) \in ProjectedKinds
        /\ Project(state, m) \in States
    BY <1>1, <1>3, TransitionIsAfter DEF StoreProjected
  <2>2. e \in Record
    BY <1>2, <2>1 DEF Record, States
  <2>3. cursor' = cursor + 1 /\ Store(e) /\ UNCHANGED invalidated
    BY <1>1, <1>3 DEF StoreProjected, Deliver
  <2>4. Stores(e)
    BY <2>3 DEF Stores
  <2> HIDE DEF e
  <2> QED
    BY <2>2, <2>4
<1>4. CASE StoreOrdinary(m)
  <2> DEFINE e == [sequence |-> cursor + 1, kind |-> OrdinaryKind(state, m)]
  <2>1. OrdinaryKind(state, m) \in Kinds \ ProjectedKinds
    BY <1>4 DEF StoreOrdinary, OrdinaryKind, Kinds, ProjectedKinds
  <2>2. e \in Record
    BY <1>2, <2>1 DEF Record
  <2>3. cursor' = cursor + 1 /\ Store(e) /\ UNCHANGED invalidated
    BY <1>1, <1>4 DEF StoreOrdinary, Deliver
  <2>4. Stores(e)
    BY <2>3 DEF Stores
  <2> HIDE DEF e
  <2> QED
    BY <2>2, <2>4
<1>5. CASE StoreNothing(m)
  BY <1>5 DEF StoreNothing, Deliver, Passes
<1> QED
  BY <1>3, <1>4, <1>5 DEF Deliver

\* Every step of the specification is one of those.
LEMMA NextIsStep ==
    ASSUME TypeOK, LogInv, WaitInv, Next
    PROVE  Step
<1>1. ASSUME NEW m \in Messages, Deliver(m) PROVE Step
  BY <1>1, DeliverStores DEF Step
<1>2. ASSUME NEW w \in Waiters, WaitFor(w) PROVE Step
  <2>1. PICK after \in 0..MaxSequence, kinds \in Filters : Asks(w, after, kinds)
    BY <1>2 DEF WaitFor, Asks
  <2>2. after \in Nat /\ kinds \in SUBSET Kinds
    BY <2>1, FiltersAssumption
  <2> QED
    BY <2>1, <2>2 DEF Step
<1>3. ASSUME NEW w \in Waiters, TimeOut(w) PROVE Step
  <2>1. Rejects({w}, "timeout")
    BY <1>3 DEF TimeOut, Rejects, WaitInv, NothingOutlivesAWait
  <2> QED
    BY <2>1 DEF Step
<1>4. ASSUME NEW w \in Waiters, Abort(w) PROVE Step
  <2>1. Rejects({w}, "cancelled")
    BY <1>4 DEF Abort, Rejects, WaitInv, NothingOutlivesAWait
  <2> QED
    BY <2>1 DEF Step
<1>5. ASSUME Invalidate PROVE Step
  <2>1. Rejects(waiters, "invalidated") /\ waiters \in SUBSET Waiters
    BY <1>5 DEF Invalidate, Rejects, TypeOK
  <2> QED
    BY <2>1 DEF Step
<1> QED
  BY <1>1, <1>2, <1>3, <1>4, <1>5 DEF Next

-----------------------------------------------------------------------------
(* Facts about the ring and about waits.                                   *)

LEMMA KeptBounds ==
    ASSUME TypeOK
    PROVE  /\ cursor \in Nat /\ Kept \in Nat /\ Kept <= cursor /\ Kept <= Capacity
           /\ Kept = 0 <=> cursor = 0
           /\ cursor - Kept \in Nat
BY CapacityAssumption DEF TypeOK, Kept

\* What has left the ring is what came before its contents.
LEMMA DroppedIs ==
    ASSUME TypeOK, LogInv
    PROVE  Dropped = cursor - Kept
<1>1. CASE events = <<>>
  <2>1. Kept = 0
    BY <1>1 DEF LogInv
  <2> QED
    BY <1>1, <2>1, KeptBounds DEF Dropped
<1>2. CASE events # <<>>
  <2>1. Kept # 0
    BY <1>2, EmptySeq DEF TypeOK, LogInv
  <2>2. 1 \in 1..Kept /\ cursor - Kept + 1 \in 1..cursor
    BY <2>1, KeptBounds
  <2>3. events[1].sequence = cursor - Kept + 1
    BY <2>2 DEF LogInv
  <2> QED
    BY <1>2, <2>3, KeptBounds DEF Dropped
<1> QED
  BY <1>1, <1>2

\* What is in the log and not dropped is in the ring.
LEMMA RetainedIsInRing ==
    ASSUME TypeOK, LogInv, NEW i \in 1..cursor, i > Dropped
    PROVE  i - Dropped \in 1..Len(events) /\ events[i - Dropped] = log[i]
<1>1. i - Dropped \in 1..Kept /\ cursor - Kept + (i - Dropped) = i
  BY KeptBounds, DroppedIs
<1> QED
  BY <1>1 DEF LogInv

\* Every nonempty set of indices has a least one.
LEMMA LeastIndex ==
    ASSUME NEW T, T \subseteq Nat, T # {}
    PROVE  \E x \in T : \A y \in T : x <= y
<1> DEFINE R == OpToRel(<, Nat)
<1>1. IsWellFoundedOn(R, Nat)
  BY NatLessThanWellFounded
<1> HIDE DEF R
<1>2. PICK x \in T : \A y \in T : ~(<<y, x>> \in R)
  BY <1>1, WFMin
<1>3. \A y \in T : <<y, x>> \in R <=> y < x
  BY <1>2 DEF R, OpToRel
<1>4. \A y \in T : ~(y < x)
  BY <1>2, <1>3
<1>5. \A y \in T : x \in Nat /\ y \in Nat
  BY <1>2
<1> QED
  BY <1>2, <1>4, <1>5

\* A first match is in the sequence, matches, and is preceded by none.
LEMMA FirstMatchIs ==
    ASSUME NEW s, Len(s) \in Nat, NEW q, Matching(s, q) # {}
    PROVE  \E k \in 1..Len(s) :
             /\ FirstMatch(s, q) = s[k] /\ Matches(s[k], q)
             /\ \A i \in 1..(k - 1) : ~Matches(s[i], q)
<1> DEFINE T == Matching(s, q)
           k == CHOOSE i \in T : \A j \in T : i <= j
<1>1. T \subseteq Nat /\ T # {}
  BY DEF Matching
<1>2. \E i \in T : \A j \in T : i <= j
  <2> HIDE DEF T
  <2> QED
    BY <1>1, LeastIndex
<1>3. k \in T /\ \A j \in T : k <= j
  <2> HIDE DEF T
  <2> QED
    BY <1>2
<1>4. FirstMatch(s, q) = s[k]
  BY DEF FirstMatch
<1> HIDE DEF k
<1>5. k \in 1..Len(s) /\ Matches(s[k], q)
  BY <1>3 DEF Matching
<1>6. ASSUME NEW i \in 1..(k - 1) PROVE ~Matches(s[i], q)
  <2>1. i \in 1..Len(s) /\ ~(k <= i)
    BY <1>5
  <2> QED
    BY <1>3, <2>1 DEF Matching
<1> QED
  BY <1>4, <1>5, <1>6

\* The three ways a promise is settled, told apart by what settled it.
LEMMA OutcomesDiffer ==
    /\ NotSettled \in Outcomes /\ NotSettled.by = "none"
    /\ \A e \in Record : /\ ResolvedWith(e) \in Outcomes /\ ResolvedWith(e) # NotSettled
                         /\ ResolvedWith(e).by = "event" /\ ResolvedWith(e).event = e
    /\ \A why \in {"timeout", "cancelled", "invalidated"} :
         /\ RejectedWith(why) \in Outcomes /\ RejectedWith(why) # NotSettled
         /\ RejectedWith(why).by = why
    /\ \A o \in Outcomes : o.by \in {"none", "event", "timeout", "cancelled", "invalidated"}
<1>1. NotSettled \in Outcomes /\ NotSettled.by = "none"
  BY DEF NotSettled, Outcomes
<1>2. ASSUME NEW e \in Record
      PROVE  /\ ResolvedWith(e) \in Outcomes /\ ResolvedWith(e) # NotSettled
             /\ ResolvedWith(e).by = "event" /\ ResolvedWith(e).event = e
  BY DEF NotSettled, ResolvedWith, Outcomes
<1>3. ASSUME NEW why \in {"timeout", "cancelled", "invalidated"}
      PROVE  /\ RejectedWith(why) \in Outcomes /\ RejectedWith(why) # NotSettled
             /\ RejectedWith(why).by = why
  BY DEF NotSettled, RejectedWith, Outcomes
<1>4. \A o \in Outcomes : o.by \in {"none", "event", "timeout", "cancelled", "invalidated"}
  BY DEF NotSettled, Outcomes
<1> QED
  BY <1>1, <1>2, <1>3, <1>4

\* The log and the counters after a record has been stored.
LEMMA StoredLog ==
    ASSUME TypeOK, LogInv, NEW e \in Record, Stores(e)
    PROVE  /\ log' \in Seq(Record) /\ Len(log') = cursor + 1
           /\ \A i \in 1..cursor : log'[i] = log[i]
           /\ log'[cursor + 1] = e
           /\ cursor' = cursor + 1 /\ lastSequence' = cursor + 1
           /\ e.sequence = cursor + 1 /\ cursor \in Nat
<1>1. log \in Seq(Record) /\ Len(log) = cursor /\ cursor \in Nat
  BY DEF TypeOK, LogInv
<1>2. log' = Append(log, e)
  BY DEF Stores, Store
<1>3. /\ log' \in Seq(Record) /\ Len(log') = cursor + 1
      /\ \A i \in 1..cursor : log'[i] = log[i]
      /\ log'[cursor + 1] = e
  BY <1>1, <1>2, AppendProperties
<1> QED
  BY <1>1, <1>3 DEF Stores, Store

\* Counters, log and ring keep step.
LEMMA LogStep ==
    ASSUME TypeOK, LogInv, Step
    PROVE  LogInv' /\ events' \in Seq(Record) /\ log' \in Seq(Record)
<1>1. ASSUME NEW e \in Record, Stores(e)
      PROVE  LogInv' /\ events' \in Seq(Record) /\ log' \in Seq(Record)
  <2> DEFINE t == Append(events, e)
  <2>1. /\ log' \in Seq(Record) /\ Len(log') = cursor + 1
        /\ \A i \in 1..cursor : log'[i] = log[i]
        /\ log'[cursor + 1] = e
        /\ cursor' = cursor + 1 /\ lastSequence' = cursor + 1
        /\ e.sequence = cursor + 1 /\ cursor \in Nat
    BY <1>1, StoredLog
  <2>2. /\ Kept \in Nat /\ Kept <= cursor /\ Kept <= Capacity /\ Capacity \in Nat
        /\ Kept < Capacity => Kept = cursor
    BY KeptBounds, CapacityAssumption DEF Kept, TypeOK
  <2>3. events \in Seq(Record) /\ Len(events) = Kept
    BY DEF TypeOK, LogInv
  <2>4. /\ t \in Seq(Record) /\ t # <<>> /\ Len(t) = Kept + 1
        /\ \A i \in 1..Kept : t[i] = events[i]
        /\ t[Kept + 1] = e
    BY <2>3, AppendProperties
  <2>5. events' = IF Len(t) > Capacity THEN Tail(t) ELSE t
    BY <1>1 DEF Stores, Store, Push
  <2> HIDE DEF t
  <2>6. ASSUME NEW i \in 1..(Kept + 1) PROVE t[i] = log'[cursor - Kept + i]
    <3>1. CASE i = Kept + 1
      BY <2>1, <2>2, <2>4, <3>1
    <3>2. CASE i # Kept + 1
      <4>1. i \in 1..Kept /\ cursor - Kept + i \in 1..cursor
        BY <2>1, <2>2, <3>2
      <4> QED
        BY <2>1, <2>4, <4>1 DEF LogInv
    <3> QED
      BY <3>1, <3>2
  <2>7. \A i \in 1..(cursor + 1) : log'[i].sequence = i
    <3>1. \A i \in 1..(cursor + 1) : i \in 1..cursor \/ i = cursor + 1
      BY <2>1
    <3> QED
      BY <2>1, <3>1 DEF LogInv
  <2>8. CASE Kept = Capacity
    <3>1. Kept' = Kept
      BY <2>1, <2>2, <2>8, CapacityAssumption DEF Kept
    <3>2. /\ events' = Tail(t) /\ events' \in Seq(Record) /\ Len(events') = Kept
          /\ \A i \in 1..Kept : events'[i] = t[i + 1]
      <4>1. events' = Tail(t)
        BY <2>2, <2>4, <2>5, <2>8
      <4> QED
        BY <2>2, <2>4, <4>1, HeadTailProperties
    <3>3. ASSUME NEW i \in 1..Kept
          PROVE  events'[i] = log'[(cursor + 1) - Kept + i]
      <4>1. i + 1 \in 1..(Kept + 1) /\ cursor - Kept + (i + 1) = (cursor + 1) - Kept + i
        BY <2>1, <2>2
      <4> QED
        BY <2>6, <3>2, <4>1
    <3> QED
      BY <2>1, <2>7, <3>1, <3>2, <3>3 DEF LogInv
  <2>9. CASE Kept # Capacity
    <3>1. Kept' = Kept + 1 /\ Kept = cursor
      BY <2>1, <2>2, <2>9 DEF Kept
    <3>2. events' = t
      BY <2>2, <2>4, <2>5, <2>9
    <3>3. ASSUME NEW i \in 1..(Kept + 1)
          PROVE  events'[i] = log'[(cursor + 1) - (Kept + 1) + i]
      <4>1. cursor - Kept + i = (cursor + 1) - (Kept + 1) + i
        BY <2>1, <2>2
      <4> QED
        BY <2>6, <3>2, <4>1
    <3> QED
      BY <2>1, <2>4, <2>7, <3>1, <3>2, <3>3 DEF LogInv
  <2> QED
    BY <2>8, <2>9
<1>2. CASE UNCHANGED bufferVars
  BY <1>2 DEF bufferVars, LogInv, Kept, TypeOK
<1> QED
  BY <1>1, <1>2 DEF Step, Asks, WaitForSettled, WaitForRegistered, Rejects, Passes

-----------------------------------------------------------------------------
(* The steps keep the invariant.                                           *)

\* What an ask at once is answered with.
LEMMA AskedOutcome ==
    ASSUME TypeOK, DataInv, LogInv, NEW w \in Waiters, NEW after, NEW kinds,
           NEW aborted \in BOOLEAN, WaitForSettled(w, after, kinds, aborted)
    PROVE  /\ outcome'[w] \in Outcomes \ {NotSettled}
           /\ outcome'[w].by = "event" =>
                \E k \in 1..Len(events) :
                  /\ outcome'[w].event = events[k]
                  /\ Matches(events[k], query'[w])
                  /\ \A i \in 1..(k - 1) : ~Matches(events[i], query'[w])
<1> DEFINE q == [asked |-> TRUE, after |-> after, kinds |-> kinds]
<1>1. /\ query'[w] = q
      /\ outcome'[w] = IF invalidated THEN RejectedWith("invalidated")
                       ELSE IF aborted THEN RejectedWith("cancelled")
                       ELSE ResolvedWith(FirstMatch(events, q))
      /\ invalidated \/ aborted \/ Matching(events, q) # {}
  BY DEF WaitForSettled, DataInv
<1> HIDE DEF q
<1>2. CASE invalidated \/ aborted
  <2>1. \E why \in {"cancelled", "invalidated"} : outcome'[w] = RejectedWith(why)
    BY <1>1, <1>2
  <2> QED
    BY <2>1, OutcomesDiffer
<1>3. CASE ~invalidated /\ ~aborted
  <2>1. Len(events) \in Nat /\ events \in Seq(Record)
    BY DEF TypeOK
  <2>2. PICK k \in 1..Len(events) :
          /\ FirstMatch(events, q) = events[k] /\ Matches(events[k], q)
          /\ \A i \in 1..(k - 1) : ~Matches(events[i], q)
    BY <1>1, <1>3, <2>1, FirstMatchIs
  <2>3. events[k] \in Record
    BY <2>1, ElementOfSeq
  <2>4. outcome'[w] = ResolvedWith(events[k])
    BY <1>1, <1>3, <2>2
  <2> QED
    BY <1>1, <2>2, <2>3, <2>4, OutcomesDiffer
<1> QED
  BY <1>2, <1>3

\* How the outcomes change when a record is stored or waits are rejected.
LEMMA StoredOutcome ==
    ASSUME DataInv, WaitInv, NEW e \in Record, Stores(e)
    PROVE  /\ \A w \in Waiters : outcome'[w] =
                IF w \in waiters /\ Matches(e, query[w]) THEN ResolvedWith(e)
                ELSE outcome[w]
           /\ outcome' \in [Waiters -> Outcomes]
<1>1. /\ outcome' = [w \in Waiters |->
           IF w \in {v \in waiters : Matches(e, query[v])} /\ outcome[w] = NotSettled
           THEN ResolvedWith(e) ELSE outcome[w]]
      /\ \A w \in Waiters : w \in waiters => outcome[w] = NotSettled
  BY DEF Stores, Store, WaitInv, NothingOutlivesAWait
<1>2. ResolvedWith(e) \in Outcomes /\ outcome \in [Waiters -> Outcomes]
  BY OutcomesDiffer DEF DataInv
<1> QED
  BY <1>1, <1>2

LEMMA RejectedOutcome ==
    ASSUME DataInv, WaitInv, NEW ws \in SUBSET Waiters,
           NEW why \in {"timeout", "cancelled", "invalidated"}, Rejects(ws, why)
    PROVE  /\ \A w \in Waiters : outcome'[w] =
                IF w \in ws THEN RejectedWith(why) ELSE outcome[w]
           /\ outcome' \in [Waiters -> Outcomes]
<1>1. /\ outcome' = [w \in Waiters |->
           IF w \in ws /\ outcome[w] = NotSettled THEN RejectedWith(why) ELSE outcome[w]]
      /\ \A w \in Waiters : w \in ws => outcome[w] = NotSettled
  BY DEF Rejects, Reject, WaitInv, NothingOutlivesAWait
<1>2. RejectedWith(why) \in Outcomes /\ outcome \in [Waiters -> Outcomes]
  BY OutcomesDiffer DEF DataInv
<1> QED
  BY <1>1, <1>2

LEMMA DataStep ==
    ASSUME TypeOK, DataInv, LogInv, WaitInv, Step
    PROVE  DataInv'
<1>1. ASSUME NEW e \in Record, Stores(e) PROVE DataInv'
  BY <1>1, StoredOutcome DEF Stores, Store, DataInv
<1>2. ASSUME NEW w \in Waiters, NEW after \in Nat, NEW kinds \in SUBSET Kinds,
             Asks(w, after, kinds)
      PROVE  DataInv'
  <2>1. [asked |-> TRUE, after |-> after, kinds |-> kinds] \in Queries
    BY DEF Queries
  <2>2. query' \in [Waiters -> Queries]
    BY <1>2, <2>1 DEF Asks, WaitForSettled, WaitForRegistered, DataInv
  <2>3. oldest' \in [Waiters -> Nat]
    BY <1>2, DroppedIs, KeptBounds
       DEF Asks, WaitForSettled, WaitForRegistered, DataInv
  <2>4. outcome' \in [Waiters -> Outcomes]
    <3>1. ASSUME NEW aborted \in BOOLEAN, WaitForSettled(w, after, kinds, aborted)
          PROVE  outcome' \in [Waiters -> Outcomes]
      <4>1. outcome'[w] \in Outcomes
        BY <3>1, AskedOutcome
      <4>2. \E o : outcome' = [outcome EXCEPT ![w] = o]
        BY <3>1 DEF WaitForSettled
      <4> QED
        BY <4>1, <4>2 DEF DataInv
    <3>2. ASSUME WaitForRegistered(w, after, kinds)
          PROVE  outcome' \in [Waiters -> Outcomes]
      BY <3>2 DEF WaitForRegistered, DataInv
    <3> QED
      BY <1>2, <3>1, <3>2 DEF Asks
  <2> QED
    BY <2>2, <2>3, <2>4 DEF DataInv
<1>3. ASSUME NEW ws \in SUBSET Waiters,
             NEW why \in {"timeout", "cancelled", "invalidated"}, Rejects(ws, why)
      PROVE  DataInv'
  BY <1>3, RejectedOutcome DEF Rejects, DataInv
<1>4. CASE Passes
  BY <1>4 DEF Passes, waitVars, DataInv
<1> QED
  BY <1>1, <1>2, <1>3, <1>4 DEF Step

\* What changes for whom when w asks.
LEMMA AskedEffect ==
    ASSUME DataInv, NEW w \in Waiters, NEW after, NEW kinds, Asks(w, after, kinds)
    PROVE  /\ ~query[w].asked /\ query'[w].asked
           /\ oldest'[w] = Dropped
           /\ UNCHANGED <<cursor, events, log, invalidated>>
           /\ \A v \in Waiters : v # w => /\ query'[v] = query[v]
                                          /\ oldest'[v] = oldest[v]
                                          /\ outcome'[v] = outcome[v]
           /\ \/ /\ UNCHANGED <<waiters, timers, listeners>>
                 /\ \E aborted \in BOOLEAN : WaitForSettled(w, after, kinds, aborted)
              \/ /\ ~invalidated /\ Matching(events, query'[w]) = {}
                 /\ waiters' = waiters \cup {w} /\ timers' = timers \cup {w}
                 /\ listeners' = listeners \cup {w} /\ outcome' = outcome
<1>1. ASSUME NEW aborted \in BOOLEAN, WaitForSettled(w, after, kinds, aborted)
      PROVE  /\ ~query[w].asked /\ query'[w].asked
             /\ oldest'[w] = Dropped
             /\ UNCHANGED <<cursor, events, log, invalidated, waiters, timers, listeners>>
             /\ \A v \in Waiters : v # w => /\ query'[v] = query[v]
                                            /\ oldest'[v] = oldest[v]
                                            /\ outcome'[v] = outcome[v]
  BY <1>1 DEF WaitForSettled, bufferVars, DataInv
<1>2. ASSUME WaitForRegistered(w, after, kinds)
      PROVE  /\ ~query[w].asked /\ query'[w].asked
             /\ oldest'[w] = Dropped
             /\ UNCHANGED <<cursor, events, log, invalidated, outcome>>
             /\ \A v \in Waiters : v # w => /\ query'[v] = query[v]
                                            /\ oldest'[v] = oldest[v]
             /\ ~invalidated /\ Matching(events, query'[w]) = {}
             /\ waiters' = waiters \cup {w} /\ timers' = timers \cup {w}
             /\ listeners' = listeners \cup {w}
  BY <1>2 DEF WaitForRegistered, bufferVars, DataInv
<1> QED
  BY <1>1, <1>2 DEF Asks

\* What the waiters, timers and listeners are after a step.
LEMMA WaitStep ==
    ASSUME TypeOK, DataInv, LogInv, WaitInv, Step
    PROVE  WaitInv'
<1> USE DEF WaitInv, NothingOutlivesAWait
<1>1. ASSUME NEW e \in Record, Stores(e) PROVE WaitInv'
  <2>1. /\ UNCHANGED <<query, invalidated>>
        /\ \E woken : /\ woken = {w \in waiters : Matches(e, query[w])}
                      /\ waiters' = waiters \ woken /\ timers' = timers \ woken
                      /\ listeners' = listeners \ woken
    BY <1>1 DEF Stores, Store, Settle
  <2>2. \A w \in Waiters : w \in waiters' <=> w \in waiters /\ ~Matches(e, query[w])
    BY <2>1
  <2>3. \A w \in Waiters :
          /\ outcome'[w] = NotSettled <=>
               outcome[w] = NotSettled /\ ~(w \in waiters /\ Matches(e, query[w]))
    BY <1>1, StoredOutcome, OutcomesDiffer
  <2> QED
    BY <2>1, <2>2, <2>3
<1>2. ASSUME NEW w \in Waiters, NEW after \in Nat, NEW kinds \in SUBSET Kinds,
             Asks(w, after, kinds)
      PROVE  WaitInv'
  <2>1. /\ ~query[w].asked /\ query'[w].asked /\ UNCHANGED invalidated
        /\ outcome[w] = NotSettled /\ w \notin waiters
        /\ \A v \in Waiters : v # w => /\ query'[v] = query[v]
                                       /\ outcome'[v] = outcome[v]
    BY <1>2, AskedEffect
  <2>2. CASE /\ UNCHANGED <<waiters, timers, listeners>>
             /\ \E aborted \in BOOLEAN : WaitForSettled(w, after, kinds, aborted)
    <3>1. outcome'[w] # NotSettled
      BY <2>2, AskedOutcome
    <3> QED
      BY <2>1, <2>2, <3>1
  <2>3. CASE /\ ~invalidated
             /\ waiters' = waiters \cup {w} /\ timers' = timers \cup {w}
             /\ listeners' = listeners \cup {w} /\ outcome' = outcome
    BY <2>1, <2>3
  <2> QED
    BY <1>2, <2>2, <2>3, AskedEffect
<1>3. ASSUME NEW ws \in SUBSET Waiters,
             NEW why \in {"timeout", "cancelled", "invalidated"}, Rejects(ws, why)
      PROVE  WaitInv'
  <2>1. /\ UNCHANGED query /\ ws \subseteq waiters
        /\ waiters' = waiters \ ws /\ timers' = timers \ ws
        /\ listeners' = listeners \ ws
        /\ UNCHANGED invalidated \/ ws = waiters
    BY <1>3 DEF Rejects, Reject, Settle
  <2>2. \A w \in Waiters : outcome'[w] = NotSettled <=> outcome[w] = NotSettled /\ w \notin ws
    BY <1>3, RejectedOutcome, OutcomesDiffer
  <2>3. \A w \in ws : query[w].asked
    BY <2>1
  <2> QED
    BY <2>1, <2>2, <2>3
<1>4. CASE Passes
  BY <1>4 DEF Passes, waitVars
<1> QED
  BY <1>1, <1>2, <1>3, <1>4 DEF Step

\* A waiter is woken by whatever comes and matches, and begins with a scan of
\* what the ring holds.
LEMMA WakeStep ==
    ASSUME TypeOK, DataInv, LogInv, WaitInv, NoLostWakeup, Step
    PROVE  NoLostWakeup'
<1>1. Len(log) = cursor /\ cursor \in Nat /\ waiters \subseteq Waiters
  BY DEF LogInv, TypeOK
<1>2. ASSUME NEW e \in Record, Stores(e) PROVE NoLostWakeup'
  <2>1. /\ Len(log') = cursor + 1 /\ log'[cursor + 1] = e
        /\ \A i \in 1..cursor : log'[i] = log[i]
    BY <1>2, StoredLog
  <2>2. /\ UNCHANGED <<query, oldest>>
        /\ \A w \in waiters' : w \in waiters /\ ~Matches(e, query[w])
    BY <1>2 DEF Stores, Store, Settle
  <2>3. ASSUME NEW w \in waiters', NEW i \in 1..(cursor + 1), i > oldest[w]
        PROVE  ~Matches(log'[i], query[w])
    <3>1. CASE i = cursor + 1
      BY <2>1, <2>2, <3>1
    <3>2. CASE i # cursor + 1
      <4>1. i \in 1..Len(log) /\ log'[i] = log[i]
        BY <1>1, <2>1, <3>2
      <4> QED
        BY <2>2, <2>3, <4>1 DEF NoLostWakeup
    <3> QED
      BY <3>1, <3>2
  <2> QED
    BY <2>1, <2>2, <2>3 DEF NoLostWakeup
<1>3. ASSUME NEW w \in Waiters, NEW after \in Nat, NEW kinds \in SUBSET Kinds,
             Asks(w, after, kinds)
      PROVE  NoLostWakeup'
  <2>1. /\ ~query[w].asked /\ oldest'[w] = Dropped /\ UNCHANGED log
        /\ w \notin waiters
        /\ \A v \in Waiters : v # w => /\ query'[v] = query[v]
                                       /\ oldest'[v] = oldest[v]
    BY <1>3, AskedEffect DEF WaitInv, NothingOutlivesAWait
  <2>2. ASSUME NEW v \in waiters, NEW i \in 1..Len(log'), i > oldest'[v]
        PROVE  ~Matches(log'[i], query'[v])
    BY <1>1, <2>1, <2>2 DEF NoLostWakeup
  <2>3. CASE UNCHANGED waiters
    BY <2>2, <2>3 DEF NoLostWakeup
  <2>4. CASE Matching(events, query'[w]) = {} /\ waiters' = waiters \cup {w}
    <3>1. ASSUME NEW i \in 1..Len(log'), i > oldest'[w]
          PROVE  ~Matches(log'[i], query'[w])
      <4>1. i \in 1..cursor /\ i > Dropped
        BY <1>1, <2>1, <3>1
      <4>2. i - Dropped \in 1..Len(events) /\ events[i - Dropped] = log[i]
        BY <4>1, RetainedIsInRing
      <4> QED
        BY <2>1, <2>4, <4>2 DEF Matching
    <3> QED
      BY <2>2, <2>4, <3>1 DEF NoLostWakeup
  <2> QED
    BY <1>3, <2>3, <2>4, AskedEffect
<1>4. ASSUME NEW ws \in SUBSET Waiters,
             NEW why \in {"timeout", "cancelled", "invalidated"}, Rejects(ws, why)
      PROVE  NoLostWakeup'
  BY <1>4 DEF Rejects, Reject, Settle, bufferVars, NoLostWakeup
<1>5. CASE Passes
  BY <1>5 DEF Passes, bufferVars, waitVars, NoLostWakeup
<1> QED
  BY <1>2, <1>3, <1>4, <1>5 DEF Step

\* What was the first match stays so, and what wakes a waiter is the first.
LEMMA MatchStep ==
    ASSUME TypeOK, DataInv, LogInv, WaitInv, NoLostWakeup, MatchInv, Step
    PROVE  MatchInv'
<1>1. Len(log) = cursor /\ cursor \in Nat /\ waiters \subseteq Waiters
  BY DEF LogInv, TypeOK
<1>2. \A w \in Waiters : outcome[w].by = "event" => RightFor(w, outcome[w].event)
  BY DEF MatchInv
<1>3. SUFFICES ASSUME NEW w \in Waiters, outcome'[w].by = "event"
               PROVE  RightFor(w, outcome[w].event)'
  BY DEF MatchInv
<1>4. ASSUME NEW e \in Record, Stores(e)
      PROVE  RightFor(w, outcome[w].event)'
  <2>1. /\ cursor' = cursor + 1 /\ log'[cursor + 1] = e /\ e.sequence = cursor + 1
        /\ \A i \in 1..cursor : log'[i] = log[i]
        /\ UNCHANGED <<query, oldest>>
    BY <1>4, StoredLog DEF Stores, Store
  <2>2. CASE w \in waiters /\ Matches(e, query[w])
    <3>1. outcome'[w].event = e
      BY <1>4, <2>2, StoredOutcome, OutcomesDiffer
    <3>2. \A i \in 1..cursor : i > oldest[w] => ~Matches(log'[i], query[w])
      BY <1>1, <2>1, <2>2 DEF NoLostWakeup
    <3>3. e.sequence \in 1..(cursor + 1) /\ 1..(e.sequence - 1) = 1..cursor
      BY <1>1, <2>1
    <3> QED
      BY <2>1, <2>2, <3>1, <3>2, <3>3 DEF RightFor
  <2>3. CASE ~(w \in waiters /\ Matches(e, query[w]))
    <3> DEFINE d == outcome[w].event
    <3>1. outcome'[w] = outcome[w]
      BY <1>4, <2>3, StoredOutcome
    <3>2. RightFor(w, d)
      BY <1>2, <1>3, <3>1
    <3>3. /\ d.sequence \in 1..cursor /\ d.sequence \in 1..(cursor + 1)
          /\ \A i \in 1..(d.sequence - 1) : i \in 1..cursor
      BY <1>1, <3>2 DEF RightFor
    <3> QED
      BY <2>1, <3>1, <3>2, <3>3 DEF RightFor
  <2> QED
    BY <2>2, <2>3
<1>5. ASSUME NEW u \in Waiters, NEW after \in Nat, NEW kinds \in SUBSET Kinds,
             Asks(u, after, kinds)
      PROVE  RightFor(w, outcome[w].event)'
  <2>1. /\ ~query[u].asked /\ oldest'[u] = Dropped /\ UNCHANGED <<log, cursor>>
        /\ \A v \in Waiters : v # u => /\ query'[v] = query[v]
                                       /\ oldest'[v] = oldest[v]
                                       /\ outcome'[v] = outcome[v]
    BY <1>5, AskedEffect
  <2>2. CASE w # u
    BY <1>2, <1>3, <2>1, <2>2 DEF RightFor
  <2>3. CASE w = u
    <3>1. outcome[w] = NotSettled /\ outcome'[w] # outcome[w]
      BY <1>3, <2>1, <2>3, OutcomesDiffer DEF WaitInv
    <3>2. \E aborted \in BOOLEAN : WaitForSettled(w, after, kinds, aborted)
      BY <1>5, <2>3, <3>1, AskedEffect
    <3>3. PICK k \in 1..Len(events) :
            /\ outcome'[w].event = events[k]
            /\ Matches(events[k], query'[w])
            /\ \A i \in 1..(k - 1) : ~Matches(events[i], query'[w])
      BY <1>3, <3>2, AskedOutcome
    <3>4. /\ Len(events) = Kept /\ Kept \in Nat /\ Kept <= cursor
          /\ Dropped = cursor - Kept
      BY DroppedIs, KeptBounds DEF LogInv
    <3>5. Dropped + k \in 1..cursor /\ events[k] = log[Dropped + k]
          /\ events[k].sequence = Dropped + k
      <4>1. Dropped + k \in 1..cursor /\ Dropped + k = cursor - Kept + k
        BY <1>1, <3>4
      <4>2. events[k] = log[Dropped + k]
        BY <3>4, <4>1 DEF LogInv
      <4> QED
        BY <4>1, <4>2 DEF LogInv
    <3>6. ASSUME NEW i \in 1..((Dropped + k) - 1), i > Dropped
          PROVE  ~Matches(log[i], query'[w])
      <4>1. i \in 1..cursor /\ i - Dropped \in 1..(k - 1)
        BY <1>1, <3>4, <3>5, <3>6
      <4>2. events[i - Dropped] = log[i]
        BY <3>6, <4>1, RetainedIsInRing
      <4> QED
        BY <3>3, <4>1, <4>2
    <3> QED
      BY <2>1, <2>3, <3>3, <3>5, <3>6 DEF RightFor
  <2> QED
    BY <2>2, <2>3
<1>6. ASSUME NEW ws \in SUBSET Waiters,
             NEW why \in {"timeout", "cancelled", "invalidated"}, Rejects(ws, why)
      PROVE  RightFor(w, outcome[w].event)'
  <2>1. outcome'[w] = outcome[w]
    BY <1>3, <1>6, RejectedOutcome, OutcomesDiffer
  <2>2. UNCHANGED <<cursor, log, query, oldest>>
    BY <1>6 DEF Rejects, bufferVars
  <2> QED
    BY <1>2, <1>3, <2>1, <2>2 DEF RightFor
<1>7. CASE Passes
  <2>1. UNCHANGED <<cursor, log, query, oldest, outcome>>
    BY <1>7 DEF Passes, bufferVars, waitVars
  <2> QED
    BY <1>2, <1>3, <2>1 DEF RightFor
<1> QED
  BY <1>4, <1>5, <1>6, <1>7 DEF Step

\* Only the projector writes the state.
LEMMA StateStep ==
    ASSUME Next
    PROVE  state' = state \/ \E m \in Messages : state' = Project(state, m)
<1>1. ASSUME NEW m \in Messages, Deliver(m)
      PROVE  state' = state \/ state' = Project(state, m)
  BY <1>1 DEF Deliver, StoreProjected, StoreOrdinary, StoreNothing
<1>2. ASSUME NEW w \in Waiters, WaitFor(w) PROVE state' = state
  BY <1>2 DEF WaitFor, WaitForSettled, WaitForRegistered
<1>3. ASSUME NEW w \in Waiters, TimeOut(w) \/ Abort(w) PROVE state' = state
  BY <1>3 DEF TimeOut, Abort
<1>4. ASSUME Invalidate PROVE state' = state
  BY <1>4 DEF Invalidate
<1> QED
  BY <1>1, <1>2, <1>3, <1>4 DEF Next

\* Variables keep their types.
LEMMA TypeStep ==
    ASSUME TypeOK, DataInv, LogInv, WaitInv, Next
    PROVE  TypeOK'
<1>1. Step /\ DataInv' /\ LogInv' /\ events' \in Seq(Record) /\ log' \in Seq(Record)
  BY NextIsStep, DataStep, LogStep
<1>2. state' \in States
  <2>1. state \in States
    BY DEF TypeOK, States
  <2>2. state' = state \/ \E m \in Messages : state' = Project(state, m)
    BY StateStep
  <2> QED
    BY <2>1, <2>2, ProjectIsAfter
<1>3. \A w \in Waiters : outcome'[w].by \in {"none", "event", "timeout",
                                             "cancelled", "invalidated"}
  BY <1>1, OutcomesDiffer DEF DataInv
<1>4. cursor' \in Nat
  <2>1. cursor \in Nat
    BY DEF TypeOK
  <2>2. cursor' = cursor \/ cursor' = cursor + 1
    BY <1>1 DEF Step, Stores, Asks, WaitForSettled, WaitForRegistered, Rejects,
                Passes, bufferVars
  <2> QED
    BY <2>1, <2>2
<1>5. /\ waiters' \subseteq Waiters /\ timers' \subseteq Waiters
      /\ listeners' \subseteq Waiters /\ invalidated' \in BOOLEAN
  <2>1. /\ waiters \subseteq Waiters /\ timers \subseteq Waiters
        /\ listeners \subseteq Waiters /\ invalidated \in BOOLEAN
    BY DEF TypeOK
  <2>2. ASSUME NEW e \in Record, Stores(e)
        PROVE  /\ waiters' \subseteq Waiters /\ timers' \subseteq Waiters
               /\ listeners' \subseteq Waiters /\ invalidated' \in BOOLEAN
    BY <2>1, <2>2 DEF Stores, Store, Settle
  <2>3. ASSUME NEW w \in Waiters, NEW after \in Nat, NEW kinds \in SUBSET Kinds,
               Asks(w, after, kinds)
        PROVE  /\ waiters' \subseteq Waiters /\ timers' \subseteq Waiters
               /\ listeners' \subseteq Waiters /\ invalidated' \in BOOLEAN
    BY <2>1, <2>3, AskedEffect
  <2>4. ASSUME NEW ws \in SUBSET Waiters,
               NEW why \in {"timeout", "cancelled", "invalidated"}, Rejects(ws, why)
        PROVE  /\ waiters' \subseteq Waiters /\ timers' \subseteq Waiters
               /\ listeners' \subseteq Waiters /\ invalidated' \in BOOLEAN
    BY <2>1, <2>4 DEF Rejects, Reject, Settle
  <2>5. CASE Passes
    BY <2>1, <2>5 DEF Passes, waitVars
  <2> QED
    BY <1>1, <2>2, <2>3, <2>4, <2>5 DEF Step
<1>6. lastSequence' \in Nat
  BY <1>1, <1>4 DEF LogInv
<1> QED
  BY <1>1, <1>2, <1>3, <1>4, <1>5, <1>6 DEF TypeOK, States

-----------------------------------------------------------------------------
(* The theorems.                                                           *)

LEMMA InvInit == Init => Inv
<1> SUFFICES ASSUME Init PROVE Inv
  OBVIOUS
<1> USE DEF Init
<1>1. Starting \in States
  BY DEF Starting, States, Phases
<1>2. \A w \in Waiters : outcome[w] = NotSettled /\ query[w].asked = FALSE
  OBVIOUS
<1>3. TypeOK
  <2>1. \A w \in Waiters : outcome[w].by = "none"
    BY <1>2, OutcomesDiffer
  <2>2. events \in Seq(Record) /\ log \in Seq(Record)
    BY EmptySeq
  <2> QED
    BY <1>1, <2>1, <2>2 DEF TypeOK, States
<1>4. DataInv
  BY OutcomesDiffer DEF DataInv, Queries
<1>5. LogInv
  <2>1. Kept = 0
    BY CapacityAssumption DEF Kept
  <2> QED
    BY <2>1 DEF LogInv
<1>6. WaitInv
  BY <1>2 DEF WaitInv, NothingOutlivesAWait
<1>7. NoLostWakeup
  BY DEF NoLostWakeup
<1>8. MatchInv
  BY <1>2, OutcomesDiffer DEF MatchInv
<1> QED
  BY <1>3, <1>4, <1>5, <1>6, <1>7, <1>8 DEF Inv

LEMMA InvStep == Inv /\ [Next]_vars => Inv'
<1>1. ASSUME Inv, Next PROVE Inv'
  <2>1. TypeOK /\ DataInv /\ LogInv /\ WaitInv /\ NoLostWakeup /\ MatchInv
    BY <1>1 DEF Inv
  <2>2. Step
    BY <1>1, <2>1, NextIsStep
  <2>3. TypeOK' /\ DataInv' /\ LogInv' /\ WaitInv' /\ NoLostWakeup' /\ MatchInv'
    BY <1>1, <2>1, <2>2, TypeStep, DataStep, LogStep, WaitStep, WakeStep, MatchStep
  <2> QED
    BY <2>3 DEF Inv
<1>2. ASSUME Inv, UNCHANGED vars PROVE Inv'
  <2>1. /\ UNCHANGED <<state, cursor, lastSequence, events, log, waiters, timers,
                       listeners, query, outcome, oldest, invalidated>>
        /\ TypeOK /\ DataInv /\ LogInv /\ WaitInv /\ NoLostWakeup /\ MatchInv
    BY <1>2 DEF Inv, vars, bufferVars, waitVars
  <2>2. TypeOK' /\ DataInv'
    BY <2>1 DEF TypeOK, DataInv
  <2>3. LogInv' /\ NoLostWakeup'
    BY <2>1 DEF LogInv, Kept, NoLostWakeup
  <2>4. WaitInv'
    BY <2>1 DEF WaitInv, NothingOutlivesAWait
  <2>5. MatchInv'
    BY <2>1 DEF MatchInv, RightFor
  <2> QED
    BY <2>2, <2>3, <2>4, <2>5 DEF Inv
<1> QED
  BY <1>1, <1>2

\* What holds whenever no callback is running.
THEOREM Invariant == SafeSpec => []Inv
BY InvInit, InvStep, PTL DEF SafeSpec

\* The projector and the buffer, which share a sequencer, never disagree, so
\* append and appendProjected of eventBuffer.ts never throw at the tracker, and
\* the ring holds the newest events without a gap.
THEOREM EventsAreKept == SafeSpec => []NoEventIsLost
<1>1. Inv => NoEventIsLost
  <2> SUFFICES ASSUME Inv PROVE NoEventIsLost
    OBVIOUS
  <2>1. TypeOK /\ LogInv
    BY DEF Inv
  <2>2. /\ cursor \in Nat /\ Kept \in Nat /\ Kept <= cursor
        /\ cursor - Kept + 1 \in Int /\ cursor \in Int
        /\ cursor - (cursor - Kept + 1) + 1 = Kept
        /\ cursor - Kept + 1 <= cursor <=> Kept # 0
    BY <2>1, KeptBounds
  <2>3. events \in Seq(Record) /\ log \in Seq(Record) /\ Len(log) = cursor
        /\ Len(events) = Kept
    BY <2>1 DEF TypeOK, LogInv
  <2>4. \A i \in (cursor - Kept + 1)..cursor : log[i] \in Record
    BY <2>2, <2>3, ElementOfSeq
  <2> DEFINE t == SubSeq(log, cursor - Kept + 1, cursor)
  <2>5. /\ t \in Seq(Record) /\ Len(t) = Kept
        /\ \A i \in 1..Kept : t[i] = log[cursor - Kept + i]
    <3>1. /\ t \in Seq(Record)
          /\ Len(t) = IF cursor - Kept + 1 <= cursor
                      THEN cursor - (cursor - Kept + 1) + 1 ELSE 0
          /\ \A i \in 1..(cursor - (cursor - Kept + 1) + 1) :
               t[i] = log[(cursor - Kept + 1) + i - 1]
      BY <2>2, <2>4, SubSeqProperties
    <3>2. \A i \in 1..Kept : (cursor - Kept + 1) + i - 1 = cursor - Kept + i
      BY <2>2
    <3> HIDE DEF t
    <3> QED
      BY <2>2, <3>1, <3>2
  <2> HIDE DEF t
  <2>6. \A i \in 1..Len(events) : events[i] = t[i]
    BY <2>1, <2>3, <2>5 DEF LogInv
  <2>7. events = t
    BY <2>3, <2>5, <2>6, SeqEqual
  <2>8. \A i \in 1..Len(log) : log[i].sequence = i
    BY <2>1, <2>3 DEF LogInv
  <2> QED
    BY <2>1, <2>3, <2>7, <2>8 DEF NoEventIsLost, LogInv, Kept, t
<1> QED
  BY <1>1, Invariant, PTL

\* No wait of unity_debug_wait_for_event sleeps through an event: #store looks
\* at every waiter, and waitFor at everything the ring still holds.
THEOREM WaitersAreWoken == SafeSpec => []NoLostWakeup
<1>1. Inv => NoLostWakeup
  BY DEF Inv
<1> QED
  BY <1>1, Invariant, PTL

\* A wait resolves with the first event it could have resolved with.
THEOREM FirstMatches == SafeSpec => []FirstRetainedMatch
<1>1. Inv => FirstRetainedMatch
  BY DEF Inv, MatchInv, RightFor, FirstRetainedMatch
<1> QED
  BY <1>1, Invariant, PTL

\* #settle forgets waiter, timer and abort listener together, whichever of the
\* event, the timer, the signal and the end of the session comes first.
THEOREM WaitsLeaveNothing == SafeSpec => []NothingOutlivesAWait
<1>1. Inv => NothingOutlivesAWait
  BY DEF Inv, WaitInv
<1> QED
  BY <1>1, Invariant, PTL

\* acceptAdapterMessage never brings a phase and generation back that was left.
THEOREM StatesMoveOn == SafeSpec => StatesNeverReturn
<1>1. Inv /\ [Next]_vars => [state' # state => After(state', state)]_vars
  <2> SUFFICES ASSUME Inv, Next, state' # state
               PROVE  After(state', state)
    OBVIOUS
  <2>1. state \in States
    BY DEF Inv, TypeOK, States
  <2>2. \E m \in Messages : state' = Project(state, m)
    BY StateStep
  <2> QED
    BY <2>1, <2>2, ProjectIsAfter
<1> QED
  BY <1>1, Invariant, PTL DEF SafeSpec, StatesNeverReturn
=============================================================================
