---------------------- MODULE SessionLifecycleProofs ----------------------
(***************************************************************************)
(* Proofs about SessionLifecycle, for any session objects, however many of *)
(* them share an identifier, and any finite number of clients.             *)
(***************************************************************************)
EXTENDS SessionLifecycle, FiniteSetTheorems, SequenceTheorems, TLAPS

-----------------------------------------------------------------------------
(* The invariant.                                                          *)

Hows == {"event", "notAttached"}
Tasks == [run : {"resume"}, client : Clients, how : Hows]
         \cup [run : {"remove"}, session : Sessions, ref : Nat]

\* The types of what TypeOK leaves out.
DataInv ==
    /\ microtasks \in Seq(Tasks)
    /\ watched \in [Clients -> [ref : Nat, end : BOOLEAN]]
    /\ DOMAIN told = Clients

\* An entry stands under the identifier of its session, which VS Code has
\* started; no two entries have one reference; and the runtimes agree.
TableInv ==
    /\ \A i \in Ids : entry[i] # None =>
         IdOf[entry[i].session] = i /\ world[entry[i].session] # "unborn"
    /\ \A i, j \in Ids : entry[i] # None /\ entry[j] # None /\ i # j =>
         entry[i].ref # entry[j].ref
    /\ \A i \in Ids : (entry[i] # None /\ entry[i].tracked) <=> runtime[i] # None
    /\ \A i \in Ids : runtime[i] # None =>
         runtime[i].ref = entry[i].ref /\ runtime[i].session = entry[i].session
    /\ \A r \in byRef : \E i \in Ids : runtime[i] # None /\ runtime[i].ref = r
    /\ \A i \in Ids : runtime[i] # None => runtime[i].ref \in byRef

\* A session that has ended is gone, or its removal is queued.
EndInv ==
    \A s \in Sessions : world[s] = "ended" =>
      \/ entry[IdOf[s]] = None
      \/ entry[IdOf[s]].session # s
      \/ \E j \in 1..Len(microtasks) : microtasks[j] = Removal(s, entry[IdOf[s]].ref)

\* A removal is queued behind the waits that hear of the end, so these still
\* find their session; the waits that do not hear of it were told of a
\* replacement, or asked for something else.
TaskInv ==
    \A j \in 1..Len(microtasks) :
      LET m == microtasks[j]
      IN  /\ m.run = "remove" =>
               /\ j = Len(microtasks) /\ world[m.session] = "ended"
               /\ runtime[IdOf[m.session]] # None =>
                    runtime[IdOf[m.session]].phase = "terminated"
          /\ m.run = "resume" /\ m.how = "event" =>
               \E i \in Ids : runtime[i] # None /\ runtime[i].ref = watched[m.client].ref
          /\ m.run = "resume" /\ m.how = "notAttached" /\ watched[m.client].end =>
               watched[m.client].ref \in replaced

\* Who waits has a runtime to hear from, and who waits for the end of a session
\* waits only until its adapter has told of it.
WaitInv ==
    \A k \in Clients : call[k] = "wait" =>
      /\ watched[k].ref \in byRef
      /\ watched[k].end => \A i \in Ids :
           runtime[i] # None /\ runtime[i].ref = watched[k].ref =>
             runtime[i].phase = "live"

\* Nobody has seen a reference that is not in use.
ObservedInv == observed \subseteq LiveRefs

\* The inductive invariant: the parts rely on each other, the last one on all.
Inv ==
    /\ TypeOK
    /\ DataInv /\ TableInv /\ EndInv /\ TaskInv /\ WaitInv /\ ObservedInv
    /\ WaitersHearOfTheEnd

-----------------------------------------------------------------------------
(* Lemmas.                                                                 *)

\* What the type invariant says of one entry.
LEMMA EntryFacts ==
    ASSUME TypeOK, NEW i \in Ids, entry[i] # None
    PROVE  /\ entry[i].ref \in 1..lastRef /\ entry[i].ref \in Nat
           /\ entry[i].session \in Sessions /\ entry[i].tracked \in BOOLEAN
BY DEF TypeOK

\* And of one runtime.
LEMMA RuntimeFacts ==
    ASSUME TypeOK, NEW i \in Ids, runtime[i] # None
    PROVE  /\ runtime[i].ref \in 1..lastRef /\ runtime[i].ref \in Nat
           /\ runtime[i].session \in Sessions
           /\ runtime[i].phase \in {"live", "terminated"}
BY DEF TypeOK

\* LiveRefs without the set of entries between.
LEMMA LiveRefsAre ==
    \A r : r \in LiveRefs <=> \E i \in Ids : entry[i] # None /\ entry[i].ref = r
BY DEF LiveRefs, Entries

\* What is put into the tables is something.
LEMMA NotNone ==
    /\ \A ref \in Nat, s \in Sessions, t \in BOOLEAN : Entry(ref, s, t) # None
    /\ \A ref \in Nat, s \in Sessions : Runtime(ref, s) # None
BY NoneAssumption DEF Entry, Runtime

\* The tasks that the steps queue, and which of their fields is which.
LEMMA TaskFacts ==
    /\ \A k \in Clients, how \in Hows :
         /\ Resume(k, how) \in Tasks /\ Resume(k, how).run = "resume"
         /\ Resume(k, how).client = k /\ Resume(k, how).how = how
    /\ \A s \in Sessions, ref \in Nat :
         /\ Removal(s, ref) \in Tasks /\ Removal(s, ref).run = "remove"
         /\ Removal(s, ref).session = s /\ Removal(s, ref).ref = ref
    /\ \A t \in Tasks : t.run = "resume" => t.client \in Clients /\ t.how \in Hows
    /\ \A t \in Tasks : t.run = "remove" => t.session \in Sessions /\ t.ref \in Nat
    /\ \A t \in Tasks : t.run \in {"resume", "remove"}
BY DEF Tasks, Resume, Removal

\* A queue of continuations only, and one that ends with what comes after.
OnlyResumes(q, ks, how) ==
    \A j \in 1..Len(q) : \E k \in ks : q[j] = Resume(k, how)

ResumesAnd(q, ks, how, after) ==
    /\ \A j \in 1..Len(q) :
         \/ \E k \in ks : q[j] = Resume(k, how)
         \/ j = Len(q) /\ Len(after) = 1 /\ q[j] = after[1]
    /\ Len(after) = 1 => Len(q) \in 1..Len(q) /\ q[Len(q)] = after[1]

\* Release queues one task for each wait it settles, and what comes after.
LEMMA Released ==
    ASSUME NEW ks \in SUBSET Clients, NEW how \in Hows, NEW after \in Seq(Tasks),
           call \in [Clients -> {"none", "wait", "resuming", "attach", "gone"}],
           NEW none, none = <<>>, Release(ks, how, none, after), Len(after) <= 1
    PROVE  /\ microtasks' \in Seq(Tasks)
           /\ ResumesAnd(microtasks', ks, how, after)
           /\ Len(after) = 0 => OnlyResumes(microtasks', ks, how)
           /\ call' \in [Clients -> {"none", "wait", "resuming", "attach", "gone"}]
           /\ \A k \in Clients : call'[k] = "wait" => call[k] = "wait" /\ k \notin ks
<1>1. /\ call' \in [Clients -> {"none", "wait", "resuming", "attach", "gone"}]
      /\ \A k \in Clients : call'[k] = "wait" => call[k] = "wait" /\ k \notin ks
  BY DEF Release
<1>2. Cardinality(ks) \in Nat
  BY ClientsAssumption, FS_Subset, FS_CardinalityType
<1> DEFINE n == Cardinality(ks)
<1>3. PICK order \in [1..n -> ks] :
        microtasks' = <<>> \o [j \in DOMAIN order |-> Resume(order[j], how)] \o after
  BY DEF Release
<1> DEFINE q == [j \in 1..n |-> Resume(order[j], how)]
<1> HIDE DEF n
<1>4. n \in Nat
  BY <1>2 DEF n
<1>5. q \in Seq(Tasks) /\ Len(q) = n
  <2>1. \A j \in 1..n : Resume(order[j], how) \in Tasks
    BY <1>3, TaskFacts
  <2> QED
    BY <1>4, <2>1
<1>6. \A j \in 1..n : q[j] = Resume(order[j], how) /\ order[j] \in ks
  BY <1>3
<1>7. microtasks' = q \o after
  <2>1. microtasks' = <<>> \o q \o after
    BY <1>3
  <2> HIDE DEF q
  <2> QED
    BY <1>5, <2>1, ConcatEmptySeq
<1> HIDE DEF q
<1>8. /\ microtasks' \in Seq(Tasks) /\ Len(microtasks') = n + Len(after)
      /\ \A j \in 1..Len(microtasks') :
           microtasks'[j] = IF j <= n THEN q[j] ELSE after[j - n]
  BY <1>5, <1>7, ConcatProperties
<1>9. Len(after) \in Nat
  BY LenProperties
<1>10. ASSUME NEW j \in 1..Len(microtasks')
       PROVE  \/ \E k \in ks : microtasks'[j] = Resume(k, how)
              \/ /\ j = Len(microtasks') /\ Len(after) = 1
                 /\ microtasks'[j] = after[1]
  <2>1. CASE j <= n
    <3>1. j \in 1..n
      BY <1>4, <1>8, <1>9, <2>1
    <3> QED
      BY <1>6, <1>8, <2>1, <3>1
  <2>2. CASE ~(j <= n)
    <3>1. Len(after) = 1 /\ j = n + 1
      <4> DEFINE l == Len(after)
      <4>1. l \in Nat /\ l <= 1 /\ j \in 1..(n + l)
        BY <1>8, <1>9
      <4> HIDE DEF l
      <4>2. l = 1 /\ j = n + 1
        BY <1>4, <2>2, <4>1
      <4> QED
        BY <4>2 DEF l
    <3> QED
      BY <1>4, <1>8, <2>2, <3>1
  <2> QED
    BY <2>1, <2>2
<1>11. Len(after) = 1 => /\ Len(microtasks') \in 1..Len(microtasks')
                         /\ microtasks'[Len(microtasks')] = after[1]
  BY <1>4, <1>8
<1>12. Len(after) = 0 => OnlyResumes(microtasks', ks, how)
  BY <1>10 DEF OnlyResumes
<1> QED
  BY <1>1, <1>8, <1>10, <1>11, <1>12 DEF ResumesAnd

\* Nobody but those released is queued, when nothing else is to run.
LEMMA ReleasedAlone ==
    ASSUME NEW ks \in SUBSET Clients, NEW how \in Hows,
           call \in [Clients -> {"none", "wait", "resuming", "attach", "gone"}],
           Release(ks, how, <<>>, <<>>)
    PROVE  /\ microtasks' \in Seq(Tasks)
           /\ \A j \in 1..Len(microtasks') :
                \E k \in ks : microtasks'[j] = Resume(k, how)
           /\ call' \in [Clients -> {"none", "wait", "resuming", "attach", "gone"}]
           /\ \A k \in Clients : call'[k] = "wait" => call[k] = "wait" /\ k \notin ks
<1> DEFINE none == <<>>
<1>1. none \in Seq(Tasks) /\ Len(none) = 0
  BY EmptySeq
<1>2. Release(ks, how, none, none) /\ none = <<>>
  OBVIOUS
<1> HIDE DEF none
<1>3. Len(none) <= 1 /\ Len(none) # 1
  BY <1>1
<1>4. microtasks' \in Seq(Tasks)
  BY <1>1, <1>2, <1>3, Released
<1>5. OnlyResumes(microtasks', ks, how)
  BY <1>1, <1>2, <1>3, Released
<1>6. call' \in [Clients -> {"none", "wait", "resuming", "attach", "gone"}]
  BY <1>1, <1>2, <1>3, Released
<1>7. \A k \in Clients : call'[k] = "wait" => call[k] = "wait" /\ k \notin ks
  BY <1>1, <1>2, <1>3, Released
<1> QED
  BY <1>4, <1>5, <1>6, <1>7 DEF OnlyResumes

\* What is left when the first task has been taken.
LEMMA Rest ==
    ASSUME microtasks \in Seq(Tasks), ~AtRest, microtasks' = Tail(microtasks)
    PROVE  /\ Head(microtasks) = microtasks[1] /\ Head(microtasks) \in Tasks
           /\ 1 \in 1..Len(microtasks) /\ Len(microtasks) \in Nat
           /\ microtasks' \in Seq(Tasks) /\ Len(microtasks') = Len(microtasks) - 1
           /\ \A j \in 1..Len(microtasks') :
                microtasks'[j] = microtasks[j + 1] /\ j + 1 \in 1..Len(microtasks)
<1>1. Len(microtasks) \in Nat /\ Len(microtasks) # 0
  BY EmptySeq, LenProperties DEF AtRest
<1>2. microtasks[1] \in Tasks
  BY <1>1, ElementOfSeq
<1> QED
  BY <1>1, <1>2, HeadTailProperties DEF AtRest

\* At rest nothing is queued.
LEMMA NothingQueued == AtRest => Len(microtasks) = 0
BY DEF AtRest

-----------------------------------------------------------------------------
(* What the steps do to the tables.                                        *)

\* SessionRegistry.register
LEMMA Registers ==
    ASSUME TypeOK, TableInv, NEW s \in Sessions, NEW tracked \in BOOLEAN,
           Register(s, tracked)
    PROVE  /\ entry' \in [Ids -> [ref : 1..lastRef', session : Sessions,
                                  tracked : BOOLEAN] \cup {None}]
           /\ lastRef' \in Nat /\ lastRef <= lastRef'
           /\ \A j \in Ids : j # IdOf[s] => entry'[j] = entry[j]
           /\ entry'[IdOf[s]] # None /\ entry'[IdOf[s]].session = s
           /\ \/ /\ entry[IdOf[s]] = None \/ Evicts(s)
                 /\ lastRef' = lastRef + 1 /\ entry'[IdOf[s]].ref = lastRef'
                 /\ entry'[IdOf[s]].tracked <=> tracked
              \/ /\ entry[IdOf[s]] # None /\ entry[IdOf[s]].session = s
                 /\ lastRef' = lastRef /\ entry'[IdOf[s]].ref = entry[IdOf[s]].ref
                 /\ entry'[IdOf[s]].tracked <=> entry[IdOf[s]].tracked \/ tracked
<1> DEFINE i == IdOf[s]
<1>1. i \in Ids /\ lastRef \in Nat
  BY IdOfAssumption DEF TypeOK
<1>2. CASE entry[i] = None \/ Evicts(s)
  <2>1. lastRef' = lastRef + 1 /\ entry' = [entry EXCEPT ![i] = Entry(lastRef', s, tracked)]
    BY <1>2 DEF Register
  <2>2. Entry(lastRef', s, tracked) # None
    BY <1>1, <2>1, NotNone
  <2>3. Entry(lastRef', s, tracked) \in [ref : 1..lastRef', session : Sessions, tracked : BOOLEAN]
    BY <1>1, <2>1 DEF Entry
  <2>4. /\ Entry(lastRef', s, tracked).ref = lastRef'
        /\ Entry(lastRef', s, tracked).session = s
        /\ Entry(lastRef', s, tracked).tracked = tracked
    BY DEF Entry
  <2> QED
    BY <1>1, <1>2, <2>1, <2>2, <2>3, <2>4 DEF TypeOK
<1>3. CASE ~(entry[i] = None \/ Evicts(s))
  <2> DEFINE t == entry[i].tracked \/ tracked
             r == entry[i].ref
  <2>1. lastRef' = lastRef /\ entry' = [entry EXCEPT ![i] = Entry(r, s, t)]
    BY <1>3 DEF Register
  <2>2. r \in 1..lastRef /\ r \in Nat /\ t \in BOOLEAN /\ entry[i].session = s
    BY <1>1, <1>3, EntryFacts DEF Evicts
  <2>3. /\ Entry(r, s, t) # None
        /\ Entry(r, s, t) \in [ref : 1..lastRef', session : Sessions, tracked : BOOLEAN]
    <3> HIDE DEF r, t
    <3> QED
      BY <1>1, <2>1, <2>2, NotNone DEF Entry
  <2>4. Entry(r, s, t).ref = r /\ Entry(r, s, t).session = s /\ Entry(r, s, t).tracked = t
    BY DEF Entry
  <2> HIDE DEF r, t
  <2>5. /\ entry'[i] = Entry(r, s, t) /\ \A j \in Ids : j # i => entry'[j] = entry[j]
        /\ entry' \in [Ids -> [ref : 1..lastRef', session : Sessions,
                               tracked : BOOLEAN] \cup {None}]
    BY <1>1, <2>1, <2>3 DEF TypeOK
  <2> QED
    BY <1>1, <1>3, <2>1, <2>2, <2>3, <2>4, <2>5 DEF r, t
<1> QED
  BY <1>2, <1>3

-----------------------------------------------------------------------------
(* The clients' steps, which leave the tables and the queue alone.         *)

\* What the invariant needs of a step that touches neither.
Quiet ==
    /\ UNCHANGED <<world, announced, entry, lastRef, runtime, byRef, microtasks,
                   watched, replaced>>
    /\ gate' \in Seq(Clients) /\ starting' \in BOOLEAN
    /\ starting' => gate' # <<>>
    /\ call' \in [Clients -> {"none", "wait", "resuming", "attach", "gone"}]
    /\ \A k \in Clients : call'[k] = "wait" => call[k] = "wait"
    /\ selection' \in [Clients -> 0..lastRef]
    /\ observed' \subseteq LiveRefs
    /\ DOMAIN told' = Clients
    /\ \A k \in Clients : told'[k] = told[k] \/ told'[k][1] # "notAttached"

\* A reference in use was handed out.
LEMMA LiveRefsBounded == ASSUME TypeOK PROVE LiveRefs \subseteq 1..lastRef
BY LiveRefsAre, EntryFacts

\* No quiet step disturbs the invariant.
LEMMA QuietKeeps == Inv /\ Quiet => Inv'
<1> SUFFICES ASSUME Inv, Quiet
             PROVE  Inv'
  OBVIOUS
<1>1. LiveRefs' = LiveRefs
  BY DEF Quiet, LiveRefs, Entries
<1>2. TypeOK'
  BY LiveRefsBounded DEF Inv, TypeOK, Quiet
<1>3. DataInv' /\ TableInv' /\ EndInv' /\ TaskInv' /\ ObservedInv'
  BY <1>1 DEF Inv, DataInv, TableInv, EndInv, TaskInv, ObservedInv, Quiet
<1>4. WaitInv'
  BY DEF Inv, WaitInv, Quiet
<1>5. WaitersHearOfTheEnd'
  BY DEF Inv, WaitersHearOfTheEnd, Quiet
<1> QED
  BY <1>2, <1>3, <1>4, <1>5 DEF Inv

\* The head of the gate leaves, with something else than the loss of a wait.
LEMMA Leaves ==
    ASSUME TypeOK, DataInv, gate # <<>>, NEW what, what[1] # "notAttached",
           LeaveGate(Head(gate), what)
    PROVE  /\ gate' \in Seq(Clients) /\ starting' \in BOOLEAN /\ ~starting'
           /\ call' \in [Clients -> {"none", "wait", "resuming", "attach", "gone"}]
           /\ \A k \in Clients : call'[k] = "wait" => call[k] = "wait"
           /\ DOMAIN told' = Clients
           /\ \A k \in Clients : told'[k] = told[k] \/ told'[k][1] # "notAttached"
<1>1. /\ gate \in Seq(Clients) /\ DOMAIN told = Clients
      /\ call \in [Clients -> {"none", "wait", "resuming", "attach", "gone"}]
  BY DEF TypeOK, DataInv
<1>2. Head(gate) \in Clients /\ Tail(gate) \in Seq(Clients)
  BY <1>1, HeadTailProperties
<1> DEFINE k0 == Head(gate)
<1>3. gate' \in Seq(Clients) /\ starting' = FALSE
  BY <1>2 DEF LeaveGate
<1>4. told' = [told EXCEPT ![k0] = what]
      /\ \E how \in {"none", "gone"} : call' = [call EXCEPT ![k0] = how]
  BY <1>1, <1>2 DEF LeaveGate
<1> HIDE DEF k0
<1> QED
  BY <1>1, <1>3, <1>4

\* A selection is of a reference in use, or of none.
LEMMA Selects ==
    ASSUME TypeOK, DataInv, ObservedInv, gate # <<>>, NEW e \in Tracked,
           NEW how, how # "notAttached", Select(Head(gate), e, how)
    PROVE  /\ gate' \in Seq(Clients) /\ starting' \in BOOLEAN /\ ~starting'
           /\ call' \in [Clients -> {"none", "wait", "resuming", "attach", "gone"}]
           /\ \A k \in Clients : call'[k] = "wait" => call[k] = "wait"
           /\ DOMAIN told' = Clients
           /\ \A k \in Clients : told'[k] = told[k] \/ told'[k][1] # "notAttached"
           /\ selection' \in [Clients -> 0..lastRef]
           /\ observed' \subseteq LiveRefs
<1> DEFINE what == <<how, Phase(e)>>
<1>1. LeaveGate(Head(gate), what) /\ what[1] # "notAttached"
  BY DEF Select
<1>2. e.ref \in LiveRefs /\ e.ref \in 1..lastRef /\ lastRef \in Nat
  BY LiveRefsBounded DEF Tracked, LiveRefs, TypeOK
<1>3. selection' \in [Clients -> 0..lastRef]
  <2>1. selection' = [selection EXCEPT ![Head(gate)] = e.ref] /\ e.ref \in 0..lastRef
    BY <1>2 DEF Select
  <2> QED
    BY <2>1 DEF TypeOK
<1>4. observed' \subseteq LiveRefs
  BY <1>2 DEF Select, ObservedInv
<1> HIDE DEF what
<1> QED
  BY <1>1, <1>3, <1>4, Leaves

\* The steps of the clients are quiet: attach up to its start,
LEMMA AttachBeginsIsQuiet == Inv /\ AttachBegins => Quiet
<1> SUFFICES ASSUME Inv, AttachBegins
             PROVE  Quiet
  OBVIOUS
<1>1. /\ UNCHANGED <<world, announced, entry, lastRef, runtime, byRef, microtasks,
                     watched, replaced>>
      /\ gate # <<>>
  BY DEF AttachBegins, worldVars
<1>2. /\ TypeOK /\ DataInv /\ ObservedInv /\ DOMAIN told = Clients
      /\ selection \in [Clients -> 0..lastRef] /\ observed \subseteq LiveRefs
      /\ gate \in Seq(Clients)
      /\ call \in [Clients -> {"none", "wait", "resuming", "attach", "gone"}]
  BY DEF Inv, TypeOK, DataInv, ObservedInv
<1> DEFINE what == <<"refused">>
<1>3. CASE LeaveGate(Head(gate), what) /\ UNCHANGED <<selection, observed>>
  <2>1. what[1] # "notAttached"
    OBVIOUS
  <2> HIDE DEF what
  <2> QED
    BY <1>1, <1>2, <1>3, <2>1, Leaves DEF Quiet
<1>4. ASSUME NEW e \in Tracked, Select(Head(gate), e, "reused")
      PROVE  Quiet
  BY <1>1, <1>2, <1>4, Selects DEF Quiet
<1>5. CASE starting' = TRUE /\ UNCHANGED <<gate, selection, call, told, observed>>
  BY <1>1, <1>2, <1>5 DEF Quiet
<1> QED
  BY <1>3, <1>4, <1>5 DEF AttachBegins

\* attach from its start on,
LEMMA AttachEndsIsQuiet == Inv /\ AttachEnds => Quiet
<1> SUFFICES ASSUME Inv, AttachEnds
             PROVE  Quiet
  OBVIOUS
<1>1. /\ UNCHANGED <<world, announced, entry, lastRef, runtime, byRef, microtasks,
                     watched, replaced>>
      /\ gate # <<>>
  BY DEF AttachEnds, worldVars, Inv, TypeOK
<1>2. /\ TypeOK /\ DataInv /\ ObservedInv
      /\ selection \in [Clients -> 0..lastRef] /\ observed \subseteq LiveRefs
  BY DEF Inv, TypeOK, ObservedInv
<1> DEFINE what == <<"refused">>
<1>3. CASE LeaveGate(Head(gate), what) /\ UNCHANGED <<selection, observed>>
  <2>1. what[1] # "notAttached"
    OBVIOUS
  <2> HIDE DEF what
  <2> QED
    BY <1>1, <1>2, <1>3, <2>1, Leaves DEF Quiet
<1>4. ASSUME NEW e \in Tracked, Select(Head(gate), e, "started")
      PROVE  Quiet
  BY <1>1, <1>2, <1>4, Selects DEF Quiet
<1> QED
  BY <1>3, <1>4 DEF AttachEnds

\* and the calls that end where they begin.
LEMMA ClientsAreQuiet ==
    ASSUME Inv, NEW k \in Clients,
           WaitEnds(k) \/ Attach(k) \/ Status(k) \/ Disconnect(k) \/ ClientGone(k)
    PROVE  Quiet
<1>1. /\ DOMAIN told = Clients /\ lastRef \in Nat
      /\ selection \in [Clients -> 0..lastRef] /\ observed \subseteq LiveRefs
      /\ gate \in Seq(Clients) /\ starting \in BOOLEAN /\ (starting => gate # <<>>)
      /\ call \in [Clients -> {"none", "wait", "resuming", "attach", "gone"}]
  BY DEF Inv, TypeOK, DataInv, ObservedInv
<1>2. \A t : t = <<"nothing">> => t[1] # "notAttached"
  OBVIOUS
<1> DEFINE nothing == <<"nothing">>
<1> HIDE DEF nothing
<1>3. CASE WaitEnds(k)
  BY <1>1, <1>3 DEF WaitEnds, worldVars, tableVars, attachVars, Quiet
<1>4. CASE Attach(k)
  <2>1. gate' \in Seq(Clients) /\ gate' # <<>>
    BY <1>1, <1>4, AppendProperties DEF Attach
  <2>2. told' = [told EXCEPT ![k] = nothing] /\ nothing[1] # "notAttached"
    BY <1>2, <1>4 DEF Attach, nothing
  <2> QED
    BY <1>1, <1>4, <2>1, <2>2 DEF Attach, worldVars, tableVars, Quiet
<1>5. CASE Status(k)
  <2>1. told' = [told EXCEPT ![k] = nothing] /\ nothing[1] # "notAttached"
    BY <1>2, <1>5 DEF Status, nothing
  <2>2. observed' \subseteq LiveRefs /\ selection' \in [Clients -> 0..lastRef]
    <3>1. 0 \in 0..lastRef
      BY <1>1
    <3>2. CASE selection[k] \in LiveRefs
      BY <1>1, <1>5, <3>2 DEF Status
    <3>3. CASE selection[k] \notin LiveRefs
      BY <1>1, <1>5, <3>1, <3>3 DEF Status
    <3> QED
      BY <3>2, <3>3
  <2> QED
    BY <1>1, <1>5, <2>1, <2>2 DEF Status, worldVars, Quiet
<1>6. CASE Disconnect(k)
  BY <1>1, <1>6 DEF Disconnect, worldVars, tableVars, Quiet
<1>7. CASE ClientGone(k)
  <2>1. told' = [told EXCEPT ![k] = nothing] /\ nothing[1] # "notAttached"
    BY <1>2, <1>7 DEF ClientGone, nothing
  <2> QED
    BY <1>1, <1>7, <2>1 DEF ClientGone, worldVars, tableVars, Quiet
<1> QED
  BY <1>3, <1>4, <1>5, <1>6, <1>7

-----------------------------------------------------------------------------
(* Sessions come.                                                          *)

\* Whose references the registry lives by after a registration.
LEMMA LiveRefsAfter ==
    ASSUME Inv, NEW s \in Sessions, NEW tracked \in BOOLEAN, Register(s, tracked)
    PROVE  /\ (LiveRefs \ EvictedRefs(s)) \subseteq LiveRefs'
           /\ entry'[IdOf[s]].ref \in LiveRefs'
           /\ LiveRefs' \subseteq 1..lastRef'
<1> DEFINE i == IdOf[s]
<1>1. TypeOK /\ TableInv /\ i \in Ids
  BY IdOfAssumption DEF Inv
<1>2. /\ \A j \in Ids : j # i => entry'[j] = entry[j]
      /\ entry'[i] # None
      /\ entry[i] = None \/ Evicts(s) \/ entry'[i].ref = entry[i].ref
      /\ entry' \in [Ids -> [ref : 1..lastRef', session : Sessions,
                             tracked : BOOLEAN] \cup {None}]
  BY <1>1, Registers
<1>3. \A r : r \in LiveRefs' <=> \E j \in Ids : entry'[j] # None /\ entry'[j].ref = r
  BY DEF LiveRefs, Entries
<1>4. Evicts(s) => EvictedRefs(s) = {entry[i].ref}
  BY DEF EvictedRefs
<1>5. ASSUME NEW r \in LiveRefs, r \notin EvictedRefs(s)
      PROVE  r \in LiveRefs'
  <2>1. PICK j \in Ids : entry[j] # None /\ entry[j].ref = r
    BY LiveRefsAre
  <2>2. entry'[j] # None /\ entry'[j].ref = r
    BY <1>2, <1>4, <1>5, <2>1
  <2> QED
    BY <1>3, <2>2
<1>6. entry'[i].ref \in LiveRefs'
  BY <1>1, <1>2, <1>3
<1>7. LiveRefs' \subseteq 1..lastRef'
  BY <1>2, <1>3
<1> QED
  BY <1>5, <1>6, <1>7

\* A reference is given to one entry only.
LEMMA RefsDiffer ==
    ASSUME Inv, NEW s \in Sessions, NEW tracked \in BOOLEAN, Register(s, tracked)
    PROVE  \A i, j \in Ids : entry'[i] # None /\ entry'[j] # None /\ i # j =>
             entry'[i].ref # entry'[j].ref
<1>1. TypeOK /\ TableInv /\ IdOf[s] \in Ids /\ lastRef \in Nat
  BY IdOfAssumption DEF Inv, TypeOK
<1>2. \A j \in Ids : entry[j] # None => entry[j].ref \in 1..lastRef
  BY <1>1, EntryFacts
<1>3. \A i, j \in Ids : entry[i] # None /\ entry[j] # None /\ i # j =>
        entry[i].ref # entry[j].ref
  BY <1>1 DEF TableInv
<1>4. /\ \A j \in Ids : j # IdOf[s] => entry'[j] = entry[j]
      /\ \/ entry'[IdOf[s]].ref = lastRef + 1
         \/ entry[IdOf[s]] # None /\ entry'[IdOf[s]].ref = entry[IdOf[s]].ref
  BY <1>1, Registers
<1>5. ASSUME NEW j \in Ids, j # IdOf[s], entry'[j] # None
      PROVE  entry'[IdOf[s]].ref # entry'[j].ref
  <2>1. entry'[j] = entry[j] /\ entry[j].ref \in 1..lastRef
    BY <1>2, <1>4, <1>5
  <2>2. lastRef + 1 # entry[j].ref
    BY <1>1, <2>1
  <2> QED
    BY <1>1, <1>3, <1>4, <1>5, <2>1, <2>2
<1> QED
  BY <1>1, <1>3, <1>4, <1>5

\* What an end that was reported left behind is not touched by a registration.
LEMMA EndedStayForgotten ==
    ASSUME Inv, AtRest, NEW s \in Sessions, NEW tracked \in BOOLEAN,
           Register(s, tracked),
           \A t \in Sessions : world'[t] = "ended" => world[t] = "ended" /\ t # s
    PROVE  EndInv'
<1> SUFFICES ASSUME NEW t \in Sessions, world'[t] = "ended"
             PROVE  entry'[IdOf[t]] = None \/ entry'[IdOf[t]].session # t
  BY DEF EndInv
<1>1. TypeOK /\ TableInv /\ IdOf[t] \in Ids
  BY IdOfAssumption DEF Inv
<1>2. entry[IdOf[t]] = None \/ entry[IdOf[t]].session # t
  BY NothingQueued DEF Inv, EndInv
<1> QED
  BY <1>1, <1>2, Registers

\* onDidStartDebugSession: the entry of an older object under the identifier
\* is replaced, and whoever waited for it is told that it is not attached.
LEMMA DidStartKeeps == ASSUME Inv, NEW s \in Sessions, DidStart(s) PROVE Inv'
<1> DEFINE i == IdOf[s]
           evicted == EvictedRefs(s)
<1>1. /\ TypeOK /\ DataInv /\ TableInv /\ EndInv /\ TaskInv /\ WaitInv /\ ObservedInv
      /\ WaitersHearOfTheEnd /\ i \in Ids /\ lastRef \in Nat /\ FALSE \in BOOLEAN
  BY IdOfAssumption DEF Inv, TypeOK
<1>2. /\ AtRest /\ Register(s, FALSE) /\ world[s] \in {"live", "older"}
      /\ observed' = observed \ evicted /\ replaced' = replaced \cup evicted
      /\ announced' = announced \cup {s}
      /\ UNCHANGED <<world, gate, starting, selection, watched, told>>
  BY DEF DidStart, Forget, attachVars
<1>3. /\ entry' \in [Ids -> [ref : 1..lastRef', session : Sessions,
                             tracked : BOOLEAN] \cup {None}]
      /\ lastRef' \in Nat /\ lastRef <= lastRef'
      /\ \A j \in Ids : j # i => entry'[j] = entry[j]
      /\ entry'[i] # None /\ entry'[i].session = s
      /\ \/ /\ entry[i] = None \/ Evicts(s)
            /\ ~entry'[i].tracked
         \/ /\ entry[i] # None /\ entry[i].session = s
            /\ entry'[i].ref = entry[i].ref
            /\ entry'[i].tracked <=> entry[i].tracked
  BY <1>1, <1>2, Registers
<1>4. /\ \A j \in Ids : runtime'[j] # None => runtime'[j] = runtime[j]
      /\ \A j \in Ids : j # i => runtime'[j] = runtime[j]
      /\ Evicts(s) \/ entry[i] = None => runtime'[i] = None
      /\ ~Evicts(s) => runtime'[i] = runtime[i]
      /\ runtime' \in [Ids -> [ref : 1..lastRef, session : Sessions,
                               phase : {"live", "terminated"}] \cup {None}]
      /\ byRef' = IF Evicts(s) THEN byRef \ RuntimeRefs(i) ELSE byRef
  <2>1. runtime[i] # None => runtime[i].session = entry[i].session
    BY <1>1 DEF TableInv
  <2>2. entry[i] = None => runtime[i] = None
    BY <1>1 DEF TableInv
  <2>3. CASE Evicts(s) /\ runtime[i] # None
    <3>1. runtime' = [runtime EXCEPT ![i] = None] /\ byRef' = byRef \ RuntimeRefs(i)
      BY <2>1, <2>3 DEF DidStart
    <3> QED
      BY <1>1, <2>3, <3>1 DEF TypeOK
  <2>4. CASE ~(Evicts(s) /\ runtime[i] # None)
    <3>1. runtime' = runtime /\ byRef' = byRef
      BY <2>4 DEF DidStart
    <3> QED
      BY <1>1, <2>2, <2>4, <3>1 DEF TypeOK, RuntimeRefs
  <2> QED
    BY <2>3, <2>4
<1>5. /\ microtasks' \in Seq(Tasks)
      /\ call' \in [Clients -> {"none", "wait", "resuming", "attach", "gone"}]
      /\ \A k \in Clients : call'[k] = "wait" =>
           call[k] = "wait" /\ (Evicts(s) => watched[k].ref \notin RuntimeRefs(i))
      /\ \A j \in 1..Len(microtasks') : \E k \in Clients :
           microtasks'[j] = Resume(k, "notAttached") /\ watched[k].ref \in replaced'
  <2>1. CASE Evicts(s) /\ runtime[i] # None
    <3> DEFINE ks == WaitingOn(runtime[i].ref)
    <3>1. ks \in SUBSET Clients /\ Release(ks, "notAttached", <<>>, <<>>)
      BY <1>1, <2>1 DEF DidStart, TableInv, WaitingOn
    <3>2. /\ RuntimeRefs(i) = {runtime[i].ref} /\ runtime[i].ref \in evicted
          /\ \A k \in Clients : call[k] = "wait" /\ k \notin ks =>
               watched[k].ref # runtime[i].ref
          /\ \A k \in ks : watched[k].ref = runtime[i].ref
      BY <1>1, <2>1 DEF RuntimeRefs, EvictedRefs, TableInv, WaitingOn
    <3>3. /\ "notAttached" \in Hows
          /\ call \in [Clients -> {"none", "wait", "resuming", "attach", "gone"}]
      BY <1>1 DEF Hows, TypeOK
    <3> HIDE DEF ks
    <3>4. /\ microtasks' \in Seq(Tasks)
          /\ \A j \in 1..Len(microtasks') :
               \E k \in ks : microtasks'[j] = Resume(k, "notAttached")
          /\ call' \in [Clients -> {"none", "wait", "resuming", "attach", "gone"}]
          /\ \A k \in Clients : call'[k] = "wait" => call[k] = "wait" /\ k \notin ks
      BY <3>1, <3>3, ReleasedAlone
    <3> QED
      BY <1>2, <3>1, <3>2, <3>4
  <2>2. CASE ~(Evicts(s) /\ runtime[i] # None)
    <3>1. UNCHANGED <<microtasks, call>>
      BY <2>2 DEF DidStart
    <3>2. Len(microtasks') = 0
      BY <1>2, <3>1, NothingQueued
    <3> QED
      BY <1>1, <2>2, <3>1, <3>2 DEF TypeOK, DataInv, RuntimeRefs
  <2> QED
    BY <2>1, <2>2
<1>6. (LiveRefs \ evicted) \subseteq LiveRefs' /\ LiveRefs' \subseteq 1..lastRef'
  BY <1>1, <1>2, LiveRefsAfter
<1>7. ObservedInv'
  BY <1>1, <1>2, <1>6 DEF ObservedInv
<1>8. TypeOK'
  <2>1. 1..lastRef \subseteq 1..lastRef' /\ 0..lastRef \subseteq 0..lastRef'
    BY <1>1, <1>3
  <2>2. runtime' \in [Ids -> [ref : 1..lastRef', session : Sessions,
                              phase : {"live", "terminated"}] \cup {None}]
    BY <1>4, <2>1
  <2>3. byRef' \subseteq 1..lastRef' /\ observed' \subseteq 1..lastRef'
    BY <1>1, <1>4, <1>6, <1>7, <2>1 DEF TypeOK, ObservedInv
  <2>4. selection' \in [Clients -> 0..lastRef']
    BY <1>1, <1>2, <2>1 DEF TypeOK
  <2> QED
    BY <1>1, <1>2, <1>3, <1>5, <2>2, <2>3, <2>4 DEF TypeOK
<1>9. DataInv'
  BY <1>1, <1>2, <1>5 DEF DataInv
<1>10. TableInv'
  <2>1. \A j \in Ids : entry'[j] # None =>
          IdOf[entry'[j].session] = j /\ world'[entry'[j].session] # "unborn"
    BY <1>1, <1>2, <1>3 DEF TableInv
  <2>2. \A j \in Ids : (entry'[j] # None /\ entry'[j].tracked) <=> runtime'[j] # None
    BY <1>1, <1>3, <1>4 DEF TableInv, Evicts
  <2>3. \A j \in Ids : runtime'[j] # None =>
          runtime'[j].ref = entry'[j].ref /\ runtime'[j].session = entry'[j].session
    BY <1>1, <1>3, <1>4 DEF TableInv, Evicts
  <2>4. \A r \in byRef' : \E j \in Ids : runtime'[j] # None /\ runtime'[j].ref = r
    BY <1>1, <1>4 DEF TableInv, RuntimeRefs
  <2>5. \A j \in Ids : runtime'[j] # None => runtime'[j].ref \in byRef'
    <3>1. \A j \in Ids : j # i /\ runtime[j] # None => runtime[j].ref \notin RuntimeRefs(i)
      BY <1>1 DEF TableInv, RuntimeRefs
    <3> QED
      BY <1>1, <1>4, <3>1 DEF TableInv
  <2> QED
    BY <1>1, <1>2, <2>1, <2>2, <2>3, <2>4, <2>5, RefsDiffer DEF TableInv
<1>11. EndInv'
  <2>1. \A t \in Sessions : world'[t] = "ended" => world[t] = "ended" /\ t # s
    BY <1>2
  <2> QED
    BY <1>1, <1>2, <2>1, EndedStayForgotten
<1>12. TaskInv'
  BY <1>2, <1>5, TaskFacts DEF TaskInv, Hows
<1>13. WaitInv'
  BY <1>1, <1>2, <1>4, <1>5 DEF WaitInv
<1>14. WaitersHearOfTheEnd'
  BY <1>1, <1>2 DEF WaitersHearOfTheEnd
<1> QED
  BY <1>7, <1>8, <1>9, <1>10, <1>11, <1>12, <1>13, <1>14 DEF Inv

\* createDebugAdapterTracker: the same, with a runtime for the entry.
LEMMA TrackerCreatedKeeps == ASSUME Inv, NEW s \in Sessions, TrackerCreated(s) PROVE Inv'
<1> DEFINE i == IdOf[s]
           evicted == EvictedRefs(s)
           ref == entry'[i].ref
           ks == UNION {WaitingOn(r) : r \in RuntimeRefs(i)}
<1>1. /\ TypeOK /\ DataInv /\ TableInv /\ EndInv /\ TaskInv /\ WaitInv /\ ObservedInv
      /\ WaitersHearOfTheEnd /\ i \in Ids /\ lastRef \in Nat /\ TRUE \in BOOLEAN
  BY IdOfAssumption DEF Inv, TypeOK
<1>2. /\ AtRest /\ Register(s, TRUE) /\ world[s] = "unborn"
      /\ world' = [world EXCEPT ![s] = "live"]
      /\ observed' = (observed \ evicted) \cup {ref}
      /\ replaced' = replaced \cup evicted
      /\ runtime' = [runtime EXCEPT ![i] = Runtime(ref, s)]
      /\ byRef' = (byRef \ RuntimeRefs(i)) \cup {ref}
      /\ Release(ks, "notAttached", <<>>, <<>>)
      /\ UNCHANGED <<announced, gate, starting, selection, watched, told>>
  BY DEF TrackerCreated, Forget, attachVars
<1>3. entry[i] = None \/ (Evicts(s) /\ evicted = {entry[i].ref})
  BY <1>1, <1>2 DEF TableInv, Evicts, EvictedRefs
<1>4. /\ entry' \in [Ids -> [ref : 1..lastRef', session : Sessions,
                             tracked : BOOLEAN] \cup {None}]
      /\ lastRef' \in Nat /\ lastRef' = lastRef + 1 /\ ref = lastRef'
      /\ \A j \in Ids : j # i => entry'[j] = entry[j]
      /\ entry'[i] # None /\ entry'[i].session = s /\ entry'[i].tracked
  <2>1. ~(entry[i] # None /\ entry[i].session = s)
    BY <1>3 DEF Evicts
  <2> QED
    BY <1>1, <1>2, <2>1, Registers
<1>5. /\ Runtime(ref, s) \in [ref : 1..lastRef', session : Sessions,
                              phase : {"live", "terminated"}]
      /\ Runtime(ref, s) # None /\ Runtime(ref, s).ref = ref
      /\ Runtime(ref, s).session = s /\ Runtime(ref, s).phase = "live"
  <2>1. ref \in Nat /\ ref \in 1..lastRef'
    BY <1>1, <1>4
  <2> HIDE DEF ref
  <2> QED
    BY <2>1, NotNone DEF Runtime
<1>6. /\ \A j \in Ids : j # i => runtime'[j] = runtime[j]
      /\ runtime'[i] # None /\ runtime'[i].ref = ref /\ runtime'[i].session = s
      /\ runtime'[i].phase = "live"
      /\ runtime' \in [Ids -> [ref : 1..lastRef', session : Sessions,
                               phase : {"live", "terminated"}] \cup {None}]
  <2>1. 1..lastRef \subseteq 1..lastRef'
    BY <1>1, <1>4
  <2>2. runtime \in [Ids -> [ref : 1..lastRef', session : Sessions,
                             phase : {"live", "terminated"}] \cup {None}]
    BY <1>1, <2>1 DEF TypeOK
  <2> HIDE DEF ref, i
  <2> QED
    BY <1>1, <1>2, <1>5, <2>2
<1>7. RuntimeRefs(i) \subseteq evicted
  BY <1>1, <1>3 DEF RuntimeRefs, TableInv
<1>8. /\ microtasks' \in Seq(Tasks)
      /\ call' \in [Clients -> {"none", "wait", "resuming", "attach", "gone"}]
      /\ \A k \in Clients : call'[k] = "wait" =>
           call[k] = "wait" /\ watched[k].ref \notin RuntimeRefs(i)
      /\ \A j \in 1..Len(microtasks') : \E k \in Clients :
           microtasks'[j] = Resume(k, "notAttached") /\ watched[k].ref \in replaced'
  <2>1. /\ ks \in SUBSET Clients /\ "notAttached" \in Hows
        /\ \A k \in ks : watched[k].ref \in RuntimeRefs(i)
        /\ \A k \in Clients : call[k] = "wait" /\ k \notin ks =>
             watched[k].ref \notin RuntimeRefs(i)
        /\ call \in [Clients -> {"none", "wait", "resuming", "attach", "gone"}]
    BY <1>1 DEF WaitingOn, Hows, TypeOK
  <2> HIDE DEF ks
  <2>2. /\ microtasks' \in Seq(Tasks)
        /\ \A j \in 1..Len(microtasks') :
             \E k \in ks : microtasks'[j] = Resume(k, "notAttached")
        /\ call' \in [Clients -> {"none", "wait", "resuming", "attach", "gone"}]
        /\ \A k \in Clients : call'[k] = "wait" => call[k] = "wait" /\ k \notin ks
    BY <1>2, <2>1, ReleasedAlone
  <2> QED
    BY <1>2, <1>7, <2>1, <2>2
<1>9. /\ (LiveRefs \ evicted) \subseteq LiveRefs' /\ LiveRefs' \subseteq 1..lastRef'
      /\ ref \in LiveRefs'
  BY <1>1, <1>2, LiveRefsAfter
<1>10. ObservedInv'
  BY <1>1, <1>2, <1>9 DEF ObservedInv
<1>11. TypeOK'
  <2>1. 1..lastRef \subseteq 1..lastRef' /\ 0..lastRef \subseteq 0..lastRef'
        /\ ref \in 1..lastRef'
    BY <1>1, <1>4
  <2>2. byRef' \subseteq 1..lastRef' /\ observed' \subseteq 1..lastRef'
    BY <1>1, <1>2, <1>9, <1>10, <2>1 DEF TypeOK, ObservedInv
  <2>3. selection' \in [Clients -> 0..lastRef']
    BY <1>1, <1>2, <2>1 DEF TypeOK
  <2>4. world' \in [Sessions -> {"unborn", "older", "live", "ended"}]
    BY <1>1, <1>2 DEF TypeOK
  <2> QED
    BY <1>1, <1>2, <1>4, <1>6, <1>8, <2>2, <2>3, <2>4 DEF TypeOK
<1>12. DataInv'
  BY <1>1, <1>2, <1>8 DEF DataInv
<1>13. TableInv'
  <2>1. \A j \in Ids : entry'[j] # None =>
          IdOf[entry'[j].session] = j /\ world'[entry'[j].session] # "unborn"
    BY <1>1, <1>2, <1>4, EntryFacts DEF TableInv, TypeOK
  <2>2. \A j \in Ids : (entry'[j] # None /\ entry'[j].tracked) <=> runtime'[j] # None
    BY <1>1, <1>4, <1>6 DEF TableInv
  <2>3. \A j \in Ids : runtime'[j] # None =>
          runtime'[j].ref = entry'[j].ref /\ runtime'[j].session = entry'[j].session
    BY <1>1, <1>4, <1>6 DEF TableInv
  <2>4. \A r \in byRef' : \E j \in Ids : runtime'[j] # None /\ runtime'[j].ref = r
    <3> HIDE DEF ref
    <3> QED
      BY <1>1, <1>2, <1>6 DEF TableInv, RuntimeRefs
  <2>5. \A j \in Ids : runtime'[j] # None => runtime'[j].ref \in byRef'
    <3>1. \A j \in Ids : j # i /\ runtime[j] # None => runtime[j].ref \notin RuntimeRefs(i)
      BY <1>1 DEF TableInv, RuntimeRefs
    <3> HIDE DEF ref
    <3> QED
      BY <1>1, <1>2, <1>6, <3>1 DEF TableInv
  <2> QED
    BY <1>1, <1>2, <2>1, <2>2, <2>3, <2>4, <2>5, RefsDiffer DEF TableInv
<1>14. EndInv'
  <2>1. \A t \in Sessions : world'[t] = "ended" => world[t] = "ended" /\ t # s
    BY <1>1, <1>2 DEF TypeOK
  <2> QED
    BY <1>1, <1>2, <2>1, EndedStayForgotten
<1>15. TaskInv'
  BY <1>2, <1>8, TaskFacts DEF TaskInv, Hows
<1>16. WaitInv'
  <2>1. ASSUME NEW k \in Clients, call'[k] = "wait"
        PROVE  /\ watched'[k].ref \in byRef'
               /\ watched'[k].end => \A j \in Ids :
                    runtime'[j] # None /\ runtime'[j].ref = watched'[k].ref =>
                      runtime'[j].phase = "live"
    <3>1. /\ call[k] = "wait" /\ watched'[k] = watched[k]
          /\ watched[k].ref \in byRef \ RuntimeRefs(i)
      BY <1>1, <1>2, <1>8, <2>1 DEF WaitInv
    <3> HIDE DEF ref
    <3> QED
      BY <1>1, <1>2, <1>6, <3>1 DEF WaitInv
  <2> QED
    BY <2>1 DEF WaitInv
<1>17. WaitersHearOfTheEnd'
  BY <1>1, <1>2 DEF WaitersHearOfTheEnd
<1> QED
  BY <1>10, <1>11, <1>12, <1>13, <1>14, <1>15, <1>16, <1>17 DEF Inv

-----------------------------------------------------------------------------
(* Sessions end.                                                           *)

\* acceptAdapterMessage of a terminated event, and what it makes of the parts
\* it can disturb.
LEMMA TerminatedIsAccepted ==
    ASSUME Inv, AtRest, NEW i \in Ids, runtime[i] # None,
           NEW after \in Seq(Tasks), Len(after) <= 1, AcceptTerminated(i, after),
           UNCHANGED <<announced, entry, lastRef, byRef, gate, starting, selection,
                       watched, told, replaced>>,
           world' \in [Sessions -> {"unborn", "older", "live", "ended"}],
           \A s \in Sessions : world[s] # "unborn" => world'[s] # "unborn",
           Len(after) = 1 => \E s \in Sessions : IdOf[s] = i /\ world'[s] = "ended"
                               /\ \E ref \in Nat : after[1] = Removal(s, ref)
    PROVE  /\ TypeOK' /\ DataInv' /\ TableInv' /\ TaskInv' /\ WaitInv'
           /\ ObservedInv' /\ WaitersHearOfTheEnd'
           /\ Len(after) = 0 => Len(microtasks') \in Nat
           /\ Len(after) = 1 => /\ Len(microtasks') \in 1..Len(microtasks')
                                /\ microtasks'[Len(microtasks')] = after[1]
<1> DEFINE ref == runtime[i].ref
           ks == WaitingForEnd(ref)
<1>1. /\ TypeOK /\ DataInv /\ TableInv /\ EndInv /\ TaskInv /\ WaitInv /\ ObservedInv
      /\ WaitersHearOfTheEnd /\ lastRef \in Nat
  BY DEF Inv, TypeOK
<1>2. /\ runtime' = [runtime EXCEPT ![i].phase = "terminated"]
      /\ observed' \subseteq observed \cup {ref}
      /\ observed' \subseteq observed \/ ref \in LiveRefs
      /\ Release(ks, "event", <<>>, after)
  BY DEF AcceptTerminated
<1>3. /\ runtime[i] \in [ref : 1..lastRef, session : Sessions,
                         phase : {"live", "terminated"}]
      /\ [runtime[i] EXCEPT !.phase = "terminated"] # None
  <2>1. runtime[i] \in [ref : 1..lastRef, session : Sessions,
                        phase : {"live", "terminated"}]
    BY <1>1 DEF TypeOK
  <2>2. [runtime[i] EXCEPT !.phase = "terminated"] \in
          [ref : Nat, session : Sessions, phase : {"live", "terminated"}]
    BY <2>1
  <2> QED
    BY <2>1, <2>2, NoneAssumption
<1>4. /\ \A j \in Ids : j # i => runtime'[j] = runtime[j]
      /\ runtime'[i] # None /\ runtime'[i].ref = ref
      /\ runtime'[i].session = runtime[i].session
      /\ runtime'[i].phase = "terminated"
      /\ runtime' \in [Ids -> [ref : 1..lastRef, session : Sessions,
                               phase : {"live", "terminated"}] \cup {None}]
  BY <1>1, <1>2, <1>3 DEF TypeOK
<1>5. \A j \in Ids : /\ runtime'[j] # None <=> runtime[j] # None
                     /\ runtime[j] # None => /\ runtime'[j].ref = runtime[j].ref
                                             /\ runtime'[j].session = runtime[j].session
  BY <1>4
<1>6. /\ ks \in SUBSET Clients /\ "event" \in Hows
      /\ \A k \in ks : watched[k].ref = ref
      /\ \A k \in Clients : call[k] = "wait" /\ watched[k].end /\ k \notin ks =>
           watched[k].ref # ref
      /\ call \in [Clients -> {"none", "wait", "resuming", "attach", "gone"}]
  BY <1>1 DEF WaitingForEnd, WaitingOn, Hows, TypeOK
<1> HIDE DEF ks, ref
<1>7. /\ microtasks' \in Seq(Tasks)
      /\ ResumesAnd(microtasks', ks, "event", after)
      /\ call' \in [Clients -> {"none", "wait", "resuming", "attach", "gone"}]
      /\ \A k \in Clients : call'[k] = "wait" => call[k] = "wait" /\ k \notin ks
  BY <1>2, <1>6, Released
<1>8. LiveRefs' = LiveRefs
  BY DEF LiveRefs, Entries
<1>9. ObservedInv'
  BY <1>1, <1>2, <1>8 DEF ObservedInv
<1>10. TypeOK'
  <2>1. observed' \subseteq 1..lastRef
    BY <1>1, <1>8, <1>9, LiveRefsBounded DEF ObservedInv
  <2> QED
    BY <1>1, <1>4, <1>7, <2>1 DEF TypeOK
<1>11. DataInv'
  BY <1>1, <1>7 DEF DataInv
<1>12. TableInv'
  <2>1. \A j \in Ids : entry[j] # None => world'[entry[j].session] # "unborn"
    BY <1>1, EntryFacts DEF TableInv
  <2> QED
    BY <1>1, <1>5, <2>1 DEF TableInv
<1>13. TaskInv'
  <2>1. ASSUME NEW j \in 1..Len(microtasks'), NEW k \in ks,
               microtasks'[j] = Resume(k, "event")
        PROVE  /\ microtasks'[j].run = "resume" /\ microtasks'[j].how = "event"
               /\ \E n \in Ids : runtime'[n] # None
                                 /\ runtime'[n].ref = watched'[microtasks'[j].client].ref
    BY <1>4, <1>6, <2>1, TaskFacts
  <2>2. ASSUME NEW j \in 1..Len(microtasks'), j = Len(microtasks'), Len(after) = 1,
               microtasks'[j] = after[1]
        PROVE  /\ microtasks'[j].run = "remove"
               /\ world'[microtasks'[j].session] = "ended"
               /\ runtime'[IdOf[microtasks'[j].session]].phase = "terminated"
    BY <1>4, <2>2, TaskFacts
  <2> QED
    BY <1>7, <2>1, <2>2 DEF TaskInv, ResumesAnd
<1>14. WaitInv'
  <2>1. ASSUME NEW k \in Clients, call'[k] = "wait"
        PROVE  /\ watched'[k].ref \in byRef'
               /\ watched'[k].end => \A j \in Ids :
                    runtime'[j] # None /\ runtime'[j].ref = watched'[k].ref =>
                      runtime'[j].phase = "live"
    <3>1. /\ call[k] = "wait" /\ watched'[k] = watched[k]
          /\ watched[k].ref \in byRef
          /\ watched[k].end => watched[k].ref # ref
      BY <1>1, <1>6, <1>7, <2>1 DEF WaitInv
    <3> QED
      BY <1>1, <1>4, <3>1 DEF WaitInv
  <2> QED
    BY <2>1 DEF WaitInv
<1>15. WaitersHearOfTheEnd'
  BY <1>1 DEF WaitersHearOfTheEnd
<1>16. Len(microtasks') \in Nat
  BY <1>7, LenProperties
<1> QED
  BY <1>7, <1>9, <1>10, <1>11, <1>12, <1>13, <1>14, <1>15, <1>16 DEF ResumesAnd

\* The adapter's own terminated event.
LEMMA AdapterTerminatesKeeps ==
    ASSUME Inv, NEW s \in Sessions, AdapterTerminates(s) PROVE Inv'
<1> DEFINE i == IdOf[s]
           none == <<>>
<1>1. /\ i \in Ids /\ AtRest /\ runtime[i] # None
      /\ AcceptTerminated(i, none)
      /\ UNCHANGED <<world, announced, entry, lastRef, byRef, gate, starting, selection,
                     watched, told, replaced>>
  BY IdOfAssumption DEF AdapterTerminates, worldVars, attachVars
<1>2. none \in Seq(Tasks) /\ Len(none) = 0
  BY EmptySeq
<1>3. /\ world' \in [Sessions -> {"unborn", "older", "live", "ended"}]
      /\ \A t \in Sessions : world[t] # "unborn" => world'[t] # "unborn"
  BY <1>1 DEF Inv, TypeOK
<1> HIDE DEF none, i
<1>4. Len(none) <= 1 /\ Len(none) # 1
  BY <1>2
<1>5. /\ TypeOK' /\ DataInv' /\ TableInv' /\ TaskInv' /\ WaitInv'
      /\ ObservedInv' /\ WaitersHearOfTheEnd'
  BY <1>1, <1>2, <1>3, <1>4, TerminatedIsAccepted
<1>6. EndInv'
  <2>1. \A t \in Sessions : world[t] = "ended" =>
          entry[IdOf[t]] = None \/ entry[IdOf[t]].session # t
    BY <1>1, NothingQueued DEF Inv, EndInv
  <2> QED
    BY <1>1, <2>1 DEF EndInv
<1> QED
  BY <1>5, <1>6 DEF Inv

\* onDidTerminateDebugSession: the removal is queued behind those it wakes.
LEMMA DidTerminateKeeps ==
    ASSUME Inv, NEW s \in Sessions, DidTerminate(s) PROVE Inv'
<1> DEFINE i == IdOf[s]
           ref == entry[i].ref
           removal == <<Removal(s, ref)>>
<1>1. /\ TypeOK /\ DataInv /\ TableInv /\ EndInv /\ TaskInv /\ WaitInv /\ ObservedInv
      /\ WaitersHearOfTheEnd /\ i \in Ids
  BY IdOfAssumption DEF Inv
<1>2. /\ AtRest /\ world' = [world EXCEPT ![s] = "ended"]
      /\ UNCHANGED <<announced, entry, lastRef, byRef, gate, starting, selection,
                     watched, told, replaced>>
  BY DEF DidTerminate, attachVars
<1>3. /\ world' \in [Sessions -> {"unborn", "older", "live", "ended"}]
      /\ world'[s] = "ended" /\ \A t \in Sessions : t # s => world'[t] = world[t]
      /\ \A t \in Sessions : world[t] # "unborn" => world'[t] # "unborn"
  BY <1>1, <1>2 DEF TypeOK
<1>4. \A t \in Sessions : world[t] = "ended" =>
        entry[IdOf[t]] = None \/ entry[IdOf[t]].session # t
  BY <1>1, <1>2, NothingQueued DEF EndInv
<1>5. LiveRefs' = LiveRefs
  BY <1>2 DEF LiveRefs, Entries
<1>6. \A j \in Ids : entry[j] # None => world'[entry[j].session] # "unborn"
  BY <1>1, <1>3, EntryFacts DEF TableInv
<1>7. CASE entry[i] = None \/ (runtime[i] # None /\ runtime[i].session # s)
  <2>1. UNCHANGED <<runtime, observed, microtasks, call>>
    BY <1>7 DEF DidTerminate
  <2>2. entry[i] = None \/ entry[i].session # s
    BY <1>1, <1>7 DEF TableInv
  <2>3. Len(microtasks') = 0
    BY <1>2, <2>1, NothingQueued
  <2>4. TypeOK' /\ DataInv'
    BY <1>1, <1>2, <1>3, <2>1 DEF TypeOK, DataInv
  <2>5. TableInv' /\ ObservedInv'
    BY <1>1, <1>2, <1>5, <1>6, <2>1 DEF TableInv, ObservedInv
  <2>6. EndInv' /\ TaskInv'
    BY <1>2, <1>3, <1>4, <2>2, <2>3 DEF EndInv, TaskInv
  <2>7. WaitInv' /\ WaitersHearOfTheEnd'
    BY <1>1, <1>2, <2>1 DEF WaitInv, WaitersHearOfTheEnd
  <2> QED
    BY <2>4, <2>5, <2>6, <2>7 DEF Inv
<1>8. ASSUME entry[i] # None, ~(runtime[i] # None /\ runtime[i].session # s)
      PROVE  Inv'
  <2>1. ref \in Nat /\ Removal(s, ref) \in Tasks
    BY <1>1, <1>8, EntryFacts, TaskFacts
  <2>2. removal \in Seq(Tasks) /\ Len(removal) = 1 /\ removal[1] = Removal(s, ref)
    BY <2>1
  <2> HIDE DEF removal
  <2>3. ASSUME Len(microtasks') \in 1..Len(microtasks'),
               microtasks'[Len(microtasks')] = removal[1]
        PROVE  EndInv'
    BY <1>2, <1>3, <1>4, <2>2, <2>3 DEF EndInv
  <2>4. CASE runtime[i] # None /\ runtime[i].phase = "live"
    <3>1. AcceptTerminated(i, removal)
      BY <1>8, <2>4 DEF DidTerminate, removal
    <3>2. /\ Len(removal) <= 1
          /\ \E t \in Sessions : IdOf[t] = i /\ world'[t] = "ended"
                                 /\ \E r \in Nat : removal[1] = Removal(t, r)
      BY <1>3, <2>1, <2>2
    <3> HIDE DEF i, ref
    <3>3. /\ TypeOK' /\ DataInv' /\ TableInv' /\ TaskInv' /\ WaitInv'
          /\ ObservedInv' /\ WaitersHearOfTheEnd'
          /\ Len(microtasks') \in 1..Len(microtasks')
          /\ microtasks'[Len(microtasks')] = removal[1]
      BY <1>1, <1>2, <1>3, <2>2, <2>4, <3>1, <3>2, TerminatedIsAccepted
    <3> QED
      BY <2>3, <3>3 DEF Inv
  <2>5. CASE ~(runtime[i] # None /\ runtime[i].phase = "live")
    <3>1. microtasks' = removal /\ UNCHANGED <<runtime, observed, call>>
      BY <1>8, <2>5 DEF DidTerminate, removal
    <3>2. Len(microtasks') = 1 /\ microtasks'[1] = Removal(s, ref)
      BY <2>2, <3>1
    <3>3. EndInv'
      BY <2>2, <2>3, <3>2
    <3>4. TypeOK' /\ DataInv'
      BY <1>1, <1>2, <1>3, <2>2, <3>1 DEF TypeOK, DataInv
    <3>5. TableInv' /\ ObservedInv'
      BY <1>1, <1>2, <1>5, <1>6, <3>1 DEF TableInv, ObservedInv
    <3>6. TaskInv'
      <4>1. runtime'[i] # None => runtime'[i].phase = "terminated"
        BY <1>1, <2>5, <3>1, RuntimeFacts
      <4> QED
        BY <1>3, <2>1, <3>2, <4>1, TaskFacts DEF TaskInv
    <3>7. WaitInv' /\ WaitersHearOfTheEnd'
      BY <1>1, <1>2, <3>1 DEF WaitInv, WaitersHearOfTheEnd
    <3> QED
      BY <3>3, <3>4, <3>5, <3>6, <3>7 DEF Inv
  <2> QED
    BY <2>4, <2>5
<1> QED
  BY <1>7, <1>8

-----------------------------------------------------------------------------
(* Microtasks.                                                             *)

\* A removal is the last of its callback, and nobody waits any more for the end
\* of what it removes.
LEMMA RemovalFacts ==
    ASSUME Inv, Remove
    PROVE  /\ Head(microtasks) = microtasks[1] /\ 1 \in 1..Len(microtasks)
           /\ Head(microtasks) \in Tasks /\ Head(microtasks).run = "remove"
           /\ Head(microtasks).session \in Sessions /\ Head(microtasks).ref \in Nat
           /\ Len(microtasks) = 1 /\ Tail(microtasks) = <<>>
           /\ world[Head(microtasks).session] = "ended"
           /\ runtime[IdOf[Head(microtasks).session]] # None =>
                runtime[IdOf[Head(microtasks).session]].phase = "terminated"
<1>1. microtasks \in Seq(Tasks) /\ microtasks # <<>> /\ Head(microtasks).run = "remove"
  BY DEF Inv, DataInv, Remove, AtRest
<1>2. /\ Head(microtasks) = microtasks[1] /\ Head(microtasks) \in Tasks
      /\ Tail(microtasks) \in Seq(Tasks) /\ Len(Tail(microtasks)) = Len(microtasks) - 1
  BY <1>1, HeadTailProperties
<1>3. 1 \in 1..Len(microtasks)
  BY <1>1, EmptySeq
<1>4. /\ Len(microtasks) = 1
      /\ world[Head(microtasks).session] = "ended"
      /\ runtime[IdOf[Head(microtasks).session]] # None =>
           runtime[IdOf[Head(microtasks).session]].phase = "terminated"
  BY <1>1, <1>2, <1>3 DEF Inv, TaskInv
<1>5. Tail(microtasks) = <<>>
  <2> DEFINE rest == Tail(microtasks)
  <2>1. rest \in Seq(Tasks) /\ Len(rest) = 0
    BY <1>2, <1>4
  <2> HIDE DEF rest
  <2>2. rest = <<>>
    BY <2>1, EmptySeq
  <2> QED
    BY <2>2 DEF rest
<1> QED
  BY <1>1, <1>2, <1>3, <1>4, <1>5, TaskFacts

\* The queued removal: nobody who is woken is queued behind it.
LEMMA RemoveKeeps == ASSUME Inv, Remove PROVE Inv'
<1> DEFINE m == Head(microtasks)
           i == IdOf[m.session]
<1>1. /\ TypeOK /\ DataInv /\ TableInv /\ EndInv /\ TaskInv /\ WaitInv /\ ObservedInv
      /\ WaitersHearOfTheEnd /\ lastRef \in Nat
  BY DEF Inv, TypeOK
<1>2. /\ m = microtasks[1] /\ Len(microtasks) = 1 /\ Tail(microtasks) = <<>>
      /\ m.session \in Sessions /\ m.ref \in Nat /\ world[m.session] = "ended"
      /\ runtime[i] # None => runtime[i].phase = "terminated"
      /\ i \in Ids
  BY RemovalFacts, IdOfAssumption
<1>3. UNCHANGED <<world, announced, lastRef, gate, starting, selection, watched, told,
                  replaced>>
  BY DEF Remove, worldVars, attachVars
<1>4. \A t \in Sessions : world[t] = "ended" =>
        \/ entry[IdOf[t]] = None
        \/ entry[IdOf[t]].session # t
        \/ m = Removal(t, entry[IdOf[t]].ref)
  BY <1>1, <1>2 DEF EndInv
<1>5. CASE ~Removes(m)
  <2>1. microtasks' = <<>> /\ UNCHANGED <<entry, runtime, byRef, observed, call>>
    BY <1>2, <1>5 DEF Remove
  <2>2. Len(microtasks') = 0 /\ microtasks' \in Seq(Tasks)
    BY <2>1, EmptySeq
  <2>3. LiveRefs' = LiveRefs
    BY <2>1 DEF LiveRefs, Entries
  <2>4. TypeOK' /\ DataInv'
    BY <1>1, <1>3, <2>1, <2>2 DEF TypeOK, DataInv
  <2>5. TableInv' /\ ObservedInv'
    BY <1>1, <1>3, <2>1, <2>3 DEF TableInv, ObservedInv
  <2>6. EndInv'
    <3>1. ASSUME NEW t \in Sessions, world[t] = "ended", entry[IdOf[t]] # None,
                 entry[IdOf[t]].session = t
          PROVE  FALSE
      <4>1. m = Removal(t, entry[IdOf[t]].ref) /\ entry[IdOf[t]].ref \in Nat
        BY <1>1, <1>4, <3>1, EntryFacts, IdOfAssumption
      <4>2. m.session = t /\ m.ref = entry[IdOf[t]].ref
        BY <3>1, <4>1, TaskFacts
      <4> QED
        BY <1>5, <3>1, <4>2 DEF Removes
    <3> QED
      BY <1>3, <2>1, <3>1 DEF EndInv
  <2>7. TaskInv'
    BY <2>2 DEF TaskInv
  <2>8. WaitInv' /\ WaitersHearOfTheEnd'
    BY <1>1, <1>3, <2>1 DEF WaitInv, WaitersHearOfTheEnd
  <2> QED
    BY <2>4, <2>5, <2>6, <2>7, <2>8 DEF Inv
<1>6. CASE Removes(m)
  <2> DEFINE ks == WaitingOn(m.ref)
             none == <<>>
  <2>1. entry[i] # None /\ entry[i].ref = m.ref /\ entry[i].session = m.session
    BY <1>6 DEF Removes
  <2>2. /\ entry' = [entry EXCEPT ![i] = None] /\ runtime' = [runtime EXCEPT ![i] = None]
        /\ byRef' = byRef \ RuntimeRefs(i) /\ observed' = observed \ {m.ref}
        /\ Release(ks, "notAttached", none, none)
    BY <1>2, <1>6 DEF Remove, Forget
  <2>3. /\ \A j \in Ids : j # i => entry'[j] = entry[j] /\ runtime'[j] = runtime[j]
        /\ entry'[i] = None /\ runtime'[i] = None
        /\ entry' \in [Ids -> [ref : 1..lastRef, session : Sessions,
                               tracked : BOOLEAN] \cup {None}]
        /\ runtime' \in [Ids -> [ref : 1..lastRef, session : Sessions,
                                 phase : {"live", "terminated"}] \cup {None}]
    BY <1>1, <1>2, <2>2 DEF TypeOK
  <2>4. /\ runtime[i] # None => runtime[i].ref = m.ref
        /\ \A j \in Ids : j # i /\ runtime[j] # None => runtime[j].ref # m.ref
    BY <1>1, <1>2, <2>1 DEF TableInv
  <2>5. \A k \in Clients : call[k] = "wait" /\ watched[k].ref = m.ref => ~watched[k].end
    <3>1. ASSUME NEW k \in Clients, call[k] = "wait", watched[k].ref = m.ref,
                 watched[k].end
          PROVE  FALSE
      <4>1. watched[k].ref \in byRef
        BY <1>1, <3>1 DEF WaitInv
      <4>2. PICK j \in Ids : runtime[j] # None /\ runtime[j].ref = m.ref
        BY <1>1, <3>1, <4>1 DEF TableInv
      <4>3. j = i /\ runtime[i].phase = "live"
        BY <1>1, <2>4, <3>1, <4>2 DEF WaitInv
      <4> QED
        BY <1>2, <4>2, <4>3
    <3> QED
      BY <3>1
  <2>6. /\ ks \in SUBSET Clients /\ "notAttached" \in Hows
        /\ \A k \in ks : ~watched[k].end
        /\ \A k \in Clients : call[k] = "wait" /\ k \notin ks => watched[k].ref # m.ref
        /\ call \in [Clients -> {"none", "wait", "resuming", "attach", "gone"}]
    BY <1>1, <2>5 DEF WaitingOn, Hows, TypeOK
  <2>7. Release(ks, "notAttached", <<>>, <<>>)
    BY <2>2
  <2> HIDE DEF ks, none
  <2>8. /\ microtasks' \in Seq(Tasks)
        /\ \A j \in 1..Len(microtasks') :
             \E k \in ks : microtasks'[j] = Resume(k, "notAttached")
        /\ call' \in [Clients -> {"none", "wait", "resuming", "attach", "gone"}]
        /\ \A k \in Clients : call'[k] = "wait" => call[k] = "wait" /\ k \notin ks
    BY <2>6, <2>7, ReleasedAlone
  <2> HIDE DEF m, i
  <2>9. \A r : r \in LiveRefs' <=> \E j \in Ids : entry'[j] # None /\ entry'[j].ref = r
    BY DEF LiveRefs, Entries
  <2>10. ObservedInv'
    <3>1. ASSUME NEW r \in observed, r # m.ref
          PROVE  r \in LiveRefs'
      <4>1. PICK j \in Ids : entry[j] # None /\ entry[j].ref = r
        BY <1>1, LiveRefsAre DEF ObservedInv
      <4> QED
        BY <2>1, <2>3, <2>9, <3>1, <4>1
    <3> QED
      BY <2>2, <3>1 DEF ObservedInv
  <2>11. TypeOK'
    <3>1. byRef' \subseteq 1..lastRef /\ observed' \subseteq 1..lastRef
      BY <1>1, <2>2 DEF TypeOK
    <3> QED
      BY <1>1, <1>3, <2>3, <2>8, <3>1 DEF TypeOK
  <2>12. DataInv'
    BY <1>1, <1>3, <2>8 DEF DataInv
  <2>13. TableInv'
    <3>1. \A r \in byRef' : \E j \in Ids : runtime'[j] # None /\ runtime'[j].ref = r
      BY <1>1, <2>2, <2>3 DEF TableInv, RuntimeRefs
    <3>2. \A j \in Ids : runtime'[j] # None => runtime'[j].ref \in byRef'
      <4>1. \A j \in Ids : j # i /\ runtime[j] # None => runtime[j].ref \notin RuntimeRefs(i)
        BY <2>4 DEF RuntimeRefs
      <4> QED
        BY <1>1, <2>2, <2>3, <4>1 DEF TableInv
    <3> QED
      BY <1>1, <1>3, <2>3, <3>1, <3>2 DEF TableInv
  <2>14. EndInv'
    <3>1. ASSUME NEW t \in Sessions, world[t] = "ended", entry'[IdOf[t]] # None,
                 entry'[IdOf[t]].session = t
          PROVE  FALSE
      <4>1. IdOf[t] \in Ids /\ IdOf[t] # i /\ entry[IdOf[t]] = entry'[IdOf[t]]
        BY <2>3, <3>1, IdOfAssumption
      <4>2. m = Removal(t, entry[IdOf[t]].ref) /\ entry[IdOf[t]].ref \in Nat
        BY <1>1, <1>4, <3>1, <4>1, EntryFacts
      <4>3. m.session = t
        BY <4>2, TaskFacts
      <4> QED
        BY <4>1, <4>3 DEF i
    <3> QED
      BY <1>3, <3>1 DEF EndInv
  <2>15. TaskInv'
    BY <1>3, <2>6, <2>8, TaskFacts DEF TaskInv
  <2>16. WaitInv'
    <3>1. ASSUME NEW k \in Clients, call'[k] = "wait"
          PROVE  /\ watched'[k].ref \in byRef'
                 /\ watched'[k].end => \A j \in Ids :
                      runtime'[j] # None /\ runtime'[j].ref = watched'[k].ref =>
                        runtime'[j].phase = "live"
      <4>1. /\ call[k] = "wait" /\ watched'[k] = watched[k] /\ watched[k].ref \in byRef
            /\ watched[k].ref # m.ref
        BY <1>1, <1>3, <2>6, <2>8, <3>1 DEF WaitInv
      <4>2. watched[k].ref \notin RuntimeRefs(i)
        BY <2>4, <4>1 DEF RuntimeRefs
      <4> QED
        BY <1>1, <2>2, <2>3, <4>1, <4>2 DEF WaitInv
    <3> QED
      BY <3>1 DEF WaitInv
  <2>17. WaitersHearOfTheEnd'
    BY <1>1, <1>3 DEF WaitersHearOfTheEnd
  <2> QED
    BY <2>10, <2>11, <2>12, <2>13, <2>14, <2>15, <2>16, <2>17 DEF Inv
<1> QED
  BY <1>5, <1>6

\* A wait that was woken, while its session is still there.
LEMMA ResumeWaitKeeps == ASSUME Inv, ResumeWait PROVE Inv'
<1> DEFINE m == Head(microtasks)
           k == m.client
           ref == watched[k].ref
           fresh == m.how = "event" /\ \E e \in Tracked : e.ref = ref
<1>1. /\ TypeOK /\ DataInv /\ TableInv /\ EndInv /\ TaskInv /\ WaitInv /\ ObservedInv
      /\ WaitersHearOfTheEnd /\ lastRef \in Nat /\ microtasks \in Seq(Tasks)
  BY DEF Inv, TypeOK, DataInv
<1>2. /\ ~AtRest /\ m.run = "resume" /\ microtasks' = Tail(microtasks)
      /\ call' = [call EXCEPT ![k] = "none"]
      /\ told' = [told EXCEPT ![k] = IF fresh THEN <<"event">> ELSE <<"notAttached", ref>>]
      /\ observed' = IF fresh THEN observed \cup {ref}
                     ELSE IF m.how = "event" THEN observed \ {ref} ELSE observed
      /\ UNCHANGED <<world, announced, entry, lastRef, runtime, byRef, gate, starting,
                     selection, watched, replaced>>
  BY DEF ResumeWait, worldVars, attachVars
<1>3. /\ m = microtasks[1] /\ m \in Tasks /\ 1 \in 1..Len(microtasks)
      /\ Len(microtasks) \in Nat
      /\ microtasks' \in Seq(Tasks) /\ Len(microtasks') = Len(microtasks) - 1
      /\ \A j \in 1..Len(microtasks') :
           microtasks'[j] = microtasks[j + 1] /\ j + 1 \in 1..Len(microtasks)
  BY <1>1, <1>2, Rest
<1>4. k \in Clients /\ m.how \in Hows
  BY <1>2, <1>3, TaskFacts
<1>5. m.how = "event" => fresh
  <2>1. SUFFICES ASSUME m.how = "event"
                 PROVE  \E e \in Tracked : e.ref = ref
    OBVIOUS
  <2>2. PICK i \in Ids : runtime[i] # None /\ runtime[i].ref = ref
    BY <1>1, <1>2, <1>3, <2>1 DEF TaskInv
  <2>3. entry[i] # None /\ entry[i].tracked /\ entry[i].ref = ref
    BY <1>1, <2>2 DEF TableInv
  <2>4. entry[i] \in Tracked
    BY <2>3 DEF Tracked, Entries
  <2> QED
    BY <2>3, <2>4
<1>6. fresh => ref \in LiveRefs
  BY DEF Tracked, LiveRefs
<1>7. m.how = "notAttached" /\ watched[k].end => ref \in replaced
  <2>1. microtasks[1].run = "resume" /\ microtasks[1] = m
    BY <1>2, <1>3
  <2> HIDE DEF m
  <2> QED
    BY <1>1, <1>3, <2>1 DEF TaskInv
<1>8. /\ DOMAIN told' = Clients
      /\ \A c \in Clients : c # k => told'[c] = told[c]
      /\ told'[k][1] = "notAttached" => told'[k][2] = ref /\ m.how = "notAttached"
  <2>1. CASE fresh
    <3>1. <<"event">>[1] # "notAttached"
      OBVIOUS
    <3> DEFINE what == <<"event">>
    <3>2. told' = [told EXCEPT ![k] = what] /\ what[1] # "notAttached"
      BY <1>2, <2>1, <3>1
    <3> HIDE DEF what, k, fresh, ref
    <3> QED
      BY <1>1, <1>4, <3>2 DEF DataInv
  <2>2. CASE ~fresh
    <3> DEFINE what == <<"notAttached", ref>>
    <3>1. told' = [told EXCEPT ![k] = what] /\ what[2] = ref
      BY <1>2, <2>2
    <3>2. m.how = "notAttached"
      BY <1>4, <1>5, <2>2 DEF Hows
    <3> HIDE DEF what, k, fresh, ref, m
    <3> QED
      BY <1>1, <1>4, <3>1, <3>2 DEF DataInv
  <2> QED
    BY <2>1, <2>2
<1> HIDE DEF m, k, ref, fresh
<1>9. LiveRefs' = LiveRefs
  BY <1>2 DEF LiveRefs, Entries
<1>10. ObservedInv'
  BY <1>1, <1>2, <1>6, <1>9 DEF ObservedInv
<1>11. TypeOK'
  <2>1. observed' \subseteq 1..lastRef
    BY <1>1, <1>9, <1>10, LiveRefsBounded DEF ObservedInv
  <2>2. call' \in [Clients -> {"none", "wait", "resuming", "attach", "gone"}]
    BY <1>1, <1>2 DEF TypeOK
  <2> QED
    BY <1>1, <1>2, <2>1, <2>2 DEF TypeOK
<1>12. DataInv'
  BY <1>1, <1>2, <1>3, <1>8 DEF DataInv
<1>13. TableInv'
  BY <1>1, <1>2 DEF TableInv
<1>14. EndInv'
  <2>1. ASSUME NEW t \in Sessions, world[t] = "ended", entry[IdOf[t]] # None,
               entry[IdOf[t]].session = t
        PROVE  \E j \in 1..Len(microtasks') :
                 microtasks'[j] = Removal(t, entry[IdOf[t]].ref)
    <3>1. PICK j \in 1..Len(microtasks) : microtasks[j] = Removal(t, entry[IdOf[t]].ref)
      BY <1>1, <2>1 DEF EndInv
    <3>2. entry[IdOf[t]].ref \in Nat
      BY <1>1, <2>1, EntryFacts, IdOfAssumption
    <3>3. microtasks[j].run = "remove"
      BY <3>1, <3>2, TaskFacts
    <3>4. j # 1
      BY <1>2, <1>3, <3>3
    <3>5. j - 1 \in 1..Len(microtasks') /\ microtasks'[j - 1] = microtasks[j]
      BY <1>3, <3>4
    <3> QED
      BY <3>1, <3>5
  <2> QED
    BY <1>2, <2>1 DEF EndInv
<1>15. TaskInv'
  <2>1. ASSUME NEW j \in 1..Len(microtasks')
        PROVE  /\ j + 1 \in 1..Len(microtasks) /\ microtasks'[j] = microtasks[j + 1]
               /\ j + 1 = Len(microtasks) => j = Len(microtasks')
    BY <1>3
  <2> QED
    BY <1>1, <1>2, <2>1 DEF TaskInv
<1>16. WaitInv'
  BY <1>1, <1>2, <1>4 DEF WaitInv, TypeOK
<1>17. WaitersHearOfTheEnd'
  BY <1>1, <1>2, <1>4, <1>7, <1>8 DEF WaitersHearOfTheEnd
<1> QED
  BY <1>10, <1>11, <1>12, <1>13, <1>14, <1>15, <1>16, <1>17 DEF Inv

-----------------------------------------------------------------------------
(* Waits, and the whole.                                                   *)

\* A wait begins, or is answered at once.
LEMMA WaitKeeps == ASSUME Inv, NEW k \in Clients, Wait(k) PROVE Inv'
<1>1. /\ TypeOK /\ DataInv /\ TableInv /\ EndInv /\ TaskInv /\ WaitInv /\ ObservedInv
      /\ WaitersHearOfTheEnd /\ lastRef \in Nat
  BY DEF Inv, TypeOK
<1>2. PICK i \in Ids, end \in BOOLEAN :
        /\ entry[i] # None /\ entry[i].tracked
        /\ entry[i].ref \in byRef
        /\ watched' = [watched EXCEPT ![k] = [ref |-> entry[i].ref, end |-> end]]
        /\ observed' = observed \cup {entry[i].ref}
        /\ IF end /\ runtime[i].phase = "terminated"
           THEN /\ call' = [call EXCEPT ![k] = "resuming"]
                /\ microtasks' = <<Resume(k, "event")>>
           ELSE /\ call' = [call EXCEPT ![k] = "wait"]
                /\ UNCHANGED microtasks
  BY DEF Wait
<1> DEFINE ref == entry[i].ref
           nothing == <<"nothing">>
<1>3. nothing[1] # "notAttached"
  OBVIOUS
<1> HIDE DEF nothing
<1>4. /\ AtRest /\ call[k] = "none" /\ told' = [told EXCEPT ![k] = nothing]
      /\ UNCHANGED <<world, announced, entry, lastRef, runtime, byRef, gate, starting,
                     selection, replaced>>
  BY DEF Wait, worldVars, attachVars, nothing
<1>5. /\ runtime[i] # None /\ runtime[i].ref = ref /\ ref \in Nat /\ ref \in LiveRefs
      /\ \A j \in Ids : runtime[j] # None /\ runtime[j].ref = ref => j = i
  BY <1>1, <1>2, EntryFacts, LiveRefsAre DEF TableInv
<1>6. LiveRefs' = LiveRefs
  BY <1>4 DEF LiveRefs, Entries
<1>7. Len(microtasks) = 0
  BY <1>4, NothingQueued
<1> HIDE DEF ref
<1>8. /\ watched' \in [Clients -> [ref : Nat, end : BOOLEAN]]
      /\ watched'[k].ref = ref /\ (watched'[k].end <=> end)
      /\ \A c \in Clients : c # k => watched'[c] = watched[c]
  <2>1. watched' = [watched EXCEPT ![k] = [ref |-> ref, end |-> end]]
    BY <1>2 DEF ref
  <2> QED
    BY <1>1, <1>5, <2>1 DEF DataInv
<1>9. ObservedInv' /\ observed' \subseteq 1..lastRef
  <2>1. observed' = observed \cup {ref}
    BY <1>2 DEF ref
  <2> QED
    BY <1>1, <1>5, <1>6, <2>1, LiveRefsBounded DEF ObservedInv
<1>10. /\ DOMAIN told' = Clients /\ told'[k][1] # "notAttached"
       /\ \A c \in Clients : c # k => told'[c] = told[c]
  BY <1>1, <1>3, <1>4 DEF DataInv
<1>11. WaitersHearOfTheEnd'
  BY <1>1, <1>4, <1>8, <1>10 DEF WaitersHearOfTheEnd
<1>12. TableInv'
  BY <1>1, <1>4 DEF TableInv
<1>13. EndInv'
  BY <1>1, <1>4, <1>7 DEF EndInv
<1>14. \A c \in Clients : c # k /\ call[c] = "wait" =>
         /\ watched'[c].ref \in byRef'
         /\ watched'[c].end => \A j \in Ids :
              runtime'[j] # None /\ runtime'[j].ref = watched'[c].ref =>
                runtime'[j].phase = "live"
  BY <1>1, <1>4, <1>8 DEF WaitInv
<1>15. CASE end /\ runtime[i].phase = "terminated"
  <2> DEFINE q == <<Resume(k, "event")>>
  <2>1. call' = [call EXCEPT ![k] = "resuming"] /\ microtasks' = q
    BY <1>2, <1>15
  <2>2. q \in Seq(Tasks) /\ Len(q) = 1 /\ q[1] = Resume(k, "event")
    <3>1. Resume(k, "event") \in Tasks
      BY TaskFacts DEF Hows
    <3> QED
      BY <3>1
  <2> HIDE DEF q
  <2>3. TypeOK' /\ DataInv'
    BY <1>1, <1>4, <1>8, <1>9, <1>10, <2>1, <2>2 DEF TypeOK, DataInv
  <2>4. TaskInv'
    <3>1. /\ q[1].run = "resume" /\ q[1].how = "event" /\ q[1].client = k
      BY <2>2, TaskFacts DEF Hows
    <3>2. runtime'[i] # None /\ runtime'[i].ref = watched'[k].ref
      BY <1>4, <1>5, <1>8
    <3> QED
      BY <2>1, <2>2, <3>1, <3>2 DEF TaskInv
  <2>5. WaitInv'
    <3>1. \A c \in Clients : call'[c] = "wait" => c # k /\ call[c] = "wait"
      BY <1>1, <2>1 DEF TypeOK
    <3> QED
      BY <1>14, <3>1 DEF WaitInv
  <2> QED
    BY <1>9, <1>11, <1>12, <1>13, <2>3, <2>4, <2>5 DEF Inv
<1>16. CASE ~(end /\ runtime[i].phase = "terminated")
  <2>1. call' = [call EXCEPT ![k] = "wait"] /\ microtasks' = microtasks
    BY <1>2, <1>16
  <2>2. TypeOK' /\ DataInv'
    BY <1>1, <1>4, <1>8, <1>9, <1>10, <2>1 DEF TypeOK, DataInv
  <2>3. TaskInv'
    BY <1>7, <2>1 DEF TaskInv
  <2>4. WaitInv'
    <3>1. \A c \in Clients : call'[c] = "wait" /\ c # k => call[c] = "wait"
      BY <1>1, <2>1 DEF TypeOK
    <3>2. watched'[k].ref \in byRef'
      BY <1>2, <1>4, <1>8 DEF ref
    <3>3. end => runtime[i].phase = "live"
      BY <1>1, <1>5, <1>16, RuntimeFacts
    <3>4. watched'[k].end => \A j \in Ids :
            runtime'[j] # None /\ runtime'[j].ref = watched'[k].ref =>
              runtime'[j].phase = "live"
      BY <1>4, <1>5, <1>8, <3>3
    <3> QED
      BY <1>14, <3>1, <3>2, <3>4 DEF WaitInv
  <2> QED
    BY <1>9, <1>11, <1>12, <1>13, <2>2, <2>3, <2>4 DEF Inv
<1> QED
  BY <1>15, <1>16

\* Sessions that were under way before the extension came are no trouble.
LEMMA InvInit == Init => Inv
<1> SUFFICES ASSUME Init
             PROVE  Inv
  OBVIOUS
<1> DEFINE AtFirst ==
             /\ entry \in [Ids -> [ref : 1..lastRef, session : Sessions,
                                   tracked : BOOLEAN] \cup {None}]
             /\ lastRef \in Nat
             /\ \A i \in Ids : entry[i] # None =>
                  /\ IdOf[entry[i].session] = i /\ world[entry[i].session] = "older"
                  /\ ~entry[i].tracked
             /\ \A i, j \in Ids : entry[i] # None /\ entry[j] # None => i = j
<1>1. AtFirst
  <2>1. CASE entry = [i \in Ids |-> None] /\ lastRef = 0
    BY <2>1
  <2>2. ASSUME NEW s \in Sessions, world[s] = "older", lastRef = 1,
               entry = [i \in Ids |-> IF i = IdOf[s] THEN Entry(1, s, FALSE) ELSE None]
        PROVE  AtFirst
    <3>1. /\ Entry(1, s, FALSE) \in [ref : 1..lastRef, session : Sessions,
                                     tracked : BOOLEAN]
          /\ Entry(1, s, FALSE).session = s /\ ~Entry(1, s, FALSE).tracked
      BY <2>2 DEF Entry
    <3> QED
      BY <2>2, <3>1, IdOfAssumption
  <2> HIDE DEF AtFirst
  <2> QED
    BY <2>1, <2>2 DEF Init
<1>2. /\ world \in [Sessions -> {"unborn", "older"}] /\ announced = {}
      /\ runtime = [i \in Ids |-> None] /\ byRef = {} /\ observed = {}
      /\ microtasks = <<>> /\ gate = <<>> /\ starting = FALSE
      /\ call = [k \in Clients |-> "none"]
      /\ watched = [k \in Clients |-> [ref |-> 0, end |-> FALSE]]
      /\ selection = [k \in Clients |-> 0]
      /\ told = [k \in Clients |-> <<"nothing">>]
  BY DEF Init
<1>3. microtasks \in Seq(Tasks) /\ gate \in Seq(Clients) /\ Len(microtasks) = 0
  BY <1>2, EmptySeq
<1>4. TypeOK
  <2>1. starting \in BOOLEAN /\ ~starting
    BY <1>2
  <2>2. selection \in [Clients -> 0..lastRef]
    BY <1>1, <1>2
  <2> QED
    BY <1>1, <1>2, <1>3, <2>1, <2>2 DEF TypeOK
<1>5. DataInv
  BY <1>2, <1>3 DEF DataInv
<1>6. TableInv
  BY <1>1, <1>2 DEF TableInv
<1>7. EndInv
  BY <1>2 DEF EndInv
<1>8. TaskInv
  BY <1>3 DEF TaskInv
<1>9. WaitInv /\ ObservedInv
  BY <1>2 DEF WaitInv, ObservedInv
<1>10. WaitersHearOfTheEnd
  <2>1. \A k \in Clients : ~watched[k].end
    BY <1>2
  <2> QED
    BY <2>1 DEF WaitersHearOfTheEnd
<1> QED
  BY <1>4, <1>5, <1>6, <1>7, <1>8, <1>9, <1>10 DEF Inv

\* Every step keeps the invariant.
LEMMA InvStep == Inv /\ [Next]_vars => Inv'
<1> SUFFICES ASSUME Inv, [Next]_vars
             PROVE  Inv'
  OBVIOUS
<1>1. ASSUME NEW s \in Sessions,
             DidStart(s) \/ TrackerCreated(s) \/ AdapterTerminates(s) \/ DidTerminate(s)
      PROVE  Inv'
  BY <1>1, DidStartKeeps, TrackerCreatedKeeps, AdapterTerminatesKeeps, DidTerminateKeeps
<1>2. CASE Remove \/ ResumeWait
  BY <1>2, RemoveKeeps, ResumeWaitKeeps
<1>3. ASSUME NEW k \in Clients, Wait(k)
      PROVE  Inv'
  BY <1>3, WaitKeeps
<1>4. ASSUME NEW k \in Clients,
             WaitEnds(k) \/ Attach(k) \/ Status(k) \/ Disconnect(k) \/ ClientGone(k)
      PROVE  Inv'
  BY <1>4, ClientsAreQuiet, QuietKeeps
<1>5. CASE AttachBegins \/ AttachEnds
  BY <1>5, AttachBeginsIsQuiet, AttachEndsIsQuiet, QuietKeeps
<1>6. CASE UNCHANGED vars
  <2>1. UNCHANGED <<world, announced, entry, lastRef, runtime, byRef, observed,
                    microtasks, gate, starting, selection, call, watched, told,
                    replaced>>
    BY <1>6 DEF vars, worldVars, tableVars, attachVars
  <2>2. LiveRefs' = LiveRefs
    BY <2>1 DEF LiveRefs, Entries
  <2>3. TypeOK' /\ DataInv' /\ TableInv' /\ EndInv'
    BY <2>1 DEF Inv, TypeOK, DataInv, TableInv, EndInv
  <2>4. TaskInv' /\ WaitInv' /\ ObservedInv' /\ WaitersHearOfTheEnd'
    BY <2>1, <2>2 DEF Inv, TaskInv, WaitInv, ObservedInv, WaitersHearOfTheEnd
  <2> QED
    BY <2>3, <2>4 DEF Inv
<1> QED
  BY <1>1, <1>2, <1>3, <1>4, <1>5, <1>6 DEF Next

\* What holds between the steps of callbacks, microtasks and tools.
THEOREM SessionInvariant == Spec => []Inv
BY InvInit, InvStep, PTL DEF Spec

\* SessionRegistry and the two runtime tables of extension.ts tell one story.
THEOREM TablesTellOneStory == Spec => []TablesAgree
<1>1. Inv => TablesAgree
  <2> SUFFICES ASSUME Inv
               PROVE  TablesAgree
    OBVIOUS
  <2>1. byRef = {runtime[i].ref : i \in {j \in Ids : runtime[j] # None}}
    BY DEF Inv, TableInv
  <2> QED
    BY <2>1 DEF Inv, TableInv, TablesAgree
<1> QED
  BY <1>1, SessionInvariant, PTL

\* terminateSession and the removal it queues leave nothing of a session whose
\* end was reported.
THEOREM EndedAreForgotten == Spec => []EndedSessionsAreForgotten
<1>1. Inv => EndedSessionsAreForgotten
  BY NothingQueued DEF Inv, EndInv, ObservedInv, EndedSessionsAreForgotten
<1> QED
  BY <1>1, SessionInvariant, PTL

\* The removal that terminateSession puts off comes after the waits that it
\* resolved, so wait_for_event still finds the session whose end it reports.
THEOREM WaitersHear == Spec => []WaitersHearOfTheEnd
<1>1. Inv => WaitersHearOfTheEnd
  BY DEF Inv
<1> QED
  BY <1>1, SessionInvariant, PTL

\* SessionRegistry never exchanges the session behind a reference.
THEOREM ReferencesKept == Spec => ReferencesKeepTheirSession
<1> DEFINE Kept ==
             \A i \in Ids :
               \/ /\ entry'[i] # None /\ entry[i] # None
                  /\ entry'[i].ref = entry[i].ref
                  /\ entry'[i].session = entry[i].session
               \/ /\ entry'[i] # None /\ entry'[i].ref > lastRef
                  /\ entry[i] # None => entry'[i].session # entry[i].session
               \/ /\ entry'[i] = None
                  /\ entry[i] # None => world[entry[i].session] = "ended"
<1>1. Inv /\ Next => Kept
  <2> SUFFICES ASSUME Inv, Next
               PROVE  Kept
    OBVIOUS
  <2>1. CASE entry' = entry
    BY <2>1
  <2>2. ASSUME NEW s \in Sessions, NEW tracked \in BOOLEAN, Register(s, tracked)
        PROVE  Kept
    <3>1. TypeOK /\ TableInv /\ lastRef \in Nat
      BY DEF Inv, TypeOK
    <3>2. /\ \A j \in Ids : j # IdOf[s] => entry'[j] = entry[j]
          /\ entry'[IdOf[s]] # None /\ entry'[IdOf[s]].session = s
          /\ \/ /\ entry[IdOf[s]] = None \/ Evicts(s)
                /\ entry'[IdOf[s]].ref = lastRef + 1
             \/ /\ entry[IdOf[s]] # None /\ entry[IdOf[s]].session = s
                /\ entry'[IdOf[s]].ref = entry[IdOf[s]].ref
      BY <2>2, <3>1, Registers
    <3>3. lastRef + 1 > lastRef
      BY <3>1
    <3> QED
      BY <3>2, <3>3 DEF Evicts
  <2>3. CASE Remove
    <3> DEFINE m == Head(microtasks)
    <3>1. m.session \in Sessions /\ IdOf[m.session] \in Ids /\ world[m.session] = "ended"
      BY <2>3, RemovalFacts, IdOfAssumption
    <3>2. CASE Removes(m)
      <4>1. /\ entry' = [entry EXCEPT ![IdOf[m.session]] = None]
            /\ entry[IdOf[m.session]].session = m.session
        BY <2>3, <3>2 DEF Remove, Removes
      <4> HIDE DEF m
      <4> QED
        BY <3>1, <4>1 DEF Inv, TypeOK
    <3>3. CASE ~Removes(m)
      <4>1. entry' = entry
        BY <2>3, <3>3 DEF Remove
      <4> QED
        BY <4>1
    <3> QED
      BY <3>2, <3>3
  <2> HIDE DEF Kept
  <2>4. ASSUME NEW s \in Sessions,
               DidStart(s) \/ TrackerCreated(s) \/ AdapterTerminates(s) \/ DidTerminate(s)
        PROVE  Kept
    BY <2>1, <2>2, <2>4 DEF DidStart, TrackerCreated, AdapterTerminates, DidTerminate
  <2>5. ASSUME NEW k \in Clients,
               \/ Wait(k) \/ WaitEnds(k) \/ Attach(k)
               \/ Status(k) \/ Disconnect(k) \/ ClientGone(k)
        PROVE  Kept
    BY <2>1, <2>5 DEF Wait, WaitEnds, Attach, Status, Disconnect, ClientGone, tableVars
  <2>6. CASE ResumeWait \/ AttachBegins \/ AttachEnds
    BY <2>1, <2>6 DEF ResumeWait, AttachBegins, AttachEnds
  <2> QED
    BY <2>3, <2>4, <2>5, <2>6 DEF Next
<1>2. Inv /\ [Next]_vars =>
        [\A i \in Ids :
           LET e == entry[i]
               f == entry'[i]
           IN  \/ f # None /\ e # None /\ f.ref = e.ref /\ f.session = e.session
               \/ f # None /\ f.ref > lastRef
                  /\ (e # None => f.session # e.session)
               \/ f = None /\ (e # None => world[e.session] = "ended")]_vars
  BY <1>1
<1> QED
  BY <1>2, SessionInvariant, PTL DEF Spec, ReferencesKeepTheirSession
=============================================================================
