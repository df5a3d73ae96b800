--------------------------- MODULE TargetsProofs ---------------------------
(***************************************************************************)
(* Proofs about Targets, for any clients, calls, editors, roots, sessions  *)
(* and times.                                                              *)
(***************************************************************************)
EXTENDS Targets, SequenceTheorems, FiniteSetTheorems, TLAPS

-----------------------------------------------------------------------------
(* The invariant.                                                          *)

\* The gate holds the attaches that are queued or started, each once; only the
\* first has started.
GateInv ==
    /\ \A i \in 1..Len(gate) : step[gate[i]] \in {"queued", "starting"}
    /\ \A i, j \in 1..Len(gate) : gate[i] = gate[j] => i = j
    /\ \A c \in Calls : step[c] \in {"queued", "starting"} =>
         \E i \in 1..Len(gate) : gate[i] = c
    /\ \A c \in Calls : step[c] = "starting" => gate[1] = c

\* What is known of listings: who asked, which is the newest, what it told.
ListingInv ==
    /\ \A k \in Clients : operation[k] # None =>
         operation[k] = latest[k] /\ targets[k] = {}
    /\ \A k \in Clients : latest[k] # None =>
         step[latest[k]] # "idle" /\ client[latest[k]] = k
    /\ \A c \in Calls : step[c] # "idle" => client[c] \in Clients
    /\ \A c \in Calls : told[c] # {} => step[c] = "done"
    /\ \A c \in Calls : \A e \in told[c] : RootOf[e] \in request[c].roots
    /\ \A k \in Clients : targets[k] # {} =>
         /\ latest[k] # None /\ step[latest[k]] = "done"
         /\ targets[k] \subseteq told[latest[k]]
         /\ expires[k] = request[latest[k]].at + TTL

\* What is known of the capabilities that attaches have spent.
SpentInv ==
    /\ \A c \in Calls : spent[c] # None =>
         /\ step[c] \notin {"idle", "listing"} /\ step[spent[c]] = "done"
         /\ client[spent[c]] = client[c]
         /\ capability[c].editor \in told[spent[c]]
         /\ capability[c].until = request[spent[c]].at + TTL
    /\ \A c \in Calls : step[c] \in {"queued", "starting"} => spent[c] # None
    /\ \A c, d \in Calls : c # d /\ spent[c] # None /\ spent[c] = spent[d] =>
         capability[c].editor # capability[d].editor
    /\ \A k \in Clients : \A e \in targets[k] : \A c \in Calls :
         spent[c] = latest[k] => capability[c].editor # e

\* What is known of the sessions that attaches have started.
MakerInv ==
    /\ \A s \in Sessions : maker[s] # None =>
         /\ session[s] # "unborn" /\ spent[maker[s]] # None
         /\ step[maker[s]] \in {"starting", "done", "failed"}
         /\ place[s] = RootOf[capability[maker[s]].editor]
         /\ step[maker[s]] = "done" => session[s] \in {"tracked", "ended"}
    /\ \A s, t \in Sessions : maker[s] # None /\ maker[s] = maker[t] => s = t

\* A session that an attach has reported and that lives.
Reported(s) ==
    session[s] = "tracked" /\ maker[s] # None /\ step[maker[s]] = "done"

\* No root has two of them, nor one beside an attach that is starting another.
RootInv ==
    /\ \A s, t \in Sessions : Reported(s) /\ Reported(t) /\ s # t =>
         place[s] # place[t]
    /\ \A s \in Sessions : \A c \in Calls : Reported(s) /\ step[c] = "starting" =>
         place[s] # RootOf[capability[c].editor]

-----------------------------------------------------------------------------
(* The steps, with what attach may come to taken apart.                    *)

\* Attach finds its capability.
Spends(c, k, e) ==
    /\ step[c] = "idle" /\ e \in targets[k]
    /\ step' = [step EXCEPT ![c] = "queued"]
    /\ client' = [client EXCEPT ![c] = k]
    /\ targets' = [targets EXCEPT ![k] = @ \ {e}]
    /\ capability' = [capability EXCEPT ![c] = [editor |-> e, until |-> expires[k]]]
    /\ spent' = [spent EXCEPT ![c] = latest[k]]
    /\ gate' = Append(gate, c)
    /\ UNCHANGED <<worldVars, expires, operation, selection, request, aborted,
                   sessionVars, told, latest>>

\* Attach finds none.
FindsNone(c, k) ==
    /\ step[c] = "idle"
    /\ step' = [step EXCEPT ![c] = "failed"]
    /\ client' = [client EXCEPT ![c] = k]
    /\ \/ UNCHANGED targets
       \/ targets' = [targets EXCEPT ![k] = {}]
    /\ aborted' = aborted \ {c}
    /\ UNCHANGED <<worldVars, expires, operation, selection, request, capability,
                   gate, sessionVars, told, latest, spent>>

\* AttachRuns finds no session and has one started.
Begins(c) ==
    /\ step[c] = "queued" /\ gate # <<>> /\ gate[1] = c
    /\ StillGood(c) /\ Matching(c) = {}
    /\ step' = [step EXCEPT ![c] = "starting"]
    /\ UNCHANGED <<worldVars, clientVars, selection, client, request, capability,
                   aborted, gate, sessionVars, told, latest, spent>>

\* AttachRuns or Started settles the attach at the head of the gate.
Leaves(c, how) ==
    /\ step[c] \in {"queued", "starting"} /\ gate # <<>> /\ gate[1] = c
    /\ step' = [step EXCEPT ![c] = how]
    /\ aborted' = aborted \ {c}
    /\ gate' = Tail(gate)
    /\ \/ UNCHANGED selection
       \/ \E s \in Sessions : selection' = [selection EXCEPT ![client[c]] = s]
    /\ how = "done" /\ step[c] = "starting" =>
         \E s \in Sessions : maker[s] = c /\ session[s] = "tracked"
    /\ UNCHANGED <<worldVars, clientVars, client, request, capability,
                   sessionVars, told, latest, spent>>

Step ==
    \/ \E c \in Calls :
         \/ \E k \in Clients : \/ List(c, k) \/ FindsNone(c, k)
                             \/ \E e \in targets[k] : Spends(c, k, e)
         \/ Listed(c) \/ ListFails(c) \/ Begins(c) \/ Abort(c)
         \/ \E how \in {"done", "failed"} : Leaves(c, how)
         \/ \E s \in Sessions : Starts(c, s)
    \/ \E s \in Sessions : SessionMoves(s) \/ \E r \in Roots : UserStarts(s, r)
    \/ Tick \/ WorkspaceShrinks
    \/ \E k \in Clients : Disconnect(k)
    \/ UNCHANGED vars

\* An attach spends a capability or fails.
LEMMA AttachCases ==
    ASSUME TypeOK, NEW c \in Calls, NEW k \in Clients, Attach(c, k)
    PROVE  FindsNone(c, k) \/ \E e \in targets[k] : Spends(c, k, e)
<1>1. CASE clock < expires[k] /\ gate' = Append(gate, c)
           /\ \E e \in targets[k] : targets' = Consume(k, e)
           /\ step' = [step EXCEPT ![c] = "queued"]
  BY <1>1 DEF Attach, Goes, Settle, Consume, Spends, FindsNone
<1>2. CASE /\ targets' = [targets EXCEPT ![k] = IF clock < expires[k] THEN @ ELSE {}]
           /\ Settle(c, "failed") /\ UNCHANGED <<capability, spent, gate>>
  <2>1. UNCHANGED targets \/ targets' = [targets EXCEPT ![k] = {}]
    BY <1>2 DEF TypeOK
  <2> QED
    BY <1>2, <2>1 DEF Attach, Settle, FindsNone
<1> QED
  BY <1>1, <1>2 DEF Attach, Goes

\* Who runs or is started is at the head of the gate.
LEMMA AtTheHead ==
    ASSUME TypeOK, GateInv, NEW c \in Calls,
           step[c] = "starting" \/ (step[c] = "queued" /\ gate[1] = c)
    PROVE  gate # <<>> /\ gate[1] = c
<1>1. gate # <<>>
  BY DEF TypeOK, GateInv
<1> QED
  BY <1>1 DEF GateInv

\* An attach at the head of the gate has a session started or settles.
LEMMA AttachRunsCases ==
    ASSUME TypeOK, GateInv, NEW c \in Calls, AttachRuns(c)
    PROVE  Begins(c) \/ \E how \in {"done", "failed"} : Leaves(c, how)
<1>1. step[c] = "queued" /\ gate # <<>> /\ gate[1] = c
  BY AtTheHead DEF AttachRuns, Granted
<1>2. CASE LeaveGate(c, "failed") /\ UNCHANGED selection
  BY <1>1, <1>2 DEF AttachRuns, LeaveGate, Settle, Leaves
<1>3. CASE /\ LeaveGate(c, "done")
           /\ \E s \in Matching(c) : Select(c, s)
  <2>1. Matching(c) \subseteq Sessions
    BY DEF Matching, Tracked
  <2> QED
    BY <1>1, <1>3, <2>1 DEF AttachRuns, LeaveGate, Settle, Leaves, Select
<1>4. CASE StillGood(c) /\ Matching(c) = {} /\ Goes(c, "starting")
           /\ UNCHANGED <<gate, selection>>
  BY <1>1, <1>4 DEF AttachRuns, Goes, Begins
<1> QED
  BY <1>2, <1>3, <1>4 DEF AttachRuns

LEMMA StartedCases ==
    ASSUME TypeOK, GateInv, NEW c \in Calls, Started(c)
    PROVE  \E how \in {"done", "failed"} : Leaves(c, how)
<1>1. step[c] = "starting" /\ gate # <<>> /\ gate[1] = c
  BY AtTheHead DEF Started
<1> QED
  BY <1>1 DEF Started, LeaveGate, Settle, Leaves, Select, StartedAndAllowed

\* Every step of the specification is one of those.
LEMMA NextIsStep ==
    ASSUME TypeOK, GateInv, [Next]_vars
    PROVE  Step
BY AttachCases, AttachRunsCases, StartedCases DEF Next, Step

-----------------------------------------------------------------------------
(* Each part of the invariant is preserved.                                *)

\* Variables keep their types.
LEMMA TypeStep ==
    ASSUME TypeOK, ListingInv, SpentInv, Step
    PROVE  TypeOK'
<1> USE RootAssumption, TimeAssumption, NoneAssumption DEF TypeOK,
        worldVars, clientVars, sessionVars, callVars
<1>1. ASSUME NEW c \in Calls, NEW k \in Clients, List(c, k) PROVE TypeOK'
  BY <1>1 DEF List, Goes
<1>2. ASSUME NEW c \in Calls, NEW k \in Clients, NEW e \in targets[k],
             Spends(c, k, e)
      PROVE  TypeOK'
  <2>1. Append(gate, c) \in Seq(Calls)
    BY AppendProperties
  <2> QED
    BY <1>2, <2>1 DEF Spends
<1>3. ASSUME NEW c \in Calls, NEW k \in Clients, FindsNone(c, k) PROVE TypeOK'
  BY <1>3 DEF FindsNone
<1>4. ASSUME NEW c \in Calls, Listed(c) PROVE TypeOK'
  BY <1>4 DEF Listed, Settle, CurrentListing, Authorized
<1>5. ASSUME NEW c \in Calls, ListFails(c) PROVE TypeOK'
  BY <1>5 DEF ListFails, Settle
<1>6. ASSUME NEW c \in Calls, Begins(c) PROVE TypeOK'
  BY <1>6 DEF Begins
<1>7. ASSUME NEW c \in Calls, NEW how \in {"done", "failed"},
             Leaves(c, how)
      PROVE  TypeOK'
  <2>1. Tail(gate) \in Seq(Calls)
    BY <1>7, HeadTailProperties DEF Leaves
  <2>2. client[c] \in Clients
    BY <1>7 DEF Leaves, ListingInv
  <2>3. selection' \in [Clients -> Sessions \cup {None}]
    <3>1. \/ UNCHANGED selection
          \/ \E s \in Sessions : selection' = [selection EXCEPT ![client[c]] = s]
      BY <1>7 DEF Leaves
    <3> QED
      BY <2>2, <3>1
  <2>4. step' \in [Calls -> {"idle", "listing", "queued", "starting", "done",
                           "failed"}]
    BY <1>7 DEF Leaves
  <2> QED
    BY <1>7, <2>1, <2>3, <2>4 DEF Leaves
<1>8. ASSUME NEW c \in Calls, Abort(c) PROVE TypeOK'
  BY <1>8 DEF Abort
<1>9. ASSUME NEW c \in Calls, NEW s \in Sessions, Starts(c, s) PROVE TypeOK'
  <2>1. RootOf[capability[c].editor] \in Roots
    BY <1>9 DEF Starts, SpentInv, ListingInv
  <2> QED
    BY <1>9, <2>1 DEF Starts
<1>10. ASSUME NEW s \in Sessions, SessionMoves(s) PROVE TypeOK'
  BY <1>10 DEF SessionMoves
<1>11. ASSUME NEW s \in Sessions, NEW r \in Roots,
             UserStarts(s, r)
      PROVE  TypeOK'
  BY <1>11 DEF UserStarts
<1>12. CASE Tick
  BY <1>12 DEF Tick
<1>13. CASE WorkspaceShrinks
  BY <1>13 DEF WorkspaceShrinks
<1>14. ASSUME NEW k \in Clients, Disconnect(k) PROVE TypeOK'
  BY <1>14 DEF Disconnect
<1>15. CASE UNCHANGED vars
  BY <1>15 DEF vars
<1> HIDE DEF TypeOK, GateInv, ListingInv, SpentInv, MakerInv, RootInv
<1> QED
  BY <1>1, <1>2, <1>3, <1>4, <1>5, <1>6, <1>7, <1>8, <1>9, <1>10,
     <1>11, <1>12, <1>13, <1>14, <1>15 DEF Step

\* Where the elements of a sequence are when its head has gone.
LEMMA TailIndices ==
    ASSUME NEW S, NEW q \in Seq(S), q # <<>>
    PROVE  /\ Len(q) \in Nat \ {0} /\ Len(Tail(q)) = Len(q) - 1
           /\ \A i \in 1..Len(q) : q[i] \in S
           /\ \A i \in 1..Len(Tail(q)) :
                i + 1 \in 1..Len(q) /\ i + 1 # 1 /\ Tail(q)[i] = q[i + 1]
           /\ \A i \in 1..Len(q) : i # 1 =>
                i - 1 \in 1..Len(Tail(q)) /\ Tail(q)[i - 1] = q[i]
<1>1. Len(q) \in Nat \ {0} /\ \A i \in 1..Len(q) : q[i] \in S
  OBVIOUS
<1>2. Len(Tail(q)) = Len(q) - 1 /\ \A i \in 1..(Len(q) - 1) : Tail(q)[i] = q[i + 1]
  BY HeadTailProperties
<1>3. ASSUME NEW i \in 1..Len(q), i # 1
      PROVE  i - 1 \in 1..(Len(q) - 1) /\ (i - 1) + 1 = i
  BY <1>1, <1>3
<1>4. ASSUME NEW i \in 1..(Len(q) - 1)
      PROVE  i + 1 \in 1..Len(q) /\ i + 1 # 1
  BY <1>1, <1>4
<1> QED
  BY <1>1, <1>2, <1>3, <1>4

\* The gate is left by its head and joined at its end.
LEMMA GateStep ==
    ASSUME TypeOK, GateInv, Step
    PROVE  GateInv'
<1> USE RootAssumption, TimeAssumption, NoneAssumption DEF TypeOK, GateInv,
        worldVars, clientVars, sessionVars, callVars
<1>1. ASSUME NEW c \in Calls, NEW k \in Clients, List(c, k) PROVE GateInv'
  BY <1>1 DEF List, Goes
<1>2. ASSUME NEW c \in Calls, NEW k \in Clients, NEW e \in targets[k],
             Spends(c, k, e)
      PROVE  GateInv'
  <2>1. /\ Len(gate') = Len(gate) + 1 /\ gate'[Len(gate) + 1] = c
        /\ \A i \in 1..Len(gate) : gate'[i] = gate[i] /\ gate[i] \in Calls
        /\ Len(gate) \in Nat
    BY <1>2, AppendProperties DEF Spends
  <2>2. \A i \in 1..Len(gate) : gate[i] # c
    BY <1>2 DEF Spends
  <2>3. \A d \in Calls : step'[d] = IF d = c THEN "queued" ELSE step[d]
    BY <1>2 DEF Spends
  <2>4. \A i \in 1..Len(gate') :
          \/ i \in 1..Len(gate) /\ gate'[i] = gate[i] /\ gate[i] # c
          \/ i = Len(gate) + 1 /\ gate'[i] = c
    BY <2>1, <2>2
  <2>5. ASSUME NEW i \in 1..Len(gate')
        PROVE  step'[gate'[i]] \in {"queued", "starting"}
    <3>1. CASE i \in 1..Len(gate) /\ gate'[i] = gate[i] /\ gate[i] # c
      <4>1. step[gate[i]] \in {"queued", "starting"}
        BY <3>1
      <4>2. step'[gate[i]] = step[gate[i]]
        BY <2>1, <2>3, <3>1
      <4> QED
        BY <3>1, <4>1, <4>2
    <3>2. CASE gate'[i] = c
      BY <2>3, <3>2
    <3> QED
      BY <2>4, <3>1, <3>2
  <2>6. ASSUME NEW i \in 1..Len(gate'), NEW j \in 1..Len(gate'), gate'[i] = gate'[j]
        PROVE  i = j
    <3>1. CASE i \in 1..Len(gate) /\ j \in 1..Len(gate)
      <4>1. gate[i] = gate[j]
        BY <2>1, <2>6, <3>1
      <4> QED
        BY <3>1, <4>1
    <3>2. CASE ~(i \in 1..Len(gate) /\ j \in 1..Len(gate))
      <4>1. gate'[i] = c /\ gate'[j] = c
        BY <2>6, <2>4, <3>2
      <4>2. i = Len(gate) + 1 /\ j = Len(gate) + 1
        BY <2>4, <4>1
      <4> QED
        BY <4>2
    <3> QED
      BY <3>1, <3>2
  <2>7. ASSUME NEW d \in Calls, step'[d] \in {"queued", "starting"}
        PROVE  \E i \in 1..Len(gate') : gate'[i] = d
    <3>1. CASE d = c
      <4>1. Len(gate) + 1 \in 1..Len(gate')
        BY <2>1
      <4> QED
        BY <2>1, <3>1, <4>1
    <3>2. CASE d # c
      <4>1. PICK i \in 1..Len(gate) : gate[i] = d
        BY <2>3, <2>7, <3>2
      <4> QED
        BY <2>1, <4>1
    <3> QED
      BY <3>1, <3>2
  <2>8. ASSUME NEW d \in Calls, step'[d] = "starting" PROVE gate'[1] = d
    <3>1. step[d] = "starting" /\ gate[1] = d
      BY <2>3, <2>8
    <3>2. 1 \in 1..Len(gate)
      BY <2>1, <3>1
    <3> QED
      BY <2>1, <3>1, <3>2
  <2> QED
    BY <2>5, <2>6, <2>7, <2>8
<1>3. ASSUME NEW c \in Calls, NEW k \in Clients, FindsNone(c, k) PROVE GateInv'
  BY <1>3 DEF FindsNone
<1>4. ASSUME NEW c \in Calls, Listed(c) PROVE GateInv'
  <2>1. /\ UNCHANGED gate /\ step[c] = "listing"
        /\ \A d \in Calls : d # c => step'[d] = step[d]
        /\ step'[c] = "done"
    BY <1>4 DEF Listed, Settle
  <2>2. ASSUME NEW i \in 1..Len(gate)
        PROVE  step'[gate[i]] \in {"queued", "starting"}
    <3>1. gate[i] \in Calls /\ step[gate[i]] \in {"queued", "starting"}
      OBVIOUS
    <3> HIDE DEF TypeOK, GateInv
    <3> QED
      BY <2>1, <3>1
  <2>3. ASSUME NEW d \in Calls, step'[d] \in {"queued", "starting"}
        PROVE  step[d] = step'[d]
    BY <2>1, <2>3
  <2>4. \A d \in Calls : step'[d] = "starting" => gate'[1] = d
    BY <2>1, <2>3
  <2>5. \A d \in Calls : step'[d] \in {"queued", "starting"} =>
          \E i \in 1..Len(gate') : gate'[i] = d
    BY <2>1, <2>3
  <2> QED
    BY <2>1, <2>2, <2>4, <2>5
<1>5. ASSUME NEW c \in Calls, ListFails(c) PROVE GateInv'
  <2>1. /\ UNCHANGED gate /\ step[c] = "listing"
        /\ \A d \in Calls : d # c => step'[d] = step[d]
        /\ step'[c] = "failed"
    BY <1>5 DEF ListFails, Settle
  <2>2. ASSUME NEW i \in 1..Len(gate)
        PROVE  step'[gate[i]] \in {"queued", "starting"}
    <3>1. gate[i] \in Calls /\ step[gate[i]] \in {"queued", "starting"}
      OBVIOUS
    <3> HIDE DEF TypeOK, GateInv
    <3> QED
      BY <2>1, <3>1
  <2>3. ASSUME NEW d \in Calls, step'[d] \in {"queued", "starting"}
        PROVE  step[d] = step'[d]
    BY <2>1, <2>3
  <2>4. \A d \in Calls : step'[d] = "starting" => gate'[1] = d
    BY <2>1, <2>3
  <2>5. \A d \in Calls : step'[d] \in {"queued", "starting"} =>
          \E i \in 1..Len(gate') : gate'[i] = d
    BY <2>1, <2>3
  <2> QED
    BY <2>1, <2>2, <2>4, <2>5
<1>6. ASSUME NEW c \in Calls, Begins(c) PROVE GateInv'
  BY <1>6 DEF Begins
<1>7. ASSUME NEW c \in Calls, NEW how \in {"done", "failed"},
             Leaves(c, how)
      PROVE  GateInv'
  <2>1. /\ \A i \in 1..Len(gate) : gate[i] \in Calls
        /\ 1 \in 1..Len(gate)
        /\ \A i \in 1..Len(gate') :
             i + 1 \in 1..Len(gate) /\ i + 1 # 1 /\ gate'[i] = gate[i + 1]
        /\ \A i \in 1..Len(gate) : i # 1 =>
             i - 1 \in 1..Len(gate') /\ gate'[i - 1] = gate[i]
    <3>1. gate \in Seq(Calls) /\ gate # <<>> /\ gate' = Tail(gate)
      BY <1>7 DEF Leaves
    <3> HIDE DEF TypeOK, GateInv
    <3> QED
      BY <3>1, TailIndices
  <2>2. \A i \in 1..Len(gate) : gate[i] = c => i = 1
    BY <1>7, <2>1 DEF Leaves
  <2>3. \A d \in Calls : step'[d] = IF d = c THEN how ELSE step[d]
    BY <1>7 DEF Leaves
  <2>4. ASSUME NEW i \in 1..Len(gate')
        PROVE  /\ i + 1 \in 1..Len(gate) /\ gate'[i] = gate[i + 1]
               /\ step'[gate'[i]] \in {"queued", "starting"}
    <3>1. i + 1 \in 1..Len(gate) /\ i + 1 # 1 /\ gate'[i] = gate[i + 1]
      BY <2>1
    <3>2. gate[i + 1] \in Calls /\ gate[i + 1] # c
      BY <2>1, <2>2, <3>1
    <3> QED
      BY <2>3, <3>1, <3>2
  <2>5. ASSUME NEW i \in 1..Len(gate'), NEW j \in 1..Len(gate'), gate'[i] = gate'[j]
        PROVE  i = j
    <3>1. i + 1 = j + 1
      <4>1. i + 1 \in 1..Len(gate) /\ j + 1 \in 1..Len(gate)
            /\ gate[i + 1] = gate[j + 1]
        BY <2>4, <2>5
      <4>2. \A m, n \in 1..Len(gate) : gate[m] = gate[n] => m = n
        OBVIOUS
      <4> HIDE DEF TypeOK, GateInv
      <4> QED
        BY <4>1, <4>2
    <3>2. i \in Int /\ j \in Int
      OBVIOUS
    <3> HIDE DEF TypeOK, GateInv
    <3> QED
      BY <3>1, <3>2
  <2>6. ASSUME NEW d \in Calls, step'[d] \in {"queued", "starting"}
        PROVE  d # c /\ step[d] = step'[d] /\ \E i \in 1..Len(gate') : gate'[i] = d
    <3>1. d # c /\ step[d] = step'[d]
      BY <2>3, <2>6
    <3>2. PICK i \in 1..Len(gate) : gate[i] = d
      BY <2>6, <3>1
    <3>3. i # 1
      BY <1>7, <3>1, <3>2 DEF Leaves
    <3>4. i - 1 \in 1..Len(gate') /\ gate'[i - 1] = d
      BY <2>1, <3>2, <3>3
    <3> QED
      BY <3>1, <3>4
  <2>7. \A d \in Calls : step'[d] # "starting"
    BY <1>7, <2>6 DEF Leaves
  <2> QED
    BY <2>4, <2>5, <2>6, <2>7
<1>8. ASSUME NEW c \in Calls, Abort(c) PROVE GateInv'
  BY <1>8 DEF Abort
<1>9. ASSUME NEW c \in Calls, NEW s \in Sessions, Starts(c, s) PROVE GateInv'
  BY <1>9 DEF Starts
<1>10. ASSUME NEW s \in Sessions, SessionMoves(s) PROVE GateInv'
  BY <1>10 DEF SessionMoves
<1>11. ASSUME NEW s \in Sessions, NEW r \in Roots,
             UserStarts(s, r)
      PROVE  GateInv'
  BY <1>11 DEF UserStarts
<1>12. CASE Tick
  BY <1>12 DEF Tick
<1>13. CASE WorkspaceShrinks
  BY <1>13 DEF WorkspaceShrinks
<1>14. ASSUME NEW k \in Clients, Disconnect(k) PROVE GateInv'
  BY <1>14 DEF Disconnect
<1>15. CASE UNCHANGED vars
  BY <1>15 DEF vars
<1> HIDE DEF TypeOK, GateInv, ListingInv, SpentInv, MakerInv, RootInv
<1> QED
  BY <1>1, <1>2, <1>3, <1>4, <1>5, <1>6, <1>7, <1>8, <1>9, <1>10,
     <1>11, <1>12, <1>13, <1>14, <1>15 DEF Step

\* A client's capabilities are those of the newest listing.
LEMMA ListingStep ==
    ASSUME TypeOK, ListingInv, Step
    PROVE  ListingInv'
<1> USE RootAssumption, TimeAssumption, NoneAssumption DEF TypeOK, ListingInv,
        worldVars, clientVars, sessionVars, callVars
<1>1. ASSUME NEW c \in Calls, NEW k \in Clients, List(c, k) PROVE ListingInv'
  BY <1>1 DEF List, Goes
<1>2. ASSUME NEW c \in Calls, NEW k \in Clients, NEW e \in targets[k],
             Spends(c, k, e)
      PROVE  ListingInv'
  BY <1>2 DEF Spends
<1>3. ASSUME NEW c \in Calls, NEW k \in Clients,
             FindsNone(c, k)
      PROVE  ListingInv'
  <2>1. /\ \A d \in Calls : d # c => step'[d] = step[d] /\ client'[d] = client[d]
        /\ step'[c] # "idle" /\ client'[c] \in Clients
        /\ UNCHANGED <<operation, latest, told, request, expires>>
    BY <1>3 DEF FindsNone
  <2>2. told[c] = {}
    BY <1>3 DEF FindsNone
  <2>3. ASSUME NEW j \in Clients PROVE latest[j] # c
    BY <1>3 DEF FindsNone
  <2>4. ASSUME NEW j \in Clients PROVE targets'[j] = targets[j] \/ targets'[j] = {}
    BY <1>3 DEF FindsNone
  <2>5. ASSUME NEW j \in Clients, latest[j] # None
        PROVE  /\ step'[latest[j]] = step[latest[j]] /\ latest[j] \in Calls
               /\ client'[latest[j]] = client[latest[j]]
    BY <2>1, <2>3, <2>5
  <2>6. \A j \in Clients : operation'[j] # None =>
          operation'[j] = latest'[j] /\ targets'[j] = {}
    BY <2>1, <2>4
  <2>7. \A d \in Calls : step'[d] # "idle" => client'[d] \in Clients
    BY <2>1
  <2>8. \A d \in Calls : told'[d] # {} => step'[d] = "done"
    BY <2>1, <2>2
  <2>9. \A d \in Calls : \A e \in told'[d] : RootOf[e] \in request'[d].roots
    BY <2>1
  <2>10. ASSUME NEW j \in Clients, targets'[j] # {}
        PROVE  /\ latest'[j] # None /\ step'[latest'[j]] = "done"
               /\ targets'[j] \subseteq told'[latest'[j]]
               /\ expires'[j] = request'[latest'[j]].at + TTL
    <3>1. targets'[j] = targets[j]
      BY <2>4, <2>10
    <3>2. latest[j] # None
      BY <2>10, <3>1
    <3> QED
      BY <2>1, <2>5, <2>10, <3>1, <3>2
  <2>11. \A j \in Clients : latest'[j] # None =>
           step'[latest'[j]] # "idle" /\ client'[latest'[j]] = j
    BY <2>1, <2>5
  <2> HIDE DEF TypeOK
  <2> QED
    BY <2>6, <2>7, <2>9, <2>10, <2>11, <2>8
<1>4. ASSUME NEW c \in Calls, Listed(c) PROVE ListingInv'
  BY <1>4 DEF Listed, Settle, CurrentListing, Authorized
<1>5. ASSUME NEW c \in Calls, ListFails(c) PROVE ListingInv'
  BY <1>5 DEF ListFails, Settle
<1>6. ASSUME NEW c \in Calls, Begins(c) PROVE ListingInv'
  BY <1>6 DEF Begins
<1>7. ASSUME NEW c \in Calls, NEW how \in {"done", "failed"},
             Leaves(c, how)
      PROVE  ListingInv'
  BY <1>7 DEF Leaves
<1>8. ASSUME NEW c \in Calls, Abort(c) PROVE ListingInv'
  BY <1>8 DEF Abort
<1>9. ASSUME NEW c \in Calls, NEW s \in Sessions,
             Starts(c, s)
      PROVE  ListingInv'
  BY <1>9 DEF Starts
<1>10. ASSUME NEW s \in Sessions, SessionMoves(s) PROVE ListingInv'
  BY <1>10 DEF SessionMoves
<1>11. ASSUME NEW s \in Sessions, NEW r \in Roots,
             UserStarts(s, r)
      PROVE  ListingInv'
  BY <1>11 DEF UserStarts
<1>12. CASE Tick
  BY <1>12 DEF Tick
<1>13. CASE WorkspaceShrinks
  BY <1>13 DEF WorkspaceShrinks
<1>14. ASSUME NEW k \in Clients, Disconnect(k) PROVE ListingInv'
  BY <1>14 DEF Disconnect
<1>15. CASE UNCHANGED vars
  BY <1>15 DEF vars
<1> HIDE DEF TypeOK, GateInv, ListingInv, SpentInv, MakerInv, RootInv
<1> QED
  BY <1>1, <1>2, <1>3, <1>4, <1>5, <1>6, <1>7, <1>8, <1>9, <1>10,
     <1>11, <1>12, <1>13, <1>14, <1>15 DEF Step

\* What is spent was told, and is spent once.
LEMMA SpentStep ==
    ASSUME TypeOK, ListingInv, SpentInv, Step
    PROVE  SpentInv'
<1> USE RootAssumption, TimeAssumption, NoneAssumption DEF TypeOK, SpentInv, ListingInv,
        worldVars, clientVars, sessionVars, callVars
<1>1. ASSUME NEW c \in Calls, NEW k \in Clients, List(c, k) PROVE SpentInv'
  <2>1. /\ UNCHANGED <<spent, capability, told>>
        /\ \A d \in Calls : d # c =>
             step'[d] = step[d] /\ client'[d] = client[d] /\ request'[d] = request[d]
        /\ step[c] = "idle" /\ step'[c] = "listing"
        /\ \A j \in Clients : j # k =>
             targets'[j] = targets[j] /\ latest'[j] = latest[j]
        /\ targets'[k] = {}
    BY <1>1 DEF List, Goes
  <2>2. ASSUME NEW d \in Calls, spent[d] # None
        PROVE  d # c /\ spent[d] # c /\ spent[d] \in Calls
    BY <2>1, <2>2
  <2>3. \A d \in Calls : step'[d] \in {"queued", "starting"} => spent[d] # None
    BY <2>1
  <2>4. ASSUME NEW j \in Clients, NEW e \in targets'[j],
               NEW d \in Calls, spent[d] = latest'[j]
        PROVE  capability[d].editor # e
    <3>1. e \in targets[j] /\ spent[d] = latest[j]
      BY <2>1, <2>4
    <3> QED
      BY <3>1
  <2>5. ASSUME NEW d \in Calls, spent[d] # None
        PROVE  /\ step'[d] \notin {"idle", "listing"} /\ step'[spent[d]] = "done"
               /\ client'[spent[d]] = client'[d]
               /\ capability[d].editor \in told[spent[d]]
               /\ capability[d].until = request'[spent[d]].at + TTL
    BY <2>1, <2>2, <2>5
  <2> QED
    BY <2>1, <2>3, <2>4, <2>5
<1>2. ASSUME NEW c \in Calls, NEW k \in Clients, NEW e \in targets[k],
             Spends(c, k, e)
      PROVE  SpentInv'
  <2>1. /\ UNCHANGED <<told, request, latest>>
        /\ \A d \in Calls : d # c =>
             /\ step'[d] = step[d] /\ client'[d] = client[d]
             /\ spent'[d] = spent[d] /\ capability'[d] = capability[d]
        /\ step[c] = "idle" /\ step'[c] = "queued" /\ client'[c] = k
        /\ spent'[c] = latest[k]
        /\ capability'[c] = [editor |-> e, until |-> expires[k]]
    BY <1>2 DEF Spends
  <2>2. /\ \A j \in Clients : j # k => targets'[j] = targets[j]
        /\ targets'[k] = targets[k] \ {e}
    BY <1>2 DEF Spends
  <2>3. /\ latest[k] \in Calls /\ latest[k] # None /\ latest[k] # c
        /\ step[latest[k]] = "done" /\ client[latest[k]] = k
        /\ e \in told[latest[k]] /\ expires[k] = request[latest[k]].at + TTL
    BY <2>1
  <2>4. ASSUME NEW d \in Calls, d # c, spent[d] # None
        PROVE  spent[d] # c /\ spent[d] \in Calls
    BY <2>1, <2>4
  <2>5. ASSUME NEW d \in Calls, spent'[d] # None
        PROVE  /\ step'[d] \notin {"idle", "listing"} /\ step'[spent'[d]] = "done"
               /\ client'[spent'[d]] = client'[d]
               /\ capability'[d].editor \in told'[spent'[d]]
               /\ capability'[d].until = request'[spent'[d]].at + TTL
    <3>1. CASE d = c
      BY <2>1, <2>3, <3>1
    <3>2. CASE d # c
      BY <2>1, <2>4, <2>5, <3>2
    <3> QED
      BY <3>1, <3>2
  <2>6. ASSUME NEW d \in Calls, step'[d] \in {"queued", "starting"}
        PROVE  spent'[d] # None
    <3>1. CASE d = c
      BY <2>1, <2>3, <3>1
    <3>2. CASE d # c
      BY <2>1, <2>6, <3>2
    <3> QED
      BY <3>1, <3>2
  <2>7. ASSUME NEW d \in Calls, NEW f \in Calls, d # f,
               spent'[d] # None, spent'[d] = spent'[f]
        PROVE  capability'[d].editor # capability'[f].editor
    <3>1. \A g \in Calls : spent[g] = latest[k] => capability[g].editor # e
      OBVIOUS
    <3>2. CASE d = c
      BY <2>1, <2>7, <3>1, <3>2
    <3>3. CASE f = c
      BY <2>1, <2>7, <3>1, <3>3
    <3>4. CASE d # c /\ f # c
      <4>1. spent[d] # None /\ spent[d] = spent[f]
        BY <2>1, <2>7, <3>4
      <4>2. capability[d].editor # capability[f].editor
        BY <2>7, <4>1
      <4> HIDE DEF TypeOK, SpentInv, ListingInv
      <4> QED
        BY <2>1, <3>4, <4>2
    <3> QED
      BY <3>2, <3>3, <3>4
  <2>8. ASSUME NEW j \in Clients, NEW b \in targets'[j],
               NEW d \in Calls, spent'[d] = latest'[j]
        PROVE  capability'[d].editor # b
    <3>1. CASE d # c
      <4>1. b \in targets[j] /\ spent[d] = latest[j]
        BY <2>1, <2>2, <2>8, <3>1
      <4>2. capability[d].editor # b
        BY <4>1
      <4> HIDE DEF TypeOK, SpentInv, ListingInv
      <4> QED
        BY <2>1, <3>1, <4>2
    <3>2. CASE d = c
      <4>1. j = k
        <5>1. latest[j] # None /\ client[latest[j]] = j
          BY <2>1, <2>3, <2>8, <3>2
        <5> QED
          BY <2>1, <2>3, <2>8, <3>2, <5>1
      <4> QED
        BY <2>1, <2>2, <2>8, <3>2, <4>1
    <3> QED
      BY <3>1, <3>2
  <2> HIDE DEF TypeOK, ListingInv
  <2> QED
    BY <2>5, <2>6, <2>7, <2>8
<1>3. ASSUME NEW c \in Calls, NEW k \in Clients,
             FindsNone(c, k)
      PROVE  SpentInv'
  <2>1. /\ \A d \in Calls : d # c => step'[d] = step[d] /\ client'[d] = client[d]
        /\ step'[c] = "failed" /\ step[c] = "idle"
    BY <1>3 DEF FindsNone
  <2>2. spent[c] = None /\ c # None
    BY <2>1
  <2>3. ASSUME NEW d \in Calls PROVE spent[d] # c
    BY <2>1, <2>2
  <2>4. \A j \in Clients : targets'[j] \in {targets[j], {}}
    BY <1>3 DEF FindsNone
  <2>5. UNCHANGED <<spent, latest, told, request, capability>>
    BY <1>3 DEF FindsNone
  <2>6. ASSUME NEW d \in Calls, spent[d] # None
        PROVE  /\ d # c /\ step'[d] = step[d] /\ client'[d] = client[d]
               /\ step'[spent[d]] = step[spent[d]]
               /\ client'[spent[d]] = client[spent[d]]
    BY <2>1, <2>2, <2>3, <2>6
  <2>7. \A d \in Calls : step'[d] \in {"queued", "starting"} => spent[d] # None
    BY <2>1
  <2>8. ASSUME NEW d \in Calls, spent'[d] # None
        PROVE  /\ step'[d] \notin {"idle", "listing"} /\ step'[spent'[d]] = "done"
               /\ client'[spent'[d]] = client'[d]
               /\ capability'[d].editor \in told'[spent'[d]]
               /\ capability'[d].until = request'[spent'[d]].at + TTL
    BY <2>5, <2>6, <2>8
  <2>9. ASSUME NEW j \in Clients, NEW e \in targets'[j],
               NEW d \in Calls, spent'[d] = latest'[j]
        PROVE  capability'[d].editor # e
    <3>1. e \in targets[j]
      BY <2>4
    <3> QED
      BY <2>5, <2>9, <3>1
  <2>10. \A d, f \in Calls : d # f /\ spent'[d] # None /\ spent'[d] = spent'[f] =>
           capability'[d].editor # capability'[f].editor
    BY <2>5
  <2>11. \A d \in Calls : step'[d] \in {"queued", "starting"} => spent'[d] # None
    BY <2>5, <2>7
  <2> QED
    BY <2>8, <2>9, <2>10, <2>11
<1>4. ASSUME NEW c \in Calls, Listed(c) PROVE SpentInv'
  <2> DEFINE k == client[c]
  <2>1. /\ \A d \in Calls : d # c => step'[d] = step[d] /\ told'[d] = told[d]
        /\ step[c] = "listing" /\ step'[c] = "done"
        /\ \A j \in Clients : j # k => targets'[j] = targets[j]
        /\ k \in Clients /\ latest[k] = c
        /\ UNCHANGED <<spent, latest, client, request, capability>>
    BY <1>4 DEF Listed, Settle, CurrentListing, Authorized
  <2>2. spent[c] = None /\ c # None
    BY <2>1
  <2>3. ASSUME NEW d \in Calls PROVE spent[d] # c
    BY <2>1, <2>2
  <2>4. ASSUME NEW d \in Calls, spent[d] # None
        PROVE  /\ d # c /\ step'[d] = step[d] /\ spent[d] \in Calls
               /\ step'[spent[d]] = step[spent[d]]
               /\ told'[spent[d]] = told[spent[d]]
    BY <2>1, <2>3, <2>2, <2>4
  <2>5. \A d \in Calls : step'[d] \in {"queued", "starting"} => spent[d] # None
    BY <2>1
  <2>6. ASSUME NEW j \in Clients, NEW e \in targets'[j],
               NEW d \in Calls, spent[d] = latest[j]
        PROVE  capability[d].editor # e
    <3>1. j # k
      BY <2>1, <2>3, <2>6
    <3> QED
      BY <2>1, <2>6, <3>1
  <2> HIDE DEF k
  <2> QED
    BY <2>1, <2>4, <2>5, <2>6
<1>5. ASSUME NEW c \in Calls, ListFails(c) PROVE SpentInv'
  BY <1>5 DEF ListFails, Settle
<1>6. ASSUME NEW c \in Calls, Begins(c) PROVE SpentInv'
  <2>1. /\ UNCHANGED <<spent, latest, client, request, capability, told, targets>>
        /\ \A d \in Calls : d # c => step'[d] = step[d]
        /\ step[c] = "queued" /\ step'[c] = "starting"
    BY <1>6 DEF Begins
  <2>2. \A d \in Calls : spent[d] # None => spent[d] # c
    <3>1. \A d \in Calls : spent[d] # None => step[spent[d]] = "done"
      OBVIOUS
    <3> HIDE DEF TypeOK, SpentInv, ListingInv
    <3> QED
      BY <2>1, <3>1
  <2>3. ASSUME NEW d \in Calls, spent[d] # None
        PROVE  step'[d] \notin {"idle", "listing"} /\ step'[spent[d]] = "done"
    BY <2>1, <2>2, <2>3
  <2>4. \A d \in Calls : step'[d] \in {"queued", "starting"} => spent[d] # None
    BY <2>1
  <2> QED
    BY <2>1, <2>3, <2>4
<1>7. ASSUME NEW c \in Calls, NEW how \in {"done", "failed"},
             Leaves(c, how)
      PROVE  SpentInv'
  <2>1. /\ \A d \in Calls : d # c => step'[d] = step[d]
        /\ step[c] \in {"queued", "starting"} /\ step'[c] \in {"done", "failed"}
        /\ UNCHANGED <<spent, latest, client, request, capability, told, targets>>
    BY <1>7 DEF Leaves
  <2>2. c # None
    OBVIOUS
  <2>3. ASSUME NEW d \in Calls PROVE spent[d] # c
    BY <2>1, <2>2
  <2>4. ASSUME NEW d \in Calls, spent[d] # None
        PROVE  step'[d] \notin {"idle", "listing"} /\ step'[spent[d]] = "done"
    BY <2>1, <2>3, <2>4
  <2>5. \A d \in Calls : step'[d] \in {"queued", "starting"} => spent[d] # None
    BY <2>1
  <2> QED
    BY <2>1, <2>4, <2>5
<1>8. ASSUME NEW c \in Calls, Abort(c) PROVE SpentInv'
  BY <1>8 DEF Abort
<1>9. ASSUME NEW c \in Calls, NEW s \in Sessions, Starts(c, s) PROVE SpentInv'
  <2>1. UNCHANGED <<spent, step, client, request, capability, told, targets, latest>>
    BY <1>9 DEF Starts
  <2> QED
    BY <2>1
<1>10. ASSUME NEW s \in Sessions, SessionMoves(s) PROVE SpentInv'
  BY <1>10 DEF SessionMoves
<1>11. ASSUME NEW s \in Sessions, NEW r \in Roots,
             UserStarts(s, r)
      PROVE  SpentInv'
  BY <1>11 DEF UserStarts
<1>12. CASE Tick
  BY <1>12 DEF Tick
<1>13. CASE WorkspaceShrinks
  BY <1>13 DEF WorkspaceShrinks
<1>14. ASSUME NEW k \in Clients, Disconnect(k) PROVE SpentInv'
  BY <1>14 DEF Disconnect
<1>15. CASE UNCHANGED vars
  BY <1>15 DEF vars
<1> HIDE DEF TypeOK, GateInv, ListingInv, SpentInv, MakerInv, RootInv
<1> QED
  BY <1>1, <1>2, <1>3, <1>4, <1>5, <1>6, <1>7, <1>8, <1>9, <1>10,
     <1>11, <1>12, <1>13, <1>14, <1>15 DEF Step

\* What an attach has started is known.
LEMMA MakerStep ==
    ASSUME TypeOK, SpentInv, MakerInv, Step
    PROVE  MakerInv'
<1> USE RootAssumption, TimeAssumption, NoneAssumption DEF TypeOK, MakerInv, SpentInv,
        worldVars, clientVars, sessionVars, callVars
<1>1. ASSUME NEW c \in Calls, NEW k \in Clients, List(c, k) PROVE MakerInv'
  BY <1>1 DEF List, Goes
<1>2. ASSUME NEW c \in Calls, NEW k \in Clients, NEW e \in targets[k],
             Spends(c, k, e)
      PROVE  MakerInv'
  BY <1>2 DEF Spends
<1>3. ASSUME NEW c \in Calls, NEW k \in Clients,
             FindsNone(c, k)
      PROVE  MakerInv'
  BY <1>3 DEF FindsNone
<1>4. ASSUME NEW c \in Calls, Listed(c) PROVE MakerInv'
  BY <1>4 DEF Listed, Settle, CurrentListing, Authorized
<1>5. ASSUME NEW c \in Calls, ListFails(c) PROVE MakerInv'
  BY <1>5 DEF ListFails, Settle
<1>6. ASSUME NEW c \in Calls, Begins(c) PROVE MakerInv'
  <2>1. /\ UNCHANGED <<maker, place, session, spent, capability>>
        /\ \A d \in Calls : d # c => step'[d] = step[d]
        /\ step'[c] = "starting"
    BY <1>6 DEF Begins
  <2>2. \A s \in Sessions : maker[s] # c
    <3>1. step[c] = "queued" /\ c # None
      BY <1>6 DEF Begins
    <3>2. \A s \in Sessions : maker[s] # None => step[maker[s]] # "queued"
      OBVIOUS
    <3> HIDE DEF TypeOK, SpentInv, MakerInv
    <3> QED
      BY <3>1, <3>2
  <2> QED
    BY <2>1, <2>2
<1>7. ASSUME NEW c \in Calls, NEW how \in {"done", "failed"},
             Leaves(c, how)
      PROVE  MakerInv'
  <2>1. /\ UNCHANGED <<maker, place, session, spent, capability>>
        /\ \A d \in Calls : d # c => step'[d] = step[d]
        /\ step'[c] = how
    BY <1>7 DEF Leaves
  <2>2. ASSUME NEW s \in Sessions, maker[s] = c, how = "done"
        PROVE  session[s] \in {"tracked", "ended"}
    <3>1. step[c] = "starting"
      <4>1. step[maker[s]] \in {"starting", "done", "failed"}
        BY <2>2
      <4>2. step[c] \in {"queued", "starting"}
        BY <1>7 DEF Leaves
      <4> QED
        BY <2>2, <4>1, <4>2
    <3>2. PICK t \in Sessions : maker[t] = c /\ session[t] = "tracked"
      BY <1>7, <2>2, <3>1 DEF Leaves
    <3>3. s = t
      BY <2>2, <3>2
    <3> QED
      BY <3>2, <3>3
  <2> QED
    BY <2>1, <2>2
<1>8. ASSUME NEW c \in Calls, Abort(c) PROVE MakerInv'
  BY <1>8 DEF Abort
<1>9. ASSUME NEW c \in Calls, NEW s \in Sessions, Starts(c, s) PROVE MakerInv'
  BY <1>9 DEF Starts
<1>10. ASSUME NEW s \in Sessions, SessionMoves(s) PROVE MakerInv'
  <2>1. /\ UNCHANGED <<maker, place, step, spent, capability>>
        /\ \A t \in Sessions : \/ session'[t] = session[t]
                               \/ session[t] = "untracked" /\ session'[t] = "tracked"
                               \/ session[t] = "tracked" /\ session'[t] = "ended"
    BY <1>10 DEF SessionMoves
  <2> QED
    BY <2>1
<1>11. ASSUME NEW s \in Sessions, NEW r \in Roots,
             UserStarts(s, r)
      PROVE  MakerInv'
  BY <1>11 DEF UserStarts
<1>12. CASE Tick
  BY <1>12 DEF Tick
<1>13. CASE WorkspaceShrinks
  BY <1>13 DEF WorkspaceShrinks
<1>14. ASSUME NEW k \in Clients, Disconnect(k) PROVE MakerInv'
  BY <1>14 DEF Disconnect
<1>15. CASE UNCHANGED vars
  BY <1>15 DEF vars
<1> HIDE DEF TypeOK, GateInv, ListingInv, SpentInv, MakerInv, RootInv
<1> QED
  BY <1>1, <1>2, <1>3, <1>4, <1>5, <1>6, <1>7, <1>8, <1>9, <1>10,
     <1>11, <1>12, <1>13, <1>14, <1>15 DEF Step

\* No root gets a second reported session.
LEMMA RootStep ==
    ASSUME TypeOK, GateInv, SpentInv, MakerInv, RootInv, Step
    PROVE  RootInv'
<1> USE RootAssumption, TimeAssumption, NoneAssumption DEF TypeOK, RootInv, MakerInv, SpentInv,
        worldVars, clientVars, sessionVars, callVars
<1>1. ASSUME NEW c \in Calls, NEW k \in Clients, List(c, k) PROVE RootInv'
  <2>1. /\ UNCHANGED <<maker, place, session, capability>>
        /\ \A d \in Calls : d # c => step'[d] = step[d]
        /\ step[c] = "idle" /\ step'[c] = "listing"
    BY <1>1 DEF List, Goes
  <2>2. \A t \in Sessions : Reported(t)' <=> Reported(t)
    BY <2>1 DEF Reported
  <2> QED
    BY <2>1, <2>2
<1>2. ASSUME NEW c \in Calls, NEW k \in Clients, NEW e \in targets[k],
             Spends(c, k, e)
      PROVE  RootInv'
  <2>1. /\ UNCHANGED <<maker, place, session>>
        /\ \A d \in Calls : d # c => step'[d] = step[d] /\ capability'[d] = capability[d]
        /\ step[c] = "idle" /\ step'[c] = "queued"
    BY <1>2 DEF Spends
  <2>2. \A t \in Sessions : Reported(t)' <=> Reported(t)
    BY <2>1 DEF Reported
  <2> HIDE DEF TypeOK, MakerInv, SpentInv
  <2> QED
    BY <2>1, <2>2
<1>3. ASSUME NEW c \in Calls, NEW k \in Clients, FindsNone(c, k) PROVE RootInv'
  <2>1. /\ UNCHANGED <<maker, place, session, capability>>
        /\ \A d \in Calls : d # c => step'[d] = step[d]
        /\ step[c] = "idle" /\ step'[c] = "failed"
    BY <1>3 DEF FindsNone
  <2>2. \A t \in Sessions : Reported(t)' <=> Reported(t)
    BY <2>1 DEF Reported
  <2> QED
    BY <2>1, <2>2
<1>4. ASSUME NEW c \in Calls, Listed(c) PROVE RootInv'
  <2>1. /\ UNCHANGED <<maker, place, session, capability>>
        /\ \A d \in Calls : d # c => step'[d] = step[d]
        /\ step'[c] = "done" /\ step[c] = "listing"
    BY <1>4 DEF Listed, Settle
  <2>2. \A t \in Sessions : Reported(t)' <=> Reported(t)
    BY <2>1 DEF Reported
  <2> QED
    BY <2>1, <2>2
<1>5. ASSUME NEW c \in Calls, ListFails(c) PROVE RootInv'
  <2>1. /\ UNCHANGED <<maker, place, session, capability>>
        /\ \A d \in Calls : d # c => step'[d] = step[d]
        /\ step'[c] = "failed" /\ step[c] = "listing"
    BY <1>5 DEF ListFails, Settle
  <2>2. \A t \in Sessions : Reported(t)' <=> Reported(t)
    BY <2>1 DEF Reported
  <2> QED
    BY <2>1, <2>2
<1>6. ASSUME NEW c \in Calls, Begins(c) PROVE RootInv'
  <2>1. /\ UNCHANGED <<maker, place, session, capability>>
        /\ \A d \in Calls : d # c => step'[d] = step[d]
        /\ step'[c] = "starting" /\ step[c] = "queued"
    BY <1>6 DEF Begins
  <2>2. \A t \in Sessions : Reported(t)' <=> Reported(t)
    BY <2>1 DEF Reported
  <2>3. \A t \in Sessions : Reported(t) => place[t] # RootOf[capability[c].editor]
    BY <1>6 DEF Begins, Matching, Tracked, Reported
  <2> QED
    BY <2>1, <2>2, <2>3
<1>7. ASSUME NEW c \in Calls, NEW how \in {"done", "failed"},
             Leaves(c, how)
      PROVE  RootInv'
  <2>1. /\ UNCHANGED <<maker, place, session, capability>>
        /\ \A d \in Calls : d # c => step'[d] = step[d]
        /\ step'[c] = how /\ step[c] \in {"queued", "starting"}
    BY <1>7 DEF Leaves
  <2>2. \A d \in Calls : step'[d] # "starting"
    <3>1. how # "starting" /\ gate[1] = c
      BY <1>7 DEF Leaves
    <3>2. \A d \in Calls : step[d] = "starting" => d = c
      BY <3>1 DEF GateInv
    <3> HIDE DEF TypeOK, RootInv, MakerInv, SpentInv
    <3> QED
      BY <2>1, <3>1, <3>2
  <2>3. ASSUME NEW t \in Sessions, Reported(t)'
        PROVE  \/ Reported(t)
               \/ maker[t] = c /\ step[c] = "starting"
                  /\ place[t] = RootOf[capability[c].editor]
    BY <2>1, <2>3 DEF Reported
  <2>4. ASSUME NEW t \in Sessions, NEW u \in Sessions,
               Reported(t)', Reported(u)', t # u
        PROVE  place'[t] # place'[u]
    BY <2>1, <2>3, <2>4
  <2> QED
    BY <2>2, <2>4
<1>8. ASSUME NEW c \in Calls, Abort(c) PROVE RootInv'
  BY <1>8 DEF Reported, Abort
<1>9. ASSUME NEW c \in Calls, NEW s \in Sessions, Starts(c, s) PROVE RootInv'
  <2>1. /\ UNCHANGED <<step, capability>>
        /\ \A t \in Sessions : t # s =>
             maker'[t] = maker[t] /\ place'[t] = place[t] /\ session'[t] = session[t]
        /\ session'[s] = "untracked"
    BY <1>9 DEF Starts
  <2>2. \A t \in Sessions : Reported(t)' => t # s /\ Reported(t)
    BY <2>1 DEF Reported
  <2> QED
    BY <2>1, <2>2
<1>10. ASSUME NEW s \in Sessions, SessionMoves(s) PROVE RootInv'
  <2>1. /\ UNCHANGED <<maker, place, step, capability>>
        /\ \A t \in Sessions : \/ session'[t] = session[t]
                               \/ session[t] = "untracked" /\ session'[t] = "tracked"
                               \/ session[t] = "tracked" /\ session'[t] = "ended"
    BY <1>10 DEF SessionMoves
  <2>2. \A t \in Sessions : Reported(t)' => Reported(t)
    BY <2>1 DEF Reported
  <2> QED
    BY <2>1, <2>2
<1>11. ASSUME NEW s \in Sessions, NEW r \in Roots,
             UserStarts(s, r)
      PROVE  RootInv'
  BY <1>11 DEF Reported, UserStarts
<1>12. CASE Tick
  BY <1>12 DEF Reported, Tick
<1>13. CASE WorkspaceShrinks
  BY <1>13 DEF Reported, WorkspaceShrinks
<1>14. ASSUME NEW k \in Clients, Disconnect(k) PROVE RootInv'
  BY <1>14 DEF Reported, Disconnect
<1>15. CASE UNCHANGED vars
  BY <1>15 DEF vars, Reported
<1> HIDE DEF TypeOK, GateInv, ListingInv, SpentInv, MakerInv, RootInv
<1> QED
  BY <1>1, <1>2, <1>3, <1>4, <1>5, <1>6, <1>7, <1>8, <1>9, <1>10,
     <1>11, <1>12, <1>13, <1>14, <1>15 DEF Step

-----------------------------------------------------------------------------
(* The theorems.                                                           *)

Inv == TypeOK /\ GateInv /\ ListingInv /\ SpentInv /\ MakerInv /\ RootInv

\* The invariant holds at first.
LEMMA InvInit == Init => Inv
<1> SUFFICES ASSUME Init PROVE Inv
  OBVIOUS
<1> USE RootAssumption, TimeAssumption, NoneAssumption
<1>1. TypeOK
  <2>1. <<>> \in Seq(Calls)
    OBVIOUS
  <2> QED
    BY <2>1 DEF Init, TypeOK
<1>2. GateInv
  BY DEF Init, GateInv
<1>3. ListingInv
  BY DEF Init, ListingInv
<1>4. SpentInv
  BY DEF Init, SpentInv
<1>5. MakerInv
  BY DEF Init, MakerInv
<1>6. RootInv
  BY DEF Init, RootInv, Reported
<1> QED
  BY <1>1, <1>2, <1>3, <1>4, <1>5, <1>6 DEF Inv

\* Every step preserves the invariant.
LEMMA InvStep == Inv /\ [Next]_vars => Inv'
<1> SUFFICES ASSUME Inv, [Next]_vars PROVE Inv'
  OBVIOUS
<1>1. Step
  BY NextIsStep DEF Inv
<1> QED
  BY <1>1, TypeStep, GateStep, ListingStep, SpentStep, MakerStep, RootStep DEF Inv

\* The invariant holds always.
THEOREM Invariant == Spec => []Inv
BY InvInit, InvStep, PTL DEF Spec

\* The capabilities a client holds are what is left of its newest listing,
\* however listings and attaches overlap and whatever arrives late
\* (#listTargets and #attach of toolDispatcher.ts).
THEOREM Capabilities == Spec => []CapabilitiesAreTheLatest
<1>1. Inv => CapabilitiesAreTheLatest
  BY DEF Inv, ListingInv, CapabilitiesAreTheLatest
<1> QED
  BY <1>1, Invariant, PTL

\* No root gets a second session that an attach reports, however many clients
\* attach at once (the attach gate of toolDispatcher.ts).
THEOREM OneSession == Spec => []OneSessionPerRoot
<1>1. ASSUME Inv, NEW r \in Roots
      PROVE  Cardinality({s \in Tracked(r) : maker[s] # None /\ step[maker[s]] = "done"})
               <= 1
  <2> DEFINE X == {s \in Tracked(r) : maker[s] # None /\ step[maker[s]] = "done"}
  <2>1. \A s, t \in X : s = t
    BY <1>1 DEF Inv, RootInv, Reported, Tracked
  <2>2. CASE X = {}
    BY <2>2, FS_EmptySet
  <2>3. CASE X # {}
    <3>1. PICK s \in X : TRUE
      BY <2>3
    <3>2. X = {s}
      BY <2>1, <3>1
    <3> HIDE DEF X
    <3>3. Cardinality(X) = 1
      BY <3>2, FS_Singleton
    <3> QED
      BY <3>3 DEF X
  <2> QED
    BY <2>2, <2>3
<1>2. Inv => OneSessionPerRoot
  BY <1>1 DEF OneSessionPerRoot
<1> QED
  BY <1>2, Invariant, PTL

\* An attach has a session started only with a capability that its client was
\* told less than the TTL ago and that no other attach has spent
\* (#attachUnderGate of toolDispatcher.ts).
THEOREM EarnedStarts == Spec => StartsAreEarned
<1> DEFINE Earned(c) ==
      LET l == spent[c]
          e == capability[c].editor
      IN  /\ client[l] = client[c] /\ e \in told[l]
          /\ RootOf[e] \in request[l].roots \cap roots
          /\ clock < request[l].at + TTL
          /\ client[c] \in connected /\ trusted
          /\ \A d \in Calls \ {c} : <<spent[d], capability[d].editor>> # <<l, e>>
<1>1. ASSUME Inv, NEW c \in Calls, Begins(c)
      PROVE  Earned(c)
  <2>1. /\ spent[c] \in Calls /\ spent[c] # None
        /\ Authorized(c) /\ RootIsOpen(c) /\ clock < capability[c].until
    BY <1>1 DEF Inv, TypeOK, SpentInv, Begins, StillGood
  <2>2. /\ client[spent[c]] = client[c]
        /\ capability[c].editor \in told[spent[c]]
        /\ capability[c].until = request[spent[c]].at + TTL
    BY <1>1, <2>1 DEF Inv, SpentInv
  <2>3. RootOf[capability[c].editor] \in request[spent[c]].roots
    BY <1>1, <2>1, <2>2 DEF Inv, ListingInv
  <2>4. \A d \in Calls \ {c} :
          <<spent[d], capability[d].editor>> # <<spent[c], capability[c].editor>>
    BY <1>1, <2>1 DEF Inv, SpentInv
  <2> QED
    BY <2>1, <2>2, <2>3, <2>4 DEF Authorized, RootIsOpen
<1>2. ASSUME Inv, Step, NEW c \in Calls, step[c] # "starting", step'[c] = "starting"
      PROVE  Begins(c)
  <2> USE <1>2 DEF Inv, TypeOK
  <2>1. ASSUME NEW d \in Calls, NEW k \in Clients,
               List(d, k) \/ FindsNone(d, k) \/ \E e \in targets[k] : Spends(d, k, e)
        PROVE  FALSE
    BY <2>1 DEF List, FindsNone, Spends, Goes
  <2>2. ASSUME NEW d \in Calls, Listed(d) \/ ListFails(d) PROVE FALSE
    BY <2>2 DEF Listed, ListFails, Settle
  <2>3. ASSUME NEW d \in Calls, Begins(d) PROVE d = c
    BY <2>3 DEF Begins
  <2>4. ASSUME NEW d \in Calls, NEW how \in {"done", "failed"}, Leaves(d, how)
        PROVE  FALSE
    BY <2>4 DEF Leaves
  <2>5. ASSUME UNCHANGED step PROVE FALSE
    BY <2>5
  <2>6. ASSUME NEW d \in Calls, Abort(d) \/ \E s \in Sessions : Starts(d, s)
        PROVE  UNCHANGED step
    BY <2>6 DEF Abort, Starts, callVars
  <2>7. ASSUME \/ Tick \/ WorkspaceShrinks
               \/ \E k \in Clients : Disconnect(k)
               \/ \E s \in Sessions : SessionMoves(s) \/ \E r \in Roots : UserStarts(s, r)
               \/ UNCHANGED vars
        PROVE  UNCHANGED step
    BY <2>7 DEF Tick, WorkspaceShrinks, Disconnect, SessionMoves, UserStarts,
                vars, callVars
  <2> QED
    BY <2>1, <2>2, <2>3, <2>4, <2>5, <2>6, <2>7 DEF Step
<1>3. ASSUME Inv, [Next]_vars, NEW c \in Calls, step[c] # "starting",
             step'[c] = "starting"
      PROVE  Earned(c)
  <2>1. Step
    BY <1>3, NextIsStep DEF Inv
  <2>2. Begins(c)
    BY <1>2, <1>3, <2>1
  <2> HIDE DEF Earned
  <2> QED
    BY <1>1, <1>3, <2>2
<1>4. Inv /\ [Next]_vars =>
        [\A c \in Calls : step[c] # "starting" /\ step'[c] = "starting" => Earned(c)]_vars
  <2> HIDE DEF Earned
  <2> QED
    BY <1>3
<1>5. Spec => [][\A c \in Calls :
                  step[c] # "starting" /\ step'[c] = "starting" => Earned(c)]_vars
  BY <1>4, Invariant, PTL DEF Spec
<1> QED
  BY <1>5 DEF StartsAreEarned

\* A client comes only to a tracked session in an open root that a listing
\* told it of, whatever happened while its attach waited
\* (#attachUnderGate of toolDispatcher.ts).
THEOREM AllowedAttaches == Spec => AttachedWhereAllowed
<1> DEFINE Allowed(k, s) ==
      /\ k \in connected /\ trusted
      /\ session[s] = "tracked" /\ place[s] \in roots
      /\ \E l \in Calls : client[l] = k /\ place[s] \in {RootOf[e] : e \in told[l]}
<1>1. ASSUME Inv, NEW c \in Calls, NEW s \in Sessions, spent[c] # None,
             Authorized(c), RootIsOpen(c), session[s] = "tracked",
             place[s] = RootOf[capability[c].editor]
      PROVE  Allowed(client[c], s)
  <2>1. /\ spent[c] \in Calls /\ client[spent[c]] = client[c]
        /\ capability[c].editor \in told[spent[c]]
    BY <1>1 DEF Inv, TypeOK, SpentInv
  <2> QED
    BY <1>1, <2>1 DEF Authorized, RootIsOpen
<1> HIDE DEF Allowed
<1>2. ASSUME Inv, NEW k \in Clients, selection'[k] \notin {selection[k], None},
             NEW c \in Calls, AttachRuns(c)
      PROVE  Allowed(k, selection'[k])
  <2>1. selection' # selection
    BY <1>2
  <2>2. PICK s \in Matching(c) : Select(c, s) /\ StillGood(c)
    BY <1>2, <2>1 DEF AttachRuns
  <2>3. k = client[c] /\ selection'[k] = s
    BY <1>2, <2>2 DEF Select, Inv, TypeOK
  <2>4. s \in Sessions /\ session[s] = "tracked"
        /\ place[s] = RootOf[capability[c].editor]
    BY <2>2 DEF Matching, Tracked
  <2>5. spent[c] # None
    BY <1>2 DEF AttachRuns, Granted, Inv, SpentInv
  <2> QED
    BY <1>1, <1>2, <2>2, <2>3, <2>4, <2>5 DEF StillGood
<1>3. ASSUME Inv, NEW k \in Clients, selection'[k] \notin {selection[k], None},
             NEW c \in Calls, Started(c)
      PROVE  Allowed(k, selection'[k])
  <2>1. selection' # selection
    BY <1>3
  <2>2. PICK s \in Sessions : maker[s] = c /\ StartedAndAllowed(c, s) /\ Select(c, s)
    BY <1>3, <2>1 DEF Started
  <2>3. k = client[c] /\ selection'[k] = s
    BY <1>3, <2>2 DEF Select, Inv, TypeOK
  <2>4. c # None
    BY NoneAssumption
  <2>5. spent[c] # None /\ place[s] = RootOf[capability[c].editor]
    BY <1>3, <2>2, <2>4 DEF Inv, MakerInv
  <2> QED
    BY <1>1, <1>3, <2>2, <2>3, <2>5 DEF StartedAndAllowed
<1>4. ASSUME Inv, NEW k \in Clients, selection'[k] \notin {selection[k], None},
             [Next]_vars
      PROVE  \E c \in Calls : AttachRuns(c) \/ Started(c)
  <2> USE <1>4
  <2>1. ASSUME UNCHANGED selection PROVE FALSE
    BY <2>1
  <2>2. ASSUME NEW j \in Clients, Disconnect(j) PROVE FALSE
    BY <2>2 DEF Disconnect, Inv, TypeOK
  <2>3. ASSUME NEW c \in Calls, NEW j \in Clients, List(c, j) \/ Attach(c, j)
        PROVE  UNCHANGED selection
    BY <2>3 DEF List, Attach
  <2>4. ASSUME NEW c \in Calls,
               Listed(c) \/ ListFails(c) \/ Abort(c) \/ \E s \in Sessions : Starts(c, s)
        PROVE  UNCHANGED selection
    BY <2>4 DEF Listed, ListFails, Abort, Starts
  <2>5. ASSUME \/ Tick \/ WorkspaceShrinks \/ UNCHANGED vars
               \/ \E s \in Sessions : SessionMoves(s) \/ \E r \in Roots : UserStarts(s, r)
        PROVE  UNCHANGED selection
    BY <2>5 DEF Tick, WorkspaceShrinks, SessionMoves, UserStarts, vars
  <2> QED
    BY <2>1, <2>2, <2>3, <2>4, <2>5 DEF Next
<1>5. Inv /\ [Next]_vars =>
        [\A k \in Clients : selection'[k] \notin {selection[k], None} =>
           Allowed(k, selection'[k])]_vars
  BY <1>2, <1>3, <1>4
<1>6. Spec => [][\A k \in Clients : selection'[k] \notin {selection[k], None} =>
                  Allowed(k, selection'[k])]_vars
  BY <1>5, Invariant, PTL DEF Spec
<1> QED
  BY <1>6 DEF AttachedWhereAllowed, Allowed

=============================================================================
