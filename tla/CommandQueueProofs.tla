------------------------- MODULE CommandQueueProofs -------------------------
(***************************************************************************)
(* Theorems about CommandQueue for any set of commands and sessions: its   *)
(* type, mutual exclusion, the exactness of its grants, and that it        *)
(* implements the safety part of FairReadersWriters.                       *)
(***************************************************************************)
EXTENDS CommandQueue, SequenceTheorems, FiniteSetTheorems, TLAPS

-----------------------------------------------------------------------------
(* The inductive invariant.  Core holds between any two statements of the  *)
(* code; it is stated of values, so that it can also speak of the values   *)
(* that #enqueue and complete() hand to #drain.                            *)

Unsettled(st, c) == st[c] \in {"pending", "started", "running"}
Started(st, c) == st[c] \in {"started", "running"}

\* The commands that activeReaders of queue object o counts.
ActiveReads(st, hm, o) ==
    {c \in Commands : Started(st, c) /\ hm[c] = o /\ mode[c] = "read"}

\* Arrival numbers tell arrived commands apart.
Tickets(tk, st) ==
    /\ \A c \in Commands : tk[c] = 0 <=> st[c] = "idle"
    /\ \A c, d \in Commands : c # d /\ tk[c] # 0 => tk[c] # tk[d]

\* Unsettled commands hang on the entry of their session; the objects of two
\* sessions differ; an object's name is that of an arrived command.
Homes(st, hm, en) ==
    /\ \A c \in Commands : Unsettled(st, c) =>
         hm[c] \in Commands /\ hm[c] = en[target[c]]
    /\ \A s \in Sessions : en[s] # NoQueue => target[en[s]] = s
    /\ \A s \in Sessions : en[s] # NoQueue => st[en[s]] # "idle"
    /\ \A c \in Commands : hm[c] # NoQueue => st[hm[c]] # "idle"

\* A pending sequence lists the pending commands of its object by arrival.
Lists(tk, st, hm, pe) ==
    /\ \A o \in Commands : \A i \in 1..Len(pe[o]) :
         st[pe[o][i]] = "pending" /\ hm[pe[o][i]] = o
    /\ \A c \in Commands : st[c] = "pending" =>
         \E i \in 1..Len(pe[hm[c]]) : pe[hm[c]][i] = c
    /\ \A o \in Commands : \A i, j \in 1..Len(pe[o]) :
         i < j => tk[pe[o][i]] < tk[pe[o][j]]

\* Flag and counter describe the active commands; a write is active alone;
\* active commands arrived before those still pending.
Slots(tk, st, hm, rd, wr) ==
    /\ \A o \in Commands : wr[o] =>
         \E c \in Commands : Started(st, c) /\ hm[c] = o /\ mode[c] = "write"
    /\ \A c \in Commands :
         Started(st, c) /\ mode[c] = "write" => wr[hm[c]]
    /\ \A c, d \in Commands :
         c # d /\ Started(st, c) /\ Started(st, d) /\ hm[c] = hm[d]
           => mode[c] = "read" /\ mode[d] = "read"
    /\ \A o \in Commands :
         /\ IsFiniteSet(ActiveReads(st, hm, o))
         /\ rd[o] = Cardinality(ActiveReads(st, hm, o))
    /\ \A c, d \in Commands :
         Started(st, c) /\ st[d] = "pending" /\ hm[c] = hm[d] => tk[c] < tk[d]

Core(tk, st, hm, en, pe, rd, wr) ==
    /\ Tickets(tk, st)
    /\ Homes(st, hm, en)
    /\ Lists(tk, st, hm, pe)
    /\ Slots(tk, st, hm, rd, wr)

\* What a finished drain leaves behind on object o.
DrainedAt(pe, rd, wr, o) ==
    pe[o] # <<>> => wr[o] \/ (rd[o] > 0 /\ mode[pe[o][1]] = "write")

\* An entry is kept only for a session with unsettled commands.
EntryInUse(st, en, s) ==
    en[s] # NoQueue =>
      \E c \in Commands : target[c] = s /\ Unsettled(st, c)

TicketBound == \A c \in Commands : ticket[c] <= lastTicket

IInv ==
    /\ TypeOK
    /\ TicketBound
    /\ Core(ticket, status, home, entry, pending, readers, writer)
    /\ \A o \in Commands : DrainedAt(pending, readers, writer, o)
    /\ \A s \in Sessions : EntryInUse(status, entry, s)

\* The same commands are settled and the same are unsettled.
SameFate(st, st2) ==
    \A c \in Commands : /\ Unsettled(st2, c) <=> Unsettled(st, c)
                        /\ st2[c] = "settled" <=> st[c] = "settled"

-----------------------------------------------------------------------------
(* Lemmas about the operators of the model.                                *)

\* The first k elements of a sequence without repetitions are k elements:
\* startRead adds to activeReaders as many as it takes off pending.
LEMMA PrefixCardinality ==
    ASSUME NEW S, NEW q \in Seq(S), NEW k \in 0..Len(q),
           \A i, j \in 1..Len(q) : i < j => q[i] # q[j]
    PROVE  /\ IsFiniteSet(FirstOf(q, k))
           /\ Cardinality(FirstOf(q, k)) = k
<1> DEFINE T == {q[i] : i \in 1..k}
           f == [i \in 1..k |-> q[i]]
<1>1. /\ IsFiniteSet(1..k)
      /\ Cardinality(1..k) = k
  BY FS_Interval
<1>2. f \in Bijection(1..k, T)
  <2>1. \A i, j \in 1..k : f[i] = f[j] => i = j
    <3> SUFFICES ASSUME NEW i \in 1..k, NEW j \in 1..k, i # j
                 PROVE  f[i] # f[j]
      OBVIOUS
    <3>1. i \in 1..Len(q) /\ j \in 1..Len(q) /\ (i < j \/ j < i)
      OBVIOUS
    <3> QED BY <3>1
  <2>2. f \in [1..k -> T] /\ \A t \in T : \E i \in 1..k : f[i] = t
    OBVIOUS
  <2> HIDE DEF T, f
  <2> QED
    BY <2>1, <2>2 DEF Bijection, Injection, Surjection, IsInjective
<1>3. ExistsBijection(1..k, T)
  BY <1>2, Zenon DEF ExistsBijection
<1> QED
  BY <1>1, <1>3, FS_Bijection, Zenon DEF FirstOf

-----------------------------------------------------------------------------
(* What each branch of #drain does to Core.  The lemmas speak of the       *)
(* values before (tk, st, ...) and after (st2, pe2, ...) the branch.       *)

ValueTypes(tk, st, hm, en, pe, rd, wr) ==
    /\ mode \in [Commands -> {"read", "write"}]
    /\ target \in [Commands -> Sessions]
    /\ tk \in [Commands -> Nat]
    /\ st \in [Commands -> Statuses]
    /\ hm \in [Commands -> Commands \cup {NoQueue}]
    /\ en \in [Sessions -> Commands \cup {NoQueue}]
    /\ pe \in [Commands -> Seq(Commands)]
    /\ rd \in [Commands -> Nat]
    /\ wr \in [Commands -> BOOLEAN]

\* Taking the first k elements off pe[o], element by element.
TakeOff(pe, pe2, o, k) ==
    /\ Len(pe2[o]) = Len(pe[o]) - k
    /\ \A i \in 1..Len(pe2[o]) : pe2[o][i] = pe[o][k + i]
    /\ \A p \in Commands \ {o} : pe2[p] = pe[p]

\* The commands in begun have been started.
Mark(st, st2, begun) ==
    \A c \in Commands : st2[c] = IF c \in begun THEN "started" ELSE st[c]

\* Taking a prefix off a pending list and starting its commands keeps the
\* pending lists in step with the statuses.
LEMMA TakeOffLists ==
    ASSUME NEW tk, NEW st, NEW hm, NEW en, NEW pe, NEW rd, NEW wr,
           NEW o \in Commands, NEW k \in Nat, k <= Len(pe[o]),
           ValueTypes(tk, st, hm, en, pe, rd, wr),
           Homes(st, hm, en), Lists(tk, st, hm, pe),
           NEW st2, NEW pe2 \in [Commands -> Seq(Commands)],
           TakeOff(pe, pe2, o, k),
           Mark(st, st2, FirstOf(pe[o], k))
    PROVE  Lists(tk, st2, hm, pe2)
<1> DEFINE begun == FirstOf(pe[o], k)
<1>1. \A p \in Commands : /\ pe[p] \in Seq(Commands)
                          /\ Len(pe[p]) \in Nat
                          /\ \A i \in 1..Len(pe[p]) : pe[p][i] \in Commands
  BY DEF ValueTypes
<1>2. \A p \in Commands : /\ Len(pe2[p]) \in Nat
                          /\ \A i \in 1..Len(pe2[p]) : pe2[p][i] \in Commands
  OBVIOUS
<1>3. \A p \in Commands : \A i \in 1..Len(pe[p]) :
        st[pe[p][i]] = "pending" /\ hm[pe[p][i]] = p
  BY DEF Lists
<1>4. \A p \in Commands : \A i, j \in 1..Len(pe[p]) :
        i < j => tk[pe[p][i]] < tk[pe[p][j]]
  BY DEF Lists
<1>5. \A p \in Commands : \A i \in 1..Len(pe2[p]) :
        \E j \in 1..Len(pe[p]) :
          /\ pe2[p][i] = pe[p][j]
          /\ j = IF p = o THEN k + i ELSE i
  <2> SUFFICES ASSUME NEW p \in Commands, NEW i \in 1..Len(pe2[p])
               PROVE  \E j \in 1..Len(pe[p]) :
                        /\ pe2[p][i] = pe[p][j]
                        /\ j = IF p = o THEN k + i ELSE i
    OBVIOUS
  <2>1. CASE p # o
    BY <2>1 DEF TakeOff
  <2>2. CASE p = o
    <3>1. i \in 1..Len(pe2[o])
      BY <2>2
    <3>2. pe2[o][i] = pe[o][k + i]
      BY <3>1 DEF TakeOff
    <3>3. Len(pe2[o]) = Len(pe[o]) - k
      BY DEF TakeOff
    <3>4. k + i \in 1..Len(pe[o])
      BY <3>1, <3>3, <1>1, <1>2
    <3> QED
      BY <3>2, <3>4, <2>2
  <2> QED
    BY <2>1, <2>2
<1>6. \A i \in 1..k, j \in 1..Len(pe[o]) : k < j => pe[o][i] # pe[o][j]
  <2> SUFFICES ASSUME NEW i \in 1..k, NEW j \in 1..Len(pe[o]), k < j
               PROVE  pe[o][i] # pe[o][j]
    OBVIOUS
  <2>1. i \in 1..Len(pe[o]) /\ i < j
    BY <1>1
  <2>2. tk[pe[o][i]] < tk[pe[o][j]]
    BY <2>1, <1>4
  <2>3. tk[pe[o][i]] \in Nat /\ tk[pe[o][j]] \in Nat
    BY <2>1, <1>1 DEF ValueTypes
  <2> QED
    BY <2>2, <2>3
<1>7. \A c \in begun : hm[c] = o
  <2> SUFFICES ASSUME NEW i \in 1..k
               PROVE  hm[pe[o][i]] = o
    BY DEF FirstOf
  <2>1. i \in 1..Len(pe[o])
    BY <1>1
  <2> QED
    BY <2>1, <1>3
<1>8. \A p \in Commands : \A i \in 1..Len(pe2[p]) :
        st2[pe2[p][i]] = "pending" /\ hm[pe2[p][i]] = p
  <2> SUFFICES ASSUME NEW p \in Commands, NEW i \in 1..Len(pe2[p])
               PROVE  st2[pe2[p][i]] = "pending" /\ hm[pe2[p][i]] = p
    OBVIOUS
  <2>1. PICK j \in 1..Len(pe[p]) : /\ pe2[p][i] = pe[p][j]
                                   /\ j = IF p = o THEN k + i ELSE i
    BY <1>5
  <2>2. st[pe[p][j]] = "pending" /\ hm[pe[p][j]] = p /\ pe[p][j] \in Commands
    BY <1>1, <1>3
  <2>3. pe[p][j] \notin begun
    <3>1. CASE p # o
      BY <3>1, <2>2, <1>7
    <3>2. CASE p = o
      <4>1. k < j /\ j \in 1..Len(pe[o])
        BY <3>2, <2>1, <1>1, <1>2
      <4> QED
        BY <4>1, <3>2, <1>6 DEF FirstOf
    <3> QED
      BY <3>1, <3>2
  <2> HIDE DEF begun
  <2> QED
    BY <2>1, <2>2, <2>3 DEF Mark, begun
<1>9. \A c \in Commands : st2[c] = "pending" =>
        \E i \in 1..Len(pe2[hm[c]]) : pe2[hm[c]][i] = c
  <2> SUFFICES ASSUME NEW c \in Commands, st2[c] = "pending"
               PROVE  \E i \in 1..Len(pe2[hm[c]]) : pe2[hm[c]][i] = c
    OBVIOUS
  <2>1. st[c] = "pending" /\ c \notin begun
    BY DEF Mark
  <2>2. hm[c] \in Commands
    BY <2>1 DEF Homes, Unsettled
  <2>3. PICK j \in 1..Len(pe[hm[c]]) : pe[hm[c]][j] = c
    BY <2>1 DEF Lists
  <2>4. CASE hm[c] # o
    BY <2>2, <2>3, <2>4 DEF TakeOff
  <2>5. CASE hm[c] = o
    <3>1. j \in 1..Len(pe[o]) /\ pe[o][j] = c
      BY <2>3, <2>5
    <3>2. ~(j \in 1..k)
      BY <3>1, <2>1 DEF FirstOf
    <3>3. /\ j - k \in 1..Len(pe2[o])
          /\ k + (j - k) = j
      BY <3>1, <3>2, <1>1 DEF TakeOff
    <3>4. pe2[o][j - k] = c
      BY <3>1, <3>3 DEF TakeOff
    <3> QED
      BY <3>3, <3>4, <2>5
  <2> QED
    BY <2>4, <2>5
<1>10. \A p \in Commands : \A i, j \in 1..Len(pe2[p]) :
         i < j => tk[pe2[p][i]] < tk[pe2[p][j]]
  <2> SUFFICES ASSUME NEW p \in Commands, NEW i \in 1..Len(pe2[p]),
                      NEW j \in 1..Len(pe2[p]), i < j
               PROVE  tk[pe2[p][i]] < tk[pe2[p][j]]
    OBVIOUS
  <2>1. PICK i2 \in 1..Len(pe[p]) : /\ pe2[p][i] = pe[p][i2]
                                    /\ i2 = IF p = o THEN k + i ELSE i
    BY <1>5
  <2>2. PICK j2 \in 1..Len(pe[p]) : /\ pe2[p][j] = pe[p][j2]
                                    /\ j2 = IF p = o THEN k + j ELSE j
    BY <1>5
  <2>3. i2 < j2
    BY <2>1, <2>2, <1>2
  <2> QED
    BY <2>1, <2>2, <2>3, <1>4
<1> QED
  BY <1>8, <1>9, <1>10 DEF Lists

\* The first k pending commands of o, reads all, are started and counted.
ReadsStarted(st, pe, rd, wr, o, k, st2, rd2) ==
    /\ k <= Len(pe[o])
    /\ ~wr[o]
    /\ \A i \in 1..k : mode[pe[o][i]] = "read"
    /\ Mark(st, st2, FirstOf(pe[o], k))
    /\ rd2[o] = rd[o] + k
    /\ \A p \in Commands \ {o} : rd2[p] = rd[p]

\* The first pending command of o, a write, is started and flagged.
WriteStarted(st, pe, rd, wr, o, st2, wr2) ==
    /\ Len(pe[o]) > 0
    /\ ~wr[o]
    /\ rd[o] = 0
    /\ mode[pe[o][1]] = "write"
    /\ Mark(st, st2, {pe[o][1]})
    /\ wr2[o] = TRUE
    /\ \A p \in Commands \ {o} : wr2[p] = wr[p]

\* Started prefixes keep flag and counter in step with the active commands.
LEMMA StartReadsSlots ==
    ASSUME NEW tk, NEW st, NEW hm, NEW en, NEW pe, NEW rd, NEW wr,
           NEW o \in Commands, NEW k \in Nat, NEW st2, NEW rd2,
           ValueTypes(tk, st, hm, en, pe, rd, wr),
           Core(tk, st, hm, en, pe, rd, wr),
           ReadsStarted(st, pe, rd, wr, o, k, st2, rd2)
    PROVE  Slots(tk, st2, hm, rd2, wr)
<1> DEFINE begun == FirstOf(pe[o], k)
<1>0. /\ Homes(st, hm, en) /\ Lists(tk, st, hm, pe) /\ Slots(tk, st, hm, rd, wr)
      /\ k <= Len(pe[o]) /\ ~wr[o]
      /\ \A i \in 1..k : mode[pe[o][i]] = "read"
      /\ Mark(st, st2, FirstOf(pe[o], k))
      /\ rd2[o] = rd[o] + k
      /\ \A p \in Commands \ {o} : rd2[p] = rd[p]
  BY DEF Core, ReadsStarted
<1> USE <1>0
<1>1. /\ pe[o] \in Seq(Commands)
      /\ Len(pe[o]) \in Nat
      /\ \A i \in 1..k : i \in 1..Len(pe[o])
      /\ \A i \in 1..Len(pe[o]) : pe[o][i] \in Commands
  BY DEF ValueTypes
<1>2. \A i, j \in 1..Len(pe[o]) : i < j => tk[pe[o][i]] < tk[pe[o][j]]
  BY DEF Lists
<1>3. \A c \in begun : /\ c \in Commands /\ st[c] = "pending"
                       /\ hm[c] = o /\ mode[c] = "read"
  <2> SUFFICES ASSUME NEW i \in 1..k
               PROVE  /\ pe[o][i] \in Commands /\ st[pe[o][i]] = "pending"
                      /\ hm[pe[o][i]] = o /\ mode[pe[o][i]] = "read"
    BY DEF FirstOf
  <2> QED
    BY <1>1 DEF Lists
<1>4. IsFiniteSet(begun) /\ Cardinality(begun) = k
  <2>1. \A i, j \in 1..Len(pe[o]) : i < j => pe[o][i] # pe[o][j]
    <3> SUFFICES ASSUME NEW i \in 1..Len(pe[o]), NEW j \in 1..Len(pe[o]), i < j
                 PROVE  pe[o][i] # pe[o][j]
      OBVIOUS
    <3>1. tk[pe[o][i]] < tk[pe[o][j]]
      BY <1>2
    <3>2. tk[pe[o][i]] \in Nat /\ tk[pe[o][j]] \in Nat
      BY <1>1 DEF ValueTypes
    <3> QED
      BY <3>1, <3>2
  <2>2. k \in 0..Len(pe[o])
    BY <1>1
  <2> QED
    BY <2>1, <2>2, <1>1, PrefixCardinality, Zenon
<1>5. \A i \in 1..k, d \in Commands :
        st2[d] = "pending" /\ hm[d] = o => tk[pe[o][i]] < tk[d]
  <2> SUFFICES ASSUME NEW i \in 1..k, NEW d \in Commands,
                      st2[d] = "pending", hm[d] = o
               PROVE  tk[pe[o][i]] < tk[d]
    OBVIOUS
  <2>1. st[d] = "pending" /\ d \notin begun
    BY DEF Mark
  <2>2. PICK j \in 1..Len(pe[o]) : pe[o][j] = d
    BY <2>1 DEF Lists
  <2>3. ~(j \in 1..k)
    BY <2>1, <2>2 DEF FirstOf
  <2>4. i < j
    BY <2>3, <1>1
  <2> QED
    BY <2>2, <2>4, <1>1, <1>2
<1>6. \A c \in Commands :
        /\ c \in begun => st2[c] = "started"
        /\ c \notin begun => st2[c] = st[c]
  BY DEF Mark
<1>7. \A c \in Commands : c \in begun => \E i \in 1..k : c = pe[o][i]
  BY DEF FirstOf
<1>8. \A c \in Commands : Started(st2, c) <=> Started(st, c) \/ c \in begun
  BY <1>3, <1>6 DEF Started
<1> HIDE DEF begun
<1>a. /\ \A p \in Commands : wr[p] =>
           \E c \in Commands : Started(st, c) /\ hm[c] = p /\ mode[c] = "write"
      /\ \A c \in Commands :
           Started(st, c) /\ mode[c] = "write" => wr[hm[c]]
      /\ \A c, d \in Commands :
           c # d /\ Started(st, c) /\ Started(st, d) /\ hm[c] = hm[d]
             => mode[c] = "read" /\ mode[d] = "read"
      /\ \A p \in Commands :
           /\ IsFiniteSet(ActiveReads(st, hm, p))
           /\ rd[p] = Cardinality(ActiveReads(st, hm, p))
      /\ \A c, d \in Commands :
           Started(st, c) /\ st[d] = "pending" /\ hm[c] = hm[d]
             => tk[c] < tk[d]
  BY DEF Slots
<1>9. \A p \in Commands : wr[p] =>
        \E c \in Commands : Started(st2, c) /\ hm[c] = p /\ mode[c] = "write"
  BY <1>a, <1>8
<1>10. \A c \in Commands : Started(st2, c) /\ mode[c] = "write" => wr[hm[c]]
  BY <1>a, <1>8, <1>3
<1>11. \A c, d \in Commands :
         c # d /\ Started(st2, c) /\ Started(st2, d) /\ hm[c] = hm[d]
           => mode[c] = "read" /\ mode[d] = "read"
  <2> SUFFICES ASSUME NEW c \in Commands, NEW d \in Commands, c # d,
                      Started(st2, c), Started(st2, d), hm[c] = hm[d]
               PROVE  mode[c] = "read" /\ mode[d] = "read"
    OBVIOUS
  <2>1. CASE hm[c] = o
    <3>1. mode[c] # "write" /\ mode[d] # "write"
      BY <2>1, <1>10
    <3> QED
      BY <3>1 DEF ValueTypes
  <2>2. CASE hm[c] # o
    BY <2>2, <1>8, <1>3, <1>a
  <2> QED
    BY <2>1, <2>2
<1>12. \A p \in Commands :
         /\ IsFiniteSet(ActiveReads(st2, hm, p))
         /\ rd2[p] = Cardinality(ActiveReads(st2, hm, p))
  <2>1. ASSUME NEW p \in Commands \ {o}
        PROVE  /\ IsFiniteSet(ActiveReads(st2, hm, p))
               /\ rd2[p] = Cardinality(ActiveReads(st2, hm, p))
    <3>1. ActiveReads(st2, hm, p) = ActiveReads(st, hm, p)
      BY <1>8, <1>3 DEF ActiveReads
    <3> QED
      BY <3>1, <1>a
  <2>2. /\ IsFiniteSet(ActiveReads(st2, hm, o))
        /\ rd2[o] = Cardinality(ActiveReads(st2, hm, o))
    <3>1. ActiveReads(st2, hm, o) = ActiveReads(st, hm, o) \cup begun
      BY <1>8, <1>3 DEF ActiveReads
    <3>2. ActiveReads(st, hm, o) \cap begun = {}
      BY <1>3 DEF ActiveReads, Started
    <3>3. Cardinality(ActiveReads(st, hm, o) \cap begun) = 0
      BY <3>2, FS_EmptySet
    <3> DEFINE A == ActiveReads(st, hm, o)
    <3>4. IsFiniteSet(A)
      BY <1>a
    <3>6. /\ IsFiniteSet(A \cup begun)
          /\ Cardinality(A \cup begun) =
               Cardinality(A) + Cardinality(begun) - Cardinality(A \cap begun)
      <4> HIDE DEF A
      <4> QED
        BY <1>4, <3>4, FS_Union
    <3>5. rd[o] \in Nat
      BY DEF ValueTypes
    <3> QED
      BY <3>1, <3>3, <3>5, <3>6, <1>4, <1>a
  <2> QED
    BY <2>1, <2>2
<1>13. \A c, d \in Commands :
         Started(st2, c) /\ st2[d] = "pending" /\ hm[c] = hm[d]
           => tk[c] < tk[d]
  <2> SUFFICES ASSUME NEW c \in Commands, NEW d \in Commands,
                      Started(st2, c), st2[d] = "pending", hm[c] = hm[d]
               PROVE  tk[c] < tk[d]
    OBVIOUS
  <2>1. CASE c \in begun
    BY <2>1, <1>7, <1>5, <1>3
  <2>2. CASE c \notin begun
    BY <2>2, <1>6, <1>8, <1>a
  <2> QED
    BY <2>1, <2>2
<1> QED
  BY <1>9, <1>10, <1>11, <1>12, <1>13 DEF Slots

\* A write that starts alone is the one its queue object's flag stands for.
LEMMA StartWriteSlots ==
    ASSUME NEW tk, NEW st, NEW hm, NEW en, NEW pe, NEW rd, NEW wr,
           NEW o \in Commands, NEW st2, NEW wr2,
           ValueTypes(tk, st, hm, en, pe, rd, wr),
           Core(tk, st, hm, en, pe, rd, wr),
           WriteStarted(st, pe, rd, wr, o, st2, wr2)
    PROVE  Slots(tk, st2, hm, rd, wr2)
<1> DEFINE h == pe[o][1]
<1>0. /\ Homes(st, hm, en) /\ Lists(tk, st, hm, pe) /\ Slots(tk, st, hm, rd, wr)
      /\ Len(pe[o]) > 0 /\ ~wr[o] /\ rd[o] = 0 /\ mode[pe[o][1]] = "write"
      /\ Mark(st, st2, {pe[o][1]})
      /\ wr2[o] = TRUE
      /\ \A p \in Commands \ {o} : wr2[p] = wr[p]
  BY DEF Core, WriteStarted
<1> USE <1>0
<1>1. /\ h \in Commands /\ st[h] = "pending" /\ hm[h] = o
      /\ mode[h] = "write"
  BY DEF ValueTypes, Lists
<1>2. \A d \in Commands : d # h /\ st[d] = "pending" /\ hm[d] = o
                            => tk[h] < tk[d]
  <2> SUFFICES ASSUME NEW d \in Commands, d # h, st[d] = "pending", hm[d] = o
               PROVE  tk[h] < tk[d]
    OBVIOUS
  <2>1. PICK j \in 1..Len(pe[o]) : pe[o][j] = d
    BY DEF Lists
  <2>2. 1 \in 1..Len(pe[o]) /\ 1 < j
    BY <2>1 DEF ValueTypes
  <2> QED
    BY <2>1, <2>2 DEF Lists
<1>a. /\ \A p \in Commands : wr[p] =>
           \E c \in Commands : Started(st, c) /\ hm[c] = p /\ mode[c] = "write"
      /\ \A c \in Commands :
           Started(st, c) /\ mode[c] = "write" => wr[hm[c]]
      /\ \A c, d \in Commands :
           c # d /\ Started(st, c) /\ Started(st, d) /\ hm[c] = hm[d]
             => mode[c] = "read" /\ mode[d] = "read"
      /\ \A p \in Commands :
           /\ IsFiniteSet(ActiveReads(st, hm, p))
           /\ rd[p] = Cardinality(ActiveReads(st, hm, p))
      /\ \A c, d \in Commands :
           Started(st, c) /\ st[d] = "pending" /\ hm[c] = hm[d]
             => tk[c] < tk[d]
  BY DEF Slots
<1>3. \A c \in Commands : Started(st, c) => hm[c] # o
  <2> SUFFICES ASSUME NEW c \in Commands, Started(st, c), hm[c] = o
               PROVE  FALSE
    OBVIOUS
  <2>1. mode[c] = "read"
    BY <1>a DEF ValueTypes
  <2>2. c \in ActiveReads(st, hm, o)
    BY <2>1 DEF ActiveReads
  <2>3. ActiveReads(st, hm, o) = {}
    <3> DEFINE A == ActiveReads(st, hm, o)
    <3>1. IsFiniteSet(A) /\ Cardinality(A) = 0
      BY <1>a
    <3> HIDE DEF A
    <3>2. A = {}
      BY <3>1, FS_EmptySet
    <3> QED
      BY <3>2 DEF A
  <2> QED
    BY <2>2, <2>3
<1>4. /\ st2[h] = "started"
      /\ \A c \in Commands : c # h => st2[c] = st[c]
  BY <1>1 DEF Mark
<1> HIDE DEF h
<1>5. \A c \in Commands : Started(st2, c) <=> Started(st, c) \/ c = h
  BY <1>1, <1>4 DEF Started
<1>6. \A p \in Commands : wr2[p] =>
        \E c \in Commands : Started(st2, c) /\ hm[c] = p /\ mode[c] = "write"
  <2> SUFFICES ASSUME NEW p \in Commands, wr2[p]
               PROVE  \E c \in Commands :
                        Started(st2, c) /\ hm[c] = p /\ mode[c] = "write"
    OBVIOUS
  <2>1. CASE p = o
    BY <2>1, <1>1, <1>5
  <2>2. CASE p # o
    BY <2>2, <1>a, <1>5
  <2> QED
    BY <2>1, <2>2
<1>7. \A c \in Commands : Started(st2, c) /\ mode[c] = "write" => wr2[hm[c]]
  <2> SUFFICES ASSUME NEW c \in Commands, Started(st2, c), mode[c] = "write"
               PROVE  wr2[hm[c]]
    OBVIOUS
  <2>1. CASE c = h
    BY <2>1, <1>1
  <2>2. CASE c # h
    <3>1. Started(st, c) /\ wr[hm[c]] /\ hm[c] # o
      BY <2>2, <1>3, <1>5, <1>a
    <3>2. hm[c] \in Commands
      BY <3>1 DEF Homes, Unsettled, Started
    <3> QED
      BY <3>1, <3>2
  <2> QED
    BY <2>1, <2>2
<1>8. \A c, d \in Commands :
        c # d /\ Started(st2, c) /\ Started(st2, d) /\ hm[c] = hm[d]
          => mode[c] = "read" /\ mode[d] = "read"
  BY <1>1, <1>3, <1>5, <1>a
<1>9. \A p \in Commands : ActiveReads(st2, hm, p) = ActiveReads(st, hm, p)
  BY <1>1, <1>5 DEF ActiveReads
<1>10. \A c, d \in Commands :
         Started(st2, c) /\ st2[d] = "pending" /\ hm[c] = hm[d]
           => tk[c] < tk[d]
  <2> SUFFICES ASSUME NEW c \in Commands, NEW d \in Commands,
                      Started(st2, c), st2[d] = "pending", hm[c] = hm[d]
               PROVE  tk[c] < tk[d]
    OBVIOUS
  <2>1. d # h /\ st[d] = "pending"
    BY <1>4
  <2>2. CASE c = h
    BY <2>1, <2>2, <1>1, <1>2
  <2>3. CASE c # h
    BY <2>1, <2>3, <1>5, <1>a
  <2> QED
    BY <2>2, <2>3
<1>11. \A p \in Commands :
         /\ IsFiniteSet(ActiveReads(st2, hm, p))
         /\ rd[p] = Cardinality(ActiveReads(st2, hm, p))
  BY <1>9, <1>a
<1> QED
  BY <1>6, <1>7, <1>8, <1>10, <1>11 DEF Slots

\* Starting commands changes neither who has arrived nor who is unsettled.
LEMMA MarkKeepsHomes ==
    ASSUME NEW tk, NEW st, NEW st2, NEW begun,
           NEW hm \in [Commands -> Commands \cup {NoQueue}],
           NEW en \in [Sessions -> Commands \cup {NoQueue}],
           Tickets(tk, st), Homes(st, hm, en), Mark(st, st2, begun),
           \A c \in begun : c \in Commands /\ st[c] = "pending"
    PROVE  /\ Tickets(tk, st2)
           /\ Homes(st2, hm, en)
           /\ SameFate(st, st2)
<1>1. \A c \in Commands : st2[c] = "idle" <=> st[c] = "idle"
  BY DEF Mark
<1>2. \A c \in Commands : Unsettled(st2, c) <=> Unsettled(st, c)
  BY DEF Mark, Unsettled
<1>3. Tickets(tk, st2)
  BY <1>1 DEF Tickets
<1>4. \A c \in Commands : Unsettled(st2, c) =>
        hm[c] \in Commands /\ hm[c] = en[target[c]]
  BY <1>2 DEF Homes
<1>5. \A s \in Sessions :
        en[s] # NoQueue => target[en[s]] = s /\ st2[en[s]] # "idle"
  BY <1>1 DEF Homes
<1>6. \A c \in Commands : hm[c] # NoQueue => st2[hm[c]] # "idle"
  BY <1>1 DEF Homes
<1>7. Homes(st2, hm, en)
  BY <1>4, <1>5, <1>6 DEF Homes
<1>8. \A c \in Commands : st2[c] = "settled" <=> st[c] = "settled"
  BY DEF Mark
<1> QED
  BY <1>2, <1>3, <1>7, <1>8 DEF SameFate

\* What #drain may rely on when it is called for object o of session s.
DrainReady(s, o, q, r, w, tk, st, hm, e, pe, rd, wr) ==
    /\ pe = [pending EXCEPT ![o] = q]
    /\ rd = [readers EXCEPT ![o] = r]
    /\ wr = [writer EXCEPT ![o] = w]
    /\ ValueTypes(tk, st, hm, e, pe, rd, wr)
    /\ Core(tk, st, hm, e, pe, rd, wr)
    /\ e[s] = o
    /\ \A p \in Commands \ {o} : DrainedAt(pending, readers, writer, p)
    /\ \A t \in Sessions \ {s} : EntryInUse(st, e, t)

\* #drain, called with values that satisfy Core, ends in values that satisfy
\* Core and leaves its queue object drained and its map entry in use.
LEMMA DrainCorrect ==
    ASSUME TypeOK,
           NEW s \in Sessions, NEW o \in Commands, NEW q \in Seq(Commands),
           NEW r \in Nat, NEW w \in BOOLEAN, NEW tk, NEW st, NEW hm, NEW e,
           NEW pe, NEW rd, NEW wr,
           DrainReady(s, o, q, r, w, tk, st, hm, e, pe, rd, wr),
           Drain(s, o, q, r, w, e, st)
    PROVE  /\ ValueTypes(tk, status', hm, entry', pending', readers', writer')
           /\ Core(tk, status', hm, entry', pending', readers', writer')
           /\ \A p \in Commands : DrainedAt(pending', readers', writer', p)
           /\ \A t \in Sessions : EntryInUse(status', entry', t)
           /\ SameFate(st, status')
<1> DEFINE Fresh(en2) ==
             /\ ValueTypes(tk, status', hm, en2, pending', readers', writer')
             /\ Core(tk, status', hm, en2, pending', readers', writer')
             /\ \A p \in Commands : DrainedAt(pending', readers', writer', p)
<1>0. /\ pe = [pending EXCEPT ![o] = q]
      /\ rd = [readers EXCEPT ![o] = r]
      /\ wr = [writer EXCEPT ![o] = w]
      /\ ValueTypes(tk, st, hm, e, pe, rd, wr)
      /\ Core(tk, st, hm, e, pe, rd, wr)
      /\ e[s] = o
      /\ \A p \in Commands \ {o} : DrainedAt(pending, readers, writer, p)
      /\ \A t \in Sessions \ {s} : EntryInUse(st, e, t)
  BY DEF DrainReady
<1> USE <1>0
<1>1. /\ pe[o] = q /\ rd[o] = r /\ wr[o] = w
      /\ \A p \in Commands \ {o} :
           pe[p] = pending[p] /\ rd[p] = readers[p] /\ wr[p] = writer[p]
  BY DEF TypeOK
<1>2. \A p \in Commands \ {o} : DrainedAt(pe, rd, wr, p)
  BY <1>1 DEF DrainedAt
<1>3. /\ Tickets(tk, st) /\ Homes(st, hm, e)
      /\ Lists(tk, st, hm, pe) /\ Slots(tk, st, hm, rd, wr)
  BY DEF Core
<1>4. /\ hm \in [Commands -> Commands \cup {NoQueue}]
      /\ e \in [Sessions -> Commands \cup {NoQueue}]
      /\ st \in [Commands -> Statuses]
  BY DEF ValueTypes
<1>5. ASSUME NEW c \in Commands, Unsettled(st, c), hm[c] = o
      PROVE  target[c] = s
  <2>1. e[target[c]] = o /\ target[c] \in Sessions
    BY <1>3, <1>5 DEF Homes, ValueTypes
  <2>2. target[e[target[c]]] = target[c] /\ target[e[s]] = s
    BY <2>1, <1>3, NoQueueAssumption DEF Homes
  <2> QED
    BY <2>1, <2>2
<1>6. ASSUME StartNothing(o, q, r, w, st),
             q # <<>> => w
      PROVE  Fresh(e) /\ status' = st /\ SameFate(st, status')
  <2>1. pending' = pe /\ readers' = rd /\ writer' = wr /\ status' = st
    BY <1>6 DEF StartNothing
  <2>2. DrainedAt(pe, rd, wr, o)
    BY <1>1, <1>6 DEF DrainedAt
  <2> QED
    BY <2>1, <2>2, <1>2 DEF SameFate
<1>7. ASSUME StartReads(o, q, r, st), ~w,
             r = 0 => q # <<>> /\ mode[Head(q)] = "read"
      PROVE  /\ Fresh(e)
             /\ SameFate(st, status')
  <2>1. PICK k \in 0..Len(q) :
          /\ LeadingReads(q, k)
          /\ pending' = [pending EXCEPT ![o] = SubSeq(q, k + 1, Len(q))]
          /\ readers' = [readers EXCEPT ![o] = r + k]
          /\ writer' = [writer EXCEPT ![o] = FALSE]
          /\ status' = [c \in Commands |->
                          IF c \in FirstOf(q, k) THEN "started" ELSE st[c]]
    BY <1>7 DEF StartReads
  <2>2. /\ SubSeq(q, k + 1, Len(q)) \in Seq(Commands)
        /\ Len(SubSeq(q, k + 1, Len(q))) = Len(q) - k
        /\ \A i \in 1..(Len(q) - k) : SubSeq(q, k + 1, Len(q))[i] = q[k + i]
    OBVIOUS
  <2>3. /\ pending' \in [Commands -> Seq(Commands)]
        /\ pending'[o] = SubSeq(q, k + 1, Len(q))
        /\ \A p \in Commands \ {o} : pending'[p] = pe[p]
    BY <2>1, <2>2, <1>1 DEF TypeOK
  <2>4. TakeOff(pe, pending', o, k)
    BY <2>2, <2>3, <1>1 DEF TakeOff
  <2>5. Mark(st, status', FirstOf(pe[o], k))
    BY <2>1, <1>1 DEF Mark
  <2>6. readers' \in [Commands -> Nat] /\ readers'[o] = rd[o] + k
        /\ \A p \in Commands \ {o} : readers'[p] = rd[p]
    BY <2>1, <1>1 DEF TypeOK
  <2>7. writer' = wr
    BY <2>1, <1>7
  <2>8. k \in Nat /\ k <= Len(pe[o])
    BY <1>1
  <2>9. Lists(tk, status', hm, pending')
    BY <1>3, <2>3, <2>4, <2>5, <2>8, TakeOffLists
  <2>10. \A i \in 1..k : mode[pe[o][i]] = "read"
    BY <2>1, <1>1 DEF LeadingReads
  <2>11. Slots(tk, status', hm, readers', writer')
    <3>1. ~wr[o]
      BY <1>1, <1>7
    <3>2. ReadsStarted(st, pe, rd, wr, o, k, status', readers')
      BY <2>5, <2>6, <2>8, <2>10, <3>1 DEF ReadsStarted
    <3>3. Slots(tk, status', hm, readers', wr)
      BY <2>8, <3>2, StartReadsSlots
    <3> QED
      BY <3>3, <2>7
  <2>12. \A c \in FirstOf(pe[o], k) : c \in Commands /\ st[c] = "pending"
    <3> SUFFICES ASSUME NEW i \in 1..k
                 PROVE  pe[o][i] \in Commands /\ st[pe[o][i]] = "pending"
      BY DEF FirstOf
    <3>1. i \in 1..Len(pe[o])
      BY <2>8, <1>1
    <3> QED
      BY <3>1, <1>1, <1>3 DEF Lists
  <2>13. /\ Tickets(tk, status')
         /\ Homes(status', hm, e)
         /\ SameFate(st, status')
    BY <1>3, <1>4, <2>5, <2>12, MarkKeepsHomes
  <2>14. status' \in [Commands -> Statuses]
    BY <2>1, <1>4 DEF Statuses
  <2>15. ValueTypes(tk, status', hm, e, pending', readers', writer')
    BY <2>3, <2>6, <2>7, <2>14 DEF ValueTypes
  <2>16. DrainedAt(pending', readers', writer', o)
    <3> SUFFICES ASSUME pending'[o] # <<>>
                 PROVE  readers'[o] > 0 /\ mode[pending'[o][1]] = "write"
      BY DEF DrainedAt
    <3>1. k < Len(q)
      BY <2>2, <2>3
    <3>2. pending'[o][1] = q[k + 1]
      BY <3>1, <2>2, <2>3
    <3>3. mode[q[k + 1]] = "write"
      BY <3>1, <2>1 DEF LeadingReads
    <3>4. r = 0 => k > 0
      <4> SUFFICES ASSUME r = 0, k = 0
                   PROVE  FALSE
        OBVIOUS
      <4>1. Head(q) = q[1]
        BY <3>1
      <4> QED
        BY <4>1, <3>3, <1>7
    <3> QED
      BY <3>2, <3>3, <3>4, <2>6, <1>1
  <2>17. \A p \in Commands : DrainedAt(pending', readers', writer', p)
    <3>1. \A p \in Commands \ {o} : DrainedAt(pending', readers', writer', p)
      BY <1>2, <2>3, <2>6, <2>7 DEF DrainedAt
    <3> QED
      BY <2>16, <3>1
  <2> QED
    BY <2>9, <2>11, <2>13, <2>15, <2>17 DEF Core
<1>8. ASSUME StartWrite(o, q, r, st), ~w, r = 0, q # <<>>,
             mode[Head(q)] = "write"
      PROVE  /\ Fresh(e)
             /\ SameFate(st, status')
  <2>1. /\ pending' = [pending EXCEPT ![o] = Tail(q)]
        /\ readers' = rd
        /\ writer' = [writer EXCEPT ![o] = TRUE]
        /\ status' = [st EXCEPT ![Head(q)] = "started"]
    BY <1>8 DEF StartWrite
  <2>2. /\ Len(q) > 0
        /\ Head(q) = q[1] /\ q[1] \in Commands
        /\ Tail(q) \in Seq(Commands)
        /\ Len(Tail(q)) = Len(q) - 1
        /\ \A i \in 1..(Len(q) - 1) : Tail(q)[i] = q[1 + i]
    <3>1. q # <<>>
      BY <1>8
    <3>2. Len(q) > 0 /\ Head(q) = q[1] /\ q[1] \in Commands
      BY <3>1
    <3> QED
      BY <3>1, <3>2, HeadTailProperties
  <2>3. /\ pending' \in [Commands -> Seq(Commands)]
        /\ pending'[o] = Tail(q)
        /\ \A p \in Commands \ {o} : pending'[p] = pe[p]
    BY <2>1, <2>2, <1>1 DEF TypeOK
  <2>4. TakeOff(pe, pending', o, 1)
    BY <2>2, <2>3, <1>1 DEF TakeOff
  <2>5. FirstOf(pe[o], 1) = {pe[o][1]}
    BY DEF FirstOf
  <2>6. Mark(st, status', {pe[o][1]})
    BY <2>1, <2>2, <1>1, <1>4 DEF Mark
  <2>7. /\ writer' \in [Commands -> BOOLEAN] /\ writer'[o] = TRUE
        /\ \A p \in Commands \ {o} : writer'[p] = wr[p]
    BY <2>1, <1>1 DEF TypeOK
  <2>8. Len(pe[o]) > 0 /\ 1 <= Len(pe[o]) /\ 1 \in Nat
    BY <1>1, <2>2
  <2>9. Lists(tk, status', hm, pending')
    <3>1. Mark(st, status', FirstOf(pe[o], 1))
      BY <2>5, <2>6
    <3> QED
      BY <1>3, <2>3, <2>4, <2>8, <3>1, TakeOffLists
  <2>10. ~wr[o] /\ rd[o] = 0 /\ mode[pe[o][1]] = "write"
    BY <1>1, <1>8, <2>2
  <2>11. Slots(tk, status', hm, readers', writer')
    <3>1. WriteStarted(st, pe, rd, wr, o, status', writer')
      BY <2>6, <2>7, <2>8, <2>10 DEF WriteStarted
    <3>2. Slots(tk, status', hm, rd, writer')
      BY <3>1, StartWriteSlots
    <3> QED
      BY <2>1, <3>2
  <2>12. \A c \in {pe[o][1]} : c \in Commands /\ st[c] = "pending"
    BY <2>2, <2>8, <1>1, <1>3 DEF Lists
  <2>13. /\ Tickets(tk, status')
         /\ Homes(status', hm, e)
         /\ SameFate(st, status')
    BY <1>3, <1>4, <2>6, <2>12, MarkKeepsHomes
  <2>14. status' \in [Commands -> Statuses]
    BY <2>1, <1>4 DEF Statuses
  <2>15. ValueTypes(tk, status', hm, e, pending', readers', writer')
    BY <2>1, <2>3, <2>7, <2>14 DEF ValueTypes
  <2>16. \A p \in Commands : DrainedAt(pending', readers', writer', p)
    BY <1>2, <2>1, <2>3, <2>7 DEF DrainedAt
  <2> QED
    BY <2>9, <2>11, <2>13, <2>15, <2>16 DEF Core
<1>9. ASSUME Fresh(e), entry' = e,
             SameFate(st, status'),
             \E c \in Commands : Unsettled(st, c) /\ hm[c] = o
      PROVE  /\ Fresh(entry')
             /\ \A t \in Sessions : EntryInUse(status', entry', t)
             /\ SameFate(st, status')
  <2>1. PICK c \in Commands : Unsettled(st, c) /\ hm[c] = o
    BY <1>9
  <2>2. target[c] = s
    BY <2>1, <1>5
  <2>3. EntryInUse(status', e, s)
    BY <2>1, <2>2, <1>9 DEF EntryInUse, SameFate
  <2>4. \A t \in Sessions \ {s} : EntryInUse(status', e, t)
    BY <1>9 DEF EntryInUse, SameFate
  <2> QED
    BY <2>3, <2>4, <1>9
<1>10. q # <<>> => \E c \in Commands : Unsettled(st, c) /\ hm[c] = o
  <2> SUFFICES ASSUME q # <<>>
               PROVE  \E c \in Commands : Unsettled(st, c) /\ hm[c] = o
    OBVIOUS
  <2>1. 1 \in 1..Len(pe[o]) /\ pe[o][1] \in Commands
    BY <1>1
  <2> QED
    BY <2>1, <1>3 DEF Lists, Unsettled
<1>11. w => \E c \in Commands : Unsettled(st, c) /\ hm[c] = o
  <2>1. wr[o] => \E c \in Commands : Started(st, c) /\ hm[c] = o
    BY <1>3 DEF Slots
  <2> QED
    BY <2>1, <1>1 DEF Started, Unsettled
<1>12. r > 0 => \E c \in Commands : Unsettled(st, c) /\ hm[c] = o
  <2> SUFFICES ASSUME r > 0
               PROVE  \E c \in Commands : Unsettled(st, c) /\ hm[c] = o
    OBVIOUS
  <2> DEFINE A == ActiveReads(st, hm, o)
  <2>1. Cardinality(A) # 0
    BY <1>1, <1>3 DEF Slots
  <2>2. A # {}
    <3> HIDE DEF A
    <3> QED
      BY <2>1, FS_EmptySet, Zenon
  <2> QED
    BY <2>2 DEF ActiveReads, Started, Unsettled
<1>13. CASE w /\ StartNothing(o, q, r, w, st) /\ entry' = e
  <2>1. Fresh(e) /\ status' = st /\ SameFate(st, status')
    BY <1>13, <1>6
  <2> QED
    BY <2>1, <1>9, <1>11, <1>13
<1>14. CASE ~w /\ r > 0 /\ StartReads(o, q, r, st) /\ entry' = e
  <2>1. /\ Fresh(e)
        /\ SameFate(st, status')
    BY <1>14, <1>7
  <2> QED
    BY <2>1, <1>9, <1>12, <1>14
<1>15. CASE /\ ~w /\ r = 0 /\ q = <<>>
            /\ StartNothing(o, q, r, w, st)
            /\ entry' = IF e[s] = o THEN [e EXCEPT ![s] = NoQueue] ELSE e
  <2>1. Fresh(e) /\ status' = st /\ SameFate(st, status')
    BY <1>15, <1>6
  <2>2. entry' = [e EXCEPT ![s] = NoQueue]
    BY <1>15
  <2>3. ASSUME NEW c \in Commands, Unsettled(st, c), hm[c] = o
        PROVE  FALSE
    <3>1. CASE st[c] = "pending"
      BY <3>1, <2>3, <1>1, <1>3, <1>15 DEF Lists
    <3>2. CASE Started(st, c) /\ mode[c] = "write"
      BY <3>2, <2>3, <1>1, <1>3, <1>15 DEF Slots
    <3>3. CASE Started(st, c) /\ mode[c] = "read"
      <4> DEFINE A == ActiveReads(st, hm, o)
      <4>1. c \in A
        BY <3>3, <2>3 DEF ActiveReads
      <4>2. IsFiniteSet(A) /\ Cardinality(A) = 0
        BY <1>1, <1>3, <1>15 DEF Slots
      <4> HIDE DEF A
      <4> QED
        BY <4>1, <4>2, FS_EmptySet
    <3> QED
      BY <3>1, <3>2, <3>3, <2>3 DEF Unsettled, Started, ValueTypes
  <2>4. ASSUME NEW c \in Commands, Unsettled(st, c)
        PROVE  target[c] # s
    BY <2>3, <2>4, <1>3 DEF Homes
  <2>5. Homes(st, hm, entry')
    BY <2>2, <2>4, <1>3, <1>4 DEF Homes, ValueTypes
  <2>6. ValueTypes(tk, status', hm, entry', pending', readers', writer')
    BY <2>1, <2>2, <1>4 DEF ValueTypes
  <2>7. Fresh(entry')
    BY <2>1, <2>5, <2>6 DEF Core
  <2>8. \A t \in Sessions : EntryInUse(status', entry', t)
    BY <2>1, <2>2, <1>4 DEF EntryInUse
  <2> QED
    BY <2>1, <2>7, <2>8
<1>16. CASE /\ ~w /\ r = 0 /\ q # <<>> /\ mode[Head(q)] = "write"
            /\ StartWrite(o, q, r, st)
            /\ entry' = e
  <2>1. /\ Fresh(e)
        /\ SameFate(st, status')
    BY <1>16, <1>8
  <2> QED
    BY <2>1, <1>9, <1>10, <1>16
<1>17. CASE /\ ~w /\ r = 0 /\ q # <<>> /\ mode[Head(q)] = "read"
            /\ StartReads(o, q, r, st)
            /\ entry' = e
  <2>1. /\ Fresh(e)
        /\ SameFate(st, status')
    BY <1>17, <1>7
  <2> QED
    BY <2>1, <1>9, <1>10, <1>17
<1>18. ~(r > 0) <=> r = 0
  OBVIOUS
<1> QED
  BY <1>13, <1>14, <1>15, <1>16, <1>17, <1>18 DEF Drain

-----------------------------------------------------------------------------
(* What #enqueue and complete() hand to #drain satisfies Core.             *)

\* Command c arrives with number n and is pushed to queue object o.
Pushed(tk, st, hm, en, pe, c, o, n, tk2, st2, hm2, en2, pe2) ==
    /\ st[c] = "idle"
    /\ o = IF en[target[c]] = NoQueue THEN c ELSE en[target[c]]
    /\ n \in Nat
    /\ \A d \in Commands : tk[d] < n
    /\ tk2[c] = n /\ \A d \in Commands \ {c} : tk2[d] = tk[d]
    /\ st2[c] = "pending" /\ \A d \in Commands \ {c} : st2[d] = st[d]
    /\ hm2[c] = o /\ \A d \in Commands \ {c} : hm2[d] = hm[d]
    /\ en2[target[c]] = o
    /\ \A t \in Sessions \ {target[c]} : en2[t] = en[t]
    /\ Len(pe2[o]) = Len(pe[o]) + 1
    /\ pe2[o][Len(pe[o]) + 1] = c
    /\ \A i \in 1..Len(pe[o]) : pe2[o][i] = pe[o][i]
    /\ \A p \in Commands \ {o} : pe2[p] = pe[p]

LEMMA PushedCore ==
    ASSUME NEW tk, NEW st, NEW hm, NEW en, NEW pe, NEW rd, NEW wr,
           NEW c \in Commands, NEW o \in Commands, NEW n,
           NEW tk2, NEW st2, NEW hm2, NEW en2, NEW pe2,
           ValueTypes(tk, st, hm, en, pe, rd, wr),
           Core(tk, st, hm, en, pe, rd, wr),
           Pushed(tk, st, hm, en, pe, c, o, n, tk2, st2, hm2, en2, pe2)
    PROVE  Core(tk2, st2, hm2, en2, pe2, rd, wr)
<1>1. /\ st[c] = "idle" /\ st2[c] = "pending" /\ hm2[c] = o
      /\ tk2[c] = n /\ n \in Nat /\ en2[target[c]] = o
      /\ o = IF en[target[c]] = NoQueue THEN c ELSE en[target[c]]
      /\ \A d \in Commands : tk[d] < n
      /\ \A d \in Commands : d # c =>
           tk2[d] = tk[d] /\ st2[d] = st[d] /\ hm2[d] = hm[d]
      /\ \A t \in Sessions : t # target[c] => en2[t] = en[t]
  BY DEF Pushed
<1>2. /\ Len(pe2[o]) = Len(pe[o]) + 1
      /\ pe2[o][Len(pe[o]) + 1] = c
      /\ \A i \in 1..Len(pe[o]) : pe2[o][i] = pe[o][i]
      /\ \A p \in Commands : p # o => pe2[p] = pe[p]
  BY DEF Pushed
<1>3. /\ target[c] \in Sessions
      /\ \A d \in Commands : tk[d] \in Nat /\ target[d] \in Sessions
      /\ \A p \in Commands : /\ Len(pe[p]) \in Nat
                             /\ \A i \in 1..Len(pe[p]) : pe[p][i] \in Commands
      /\ \A t \in Sessions : en[t] = NoQueue \/ en[t] \in Commands
      /\ \A d \in Commands : hm[d] = NoQueue \/ hm[d] \in Commands
  BY DEF ValueTypes
<1>4. /\ \A d \in Commands : tk[d] = 0 <=> st[d] = "idle"
      /\ \A d, f \in Commands : d # f /\ tk[d] # 0 => tk[d] # tk[f]
  BY DEF Core, Tickets
<1>5. /\ \A d \in Commands : Unsettled(st, d) =>
           hm[d] \in Commands /\ hm[d] = en[target[d]]
      /\ \A t \in Sessions : en[t] # NoQueue => target[en[t]] = t
      /\ \A t \in Sessions : en[t] # NoQueue => st[en[t]] # "idle"
      /\ \A d \in Commands : hm[d] # NoQueue => st[hm[d]] # "idle"
  BY DEF Core, Homes
<1>6. /\ \A p \in Commands : \A i \in 1..Len(pe[p]) :
           st[pe[p][i]] = "pending" /\ hm[pe[p][i]] = p
      /\ \A d \in Commands : st[d] = "pending" =>
           \E i \in 1..Len(pe[hm[d]]) : pe[hm[d]][i] = d
      /\ \A p \in Commands : \A i, j \in 1..Len(pe[p]) :
           i < j => tk[pe[p][i]] < tk[pe[p][j]]
  BY DEF Core, Lists
<1>7. /\ \A p \in Commands : wr[p] =>
           \E d \in Commands : Started(st, d) /\ hm[d] = p /\ mode[d] = "write"
      /\ \A d \in Commands :
           Started(st, d) /\ mode[d] = "write" => wr[hm[d]]
      /\ \A d, f \in Commands :
           d # f /\ Started(st, d) /\ Started(st, f) /\ hm[d] = hm[f]
             => mode[d] = "read" /\ mode[f] = "read"
      /\ \A p \in Commands :
           /\ IsFiniteSet(ActiveReads(st, hm, p))
           /\ rd[p] = Cardinality(ActiveReads(st, hm, p))
      /\ \A d, f \in Commands :
           Started(st, d) /\ st[f] = "pending" /\ hm[d] = hm[f]
             => tk[d] < tk[f]
  BY DEF Core, Slots
<1>8. Tickets(tk2, st2)
  <2>1. \A d \in Commands : tk2[d] = 0 <=> st2[d] = "idle"
    BY <1>1, <1>3, <1>4
  <2>2. \A d, f \in Commands : d # f /\ tk2[d] # 0 => tk2[d] # tk2[f]
    BY <1>1, <1>3, <1>4
  <2> QED
    BY <2>1, <2>2 DEF Tickets
<1>9. Homes(st2, hm2, en2)
  <2>1. ASSUME NEW d \in Commands, Unsettled(st2, d)
        PROVE  hm2[d] \in Commands /\ hm2[d] = en2[target[d]]
    <3>1. CASE d = c
      BY <3>1, <1>1
    <3>2. CASE d # c /\ target[d] # target[c]
      <4>1. Unsettled(st, d)
        BY <3>2, <2>1, <1>1 DEF Unsettled
      <4> QED
        BY <4>1, <3>2, <1>1, <1>3, <1>5
    <3>3. CASE d # c /\ target[d] = target[c]
      <4>1. Unsettled(st, d)
        BY <3>3, <2>1, <1>1 DEF Unsettled
      <4>2. hm[d] \in Commands /\ hm[d] = en[target[c]]
        BY <4>1, <3>3, <1>5
      <4> QED
        BY <4>2, <3>3, <1>1, NoQueueAssumption
    <3> QED
      BY <3>1, <3>2, <3>3
  <2>2. target[o] = target[c] /\ st2[o] # "idle"
    BY <1>1, <1>3, <1>5
  <2>3. \A t \in Sessions : en2[t] # NoQueue => target[en2[t]] = t
    BY <2>2, <1>1, <1>5
  <2>4. \A t \in Sessions : en2[t] # NoQueue => st2[en2[t]] # "idle"
    <3> SUFFICES ASSUME NEW t \in Sessions, en2[t] # NoQueue
                 PROVE  st2[en2[t]] # "idle"
      OBVIOUS
    <3>1. CASE t = target[c]
      BY <3>1, <2>2, <1>1
    <3>2. CASE t # target[c]
      <4>1. en2[t] = en[t] /\ en[t] \in Commands /\ st[en[t]] # "idle"
        BY <3>2, <1>1, <1>3, <1>5
      <4> QED
        BY <4>1, <1>1
    <3> QED
      BY <3>1, <3>2
  <2>5. \A d \in Commands : hm2[d] # NoQueue => st2[hm2[d]] # "idle"
    <3> SUFFICES ASSUME NEW d \in Commands, hm2[d] # NoQueue
                 PROVE  st2[hm2[d]] # "idle"
      OBVIOUS
    <3>1. CASE d = c
      BY <3>1, <2>2, <1>1
    <3>2. CASE d # c
      <4>1. hm2[d] = hm[d] /\ hm[d] \in Commands /\ st[hm[d]] # "idle"
        BY <3>2, <1>1, <1>3, <1>5
      <4> QED
        BY <4>1, <1>1
    <3> QED
      BY <3>1, <3>2
  <2> QED
    BY <2>1, <2>3, <2>4, <2>5 DEF Homes
<1>10. Lists(tk2, st2, hm2, pe2)
  <2>1. \A p \in Commands : \A i \in 1..Len(pe2[p]) :
          \/ i \in 1..Len(pe[p]) /\ pe2[p][i] = pe[p][i]
          \/ p = o /\ i = Len(pe[o]) + 1 /\ pe2[p][i] = c
    <3> SUFFICES ASSUME NEW p \in Commands, NEW i \in 1..Len(pe2[p])
                 PROVE  \/ i \in 1..Len(pe[p]) /\ pe2[p][i] = pe[p][i]
                        \/ p = o /\ i = Len(pe[o]) + 1 /\ pe2[p][i] = c
      OBVIOUS
    <3>1. CASE p # o
      BY <3>1, <1>2
    <3>2. CASE p = o
      <4>1. i \in 1..(Len(pe[o]) + 1) /\ Len(pe[o]) \in Nat
        BY <3>2, <1>2, <1>3
      <4>2. i \in 1..Len(pe[o]) \/ i = Len(pe[o]) + 1
        BY <4>1
      <4> QED
        BY <4>2, <3>2, <1>2
    <3> QED
      BY <3>1, <3>2
  <2>2. \A p \in Commands : \A i \in 1..Len(pe[p]) :
          /\ i \in 1..Len(pe2[p]) /\ pe2[p][i] = pe[p][i]
          /\ pe[p][i] \in Commands /\ pe[p][i] # c
    <3> SUFFICES ASSUME NEW p \in Commands, NEW i \in 1..Len(pe[p])
                 PROVE  /\ i \in 1..Len(pe2[p]) /\ pe2[p][i] = pe[p][i]
                        /\ pe[p][i] \in Commands /\ pe[p][i] # c
      OBVIOUS
    <3>1. pe[p][i] \in Commands /\ pe[p][i] # c
      BY <1>1, <1>3, <1>6
    <3>2. CASE p # o
      BY <3>1, <3>2, <1>2
    <3>3. CASE p = o
      <4>1. i \in 1..Len(pe[o])
        BY <3>3
      <4>2. pe2[o][i] = pe[o][i] /\ Len(pe[o]) \in Nat
        BY <4>1, <1>2, <1>3
      <4>3. i \in 1..Len(pe2[o])
        BY <4>1, <4>2, <1>2
      <4> QED
        BY <4>2, <4>3, <3>1, <3>3
    <3> QED
      BY <3>2, <3>3
  <2>3. \A p \in Commands : \A i \in 1..Len(pe2[p]) :
          st2[pe2[p][i]] = "pending" /\ hm2[pe2[p][i]] = p
    <3> SUFFICES ASSUME NEW p \in Commands, NEW i \in 1..Len(pe2[p])
                 PROVE  st2[pe2[p][i]] = "pending" /\ hm2[pe2[p][i]] = p
      OBVIOUS
    <3>1. CASE i \in 1..Len(pe[p])
      <4>1. /\ st[pe[p][i]] = "pending" /\ hm[pe[p][i]] = p
            /\ pe[p][i] \in Commands /\ pe[p][i] # c
            /\ pe2[p][i] = pe[p][i]
        BY <3>1, <2>2, <1>6
      <4> QED
        BY <4>1, <1>1
    <3>2. CASE p = o /\ pe2[p][i] = c
      BY <3>2, <1>1
    <3> QED
      BY <3>1, <3>2, <2>1
  <2>4. Len(pe[o]) + 1 \in 1..Len(pe2[o]) /\ Len(pe[o]) \in Nat
    BY <1>2, <1>3
  <2>5. \A d \in Commands : st2[d] = "pending" =>
          \E i \in 1..Len(pe2[hm2[d]]) : pe2[hm2[d]][i] = d
    <3> SUFFICES ASSUME NEW d \in Commands, st2[d] = "pending"
                 PROVE  \E i \in 1..Len(pe2[hm2[d]]) : pe2[hm2[d]][i] = d
      OBVIOUS
    <3>1. CASE d = c
      BY <3>1, <2>4, <1>1, <1>2
    <3>2. CASE d # c
      <4>1. st[d] = "pending" /\ hm2[d] = hm[d]
        BY <3>2, <1>1
      <4>2. hm[d] \in Commands
        BY <4>1, <1>5 DEF Unsettled
      <4>3. PICK i \in 1..Len(pe[hm[d]]) : pe[hm[d]][i] = d
        BY <4>1, <1>6
      <4> QED
        BY <4>1, <4>2, <4>3, <2>2
    <3> QED
      BY <3>1, <3>2
  <2>6. \A p \in Commands : \A i, j \in 1..Len(pe2[p]) :
          i < j => tk2[pe2[p][i]] < tk2[pe2[p][j]]
    <3> SUFFICES ASSUME NEW p \in Commands, NEW i \in 1..Len(pe2[p]),
                        NEW j \in 1..Len(pe2[p]), i < j
                 PROVE  tk2[pe2[p][i]] < tk2[pe2[p][j]]
      OBVIOUS
    <3>1. CASE j \in 1..Len(pe[p])
      <4>1. i \in 1..Len(pe[p])
        BY <3>1, <1>3
      <4>2. /\ pe2[p][i] = pe[p][i] /\ pe[p][i] \in Commands
            /\ pe2[p][j] = pe[p][j] /\ pe[p][j] \in Commands
            /\ pe[p][i] # c /\ pe[p][j] # c
        BY <3>1, <4>1, <2>2
      <4>3. tk[pe[p][i]] < tk[pe[p][j]]
        BY <3>1, <4>1, <1>6
      <4> QED
        BY <4>2, <4>3, <1>1
    <3>2. CASE p = o /\ j = Len(pe[o]) + 1 /\ pe2[p][j] = c
      <4>1. i \in 1..Len(pe[p]) /\ pe2[p][i] = pe[p][i]
        BY <3>2, <2>1, <2>4
      <4>2. pe[p][i] \in Commands /\ pe[p][i] # c
        BY <4>1, <2>2
      <4> QED
        BY <4>1, <4>2, <3>2, <1>1
    <3> QED
      BY <3>1, <3>2, <2>1
  <2> QED
    BY <2>3, <2>5, <2>6 DEF Lists
<1>11. Slots(tk2, st2, hm2, rd, wr)
  <2>1. \A d \in Commands : Started(st, d) <=> Started(st2, d)
    BY <1>1 DEF Started
  <2>2. \A d \in Commands : Started(st2, d) => d # c /\ hm2[d] = hm[d]
    BY <1>1 DEF Started
  <2>3. \A p \in Commands : ActiveReads(st2, hm2, p) = ActiveReads(st, hm, p)
    BY <2>1, <2>2 DEF ActiveReads
  <2>4. \A p \in Commands : wr[p] =>
          \E d \in Commands : Started(st2, d) /\ hm2[d] = p /\ mode[d] = "write"
    BY <2>1, <2>2, <1>7
  <2>5. \A d \in Commands :
          Started(st2, d) /\ mode[d] = "write" => wr[hm2[d]]
    BY <2>1, <2>2, <1>7
  <2>6. \A d, f \in Commands :
          d # f /\ Started(st2, d) /\ Started(st2, f) /\ hm2[d] = hm2[f]
            => mode[d] = "read" /\ mode[f] = "read"
    BY <2>1, <2>2, <1>7
  <2>7. ASSUME NEW d \in Commands, NEW f \in Commands,
               Started(st2, d), st2[f] = "pending", hm2[d] = hm2[f]
        PROVE  tk2[d] < tk2[f]
    <3>1. CASE f = c
      BY <3>1, <2>7, <2>2, <1>1
    <3>2. CASE f # c
      BY <3>2, <2>7, <2>1, <2>2, <1>1, <1>7
    <3> QED
      BY <3>1, <3>2
  <2>8. \A p \in Commands :
          /\ IsFiniteSet(ActiveReads(st2, hm2, p))
          /\ rd[p] = Cardinality(ActiveReads(st2, hm2, p))
    BY <2>3, <1>7
  <2> QED
    BY <2>4, <2>5, <2>6, <2>7, <2>8 DEF Slots
<1> QED
  BY <1>8, <1>9, <1>10, <1>11 DEF Core

\* The running command c gives up its slot on queue object hm[c].
Released(st, hm, rd, wr, c, st2, rd2, wr2) ==
    /\ st[c] = "running"
    /\ st2[c] = "settled" /\ \A d \in Commands \ {c} : st2[d] = st[d]
    /\ rd2[hm[c]] = IF mode[c] = "read" THEN rd[hm[c]] - 1 ELSE rd[hm[c]]
    /\ wr2[hm[c]] = IF mode[c] = "write" THEN FALSE ELSE wr[hm[c]]
    /\ \A p \in Commands \ {hm[c]} : rd2[p] = rd[p] /\ wr2[p] = wr[p]

LEMMA ReleasedCore ==
    ASSUME NEW tk, NEW st, NEW hm, NEW en, NEW pe, NEW rd, NEW wr,
           NEW c \in Commands, NEW st2, NEW rd2, NEW wr2,
           ValueTypes(tk, st, hm, en, pe, rd, wr),
           Core(tk, st, hm, en, pe, rd, wr),
           Released(st, hm, rd, wr, c, st2, rd2, wr2)
    PROVE  /\ Core(tk, st2, hm, en, pe, rd2, wr2)
           /\ mode[c] = "read" => rd[hm[c]] > 0
<1> DEFINE o == hm[c]
<1>1. /\ st[c] = "running" /\ st2[c] = "settled"
      /\ \A d \in Commands : d # c => st2[d] = st[d]
      /\ rd2[o] = IF mode[c] = "read" THEN rd[o] - 1 ELSE rd[o]
      /\ wr2[o] = IF mode[c] = "write" THEN FALSE ELSE wr[o]
      /\ \A p \in Commands : p # o => rd2[p] = rd[p] /\ wr2[p] = wr[p]
  BY DEF Released
<1>2. /\ mode \in [Commands -> {"read", "write"}]
      /\ wr \in [Commands -> BOOLEAN]
      /\ \A p \in Commands : /\ rd[p] \in Nat
                             /\ \A i \in 1..Len(pe[p]) : pe[p][i] \in Commands
      /\ \A t \in Sessions : en[t] = NoQueue \/ en[t] \in Commands
      /\ \A d \in Commands : hm[d] = NoQueue \/ hm[d] \in Commands
  BY DEF ValueTypes
<1>3. /\ Tickets(tk, st) /\ Homes(st, hm, en)
      /\ Lists(tk, st, hm, pe) /\ Slots(tk, st, hm, rd, wr)
  BY DEF Core
<1>4. /\ \A p \in Commands : wr[p] =>
           \E d \in Commands : Started(st, d) /\ hm[d] = p /\ mode[d] = "write"
      /\ \A d \in Commands :
           Started(st, d) /\ mode[d] = "write" => wr[hm[d]]
      /\ \A d, f \in Commands :
           d # f /\ Started(st, d) /\ Started(st, f) /\ hm[d] = hm[f]
             => mode[d] = "read" /\ mode[f] = "read"
      /\ \A p \in Commands :
           /\ IsFiniteSet(ActiveReads(st, hm, p))
           /\ rd[p] = Cardinality(ActiveReads(st, hm, p))
      /\ \A d, f \in Commands :
           Started(st, d) /\ st[f] = "pending" /\ hm[d] = hm[f]
             => tk[d] < tk[f]
  BY <1>3 DEF Slots
<1>5. o \in Commands /\ Started(st, c)
  BY <1>1, <1>3 DEF Homes, Unsettled, Started
<1> HIDE DEF o
<1>6. \A d \in Commands : Started(st2, d) <=> Started(st, d) /\ d # c
  BY <1>1 DEF Started
<1>7. Tickets(tk, st2)
  BY <1>1, <1>3 DEF Tickets
<1>8. Homes(st2, hm, en)
  <2>1. \A d \in Commands : Unsettled(st2, d) => Unsettled(st, d)
    BY <1>1 DEF Unsettled
  <2>2. \A d \in Commands : st[d] # "idle" => st2[d] # "idle"
    BY <1>1
  <2>3. \A t \in Sessions :
          en[t] # NoQueue => target[en[t]] = t /\ st2[en[t]] # "idle"
    BY <2>2, <1>2, <1>3 DEF Homes
  <2>4. \A d \in Commands : hm[d] # NoQueue => st2[hm[d]] # "idle"
    BY <2>2, <1>2, <1>3 DEF Homes
  <2>5. \A d \in Commands : Unsettled(st2, d) =>
          hm[d] \in Commands /\ hm[d] = en[target[d]]
    BY <2>1, <1>3 DEF Homes
  <2> QED
    BY <2>3, <2>4, <2>5 DEF Homes
<1>9. Lists(tk, st2, hm, pe)
  <2>1. \A d \in Commands : st2[d] = "pending" <=> st[d] = "pending"
    BY <1>1
  <2>2. \A p \in Commands : \A i \in 1..Len(pe[p]) :
          st2[pe[p][i]] = "pending" /\ hm[pe[p][i]] = p
    BY <2>1, <1>2, <1>3 DEF Lists
  <2>3. \A d \in Commands : st2[d] = "pending" =>
          \E i \in 1..Len(pe[hm[d]]) : pe[hm[d]][i] = d
    BY <2>1, <1>3 DEF Lists
  <2>4. \A p \in Commands : \A i, j \in 1..Len(pe[p]) :
          i < j => tk[pe[p][i]] < tk[pe[p][j]]
    BY <1>3 DEF Lists
  <2> QED
    BY <2>2, <2>3, <2>4 DEF Lists
<1>10. \A p \in Commands : wr2[p] =>
         \E d \in Commands : Started(st2, d) /\ hm[d] = p /\ mode[d] = "write"
  <2> SUFFICES ASSUME NEW p \in Commands, wr2[p]
               PROVE  \E d \in Commands :
                        Started(st2, d) /\ hm[d] = p /\ mode[d] = "write"
    OBVIOUS
  <2>1. wr[p] /\ (p = o => mode[c] # "write")
    BY <1>1
  <2>2. PICK d \in Commands : Started(st, d) /\ hm[d] = p /\ mode[d] = "write"
    BY <2>1, <1>4
  <2>3. d # c
    BY <2>1, <2>2 DEF o
  <2> QED
    BY <2>2, <2>3, <1>6
<1>11. \A d \in Commands : Started(st2, d) /\ mode[d] = "write" => wr2[hm[d]]
  <2> SUFFICES ASSUME NEW d \in Commands, Started(st2, d), mode[d] = "write"
               PROVE  wr2[hm[d]]
    OBVIOUS
  <2>1. d # c /\ Started(st, d) /\ wr[hm[d]]
    BY <1>4, <1>6
  <2>2. hm[d] # o
    BY <2>1, <1>4, <1>5 DEF o
  <2>3. hm[d] \in Commands
    BY <2>1, <1>3 DEF Homes, Unsettled, Started
  <2> QED
    BY <2>1, <2>2, <2>3, <1>1
<1>12. \A d, f \in Commands :
         d # f /\ Started(st2, d) /\ Started(st2, f) /\ hm[d] = hm[f]
           => mode[d] = "read" /\ mode[f] = "read"
  BY <1>4, <1>6
<1>13. \A d, f \in Commands :
         Started(st2, d) /\ st2[f] = "pending" /\ hm[d] = hm[f]
           => tk[d] < tk[f]
  BY <1>1, <1>4, <1>6
<1>14. /\ \A p \in Commands :
            /\ IsFiniteSet(ActiveReads(st2, hm, p))
            /\ rd2[p] = Cardinality(ActiveReads(st2, hm, p))
       /\ mode[c] = "read" => rd[o] > 0
  <2>1. ASSUME NEW p \in Commands, p # o \/ mode[c] # "read"
        PROVE  /\ IsFiniteSet(ActiveReads(st2, hm, p))
               /\ rd2[p] = Cardinality(ActiveReads(st2, hm, p))
    <3>1. ActiveReads(st2, hm, p) = ActiveReads(st, hm, p)
      BY <2>1, <1>6 DEF ActiveReads, o
    <3>2. rd2[p] = rd[p]
      BY <2>1, <1>1
    <3> QED
      BY <3>1, <3>2, <1>4
  <2>2. ASSUME mode[c] = "read"
        PROVE  /\ IsFiniteSet(ActiveReads(st2, hm, o))
               /\ rd2[o] = Cardinality(ActiveReads(st2, hm, o))
               /\ rd[o] > 0
    <3> DEFINE A == ActiveReads(st, hm, o)
    <3>1. ActiveReads(st2, hm, o) = A \ {c}
      BY <1>6 DEF ActiveReads
    <3>2. c \in A
      BY <2>2, <1>5 DEF ActiveReads, o
    <3>3. IsFiniteSet(A) /\ rd[o] = Cardinality(A) /\ rd[o] \in Nat
      BY <1>2, <1>4, <1>5
    <3> HIDE DEF A
    <3>4. IsFiniteSet(A \ {c}) /\ Cardinality(A \ {c}) = Cardinality(A) - 1
      BY <3>2, <3>3, FS_RemoveElement
    <3>5. IsFiniteSet(A \ {c}) => Cardinality(A \ {c}) \in Nat
      BY FS_CardinalityType
    <3> QED
      BY <2>2, <3>1, <3>3, <3>4, <3>5, <1>1
  <2> QED
    BY <2>1, <2>2
<1>15. Slots(tk, st2, hm, rd2, wr2)
  BY <1>10, <1>11, <1>12, <1>13, <1>14 DEF Slots
<1> QED
  BY <1>7, <1>8, <1>9, <1>14, <1>15 DEF Core, o

-----------------------------------------------------------------------------
(* The invariant is inductive.                                             *)

LEMMA InitEstablishesIInv == Init => IInv
<1> SUFFICES ASSUME Init
             PROVE  IInv
  OBVIOUS
<1>1. TypeOK
  BY DEF Init, TypeOK, Statuses, FRW!Modes
<1>2. \A c \in Commands : status[c] = "idle" /\ ticket[c] = 0 /\ home[c] = NoQueue
                          /\ pending[c] = <<>> /\ readers[c] = 0 /\ ~writer[c]
  BY DEF Init
<1>3. \A s \in Sessions : entry[s] = NoQueue
  BY DEF Init
<1>4. Lists(ticket, status, home, pending)
  BY <1>2 DEF Lists
<1>5. Slots(ticket, status, home, readers, writer)
  <2>1. \A o \in Commands : ActiveReads(status, home, o) = {}
    BY <1>2 DEF ActiveReads, Started
  <2> QED
    BY <1>2, <2>1, FS_EmptySet DEF Slots, Started
<1>6. Core(ticket, status, home, entry, pending, readers, writer)
  BY <1>2, <1>3, <1>4, <1>5 DEF Core, Tickets, Homes, Unsettled
<1>7. TicketBound
  BY <1>2, <1>1 DEF TicketBound, Init
<1> QED
  BY <1>1, <1>2, <1>3, <1>6, <1>7 DEF IInv, DrainedAt, EntryInUse

LEMMA EnqueueStep ==
    ASSUME IInv, NEW c \in Commands, Enqueue(c)
    PROVE  /\ IInv'
           /\ \A d \in Commands : status'[d] = "settled" <=> status[d] = "settled"
<1> DEFINE s == target[c]
           o == IF entry[s] = NoQueue THEN c ELSE entry[s]
           q == Append(pending[o], c)
           st == [status EXCEPT ![c] = "pending"]
           e == [entry EXCEPT ![s] = o]
           pe == [pending EXCEPT ![o] = q]
           rd == [readers EXCEPT ![o] = readers[o]]
           wr == [writer EXCEPT ![o] = writer[o]]
<1>1. /\ TypeOK /\ TicketBound
      /\ Core(ticket, status, home, entry, pending, readers, writer)
      /\ \A p \in Commands : DrainedAt(pending, readers, writer, p)
      /\ \A t \in Sessions : EntryInUse(status, entry, t)
  BY DEF IInv
<1>2. /\ status[c] = "idle"
      /\ lastTicket' = lastTicket + 1
      /\ ticket' = [ticket EXCEPT ![c] = lastTicket + 1]
      /\ home' = [home EXCEPT ![c] = o]
      /\ Drain(s, o, q, readers[o], writer[o], e, st)
      /\ mode' = mode /\ target' = target
  BY DEF Enqueue
<1>3. s \in Sessions /\ o \in Commands
  BY <1>1, NoQueueAssumption DEF TypeOK
<1>4. /\ q \in Seq(Commands) /\ Len(q) = Len(pending[o]) + 1
      /\ q[Len(pending[o]) + 1] = c
      /\ \A i \in 1..Len(pending[o]) : q[i] = pending[o][i]
  <2>1. pending[o] \in Seq(Commands)
    BY <1>1, <1>3 DEF TypeOK
  <2> QED
    BY <2>1, AppendProperties
<1>5. /\ pe \in [Commands -> Seq(Commands)]
      /\ pe[o] = q
      /\ \A p \in Commands \ {o} : pe[p] = pending[p]
  BY <1>1, <1>3, <1>4 DEF TypeOK
<1>6. rd = readers /\ wr = writer
  BY <1>1, <1>3 DEF TypeOK
<1>7. /\ st[c] = "pending" /\ \A d \in Commands \ {c} : st[d] = status[d]
      /\ e[s] = o /\ \A t \in Sessions \ {s} : e[t] = entry[t]
      /\ ticket'[c] = lastTicket + 1
      /\ \A d \in Commands \ {c} : ticket'[d] = ticket[d]
      /\ home'[c] = o /\ \A d \in Commands \ {c} : home'[d] = home[d]
  BY <1>1, <1>2, <1>3 DEF TypeOK
<1>8. lastTicket + 1 \in Nat /\ \A d \in Commands : ticket[d] < lastTicket + 1
  BY <1>1 DEF TypeOK, TicketBound
<1>9. ValueTypes(ticket, status, home, entry, pending, readers, writer)
  BY <1>1 DEF TypeOK, ValueTypes
<1>10. ValueTypes(ticket', st, home', e, pe, rd, wr)
  <2>1. ticket' \in [Commands -> Nat] /\ home' \in [Commands -> Commands \cup {NoQueue}]
    BY <1>1, <1>2, <1>3, <1>8 DEF TypeOK
  <2>2. st \in [Commands -> Statuses] /\ e \in [Sessions -> Commands \cup {NoQueue}]
    BY <1>1, <1>3 DEF TypeOK, Statuses
  <2> QED
    BY <2>1, <2>2, <1>5, <1>6, <1>9 DEF ValueTypes
<1>11. o = IF entry[s] = NoQueue THEN c ELSE entry[s]
  OBVIOUS
<1>12. \A t \in Sessions \ {s} : EntryInUse(st, e, t)
  BY <1>1, <1>2, <1>7 DEF EntryInUse, Unsettled
<1>13. \A d \in Commands : st[d] = "settled" <=> status[d] = "settled"
  BY <1>2, <1>7
<1>14. readers[o] \in Nat /\ writer[o] \in BOOLEAN
  BY <1>1, <1>3 DEF TypeOK
<1>15. /\ pe = [pending EXCEPT ![o] = q]
       /\ rd = [readers EXCEPT ![o] = readers[o]]
       /\ wr = [writer EXCEPT ![o] = writer[o]]
  OBVIOUS
<1> HIDE DEF o, q, st, e, pe, rd, wr
<1>16. Pushed(ticket, status, home, entry, pending, c, o, lastTicket + 1,
              ticket', st, home', e, pe)
  BY <1>2, <1>4, <1>5, <1>7, <1>8, <1>11 DEF Pushed
<1>17. Core(ticket', st, home', e, pe, rd, wr)
  BY <1>1, <1>3, <1>6, <1>9, <1>16, PushedCore
<1>a. DrainReady(s, o, q, readers[o], writer[o], ticket', st, home', e,
                 pe, rd, wr)
  BY <1>1, <1>7, <1>10, <1>12, <1>15, <1>17 DEF DrainReady
<1>18. /\ ValueTypes(ticket', status', home', entry', pending', readers', writer')
       /\ Core(ticket', status', home', entry', pending', readers', writer')
       /\ \A p \in Commands : DrainedAt(pending', readers', writer', p)
       /\ \A t \in Sessions : EntryInUse(status', entry', t)
       /\ SameFate(st, status')
  BY <1>1, <1>2, <1>3, <1>4, <1>14, <1>a, DrainCorrect
<1>19. TypeOK'
  BY <1>2, <1>8, <1>18 DEF TypeOK, ValueTypes
<1>20. TicketBound'
  BY <1>1, <1>2, <1>7 DEF TicketBound, TypeOK
<1>21. \A d \in Commands : status'[d] = "settled" <=> status[d] = "settled"
  BY <1>13, <1>18 DEF SameFate
<1>22. /\ Core(ticket, status, home, entry, pending, readers, writer)'
       /\ (\A p \in Commands : DrainedAt(pending, readers, writer, p))'
       /\ (\A t \in Sessions : EntryInUse(status, entry, t))'
  BY <1>2, <1>18 DEF Core, Tickets, Homes, Lists, Slots, DrainedAt, EntryInUse,
                     ActiveReads, Started, Unsettled
<1> QED
  BY <1>19, <1>20, <1>21, <1>22 DEF IInv

LEMMA CompleteStep ==
    ASSUME IInv, NEW c \in Commands, Complete(c)
    PROVE  /\ IInv'
           /\ \A d \in Commands :
                status'[d] = "settled" <=> status[d] = "settled" \/ d = c
<1> DEFINE s == target[c]
           o == home[c]
           q == pending[o]
           r == IF mode[c] = "read" THEN readers[o] - 1 ELSE readers[o]
           w == IF mode[c] = "write" THEN FALSE ELSE writer[o]
           st == [status EXCEPT ![c] = "settled"]
           pe == [pending EXCEPT ![o] = q]
           rd == [readers EXCEPT ![o] = r]
           wr == [writer EXCEPT ![o] = w]
<1>1. /\ TypeOK /\ TicketBound
      /\ Core(ticket, status, home, entry, pending, readers, writer)
      /\ \A p \in Commands : DrainedAt(pending, readers, writer, p)
      /\ \A t \in Sessions : EntryInUse(status, entry, t)
  BY DEF IInv
<1>2. /\ status[c] = "running"
      /\ Drain(s, o, q, r, w, entry, st)
      /\ ticket' = ticket /\ home' = home /\ lastTicket' = lastTicket
      /\ mode' = mode /\ target' = target
  BY DEF Complete
<1>3. s \in Sessions /\ o \in Commands /\ entry[s] = o
  BY <1>1, <1>2 DEF TypeOK, Core, Homes, Unsettled
<1>4. pe = pending /\ q \in Seq(Commands)
  BY <1>1, <1>3 DEF TypeOK
<1>5. /\ st[c] = "settled" /\ \A d \in Commands \ {c} : st[d] = status[d]
      /\ \A d \in Commands :
           st[d] = "settled" <=> status[d] = "settled" \/ d = c
      /\ st \in [Commands -> Statuses]
  BY <1>1, <1>2 DEF TypeOK, Statuses
<1>6. /\ rd[o] = r /\ wr[o] = w
      /\ \A p \in Commands \ {o} : rd[p] = readers[p] /\ wr[p] = writer[p]
      /\ readers[o] \in Nat /\ w \in BOOLEAN
  BY <1>1, <1>3 DEF TypeOK
<1>7. ValueTypes(ticket, status, home, entry, pending, readers, writer)
  BY <1>1 DEF TypeOK, ValueTypes
<1>8. Released(status, home, readers, writer, c, st, rd, wr)
  BY <1>2, <1>3, <1>5, <1>6 DEF Released
<1>9. \A t \in Sessions \ {s} : EntryInUse(st, entry, t)
  BY <1>1, <1>5 DEF EntryInUse, Unsettled
<1>10. /\ pe = [pending EXCEPT ![o] = q]
       /\ rd = [readers EXCEPT ![o] = r]
       /\ wr = [writer EXCEPT ![o] = w]
  OBVIOUS
<1>11. r = IF mode[c] = "read" THEN readers[o] - 1 ELSE readers[o]
  OBVIOUS
<1> HIDE DEF q, r, w, st, pe, rd, wr
<1>12. /\ Core(ticket, st, home, entry, pending, rd, wr)
       /\ mode[c] = "read" => readers[o] > 0
  BY <1>1, <1>7, <1>8, ReleasedCore
<1>13. r \in Nat
  BY <1>6, <1>11, <1>12
<1>14. ValueTypes(ticket, st, home, entry, pe, rd, wr)
  <2>1. rd \in [Commands -> Nat] /\ wr \in [Commands -> BOOLEAN]
    BY <1>1, <1>6, <1>10, <1>13 DEF TypeOK
  <2> QED
    BY <2>1, <1>4, <1>5, <1>7 DEF ValueTypes
<1> HIDE DEF o
<1>15. DrainReady(s, o, q, r, w, ticket, st, home, entry, pe, rd, wr)
  BY <1>1, <1>3, <1>4, <1>9, <1>10, <1>12, <1>14 DEF DrainReady
<1>16. /\ ValueTypes(ticket, status', home, entry', pending', readers', writer')
       /\ Core(ticket, status', home, entry', pending', readers', writer')
       /\ \A p \in Commands : DrainedAt(pending', readers', writer', p)
       /\ \A t \in Sessions : EntryInUse(status', entry', t)
       /\ SameFate(st, status')
  BY <1>1, <1>2, <1>3, <1>4, <1>6, <1>13, <1>15, DrainCorrect
<1>17. TypeOK'
  BY <1>1, <1>2, <1>16 DEF TypeOK, ValueTypes
<1>18. TicketBound'
  BY <1>1, <1>2 DEF TicketBound
<1>19. \A d \in Commands : status'[d] = "settled" <=> status[d] = "settled" \/ d = c
  BY <1>5, <1>16 DEF SameFate
<1>20. /\ Core(ticket, status, home, entry, pending, readers, writer)'
       /\ (\A p \in Commands : DrainedAt(pending, readers, writer, p))'
       /\ (\A t \in Sessions : EntryInUse(status, entry, t))'
  <2>1. /\ Core(ticket', status', home', entry', pending', readers', writer')
        /\ mode' = mode /\ target' = target
    BY <1>2, <1>16
  <2>2. Core(ticket, status, home, entry, pending, readers, writer)'
    BY <2>1 DEF Core, Tickets, Homes, Lists, Slots, ActiveReads, Started,
                Unsettled
  <2>3. /\ (\A p \in Commands : DrainedAt(pending, readers, writer, p))'
        /\ (\A t \in Sessions : EntryInUse(status, entry, t))'
    BY <2>1, <1>16 DEF DrainedAt, EntryInUse, Unsettled
  <2> QED
    BY <2>2, <2>3
<1> QED
  BY <1>17, <1>18, <1>19, <1>20 DEF IInv

LEMMA BeginStep ==
    ASSUME IInv, NEW c \in Commands, Begin(c)
    PROVE  /\ IInv'
           /\ \A d \in Commands : status'[d] = "settled" <=> status[d] = "settled"
<1>1. /\ TypeOK /\ TicketBound
      /\ Tickets(ticket, status)
      /\ Homes(status, home, entry)
      /\ Lists(ticket, status, home, pending)
      /\ Slots(ticket, status, home, readers, writer)
      /\ \A p \in Commands : DrainedAt(pending, readers, writer, p)
      /\ \A t \in Sessions : EntryInUse(status, entry, t)
  BY DEF IInv, Core
<1>2. /\ status[c] = "started" /\ status' = [status EXCEPT ![c] = "running"]
      /\ UNCHANGED <<mode, target, ticket, lastTicket, home, entry, pending,
                     readers, writer>>
  BY DEF Begin
<1>3. /\ status' \in [Commands -> Statuses]
      /\ status'[c] = "running"
      /\ \A d \in Commands \ {c} : status'[d] = status[d]
  BY <1>1, <1>2 DEF TypeOK, Statuses
<1>4. \A d \in Commands :
        /\ Started(status', d) <=> Started(status, d)
        /\ Unsettled(status', d) <=> Unsettled(status, d)
        /\ status'[d] = "idle" <=> status[d] = "idle"
        /\ status'[d] = "pending" <=> status[d] = "pending"
        /\ status'[d] = "settled" <=> status[d] = "settled"
  BY <1>2, <1>3 DEF Started, Unsettled
<1>5. /\ \A t \in Sessions : entry[t] = NoQueue \/ entry[t] \in Commands
      /\ \A d \in Commands : home[d] = NoQueue \/ home[d] \in Commands
      /\ \A p \in Commands : \A i \in 1..Len(pending[p]) :
           pending[p][i] \in Commands
  BY <1>1 DEF TypeOK
<1>6. TypeOK'
  BY <1>1, <1>2, <1>3 DEF TypeOK
<1>7. TicketBound'
  BY <1>1, <1>2 DEF TicketBound
<1>8. Tickets(ticket, status')
  BY <1>1, <1>4 DEF Tickets
<1>9. Homes(status', home, entry)
  <2>1. \A d \in Commands : Unsettled(status', d) =>
          home[d] \in Commands /\ home[d] = entry[target[d]]
    BY <1>1, <1>4 DEF Homes
  <2>2. \A s \in Sessions : entry[s] # NoQueue =>
          target[entry[s]] = s /\ status'[entry[s]] # "idle"
    BY <1>1, <1>4, <1>5 DEF Homes
  <2>3. \A d \in Commands : home[d] # NoQueue => status'[home[d]] # "idle"
    BY <1>1, <1>4, <1>5 DEF Homes
  <2> QED
    BY <2>1, <2>2, <2>3 DEF Homes
<1>10. Lists(ticket, status', home, pending)
  <2>1. \A o \in Commands : \A i \in 1..Len(pending[o]) :
          status'[pending[o][i]] = "pending" /\ home[pending[o][i]] = o
    BY <1>1, <1>4, <1>5 DEF Lists
  <2> QED
    BY <2>1, <1>1, <1>4 DEF Lists
<1>11. Slots(ticket, status', home, readers, writer)
  <2>1. \A o \in Commands :
          ActiveReads(status', home, o) = ActiveReads(status, home, o)
    BY <1>4 DEF ActiveReads
  <2> QED
    BY <2>1, <1>1, <1>4 DEF Slots
<1>12. \A t \in Sessions : EntryInUse(status', entry, t)
  BY <1>1, <1>4 DEF EntryInUse
<1>13. /\ Core(ticket, status, home, entry, pending, readers, writer)'
       /\ (\A p \in Commands : DrainedAt(pending, readers, writer, p))'
       /\ (\A t \in Sessions : EntryInUse(status, entry, t))'
  BY <1>1, <1>2, <1>8, <1>9, <1>10, <1>11, <1>12
     DEF Core, Tickets, Homes, Lists, Slots, DrainedAt, EntryInUse,
         ActiveReads, Started, Unsettled
<1> QED
  BY <1>4, <1>6, <1>7, <1>13 DEF IInv

LEMMA UnchangedStep ==
    ASSUME IInv, UNCHANGED vars
    PROVE  IInv'
<1>1. /\ mode' = mode /\ target' = target /\ ticket' = ticket
      /\ lastTicket' = lastTicket /\ status' = status /\ home' = home
      /\ entry' = entry /\ pending' = pending /\ readers' = readers
      /\ writer' = writer
  BY DEF vars
<1>2. TypeOK' /\ TicketBound'
  BY <1>1 DEF IInv, TypeOK, TicketBound
<1>3. Core(ticket, status, home, entry, pending, readers, writer)'
  BY <1>1 DEF IInv, Core, Tickets, Homes, Lists, Slots, ActiveReads, Started,
              Unsettled
<1>4. /\ (\A p \in Commands : DrainedAt(pending, readers, writer, p))'
      /\ (\A t \in Sessions : EntryInUse(status, entry, t))'
  BY <1>1 DEF IInv, DrainedAt, EntryInUse, Unsettled
<1> QED
  BY <1>2, <1>3, <1>4 DEF IInv

\* IInv holds in every reachable state.
LEMMA Invariance == SafeSpec => []IInv
<1>1. Init => IInv
  BY InitEstablishesIInv
<1>2. IInv /\ [Next]_vars => IInv'
  <2> SUFFICES ASSUME IInv, [Next]_vars
               PROVE  IInv'
    OBVIOUS
  <2>1. ASSUME NEW c \in Commands, Enqueue(c)
        PROVE  IInv'
    BY <2>1, EnqueueStep
  <2>2. ASSUME NEW c \in Commands, Begin(c)
        PROVE  IInv'
    BY <2>2, BeginStep
  <2>3. ASSUME NEW c \in Commands, Complete(c)
        PROVE  IInv'
    BY <2>3, CompleteStep
  <2>4. CASE Quiescent
    BY <2>4, UnchangedStep DEF Quiescent
  <2>5. CASE UNCHANGED vars
    BY <2>5, UnchangedStep
  <2> QED
    BY <2>1, <2>2, <2>3, <2>4, <2>5 DEF Next
<1> QED
  BY <1>1, <1>2, PTL DEF SafeSpec

-----------------------------------------------------------------------------
(* What the invariant says of the properties.                              *)

LEMMA InvariantGivesExclusion == IInv => MutualExclusion
<1> SUFFICES ASSUME IInv, NEW c \in Commands, NEW d \in Commands,
                    c # d, Active(c), Active(d), target[c] = target[d]
             PROVE  mode[c] = "read" /\ mode[d] = "read"
  BY DEF MutualExclusion
<1>1. Started(status, c) /\ Started(status, d)
  BY DEF Active, Started
<1>2. home[c] = home[d]
  BY <1>1 DEF IInv, Core, Homes, Started, Unsettled
<1> QED
  BY <1>1, <1>2 DEF IInv, Core, Slots

LEMMA InvariantGivesOneQueue == IInv => OneQueuePerSession
BY DEF IInv, Core, Homes, Unsettled, EntryInUse, OneQueuePerSession

LEMMA InvariantGivesExactGrants == IInv => GrantsAreExact
<1> SUFFICES ASSUME IInv, NEW c \in Commands
             PROVE  Active(c) <=> FRW!Granted(c)
  BY DEF GrantsAreExact
<1>1. /\ mode \in [Commands -> {"read", "write"}]
      /\ status \in [Commands -> Statuses]
      /\ \A d \in Commands : ticket[d] \in Nat
      /\ \A o \in Commands : /\ Len(pending[o]) \in Nat
                             /\ pending[o] # <<>> => Len(pending[o]) > 0
                             /\ \A i \in 1..Len(pending[o]) :
                                  pending[o][i] \in Commands
  BY DEF IInv, TypeOK
<1>2. /\ Tickets(ticket, status) /\ Homes(status, home, entry)
      /\ Lists(ticket, status, home, pending)
      /\ Slots(ticket, status, home, readers, writer)
      /\ \A o \in Commands : DrainedAt(pending, readers, writer, o)
  BY DEF IInv, Core
<1>3. \A d \in Commands : Unsettled(status, d) => target[home[d]] = target[d]
  <2> SUFFICES ASSUME NEW d \in Commands, Unsettled(status, d)
               PROVE  target[home[d]] = target[d]
    OBVIOUS
  <2>1. home[d] \in Commands /\ home[d] = entry[target[d]]
    BY <1>2 DEF Homes
  <2>2. target[d] \in Sessions
    BY DEF IInv, TypeOK
  <2> QED
    BY <2>1, <2>2, <1>2, NoQueueAssumption DEF Homes
<1>4. FRW!Granted(c) <=>
        /\ ticket[c] # 0
        /\ status[c] # "settled"
        /\ \A d \in Commands :
             (/\ ticket[d] # 0 /\ ticket[d] < ticket[c]
              /\ target[c] = target[d] /\ "write" \in {mode[c], mode[d]})
               => status[d] = "settled"
  BY DEF FRW!Granted, FRW!Arrived, FRW!Conflict
<1>5. ASSUME Active(c)
      PROVE  FRW!Granted(c)
  <2>1. Started(status, c) /\ ticket[c] # 0 /\ status[c] # "settled"
    BY <1>2, <1>5 DEF Active, Started, Tickets
  <2>2. ASSUME NEW d \in Commands, ticket[d] # 0, ticket[d] < ticket[c],
               target[c] = target[d], "write" \in {mode[c], mode[d]},
               status[d] # "settled"
        PROVE  FALSE
    <3>1. Unsettled(status, d) /\ d # c
      BY <2>2, <1>1, <1>2 DEF Tickets, Unsettled, Statuses
    <3>2. home[c] = home[d]
      BY <2>1, <2>2, <3>1, <1>2 DEF Homes, Started, Unsettled
    <3>3. CASE Started(status, d)
      BY <3>1, <3>2, <3>3, <2>1, <2>2, <1>2 DEF Slots
    <3>4. CASE status[d] = "pending"
      BY <3>2, <3>4, <2>1, <2>2, <1>1, <1>2 DEF Slots
    <3> QED
      BY <3>1, <3>3, <3>4 DEF Unsettled, Started
  <2> QED
    BY <2>1, <2>2, <1>4
<1>6. ASSUME FRW!Granted(c)
      PROVE  Active(c)
  <2> SUFFICES ASSUME status[c] = "pending"
               PROVE  FALSE
    BY <1>1, <1>2, <1>4, <1>6 DEF Active, Statuses, Tickets
  <2> DEFINE o == home[c]
  <2>1. o \in Commands /\ target[o] = target[c]
    BY <1>2, <1>3 DEF Homes, Unsettled
  <2>2. PICK i \in 1..Len(pending[o]) : pending[o][i] = c
    BY <1>2 DEF Lists
  <2>3. /\ Len(pending[o]) \in Nat /\ 1 \in 1..Len(pending[o])
        /\ pending[o] # <<>>
    <3>1. Len(<<>>) = 0
      OBVIOUS
    <3> QED
      BY <2>1, <2>2, <3>1, <1>1
  <2> DEFINE h == pending[o][1]
  <2>4. /\ h \in Commands /\ status[h] = "pending" /\ home[h] = o
        /\ ticket[h] # 0
    BY <2>1, <2>3, <1>1, <1>2 DEF Lists, Tickets
  <2>5. target[h] = target[c]
    BY <2>1, <2>4, <1>3 DEF Unsettled
  <2>6. \A d \in Commands : Started(status, d) /\ home[d] = o =>
          /\ ticket[d] < ticket[c] /\ ticket[d] # 0
          /\ target[d] = target[c] /\ status[d] # "settled"
    BY <2>1, <1>2, <1>3 DEF Slots, Tickets, Started, Unsettled
  <2>7. CASE writer[o]
    <3>1. PICK d \in Commands :
            Started(status, d) /\ home[d] = o /\ mode[d] = "write"
      BY <2>1, <2>7, <1>2 DEF Slots
    <3> QED
      BY <3>1, <2>6, <1>4, <1>6
  <2>8. CASE readers[o] > 0 /\ mode[h] = "write"
    <3>1. CASE h # c
      <4>1. i # 1 /\ 1 < i
        BY <3>1, <2>2, <2>3
      <4>2. ticket[h] < ticket[c]
        BY <4>1, <2>1, <2>2, <2>3, <1>2 DEF Lists
      <4> QED
        BY <4>2, <2>4, <2>5, <2>8, <1>4, <1>6
    <3>2. CASE h = c
      <4> DEFINE A == ActiveReads(status, home, o)
      <4>1. Cardinality(A) # 0
        BY <2>1, <2>8, <1>2 DEF Slots
      <4>2. A # {}
        <5> HIDE DEF A
        <5> QED
          BY <4>1, FS_EmptySet, Zenon
      <4>3. PICK d \in Commands : Started(status, d) /\ home[d] = o
        BY <4>2 DEF ActiveReads
      <4> QED
        BY <4>3, <3>2, <2>6, <2>8, <1>4, <1>6
    <3> QED
      BY <3>1, <3>2
  <2>9. writer[o] \/ (readers[o] > 0 /\ mode[h] = "write")
    BY <2>1, <2>3, <1>2 DEF DrainedAt
  <2> QED
    BY <2>7, <2>8, <2>9
<1> QED
  BY <1>5, <1>6

-----------------------------------------------------------------------------
(* The theorems.                                                           *)

\* Every variable keeps its type; activeReaders never goes below zero.
THEOREM TypeCorrect == SafeSpec => []TypeOK
<1>1. IInv => TypeOK
  BY DEF IInv
<1> QED
  BY <1>1, Invariance, PTL

\* A write of a session is active alone, for any number of clients, commands
\* and sessions.
THEOREM Exclusion == SafeSpec => []MutualExclusion
BY Invariance, InvariantGivesExclusion, PTL

\* A session's commands find one queue object, kept while and only while one
\* of them is unsettled.
THEOREM OneQueue == SafeSpec => []OneQueuePerSession
BY Invariance, InvariantGivesOneQueue, PTL

\* A command is active exactly when all conflicting commands that arrived
\* before it have settled: no overtaking, and no wakeup is lost.
THEOREM ExactGrants == SafeSpec => []GrantsAreExact
BY Invariance, InvariantGivesExactGrants, PTL

\* Every behaviour of the queue is one that FairReadersWriters allows.
THEOREM RefinesFairReadersWriters == SafeSpec => FRW!FSafeSpec
<1> DEFINE done == {c \in Commands : status[c] = "settled"}
<1>1. Init => FRW!FInit
  <2> SUFFICES ASSUME Init
               PROVE  FRW!FInit
    OBVIOUS
  <2>1. done = {}
    BY DEF Init
  <2> QED
    BY <2>1 DEF Init, FRW!FInit
<1>2. IInv /\ [Next]_vars => [FRW!FNext]_(FRW!frwVars)
  <2> SUFFICES ASSUME IInv, [Next]_vars
               PROVE  [FRW!FNext]_(FRW!frwVars)
    OBVIOUS
  <2>1. ASSUME NEW c \in Commands, Enqueue(c)
        PROVE  FRW!Arrive(c)
    <3>1. done' = done
      BY <2>1, EnqueueStep
    <3>2. ticket[c] = 0
      BY <2>1 DEF Enqueue, IInv, Core, Tickets
    <3> QED
      BY <2>1, <3>1, <3>2 DEF Enqueue, FRW!Arrive, FRW!Arrived
  <2>2. ASSUME NEW c \in Commands, Begin(c)
        PROVE  UNCHANGED FRW!frwVars
    <3>1. done' = done
      BY <2>2, BeginStep
    <3> QED
      BY <2>2, <3>1 DEF Begin, FRW!frwVars
  <2>3. ASSUME NEW c \in Commands, Complete(c)
        PROVE  FRW!Finish(c)
    <3>1. done' = done \cup {c}
      BY <2>3, CompleteStep
    <3>2. FRW!Granted(c)
      BY <2>3, InvariantGivesExactGrants DEF GrantsAreExact, Active, Complete
    <3> QED
      BY <2>3, <3>1, <3>2 DEF Complete, FRW!Finish
  <2>4. CASE UNCHANGED vars
    BY <2>4 DEF vars, FRW!frwVars
  <2> QED
    BY <2>1, <2>2, <2>3, <2>4 DEF Next, Quiescent, FRW!FNext
<1> QED
  BY <1>1, <1>2, Invariance, PTL DEF SafeSpec, FRW!FSafeSpec

=============================================================================
