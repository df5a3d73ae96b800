---------------------------- MODULE CommandQueue ----------------------------
(***************************************************************************)
(* SessionCommandQueue (src/debug/commandQueue.ts): the reader/writer      *)
(* scheduler between the tool dispatcher and the debug sessions.           *)
(*                                                                         *)
(* A session's queue state is an object made by the first command that     *)
(* finds no map entry; it is named here by that command, so that an entry  *)
(* deleted too early would show as two objects for one session.  Every     *)
(* operation of a command ends in finite time or never; a command that     *)
(* throws takes the same path as one that returns.                         *)
(***************************************************************************)
EXTENDS Naturals, Sequences, FiniteSets

CONSTANTS Commands,  \* the calls of read() and write()
          Sessions,  \* the session identifiers they are addressed to
          NoQueue    \* "the map holds no entry for this session"

ASSUME NoQueueAssumption == NoQueue \notin Commands

VARIABLES mode,       \* read or write, fixed by the method called
          target,     \* the session a command is addressed to
          ticket,     \* history: arrival number of a command, 0 before
          lastTicket, \* history: the last arrival number handed out
          status,     \* where a command is on its way to settling
          home,       \* the queue object a command was pushed to
          entry,      \* #sessions: the queue object of each session
          pending,    \* per queue object: the commands not yet started
          readers,    \* per queue object: activeReaders
          writer      \* per queue object: activeWriter

history == <<mode, target, ticket, lastTicket>>
vars == <<mode, target, ticket, lastTicket, status, home, entry, pending,
          readers, writer>>

FRW == INSTANCE FairReadersWriters
         WITH settled <- {c \in Commands : status[c] = "settled"}

\* "started": counted as active, its operation still a queued microtask.
Statuses == {"idle", "pending", "started", "running", "settled"}

Active(c) == status[c] \in {"started", "running"}

Init ==
    /\ mode \in [Commands -> FRW!Modes]
    /\ target \in [Commands -> Sessions]
    /\ ticket = [c \in Commands |-> 0]
    /\ lastTicket = 0
    /\ status = [c \in Commands |-> "idle"]
    /\ home = [c \in Commands |-> NoQueue]
    /\ entry = [s \in Sessions |-> NoQueue]
    /\ pending = [c \in Commands |-> <<>>]
    /\ readers = [c \in Commands |-> 0]
    /\ writer = [c \in Commands |-> FALSE]

-----------------------------------------------------------------------------
(* #drain.  The caller passes what it has just changed: the pending list q,*)
(* the reader count r and the writer flag w of object o, the map e and the *)
(* statuses st.                                                            *)

\* Fault: an if where the code loops.
AtMostOneRead(q, k) ==
    /\ k <= 1
    /\ \A i \in 1..k : mode[q[i]] = "read"
    /\ k = 0 /\ q # <<>> => mode[q[1]] = "write"

\* The first k commands of q are reads and the next one, if any, is not.
LeadingReads(q, k) ==
    /\ \A i \in 1..k : mode[q[i]] = "read"
    /\ k < Len(q) => mode[q[k + 1]] = "write"

FirstOf(q, k) == {q[i] : i \in 1..k}

\* while (pending[0]?.mode === "read") startRead(pending.shift())
StartReads(o, q, r, st) ==
    \E k \in 0..Len(q) :
      /\ LeadingReads(q, k)
      /\ pending' = [pending EXCEPT ![o] = SubSeq(q, k + 1, Len(q))]
      /\ readers' = [readers EXCEPT ![o] = r + k]
      /\ writer' = [writer EXCEPT ![o] = FALSE]
      /\ status' = [c \in Commands |->
                      IF c \in FirstOf(q, k) THEN "started" ELSE st[c]]

StartWrite(o, q, r, st) ==
    /\ pending' = [pending EXCEPT ![o] = Tail(q)]
    /\ readers' = [readers EXCEPT ![o] = r]
    /\ writer' = [writer EXCEPT ![o] = TRUE]
    /\ status' = [st EXCEPT ![Head(q)] = "started"]

\* Nothing to start: store what the caller changed.
StartNothing(o, q, r, w, st) ==
    /\ pending' = [pending EXCEPT ![o] = q]
    /\ readers' = [readers EXCEPT ![o] = r]
    /\ writer' = [writer EXCEPT ![o] = w]
    /\ status' = st

Drain(s, o, q, r, w, e, st) ==
    \/ /\ w
       /\ StartNothing(o, q, r, w, st)
       /\ entry' = e
    \/ /\ ~w /\ r > 0
       /\ StartReads(o, q, r, st)
       /\ entry' = e
    \/ /\ ~w /\ ~(r > 0) /\ q = <<>>
       /\ StartNothing(o, q, r, w, st)
       /\ entry' = IF e[s] = o THEN [e EXCEPT ![s] = NoQueue] ELSE e
    \/ /\ ~w /\ ~(r > 0) /\ q # <<>> /\ mode[Head(q)] = "write"
       /\ StartWrite(o, q, r, st)
       /\ entry' = e
    \/ /\ ~w /\ ~(r > 0) /\ q # <<>> /\ mode[Head(q)] = "read"
       /\ StartReads(o, q, r, st)
       /\ entry' = e

-----------------------------------------------------------------------------
\* Fault: the command goes to the front of the pending list.
EnqueueAtFront(c) ==
    LET s == target[c]
        o == IF entry[s] = NoQueue THEN c ELSE entry[s]
    IN  /\ status[c] = "idle"
        /\ lastTicket' = lastTicket + 1
        /\ ticket' = [ticket EXCEPT ![c] = lastTicket + 1]
        /\ home' = [home EXCEPT ![c] = o]
        /\ Drain(s, o, <<c>> \o pending[o], readers[o], writer[o],
                 [entry EXCEPT ![s] = o], [status EXCEPT ![c] = "pending"])
        /\ UNCHANGED <<mode, target>>

(* read() and write(): find or make the session's queue object, push the   *)
(* command, drain.                                                         *)
Enqueue(c) ==
    LET s == target[c]
        o == IF entry[s] = NoQueue THEN c ELSE entry[s]
    IN  /\ status[c] = "idle"
        /\ lastTicket' = lastTicket + 1
        /\ ticket' = [ticket EXCEPT ![c] = lastTicket + 1]
        /\ home' = [home EXCEPT ![c] = o]
        /\ Drain(s, o, Append(pending[o], c), readers[o], writer[o],
                 [entry EXCEPT ![s] = o], [status EXCEPT ![c] = "pending"])
        /\ UNCHANGED <<mode, target>>

\* The microtask queued by #run calls the command's operation.
Begin(c) ==
    /\ status[c] = "started"
    /\ status' = [status EXCEPT ![c] = "running"]
    /\ UNCHANGED <<mode, target, ticket, lastTicket, home, entry, pending,
                   readers, writer>>

\* Fault: the map entry goes as soon as nothing is pending.
CompleteForgetsEarly(c) ==
    LET o == home[c]
        e == IF pending[o] = <<>> THEN [entry EXCEPT ![target[c]] = NoQueue]
             ELSE entry
    IN  /\ status[c] = "running"
        /\ Drain(target[c], o, pending[o],
                 IF mode[c] = "read" THEN readers[o] - 1 ELSE readers[o],
                 IF mode[c] = "write" THEN FALSE ELSE writer[o],
                 e, [status EXCEPT ![c] = "settled"])
        /\ UNCHANGED <<mode, target, ticket, lastTicket, home>>

\* The operation has ended: complete() gives up the slot and drains, and the
\* caller's promise is resolved or rejected.
Complete(c) ==
    LET o == home[c]
    IN  /\ status[c] = "running"
        /\ Drain(target[c], o, pending[o],
                 IF mode[c] = "read" THEN readers[o] - 1 ELSE readers[o],
                 IF mode[c] = "write" THEN FALSE ELSE writer[o],
                 entry, [status EXCEPT ![c] = "settled"])
        /\ UNCHANGED <<mode, target, ticket, lastTicket, home>>

\* The only place where the system may rest for good.
Quiescent ==
    /\ \A c \in Commands : status[c] = "settled"
    /\ UNCHANGED vars

Next ==
    \/ \E c \in Commands : Enqueue(c) \/ Begin(c) \/ Complete(c)
    \/ Quiescent

SafeSpec == Init /\ [][Next]_vars

\* Microtasks run and operations end; clients need not call.
Fairness == \A c \in Commands : WF_vars(Begin(c)) /\ WF_vars(Complete(c))

Spec == SafeSpec /\ Fairness

-----------------------------------------------------------------------------
(* Properties.                                                             *)

\* Types; the reader count of no queue object goes below zero.
TypeOK ==
    /\ mode \in [Commands -> {"read", "write"}]
    /\ target \in [Commands -> Sessions]
    /\ ticket \in [Commands -> Nat]
    /\ lastTicket \in Nat
    /\ status \in [Commands -> Statuses]
    /\ home \in [Commands -> Commands \cup {NoQueue}]
    /\ entry \in [Sessions -> Commands \cup {NoQueue}]
    /\ pending \in [Commands -> Seq(Commands)]
    /\ readers \in [Commands -> Nat]
    /\ writer \in [Commands -> BOOLEAN]

\* While a write of a session is active, no other command of the session is:
\* an inspection never overlaps a continue, step, pause or explicit evaluation
\* of another client.
MutualExclusion ==
    \A c, d \in Commands :
      (c # d /\ Active(c) /\ Active(d) /\ target[c] = target[d])
        => mode[c] = "read" /\ mode[d] = "read"

\* A command has been started exactly when every conflicting command that
\* arrived before it has settled.  Left to right: no read overtakes a waiting
\* write and writes keep their order.  Right to left: no command that could
\* run is left waiting when the code returns to the event loop.
GrantsAreExact ==
    \A c \in Commands : Active(c) <=> FRW!Granted(c)

\* The map forgets a session's queue object exactly when none of its commands
\* is unsettled, so two queue objects never serve one session.
OneQueuePerSession ==
    /\ \A c \in Commands :
         status[c] \in {"pending", "started", "running"}
           => home[c] = entry[target[c]]
    /\ \A s \in Sessions :
         entry[s] # NoQueue =>
           \E c \in Commands :
             target[c] = s /\ status[c] \in {"pending", "started", "running"}

\* The queue implements the fair reader/writer promise, wakeups included.
ImplementsFairReadersWriters == FRW!FSpec
=============================================================================
