------------------------- MODULE FairReadersWriters -------------------------
(***************************************************************************)
(* What a per-session command queue promises to every client that shares a *)
(* debug session: commands of one session are granted in arrival order,    *)
(* reads may run together, a write runs alone, sessions do not wait for    *)
(* one another, and a granted command is not kept waiting for ever.  How   *)
(* the promise is kept (map entries, counters, microtasks) is the business *)
(* of CommandQueue, which is shown to implement this specification.        *)
(***************************************************************************)
EXTENDS Naturals

CONSTANTS Commands,  \* the calls of read() and write()
          Sessions   \* the session identifiers they are addressed to

VARIABLES mode,       \* read or write, fixed by the method called
          target,     \* the session a command is addressed to
          ticket,     \* arrival number of a command, 0 before it arrives
          lastTicket, \* the last arrival number handed out
          settled     \* the commands whose promise is resolved or rejected

frwVars == <<mode, target, ticket, lastTicket, settled>>

Modes == {"read", "write"}

Arrived(c) == ticket[c] # 0

Conflict(c, d) ==
    /\ target[c] = target[d]
    /\ "write" \in {mode[c], mode[d]}

\* A command may run once every conflicting command that arrived before it
\* has settled.
Granted(c) ==
    /\ Arrived(c)
    /\ c \notin settled
    /\ \A d \in Commands :
         Arrived(d) /\ ticket[d] < ticket[c] /\ Conflict(c, d) => d \in settled

FInit ==
    /\ mode \in [Commands -> Modes]
    /\ target \in [Commands -> Sessions]
    /\ ticket = [c \in Commands |-> 0]
    /\ lastTicket = 0
    /\ settled = {}

Arrive(c) ==
    /\ ~Arrived(c)
    /\ lastTicket' = lastTicket + 1
    /\ ticket' = [ticket EXCEPT ![c] = lastTicket + 1]
    /\ UNCHANGED <<mode, target, settled>>

Finish(c) ==
    /\ Granted(c)
    /\ settled' = settled \cup {c}
    /\ UNCHANGED <<mode, target, ticket, lastTicket>>

FNext == \E c \in Commands : Arrive(c) \/ Finish(c)

FSafeSpec == FInit /\ [][FNext]_frwVars

\* A granted command finishes: operations end, and the queue loses no wakeup.
FSpec == FSafeSpec /\ \A c \in Commands : WF_frwVars(Finish(c))
=============================================================================
