------------------------------ MODULE Targets ------------------------------
(***************************************************************************)
(* How a client finds a Unity editor and attaches to it: list_targets and  *)
(* attach of src/tools/toolDispatcher.ts and the calls of the debugger     *)
(* extension's API that src/dependencyAdapter.ts validates.  A listing     *)
(* gives a client capabilities, one per editor; an attach spends one, and  *)
(* behind a gate it reuses the tracked session of the editor's workspace   *)
(* root or has the debugger extension start one.                           *)
(*                                                                         *)
(* The debugger extension is external: it answers when it likes, names     *)
(* editors of any root, and a session it starts is tracked some time       *)
(* before or after the answer that names it.  Trust, workspace roots,      *)
(* connections and sessions change between any two steps.  The gate is the *)
(* command queue with writers only, taken as what CommandQueue promises:   *)
(* one at a time, in order of arrival.                                     *)
(***************************************************************************)
EXTENDS Naturals, Sequences, FiniteSets

CONSTANTS Clients,  \* the connections, each of which has its own client state
          Calls,    \* calls of list_targets and attach, each made once
          Editors,  \* what a target identifier stands for
          Roots,    \* workspace roots
          RootOf,   \* the root of each editor's project
          Sessions, \* debug session objects
          TTL,      \* TARGET_CAPABILITY_TTL_MS, in ticks
          MaxTime,  \* bound on the clock
          None      \* undefined

ASSUME RootAssumption == RootOf \in [Editors -> Roots]
ASSUME TimeAssumption == TTL \in Nat \ {0} /\ MaxTime \in Nat
ASSUME NoneAssumption ==
    None \notin Clients \cup Calls \cup Editors \cup Roots \cup Sessions

VARIABLES clock,     \* Date.now()
          trusted,   \* workspace.isTrusted()
          roots,     \* workspace.roots()
          connected, \* the clients whose connection is up
          targets,   \* per client: the editors in ClientState.targets
          expires,   \* per client: its expiresAt
          operation, \* per client: ClientState.targetOperation
          selection, \* per client: the session of its selectionRef
          step,      \* per call: where its handler is
          client,    \* per call: who made it
          aborted,   \* the calls whose signal fired
          request,   \* per listing: the roots asked for, and when
          capability,\* per attach: the editor it spends, and until when
          gate,      \* the pending and running attaches
          session,   \* per session: what the registry knows of it
          place,     \* per session: its root
          maker,     \* per session: the attach that had it started
          told,      \* history, per listing: the editors it published
          latest,    \* history, per client: its newest listing
          spent      \* history, per attach: the listing its editor is from

worldVars == <<clock, trusted, roots, connected>>
clientVars == <<targets, expires, operation>>
sessionVars == <<session, place, maker>>
callVars == <<step, client, request, capability>>
vars == <<worldVars, clientVars, selection, callVars, aborted, gate,
          sessionVars, told, latest, spent>>

Init ==
    /\ clock = 0
    /\ trusted = TRUE /\ roots = Roots /\ connected = Clients
    /\ targets = [k \in Clients |-> {}]
    /\ expires = [k \in Clients |-> 0]
    /\ operation = [k \in Clients |-> None]
    /\ selection = [k \in Clients |-> None]
    /\ step = [c \in Calls |-> "idle"]
    /\ client = [c \in Calls |-> None]
    /\ aborted = {}
    /\ request = [c \in Calls |-> [roots |-> {}, at |-> 0]]
    /\ capability = [c \in Calls |-> [editor |-> None, until |-> 0]]
    /\ gate = <<>>
    /\ session = [s \in Sessions |-> "unborn"]
    /\ place = [s \in Sessions |-> None]
    /\ maker = [s \in Sessions |-> None]
    /\ told = [c \in Calls |-> {}]
    /\ latest = [k \in Clients |-> None]
    /\ spent = [c \in Calls |-> None]

-----------------------------------------------------------------------------
(* Helpers.                                                                *)

\* call and #assertRequestAuthorized
Authorized(c) == c \notin aborted /\ client[c] \in connected /\ trusted

\* #currentTargetWorkspaceRoot
RootIsOpen(c) == RootOf[capability[c].editor] \in roots

Tracked(r) == {s \in Sessions : session[s] = "tracked" /\ place[s] = r}

\* #matchingTrackedSessions
Matching(c) == Tracked(RootOf[capability[c].editor])

Goes(c, where) == step' = [step EXCEPT ![c] = where] /\ UNCHANGED aborted

\* The promise of the call settles; its signal means nothing any more.
Settle(c, how) ==
    /\ step' = [step EXCEPT ![c] = how]
    /\ aborted' = aborted \ {c}

\* The head of the gate settles and the next attach may run.
LeaveGate(c, how) == Settle(c, how) /\ gate' = Tail(gate)

-----------------------------------------------------------------------------
(* list_targets.                                                           *)

\* #listTargets up to the discovery: what the client had is void.
List(c, k) ==
    /\ step[c] = "idle" /\ k \in connected /\ trusted
    /\ Goes(c, "listing")
    /\ client' = [client EXCEPT ![c] = k]
    /\ request' = [request EXCEPT ![c] = [roots |-> roots, at |-> clock]]
    /\ targets' = [targets EXCEPT ![k] = {}]
    /\ operation' = [operation EXCEPT ![k] = c]
    /\ latest' = [latest EXCEPT ![k] = c]
    /\ UNCHANGED <<worldVars, expires, selection, capability, gate, sessionVars,
                   told, spent>>

\* Fault: a listing that a newer one has replaced is published all the same.
CurrentListingOfClient(c) == Authorized(c)

\* The listing is still the newest of a client that is still there.
CurrentListing(c) == Authorized(c) /\ operation[client[c]] = c

\* The rest of #listTargets.  The editors found are published if their root
\* was asked for and is still open; a result over the budget loses its tail.
Listed(c) ==
    LET k == client[c]
    IN  /\ step[c] = "listing"
        /\ CurrentListing(c)
        /\ \E found \in SUBSET Editors :
             LET allowed == {e \in found : RootOf[e] \in request[c].roots \cap roots}
             IN  \E published \in SUBSET allowed :
                   /\ targets' = [targets EXCEPT ![k] = published]
                   /\ told' = [told EXCEPT ![c] = published]
        /\ expires' = [expires EXCEPT ![k] = request[c].at + TTL]
        /\ operation' = [operation EXCEPT ![k] = None]
        /\ Settle(c, "done")
        /\ UNCHANGED <<worldVars, selection, client, request, capability, gate,
                       sessionVars, latest, spent>>

\* The discovery fails, names an editor twice, or is answered too late.
ListFails(c) ==
    /\ step[c] = "listing"
    /\ Settle(c, "failed")
    /\ UNCHANGED <<worldVars, clientVars, selection, client, request, capability,
                   gate, sessionVars, told, latest, spent>>

-----------------------------------------------------------------------------
(* attach.                                                                 *)

\* Fault: the capability outlives its use.
Keep(k, e) == targets

\* byTargetId.delete
Consume(k, e) == [targets EXCEPT ![k] = @ \ {e}]

\* #attach: the capability is spent before anything else is tried.
Attach(c, k) ==
    /\ step[c] = "idle" /\ k \in connected /\ trusted
    /\ client' = [client EXCEPT ![c] = k]
    /\ \/ /\ clock < expires[k]
          /\ \E e \in targets[k] :
               /\ targets' = Consume(k, e)
               /\ capability' = [capability EXCEPT ![c] =
                                   [editor |-> e, until |-> expires[k]]]
          /\ spent' = [spent EXCEPT ![c] = latest[k]]
          /\ Goes(c, "queued")
          /\ gate' = Append(gate, c)
       \/ /\ targets' = [targets EXCEPT ![k] = IF clock < expires[k] THEN @ ELSE {}]
          /\ Settle(c, "failed")
          /\ UNCHANGED <<capability, spent, gate>>
    /\ UNCHANGED <<worldVars, expires, operation, selection, request, sessionVars,
                   told, latest>>

\* What #attachUnderGate checks before it looks for a session.
StillGood(c) ==
    /\ Authorized(c) /\ RootIsOpen(c)
    /\ clock < capability[c].until

\* Fault: an attach begins although another awaits startAttach.
AnyQueued(c) == step[c] = "queued" /\ \E i \in DOMAIN gate : gate[i] = c

\* The queue runs the attach at the head of the gate.
Granted(c) == step[c] = "queued" /\ gate[1] = c

Select(c, s) == selection' = [selection EXCEPT ![client[c]] = s]

\* #attachUnderGate up to startAttach.
AttachRuns(c) ==
    /\ Granted(c)
    /\ \/ /\ ~StillGood(c) \/ Cardinality(Matching(c)) > 1
          /\ LeaveGate(c, "failed")
          /\ UNCHANGED selection
       \/ /\ StillGood(c)
          /\ \E s \in Matching(c) : Matching(c) = {s} /\ Select(c, s)
          /\ LeaveGate(c, "done")
       \/ /\ StillGood(c) /\ Matching(c) = {}
          /\ Goes(c, "starting")
          /\ UNCHANGED <<gate, selection>>
    /\ UNCHANGED <<worldVars, clientVars, client, request, capability, sessionVars,
                   told, latest, spent>>

\* Fault: nobody looks whether the root was closed meanwhile.
StartedForClient(c, s) == Authorized(c) /\ session[s] = "tracked"

\* What #attachUnderGate checks of the session that startAttach names.
StartedAndAllowed(c, s) ==
    Authorized(c) /\ RootIsOpen(c) /\ session[s] = "tracked"

\* startAttach is answered: with an error, or with the session it started.
Started(c) ==
    /\ step[c] = "starting"
    /\ \/ /\ LeaveGate(c, "failed")
          /\ UNCHANGED selection
       \/ \E s \in Sessions :
            /\ maker[s] = c
            /\ StartedAndAllowed(c, s)
            /\ Select(c, s)
            /\ LeaveGate(c, "done")
    /\ UNCHANGED <<worldVars, clientVars, client, request, capability, sessionVars,
                   told, latest, spent>>

-----------------------------------------------------------------------------
(* The debugger extension, the editor and the connections.                 *)

\* startAttach starts a session, which has no tracker yet.
Starts(c, s) ==
    /\ step[c] = "starting" /\ session[s] = "unborn"
    /\ \A t \in Sessions : maker[t] # c
    /\ session' = [session EXCEPT ![s] = "untracked"]
    /\ place' = [place EXCEPT ![s] = RootOf[capability[c].editor]]
    /\ maker' = [maker EXCEPT ![s] = c]
    /\ UNCHANGED <<worldVars, clientVars, selection, callVars, aborted, gate,
                   told, latest, spent>>

\* The user starts a session.
UserStarts(s, r) ==
    /\ session[s] = "unborn"
    /\ session' = [session EXCEPT ![s] = "untracked"]
    /\ place' = [place EXCEPT ![s] = r]
    /\ UNCHANGED <<worldVars, clientVars, selection, callVars, aborted, gate,
                   maker, told, latest, spent>>

\* Its tracker is created, or it ends; one that ends without a tracker is to
\* the dispatcher like one that never gets one.
SessionMoves(s) ==
    /\ \/ session[s] = "untracked" /\ session' = [session EXCEPT ![s] = "tracked"]
       \/ session[s] = "tracked" /\ session' = [session EXCEPT ![s] = "ended"]
    /\ UNCHANGED <<worldVars, clientVars, selection, callVars, aborted, gate,
                   place, maker, told, latest, spent>>

Tick ==
    /\ clock < MaxTime
    /\ clock' = clock + 1
    /\ UNCHANGED <<trusted, roots, connected, clientVars, selection, callVars,
                   aborted, gate, sessionVars, told, latest, spent>>

\* Trust is lost, or a root is closed.  What comes back later is as if it had
\* never gone: the code reads both afresh whenever it asks.
WorkspaceShrinks ==
    /\ \/ trusted /\ trusted' = FALSE /\ UNCHANGED roots
       \/ \E r \in roots : roots' = roots \ {r} /\ UNCHANGED trusted
    /\ UNCHANGED <<clock, connected, clientVars, selection, callVars, aborted,
                   gate, sessionVars, told, latest, spent>>

Abort(c) ==
    /\ step[c] \notin {"idle", "done", "failed"} /\ c \notin aborted
    /\ aborted' = aborted \cup {c}
    /\ UNCHANGED <<worldVars, clientVars, selection, callVars, gate,
                   sessionVars, told, latest, spent>>

\* onDisconnect
Disconnect(k) ==
    /\ k \in connected
    /\ connected' = connected \ {k}
    /\ targets' = [targets EXCEPT ![k] = {}]
    /\ operation' = [operation EXCEPT ![k] = None]
    /\ selection' = [selection EXCEPT ![k] = None]
    /\ UNCHANGED <<clock, trusted, roots, expires, callVars, aborted, gate,
                   sessionVars, told, latest, spent>>

Next ==
    \/ \E c \in Calls :
         \/ \E k \in Clients : List(c, k) \/ Attach(c, k)
         \/ Listed(c) \/ ListFails(c) \/ AttachRuns(c) \/ Started(c) \/ Abort(c)
         \/ \E s \in Sessions : Starts(c, s)
    \/ \E s \in Sessions : SessionMoves(s) \/ \E r \in Roots : UserStarts(s, r)
    \/ Tick \/ WorkspaceShrinks
    \/ \E k \in Clients : Disconnect(k)

Spec == Init /\ [][Next]_vars

-----------------------------------------------------------------------------
(* Properties.                                                             *)

TypeOK ==
    /\ clock \in 0..MaxTime /\ trusted \in BOOLEAN
    /\ roots \subseteq Roots /\ connected \subseteq Clients
    /\ targets \in [Clients -> SUBSET Editors]
    /\ expires \in [Clients -> Nat]
    /\ operation \in [Clients -> Calls \cup {None}]
    /\ selection \in [Clients -> Sessions \cup {None}]
    /\ step \in [Calls -> {"idle", "listing", "queued", "starting", "done",
                           "failed"}]
    /\ client \in [Calls -> Clients \cup {None}]
    /\ aborted \subseteq Calls
    /\ request \in [Calls -> [roots : SUBSET Roots, at : Nat]]
    /\ capability \in [Calls -> [editor : Editors \cup {None}, until : Nat]]
    /\ gate \in Seq(Calls)
    /\ session \in [Sessions -> {"unborn", "untracked", "tracked", "ended"}]
    /\ place \in [Sessions -> Roots \cup {None}]
    /\ maker \in [Sessions -> Calls \cup {None}]
    /\ told \in [Calls -> SUBSET Editors]
    /\ latest \in [Clients -> Calls \cup {None}]
    /\ spent \in [Calls -> Calls \cup {None}]

\* Variables keep their types, and the capabilities of a client are always
\* those of the newest listing it asked for, less what it has spent, with the
\* time of that listing; while a listing is under way it has none, whatever
\* older listings come to.
CapabilitiesAreTheLatest ==
    /\ TypeOK
    /\ \A k \in Clients : targets[k] # {} =>
         LET c == latest[k]
         IN  /\ c # None /\ client[c] = k /\ step[c] = "done"
             /\ targets[k] \subseteq told[c]
             /\ expires[k] = request[c].at + TTL

\* Whenever a session is started for a client, the client was told of that
\* editor less than the TTL ago, by a listing that asked for its root, no other
\* attach has spent the same capability, and client, trust and root are there.
StartsAreEarned ==
    [][\A c \in Calls : step[c] # "starting" /\ step'[c] = "starting" =>
         LET l == spent[c]
             e == capability[c].editor
         IN  /\ client[l] = client[c] /\ e \in told[l]
             /\ RootOf[e] \in request[l].roots \cap roots
             /\ clock < request[l].at + TTL
             /\ client[c] \in connected /\ trusted
             /\ \A d \in Calls \ {c} :
                  <<spent[d], capability[d].editor>> # <<l, e>>]_vars

\* However many clients attach at once, a root has at most one live session
\* that an attach started and reported: a second one can only come from an
\* attach that failed although its session lived.
OneSessionPerRoot ==
    \A r \in Roots :
      Cardinality({s \in Tracked(r) : maker[s] # None /\ step[maker[s]] = "done"}) <= 1

\* A client comes to a session only while it is connected and the workspace
\* trusted, and only to a tracked one, in a root that is open and that a
\* listing told the client of - although all of that may change while its
\* attach waits at the gate and for the session.
AttachedWhereAllowed ==
    [][\A k \in Clients : selection'[k] \notin {selection[k], None} =>
         LET s == selection'[k]
         IN  /\ k \in connected /\ trusted
             /\ session[s] = "tracked" /\ place[s] \in roots
             /\ \E l \in Calls : client[l] = k /\ place[s] \in {RootOf[e] : e \in told[l]}]_vars
=============================================================================
