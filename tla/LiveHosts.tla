------------------------------ MODULE LiveHosts ------------------------------
(***************************************************************************)
(* The directory of live hosts: every extension host with a trusted        *)
(* workspace keeps one record file fresh there (liveHostRegistration-      *)
(* Publisher.ts), prunes what dead hosts left, and withdraws its own       *)
(* record when it closes; bridges scan the directory for the one host of   *)
(* their workspace (liveHostRegistry.ts; the launcher's discovery.py makes *)
(* the same scan).                                                         *)
(*                                                                         *)
(* Hosts are processes: they crash, and their identifiers are used again.  *)
(* File operations others can see are steps of their own, and each may     *)
(* fail.  Time passes between any two steps: nothing bounds how late a     *)
(* heartbeat is.                                                           *)
(* All hosts are of one version and have the scanning client's workspace   *)
(* open; a record is read and judged without a heartbeat's time between.   *)
(***************************************************************************)
EXTENDS Naturals, FiniteSets

CONSTANTS Hosts,      \* extension hosts, that is, publishers; names of records
          None,       \* no record, no host
          StaleTicks, \* LIVE_HOST_STALE_MS, in heartbeats
          Scanning    \* bound: whether a client scans the directory

ASSUME StaleAssumption == StaleTicks \in Nat \ {0}
ASSUME ScanningAssumption == Scanning \in BOOLEAN
ASSUME NoneAssumption == None \notin Nat \cup Hosts

VARIABLES proc,     \* unborn, up, down, or down with its pid used by another
          record,   \* the directory: the age of each host's updatedAt
          pub,      \* #state
          timer,    \* the heartbeat timer is armed
          caller,   \* what awaits the reconciliation under way
          at,       \* where the reconciliation is
          names,    \* the names it has listed and not looked at
          doomed,   \* the record it is removing
          bridge,   \* #canonicalBridge: unknown, ok or failed
          stamp,    \* the age of the registration it is writing
          closing,  \* where close() is
          todo,     \* the scan: names listed and not read
          matches,  \* the scan: the records that match
          found,    \* the scan: none, scanning, or its outcome
          steady,   \* history: hosts current and readable since the listing
          stuck     \* history: hosts whose close() failed to remove the record

closeVars == <<closing, stuck>>
pubVars == <<pub, timer, caller, at, names, doomed, bridge, stamp, closeVars>>
scanVars == <<todo, matches, found>>
vars == <<proc, record, pubVars, scanVars, steady>>

Oldest == StaleTicks + 1

Init ==
    /\ proc = [h \in Hosts |-> "unborn"]
    /\ record = [h \in Hosts |-> None]
    /\ pub = [h \in Hosts |-> "idle"]
    /\ timer = [h \in Hosts |-> FALSE]
    /\ caller = [h \in Hosts |-> "none"]
    /\ at = [h \in Hosts |-> "rest"]
    /\ names = [h \in Hosts |-> {}]
    /\ doomed = [h \in Hosts |-> None]
    /\ bridge = [h \in Hosts |-> "unknown"]
    /\ stamp = [h \in Hosts |-> 0]
    /\ closing = [h \in Hosts |-> "none"]
    /\ todo = {} /\ matches = {} /\ found = "none"
    /\ steady = {} /\ stuck = {}

\* isProcessAlive, of the identifier in a host's record.
Alive(h) == proc[h] \in {"up", "reused"}

Stale(age) == age > StaleTicks

Published == {h \in Hosts : record[h] # None}

\* A record that #matches: not stale, and its owner's process exists.
Current(h) == record[h] # None /\ ~Stale(record[h]) /\ Alive(h)

-----------------------------------------------------------------------------
(* Time and processes.                                                     *)

Older(age) == IF age \in {None, Oldest} THEN age ELSE age + 1

Tick ==
    /\ record' = [h \in Hosts |-> Older(record[h])]
    /\ stamp' = [h \in Hosts |-> IF at[h] = "write" THEN Older(stamp[h])
                                 ELSE stamp[h]]
    /\ UNCHANGED <<proc, pub, timer, caller, at, names, doomed, bridge,
                   closeVars, scanVars>>

\* A host is activated and starts its publisher.
HostBegins(h) ==
    /\ proc[h] = "unborn"
    /\ proc' = [proc EXCEPT ![h] = "up"]
    /\ pub' = [pub EXCEPT ![h] = "started"]
    /\ caller' = [caller EXCEPT ![h] = "start"]
    /\ at' = [at EXCEPT ![h] = "open"]
    /\ UNCHANGED <<record, timer, names, doomed, bridge, stamp, closeVars,
                   scanVars>>

\* The process ends, in whatever it was doing, and its memory with it.
HostEnds(h) ==
    /\ proc[h] = "up"
    /\ proc' = [proc EXCEPT ![h] = "down"]
    /\ pub' = [pub EXCEPT ![h] = "idle"]
    /\ timer' = [timer EXCEPT ![h] = FALSE]
    /\ caller' = [caller EXCEPT ![h] = "none"]
    /\ at' = [at EXCEPT ![h] = "rest"]
    /\ names' = [names EXCEPT ![h] = {}]
    /\ doomed' = [doomed EXCEPT ![h] = None]
    /\ bridge' = [bridge EXCEPT ![h] = "unknown"]
    /\ stamp' = [stamp EXCEPT ![h] = 0]
    /\ closing' = [closing EXCEPT ![h] = "none"]
    /\ stuck' = stuck \ {h}
    /\ UNCHANGED <<record, scanVars>>

\* Another program's process gets the identifier of a dead host, or ends.
PidChangesHands(h) ==
    /\ \/ proc[h] = "down" /\ proc' = [proc EXCEPT ![h] = "reused"]
       \/ proc[h] = "reused" /\ proc' = [proc EXCEPT ![h] = "down"]
    /\ UNCHANGED <<record, pubVars, scanVars>>

-----------------------------------------------------------------------------
(* #reconcile.                                                             *)

Step(h, from, to) ==
    /\ proc[h] = "up" /\ at[h] = from
    /\ at' = [at EXCEPT ![h] = to]

\* rm of h's record.  Its failure is swallowed wherever it is called, by
\* #removeOwnedRecord and by the pruning alike.
Removal(h, succeeds) ==
    record' = IF succeeds THEN [record EXCEPT ![h] = None] ELSE record

\* What awaited the reconciliation goes on: with the next timer, or with
\* #removeOwnedRecord if it failed, which start() announces by its state.
Ends(h, from, ok) ==
    /\ Step(h, from, IF ok THEN "rest" ELSE "unpublish")
    /\ caller' = IF ok THEN [caller EXCEPT ![h] = "none"] ELSE caller
    /\ timer' = [timer EXCEPT ![h] = ok /\ pub[h] = "started"]
    /\ pub' = [pub EXCEPT ![h] = IF ~ok /\ caller[h] = "start"
                                 THEN "closing" ELSE @]

\* mkdir, then readdir: every name but the host's own, or no names if it
\* fails.
OpenDirectory(h) ==
    /\ \/ /\ Step(h, "open", "prune")
          /\ \E listed \in {Published \ {h}, {}} :
               names' = [names EXCEPT ![h] = listed]
          /\ UNCHANGED <<pub, timer, caller>>
       \/ Ends(h, "open", FALSE) /\ UNCHANGED names
    /\ UNCHANGED <<proc, record, doomed, bridge, stamp, closeVars, scanVars>>

\* Fault: a record is judged by its age alone.
CondemnedByAge(g) == record[g] # None /\ Stale(record[g])

Condemned(g) == record[g] # None /\ Stale(record[g]) /\ ~Alive(g)

\* One name is read and judged; what cannot be read is left alone.
Prune(h) ==
    /\ \E g \in names[h] :
         /\ names' = [names EXCEPT ![h] = @ \ {g}]
         /\ \/ /\ Condemned(g)
               /\ Step(h, "prune", "drop")
               /\ doomed' = [doomed EXCEPT ![h] = g]
            \/ Step(h, "prune", "prune") /\ UNCHANGED doomed
    /\ UNCHANGED <<proc, record, pub, timer, caller, bridge, stamp, closeVars,
                   scanVars>>

Drop(h) ==
    /\ Step(h, "drop", "prune")
    /\ \E succeeds \in BOOLEAN : Removal(doomed[h], succeeds)
    /\ doomed' = [doomed EXCEPT ![h] = None]
    /\ UNCHANGED <<proc, pub, timer, caller, names, bridge, stamp, closeVars,
                   scanVars>>

\* The workspace is looked at once the pruning is over: it is trusted and its
\* roots resolve, or not.
Look(h) ==
    /\ names[h] = {}
    /\ Step(h, "prune", "resolve") \/ Step(h, "prune", "withdraw")
    /\ UNCHANGED <<proc, record, pub, timer, caller, names, doomed, bridge,
                   stamp, closeVars, scanVars>>

\* #canonicalBridgePaths, asked once: the promise is kept, resolved or
\* rejected.  What is resolved is stamped and written.
Resolve(h) ==
    /\ \/ /\ bridge[h] # "failed"
          /\ Step(h, "resolve", "write")
          /\ bridge' = [bridge EXCEPT ![h] = "ok"]
          /\ UNCHANGED <<pub, timer, caller>>
       \/ /\ bridge[h] # "ok"
          /\ Ends(h, "resolve", FALSE)
          /\ bridge' = [bridge EXCEPT ![h] = "failed"]
    /\ UNCHANGED <<proc, record, names, doomed, stamp, closeVars, scanVars>>

\* Fault: the old record is removed before the new one is in its place.
ReplaceInPlace(h) ==
    /\ \/ /\ at[h] = "write" /\ record[h] # None
          /\ Step(h, "write", "write")
          /\ record' = [record EXCEPT ![h] = None]
          /\ UNCHANGED <<pub, timer, caller, stamp>>
       \/ /\ record[h] = None
          /\ Ends(h, "write", TRUE)
          /\ record' = [record EXCEPT ![h] = stamp[h]]
          /\ stamp' = [stamp EXCEPT ![h] = 0]
    /\ UNCHANGED <<proc, names, doomed, bridge, closeVars, scanVars>>

\* The temporary file is written, renamed to the record and, when it is not
\* there any more, removed: the rename may not happen, and a removal may fail
\* after it.
Replace(h) ==
    /\ \E renamed, tidied \in BOOLEAN :
         /\ Ends(h, "write", renamed /\ tidied)
         /\ record' = IF renamed THEN [record EXCEPT ![h] = stamp[h]]
                      ELSE record
    /\ stamp' = [stamp EXCEPT ![h] = 0]
    /\ UNCHANGED <<proc, names, doomed, bridge, closeVars, scanVars>>

\* An untrusted or rootless workspace: the record goes.
Withdraw(h) ==
    /\ Ends(h, "withdraw", TRUE)
    /\ \E succeeds \in BOOLEAN : Removal(h, succeeds)
    /\ UNCHANGED <<proc, names, doomed, bridge, stamp, closeVars, scanVars>>

-----------------------------------------------------------------------------
(* start() and #heartbeat around it, and close().                          *)

\* Fault: a failed heartbeat is the last one.
UnpublishForGood(h) ==
    /\ Step(h, "unpublish", "rest")
    /\ \E succeeds \in BOOLEAN : Removal(h, succeeds)
    /\ caller' = [caller EXCEPT ![h] = "none"]
    /\ pub' = [pub EXCEPT ![h] = IF caller[h] = "start" THEN "closed" ELSE @]
    /\ UNCHANGED <<proc, timer, names, doomed, bridge, stamp, closeVars,
                   scanVars>>

\* A failed reconciliation removes the record; a failed start ends the
\* publisher, a failed heartbeat waits for the next one.
Unpublish(h) ==
    /\ Step(h, "unpublish", "rest")
    /\ \E succeeds \in BOOLEAN : Removal(h, succeeds)
    /\ caller' = [caller EXCEPT ![h] = "none"]
    /\ pub' = [pub EXCEPT ![h] = IF caller[h] = "start" THEN "closed" ELSE @]
    /\ timer' = [timer EXCEPT ![h] = caller[h] = "heartbeat"
                                     /\ pub[h] = "started"]
    /\ UNCHANGED <<proc, names, doomed, bridge, stamp, closeVars, scanVars>>

Heartbeat(h) ==
    /\ timer[h]
    /\ Step(h, "rest", "open")
    /\ timer' = [timer EXCEPT ![h] = FALSE]
    /\ caller' = [caller EXCEPT ![h] = "heartbeat"]
    /\ UNCHANGED <<proc, record, pub, names, doomed, bridge, stamp, closeVars,
                   scanVars>>

\* Fault: close() leaves the timer armed.
CloseWithTimer(h) ==
    /\ proc[h] = "up" /\ closing[h] = "none"
    /\ closing' = [closing EXCEPT ![h] = "waiting"]
    /\ pub' = [pub EXCEPT ![h] = "closing"]
    /\ UNCHANGED <<proc, record, timer, caller, at, names, doomed, bridge,
                   stamp, stuck, scanVars>>

\* The first call of close(); later ones return the same promise.
Close(h) ==
    /\ proc[h] = "up" /\ closing[h] = "none"
    /\ closing' = [closing EXCEPT ![h] = "waiting"]
    /\ pub' = [pub EXCEPT ![h] = "closing"]
    /\ timer' = [timer EXCEPT ![h] = FALSE]
    /\ UNCHANGED <<proc, record, caller, at, names, doomed, bridge, stamp,
                   stuck, scanVars>>

\* Fault: close() does not wait for a reconciliation under way.
SettledAlways(h) == h \in Hosts

\* Fault: close() waits for a heartbeat to come.
SettledByTimer(h) == timer[h]

\* #operation is settled, though the removal after its failure may be not.
Settled(h) == at[h] \in {"rest", "unpublish"}

CloseRemoves(h) ==
    /\ proc[h] = "up" /\ closing[h] = "waiting"
    /\ Settled(h)
    /\ \E succeeds \in BOOLEAN :
         /\ Removal(h, succeeds)
         /\ stuck' = IF succeeds THEN stuck ELSE stuck \cup {h}
    /\ closing' = [closing EXCEPT ![h] = "done"]
    /\ pub' = [pub EXCEPT ![h] = "closed"]
    /\ UNCHANGED <<proc, timer, caller, at, names, doomed, bridge, stamp,
                   scanVars>>

Publisher(h) ==
    \/ OpenDirectory(h) \/ Prune(h) \/ Drop(h) \/ Look(h)
    \/ Resolve(h) \/ Replace(h) \/ Withdraw(h)
    \/ Unpublish(h) \/ Heartbeat(h) \/ CloseRemoves(h)

-----------------------------------------------------------------------------
(* locate() and discover().                                                *)

ScanBegins ==
    /\ Scanning /\ found # "scanning"
    /\ todo' = Published
    /\ found' = "scanning"
    /\ UNCHANGED <<proc, record, pubVars, matches>>

\* A record is read and matched; one that is gone, does not match or cannot
\* be read is passed over.
ScanReads(h, readable) ==
    /\ found = "scanning" /\ h \in todo
    /\ todo' = todo \ {h}
    /\ matches' = IF readable /\ Current(h) THEN matches \cup {h} ELSE matches
    /\ UNCHANGED <<proc, record, pubVars, found>>

ScanEnds ==
    /\ found = "scanning" /\ todo = {}
    /\ found' = IF matches = {} THEN "unavailable"
                ELSE IF Cardinality(matches) = 1 THEN "located"
                ELSE "ambiguous"
    /\ matches' = {}
    /\ UNCHANGED <<proc, record, pubVars, todo>>

-----------------------------------------------------------------------------
\* Current, or about to be again: its record is being replaced.
StaysCurrent(h) ==
    Current(h) \/ (Alive(h) /\ record[h] = None /\ at[h] = "write")

\* The history of the scan: who was current when it began, has been or was
\* about to be again ever since, and was not unreadable.
Watch(unread) ==
    steady' = IF found' # "scanning" THEN {}
              ELSE IF found = "scanning"
              THEN {h \in steady \ unread : StaysCurrent(h)'}
              ELSE {h \in Hosts : Current(h)}

Next ==
    \/ /\ \/ Tick
          \/ \E h \in Hosts :
               \/ HostBegins(h) \/ HostEnds(h) \/ PidChangesHands(h)
               \/ Publisher(h) \/ Close(h)
               \/ ScanReads(h, TRUE)
          \/ ScanBegins \/ ScanEnds
       /\ Watch({})
    \/ \E h \in Hosts : ScanReads(h, FALSE) /\ Watch({h})

SafeSpec == Init /\ [][Next]_vars

\* Time passes, file operations end and timers fire.  Processes need not end
\* and nobody need scan.
Progress ==
    /\ WF_vars(Tick /\ Watch({}))
    /\ \A h \in Hosts : WF_vars(Publisher(h) /\ Watch({}))

\* A directory listed for ever, a name read for ever and a file removed for ever
\* are not refused for ever.
PruningSucceeds ==
    \A h \in Hosts :
      /\ SF_vars(OpenDirectory(h) /\ names'[h] = Published \ {h}
                                  /\ at'[h] = "prune" /\ Watch({}))
      /\ SF_vars(Prune(h) /\ at'[h] = "drop" /\ Watch({}))
      /\ SF_vars(Drop(h) /\ record'[doomed[h]] = None /\ Watch({}))

\* Nor is a record written for ever, and the workspace is usable again and
\* again.
PublishingSucceeds ==
    \A h \in Hosts :
      /\ SF_vars(OpenDirectory(h) /\ at'[h] = "prune" /\ Watch({}))
      /\ SF_vars(Look(h) /\ at'[h] = "resolve" /\ Watch({}))
      /\ SF_vars(Resolve(h) /\ at'[h] = "write" /\ Watch({}))
      /\ SF_vars(Replace(h) /\ at'[h] = "rest" /\ Watch({}))

PruneSpec == SafeSpec /\ Progress /\ PruningSucceeds

PublishSpec == SafeSpec /\ Progress /\ PublishingSucceeds

-----------------------------------------------------------------------------
(* Properties.                                                             *)

\* The types, and the one heartbeat timer: it is armed only while a started
\* publisher is at rest, so two reconciliations of a host never overlap.
TypeOK ==
    /\ proc \in [Hosts -> {"unborn", "up", "down", "reused"}]
    /\ record \in [Hosts -> 0..Oldest \cup {None}]
    /\ pub \in [Hosts -> {"idle", "started", "closing", "closed"}]
    /\ timer \in [Hosts -> BOOLEAN]
    /\ \A h \in Hosts : timer[h] => at[h] = "rest" /\ pub[h] = "started"
    /\ caller \in [Hosts -> {"none", "start", "heartbeat"}]
    /\ at \in [Hosts -> {"rest", "open", "prune", "drop", "resolve", "write",
                         "withdraw", "unpublish"}]
    /\ names \in [Hosts -> SUBSET Hosts]
    /\ doomed \in [Hosts -> Hosts \cup {None}]
    /\ bridge \in [Hosts -> {"unknown", "ok", "failed"}]
    /\ stamp \in [Hosts -> 0..Oldest]
    /\ closing \in [Hosts -> {"none", "waiting", "done"}]
    /\ found \in {"none", "scanning", "unavailable", "located", "ambiguous"}
    /\ matches \subseteq Hosts /\ todo \subseteq Hosts
    /\ steady \subseteq Hosts /\ stuck \subseteq Hosts

\* From the step in which close() resolves, whatever reconciliation was under
\* way, had failed or was about to start, the record is gone; or close() could
\* not remove it, and then it only ages: no heartbeat freshens or restores it.
ClosedIsWithdrawn ==
    [][\A h \in Hosts : closing'[h] = "done" =>
         \/ record'[h] = None
         \/ h \in stuck' /\ record'[h] \in {record[h], Older(record[h])}]_vars

\* Nobody removes the record of a host that lives but the host itself: a late
\* heartbeat makes a record stale, never a host extinct.
PruneSparesTheLiving ==
    [][\A h \in Hosts : record[h] # None /\ record'[h] = None /\ proc[h] = "up"
         => at[h] \in {"withdraw", "unpublish"} \/ closing[h] = "waiting"]_vars

\* The outcome of a scan accounts for every host that was current from its
\* listing to its end: it reports none only if there was none, and settles on
\* one only if there were not two, although heartbeats replaced the records
\* while it read them.
SteadyHostsAreSeen ==
    [][found = "scanning" /\ found' # "scanning"
         => /\ found' = "unavailable" => steady = {}
            /\ found' = "located" => Cardinality(steady) <= 1]_vars

\* What a dead host left is removed, as long as another host goes on living
\* and the dead one's process identifier stays free.
DeadRecordsGo ==
    \A g, h \in Hosts :
      (/\ g # h
       /\ <>[](proc[h] = "up" /\ pub[h] = "started")
       /\ <>[](proc[g] = "down"))
        => <>(proc[g] = "down" /\ record[g] = None)

\* close() resolves, unless the process ends first.
CloseResolves ==
    \A h \in Hosts :
      closing[h] = "waiting" ~> closing[h] = "done" \/ proc[h] = "down"

\* What the tests and the design expect of a heartbeat that fails: a retry
\* that can succeed, whichever file operation it was that failed.
EveryFailureIsRetried ==
    \A h \in Hosts :
      <>[](proc[h] = "up" /\ pub[h] = "started") => []<>(record[h] # None)
=============================================================================
