----------------------------- MODULE Activation -----------------------------
(***************************************************************************)
(* How the extension comes up and goes down: activateWithDependencies,     *)
(* deactivate and disposeResources of src/extension.ts, with the pipe      *)
(* server of src/bridge/bridgeHost.ts (listen, close) and the debugger     *)
(* extension's activation in src/dependencyAdapter.ts.  The publisher of   *)
(* the live host record appears as what it does to the record (LiveHosts   *)
(* has the rest), the host's connections as a cleanup that ends.           *)
(*                                                                         *)
(* Node's server and VS Code are external: a server that was asked to      *)
(* listen does, fails or closes; it may fail later; VS Code may dispose    *)
(* the subscriptions as soon as it has called deactivate.  Neither         *)
(* publisher.close nor host.close is ever rejected, by the code of both:   *)
(* the publisher swallows a failure to remove its record.                  *)
(***************************************************************************)
EXTENDS Naturals

CONSTANTS Hooks,     \* how many lifecycle hooks activation registers
          Disposers  \* callers of the runtime's dispose

ASSUME HooksAssumption == Hooks \in Nat \ {0}

\* The catch block of activateWithDependencies, which disposes too.
Undo == "undo"
ASSUME DisposersAssumption == Undo \notin Disposers /\ "nobody" \notin Disposers
Callers == Disposers \cup {Undo}

VARIABLES phase,      \* where activateWithDependencies is
          hooks,      \* lifecycleDisposables not yet disposed
          provider,   \* providerDisposable
          host,       \* BridgeHost.#state, "none" before there is a host
          server,     \* its net server
          publisher,  \* LiveHostRegistrationPublisher.#state
          recorded,   \* the record of this host is in the registry directory
          closingPublisher, \* publisherCloseOperation
          closingHost,      \* closeOperation
          first,      \* who found disposed unset, "nobody" if it still is
          waiting,    \* per caller of dispose: what it awaits
          failure,    \* a dispose of the provider or of a hook threw
          subscriptions, \* context.subscriptions
          broken,     \* history: the server failed after it had listened
          unremoved   \* history: publisher.close could not remove the record

hostVars == <<host, server>>
recordVars == <<recorded, unremoved>>
publisherVars == <<publisher, recordVars>>
disposalVars == <<provider, hooks, closingPublisher, closingHost, failure>>
activationVars == <<phase, hostVars, publisherVars, disposalVars, first,
                    waiting, subscriptions, broken>>

ActivationInit ==
    /\ phase = "idle" /\ hooks = 0 /\ provider = "none"
    /\ host = "none" /\ server = "none"
    /\ publisher = "none" /\ recorded = FALSE
    /\ closingPublisher = "undefined" /\ closingHost = "undefined"
    /\ first = "nobody" /\ waiting = [d \in Callers |-> "none"]
    /\ failure = FALSE /\ subscriptions = "empty"
    /\ broken = FALSE /\ unremoved = FALSE

-----------------------------------------------------------------------------
(* Disposal.                                                               *)

\* providerDisposable?.dispose(), behind onceDisposable.
DisposeProvider == provider' = IF provider = "registered" THEN "disposed" ELSE provider

\* closePublisher: the first call closes it, the others get its promise.
ClosePublisher ==
    IF closingPublisher # "undefined" THEN UNCHANGED <<closingPublisher, publisher>>
    ELSE IF publisher = "none"
    THEN closingPublisher' = "done" /\ UNCHANGED publisher
    ELSE closingPublisher' = "pending" /\ publisher' = "closing"

\* BridgeHost.close: a close under way is joined.
HostClose ==
    IF host = "closed" THEN closingHost' = "done" /\ UNCHANGED host
    ELSE closingHost' = "pending" /\ host' = "closing"

\* closeBridge: the same for the host.
CloseBridge ==
    IF closingHost # "undefined" THEN UNCHANGED <<closingHost, host>>
    ELSE IF host = "none" THEN closingHost' = "done" /\ UNCHANGED host
    ELSE HostClose

DisposeFirst(d) ==
    /\ first' = d
    /\ DisposeProvider /\ ClosePublisher
    /\ failure' \in {FALSE, provider = "registered"}

\* Fault: a second caller is answered at once.
BeginDisposalOnce(d) ==
    /\ UNCHANGED <<closingHost, host>>
    /\ \/ /\ first = "nobody" /\ DisposeFirst(d)
          /\ waiting' = [waiting EXCEPT ![d] = "publisher"]
       \/ /\ first # "nobody"
          /\ waiting' = [waiting EXCEPT ![d] = "resolved"]
          /\ UNCHANGED <<first, provider, closingPublisher, publisher, failure>>

\* disposeResources up to its first await.
BeginDisposal(d) ==
    /\ waiting' = [waiting EXCEPT ![d] = "publisher"]
    /\ UNCHANGED <<closingHost, host>>
    /\ \/ first = "nobody" /\ DisposeFirst(d)
       \/ /\ first # "nobody"
          /\ UNCHANGED <<first, provider, closingPublisher, publisher, failure>>

\* Fault: nobody waits for the record to be withdrawn.
PublisherAsked == closingPublisher # "undefined"

\* The promise of closePublisher is settled.
PublisherDown == closingPublisher = "done"

\* The publisher is closed.  The first caller goes on before the others,
\* whose continuations were registered after its own.
PublisherAwaited(d) ==
    /\ waiting[d] = "publisher" /\ PublisherDown
    /\ d # first => waiting[first] # "publisher"
    /\ waiting' = [waiting EXCEPT ![d] = "host"]
    /\ IF d = first THEN CloseBridge ELSE UNCHANGED <<closingHost, host>>
    /\ UNCHANGED <<phase, server, publisherVars, provider, hooks,
                   closingPublisher, failure, first, subscriptions, broken>>

\* The host is closed: the first caller disposes what hooks are left.
HostAwaited(d) ==
    /\ waiting[d] = "host" /\ closingHost = "done"
    /\ d # first => waiting[first] # "host"
    /\ IF d = first
       THEN /\ hooks' = 0
            /\ failure' \in {failure, failure \/ hooks > 0}
            /\ phase' = IF d = Undo THEN "failed" ELSE phase
       ELSE UNCHANGED <<hooks, failure, phase>>
    /\ waiting' = [waiting EXCEPT ![d] =
                     IF d = first /\ failure' THEN "rejected" ELSE "resolved"]
    /\ UNCHANGED <<hostVars, publisherVars, provider, closingPublisher,
                   closingHost, first, subscriptions, broken>>

\* deactivate, or another caller of the runtime's dispose.
Dispose(d) ==
    /\ phase = "active" /\ waiting[d] = "none"
    /\ BeginDisposal(d)
    /\ UNCHANGED <<phase, server, recordVars, hooks, subscriptions, broken>>

\* VS Code disposes the subscriptions in their order, without awaiting
\* deactivate, which it has called before.
DisposeSubscriptions ==
    /\ subscriptions = "held" /\ first # "nobody"
    /\ subscriptions' = "disposed"
    /\ DisposeProvider /\ ClosePublisher /\ CloseBridge
    /\ hooks' = 0
    /\ UNCHANGED <<phase, server, recordVars, failure, first, waiting, broken>>

-----------------------------------------------------------------------------
(* Activation.                                                             *)

\* Fault: the catch block disposes of nothing.
FailUndisposed ==
    /\ phase' = "undoing"
    /\ UNCHANGED <<waiting, closingHost, host, first, provider, closingPublisher,
                   publisher, failure>>

\* What activation does when it fails after the debugger's activation.
Fail == phase' = "undoing" /\ BeginDisposal(Undo)

Goes(to) ==
    /\ phase' = to
    /\ UNCHANGED <<first, waiting, provider, closingPublisher, closingHost, failure>>

\* validateHost
Validate ==
    /\ phase = "idle"
    /\ \/ Goes("dependency") \/ Goes("failed")
    /\ UNCHANGED <<hostVars, publisherVars, hooks, subscriptions, broken>>

\* The debugger extension has no valid API, or its activation fails.
DependencyFails ==
    /\ phase = "dependency"
    /\ Goes("failed")
    /\ UNCHANGED <<hostVars, publisherVars, hooks, subscriptions, broken>>

\* #activateOnce succeeded: the hooks are registered, one after the other,
\* and then the host is made and asked to listen.
Register ==
    /\ phase = "dependency"
    /\ \/ /\ hooks' \in 0..Hooks
          /\ Fail
          /\ UNCHANGED server
       \/ /\ hooks' = Hooks /\ host' = "listening" /\ server' = "opening"
          /\ Goes("listening") /\ UNCHANGED publisher
    /\ UNCHANGED <<recordVars, subscriptions, broken>>

\* onListening, and then the integrity of the packaged bridge is verified.
Listening ==
    /\ server = "opening"
    /\ server' = "up" /\ host' = "open"
    /\ Goes("creating")
    /\ UNCHANGED <<publisherVars, hooks, subscriptions, broken>>

\* onError, onStartupClose, or createServer or listen throws: the host is
\* closed already when activation hears of it.
ListenFails ==
    /\ server = "opening"
    /\ server' = "down" /\ host' = "closed"
    /\ phase' = "undoing"
    /\ waiting' = [waiting EXCEPT ![Undo] = "publisher"]
    /\ first' = Undo
    /\ ClosePublisher
    /\ UNCHANGED <<recordVars, provider, hooks, closingHost, failure, subscriptions,
                   broken>>

\* createLiveHostRegistrationPublisher succeeds and the publisher is started,
\* or it fails.
Create ==
    /\ phase = "creating"
    /\ \/ publisher' = "started" /\ Goes("starting") /\ UNCHANGED host
       \/ Fail
    /\ UNCHANGED <<server, recordVars, hooks, subscriptions, broken>>

\* publisher.start fails: it has tried to take its record back.
StartFails ==
    /\ phase = "starting"
    /\ recorded' \in {FALSE, recorded}
    /\ Fail
    /\ UNCHANGED <<server, hooks, subscriptions, broken, unremoved>>

\* publisher.start succeeds, with or without a record; the provider is
\* registered, or that fails.
Started ==
    /\ phase = "starting"
    /\ \/ /\ provider' = "registered" /\ subscriptions' = "held"
          /\ phase' = "active"
          /\ UNCHANGED <<host, publisher, first, waiting, closingPublisher,
                         closingHost, failure>>
       \/ Fail /\ UNCHANGED subscriptions
    /\ UNCHANGED <<server, recordVars, hooks, broken>>

-----------------------------------------------------------------------------
(* The publisher and the server.                                           *)

\* A reconciliation writes or removes the record.  A heartbeat's may be under
\* way when close is called, and the removal that follows its failure may come
\* after close has resolved.
Reconcile ==
    /\ \/ /\ \/ publisher = "started"
             \/ publisher = "closing" /\ phase = "active"
          /\ recorded' = ~recorded
       \/ /\ publisher = "closed" /\ phase = "active"
          /\ recorded /\ recorded' = FALSE
    /\ UNCHANGED <<phase, hostVars, publisher, disposalVars, first, waiting,
                   subscriptions, broken, unremoved>>

\* close resolves when the record's removal was tried.
PublisherCloses ==
    /\ publisher = "closing"
    /\ publisher' = "closed"
    /\ recorded' \in {FALSE, recorded} /\ unremoved' = recorded'
    /\ closingPublisher' = "done"
    /\ UNCHANGED <<phase, hostVars, provider, hooks, closingHost, failure, first,
                   waiting, subscriptions, broken>>

\* onRuntimeError: the host closes itself.
ServerFails ==
    /\ server = "up" /\ ~broken
    /\ broken' = TRUE
    /\ host' = "closing"
    /\ UNCHANGED <<phase, server, publisherVars, disposalVars, first, waiting,
                   subscriptions>>

\* closeNetServer calls back.
ServerCloses ==
    /\ host = "closing" /\ server = "up"
    /\ server' = "down"
    /\ UNCHANGED <<phase, host, publisherVars, disposalVars, first, waiting,
                   subscriptions, broken>>

\* The rest of #closeResources, when the connections are cleaned up.
HostCloses ==
    /\ host = "closing" /\ server = "down"
    /\ host' = "closed"
    /\ closingHost' = IF closingHost = "pending" THEN "done" ELSE closingHost
    /\ UNCHANGED <<phase, server, publisherVars, provider, hooks,
                   closingPublisher, failure, first, waiting, subscriptions,
                   broken>>

ActivationNext ==
    \/ Validate \/ DependencyFails \/ Register \/ Listening \/ ListenFails
    \/ Create \/ StartFails \/ Started
    \/ \E d \in Disposers : Dispose(d)
    \/ \E d \in Callers : PublisherAwaited(d) \/ HostAwaited(d)
    \/ DisposeSubscriptions
    \/ Reconcile \/ PublisherCloses \/ ServerFails \/ ServerCloses \/ HostCloses

\* Promises of VS Code, node and the file system settle and their
\* continuations run; nobody need deactivate the extension, or it to fail.
Fairness ==
    /\ WF_activationVars(Validate)
    /\ WF_activationVars(Register \/ DependencyFails)
    /\ WF_activationVars(Listening \/ ListenFails)
    /\ WF_activationVars(Create)
    /\ WF_activationVars(Started \/ StartFails)
    /\ WF_activationVars(PublisherCloses)
    /\ WF_activationVars(ServerCloses) /\ WF_activationVars(HostCloses)
    /\ \A d \in Callers :
         WF_activationVars(PublisherAwaited(d)) /\ WF_activationVars(HostAwaited(d))

ActivationSpec ==
    ActivationInit /\ [][ActivationNext]_activationVars /\ Fairness

-----------------------------------------------------------------------------
(* Properties.                                                             *)

ActivationTypeOK ==
    /\ phase \in {"idle", "dependency", "listening", "creating", "starting",
                  "active", "undoing", "failed"}
    /\ hooks \in 0..Hooks
    /\ provider \in {"none", "registered", "disposed"}
    /\ host \in {"none", "listening", "open", "closing", "closed"}
    /\ server \in {"none", "opening", "up", "down"}
    /\ publisher \in {"none", "started", "closing", "closed"}
    /\ recorded \in BOOLEAN
    /\ closingPublisher \in {"undefined", "pending", "done"}
    /\ closingHost \in {"undefined", "pending", "done"}
    /\ first \in Callers \cup {"nobody"}
    /\ waiting \in [Callers -> {"none", "publisher", "host", "resolved", "rejected"}]
    /\ failure \in BOOLEAN /\ broken \in BOOLEAN /\ unremoved \in BOOLEAN
    /\ subscriptions \in {"empty", "held", "disposed"}

\* Variables keep their types, and when activation has failed, or any caller
\* of dispose hears of its end, nothing of the extension is left: no provider,
\* no listening server, no hook, and no record but one that publisher.close
\* could not remove - at whatever step it failed, whoever disposed beside it
\* and whatever had already broken.
NothingIsLeft ==
    /\ ActivationTypeOK
    /\ phase = "failed" \/ (\E d \in Callers : waiting[d] \in {"resolved", "rejected"})
         => /\ provider # "registered" /\ hooks = 0
            /\ publisher \in {"none", "closed"} /\ (recorded => unremoved)
            /\ host \in {"none", "closed"} /\ server \in {"none", "down"}

\* What is advertised listens.  Whoever is offered the server definition finds
\* a host that accepts connections, unless the server failed by itself.  Who
\* finds the record does too, but for three cases: the server failed by itself;
\* the record could not be removed; or VS Code has disposed the subscriptions,
\* which closes the host at once, while the record's removal is under way.  The
\* last happens in ordinary deactivations; the plans have the record gone first.
AdvertisedHostsListen ==
    /\ provider = "registered" => host = "open" \/ broken
    /\ recorded => \/ host = "open" \/ broken \/ unremoved
                   \/ subscriptions = "disposed" /\ closingPublisher = "pending"

\* Activation comes to an end, and so does every disposal.
EveryoneIsAnswered ==
    /\ <>(phase \in {"active", "failed"})
    /\ \A d \in Callers : waiting[d] # "none" ~> waiting[d] \in {"resolved", "rejected"}
=============================================================================
