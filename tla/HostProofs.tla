----------------------------- MODULE HostProofs -----------------------------
(***************************************************************************)
(* Proofs about an extension host.  First its life, from activation to     *)
(* disposal (Activation), and the breakpoints its clients own in that life *)
(* (Breakpoints): for any number of hooks, any callers of dispose and any  *)
(* breakpoints, nothing is left behind, what is advertised listens, and    *)
(* ownership follows the editor.  Then the directory of live hosts         *)
(* (LiveHosts), for every set of hosts and every bound of staleness: a     *)
(* closed publisher never writes its record again, nobody removes the      *)
(* record of a host that lives but the host itself, and a scan accounts    *)
(* for whoever was there throughout.                                       *)
(***************************************************************************)
EXTENDS Breakpoints, LiveHosts, FiniteSetTheorems, TLAPS

-----------------------------------------------------------------------------
(* The invariant of Activation.                                            *)

\* How a dispose that was called is past the publisher, and how it ended.
Past == {"host", "resolved", "rejected"}
Answered == {"resolved", "rejected"}

\* What there is at each phase: no step of activation is undone before it
\* fails, and once it has failed or succeeded it makes nothing more.
PhaseInv ==
    /\ phase \in {"idle", "dependency"} => hooks = 0 /\ host = "none"
    /\ phase \in {"idle", "dependency", "listening", "creating"} => publisher = "none"
    /\ phase = "listening" <=> server = "opening"
    /\ phase = "listening" => hooks = Hooks
    /\ phase \in {"creating", "starting", "active"} => host # "none"
    /\ phase = "creating" => host = "open" \/ broken
    /\ phase \in {"starting", "active"} => publisher # "none"
    /\ provider # "none" \/ subscriptions # "empty" => phase = "active"

\* Until somebody disposes, nothing is on its way down; from then on the
\* provider is gone and activation is over.
DisposalInv ==
    /\ first = "nobody" =>
         /\ closingPublisher = "undefined" /\ closingHost = "undefined"
         /\ \A d \in Callers : waiting[d] = "none"
         /\ publisher \in {"none", "started"} /\ subscriptions # "disposed"
         /\ phase # "undoing"
         /\ phase = "failed" => host = "none" /\ hooks = 0 /\ publisher = "none"
    /\ first # "nobody" =>
         /\ closingPublisher # "undefined"
         /\ provider # "registered" /\ waiting[first] # "none"
         /\ first = Undo => phase \in {"undoing", "failed"}
         /\ first # Undo => phase = "active"
         /\ phase = "failed" => waiting[first] \in Answered

\* The promise of closePublisher says how far the publisher is, and a record
\* outlives it only if it could not be removed.
PublisherInv ==
    /\ publisher = "closing" <=> closingPublisher = "pending"
    /\ closingPublisher = "done" => publisher \in {"none", "closed"}
    /\ recorded => publisher \in {"started", "closing"} \/ unremoved

\* The host's state follows its server's, and the promise of closeBridge the
\* host's; nobody closes the host under a record, except VS Code when it
\* disposes the subscriptions, and the hooks outlive it.
ServerInv ==
    /\ host = "none" <=> server = "none"
    /\ host = "listening" <=> server = "opening"
    /\ host = "open" => server = "up" /\ hooks = Hooks
    /\ host = "closed" => server = "down"
    /\ closingHost = "pending" => host = "closing"
    /\ closingHost = "done" => host \in {"none", "closed"}
    /\ closingHost # "undefined" => closingPublisher = "done" \/ subscriptions = "disposed"
    /\ closingHost = "undefined" /\ publisher # "none" => host = "open" \/ broken

\* The first caller leads, the others follow.
CallersInv ==
    /\ \A d \in Callers : waiting[d] \in Past =>
         closingPublisher = "done" /\ waiting[first] \in Past
    /\ \A d \in Callers : waiting[d] \in Answered => waiting[first] \in Answered
    /\ first # "nobody" /\ waiting[first] \in Past => closingHost # "undefined"
    /\ first # "nobody" /\ waiting[first] \in Answered => closingHost = "done" /\ hooks = 0

\* The parts rely on each other.
ActivationInv ==
    /\ ActivationTypeOK
    /\ PhaseInv /\ DisposalInv /\ PublisherInv /\ ServerInv /\ CallersInv

\* What a call of dispose does, whoever calls it.
LEMMA DisposalBegins ==
    ASSUME ActivationTypeOK, NEW d \in Callers, BeginDisposal(d)
    PROVE  /\ UNCHANGED <<host, closingHost>>
           /\ waiting' = [waiting EXCEPT ![d] = "publisher"]
           /\ waiting' \in [Callers -> {"none", "publisher", "host", "resolved", "rejected"}]
           /\ first' \in Callers \cup {"nobody"}
           /\ provider' \in {"none", "registered", "disposed"}
           /\ publisher' \in {"none", "started", "closing", "closed"}
           /\ closingPublisher' \in {"undefined", "pending", "done"}
           /\ failure' \in BOOLEAN
<1>1. /\ UNCHANGED <<host, closingHost>>
      /\ waiting' = [waiting EXCEPT ![d] = "publisher"]
  BY DEF BeginDisposal
<1>2. waiting' \in [Callers -> {"none", "publisher", "host", "resolved", "rejected"}]
  BY <1>1 DEF ActivationTypeOK
<1>3. CASE first = "nobody" /\ DisposeFirst(d)
  <2>1. failure' \in BOOLEAN
    BY <1>3 DEF DisposeFirst
  <2> QED
    BY <1>1, <1>2, <1>3, <2>1 DEF DisposeFirst, DisposeProvider, ClosePublisher, ActivationTypeOK
<1>4. CASE UNCHANGED <<first, provider, closingPublisher, publisher, failure>>
  <2>1. failure' \in BOOLEAN
    BY <1>4 DEF ActivationTypeOK
  <2> QED
    BY <1>1, <1>2, <1>4, <2>1 DEF ActivationTypeOK
<1> QED
  BY <1>3, <1>4 DEF BeginDisposal

\* Each part of the invariant is kept by every step.
LEMMA ActivationTypeStep == ActivationInv /\ [ActivationNext]_activationVars => ActivationTypeOK'
<1> SUFFICES ASSUME ActivationInv, [ActivationNext]_activationVars
             PROVE  ActivationTypeOK'
  OBVIOUS
<1> USE DisposersAssumption, HooksAssumption
     DEF ActivationInv, ActivationTypeOK, Callers, Undo,
         hostVars, publisherVars, recordVars, disposalVars
<1>1. ASSUME Validate \/ DependencyFails
      PROVE  ActivationTypeOK'
  BY <1>1 DEF Validate, DependencyFails, Goes
<1>2. ASSUME Register
      PROVE  ActivationTypeOK'
  <2>1. CASE Fail
    BY <1>2, <2>1, DisposalBegins DEF Fail, Register
  <2>2. CASE ~Fail
    BY <1>2, <2>2 DEF Register, Goes
  <2> QED
    BY <2>1, <2>2
<1>3. ASSUME Listening
      PROVE  ActivationTypeOK'
  BY <1>3 DEF Listening, Goes
<1>4. ASSUME ListenFails
      PROVE  ActivationTypeOK'
  BY <1>4 DEF ListenFails, ClosePublisher
<1>5. ASSUME Create
      PROVE  ActivationTypeOK'
  <2>1. CASE Fail
    BY <1>5, <2>1, DisposalBegins DEF Fail, Create
  <2>2. CASE ~Fail
    BY <1>5, <2>2 DEF Create, Goes
  <2> QED
    BY <2>1, <2>2
<1>6. ASSUME StartFails
      PROVE  ActivationTypeOK'
  <2>1. recorded' \in BOOLEAN /\ unremoved' \in BOOLEAN /\ broken' \in BOOLEAN
    BY <1>6 DEF StartFails
  <2> QED
    BY <1>6, <2>1, DisposalBegins DEF StartFails, Fail
<1>7. ASSUME Started
      PROVE  ActivationTypeOK'
  <2>1. CASE Fail
    BY <1>7, <2>1, DisposalBegins DEF Fail, Started
  <2>2. CASE ~Fail
    BY <1>7, <2>2 DEF Started, Goes
  <2> QED
    BY <2>1, <2>2
<1>8. ASSUME NEW d \in Disposers, Dispose(d)
      PROVE  ActivationTypeOK'
  BY <1>8, DisposalBegins DEF Dispose
<1>9. ASSUME NEW d \in Callers, PublisherAwaited(d)
      PROVE  ActivationTypeOK'
  BY <1>9 DEF PublisherAwaited, PublisherDown, CloseBridge, HostClose
<1>10. ASSUME NEW d \in Callers, HostAwaited(d)
      PROVE  ActivationTypeOK'
  <2>1. failure' \in BOOLEAN
    BY <1>10 DEF HostAwaited
  <2>2. \E how \in {"resolved", "rejected"} : waiting' = [waiting EXCEPT ![d] = how]
    BY <1>10 DEF HostAwaited
  <2> QED
    BY <1>10, <2>1, <2>2 DEF HostAwaited
<1>11. ASSUME DisposeSubscriptions
      PROVE  ActivationTypeOK'
  BY <1>11
     DEF DisposeSubscriptions, DisposeProvider, ClosePublisher,
                CloseBridge, HostClose
<1>12. ASSUME Reconcile
      PROVE  ActivationTypeOK'
  <2>1. recorded' \in BOOLEAN
    BY <1>12 DEF Reconcile
  <2> QED
    BY <1>12, <2>1 DEF Reconcile
<1>13. ASSUME PublisherCloses
      PROVE  ActivationTypeOK'
  <2>1. /\ broken' \in BOOLEAN /\ failure' \in BOOLEAN
        /\ recorded' \in BOOLEAN /\ unremoved' \in BOOLEAN
    BY <1>13 DEF PublisherCloses
  <2> QED
    BY <1>13, <2>1 DEF PublisherCloses
<1>14. ASSUME ServerFails
      PROVE  ActivationTypeOK'
  BY <1>14 DEF ServerFails
<1>15. ASSUME ServerCloses
      PROVE  ActivationTypeOK'
  BY <1>15 DEF ServerCloses
<1>16. ASSUME HostCloses
      PROVE  ActivationTypeOK'
  BY <1>16 DEF HostCloses
<1>17. CASE UNCHANGED activationVars
  BY <1>17 DEF activationVars
<1> QED
  BY <1>1, <1>2, <1>3, <1>4, <1>5, <1>6, <1>7, <1>8,
     <1>9, <1>10, <1>11, <1>12, <1>13, <1>14, <1>15, <1>16, <1>17
     DEF ActivationNext

\* Activation makes one thing after the other.
LEMMA PhaseInvStep == ActivationInv /\ [ActivationNext]_activationVars => PhaseInv'
<1> SUFFICES ASSUME ActivationInv, [ActivationNext]_activationVars
             PROVE  PhaseInv'
  OBVIOUS
<1> USE DisposersAssumption, HooksAssumption
     DEF ActivationInv, ActivationTypeOK, PhaseInv, DisposalInv, ServerInv, Callers, Undo,
         hostVars, publisherVars, recordVars, disposalVars
<1>1. ASSUME Validate \/ DependencyFails
      PROVE  PhaseInv'
  BY <1>1 DEF Validate, DependencyFails, Goes
<1>2. ASSUME Register
      PROVE  PhaseInv'
  BY <1>2
     DEF Register, Goes, Fail, BeginDisposal, DisposeFirst, DisposeProvider,
         ClosePublisher
<1>3. ASSUME Listening
      PROVE  PhaseInv'
  BY <1>3 DEF Listening, Goes
<1>4. ASSUME ListenFails
      PROVE  PhaseInv'
  BY <1>4 DEF ListenFails, ClosePublisher
<1>5. ASSUME Create
      PROVE  PhaseInv'
  BY <1>5
     DEF Create, Goes, Fail, BeginDisposal, DisposeFirst, DisposeProvider,
         ClosePublisher
<1>6. ASSUME StartFails
      PROVE  PhaseInv'
  BY <1>6
     DEF StartFails, Fail, BeginDisposal, DisposeFirst, DisposeProvider,
         ClosePublisher
<1>7. ASSUME Started
      PROVE  PhaseInv'
  BY <1>7
     DEF Started, Fail, BeginDisposal, DisposeFirst, DisposeProvider, ClosePublisher
<1>8. ASSUME NEW d \in Disposers, Dispose(d)
      PROVE  PhaseInv'
  BY <1>8 DEF Dispose, BeginDisposal, DisposeFirst, DisposeProvider, ClosePublisher
<1>9. ASSUME NEW d \in Callers, PublisherAwaited(d)
      PROVE  PhaseInv'
  BY <1>9 DEF PublisherAwaited, PublisherDown, CloseBridge, HostClose
<1>10. ASSUME NEW d \in Callers, HostAwaited(d)
      PROVE  PhaseInv'
  BY <1>10 DEF HostAwaited
<1>11. ASSUME DisposeSubscriptions
      PROVE  PhaseInv'
  BY <1>11
     DEF DisposeSubscriptions, DisposeProvider, ClosePublisher,
                CloseBridge, HostClose
<1>12. ASSUME Reconcile
      PROVE  PhaseInv'
  BY <1>12 DEF Reconcile
<1>13. ASSUME PublisherCloses
      PROVE  PhaseInv'
  BY <1>13 DEF PublisherCloses
<1>14. ASSUME ServerFails
      PROVE  PhaseInv'
  BY <1>14 DEF ServerFails
<1>15. ASSUME ServerCloses
      PROVE  PhaseInv'
  BY <1>15 DEF ServerCloses
<1>16. ASSUME HostCloses
      PROVE  PhaseInv'
  BY <1>16 DEF HostCloses
<1>17. CASE UNCHANGED activationVars
  BY <1>17 DEF activationVars
<1> QED
  BY <1>1, <1>2, <1>3, <1>4, <1>5, <1>6, <1>7, <1>8,
     <1>9, <1>10, <1>11, <1>12, <1>13, <1>14, <1>15, <1>16, <1>17
     DEF ActivationNext

\* Nobody disposes of anything before the first who does.
LEMMA DisposalInvStep == ActivationInv /\ [ActivationNext]_activationVars => DisposalInv'
<1> SUFFICES ASSUME ActivationInv, [ActivationNext]_activationVars
             PROVE  DisposalInv'
  OBVIOUS
<1> USE DisposersAssumption, HooksAssumption
     DEF ActivationInv, ActivationTypeOK, PhaseInv, DisposalInv, ServerInv,
         CallersInv, Past, Answered, Callers, Undo,
         hostVars, publisherVars, recordVars, disposalVars
<1>1. ASSUME Validate \/ DependencyFails
      PROVE  DisposalInv'
  BY <1>1 DEF Validate, DependencyFails, Goes
<1>2. ASSUME Register
      PROVE  DisposalInv'
  BY <1>2
     DEF Register, Goes, Fail, BeginDisposal, DisposeFirst, DisposeProvider,
         ClosePublisher
<1>3. ASSUME Listening
      PROVE  DisposalInv'
  BY <1>3 DEF Listening, Goes
<1>4. ASSUME ListenFails
      PROVE  DisposalInv'
  BY <1>4 DEF ListenFails, ClosePublisher
<1>5. ASSUME Create
      PROVE  DisposalInv'
  BY <1>5
     DEF Create, Goes, Fail, BeginDisposal, DisposeFirst, DisposeProvider,
         ClosePublisher
<1>6. ASSUME StartFails
      PROVE  DisposalInv'
  BY <1>6
     DEF StartFails, Fail, BeginDisposal, DisposeFirst, DisposeProvider,
         ClosePublisher
<1>7. ASSUME Started
      PROVE  DisposalInv'
  BY <1>7
     DEF Started, Fail, BeginDisposal, DisposeFirst, DisposeProvider, ClosePublisher
<1>8. ASSUME NEW d \in Disposers, Dispose(d)
      PROVE  DisposalInv'
  <2>1. CASE first = "nobody"
    BY <1>8, <2>1 DEF Dispose, BeginDisposal, DisposeFirst, DisposeProvider,
         ClosePublisher
  <2>2. CASE first # "nobody"
    BY <1>8, <2>2 DEF Dispose, BeginDisposal
  <2> QED
    BY <2>1, <2>2
<1>9. ASSUME NEW d \in Callers, PublisherAwaited(d)
      PROVE  DisposalInv'
  BY <1>9 DEF PublisherAwaited, PublisherDown, CloseBridge, HostClose
<1>10. ASSUME NEW d \in Callers, HostAwaited(d)
      PROVE  DisposalInv'
  BY <1>10 DEF HostAwaited
<1>11. ASSUME DisposeSubscriptions
      PROVE  DisposalInv'
  BY <1>11
     DEF DisposeSubscriptions, DisposeProvider, ClosePublisher,
                CloseBridge, HostClose
<1>12. ASSUME Reconcile
      PROVE  DisposalInv'
  BY <1>12 DEF Reconcile
<1>13. ASSUME PublisherCloses
      PROVE  DisposalInv'
  BY <1>13 DEF PublisherCloses
<1>14. ASSUME ServerFails
      PROVE  DisposalInv'
  BY <1>14 DEF ServerFails
<1>15. ASSUME ServerCloses
      PROVE  DisposalInv'
  BY <1>15 DEF ServerCloses
<1>16. ASSUME HostCloses
      PROVE  DisposalInv'
  BY <1>16 DEF HostCloses
<1>17. CASE UNCHANGED activationVars
  BY <1>17 DEF activationVars
<1> QED
  BY <1>1, <1>2, <1>3, <1>4, <1>5, <1>6, <1>7, <1>8,
     <1>9, <1>10, <1>11, <1>12, <1>13, <1>14, <1>15, <1>16, <1>17
     DEF ActivationNext

\* The publisher ends with the promise of its close.
LEMMA PublisherInvStep == ActivationInv /\ [ActivationNext]_activationVars => PublisherInv'
<1> SUFFICES ASSUME ActivationInv, [ActivationNext]_activationVars
             PROVE  PublisherInv'
  OBVIOUS
<1> USE DisposersAssumption, HooksAssumption
     DEF ActivationInv, ActivationTypeOK, PhaseInv, DisposalInv, PublisherInv, Callers, Undo,
         hostVars, publisherVars, recordVars, disposalVars
<1>1. ASSUME Validate \/ DependencyFails
      PROVE  PublisherInv'
  BY <1>1 DEF Validate, DependencyFails, Goes
<1>2. ASSUME Register
      PROVE  PublisherInv'
  BY <1>2
     DEF Register, Goes, Fail, BeginDisposal, DisposeFirst, DisposeProvider,
         ClosePublisher
<1>3. ASSUME Listening
      PROVE  PublisherInv'
  BY <1>3 DEF Listening, Goes
<1>4. ASSUME ListenFails
      PROVE  PublisherInv'
  BY <1>4 DEF ListenFails, ClosePublisher
<1>5. ASSUME Create
      PROVE  PublisherInv'
  BY <1>5
     DEF Create, Goes, Fail, BeginDisposal, DisposeFirst, DisposeProvider,
         ClosePublisher
<1>6. ASSUME StartFails
      PROVE  PublisherInv'
  BY <1>6
     DEF StartFails, Fail, BeginDisposal, DisposeFirst, DisposeProvider,
         ClosePublisher
<1>7. ASSUME Started
      PROVE  PublisherInv'
  BY <1>7
     DEF Started, Fail, BeginDisposal, DisposeFirst, DisposeProvider, ClosePublisher
<1>8. ASSUME NEW d \in Disposers, Dispose(d)
      PROVE  PublisherInv'
  BY <1>8 DEF Dispose, BeginDisposal, DisposeFirst, DisposeProvider, ClosePublisher
<1>9. ASSUME NEW d \in Callers, PublisherAwaited(d)
      PROVE  PublisherInv'
  BY <1>9 DEF PublisherAwaited, PublisherDown, CloseBridge, HostClose
<1>10. ASSUME NEW d \in Callers, HostAwaited(d)
      PROVE  PublisherInv'
  BY <1>10 DEF HostAwaited
<1>11. ASSUME DisposeSubscriptions
      PROVE  PublisherInv'
  BY <1>11
     DEF DisposeSubscriptions, DisposeProvider, ClosePublisher,
                CloseBridge, HostClose
<1>12. ASSUME Reconcile
      PROVE  PublisherInv'
  BY <1>12 DEF Reconcile
<1>13. ASSUME PublisherCloses
      PROVE  PublisherInv'
  BY <1>13 DEF PublisherCloses
<1>14. ASSUME ServerFails
      PROVE  PublisherInv'
  BY <1>14 DEF ServerFails
<1>15. ASSUME ServerCloses
      PROVE  PublisherInv'
  BY <1>15 DEF ServerCloses
<1>16. ASSUME HostCloses
      PROVE  PublisherInv'
  BY <1>16 DEF HostCloses
<1>17. CASE UNCHANGED activationVars
  BY <1>17 DEF activationVars
<1> QED
  BY <1>1, <1>2, <1>3, <1>4, <1>5, <1>6, <1>7, <1>8,
     <1>9, <1>10, <1>11, <1>12, <1>13, <1>14, <1>15, <1>16, <1>17
     DEF ActivationNext

\* The host follows its server.
LEMMA ServerInvStep == ActivationInv /\ [ActivationNext]_activationVars => ServerInv'
<1> SUFFICES ASSUME ActivationInv, [ActivationNext]_activationVars
             PROVE  ServerInv'
  OBVIOUS
<1> USE DisposersAssumption, HooksAssumption
     DEF ActivationInv, ActivationTypeOK, PhaseInv, DisposalInv, PublisherInv,
         ServerInv, CallersInv, Past, Callers, Undo,
         hostVars, publisherVars, recordVars, disposalVars
<1>1. ASSUME Validate \/ DependencyFails
      PROVE  ServerInv'
  BY <1>1 DEF Validate, DependencyFails, Goes
<1>2. ASSUME Register
      PROVE  ServerInv'
  BY <1>2
     DEF Register, Goes, Fail, BeginDisposal, DisposeFirst, DisposeProvider,
         ClosePublisher
<1>3. ASSUME Listening
      PROVE  ServerInv'
  BY <1>3 DEF Listening, Goes
<1>4. ASSUME ListenFails
      PROVE  ServerInv'
  BY <1>4 DEF ListenFails, ClosePublisher
<1>5. ASSUME Create
      PROVE  ServerInv'
  BY <1>5
     DEF Create, Goes, Fail, BeginDisposal, DisposeFirst, DisposeProvider,
         ClosePublisher
<1>6. ASSUME StartFails
      PROVE  ServerInv'
  BY <1>6
     DEF StartFails, Fail, BeginDisposal, DisposeFirst, DisposeProvider,
         ClosePublisher
<1>7. ASSUME Started
      PROVE  ServerInv'
  BY <1>7
     DEF Started, Fail, BeginDisposal, DisposeFirst, DisposeProvider, ClosePublisher
<1>8. ASSUME NEW d \in Disposers, Dispose(d)
      PROVE  ServerInv'
  BY <1>8 DEF Dispose, BeginDisposal, DisposeFirst, DisposeProvider, ClosePublisher
<1>9. ASSUME NEW d \in Callers, PublisherAwaited(d)
      PROVE  ServerInv'
  BY <1>9 DEF PublisherAwaited, PublisherDown, CloseBridge, HostClose
<1>10. ASSUME NEW d \in Callers, HostAwaited(d)
      PROVE  ServerInv'
  BY <1>10 DEF HostAwaited
<1>11. ASSUME DisposeSubscriptions
      PROVE  ServerInv'
  BY <1>11
     DEF DisposeSubscriptions, DisposeProvider, ClosePublisher,
                CloseBridge, HostClose
<1>12. ASSUME Reconcile
      PROVE  ServerInv'
  BY <1>12 DEF Reconcile
<1>13. ASSUME PublisherCloses
      PROVE  ServerInv'
  BY <1>13 DEF PublisherCloses
<1>14. ASSUME ServerFails
      PROVE  ServerInv'
  BY <1>14 DEF ServerFails
<1>15. ASSUME ServerCloses
      PROVE  ServerInv'
  BY <1>15 DEF ServerCloses
<1>16. ASSUME HostCloses
      PROVE  ServerInv'
  BY <1>16 DEF HostCloses
<1>17. CASE UNCHANGED activationVars
  BY <1>17 DEF activationVars
<1> QED
  BY <1>1, <1>2, <1>3, <1>4, <1>5, <1>6, <1>7, <1>8,
     <1>9, <1>10, <1>11, <1>12, <1>13, <1>14, <1>15, <1>16, <1>17
     DEF ActivationNext

\* Nobody overtakes the first caller.
LEMMA CallersInvStep == ActivationInv /\ [ActivationNext]_activationVars => CallersInv'
<1> SUFFICES ASSUME ActivationInv, [ActivationNext]_activationVars
             PROVE  CallersInv'
  OBVIOUS
<1> USE DisposersAssumption, HooksAssumption
     DEF ActivationInv, ActivationTypeOK, PhaseInv, DisposalInv, PublisherInv,
         ServerInv, CallersInv, Past, Answered, Callers, Undo,
         hostVars, publisherVars, recordVars, disposalVars
<1>1. ASSUME Validate \/ DependencyFails
      PROVE  CallersInv'
  BY <1>1 DEF Validate, DependencyFails, Goes
<1>2. ASSUME Register
      PROVE  CallersInv'
  BY <1>2
     DEF Register, Goes, Fail, BeginDisposal, DisposeFirst, DisposeProvider,
         ClosePublisher
<1>3. ASSUME Listening
      PROVE  CallersInv'
  BY <1>3 DEF Listening, Goes
<1>4. ASSUME ListenFails
      PROVE  CallersInv'
  BY <1>4 DEF ListenFails, ClosePublisher
<1>5. ASSUME Create
      PROVE  CallersInv'
  BY <1>5
     DEF Create, Goes, Fail, BeginDisposal, DisposeFirst, DisposeProvider,
         ClosePublisher
<1>6. ASSUME StartFails
      PROVE  CallersInv'
  BY <1>6
     DEF StartFails, Fail, BeginDisposal, DisposeFirst, DisposeProvider,
         ClosePublisher
<1>7. ASSUME Started
      PROVE  CallersInv'
  BY <1>7
     DEF Started, Fail, BeginDisposal, DisposeFirst, DisposeProvider, ClosePublisher
<1>8. ASSUME NEW d \in Disposers, Dispose(d)
      PROVE  CallersInv'
  <2>1. CASE first = "nobody"
    BY <1>8, <2>1 DEF Dispose, BeginDisposal, DisposeFirst, DisposeProvider,
         ClosePublisher
  <2>2. CASE first # "nobody"
    BY <1>8, <2>2 DEF Dispose, BeginDisposal
  <2> QED
    BY <2>1, <2>2
<1>9. ASSUME NEW d \in Callers, PublisherAwaited(d)
      PROVE  CallersInv'
  BY <1>9 DEF PublisherAwaited, PublisherDown, CloseBridge, HostClose
<1>10. ASSUME NEW d \in Callers, HostAwaited(d)
      PROVE  CallersInv'
  BY <1>10 DEF HostAwaited
<1>11. ASSUME DisposeSubscriptions
      PROVE  CallersInv'
  BY <1>11
     DEF DisposeSubscriptions, DisposeProvider, ClosePublisher,
                CloseBridge, HostClose
<1>12. ASSUME Reconcile
      PROVE  CallersInv'
  BY <1>12 DEF Reconcile
<1>13. ASSUME PublisherCloses
      PROVE  CallersInv'
  BY <1>13 DEF PublisherCloses
<1>14. ASSUME ServerFails
      PROVE  CallersInv'
  BY <1>14 DEF ServerFails
<1>15. ASSUME ServerCloses
      PROVE  CallersInv'
  BY <1>15 DEF ServerCloses
<1>16. ASSUME HostCloses
      PROVE  CallersInv'
  BY <1>16 DEF HostCloses
<1>17. CASE UNCHANGED activationVars
  BY <1>17 DEF activationVars
<1> QED
  BY <1>1, <1>2, <1>3, <1>4, <1>5, <1>6, <1>7, <1>8,
     <1>9, <1>10, <1>11, <1>12, <1>13, <1>14, <1>15, <1>16, <1>17
     DEF ActivationNext

\* Nothing has happened yet.
LEMMA InitialActivation == ActivationInit => ActivationInv
<1> SUFFICES ASSUME ActivationInit
             PROVE  ActivationInv
  OBVIOUS
<1>1. ActivationTypeOK
  <2>1. /\ recorded \in BOOLEAN /\ failure \in BOOLEAN
        /\ broken \in BOOLEAN /\ unremoved \in BOOLEAN
    BY DEF ActivationInit
  <2> QED
    BY <2>1, HooksAssumption DEF ActivationInit, ActivationTypeOK
<1>2. PhaseInv /\ DisposalInv /\ PublisherInv
  BY DEF ActivationInit, PhaseInv, DisposalInv, PublisherInv
<1>3. ServerInv /\ CallersInv
  BY DEF ActivationInit, ServerInv, CallersInv, Past, Answered
<1> QED
  BY <1>1, <1>2, <1>3 DEF ActivationInv

\* The invariant is inductive.
LEMMA ActivationStep == ActivationInv /\ [ActivationNext]_activationVars => ActivationInv'
BY ActivationTypeStep, PhaseInvStep, DisposalInvStep, PublisherInvStep, ServerInvStep,
   CallersInvStep DEF ActivationInv

\* Whatever fails and whoever disposes, activation and disposal keep the
\* relations between phases, promises, publisher and host.
THEOREM ActivationInvariant == ActivationSpec => []ActivationInv
BY InitialActivation, ActivationStep, PTL DEF ActivationSpec

\* What a caller of dispose is told, and what activation reports when it has
\* failed, is true: extension.ts has taken back all that it made, except for a
\* record whose removal failed (#removeOwnedRecord swallows that).
THEOREM AllIsTakenBack == ActivationSpec => []NothingIsLeft
<1>1. ActivationInv => NothingIsLeft
  <2> SUFFICES ASSUME ActivationInv
               PROVE  NothingIsLeft
    OBVIOUS
  <2>1. CASE first = "nobody"
    BY <2>1 DEF ActivationInv, ActivationTypeOK, PhaseInv, DisposalInv, PublisherInv,
         ServerInv, NothingIsLeft
  <2>2. CASE first # "nobody"
    <3>1. SUFFICES ASSUME waiting[first] \in Answered
                   PROVE  NothingIsLeft
      BY <2>2 DEF ActivationInv, DisposalInv, CallersInv, NothingIsLeft, Answered
    <3>2. closingPublisher = "done" /\ closingHost = "done" /\ hooks = 0
      BY <2>2, <3>1 DEF ActivationInv, ActivationTypeOK, CallersInv, Past, Answered
    <3> QED
      BY <2>2, <3>2 DEF ActivationInv, DisposalInv, PublisherInv, ServerInv,
           NothingIsLeft
  <2> QED
    BY <2>1, <2>2
<1> QED
  BY <1>1, ActivationInvariant, PTL

\* The server definition names a pipe that accepts connections, as long as the
\* server has not failed by itself.  So does the record, unless its removal
\* failed, or while it is under way after VS Code has disposed the
\* subscriptions: that host is closed by its own disposable, which does not
\* await the publisher's.
THEOREM AdvertisedWhileListening == ActivationSpec => []AdvertisedHostsListen
<1>1. ActivationInv => AdvertisedHostsListen
  BY DEF ActivationInv, ActivationTypeOK, PhaseInv, DisposalInv, PublisherInv, ServerInv,
       AdvertisedHostsListen
<1> QED
  BY <1>1, ActivationInvariant, PTL

-----------------------------------------------------------------------------
(* Breakpoints.                                                            *)

\* An object is added once and by one side; what has left the editor never
\* returns; and nothing is owned before there is a host to reach.
OwnershipInv ==
    /\ editor \cup notices \subseteq byMcp \cup byUser
    /\ owned \subseteq byMcp /\ byMcp \cap byUser = {}
    /\ editor \cap notices = {}
    /\ phase \in {"idle", "dependency"} => owned = {}
    /\ OwnershipFollowsTheEditor

BreakpointsInv == ActivationInv /\ OwnershipInv

\* The hook that brings the notices is there as long as a client can come.
LEMMA HookedWhileOpen == ActivationInv /\ host = "open" => Hooked
BY DEF ActivationInv, ServerInv, Hooked

\* Activation hooks the registry up once, before anything is owned.
LEMMA HookedOnce ==
    ActivationInv /\ ActivationNext /\ ~Hooked /\ Hooked' => phase \in {"idle", "dependency"}
<1> SUFFICES ASSUME ActivationInv, ActivationNext, ~Hooked, Hooked'
             PROVE  phase \in {"idle", "dependency"}
  OBVIOUS
<1>1. hooks' # hooks /\ hooks' # 0
  BY HooksAssumption DEF Hooked
<1> QED
  BY <1>1 DEF ActivationNext, Validate, DependencyFails, Register, Listening, ListenFails,
       Create, StartFails, Started, Dispose, PublisherAwaited, HostAwaited,
       DisposeSubscriptions, Reconcile, PublisherCloses, ServerFails, ServerCloses,
       HostCloses, disposalVars

\* The phases in which nothing is owned are not come back to.
LEMMA EarlyPhases ==
    ActivationNext /\ phase' \in {"idle", "dependency"} => phase \in {"idle", "dependency"}
BY DEF ActivationNext, Validate, DependencyFails, Register, Listening, ListenFails, Create,
     StartFails, Started, Dispose, PublisherAwaited, HostAwaited,
     DisposeSubscriptions, Reconcile, PublisherCloses, ServerFails, ServerCloses,
     HostCloses, Fail, Goes

\* The host opens in Activation's steps only, when all hooks are there.
LEMMA OwnershipStep ==
    BreakpointsInv /\ [BreakpointsNext]_<<activationVars, registryVars>> => OwnershipInv'
<1> SUFFICES ASSUME BreakpointsInv, [BreakpointsNext]_<<activationVars, registryVars>>,
                    ActivationInv'
             PROVE  OwnershipInv'
  <2>1. [BreakpointsNext]_<<activationVars, registryVars>> => [ActivationNext]_activationVars
    BY DEF BreakpointsNext, Add, Remove, AcceptRemoval, UserAdds, UserRemoves
  <2> QED
    BY <2>1, ActivationStep DEF BreakpointsInv
<1> USE DEF BreakpointsInv, OwnershipInv, OwnershipFollowsTheEditor, registryVars
<1>1. CASE ActivationNext /\ UNCHANGED registryVars
  <2>1. Hooked' \/ host' = "open" => Hooked'
    BY HookedWhileOpen DEF ActivationInv, ServerInv, Hooked
  <2>2. Hooked' => Hooked \/ owned = {}
    BY <1>1, HookedOnce
  <2>3. phase' \in {"idle", "dependency"} => owned = {}
    BY <1>1, EarlyPhases
  <2> QED
    BY <1>1, <2>1, <2>2, <2>3
<1>2. ASSUME NEW b \in Objects, Add(b)
      PROVE  OwnershipInv'
  <2>1. UNCHANGED <<phase, host, hooks>> /\ phase \notin {"idle", "dependency"}
    BY <1>2 DEF Add, activationVars, hostVars, disposalVars, ActivationInv, PhaseInv
  <2> QED
    BY <1>2, <2>1 DEF Add, Fresh, Hooked
<1>3. ASSUME NEW b \in Objects, Remove(b)
      PROVE  OwnershipInv'
  <2>1. UNCHANGED <<phase, host, hooks>> /\ Hooked
    BY <1>3, HookedWhileOpen DEF Remove, activationVars, hostVars, disposalVars
  <2> QED
    BY <1>3, <2>1 DEF Remove, Notify, Forget, Hooked
<1>4. ASSUME NEW b \in Objects, AcceptRemoval(b)
      PROVE  OwnershipInv'
  <2>1. UNCHANGED <<phase, host, hooks>>
    BY <1>4 DEF AcceptRemoval, activationVars, hostVars, disposalVars
  <2> QED
    BY <1>4, <2>1 DEF AcceptRemoval, Noticed, Forget, Hooked
<1>5. ASSUME NEW b \in Objects, UserAdds(b)
      PROVE  OwnershipInv'
  <2>1. UNCHANGED <<phase, host, hooks>>
    BY <1>5 DEF UserAdds, activationVars, hostVars, disposalVars
  <2> QED
    BY <1>5, <2>1 DEF UserAdds, Fresh, Hooked
<1>6. ASSUME NEW b \in Objects, UserRemoves(b)
      PROVE  OwnershipInv'
  <2>1. UNCHANGED <<phase, host, hooks>> /\ (host = "open" => Hooked)
    BY <1>6, HookedWhileOpen DEF UserRemoves, activationVars, hostVars, disposalVars
  <2> QED
    BY <1>6, <2>1 DEF UserRemoves, Notify, Hooked
<1>7. CASE UNCHANGED <<activationVars, registryVars>>
  BY <1>7 DEF activationVars, hostVars, disposalVars, Hooked
<1> QED
  BY <1>1, <1>2, <1>3, <1>4, <1>5, <1>6, <1>7 DEF BreakpointsNext

\* The registry runs in the life that Activation describes, so what is proved
\* of Activation holds of it.
THEOREM BreakpointsRun == BreakpointsSpec => ActivationSpec
<1>1. BreakpointsInit => ActivationInit
  BY DEF BreakpointsInit
<1>2. [BreakpointsNext]_<<activationVars, registryVars>> => [ActivationNext]_activationVars
  BY DEF BreakpointsNext, Add, Remove, AcceptRemoval, UserAdds, UserRemoves
<1> QED
  BY <1>1, <1>2, PTL DEF BreakpointsSpec, ActivationSpec

\* BreakpointRegistry may remove what its clients have added and the editor
\* still has, however removals, notices and the disposal of the hook interleave.
THEOREM OwnershipFollows == BreakpointsSpec => []OwnershipFollowsTheEditor
<1>1. BreakpointsInit => OwnershipInv
  BY DEF BreakpointsInit, ActivationInit, OwnershipInv, OwnershipFollowsTheEditor
<1>2. [](ActivationInv) /\ OwnershipInv /\ [][BreakpointsNext]_<<activationVars, registryVars>>
        => []OwnershipInv
  BY OwnershipStep, PTL DEF BreakpointsInv
<1>3. OwnershipInv => OwnershipFollowsTheEditor
  BY DEF OwnershipInv
<1> QED
  BY <1>1, <1>2, <1>3, BreakpointsRun, ActivationInvariant, PTL DEF BreakpointsSpec

-----------------------------------------------------------------------------
(* The directory of live hosts.                                            *)

\* What each host keeps true of itself: only a live process works or closes,
\* only one that was born has a record, the record it is removing is a dead
\* host's, a closing publisher never starts another heartbeat, and a closed
\* one has no reconciliation that could write a record, and has left none but
\* one it could not remove.
HostInv(h) ==
    /\ proc[h] # "up" => /\ at[h] = "rest"
                         /\ closing[h] = "none" /\ pub[h] = "idle"
    /\ proc[h] = "unborn" => record[h] = None
    /\ at[h] = "drop" => /\ doomed[h] \in Hosts
                         /\ proc[doomed[h]] \in {"down", "reused"}
    /\ closing[h] # "none" => pub[h] # "started"
    /\ closing[h] = "done" => /\ record[h] = None \/ h \in stuck
                              /\ at[h] \in {"rest", "unpublish"}

IInv == TypeOK /\ \A h \in Hosts : HostInv(h)

-----------------------------------------------------------------------------
LEMMA InitIInv == Init => IInv
<1> SUFFICES ASSUME Init PROVE IInv
  OBVIOUS
<1>1. TypeOK
  BY StaleAssumption DEF Init, TypeOK, Oldest
<1>2. \A h \in Hosts : HostInv(h)
  BY DEF Init, HostInv
<1> QED
  BY <1>1, <1>2 DEF IInv

\* One name for the steps of Next, whoever is taken off the scan's history.
LEMMA Steps ==
  ASSUME Next
  PROVE  /\ \E unread \in SUBSET Hosts : Watch(unread)
         /\ \/ Tick \/ ScanBegins \/ ScanEnds
            \/ \E h \in Hosts :
                 \/ HostBegins(h) \/ HostEnds(h) \/ PidChangesHands(h)
                 \/ Publisher(h) \/ Close(h)
                 \/ ScanReads(h, TRUE) \/ ScanReads(h, FALSE)
<1>1. CASE \E h \in Hosts : ScanReads(h, FALSE) /\ Watch({h})
  BY <1>1
<1>2. CASE ~ \E h \in Hosts : ScanReads(h, FALSE) /\ Watch({h})
  <2>1. Watch({}) /\ {} \in SUBSET Hosts
    BY <1>2 DEF Next
  <2> QED
    BY <1>2, <2>1 DEF Next
<1> QED
  BY <1>1, <1>2

LEMMA SteadyTyped ==
  ASSUME TypeOK, NEW unread, Watch(unread)
  PROVE  steady' \subseteq Hosts
BY DEF TypeOK, Watch

\* The type invariant without the history, which SteadyTyped covers.
MainTypes ==
    /\ proc \in [Hosts -> {"unborn", "up", "down", "reused"}]
    /\ record \in [Hosts -> 0..Oldest \cup {None}]
    /\ pub \in [Hosts -> {"idle", "started", "closing", "closed"}]
    /\ timer \in [Hosts -> BOOLEAN]
    /\ \A h \in Hosts : timer[h] => at[h] = "rest" /\ pub[h] = "started"
    /\ caller \in [Hosts -> {"none", "start", "heartbeat"}]
    /\ at \in [Hosts -> {"rest", "open", "prune", "drop", "resolve", "write",
                         "withdraw", "unpublish"}]
    /\ names \in [Hosts -> SUBSET Hosts]
    /\ doomed \in [Hosts -> Hosts \cup {None}]
    /\ bridge \in [Hosts -> {"unknown", "ok", "failed"}]
    /\ stamp \in [Hosts -> 0..Oldest]
    /\ closing \in [Hosts -> {"none", "waiting", "done"}]
    /\ found \in {"none", "scanning", "unavailable", "located", "ambiguous"}
    /\ matches \subseteq Hosts /\ todo \subseteq Hosts /\ stuck \subseteq Hosts

LEMMA TypesStep ==
  ASSUME MainTypes, \A h \in Hosts : HostInv(h), Next
  PROVE  MainTypes'
<1> USE StaleAssumption, NoneAssumption DEF MainTypes, Oldest, pubVars, closeVars, scanVars
<1>1. ASSUME Tick PROVE MainTypes'
  <2>1. \A age \in 0..Oldest \cup {None} : Older(age) \in 0..Oldest \cup {None}
    BY DEF Older
  <2>2. \A age \in 0..Oldest : Older(age) \in 0..Oldest
    BY DEF Older
  <2>3. record' \in [Hosts -> 0..Oldest \cup {None}] /\ stamp' \in [Hosts -> 0..Oldest]
    BY <1>1, <2>1, <2>2 DEF Tick
  <2> QED
    BY <1>1, <2>3 DEF Tick
<1>2. ASSUME NEW h \in Hosts, HostBegins(h) PROVE MainTypes'
  BY <1>2 DEF HostBegins, HostInv
<1>3. ASSUME NEW h \in Hosts, HostEnds(h) PROVE MainTypes'
  BY <1>3 DEF HostEnds
<1>4. ASSUME NEW h \in Hosts, PidChangesHands(h) PROVE MainTypes'
  BY <1>4 DEF PidChangesHands
<1>5. ASSUME NEW h \in Hosts, OpenDirectory(h) PROVE MainTypes'
  BY <1>5 DEF OpenDirectory, Ends, Step, Published
<1>6. ASSUME NEW h \in Hosts, Prune(h) PROVE MainTypes'
  BY <1>6 DEF Prune, Step
<1>7. ASSUME NEW h \in Hosts, Drop(h) PROVE MainTypes'
  BY <1>7 DEF Drop, Step, Removal
<1>8. ASSUME NEW h \in Hosts, Look(h) PROVE MainTypes'
  BY <1>8 DEF Look, Step
<1>9. ASSUME NEW h \in Hosts, Resolve(h) PROVE MainTypes'
  BY <1>9 DEF Resolve, Ends, Step
<1>10. ASSUME NEW h \in Hosts, Replace(h) PROVE MainTypes'
  BY <1>10 DEF Replace, Ends, Step
<1>11. ASSUME NEW h \in Hosts, Withdraw(h) PROVE MainTypes'
  BY <1>11 DEF Withdraw, Ends, Step, Removal
<1>12. ASSUME NEW h \in Hosts, Unpublish(h) PROVE MainTypes'
  BY <1>12 DEF Unpublish, Step, Removal
<1>13. ASSUME NEW h \in Hosts, Heartbeat(h) PROVE MainTypes'
  BY <1>13 DEF Heartbeat, Step
<1>14. ASSUME NEW h \in Hosts, CloseRemoves(h) PROVE MainTypes'
  BY <1>14 DEF CloseRemoves, HostInv, Removal
<1>15. ASSUME NEW h \in Hosts, Close(h) PROVE MainTypes'
  BY <1>15 DEF Close
<1>16. ASSUME NEW h \in Hosts, ScanReads(h, TRUE) PROVE MainTypes'
  BY <1>16 DEF ScanReads
<1>17. ASSUME ScanBegins PROVE MainTypes'
  BY <1>17 DEF ScanBegins, Published
<1>18. ASSUME ScanEnds PROVE MainTypes'
  BY <1>18 DEF ScanEnds
<1>19. ASSUME NEW h \in Hosts, ScanReads(h, FALSE) PROVE MainTypes'
  BY <1>19 DEF ScanReads
<1> QED
  BY Steps, <1>1, <1>2, <1>3, <1>4, <1>5, <1>6, <1>7, <1>8, <1>9, <1>10,
     <1>11, <1>12, <1>13, <1>14, <1>15, <1>16, <1>17, <1>18, <1>19 DEF
     Publisher

LEMMA HostInvStep ==
  ASSUME MainTypes, \A h \in Hosts : HostInv(h), Next, NEW g \in Hosts
  PROVE  HostInv(g)'
<1> USE NoneAssumption DEF MainTypes, HostInv, pubVars, closeVars, scanVars
<1>1. ASSUME Tick PROVE HostInv(g)'
  BY <1>1 DEF Tick, Older
<1>2. ASSUME NEW h \in Hosts, HostBegins(h) PROVE HostInv(g)'
  BY <1>2 DEF HostBegins
<1>3. ASSUME NEW h \in Hosts, HostEnds(h) PROVE HostInv(g)'
  BY <1>3 DEF HostEnds
<1>4. ASSUME NEW h \in Hosts, PidChangesHands(h) PROVE HostInv(g)'
  BY <1>4 DEF PidChangesHands
<1>5. ASSUME NEW h \in Hosts, OpenDirectory(h) PROVE HostInv(g)'
  BY <1>5 DEF OpenDirectory, Ends, Step, Published
<1>6. ASSUME NEW h \in Hosts, Prune(h) PROVE HostInv(g)'
  BY <1>6 DEF Prune, Step, Condemned, Alive
<1>7. ASSUME NEW h \in Hosts, Drop(h) PROVE HostInv(g)'
  BY <1>7 DEF Drop, Step, Removal
<1>8. ASSUME NEW h \in Hosts, Look(h) PROVE HostInv(g)'
  BY <1>8 DEF Look, Step
<1>9. ASSUME NEW h \in Hosts, Resolve(h) PROVE HostInv(g)'
  BY <1>9 DEF Resolve, Ends, Step
<1>10. ASSUME NEW h \in Hosts, Replace(h) PROVE HostInv(g)'
  BY <1>10 DEF Replace, Ends, Step
<1>11. ASSUME NEW h \in Hosts, Withdraw(h) PROVE HostInv(g)'
  BY <1>11 DEF Withdraw, Ends, Step, Removal
<1>12. ASSUME NEW h \in Hosts, Unpublish(h) PROVE HostInv(g)'
  BY <1>12 DEF Unpublish, Step, Removal
<1>13. ASSUME NEW h \in Hosts, Heartbeat(h) PROVE HostInv(g)'
  BY <1>13 DEF Heartbeat, Step
<1>14. ASSUME NEW h \in Hosts, CloseRemoves(h) PROVE HostInv(g)'
  BY <1>14 DEF CloseRemoves, Settled, Removal
<1>15. ASSUME NEW h \in Hosts, Close(h) PROVE HostInv(g)'
  BY <1>15 DEF Close
<1>16. ASSUME NEW h \in Hosts, ScanReads(h, TRUE) PROVE HostInv(g)'
  BY <1>16 DEF ScanReads
<1>17. ASSUME ScanBegins PROVE HostInv(g)'
  BY <1>17 DEF ScanBegins, Published
<1>18. ASSUME ScanEnds PROVE HostInv(g)'
  BY <1>18 DEF ScanEnds
<1>19. ASSUME NEW h \in Hosts, ScanReads(h, FALSE) PROVE HostInv(g)'
  BY <1>19 DEF ScanReads
<1> QED
  BY Steps, <1>1, <1>2, <1>3, <1>4, <1>5, <1>6, <1>7, <1>8, <1>9, <1>10,
     <1>11, <1>12, <1>13, <1>14, <1>15, <1>16, <1>17, <1>18, <1>19 DEF
     Publisher

LEMMA IInvStep == IInv /\ [Next]_vars => IInv'
<1> SUFFICES ASSUME IInv, [Next]_vars PROVE IInv'
  OBVIOUS
<1>1. CASE Next
  <2>1. MainTypes
    BY DEF IInv, TypeOK, MainTypes
  <2>2. MainTypes'
    BY <1>1, <2>1, TypesStep DEF IInv
  <2>3. steady' \subseteq Hosts
    BY <1>1, Steps, SteadyTyped DEF IInv
  <2>4. \A g \in Hosts : HostInv(g)'
    BY <1>1, <2>1, HostInvStep DEF IInv
  <2> QED
    BY <2>2, <2>3, <2>4 DEF IInv, TypeOK, MainTypes
<1>2. CASE UNCHANGED vars
  BY <1>2 DEF IInv, TypeOK, HostInv, vars, pubVars, closeVars, scanVars
<1> QED
  BY <1>1, <1>2

LEMMA Inductive == SafeSpec => []IInv
BY InitIInv, IInvStep, PTL DEF SafeSpec

-----------------------------------------------------------------------------
\* The variables keep their types, and the heartbeat timer of
\* LiveHostRegistrationPublisher is armed only while its publisher rests.
THEOREM TypeCorrect == SafeSpec => []TypeOK
<1>1. IInv => TypeOK
  BY DEF IInv
<1> QED
  BY <1>1, Inductive, PTL

\* A record that is neither removed nor left to age is one its owner writes.
LEMMA RecordChanges ==
  ASSUME IInv, [Next]_vars, NEW g \in Hosts
  PROVE  record'[g] \in {None, record[g], Older(record[g])} \/ at[g] = "write"
<1> DEFINE Ages(h) ==
      record'[h] \in {None, record[h], Older(record[h])} \/ at[h] = "write"
<1> SUFFICES Ages(g)
  OBVIOUS
<1>1. record \in [Hosts -> 0..Oldest \cup {None}]
  BY DEF IInv, TypeOK
<1>2. ASSUME NEW h, NEW succeeds, Removal(h, succeeds) PROVE Ages(g)
  BY <1>1, <1>2 DEF Removal
<1>3. CASE Tick
  BY <1>3 DEF Tick
<1>4. ASSUME NEW h \in Hosts, Replace(h) PROVE Ages(g)
  BY <1>1, <1>4 DEF Replace, Ends, Step
<1>5. ASSUME NEW h \in Hosts,
             Drop(h) \/ Withdraw(h) \/ Unpublish(h) \/ CloseRemoves(h)
      PROVE  Ages(g)
  BY <1>2, <1>5 DEF Drop, Withdraw, Unpublish, CloseRemoves
<1>6. ASSUME NEW h \in Hosts,
             \/ HostBegins(h) \/ HostEnds(h) \/ PidChangesHands(h)
             \/ OpenDirectory(h) \/ Prune(h) \/ Look(h)
             \/ Resolve(h) \/ Heartbeat(h) \/ Close(h)
             \/ ScanReads(h, TRUE) \/ ScanReads(h, FALSE)
      PROVE  Ages(g)
  BY <1>6 DEF HostBegins, HostEnds, PidChangesHands, OpenDirectory,
     Prune, Look, Resolve, Heartbeat, Close, ScanReads
<1>7. CASE ScanBegins \/ ScanEnds \/ UNCHANGED vars
  BY <1>7 DEF ScanBegins, ScanEnds, vars
<1> HIDE DEF Ages
<1> QED
  BY Steps, <1>3, <1>4, <1>5, <1>6, <1>7 DEF Publisher

\* close() resolves by its removal, and nothing else makes it done.
LEMMA DoneByRemoval ==
  ASSUME IInv, Next, NEW g \in Hosts, closing[g] # "done", closing'[g] = "done"
  PROVE  CloseRemoves(g)
<1>1. closing \in [Hosts -> {"none", "waiting", "done"}]
  BY DEF IInv, TypeOK
<1>2. ASSUME NEW h \in Hosts, HostEnds(h) \/ Close(h) PROVE FALSE
  BY <1>1, <1>2 DEF HostEnds, Close
<1>3. ASSUME NEW h \in Hosts, CloseRemoves(h) PROVE h = g
  BY <1>1, <1>3 DEF CloseRemoves
<1>4. ASSUME UNCHANGED closing PROVE FALSE
  BY <1>4
<1>5. ASSUME NEW h \in Hosts,
             \/ HostBegins(h) \/ PidChangesHands(h)
             \/ OpenDirectory(h) \/ Prune(h) \/ Drop(h) \/ Look(h)
             \/ Resolve(h) \/ Replace(h) \/ Withdraw(h) \/ Unpublish(h)
             \/ Heartbeat(h) \/ ScanReads(h, TRUE) \/ ScanReads(h, FALSE)
      PROVE  UNCHANGED closing
  BY <1>5 DEF HostBegins, PidChangesHands, OpenDirectory, Prune, Drop, Look,
     Resolve, Replace, Withdraw, Unpublish, Heartbeat, ScanReads, pubVars,
     closeVars
<1>6. ASSUME Tick \/ ScanBegins \/ ScanEnds PROVE UNCHANGED closing
  BY <1>6 DEF Tick, ScanBegins, ScanEnds, pubVars, closeVars
<1> QED
  BY <1>2, <1>3, <1>4, <1>5, <1>6, Steps DEF Publisher

\* When close() of LiveHostRegistrationPublisher resolves, the record is gone
\* or could not be removed (#removeOwnedRecord goes on without it), and from
\* then on no reconciliation writes it again, for any number of hosts that
\* prune, crash and scan around it.
THEOREM Withdrawal == SafeSpec => ClosedIsWithdrawn
<1> DEFINE Withdrawn(h) ==
      closing'[h] = "done" =>
        \/ record'[h] = None
        \/ h \in stuck' /\ record'[h] \in {record[h], Older(record[h])}
<1>1. ASSUME IInv, IInv', Next, NEW h \in Hosts PROVE Withdrawn(h)
  <2> SUFFICES ASSUME closing'[h] = "done", record'[h] # None
               PROVE  h \in stuck' /\ record'[h] \in {record[h], Older(record[h])}
    OBVIOUS
  <2>1. h \in stuck'
    BY <1>1 DEF IInv, HostInv
  <2>2. at[h] # "write"
    <3> SUFFICES ASSUME at[h] = "write" PROVE FALSE
      OBVIOUS
    <3>1. closing[h] # "done"
      BY <1>1 DEF IInv, HostInv
    <3>2. CloseRemoves(h)
      BY <1>1, <3>1, DoneByRemoval
    <3> QED
      BY <3>2 DEF CloseRemoves, Settled
  <2> QED
    BY <1>1, <2>1, <2>2, RecordChanges
<1>2. IInv /\ IInv' /\ [Next]_vars => [\A h \in Hosts : Withdrawn(h)]_vars
  BY <1>1
<1> QED
  BY <1>2, Inductive, PTL DEF SafeSpec, ClosedIsWithdrawn

\* A record goes by its owner's hand, if the owner lives, and never while a
\* new one is being written.
LEMMA RecordGoes ==
  ASSUME IInv, [Next]_vars, NEW g \in Hosts
  PROVE  record[g] # None /\ record'[g] = None
           => /\ proc[g] = "up" => \/ at[g] \in {"withdraw", "unpublish"}
                                   \/ closing[g] = "waiting"
              /\ at'[g] # "write"
<1> DEFINE ByItsOwner(h) ==
      record[h] # None /\ record'[h] = None
        => /\ proc[h] = "up" => \/ at[h] \in {"withdraw", "unpublish"}
                                \/ closing[h] = "waiting"
           /\ at'[h] # "write"
<1> SUFFICES ByItsOwner(g)
  OBVIOUS
<1>1. MainTypes /\ \A h \in Hosts : HostInv(h)
  BY DEF IInv, TypeOK, MainTypes
<1> USE <1>1, NoneAssumption DEF MainTypes, HostInv
<1>2. ASSUME Tick PROVE ByItsOwner(g)
  BY <1>2, StaleAssumption DEF Tick, Older, Oldest
<1>3. ASSUME NEW h \in Hosts, Drop(h) PROVE ByItsOwner(g)
  BY <1>3 DEF Drop, Step, Removal
<1>4. ASSUME NEW h \in Hosts, Replace(h) PROVE ByItsOwner(g)
  BY <1>4 DEF Replace, Ends, Step
<1>5. ASSUME NEW h \in Hosts, Withdraw(h) PROVE ByItsOwner(g)
  BY <1>5 DEF Withdraw, Ends, Step, Removal
<1>6. ASSUME NEW h \in Hosts, Unpublish(h) PROVE ByItsOwner(g)
  BY <1>6 DEF Unpublish, Step, Removal
<1>7. ASSUME NEW h \in Hosts, CloseRemoves(h) PROVE ByItsOwner(g)
  BY <1>7 DEF CloseRemoves, Settled, Removal
<1>8. ASSUME NEW h \in Hosts,
           \/ HostBegins(h) \/ HostEnds(h)
           \/ PidChangesHands(h) \/ OpenDirectory(h)
           \/ Prune(h) \/ Look(h)
           \/ Resolve(h) \/ Heartbeat(h)
           \/ Close(h) \/ ScanReads(h, TRUE)
           \/ ScanReads(h, FALSE)
      PROVE  ByItsOwner(g)
  BY <1>8 DEF HostBegins, HostEnds, PidChangesHands, OpenDirectory,
     Prune, Look, Resolve, Heartbeat, Close, ScanReads
<1>9. CASE ScanBegins \/ ScanEnds \/ UNCHANGED vars
  BY <1>9 DEF ScanBegins, ScanEnds, vars
<1> HIDE DEF ByItsOwner
<1> QED
  BY Steps, <1>2, <1>3, <1>4, <1>5, <1>6, <1>7, <1>8, <1>9 DEF Publisher

\* #pruneStaleRecords never removes the record of a process that is there:
\* between the judgement and the removal a dead owner does not come back.
THEOREM PruneIsSafe == SafeSpec => PruneSparesTheLiving
<1> DEFINE Spared(h) ==
      record[h] # None /\ record'[h] = None /\ proc[h] = "up"
        => at[h] \in {"withdraw", "unpublish"} \/ closing[h] = "waiting"
<1>1. IInv /\ [Next]_vars => [\A h \in Hosts : Spared(h)]_vars
  BY RecordGoes
<1> QED
  BY <1>1, Inductive, PTL DEF SafeSpec, PruneSparesTheLiving

-----------------------------------------------------------------------------
\* While it scans, a client has every steady host among its matches or still
\* to read, and that host's record is current; otherwise nobody is steady.
ScanInv ==
    /\ \A h \in steady : Current(h) /\ h \in todo \cup matches
    /\ found # "scanning" => steady = {} /\ matches = {}

LEMMA InitScanInv == Init => ScanInv
BY DEF Init, ScanInv

\* What the rest of the system does to the scan: nothing.
LEMMA ScanUntouched ==
  ASSUME Next
  PROVE  \/ UNCHANGED scanVars
         \/ ScanBegins \/ ScanEnds
         \/ \E h \in Hosts : ScanReads(h, TRUE) /\ Watch({})
         \/ \E h \in Hosts : ScanReads(h, FALSE) /\ Watch({h})
BY DEF Next, Tick, HostBegins, HostEnds, PidChangesHands, Publisher, Close,
   OpenDirectory, Prune, Drop, Look, Resolve, Replace, Withdraw, Unpublish,
   Heartbeat, CloseRemoves

LEMMA ScanInvStep == IInv /\ ScanInv /\ [Next]_vars => ScanInv'
<1> SUFFICES ASSUME IInv, ScanInv, [Next]_vars PROVE ScanInv'
  OBVIOUS
<1>1. CASE UNCHANGED vars
  BY <1>1 DEF ScanInv, Current, Alive, vars, scanVars
<1>2. CASE Next
  <2>1. PICK unread \in SUBSET Hosts : Watch(unread)
    BY <1>2, Steps
  <2>2. steady \subseteq Hosts
    BY DEF IInv, TypeOK
  <2>3. CASE found' # "scanning"
    <3>1. steady' = {}
      BY <2>1, <2>3 DEF Watch
    <3>2. matches' = {}
      BY <1>2, <2>3, ScanUntouched
         DEF ScanInv, scanVars, ScanBegins, ScanEnds, ScanReads
    <3> QED
      BY <3>1, <3>2 DEF ScanInv
  <2>4. CASE found' = "scanning" /\ found # "scanning"
    <3>1. ScanBegins
      BY <1>2, <2>4, ScanUntouched DEF scanVars, ScanEnds, ScanReads
    <3>2. steady' = {h \in Hosts : Current(h)}
      BY <2>1, <2>4 DEF Watch
    <3> QED
      BY <2>4, <3>1, <3>2 DEF ScanInv, ScanBegins, Published, Current, Alive
  <2>5. CASE found' = "scanning" /\ found = "scanning"
    <3>1. steady' = {h \in steady \ unread : StaysCurrent(h)'}
      BY <2>1, <2>5 DEF Watch
    <3>2. ASSUME NEW h \in steady' PROVE Current(h)'
      <4>1. h \in Hosts /\ record[h] # None
        BY <2>2, <3>1, <3>2 DEF ScanInv, Current
      <4>2. record'[h] = None => at'[h] # "write"
        BY <4>1, RecordGoes
      <4> QED
        BY <3>1, <3>2, <4>2 DEF StaysCurrent
    <3>3. ASSUME NEW h \in steady' PROVE h \in todo' \cup matches'
      <4>1. h \in steady /\ h \in todo \cup matches
        BY <3>1, <3>3 DEF ScanInv
      <4>2. CASE UNCHANGED scanVars
        BY <4>1, <4>2 DEF scanVars
      <4>3. CASE ScanBegins \/ ScanEnds
        BY <2>5, <4>3 DEF ScanBegins, ScanEnds
      <4>4. ASSUME NEW g \in Hosts, ScanReads(g, TRUE)
            PROVE  h \in todo' \cup matches'
        BY <4>1, <4>4 DEF ScanReads, ScanInv
      <4>5. ASSUME NEW g \in Hosts, ScanReads(g, FALSE), Watch({g})
            PROVE  h \in todo' \cup matches'
        <5>1. h # g
          BY <2>5, <3>3, <4>5 DEF Watch
        <5> QED
          BY <4>1, <4>5, <5>1 DEF ScanReads
      <4> QED
        BY <1>2, <4>2, <4>3, <4>4, <4>5, ScanUntouched
    <3> QED
      BY <2>5, <3>2, <3>3 DEF ScanInv
  <2> QED
    BY <2>3, <2>4, <2>5
<1> QED
  BY <1>1, <1>2

\* LiveHostRegistry.locate and the launcher's discover report the hosts that
\* were there: none only when none was, one only when there were not two,
\* however heartbeats, crashes and prunings fall between its reads.
THEOREM ScansAreSound ==
  ASSUME IsFiniteSet(Hosts)
  PROVE  SafeSpec => SteadyHostsAreSeen
<1> DEFINE Sound ==
      found = "scanning" /\ found' # "scanning"
        => /\ found' = "unavailable" => steady = {}
           /\ found' = "located" => Cardinality(steady) <= 1
<1>1. ASSUME IInv, ScanInv, Next PROVE Sound
  <2> SUFFICES ASSUME found = "scanning", found' # "scanning" PROVE Sound
    OBVIOUS
  <2>1. ScanEnds
    BY <1>1, ScanUntouched DEF scanVars, ScanBegins, ScanReads
  <2>2. steady \subseteq matches
    BY <1>1, <2>1 DEF ScanEnds, ScanInv
  <2>3. IsFiniteSet(matches)
    BY <1>1, FS_Subset DEF IInv, TypeOK
  <2>4. Cardinality(steady) <= Cardinality(matches)
    BY <2>2, <2>3, FS_Subset
  <2>5. Cardinality(steady) \in Nat
    BY <2>2, <2>3, FS_Subset, FS_CardinalityType
  <2>6. found' = "unavailable" => matches = {}
    BY <2>1 DEF ScanEnds
  <2>7. found' = "located" => Cardinality(matches) = 1
    BY <2>1 DEF ScanEnds
  <2> QED
    BY <2>2, <2>4, <2>5, <2>6, <2>7
<1>2. IInv /\ ScanInv /\ [Next]_vars => [Sound]_vars
  BY <1>1
<1>3. SafeSpec => []ScanInv
  BY Inductive, InitScanInv, ScanInvStep, PTL DEF SafeSpec
<1> QED
  BY <1>2, <1>3, Inductive, PTL DEF SafeSpec, SteadyHostsAreSeen
=============================================================================
