----------------------------- MODULE BridgeLink -----------------------------
(***************************************************************************)
(* The way of a tool call from the external MCP server to the extension:   *)
(* RegistryBridgeClient keeps one BridgeClient at a time, each with a pipe *)
(* of its own to the BridgeHost, which runs the tool handler and lets the  *)
(* dispatcher clean up when a connection ends.  (server/src/               *)
(* registryBridgeClient.ts, server/src/bridgeClient.ts,                    *)
(* src/bridge/bridgeHost.ts)                                               *)
(*                                                                         *)
(* Link n is the connection of the n-th connect operation.  A pipe keeps   *)
(* the order of its frames; whatever is still in it when one end goes may  *)
(* be read or lost.  The tool handler, the locator and the processes'      *)
(* lives are external.                                                     *)
(***************************************************************************)
EXTENDS Naturals, Sequences

CONSTANTS Calls,   \* the tool calls of the MCP client
          MaxLinks \* bound on the connect operations of a behaviour

ASSUME MaxLinksAssumption == MaxLinks \in Nat \ {0}

VARIABLES closed,      \* RegistryBridgeClient.#closed
          current,     \* RegistryBridgeClient.#connection, 0 if undefined
          operation,   \* RegistryBridgeClient.#connectOperation, 0 if none
          opened,      \* how many connect operations have begun
          connected,   \* per link: how its connect operation ended
          clientState, \* per link: BridgeClient.#state, "none" before it
          step,        \* per call: where it is in the client
          via,         \* per call: the link it waits for or was sent on
          outcome,     \* per call: how its promise was settled
          withdrawn,   \* the calls whose abort signal has fired
          up, down,    \* per link: frames to the host, and to the client
          hostState,   \* BridgeHost.#state
          conn,        \* per link: what the host has made of the pipe
          authenticated, \* HostConnection.authenticated
          requests,    \* the calls in the requests map of a connection
          cleanup,     \* per link: the onDisconnect promise
          handler,     \* per call: what the tool handler has done
          aborted      \* the calls whose handler's signal has fired

Links == 1..MaxLinks

registryVars == <<closed, current, operation, opened, connected>>
callVars == <<step, via, outcome, withdrawn>>
connVars == <<conn, authenticated, requests, cleanup>>
runVars == <<handler, aborted>>
clientVars == <<registryVars, clientState, callVars>>
hostVars == <<hostState, connVars, runVars>>
vars == <<clientVars, up, down, hostVars>>

Ends == {"result", "error"}

Init ==
    /\ closed = FALSE
    /\ current = 0 /\ operation = 1 /\ opened = 1
    /\ connected = [n \in Links |-> IF n = 1 THEN "pending" ELSE "none"]
    /\ clientState = [n \in Links |-> "none"]
    /\ step = [c \in Calls |-> "idle"]
    /\ via = [c \in Calls |-> 0]
    /\ outcome = [c \in Calls |-> "none"]
    /\ withdrawn = {}
    /\ up = [n \in Links |-> <<>>] /\ down = [n \in Links |-> <<>>]
    /\ hostState = "open"
    /\ conn = [n \in Links |-> "none"]
    /\ authenticated = {} /\ requests = {}
    /\ cleanup = [n \in Links |-> "none"]
    /\ handler = [c \in Calls |-> "none"]
    /\ aborted = {}

Hello == [type |-> "hello"]
HelloAck == [type |-> "helloAck"]
Request(c) == [type |-> "request", call |-> c]
Cancel(c) == [type |-> "cancel", call |-> c]
Response(c, how) == [type |-> "response", call |-> c, how |-> how]

Open(n) == clientState[n] \in {"connecting", "ready"}

\* Fault: the pending calls are forgotten with the connection.
LoseLinkForgetting(n, now) ==
    /\ clientState' = [clientState EXCEPT ![n] = "closed"]
    /\ step' = [c \in Calls |->
                  IF step[c] = "pending" /\ via[c] = n THEN "done" ELSE step[c]]
    /\ UNCHANGED outcome
    /\ current' = now

\* #failTransport of link n's client: its pending calls are rejected; the
\* caller says what #connection is afterwards.
LoseLink(n, now) ==
    LET lost == {c \in Calls : step[c] = "pending" /\ via[c] = n}
    IN  /\ clientState' = [clientState EXCEPT ![n] = "closed"]
        /\ step' = [c \in Calls |-> IF c \in lost THEN "done" ELSE step[c]]
        /\ outcome' = [c \in Calls |->
                         IF c \in lost THEN "unavailable" ELSE outcome[c]]
        /\ current' = now

\* The wrapper forgets a connection that failed under one of its calls.
CurrentWithout(n) ==
    IF current = n /\ \E c \in Calls : step[c] = "pending" /\ via[c] = n
    THEN 0 ELSE current

\* The connect operation that owns link n ends.
EndOperation(n, how) ==
    /\ connected' = [connected EXCEPT ![n] = how]
    /\ operation' = IF operation = n THEN 0 ELSE operation

Tell(c, how) ==
    /\ step' = [step EXCEPT ![c] = "done"]
    /\ outcome' = [outcome EXCEPT ![c] = how]

-----------------------------------------------------------------------------
(* RegistryBridgeClient.                                                   *)

\* The server takes calls once its first connect operation has succeeded.
Serving == connected[1] = "ok"

CurrentReady == current # 0 /\ clientState[current] = "ready"

\* A call that is refused before it looks for a connection.
CallRefused(c) ==
    /\ Serving /\ step[c] = "idle"
    /\ \/ c \in withdrawn /\ Tell(c, "cancelled")
       \/ c \notin withdrawn /\ closed /\ Tell(c, "unavailable")
    /\ UNCHANGED <<registryVars, clientState, via, withdrawn, up, down,
                   hostVars>>

\* Fault: every call that finds no connection begins a connect operation.
CallUnshared(c) ==
    /\ Serving /\ step[c] = "idle"
    /\ c \notin withdrawn /\ ~closed
    /\ step' = [step EXCEPT ![c] = "waiting"]
    /\ \/ /\ CurrentReady
          /\ via' = [via EXCEPT ![c] = current]
          /\ UNCHANGED <<current, operation, opened, connected>>
       \/ /\ ~CurrentReady
          /\ opened < MaxLinks
          /\ opened' = opened + 1 /\ operation' = opened'
          /\ connected' = [connected EXCEPT ![opened'] = "pending"]
          /\ via' = [via EXCEPT ![c] = opened']
          /\ current' = 0
    /\ UNCHANGED <<closed, clientState, outcome, withdrawn, up, down, hostVars>>

\* #connectionForNewCall: the connection if it is ready, else the connect
\* operation under way, else a new one.  MaxLinks bounds the new ones.
Call(c) ==
    /\ Serving /\ step[c] = "idle"
    /\ c \notin withdrawn /\ ~closed
    /\ step' = [step EXCEPT ![c] = "waiting"]
    /\ \/ /\ CurrentReady
          /\ via' = [via EXCEPT ![c] = current]
          /\ UNCHANGED <<current, operation, opened, connected>>
       \/ /\ ~CurrentReady
          /\ current' = 0
          /\ \/ /\ operation # 0
                /\ via' = [via EXCEPT ![c] = operation]
                /\ UNCHANGED <<operation, opened, connected>>
             \/ /\ operation = 0 /\ opened < MaxLinks
                /\ opened' = opened + 1 /\ operation' = opened'
                /\ connected' = [connected EXCEPT ![opened'] = "pending"]
                /\ via' = [via EXCEPT ![c] = opened']
    /\ UNCHANGED <<closed, clientState, outcome, withdrawn, up, down, hostVars>>

\* The connection is there: BridgeClient.callTool sends the request, unless
\* the call was withdrawn, the client is not ready or the frame is too large.
Send(c) ==
    /\ step[c] = "waiting" /\ connected[via[c]] = "ok"
    /\ LET n == via[c]
       IN  \/ /\ c \in withdrawn
              /\ Tell(c, "cancelled")
              /\ UNCHANGED <<current, up>>
           \/ /\ c \notin withdrawn
              /\ Tell(c, "unavailable")
              /\ current' = IF current = n /\ clientState[n] # "ready"
                            THEN 0 ELSE current
              /\ UNCHANGED up
           \/ /\ c \notin withdrawn /\ clientState[n] = "ready"
              /\ step' = [step EXCEPT ![c] = "pending"]
              /\ up' = [up EXCEPT ![n] = Append(@, Request(c))]
              /\ UNCHANGED <<outcome, current>>
    /\ UNCHANGED <<closed, operation, opened, connected, clientState, via,
                   withdrawn, down, hostVars>>

\* The connect operation failed under the calls that waited for it.
WaitFails(c) ==
    /\ step[c] = "waiting" /\ connected[via[c]] = "failed"
    /\ Tell(c, "unavailable")
    /\ UNCHANGED <<registryVars, clientState, via, withdrawn, up, down,
                   hostVars>>

\* Fault: the host is not told that the call was withdrawn.
WithdrawSilently(c) ==
    /\ c \notin withdrawn /\ step[c] # "done"
    /\ withdrawn' = withdrawn \cup {c}
    /\ IF step[c] = "pending" THEN Tell(c, "cancelled")
                              ELSE UNCHANGED <<step, outcome>>
    /\ UNCHANGED <<registryVars, clientState, via, up, down, hostVars>>

\* The abort signal fires.  A call that was sent settles at once and the host
\* is told; one that waits looks at the signal when it goes on.
Withdraw(c) ==
    /\ c \notin withdrawn /\ step[c] # "done"
    /\ withdrawn' = withdrawn \cup {c}
    /\ \/ /\ step[c] = "pending"
          /\ Tell(c, "cancelled")
          /\ up' = [up EXCEPT ![via[c]] = Append(@, Cancel(c))]
       \/ /\ step[c] # "pending"
          /\ UNCHANGED <<step, outcome, up>>
    /\ UNCHANGED <<registryVars, clientState, via, down, hostVars>>

\* close(): a connect operation under way goes on by itself.
Close ==
    /\ Serving /\ ~closed
    /\ closed' = TRUE
    /\ \/ /\ CurrentReady
          /\ LoseLink(current, 0)
       \/ /\ ~CurrentReady
          /\ current' = 0
          /\ UNCHANGED <<clientState, step, outcome>>
    /\ UNCHANGED <<operation, opened, connected, via, withdrawn, up, down,
                   hostVars>>

\* The locator finds a host, or fails.
Locate(n) ==
    /\ connected[n] = "pending" /\ clientState[n] = "none"
    /\ \/ /\ clientState' = [clientState EXCEPT ![n] = "connecting"]
          /\ UNCHANGED <<operation, connected>>
       \/ EndOperation(n, "failed") /\ UNCHANGED clientState
    /\ UNCHANGED <<closed, current, opened, callVars, up, down, hostVars>>

-----------------------------------------------------------------------------
(* BridgeClient.                                                           *)

\* Fault: the client is ready as soon as it has said hello.
SocketConnectsReady(n) ==
    /\ clientState[n] = "connecting" /\ conn[n] = "none"
    /\ hostState \in {"open", "closing"}
    /\ conn' = [conn EXCEPT ![n] = "queued"]
    /\ up' = [up EXCEPT ![n] = Append(@, Hello)]
    /\ clientState' = [clientState EXCEPT ![n] = "ready"]
    /\ EndOperation(n, "ok")
    /\ current' = n
    /\ UNCHANGED <<closed, opened, callVars, down, hostState, authenticated,
                   requests, cleanup, runVars>>

\* The pipe is made and the client says hello.
SocketConnects(n) ==
    /\ clientState[n] = "connecting" /\ conn[n] = "none"
    /\ hostState \in {"open", "closing"}
    /\ conn' = [conn EXCEPT ![n] = "queued"]
    /\ up' = [up EXCEPT ![n] = Append(@, Hello)]
    /\ UNCHANGED <<clientVars, down, hostState, authenticated, requests,
                   cleanup, runVars>>

\* The acknowledgement is late, the pipe is not there, or the host has gone:
\* the client fails, and with it the connect operation that waits for it.
ConnectFails(n) ==
    /\ clientState[n] = "connecting"
    /\ LoseLink(n, current)
    /\ EndOperation(n, "failed")
    /\ UNCHANGED <<closed, opened, via, withdrawn, up, down, hostVars>>

\* The 'close' of a pipe whose other end the host has destroyed.
ClientLosesLink(n) ==
    /\ clientState[n] = "ready" /\ conn[n] = "gone"
    /\ LoseLink(n, CurrentWithout(n))
    /\ UNCHANGED <<closed, operation, opened, connected, via, withdrawn, up,
                   down, hostVars>>

\* The acknowledgement makes the client ready, and the connect operation goes
\* on in the same turn: it closes the connection if close() came first.
ClientReceivesAck(n) ==
    /\ clientState[n] = "connecting"
    /\ down[n] # <<>> /\ Head(down[n]) = HelloAck
    /\ down' = [down EXCEPT ![n] = Tail(@)]
    /\ \/ /\ ~closed
          /\ clientState' = [clientState EXCEPT ![n] = "ready"]
          /\ current' = n
          /\ EndOperation(n, "ok")
       \/ /\ closed
          /\ clientState' = [clientState EXCEPT ![n] = "closed"]
          /\ EndOperation(n, "failed")
          /\ UNCHANGED current
    /\ UNCHANGED <<closed, opened, callVars, up, hostVars>>

\* Fault: a response settles its call again.
ClientReceivesResponseAnyway(n) ==
    /\ clientState[n] = "ready"
    /\ down[n] # <<>> /\ Head(down[n]) # HelloAck
    /\ LET f == Head(down[n]) IN Tell(f.call, f.how)
    /\ down' = [down EXCEPT ![n] = Tail(@)]
    /\ UNCHANGED <<registryVars, clientState, via, withdrawn, up, hostVars>>

\* #settle: the response of a call that is no longer pending is ignored.
ClientReceivesResponse(n) ==
    /\ clientState[n] = "ready"
    /\ down[n] # <<>> /\ Head(down[n]) # HelloAck
    /\ LET f == Head(down[n])
       IN  IF step[f.call] = "pending" THEN Tell(f.call, f.how)
                                       ELSE UNCHANGED <<step, outcome>>
    /\ down' = [down EXCEPT ![n] = Tail(@)]
    /\ UNCHANGED <<registryVars, clientState, via, withdrawn, up, hostVars>>

-----------------------------------------------------------------------------
(* BridgeHost.                                                             *)

OnLinks(S) == {c \in requests : via[c] \in S}

\* #disconnect of the open connections in S: abort their handlers and begin
\* the dispatcher's cleanup if the connection had said hello.
Terminate(S) ==
    /\ conn' = [n \in Links |-> IF n \in S THEN "gone" ELSE conn[n]]
    /\ aborted' = aborted \cup OnLinks(S)
    /\ requests' = requests \ OnLinks(S)
    /\ cleanup' = [n \in Links |-> IF n \in S \cap authenticated
                                   THEN "running" ELSE cleanup[n]]

\* #accept: a host that closes destroys the socket.
Accept(n) ==
    /\ conn[n] = "queued"
    /\ conn' = [conn EXCEPT ![n] = IF hostState = "open" THEN "open" ELSE "gone"]
    /\ UNCHANGED <<clientVars, up, down, hostState, authenticated, requests,
                   cleanup, runVars>>

\* The hello is late, or the pipe's other end has gone.
HostLosesLink(n) ==
    /\ conn[n] = "open"
    /\ n \notin authenticated \/ ~Open(n)
    /\ Terminate({n})
    /\ UNCHANGED <<clientVars, up, down, hostState, authenticated, handler>>

HostReads(n, type) ==
    /\ conn[n] = "open"
    /\ up[n] # <<>> /\ Head(up[n]).type = type
    /\ up' = [up EXCEPT ![n] = Tail(@)]

HostReceivesHello(n) ==
    /\ HostReads(n, "hello")
    /\ authenticated' = authenticated \cup {n}
    /\ down' = [down EXCEPT ![n] = Append(@, HelloAck)]
    /\ UNCHANGED <<clientVars, hostState, conn, requests, cleanup, runVars>>

\* #dispatch: the handler starts in the same turn.
HostReceivesRequest(n) ==
    /\ HostReads(n, "request")
    /\ LET c == Head(up[n]).call
       IN  /\ requests' = requests \cup {c}
           /\ handler' = [handler EXCEPT ![c] = "running"]
    /\ UNCHANGED <<clientVars, down, hostState, conn, authenticated, cleanup,
                   aborted>>

HostReceivesCancel(n) ==
    /\ HostReads(n, "cancel")
    /\ aborted' = aborted \cup ({Head(up[n]).call} \cap requests)
    /\ UNCHANGED <<clientVars, down, hostState, connVars, handler>>

\* The handler ends.  Its response is written if the connection is still
\* there; a result that is too large becomes an error.
HandlerEnds(c) ==
    /\ handler[c] = "running"
    /\ \E how \in Ends :
         /\ handler' = [handler EXCEPT ![c] = how]
         /\ down' = IF conn[via[c]] = "open"
                    THEN [down EXCEPT ![via[c]] = Append(@, Response(c, how))]
                    ELSE down
    /\ requests' = requests \ {c}
    /\ UNCHANGED <<clientVars, up, hostState, conn, authenticated, cleanup,
                   aborted>>

\* The handler ends with something the protocol cannot carry, which costs the
\* connection and the other calls on it.
HandlerEndsUnserializable(c) ==
    /\ handler[c] = "running" /\ conn[via[c]] = "open"
    /\ handler' = [handler EXCEPT ![c] = "error"]
    /\ Terminate({via[c]})
    /\ UNCHANGED <<clientVars, up, down, hostState, authenticated>>

CleanupEnds(n) ==
    /\ cleanup[n] = "running"
    /\ cleanup' = [cleanup EXCEPT ![n] = "done"]
    /\ UNCHANGED <<clientVars, up, down, hostState, conn, authenticated,
                   requests, runVars>>

HostCloses ==
    /\ hostState = "open"
    /\ hostState' = "closing"
    /\ Terminate({n \in Links : conn[n] = "open"})
    /\ UNCHANGED <<clientVars, up, down, authenticated, handler>>

\* A pipe that was not accepted ends with its server.
Unaccepted == [n \in Links |-> IF conn[n] = "queued" THEN "gone" ELSE conn[n]]

\* #closeResources: the server has closed and the cleanups have ended.  The
\* handlers still running are not awaited.
HostClosed ==
    /\ hostState = "closing"
    /\ \A n \in Links : cleanup[n] # "running"
    /\ hostState' = "closed"
    /\ conn' = Unaccepted
    /\ UNCHANGED <<clientVars, up, down, authenticated, requests, cleanup,
                   runVars>>

\* The window reloads, in order or by a crash, and a new host may listen.
HostProcessEnds ==
    /\ hostState' = "ended"
    /\ hostState # "ended"
    /\ conn' = [n \in Links |-> IF conn[n] = "none" THEN "none" ELSE "gone"]
    /\ requests' = {}
    /\ cleanup' = [n \in Links |->
                     IF n \in authenticated /\ cleanup[n] # "done"
                     THEN "lost" ELSE cleanup[n]]
    /\ handler' = [c \in Calls |->
                     IF handler[c] = "running" THEN "lost" ELSE handler[c]]
    /\ UNCHANGED <<clientVars, up, down, authenticated, aborted>>

\* The new host has a pipe of its own: a descriptor read before leads nowhere.
HostProcessBegins ==
    /\ hostState = "ended"
    /\ hostState' = "open"
    /\ conn' = [n \in Links |-> IF clientState[n] = "none" THEN "none" ELSE "gone"]
    /\ UNCHANGED <<clientVars, up, down, authenticated, requests, cleanup,
                   runVars>>

-----------------------------------------------------------------------------
Next ==
    \/ \E c \in Calls :
         \/ CallRefused(c) \/ Call(c) \/ Send(c) \/ WaitFails(c) \/ Withdraw(c)
         \/ HandlerEnds(c) \/ HandlerEndsUnserializable(c)
    \/ \E n \in Links :
         \/ Locate(n) \/ SocketConnects(n) \/ ConnectFails(n)
         \/ ClientLosesLink(n) \/ ClientReceivesAck(n)
         \/ ClientReceivesResponse(n)
         \/ Accept(n) \/ HostLosesLink(n) \/ HostReceivesHello(n)
         \/ HostReceivesRequest(n) \/ HostReceivesCancel(n) \/ CleanupEnds(n)
    \/ Close
    \/ HostCloses \/ HostClosed \/ HostProcessEnds \/ HostProcessBegins

SafeSpec == Init /\ [][Next]_vars

\* Microtasks run, sockets deliver or report their end and timers fire.
\* Handlers need not end, and nobody need call, withdraw, close or crash.
Spec ==
    /\ SafeSpec
    /\ \A c \in Calls : WF_vars(Send(c)) /\ WF_vars(WaitFails(c))
    /\ \A n \in Links :
         /\ WF_vars(Locate(n)) /\ WF_vars(ConnectFails(n))
         /\ WF_vars(ClientLosesLink(n)) /\ WF_vars(ClientReceivesResponse(n))
         /\ WF_vars(~Open(n) /\ HostLosesLink(n))
         /\ WF_vars(HostReceivesRequest(n)) /\ WF_vars(HostReceivesCancel(n))

-----------------------------------------------------------------------------
(* Properties.                                                             *)

DownFrames == {HelloAck} \cup {Response(c, how) : c \in Calls, how \in Ends}

\* Types; the frames in a pipe are frames of its direction.
TypeOK ==
    /\ closed \in BOOLEAN
    /\ {current, operation, opened} \subseteq 0..MaxLinks
    /\ connected \in [Links -> {"none", "pending", "ok", "failed"}]
    /\ clientState \in [Links -> {"none", "connecting", "ready", "closed"}]
    /\ step \in [Calls -> {"idle", "waiting", "pending", "done"}]
    /\ via \in [Calls -> 0..MaxLinks]
    /\ withdrawn \subseteq Calls
    /\ up \in [Links -> Seq([type : {"hello"}]
                            \cup [type : {"request", "cancel"}, call : Calls])]
    /\ down \in [Links -> Seq(DownFrames)]
    /\ hostState \in {"open", "closing", "closed", "ended"}
    /\ conn \in [Links -> {"none", "queued", "open", "gone"}]
    /\ authenticated \subseteq Links
    /\ requests \subseteq Calls /\ aborted \subseteq Calls
    /\ cleanup \in [Links -> {"none", "running", "done", "lost"}]

\* Variables keep their types, and however many calls find the connection
\* broken at the same time, one connect operation is shared, and a second link never lives beside one
\* that is not closed yet; after close() only the operation that has yet to
\* find out has one.
OneLiveLink ==
    /\ TypeOK
    /\ \A m, n \in Links : Open(m) /\ Open(n) => m = n
    /\ \A n \in Links : connected[n] = "pending" <=> operation = n
    /\ current # 0 /\ operation # 0 => ~Open(current)
    /\ closed => current = 0 /\ \A n \in Links : Open(n) => operation = n

\* Neither peer ever sends a frame that the other would take for a protocol
\* failure: the hello comes first and once, so does its acknowledgement, a
\* request is sent once and a cancel only after its request.
PeersAgree ==
    /\ \A n \in Links : conn[n] = "open" /\ up[n] # <<>> =>
         (Head(up[n]) = Hello <=> n \notin authenticated)
    /\ \A n \in Links : Open(n) /\ down[n] # <<>> =>
         (Head(down[n]) = HelloAck <=> clientState[n] = "connecting")
    /\ \A n \in Links : \A i \in 1..Len(up[n]) :
         LET f == up[n][i]
         IN  /\ f.type = "request" => handler[f.call] = "none"
             /\ f.type = "cancel" /\ conn[n] = "open" /\ handler[f.call] = "none"
                  => \E j \in 1..(i - 1) : up[n][j] = Request(f.call)

\* The host forgets neither a handler nor a client.  A handler that runs has
\* been told to stop or can be reached by a cancel, and when its client has
\* gone on without it, the cancel is on its way or the link about to end.
\* The dispatcher's cleanup begins for a connection exactly when one that had
\* said hello ends; a closed host has no connection and no cleanup left.
NobodyIsForgotten ==
    /\ \A c \in Calls : handler[c] = "running" /\ c \notin aborted =>
         /\ c \in requests /\ conn[via[c]] = "open"
         /\ outcome[c] # "none" /\ Open(via[c]) =>
              \E i \in DOMAIN up[via[c]] : up[via[c]][i] = Cancel(c)
    /\ \A n \in Links :
         cleanup[n] # "none" <=> n \in authenticated /\ conn[n] = "gone"
    /\ hostState = "closed" =>
         \A n \in Links : conn[n] # "open" /\ cleanup[n] # "running"

AMO == INSTANCE AtMostOnceCalls

\* Reconnecting never replays a call, a late response never contradicts what
\* the client was told, and results are those of the handler.
ImplementsAtMostOnceCalls == AMO!ACSpec

\* Whatever becomes of its link, a call that is not being worked on is sooner
\* or later answered or worked on.
EveryCallIsAnswered ==
    \A c \in Calls :
      step[c] \in {"waiting", "pending"} /\ handler[c] # "running"
        ~> outcome[c] # "none" \/ handler[c] = "running"
=============================================================================
