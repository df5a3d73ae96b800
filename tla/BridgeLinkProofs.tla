-------------------------- MODULE BridgeLinkProofs --------------------------
(***************************************************************************)
(* Proofs about BridgeLink, for any calls and any number of connections,   *)
(* and about the framing of its pipes, for any chunks, any frames and any  *)
(* state of a decoder's buffer.                                            *)
(***************************************************************************)
EXTENDS BridgeLink, Framing, SequenceTheorems, TLAPS

-----------------------------------------------------------------------------
(* The invariant.                                                          *)

In(q, f) == \E i \in 1..Len(q) : q[i] = f

Outcomes == {"none", "cancelled", "unavailable"} \cup Ends
HandlerStates == {"none", "running", "lost"} \cup Ends

\* The types of what TypeOK leaves out.
DataInv ==
    /\ outcome \in [Calls -> Outcomes]
    /\ handler \in [Calls -> HandlerStates]

\* A link is connecting only while its connect operation is under way, and a
\* link that is ready is the current one.
LinkInv ==
    /\ \A n \in Links : connected[n] = "none" <=> n > opened
    /\ \A n \in Links : connected[n] = "pending" <=> operation = n
    /\ \A n \in Links : clientState[n] = "none" => connected[n] # "ok"
    /\ \A n \in Links : clientState[n] = "connecting" => connected[n] = "pending"
    /\ \A n \in Links : clientState[n] = "ready" => connected[n] = "ok" /\ current = n
    /\ \A n \in Links : clientState[n] = "closed" => connected[n] \in {"ok", "failed"}
    /\ current # 0 /\ operation # 0 => clientState[current] \notin {"connecting", "ready"}
    /\ current # 0 => connected[current] = "ok"
    /\ closed => current = 0

\* What is so for good once c's request has been sent on link n.
Sent(c, n) ==
    via[c] = n /\ connected[n] = "ok" /\ step[c] \in {"pending", "done"}

\* A call has an outcome when it is done; until then its link is there.
CallInv ==
    /\ \A c \in Calls : outcome[c] = "none" <=> step[c] # "done"
    /\ \A c \in Calls : step[c] = "waiting" => via[c] \in Links /\ connected[via[c]] # "none"
    /\ \A c \in Calls : step[c] = "pending" => via[c] \in Links /\ clientState[via[c]] = "ready"
    /\ \A c \in Calls : handler[c] # "none" => via[c] \in Links /\ Sent(c, via[c])

\* The beginning of a pipe's life: hello, its acknowledgement, and only then
\* anything else.  A host that is not open has no open connection.
PipeInv ==
    /\ \A n \in Links : clientState[n] = "none" => conn[n] = "none"
    /\ \A n \in Links : conn[n] = "none" =>
         up[n] = <<>> /\ down[n] = <<>> /\ n \notin authenticated
    /\ \A n \in Links : conn[n] = "queued" => n \notin authenticated
    /\ \A n \in Links : conn[n] \in {"queued", "open"} =>
         IF n \in authenticated THEN ~In(up[n], Hello) ELSE up[n] = <<Hello>>
    /\ \A n \in Links : clientState[n] = "connecting" =>
         down[n] = IF n \in authenticated THEN <<HelloAck>> ELSE <<>>
    /\ \A n \in Links : clientState[n] = "ready" =>
         n \in authenticated /\ ~In(down[n], HelloAck)
    /\ hostState # "open" => \A n \in Links : conn[n] # "open"
    /\ hostState \in {"closed", "ended"} => \A n \in Links : conn[n] # "queued"

RequestFirst(q, c) ==
    \A i \in 1..Len(q) : q[i] = Cancel(c) => \E j \in 1..(i - 1) : q[j] = Request(c)

OneRequest(q) ==
    \A i, j \in 1..Len(q) : q[i].type = "request" /\ q[i] = q[j] => i = j

\* The frames under way: a request once and only until its handler starts, a
\* cancel only of a call that was given up, a response only of its handler.
FrameInv ==
    /\ \A n \in Links, c \in Calls : In(up[n], Request(c)) =>
         Sent(c, n) /\ handler[c] = "none"
    /\ \A n \in Links, c \in Calls : In(up[n], Cancel(c)) =>
         Sent(c, n) /\ step[c] = "done"
    /\ \A n \in Links : OneRequest(up[n])
    /\ \A n \in Links, c \in Calls : conn[n] = "open" /\ handler[c] = "none" =>
         RequestFirst(up[n], c)
    /\ \A c \in Calls : step[c] = "pending" /\ conn[via[c]] = "open" /\ handler[c] = "none" =>
         In(up[via[c]], Request(c))
    /\ \A n \in Links, c \in Calls, how \in Ends : In(down[n], Response(c, how)) =>
         via[c] = n /\ handler[c] = how

\* What the host knows of handlers and connections.
HostInv ==
    /\ \A c \in requests : handler[c] = "running" /\ conn[via[c]] = "open"
    /\ \A c \in Calls : handler[c] = "running" => c \in requests \cup aborted
    /\ \A n \in Links : cleanup[n] # "none" <=> n \in authenticated /\ conn[n] = "gone"
    /\ hostState = "closed" => \A n \in Links : cleanup[n] # "running"

\* A call that was given up on a live link, and that the host is working on or
\* has yet to read, has a cancel under way.
NoticeInv ==
    \A c \in Calls :
      /\ step[c] = "done" /\ via[c] # 0 /\ Open(via[c])
      /\ (handler[c] = "running" /\ c \notin aborted) \/ In(up[via[c]], Request(c))
      => In(up[via[c]], Cancel(c))

Inv ==
    /\ TypeOK /\ DataInv /\ LinkInv /\ CallInv
    /\ PipeInv /\ FrameInv /\ HostInv /\ NoticeInv

-----------------------------------------------------------------------------
(* Frames and pipes.                                                       *)

UpFrames == [type : {"hello"}] \cup [type : {"request", "cancel"}, call : Calls]

\* The frames of a direction are told apart by their fields.
LEMMA FramesDiffer ==
    /\ \A c, d \in Calls :
         /\ Request(c) = Request(d) => c = d
         /\ Cancel(c) = Cancel(d) => c = d
         /\ Request(c) # Cancel(d) /\ Request(c) # Hello /\ Cancel(c) # Hello
         /\ Request(c).type = "request" /\ Cancel(c).type = "cancel"
         /\ Request(c).call = c /\ Cancel(c).call = c
         /\ Request(c) \in UpFrames /\ Cancel(c) \in UpFrames
    /\ Hello.type = "hello" /\ Hello \in UpFrames
BY DEF Request, Cancel, Hello, UpFrames

LEMMA ResponsesDiffer ==
    /\ \A c, d \in Calls : \A how, end \in Ends :
         /\ Response(c, how) = Response(d, end) => c = d /\ how = end
         /\ Response(c, how) # HelloAck /\ Response(c, how) \in DownFrames
         /\ Response(c, how).call = c /\ Response(c, how).how = how
    /\ HelloAck \in DownFrames
<1>1. ASSUME NEW c \in Calls, NEW d \in Calls, NEW how \in Ends, NEW end \in Ends,
             Response(c, how) = Response(d, end)
      PROVE  c = d /\ how = end
  <2>1. /\ Response(c, how).call = c /\ Response(d, end).call = d
        /\ Response(c, how).how = how /\ Response(d, end).how = end
    BY DEF Response
  <2> QED
    BY <1>1, <2>1
<1>2. ASSUME NEW c \in Calls, NEW how \in Ends
      PROVE  Response(c, how) # HelloAck
  <2>1. Response(c, how).type = "response" /\ HelloAck.type = "helloAck"
    BY DEF Response, HelloAck
  <2> QED
    BY <2>1
<1>3. \A c \in Calls : \A how \in Ends :
        /\ Response(c, how) \in DownFrames
        /\ Response(c, how).call = c /\ Response(c, how).how = how
  BY DEF Response, DownFrames
<1>4. HelloAck \in DownFrames
  BY DEF DownFrames
<1> QED
  BY <1>1, <1>2, <1>3, <1>4

LEMMA UpFrame ==
    ASSUME NEW f \in UpFrames
    PROVE  /\ f.type = "hello" <=> f = Hello
           /\ f.type \in {"request", "cancel"} => f.call \in Calls
           /\ f.type = "request" <=> \E c \in Calls : f = Request(c)
           /\ f.type = "cancel" <=> \E c \in Calls : f = Cancel(c)
           /\ f.type = "request" => f = Request(f.call)
           /\ f.type = "cancel" => f = Cancel(f.call)
BY DEF UpFrames, Hello, Request, Cancel

LEMMA DownFrame ==
    ASSUME NEW f \in DownFrames, f # HelloAck
    PROVE  f.call \in Calls /\ f.how \in Ends /\ f = Response(f.call, f.how)
<1>1. PICK c \in Calls, how \in Ends : f = Response(c, how)
  BY DEF DownFrames
<1> QED
  BY <1>1, ResponsesDiffer

-----------------------------------------------------------------------------
LEMMA InAppend ==
    ASSUME NEW S, NEW q \in Seq(S), NEW e \in S, NEW f
    PROVE  In(Append(q, e), f) <=> In(q, f) \/ f = e
BY AppendProperties DEF In

LEMMA InTail ==
    ASSUME NEW S, NEW q \in Seq(S), q # <<>>, NEW f
    PROVE  In(q, f) <=> f = Head(q) \/ In(Tail(q), f)
<1>1. /\ Len(q) \in Nat \ {0} /\ Head(q) = q[1]
      /\ Len(Tail(q)) = Len(q) - 1
      /\ \A i \in 1..(Len(q) - 1) : Tail(q)[i] = q[i + 1]
  BY HeadTailProperties, EmptySeq, LenProperties
<1>2. ASSUME NEW i \in 1..Len(q), q[i] = f
      PROVE  f = Head(q) \/ In(Tail(q), f)
  <2>1. CASE i = 1
    BY <1>1, <1>2, <2>1
  <2>2. CASE i # 1
    <3>1. i - 1 \in 1..(Len(q) - 1) /\ Tail(q)[i - 1] = q[i]
      BY <1>1, <2>2
    <3> QED
      BY <1>1, <1>2, <3>1 DEF In
  <2> QED
    BY <2>1, <2>2
<1>3. ASSUME NEW i \in 1..Len(Tail(q)), Tail(q)[i] = f
      PROVE  In(q, f)
  <2>1. i + 1 \in 1..Len(q) /\ q[i + 1] = f
    BY <1>1, <1>3
  <2> QED
    BY <2>1 DEF In
<1>4. f = Head(q) => In(q, f)
  <2>1. 1 \in 1..Len(q)
    BY <1>1
  <2> QED
    BY <1>1, <2>1 DEF In
<1> QED
  BY <1>2, <1>3, <1>4 DEF In

LEMMA InShort ==
    /\ \A f : ~In(<<>>, f)
    /\ \A e, f : In(<<e>>, f) <=> f = e
BY DEF In

LEMMA OneRequestAppend ==
    ASSUME NEW q \in Seq(UpFrames), NEW e \in UpFrames, OneRequest(q),
           e.type = "request" => ~In(q, e)
    PROVE  OneRequest(Append(q, e))
<1>1. /\ Len(q) \in Nat /\ Len(Append(q, e)) = Len(q) + 1
      /\ \A i \in 1..Len(q) : Append(q, e)[i] = q[i]
      /\ Append(q, e)[Len(q) + 1] = e
  BY AppendProperties, LenProperties
<1> SUFFICES ASSUME NEW i \in 1..(Len(q) + 1), NEW j \in 1..(Len(q) + 1),
                    Append(q, e)[i].type = "request",
                    Append(q, e)[i] = Append(q, e)[j]
             PROVE  i = j
  BY <1>1 DEF OneRequest
<1>2. CASE i \in 1..Len(q) /\ j \in 1..Len(q)
  BY <1>1, <1>2 DEF OneRequest
<1>3. CASE i = Len(q) + 1 /\ j \in 1..Len(q)
  BY <1>1, <1>3 DEF In
<1>4. CASE i \in 1..Len(q) /\ j = Len(q) + 1
  BY <1>1, <1>4 DEF In
<1> QED
  BY <1>1, <1>2, <1>3, <1>4

LEMMA OneRequestTail ==
    ASSUME NEW q \in Seq(UpFrames), q # <<>>, OneRequest(q)
    PROVE  /\ OneRequest(Tail(q))
           /\ Head(q).type = "request" => ~In(Tail(q), Head(q))
<1>1. /\ Len(q) \in Nat \ {0} /\ Head(q) = q[1]
      /\ Len(Tail(q)) = Len(q) - 1
      /\ \A i \in 1..(Len(q) - 1) : Tail(q)[i] = q[i + 1]
  BY HeadTailProperties, EmptySeq, LenProperties
<1>2. ASSUME NEW i \in 1..(Len(q) - 1), NEW j \in 1..(Len(q) - 1),
             Tail(q)[i].type = "request", Tail(q)[i] = Tail(q)[j]
      PROVE  i = j
  <2>1. i + 1 \in 1..Len(q) /\ j + 1 \in 1..Len(q)
    BY <1>1
  <2>2. i + 1 = j + 1
    BY <1>1, <1>2, <2>1 DEF OneRequest
  <2> QED
    BY <1>1, <2>2
<1>3. ASSUME Head(q).type = "request", NEW i \in 1..(Len(q) - 1),
             Tail(q)[i] = Head(q)
      PROVE  FALSE
  <2>1. i + 1 \in 1..Len(q) /\ 1 \in 1..Len(q) /\ i + 1 # 1
    BY <1>1
  <2> QED
    BY <1>1, <1>3, <2>1 DEF OneRequest
<1> QED
  BY <1>1, <1>2, <1>3 DEF OneRequest, In

LEMMA RequestFirstAppend ==
    ASSUME NEW q \in Seq(UpFrames), NEW e \in UpFrames, NEW c, RequestFirst(q, c),
           e = Cancel(c) => In(q, Request(c))
    PROVE  RequestFirst(Append(q, e), c)
<1>1. /\ Len(q) \in Nat /\ Len(Append(q, e)) = Len(q) + 1
      /\ \A i \in 1..Len(q) : Append(q, e)[i] = q[i]
      /\ Append(q, e)[Len(q) + 1] = e
  BY AppendProperties, LenProperties
<1> SUFFICES ASSUME NEW i \in 1..(Len(q) + 1), Append(q, e)[i] = Cancel(c)
             PROVE  \E j \in 1..(i - 1) : Append(q, e)[j] = Request(c)
  BY <1>1 DEF RequestFirst
<1>2. CASE i \in 1..Len(q)
  <2>1. PICK j \in 1..(i - 1) : q[j] = Request(c)
    BY <1>1, <1>2 DEF RequestFirst
  <2>2. j \in 1..Len(q)
    BY <1>1, <1>2
  <2> QED
    BY <1>1, <2>1, <2>2
<1>3. CASE i = Len(q) + 1
  <2>1. PICK j \in 1..Len(q) : q[j] = Request(c)
    BY <1>1, <1>3 DEF In
  <2>2. j \in 1..(i - 1)
    BY <1>1, <1>3
  <2> QED
    BY <1>1, <2>1, <2>2
<1> QED
  BY <1>1, <1>2, <1>3

LEMMA RequestFirstTail ==
    ASSUME NEW q \in Seq(UpFrames), q # <<>>, NEW c, RequestFirst(q, c)
    PROVE  /\ Head(q) # Cancel(c)
           /\ Head(q) # Request(c) => RequestFirst(Tail(q), c)
<1>1. /\ Len(q) \in Nat \ {0} /\ Head(q) = q[1]
      /\ Len(Tail(q)) = Len(q) - 1
      /\ \A i \in 1..(Len(q) - 1) : Tail(q)[i] = q[i + 1]
  BY HeadTailProperties, EmptySeq, LenProperties
<1>2. Head(q) # Cancel(c)
  <2>1. 1 \in 1..Len(q) /\ 1..(1 - 1) = {}
    BY <1>1
  <2> QED
    BY <1>1, <2>1 DEF RequestFirst
<1>3. ASSUME Head(q) # Request(c), NEW i \in 1..(Len(q) - 1), Tail(q)[i] = Cancel(c)
      PROVE  \E j \in 1..(i - 1) : Tail(q)[j] = Request(c)
  <2>1. i + 1 \in 1..Len(q) /\ q[i + 1] = Cancel(c)
    BY <1>1, <1>3
  <2>2. PICK j \in 1..((i + 1) - 1) : q[j] = Request(c)
    BY <2>1 DEF RequestFirst
  <2>3. j # 1
    BY <1>1, <1>3, <2>2
  <2>4. j - 1 \in 1..(i - 1) /\ j - 1 \in 1..(Len(q) - 1) /\ (j - 1) + 1 = j
    BY <1>1, <2>3
  <2>5. Tail(q)[j - 1] = Request(c)
    BY <1>1, <2>2, <2>4
  <2> QED
    BY <2>4, <2>5
<1> QED
  BY <1>1, <1>2, <1>3 DEF RequestFirst

-----------------------------------------------------------------------------
(* The steps, by whom they are of.                                         *)

CallStep(c) ==
    \/ CallRefused(c) \/ Call(c) \/ Send(c) \/ WaitFails(c) \/ Withdraw(c)
    \/ HandlerEnds(c) \/ HandlerEndsUnserializable(c)

LinkStep(n) ==
    \/ Locate(n) \/ SocketConnects(n) \/ ConnectFails(n)
    \/ ClientLosesLink(n) \/ ClientReceivesAck(n) \/ ClientReceivesResponse(n)
    \/ Accept(n) \/ HostLosesLink(n) \/ HostReceivesHello(n)
    \/ HostReceivesRequest(n) \/ HostReceivesCancel(n) \/ CleanupEnds(n)

HostStep == HostCloses \/ HostClosed \/ HostProcessEnds \/ HostProcessBegins

LEMMA NextSplits ==
    Next => \/ \E c \in Calls : CallStep(c)
            \/ \E n \in Links : LinkStep(n)
            \/ Close \/ HostStep
BY DEF Next, CallStep, LinkStep, HostStep

-----------------------------------------------------------------------------
(* Types.                                                                  *)

LEMMA Bounds == MaxLinks \in Nat /\ 1 \in Links /\ Links \subseteq 0..MaxLinks
BY MaxLinksAssumption DEF Links

\* The links that calls and frames refer to exist.
LEMMA LinksInUse ==
    ASSUME Inv
    PROVE  /\ \A c \in Calls : step[c] \in {"waiting", "pending"} => via[c] \in Links
           /\ \A c \in Calls : handler[c] # "none" => via[c] \in Links
           /\ current # 0 => current \in Links
           /\ operation # 0 => operation \in Links
           /\ opened \in Nat /\ opened <= MaxLinks
           /\ \A n \in Links : opened < n => opened + 1 <= MaxLinks
BY Bounds DEF Inv, CallInv, TypeOK, Links

LEMMA TypesOfTheClient ==
    ASSUME Inv, Next
    PROVE  /\ closed' \in BOOLEAN
           /\ {current, operation, opened}' \subseteq 0..MaxLinks
           /\ connected' \in [Links -> {"none", "pending", "ok", "failed"}]
           /\ clientState' \in [Links -> {"none", "connecting", "ready", "closed"}]
           /\ via' \in [Calls -> 0..MaxLinks]
           /\ withdrawn' \subseteq Calls
<1> DEFINE Goal == /\ closed' \in BOOLEAN
                   /\ {current, operation, opened}' \subseteq 0..MaxLinks
                   /\ connected' \in [Links -> {"none", "pending", "ok", "failed"}]
                   /\ clientState' \in [Links -> {"none", "connecting", "ready", "closed"}]
                   /\ via' \in [Calls -> 0..MaxLinks]
                   /\ withdrawn' \subseteq Calls
<1>1. /\ closed \in BOOLEAN
      /\ {current, operation, opened} \subseteq 0..MaxLinks
      /\ connected \in [Links -> {"none", "pending", "ok", "failed"}]
      /\ clientState \in [Links -> {"none", "connecting", "ready", "closed"}]
      /\ via \in [Calls -> 0..MaxLinks]
      /\ withdrawn \subseteq Calls
  BY DEF Inv, TypeOK
<1> USE DEF registryVars, callVars, clientVars
<1>2. ASSUME NEW c \in Calls, CallRefused(c) \/ WaitFails(c) \/ HandlerEnds(c)
                            \/ HandlerEndsUnserializable(c)
      PROVE  Goal
  BY <1>1, <1>2 DEF CallRefused, WaitFails, HandlerEnds,
       HandlerEndsUnserializable, Tell
<1>3. ASSUME NEW c \in Calls, Call(c)
      PROVE  Goal
  <2>1. opened < MaxLinks => opened + 1 \in Links /\ opened + 1 \in 0..MaxLinks
    BY <1>1, Bounds DEF Links
  <2>2. 0 \in 0..MaxLinks
    BY Bounds
  <2>3. {current, operation, opened}' \subseteq 0..MaxLinks /\ via' \in [Calls -> 0..MaxLinks]
    BY <1>1, <1>3, <2>1, <2>2 DEF Call
  <2>4. connected' \in [Links -> {"none", "pending", "ok", "failed"}]
    BY <1>1, <1>3 DEF Call
  <2> QED
    BY <1>1, <1>3, <2>3, <2>4 DEF Call
<1>4. ASSUME NEW c \in Calls, Send(c) \/ Withdraw(c)
      PROVE  Goal
  <2>1. 0 \in 0..MaxLinks
    BY Bounds
  <2> QED
    BY <1>1, <1>4, <2>1 DEF Send, Withdraw, Tell
<1>5. ASSUME NEW n \in Links, Locate(n) \/ SocketConnects(n) \/ ConnectFails(n)
                            \/ ClientLosesLink(n)
      PROVE  Goal
  <2>1. 0 \in 0..MaxLinks
    BY Bounds
  <2> QED
    BY <1>1, <1>5, <2>1 DEF Locate, SocketConnects, ConnectFails,
         ClientLosesLink, LoseLink, CurrentWithout, EndOperation
<1>6. ASSUME NEW n \in Links, ClientReceivesAck(n) \/ ClientReceivesResponse(n)
      PROVE  Goal
  <2>1. 0 \in 0..MaxLinks /\ n \in 0..MaxLinks
    BY Bounds
  <2> QED
    BY <1>1, <1>6, <2>1 DEF ClientReceivesAck, ClientReceivesResponse, Tell,
         EndOperation
<1>7. ASSUME NEW n \in Links,
             \/ Accept(n) \/ HostLosesLink(n) \/ HostReceivesHello(n)
             \/ HostReceivesRequest(n) \/ HostReceivesCancel(n) \/ CleanupEnds(n)
      PROVE  Goal
  BY <1>1, <1>7 DEF Accept, HostLosesLink, HostReceivesHello,
       HostReceivesRequest, HostReceivesCancel, CleanupEnds
<1>8. ASSUME Close
      PROVE  Goal
  <2>1. 0 \in 0..MaxLinks
    BY Bounds
  <2> QED
    BY <1>1, <1>8, <2>1 DEF Close, LoseLink
<1>9. ASSUME HostCloses \/ HostClosed \/ HostProcessEnds \/ HostProcessBegins
      PROVE  Goal
  BY <1>1, <1>9 DEF HostCloses, HostClosed, HostProcessEnds, HostProcessBegins
<1> HIDE DEF Goal
<1>10. ASSUME NEW c \in Calls, CallStep(c)
      PROVE  Goal
  BY <1>10, <1>2, <1>3, <1>4, <1>5, <1>6, <1>7, <1>8, <1>9 DEF CallStep
<1>11. ASSUME NEW n \in Links, LinkStep(n)
      PROVE  Goal
  BY <1>11, <1>2, <1>3, <1>4, <1>5, <1>6, <1>7, <1>8, <1>9 DEF LinkStep
<1>12. Goal
  BY <1>8, <1>9, <1>10, <1>11, NextSplits DEF HostStep
<1> QED
  BY <1>12 DEF Goal

LEMMA TypesOfTheCalls ==
    ASSUME Inv, Next
    PROVE  /\ step' \in [Calls -> {"idle", "waiting", "pending", "done"}]
           /\ outcome' \in [Calls -> Outcomes]
           /\ handler' \in [Calls -> HandlerStates]
           /\ requests' \subseteq Calls /\ aborted' \subseteq Calls
<1> DEFINE Goal == /\ step' \in [Calls -> {"idle", "waiting", "pending", "done"}]
                   /\ outcome' \in [Calls -> Outcomes]
                   /\ handler' \in [Calls -> HandlerStates]
                   /\ requests' \subseteq Calls /\ aborted' \subseteq Calls
<1>1. /\ step \in [Calls -> {"idle", "waiting", "pending", "done"}]
      /\ outcome \in [Calls -> Outcomes]
      /\ handler \in [Calls -> HandlerStates]
      /\ requests \subseteq Calls /\ aborted \subseteq Calls
      /\ {"cancelled", "unavailable", "result", "error"} \subseteq Outcomes
      /\ {"running", "lost", "result", "error"} \subseteq HandlerStates
      /\ Ends \subseteq Outcomes /\ Ends \subseteq HandlerStates
  BY DEF Inv, TypeOK, DataInv, Outcomes, HandlerStates, Ends
<1> USE DEF registryVars, callVars, clientVars, hostVars, connVars, runVars
<1>2. ASSUME NEW c \in Calls, CallRefused(c) \/ Call(c) \/ Send(c) \/ WaitFails(c) \/ Withdraw(c)
      PROVE  Goal
  BY <1>1, <1>2 DEF CallRefused, Call, Send, WaitFails, Withdraw, Tell
<1>3. ASSUME NEW c \in Calls, HandlerEnds(c)
      PROVE  Goal
  BY <1>1, <1>3 DEF HandlerEnds
<1>4. ASSUME NEW c \in Calls, HandlerEndsUnserializable(c)
      PROVE  Goal
  <2>1. OnLinks({via[c]}) \subseteq Calls
    BY <1>1 DEF OnLinks
  <2> QED
    BY <1>1, <1>4, <2>1 DEF HandlerEndsUnserializable, Terminate
<1>5. ASSUME NEW n \in Links, Locate(n) \/ SocketConnects(n) \/ ConnectFails(n)
                            \/ ClientLosesLink(n) \/ ClientReceivesAck(n)
      PROVE  Goal
  BY <1>1, <1>5 DEF Locate, SocketConnects, ConnectFails, ClientLosesLink,
       LoseLink, ClientReceivesAck
<1>6. ASSUME NEW n \in Links, ClientReceivesResponse(n)
      PROVE  Goal
  <2> DEFINE f == Head(down[n])
  <2>1. f \in DownFrames /\ f # HelloAck
    BY <1>6, HeadTailProperties, EmptySeq DEF Inv, TypeOK, ClientReceivesResponse
  <2>2. f.how \in Ends
    BY <2>1, DownFrame
  <2> HIDE DEF f
  <2>3. step' \in [Calls -> {"idle", "waiting", "pending", "done"}]
        /\ outcome' \in [Calls -> Outcomes]
    BY <1>1, <1>6, <2>2 DEF ClientReceivesResponse, Tell, f
  <2> QED
    BY <1>1, <1>6, <2>3 DEF ClientReceivesResponse
<1>7. ASSUME NEW n \in Links, Accept(n) \/ HostReceivesHello(n) \/ CleanupEnds(n)
      PROVE  Goal
  BY <1>1, <1>7 DEF Accept, HostReceivesHello, CleanupEnds
<1>8. ASSUME NEW n \in Links, HostReceivesRequest(n) \/ HostReceivesCancel(n)
      PROVE  Goal
  <2>1. /\ up[n] \in Seq(UpFrames) /\ up[n] # <<>>
        /\ Head(up[n]).type \in {"request", "cancel"}
    BY <1>8 DEF Inv, TypeOK, UpFrames, HostReceivesRequest, HostReceivesCancel,
         HostReads
  <2>2. Head(up[n]) \in UpFrames
    BY <2>1, HeadTailProperties, EmptySeq
  <2>3. Head(up[n]).call \in Calls
    BY <2>1, <2>2, UpFrame
  <2> QED
    BY <1>1, <1>8, <2>3 DEF HostReceivesRequest, HostReceivesCancel
<1>9. ASSUME NEW n \in Links, HostLosesLink(n)
      PROVE  Goal
  <2>1. OnLinks({n}) \subseteq Calls
    BY <1>1 DEF OnLinks
  <2> QED
    BY <1>1, <1>9, <2>1 DEF HostLosesLink, Terminate
<1>10. ASSUME Close
      PROVE  Goal
  BY <1>1, <1>10 DEF Close, LoseLink
<1>11. ASSUME HostCloses
      PROVE  Goal
  <2>1. OnLinks({n \in Links : conn[n] = "open"}) \subseteq Calls
    BY <1>1 DEF OnLinks
  <2> QED
    BY <1>1, <1>11, <2>1 DEF HostCloses, Terminate
<1>12. ASSUME HostClosed \/ HostProcessEnds \/ HostProcessBegins
      PROVE  Goal
  BY <1>1, <1>12 DEF HostClosed, HostProcessEnds, HostProcessBegins
<1> HIDE DEF Goal
<1>13. ASSUME NEW c \in Calls, CallStep(c)
      PROVE  Goal
  BY <1>13, <1>2, <1>3, <1>4, <1>5, <1>6, <1>7, <1>8, <1>9, <1>10, <1>11,
       <1>12 DEF CallStep
<1>14. ASSUME NEW n \in Links, LinkStep(n)
      PROVE  Goal
  BY <1>14, <1>2, <1>3, <1>4, <1>5, <1>6, <1>7, <1>8, <1>9, <1>10, <1>11,
       <1>12 DEF LinkStep
<1>15. Goal
  BY <1>10, <1>11, <1>12, <1>13, <1>14, NextSplits DEF HostStep
<1> QED
  BY <1>15 DEF Goal

LEMMA TypesOfTheHost ==
    ASSUME Inv, Next
    PROVE  /\ hostState' \in {"open", "closing", "closed", "ended"}
           /\ conn' \in [Links -> {"none", "queued", "open", "gone"}]
           /\ authenticated' \subseteq Links
           /\ cleanup' \in [Links -> {"none", "running", "done", "lost"}]
<1> DEFINE Goal == /\ hostState' \in {"open", "closing", "closed", "ended"}
                   /\ conn' \in [Links -> {"none", "queued", "open", "gone"}]
                   /\ authenticated' \subseteq Links
                   /\ cleanup' \in [Links -> {"none", "running", "done", "lost"}]
<1>1. /\ hostState \in {"open", "closing", "closed", "ended"}
      /\ conn \in [Links -> {"none", "queued", "open", "gone"}]
      /\ authenticated \subseteq Links
      /\ cleanup \in [Links -> {"none", "running", "done", "lost"}]
  BY DEF Inv, TypeOK
<1> USE DEF hostVars, connVars
<1>2. ASSUME NEW c \in Calls, CallRefused(c) \/ Call(c) \/ Send(c) \/ WaitFails(c) \/ Withdraw(c)
      PROVE  Goal
  BY <1>1, <1>2 DEF CallRefused, Call, Send, WaitFails, Withdraw
<1>3. ASSUME NEW c \in Calls, HandlerEnds(c) \/ HandlerEndsUnserializable(c)
      PROVE  Goal
  BY <1>1, <1>3 DEF HandlerEnds, HandlerEndsUnserializable, Terminate
<1>4. ASSUME NEW n \in Links, Locate(n) \/ ConnectFails(n) \/ ClientLosesLink(n)
                            \/ ClientReceivesAck(n) \/ ClientReceivesResponse(n)
      PROVE  Goal
  BY <1>1, <1>4 DEF Locate, ConnectFails, ClientLosesLink, ClientReceivesAck,
       ClientReceivesResponse
<1>5. ASSUME NEW n \in Links,
             \/ SocketConnects(n) \/ Accept(n) \/ HostLosesLink(n) \/ HostReceivesHello(n)
             \/ HostReceivesRequest(n) \/ HostReceivesCancel(n) \/ CleanupEnds(n)
      PROVE  Goal
  BY <1>1, <1>5 DEF SocketConnects, Accept, HostLosesLink, HostReceivesHello,
       HostReceivesRequest, HostReceivesCancel, CleanupEnds, Terminate
<1>6. ASSUME Close
      PROVE  Goal
  BY <1>1, <1>6 DEF Close
<1>7. ASSUME HostCloses \/ HostClosed \/ HostProcessEnds \/ HostProcessBegins
      PROVE  Goal
  BY <1>1, <1>7 DEF HostCloses, HostClosed, HostProcessEnds, HostProcessBegins,
       Terminate, Unaccepted
<1> HIDE DEF Goal
<1>8. ASSUME NEW c \in Calls, CallStep(c)
      PROVE  Goal
  BY <1>8, <1>2, <1>3, <1>4, <1>5, <1>6, <1>7 DEF CallStep
<1>9. ASSUME NEW n \in Links, LinkStep(n)
      PROVE  Goal
  BY <1>9, <1>2, <1>3, <1>4, <1>5, <1>6, <1>7 DEF LinkStep
<1>10. Goal
  BY <1>6, <1>7, <1>8, <1>9, NextSplits DEF HostStep
<1> QED
  BY <1>10 DEF Goal

-----------------------------------------------------------------------------
(* The client's connections and calls.                                     *)

linkVars == <<closed, current, operation, opened, connected, clientState>>

\* The steps that change what the client holds of its connections.
LEMMA LinkSteps ==
    ASSUME Next
    PROVE  \/ \E c \in Calls : Call(c) \/ Send(c)
           \/ \E n \in Links : \/ Locate(n) \/ ConnectFails(n)
                               \/ ClientLosesLink(n) \/ ClientReceivesAck(n)
           \/ Close
           \/ UNCHANGED linkVars
<1> DEFINE Goal == \/ \E c \in Calls : Call(c) \/ Send(c)
                   \/ \E n \in Links : \/ Locate(n) \/ ConnectFails(n)
                                       \/ ClientLosesLink(n) \/ ClientReceivesAck(n)
                   \/ Close
                   \/ UNCHANGED linkVars
<1> USE DEF linkVars, registryVars, clientVars
<1>1. ASSUME NEW c \in Calls, CallStep(c)
      PROVE  Goal
  BY <1>1 DEF CallStep, CallRefused, WaitFails, Withdraw, HandlerEnds,
       HandlerEndsUnserializable
<1>2. ASSUME NEW n \in Links, LinkStep(n)
      PROVE  Goal
  BY <1>2 DEF LinkStep, SocketConnects, ClientReceivesResponse, Accept,
       HostLosesLink,
       HostReceivesHello, HostReceivesRequest, HostReceivesCancel, CleanupEnds
<1>3. ASSUME HostStep
      PROVE  Goal
  BY <1>3 DEF HostStep, HostCloses, HostClosed, HostProcessEnds, HostProcessBegins
<1>4. Close => Goal
  OBVIOUS
<1> HIDE DEF Goal
<1>5. Goal
  BY <1>1, <1>2, <1>3, <1>4, NextSplits
<1> QED
  BY <1>5 DEF Goal

LEMMA LinkInvStep ==
    ASSUME Inv, Next
    PROVE  LinkInv'
<1>1. /\ closed \in BOOLEAN /\ opened \in Nat /\ opened <= MaxLinks
      /\ current # 0 => current \in Links
      /\ operation # 0 => operation \in Links
      /\ connected \in [Links -> {"none", "pending", "ok", "failed"}]
      /\ clientState \in [Links -> {"none", "connecting", "ready", "closed"}]
      /\ 0 \notin Links /\ Links \subseteq Nat
  BY LinksInUse DEF Inv, TypeOK, Links
<1>2. LinkInv
  BY DEF Inv
<1>3. ASSUME NEW c \in Calls, Call(c)
      PROVE  LinkInv'
  <2>1. CASE CurrentReady \/ operation # 0
    BY <1>1, <1>2, <1>3, <2>1 DEF Call, LinkInv, CurrentReady
  <2>2. CASE ~CurrentReady /\ operation = 0
    <3>1. /\ opened < MaxLinks /\ opened' = opened + 1 /\ operation' = opened + 1
          /\ connected' = [connected EXCEPT ![opened + 1] = "pending"]
          /\ current' = 0 /\ UNCHANGED <<closed, clientState>> /\ ~closed
      BY <1>3, <2>2 DEF Call
    <3>2. opened + 1 \in Links /\ connected[opened + 1] = "none"
      <4>1. opened + 1 \in Links
        BY <1>1, <3>1, MaxLinksAssumption DEF Links
      <4> QED
        BY <1>1, <1>2, <4>1 DEF LinkInv
    <3>3. /\ \A n \in Links : connected'[n] = IF n = opened + 1 THEN "pending" ELSE connected[n]
          /\ \A n \in Links : n > opened + 1 <=> n > opened /\ n # opened + 1
      BY <1>1, <3>1
    <3>4. clientState[opened + 1] = "none"
      BY <1>1, <1>2, <3>2 DEF LinkInv
    <3>5. \A n \in Links : n # opened + 1 => connected[n] # "pending"
      BY <1>1, <1>2, <2>2 DEF LinkInv
    <3>6. \A n \in Links : clientState[n] # "ready"
      BY <1>1, <1>2, <2>2 DEF LinkInv, CurrentReady
    <3> QED
      BY <1>1, <1>2, <3>1, <3>2, <3>3, <3>4, <3>5, <3>6 DEF LinkInv
  <2> QED
    BY <2>1, <2>2
<1>4. ASSUME NEW c \in Calls, Send(c)
      PROVE  LinkInv'
  <2>1. /\ current' = current \/ (current' = 0 /\ clientState[current] # "ready")
        /\ UNCHANGED <<closed, operation, opened, connected, clientState>>
    BY <1>4 DEF Send, Tell
  <2> QED
    BY <1>1, <1>2, <2>1 DEF LinkInv
<1>5. ASSUME NEW n \in Links, Locate(n)
      PROVE  LinkInv'
  <2>1. connected[n] = "pending" /\ operation = n /\ current # n
    BY <1>1, <1>2, <1>5 DEF Locate, LinkInv
  <2>2. CASE connected' = connected
    BY <1>1, <1>2, <1>5, <2>1, <2>2 DEF Locate, EndOperation, LinkInv
  <2>3. CASE connected' # connected
    <3>1. /\ connected' = [connected EXCEPT ![n] = "failed"] /\ operation' = 0
          /\ UNCHANGED <<closed, current, opened, clientState>>
          /\ clientState[n] = "none"
      BY <1>5, <2>1, <2>3 DEF Locate, EndOperation
    <3>2. /\ connected'[n] = "failed"
          /\ \A m \in Links : m # n => connected'[m] = connected[m]
      BY <1>1, <3>1
    <3> HIDE DEF Links
    <3> QED
      BY <1>1, <1>2, <2>1, <3>1, <3>2 DEF LinkInv
  <2> QED
    BY <2>2, <2>3
<1>6. ASSUME NEW n \in Links, ConnectFails(n)
      PROVE  LinkInv'
  BY <1>1, <1>2, <1>6 DEF ConnectFails, LoseLink, EndOperation, LinkInv
<1>7. ASSUME NEW n \in Links, ClientLosesLink(n)
      PROVE  LinkInv'
  <2>1. current' = 0 \/ current' = current
    BY <1>7 DEF ClientLosesLink, LoseLink, CurrentWithout
  <2> QED
    BY <1>1, <1>2, <1>7, <2>1 DEF ClientLosesLink, LoseLink, LinkInv
<1>8. ASSUME NEW n \in Links, ClientReceivesAck(n)
      PROVE  LinkInv'
  <2>1. connected[n] = "pending" /\ operation = n /\ clientState[n] = "connecting"
    BY <1>2, <1>8 DEF LinkInv, ClientReceivesAck
  <2>2. \A m \in Links : clientState[m] # "ready"
    BY <1>1, <1>2, <2>1 DEF LinkInv
  <2> QED
    BY <1>1, <1>2, <1>8, <2>1, <2>2 DEF ClientReceivesAck, EndOperation, LinkInv
<1>9. ASSUME Close
      PROVE  LinkInv'
  BY <1>1, <1>2, <1>9 DEF Close, LoseLink, CurrentReady, LinkInv
<1>10. ASSUME UNCHANGED linkVars
       PROVE  LinkInv'
  BY <1>2, <1>10 DEF linkVars, LinkInv
<1> QED
  BY <1>3, <1>4, <1>5, <1>6, <1>7, <1>8, <1>9, <1>10, LinkSteps

\* A connect operation that has succeeded stays so.
LEMMA ConnectedStays ==
    ASSUME Inv, Next, NEW n \in Links, connected[n] = "ok"
    PROVE  connected'[n] = "ok"
<1>1. /\ LinkInv /\ opened \in Nat
      /\ connected \in [Links -> {"none", "pending", "ok", "failed"}]
  BY LinksInUse DEF Inv, TypeOK
<1>2. ASSUME NEW c \in Calls, Call(c)
      PROVE  connected'[n] = "ok"
  <2>1. n # opened + 1
    BY <1>1 DEF LinkInv, Links
  <2> QED
    BY <1>1, <1>2, <2>1 DEF Call
<1>3. ASSUME NEW m \in Links,
             Locate(m) \/ ConnectFails(m) \/ ClientLosesLink(m) \/ ClientReceivesAck(m)
      PROVE  connected'[n] = "ok"
  <2>1. m # n \/ UNCHANGED connected
    BY <1>1, <1>3 DEF LinkInv, Locate, ConnectFails, ClientLosesLink,
         ClientReceivesAck
  <2> QED
    BY <1>1, <1>3, <2>1 DEF Locate, ConnectFails, ClientLosesLink,
         ClientReceivesAck, EndOperation
<1>4. ASSUME (\E c \in Calls : Send(c)) \/ Close \/ UNCHANGED linkVars
      PROVE  connected'[n] = "ok"
  BY <1>4 DEF Send, Close, linkVars
<1> QED
  BY <1>2, <1>3, <1>4, LinkSteps

\* What a step may do with a call in the client.
CallMove(c) ==
    \/ step'[c] = step[c] /\ via'[c] = via[c] /\ outcome'[c] = outcome[c]
    \/ /\ step[c] = "idle" /\ step'[c] = "waiting"
       /\ via'[c] \in Links /\ connected'[via'[c]] # "none"
       /\ outcome'[c] = outcome[c]
    \/ /\ step[c] = "waiting" /\ step'[c] = "pending"
       /\ via'[c] = via[c] /\ clientState[via[c]] = "ready"
       /\ outcome'[c] = outcome[c] /\ Send(c)
    \/ /\ step[c] # "done" /\ step'[c] = "done"
       /\ via'[c] = via[c] /\ outcome'[c] # "none"

\* The steps that change what the client holds of its calls.
LEMMA CallSteps ==
    ASSUME Next
    PROVE  \/ \E c \in Calls : \/ CallRefused(c) \/ Call(c) \/ Send(c)
                               \/ WaitFails(c) \/ Withdraw(c)
           \/ \E n \in Links : \/ ConnectFails(n) \/ ClientLosesLink(n)
                               \/ ClientReceivesResponse(n)
           \/ Close
           \/ UNCHANGED callVars
<1> DEFINE Goal == \/ \E c \in Calls : \/ CallRefused(c) \/ Call(c) \/ Send(c)
                                       \/ WaitFails(c) \/ Withdraw(c)
                   \/ \E n \in Links : \/ ConnectFails(n) \/ ClientLosesLink(n)
                                       \/ ClientReceivesResponse(n)
                   \/ Close
                   \/ UNCHANGED callVars
<1>1. ASSUME NEW c \in Calls, CallStep(c)
      PROVE  Goal
  BY <1>1 DEF CallStep, HandlerEnds, HandlerEndsUnserializable, clientVars
<1>2. ASSUME NEW n \in Links, LinkStep(n)
      PROVE  Goal
  BY <1>2 DEF LinkStep, Locate, SocketConnects, ClientReceivesAck, Accept,
       HostLosesLink,
       HostReceivesHello, HostReceivesRequest, HostReceivesCancel, CleanupEnds,
       clientVars
<1>3. ASSUME HostStep
      PROVE  Goal
  BY <1>3 DEF HostStep, HostCloses, HostClosed, HostProcessEnds,
       HostProcessBegins, clientVars
<1>4. Close => Goal
  OBVIOUS
<1> HIDE DEF Goal
<1>5. Goal
  BY <1>1, <1>2, <1>3, <1>4, NextSplits
<1> QED
  BY <1>5 DEF Goal

\* The response at the front of a pipe.
LEMMA ResponseRead ==
    ASSUME Inv, NEW n \in Links, ClientReceivesResponse(n)
    PROVE  LET f == Head(down[n])
           IN  /\ f.call \in Calls /\ f.how \in Ends /\ In(down[n], f)
               /\ f = Response(f.call, f.how)
               /\ via[f.call] = n /\ handler[f.call] = f.how
<1> DEFINE f == Head(down[n])
<1>1. /\ down[n] \in Seq(DownFrames) /\ down[n] # <<>>
      /\ f # HelloAck
  BY DEF Inv, TypeOK, ClientReceivesResponse
<1>2. f \in DownFrames /\ In(down[n], f)
  BY <1>1, InTail, HeadTailProperties, EmptySeq
<1> HIDE DEF f
<1>3. f.call \in Calls /\ f.how \in Ends /\ f = Response(f.call, f.how)
  BY <1>1, <1>2, DownFrame
<1>4. via[f.call] = n /\ handler[f.call] = f.how
  BY <1>2, <1>3 DEF Inv, FrameInv
<1> QED
  BY <1>2, <1>3, <1>4 DEF f

LEMMA CallMoves ==
    ASSUME Inv, Next, NEW d \in Calls
    PROVE  CallMove(d)
<1>1. /\ step \in [Calls -> {"idle", "waiting", "pending", "done"}]
      /\ via \in [Calls -> 0..MaxLinks]
      /\ outcome \in [Calls -> Outcomes]
      /\ connected \in [Links -> {"none", "pending", "ok", "failed"}]
      /\ opened \in Nat
  BY LinksInUse DEF Inv, TypeOK, DataInv
<1>2. \A c \in Calls : step[c] \in {"waiting", "pending"} => via[c] \in Links
  BY LinksInUse
<1>3. ASSUME NEW c \in Calls, CallRefused(c) \/ WaitFails(c) \/ Withdraw(c)
      PROVE  CallMove(d)
  BY <1>1, <1>3 DEF CallRefused, WaitFails, Withdraw, Tell, CallMove
<1>4. ASSUME NEW c \in Calls, Call(c)
      PROVE  CallMove(d)
  <2>1. /\ step[c] = "idle" /\ step' = [step EXCEPT ![c] = "waiting"]
        /\ outcome' = outcome
    BY <1>4 DEF Call
  <2>2. \E n \in Links : via' = [via EXCEPT ![c] = n] /\ connected'[n] # "none"
    <3>1. CASE CurrentReady
      <4>1. current \in Links /\ connected[current] # "none"
        BY <3>1, LinksInUse DEF CurrentReady, Inv, LinkInv
      <4> QED
        BY <1>4, <3>1, <4>1 DEF Call
    <3>2. CASE ~CurrentReady /\ operation # 0
      <4>1. operation \in Links /\ connected[operation] # "none"
        BY <3>2, LinksInUse DEF Inv, LinkInv
      <4> QED
        BY <1>4, <3>2, <4>1 DEF Call
    <3>3. CASE ~CurrentReady /\ operation = 0
      <4>1. opened' \in Links /\ via' = [via EXCEPT ![c] = opened']
        BY <1>1, <1>4, <3>3, MaxLinksAssumption DEF Call, Links
      <4>2. connected' = [connected EXCEPT ![opened'] = "pending"]
        BY <1>4, <3>3 DEF Call
      <4> QED
        BY <1>1, <4>1, <4>2
    <3> QED
      BY <3>1, <3>2, <3>3
  <2> QED
    BY <1>1, <2>1, <2>2 DEF CallMove
<1>5. ASSUME NEW c \in Calls, Send(c)
      PROVE  CallMove(d)
  BY <1>1, <1>5 DEF Send, Tell, CallMove
<1>6. ASSUME NEW n \in Links, ConnectFails(n) \/ ClientLosesLink(n)
      PROVE  CallMove(d)
  BY <1>1, <1>6 DEF ConnectFails, ClientLosesLink, LoseLink, CallMove
<1>7. ASSUME NEW n \in Links, ClientReceivesResponse(n)
      PROVE  CallMove(d)
  <2> DEFINE f == Head(down[n])
  <2>1. f.call \in Calls /\ f.how # "none"
    BY <1>7, ResponseRead DEF Ends
  <2>2. IF step[f.call] = "pending" THEN Tell(f.call, f.how) ELSE UNCHANGED <<step, outcome>>
    BY <1>7 DEF ClientReceivesResponse
  <2> HIDE DEF f
  <2>3. via' = via
    BY <1>7 DEF ClientReceivesResponse
  <2> QED
    BY <1>1, <2>1, <2>2, <2>3 DEF Tell, CallMove
<1>8. ASSUME Close
      PROVE  CallMove(d)
  BY <1>1, <1>8 DEF Close, LoseLink, CallMove
<1>9. ASSUME UNCHANGED callVars
      PROVE  CallMove(d)
  BY <1>9 DEF callVars, CallMove
<1> QED
  BY <1>3, <1>4, <1>5, <1>6, <1>7, <1>8, <1>9, CallSteps

\* A request that was sent stays sent.
LEMMA SentStays ==
    ASSUME Inv, Next, NEW c \in Calls, NEW n \in Links, Sent(c, n)
    PROVE  Sent(c, n)'
<1>1. connected'[n] = "ok"
  BY ConnectedStays DEF Sent
<1>2. CallMove(c)
  BY CallMoves
<1> QED
  BY <1>1, <1>2 DEF Sent, CallMove

\* The steps that change a handler.
LEMMA HandlerSteps ==
    ASSUME Inv, Next
    PROVE  \/ \E c \in Calls : HandlerEnds(c) \/ HandlerEndsUnserializable(c)
           \/ \E n \in Links : HostReceivesRequest(n)
           \/ HostProcessEnds
           \/ UNCHANGED handler
<1> DEFINE Goal == \/ \E c \in Calls : HandlerEnds(c) \/ HandlerEndsUnserializable(c)
                   \/ \E n \in Links : HostReceivesRequest(n)
                   \/ HostProcessEnds
                   \/ UNCHANGED handler
<1> USE DEF hostVars, runVars
<1>1. ASSUME NEW c \in Calls, CallStep(c)
      PROVE  Goal
  BY <1>1 DEF CallStep, CallRefused, Call, Send, WaitFails, Withdraw
<1>2. ASSUME NEW n \in Links, LinkStep(n)
      PROVE  Goal
  BY <1>2 DEF LinkStep, Locate, SocketConnects, ConnectFails, ClientLosesLink,
       ClientReceivesAck, ClientReceivesResponse, Accept, HostLosesLink,
       HostReceivesHello, HostReceivesCancel, CleanupEnds
<1>3. ASSUME Close \/ HostStep
      PROVE  Goal
  BY <1>3 DEF Close, HostStep, HostCloses, HostClosed, HostProcessBegins
<1> HIDE DEF Goal
<1>4. Goal
  BY <1>1, <1>2, <1>3, NextSplits
<1> QED
  BY <1>4 DEF Goal

\* What a host finds at the front of a pipe it reads.
LEMMA FrameRead ==
    ASSUME Inv, NEW n \in Links, NEW type \in {"hello", "request", "cancel"}, HostReads(n, type)
    PROVE  /\ conn[n] = "open" /\ up[n] \in Seq(UpFrames) /\ up[n] # <<>>
           /\ Head(up[n]) \in UpFrames /\ In(up[n], Head(up[n]))
           /\ up' = [up EXCEPT ![n] = Tail(up[n])] /\ Tail(up[n]) \in Seq(UpFrames)
           /\ type = "hello" => Head(up[n]) = Hello
           /\ type = "request" =>
                Head(up[n]).call \in Calls /\ Head(up[n]) = Request(Head(up[n]).call)
           /\ type = "cancel" =>
                Head(up[n]).call \in Calls /\ Head(up[n]) = Cancel(Head(up[n]).call)
<1>1. /\ conn[n] = "open" /\ up[n] \in Seq(UpFrames) /\ up[n] # <<>>
      /\ Head(up[n]).type = type /\ up' = [up EXCEPT ![n] = Tail(up[n])]
  BY DEF Inv, TypeOK, UpFrames, HostReads
<1>2. Head(up[n]) \in UpFrames /\ In(up[n], Head(up[n])) /\ Tail(up[n]) \in Seq(UpFrames)
  BY <1>1, InTail, HeadTailProperties, EmptySeq
<1> QED
  BY <1>1, <1>2, UpFrame

\* What a step may do with a handler.
LEMMA HandlerMoves ==
    ASSUME Inv, Next, NEW c \in Calls
    PROVE  \/ handler'[c] = handler[c]
           \/ /\ handler[c] = "none" /\ handler'[c] = "running"
              /\ \E n \in Links : HostReceivesRequest(n) /\ Head(up[n]) = Request(c)
           \/ handler[c] = "running" /\ handler'[c] \in Ends \cup {"lost"}
<1>1. handler \in [Calls -> HandlerStates]
  BY DEF Inv, DataInv
<1>2. ASSUME NEW d \in Calls, HandlerEnds(d) \/ HandlerEndsUnserializable(d)
      PROVE  handler'[c] = handler[c]
                                \/ (handler[c] = "running" /\ handler'[c] \in Ends \cup {"lost"})
  BY <1>1, <1>2 DEF HandlerEnds, HandlerEndsUnserializable, Ends
<1>3. ASSUME NEW n \in Links, HostReceivesRequest(n)
      PROVE  \/ handler'[c] = handler[c]
             \/ /\ handler[c] = "none" /\ handler'[c] = "running"
                /\ \E m \in Links : HostReceivesRequest(m) /\ Head(up[m]) = Request(c)
  <2> DEFINE d == Head(up[n]).call
  <2>1. d \in Calls /\ Head(up[n]) = Request(d) /\ In(up[n], Request(d))
    BY <1>3, FrameRead DEF HostReceivesRequest
  <2>2. handler[d] = "none"
    BY <2>1 DEF Inv, FrameInv
  <2>3. handler' = [handler EXCEPT ![d] = "running"]
    BY <1>3 DEF HostReceivesRequest
  <2> HIDE DEF d
  <2> QED
    BY <1>1, <1>3, <2>1, <2>2, <2>3
<1>4. ASSUME HostProcessEnds \/ UNCHANGED handler
      PROVE  handler'[c] = handler[c]
                                \/ (handler[c] = "running" /\ handler'[c] \in Ends \cup {"lost"})
  BY <1>1, <1>4 DEF HostProcessEnds
<1> QED
  BY <1>2, <1>3, <1>4, HandlerSteps

\* A connection that was ready is, unless the calls that were pending on it
\* are all settled.
LEMMA ReadyStays ==
    ASSUME Inv, Next, NEW n \in Links, clientState[n] = "ready"
    PROVE  \/ clientState'[n] = "ready"
           \/ \A c \in Calls : step[c] = "pending" /\ via[c] = n => step'[c] = "done"
<1>1. /\ clientState \in [Links -> {"none", "connecting", "ready", "closed"}]
      /\ step \in [Calls -> {"idle", "waiting", "pending", "done"}]
  BY DEF Inv, TypeOK
<1>2. ASSUME (\E c \in Calls : Call(c) \/ Send(c)) \/ UNCHANGED linkVars
      PROVE  clientState'[n] = "ready"
  BY <1>2 DEF Call, Send, linkVars
<1>3. ASSUME NEW m \in Links, Locate(m) \/ ConnectFails(m) \/ ClientReceivesAck(m)
      PROVE  clientState'[n] = "ready"
  BY <1>1, <1>3 DEF Locate, ConnectFails, ClientReceivesAck, LoseLink
<1>4. ASSUME NEW m \in Links, ClientLosesLink(m)
      PROVE  \/ clientState'[n] = "ready"
             \/ \A c \in Calls : step[c] = "pending" /\ via[c] = n => step'[c] = "done"
  BY <1>1, <1>4 DEF ClientLosesLink, LoseLink
<1>5. ASSUME Close
      PROVE  \/ clientState'[n] = "ready"
             \/ \A c \in Calls : step[c] = "pending" /\ via[c] = n => step'[c] = "done"
  BY <1>1, <1>5 DEF Close, LoseLink
<1> QED
  BY <1>2, <1>3, <1>4, <1>5, LinkSteps

LEMMA CallInvStep ==
    ASSUME Inv, Next
    PROVE  CallInv'
<1>1. \A c \in Calls : CallMove(c)
  BY CallMoves
<1>2. CallInv /\ LinkInv
  BY DEF Inv
<1>3. \A c \in Calls : (outcome[c] = "none" <=> step[c] # "done")'
  BY <1>1, <1>2 DEF CallInv, CallMove
<1>4. \A n \in Links : connected[n] # "none" => connected'[n] # "none"
  <2>1. connected \in [Links -> {"none", "pending", "ok", "failed"}]
    BY DEF Inv, TypeOK
  <2>2. ASSUME NEW n \in Links, Locate(n) \/ ConnectFails(n) \/ ClientLosesLink(n)
                            \/ ClientReceivesAck(n)
        PROVE  \A m \in Links : connected[m] # "none" => connected'[m] # "none"
    BY <2>1, <2>2 DEF Locate, ConnectFails, ClientLosesLink, ClientReceivesAck,
         EndOperation
  <2>3. ASSUME NEW c \in Calls, Call(c) \/ Send(c)
        PROVE  \A m \in Links : connected[m] # "none" => connected'[m] # "none"
    BY <2>1, <2>3 DEF Call, Send
  <2>4. ASSUME Close \/ UNCHANGED linkVars
        PROVE  \A m \in Links : connected[m] # "none" => connected'[m] # "none"
    BY <2>4 DEF Close, linkVars
  <2> QED
    BY <2>2, <2>3, <2>4, LinkSteps
<1>5. \A c \in Calls : (step[c] = "waiting" => via[c] \in Links /\ connected[via[c]] # "none")'
  BY <1>1, <1>2, <1>4 DEF CallInv, CallMove
<1>6. ASSUME NEW c \in Calls, step'[c] = "pending"
      PROVE  via'[c] \in Links /\ clientState'[via'[c]] = "ready"
  <2>1. CASE step[c] = "pending"
    <3>1. via'[c] = via[c] /\ via[c] \in Links /\ clientState[via[c]] = "ready"
      BY <1>1, <1>2, <1>6, <2>1 DEF CallInv, CallMove
    <3> QED
      BY <1>6, <2>1, <3>1, ReadyStays
  <2>2. CASE step[c] # "pending"
    <3>1. /\ step[c] = "waiting" /\ via'[c] = via[c] /\ via[c] \in Links
          /\ clientState[via[c]] = "ready" /\ Send(c)
      BY <1>1, <1>2, <1>6, <2>2 DEF CallInv, CallMove
    <3>2. clientState' = clientState
      BY <3>1 DEF Send
    <3> QED
      BY <3>1, <3>2
  <2> QED
    BY <2>1, <2>2
<1>7. ASSUME NEW c \in Calls, handler'[c] # "none"
      PROVE  via'[c] \in Links /\ Sent(c, via[c])'
  <2>1. PICK n \in Links : Sent(c, n)
    <3>1. CASE handler[c] # "none"
      BY <1>2, <3>1 DEF CallInv
    <3>2. CASE handler[c] = "none"
      <4>1. PICK n \in Links : HostReceivesRequest(n) /\ Head(up[n]) = Request(c)
        BY <1>7, <3>2, HandlerMoves
      <4>2. In(up[n], Request(c))
        BY <4>1, FrameRead DEF HostReceivesRequest
      <4> QED
        BY <4>2 DEF Inv, FrameInv
    <3> QED
      BY <3>1, <3>2
  <2>2. Sent(c, n)'
    BY <2>1, SentStays
  <2> QED
    BY <2>2 DEF Sent
<1> QED
  BY <1>3, <1>5, <1>6, <1>7 DEF CallInv

-----------------------------------------------------------------------------
(* Pipes.                                                                  *)

pipeVars == <<clientState, conn, up, down, authenticated, hostState>>

\* Each kind of step, as far as a pipe is concerned.
LEMMA ConnectionEndsInPipe ==
    ASSUME Inv, NEW S \in SUBSET Links,
           clientState' = [n \in Links |-> IF n \in S THEN "closed" ELSE clientState[n]],
           UNCHANGED <<conn, up, down, authenticated, hostState>>
    PROVE  PipeInv'
<1>1. /\ clientState \in [Links -> {"none", "connecting", "ready", "closed"}]
      /\ PipeInv
  BY DEF Inv, TypeOK
<1>2. \A n \in Links : clientState'[n] = "closed" \/ clientState'[n] = clientState[n]
  BY <1>1
<1> QED
  BY <1>1, <1>2 DEF PipeInv

LEMMA RequestIntoPipe ==
    ASSUME Inv, NEW n \in Links, clientState[n] = "ready",
           NEW f \in UpFrames, f # Hello, up' = [up EXCEPT ![n] = Append(up[n], f)],
           UNCHANGED <<clientState, conn, down, authenticated, hostState>>
    PROVE  PipeInv'
<1>1. /\ PipeInv /\ up \in [Links -> Seq(UpFrames)]
  BY DEF Inv, TypeOK, UpFrames
<1>2. n \in authenticated /\ conn[n] # "none"
  BY <1>1 DEF PipeInv
<1>3. In(up'[n], Hello) <=> In(up[n], Hello)
  BY <1>1, InAppend
<1>4. \A m \in Links : m # n => up'[m] = up[m]
  BY <1>1
<1> QED
  BY <1>1, <1>2, <1>3, <1>4 DEF PipeInv

LEMMA RequestOutOfPipe ==
    ASSUME Inv, NEW n \in Links, NEW type \in {"request", "cancel"}, HostReads(n, type),
           UNCHANGED <<clientState, conn, down, authenticated, hostState>>
    PROVE  PipeInv'
<1>1. /\ PipeInv /\ up \in [Links -> Seq(UpFrames)]
  BY DEF Inv, TypeOK, UpFrames
<1>2. /\ conn[n] = "open" /\ up[n] \in Seq(UpFrames) /\ up[n] # <<>>
      /\ up' = [up EXCEPT ![n] = Tail(up[n])]
      /\ Head(up[n]) # Hello
  BY FrameRead, FramesDiffer
<1>3. n \in authenticated
  <2>1. In(up[n], Head(up[n]))
    BY <1>2, InTail
  <2> QED
    BY <1>1, <1>2, <2>1, InShort DEF PipeInv
<1>4. In(Tail(up[n]), Hello) => In(up[n], Hello)
  BY <1>2, InTail
<1>5. up'[n] = Tail(up[n]) /\ \A m \in Links : m # n => up'[m] = up[m]
  BY <1>1, <1>2
<1> QED
  BY <1>1, <1>2, <1>3, <1>4, <1>5 DEF PipeInv

LEMMA HelloOutOfPipe ==
    ASSUME Inv, NEW n \in Links, HostReceivesHello(n)
    PROVE  PipeInv' /\ n \notin authenticated /\ up[n] = <<Hello>> /\ conn[n] = "open"
<1>1. /\ PipeInv /\ up \in [Links -> Seq(UpFrames)] /\ down \in [Links -> Seq(DownFrames)]
  BY DEF Inv, TypeOK, UpFrames
<1>2. /\ conn[n] = "open" /\ In(up[n], Hello)
      /\ up' = [up EXCEPT ![n] = Tail(up[n])]
      /\ authenticated' = authenticated \cup {n}
      /\ down' = [down EXCEPT ![n] = Append(down[n], HelloAck)]
      /\ UNCHANGED <<clientState, hostState, conn>>
  BY FrameRead DEF HostReceivesHello, clientVars
<1>3. n \notin authenticated /\ up[n] = <<Hello>>
  BY <1>1, <1>2 DEF PipeInv
<1>4. up'[n] = <<>>
  BY <1>1, <1>2, <1>3
<1>5. clientState[n] = "connecting" => down'[n] = <<HelloAck>>
  <2>1. clientState[n] = "connecting" => down[n] = <<>>
    BY <1>1, <1>3 DEF PipeInv
  <2> QED
    BY <1>1, <1>2, <2>1
<1>6. clientState[n] # "ready"
  BY <1>1, <1>3 DEF PipeInv
<1>7. \A m \in Links : m # n => up'[m] = up[m] /\ down'[m] = down[m]
  BY <1>1, <1>2
<1>8. n \in authenticated'
      /\ \A m \in Links : m # n => (m \in authenticated' <=> m \in authenticated)
  BY <1>2
<1>9. ~In(up'[n], Hello) /\ conn'[n] = "open" /\ clientState'[n] # "ready"
  <2>1. ~In(up'[n], Hello)
    BY <1>4, InShort
  <2>2. conn'[n] = "open" /\ clientState'[n] # "ready"
    BY <1>2, <1>6
  <2> QED
    BY <2>1, <2>2
<1>10. PipeInv'
  BY <1>1, <1>2, <1>5, <1>7, <1>8, <1>9 DEF PipeInv
<1> QED
  BY <1>2, <1>3, <1>10

LEMMA PipesTerminated ==
    ASSUME Inv, NEW S \in SUBSET Links, \A n \in S : conn[n] # "none", Terminate(S),
           UNCHANGED <<clientState, up, down, authenticated>>,
           \/ hostState' = hostState
           \/ hostState' = "closing" /\ \A n \in Links : conn[n] = "open" => n \in S
    PROVE  PipeInv'
<1>1. /\ PipeInv /\ conn \in [Links -> {"none", "queued", "open", "gone"}]
  BY DEF Inv, TypeOK
<1>2. /\ \A n \in S : conn'[n] = "gone"
      /\ \A n \in Links : n \notin S => conn'[n] = conn[n]
      /\ \A n \in Links : conn'[n] = conn[n] \/ conn'[n] = "gone"
  BY <1>1 DEF Terminate
<1>3. \A n \in Links : conn'[n] = "none" <=> conn[n] = "none"
  BY <1>2
<1> QED
  BY <1>1, <1>2, <1>3 DEF PipeInv

LEMMA PipeInvStep ==
    ASSUME Inv, Next
    PROVE  PipeInv'
<1>1. /\ PipeInv /\ CallInv /\ LinkInv
      /\ clientState \in [Links -> {"none", "connecting", "ready", "closed"}]
      /\ up \in [Links -> Seq(UpFrames)] /\ down \in [Links -> Seq(DownFrames)]
      /\ conn \in [Links -> {"none", "queued", "open", "gone"}]
      /\ hostState \in {"open", "closing", "closed", "ended"}
  BY DEF Inv, TypeOK, UpFrames
<1> USE DEF clientVars, hostVars, connVars
<1>2. ASSUME UNCHANGED pipeVars
      PROVE  PipeInv'
  BY <1>1, <1>2 DEF pipeVars, PipeInv
<1>3. ASSUME NEW c \in Calls, CallRefused(c) \/ Call(c) \/ WaitFails(c)
      PROVE  PipeInv'
  <2>1. UNCHANGED pipeVars
    BY <1>3 DEF CallRefused, Call, WaitFails, pipeVars
  <2> QED
    BY <1>2, <2>1
<1>4. ASSUME NEW c \in Calls, Send(c)
      PROVE  PipeInv'
  <2>1. CASE up' = up
    <3>1. UNCHANGED pipeVars
      BY <1>4, <2>1 DEF Send, pipeVars
    <3> QED
      BY <1>2, <3>1
  <2>2. CASE up' # up
    <3>1. /\ via[c] \in Links /\ clientState[via[c]] = "ready"
          /\ up' = [up EXCEPT ![via[c]] = Append(up[via[c]], Request(c))]
          /\ UNCHANGED <<clientState, conn, down, authenticated, hostState>>
      BY <1>4, <2>2, LinksInUse DEF Send
    <3>2. Request(c) \in UpFrames /\ Request(c) # Hello
      BY FramesDiffer
    <3> QED
      BY <3>1, <3>2, RequestIntoPipe
  <2> QED
    BY <2>1, <2>2
<1>5. ASSUME NEW c \in Calls, Withdraw(c)
      PROVE  PipeInv'
  <2>1. CASE step[c] # "pending"
    <3>1. UNCHANGED pipeVars
      BY <1>5, <2>1 DEF Withdraw, pipeVars
    <3> QED
      BY <1>2, <3>1
  <2>2. CASE step[c] = "pending"
    <3>1. /\ via[c] \in Links /\ clientState[via[c]] = "ready"
          /\ up' = [up EXCEPT ![via[c]] = Append(up[via[c]], Cancel(c))]
          /\ UNCHANGED <<clientState, conn, down, authenticated, hostState>>
      BY <1>1, <1>5, <2>2 DEF Withdraw, CallInv
    <3>2. Cancel(c) \in UpFrames /\ Cancel(c) # Hello
      BY FramesDiffer
    <3> QED
      BY <3>1, <3>2, RequestIntoPipe
  <2> QED
    BY <2>1, <2>2
<1>6. ASSUME NEW c \in Calls, HandlerEnds(c)
      PROVE  PipeInv'
  <2>1. CASE conn[via[c]] # "open"
    <3>1. UNCHANGED pipeVars
      BY <1>6, <2>1 DEF HandlerEnds, pipeVars
    <3> QED
      BY <1>2, <3>1
  <2>2. CASE conn[via[c]] = "open"
    <3> DEFINE n == via[c]
    <3>1. n \in Links /\ connected[n] = "ok"
      BY <1>1, <1>6 DEF HandlerEnds, CallInv, Sent
    <3>2. clientState[n] # "connecting"
      BY <1>1, <3>1 DEF LinkInv
    <3>3. PICK how \in Ends : down' = [down EXCEPT ![n] = Append(down[n], Response(c, how))]
      BY <1>6, <2>2 DEF HandlerEnds
    <3>4. UNCHANGED <<clientState, up, hostState, conn, authenticated>>
      BY <1>6 DEF HandlerEnds
    <3>5. conn[n] = "open"
      BY <2>2
    <3> HIDE DEF n
    <3>6. Response(c, how) # HelloAck /\ Response(c, how) \in DownFrames
      BY ResponsesDiffer
    <3>7. In(down'[n], HelloAck) <=> In(down[n], HelloAck)
      BY <1>1, <3>1, <3>3, <3>6, InAppend
    <3>8. \A m \in Links : m # n => down'[m] = down[m]
      BY <1>1, <3>3
    <3> QED
      BY <1>1, <3>1, <3>2, <3>4, <3>5, <3>7, <3>8 DEF PipeInv
  <2> QED
    BY <2>1, <2>2
<1>7. ASSUME NEW c \in Calls, HandlerEndsUnserializable(c)
      PROVE  PipeInv'
  <2>1. /\ via[c] \in Links /\ conn[via[c]] = "open" /\ Terminate({via[c]})
        /\ UNCHANGED <<clientState, up, down, authenticated, hostState>>
    BY <1>1, <1>7 DEF HandlerEndsUnserializable, CallInv
  <2> QED
    BY <2>1, PipesTerminated
<1>8. ASSUME NEW n \in Links, Locate(n)
      PROVE  PipeInv'
  <2>1. /\ clientState[n] = "none" /\ UNCHANGED <<conn, up, down, authenticated, hostState>>
        /\ clientState' = clientState \/ clientState' = [clientState EXCEPT ![n] = "connecting"]
    BY <1>8 DEF Locate
  <2>2. conn[n] = "none" /\ down[n] = <<>> /\ n \notin authenticated
    BY <1>1, <2>1 DEF PipeInv
  <2> QED
    BY <1>1, <2>1, <2>2 DEF PipeInv
<1>9. ASSUME NEW n \in Links, SocketConnects(n)
      PROVE  PipeInv'
  <2>1. /\ clientState[n] = "connecting" /\ conn[n] = "none" /\ hostState \in {"open", "closing"}
        /\ conn' = [conn EXCEPT ![n] = "queued"]
        /\ up' = [up EXCEPT ![n] = Append(up[n], Hello)]
        /\ UNCHANGED <<clientState, down, authenticated, hostState>>
    BY <1>9 DEF SocketConnects
  <2>2. up[n] = <<>> /\ n \notin authenticated
    BY <1>1, <2>1 DEF PipeInv
  <2>3. up'[n] = <<Hello>> /\ conn'[n] = "queued"
    BY <1>1, <2>1, <2>2
  <2>4. \A m \in Links : m # n => up'[m] = up[m] /\ conn'[m] = conn[m]
    BY <1>1, <2>1
  <2> QED
    BY <1>1, <2>1, <2>2, <2>3, <2>4 DEF PipeInv
<1>10. ASSUME NEW n \in Links, ConnectFails(n) \/ ClientLosesLink(n)
       PROVE  PipeInv'
  <2>1. clientState' = [m \in Links |-> IF m \in {n} THEN "closed" ELSE clientState[m]]
    BY <1>1, <1>10 DEF ConnectFails, ClientLosesLink, LoseLink
  <2>2. UNCHANGED <<conn, up, down, authenticated, hostState>>
    BY <1>10 DEF ConnectFails, ClientLosesLink
  <2> QED
    BY <2>1, <2>2, ConnectionEndsInPipe
<1>11. ASSUME Close
       PROVE  PipeInv'
  <2>1. \E S \in SUBSET Links :
          clientState' = [m \in Links |-> IF m \in S THEN "closed" ELSE clientState[m]]
    <3>1. CASE CurrentReady
      <4>1. clientState' = [m \in Links |-> IF m \in {current} THEN "closed" ELSE clientState[m]]
        BY <1>1, <1>11, <3>1, LinksInUse DEF Close, LoseLink
      <4> QED
        BY <3>1, <4>1, LinksInUse DEF CurrentReady
    <3>2. CASE ~CurrentReady
      <4> DEFINE S == {}
      <4>1. /\ S \in SUBSET Links
            /\ clientState' = [m \in Links |-> IF m \in S THEN "closed" ELSE clientState[m]]
        BY <1>1, <1>11, <3>2 DEF Close
      <4> HIDE DEF S
      <4> QED
        BY <4>1
    <3> QED
      BY <3>1, <3>2
  <2>2. UNCHANGED <<conn, up, down, authenticated, hostState>>
    BY <1>11 DEF Close
  <2> QED
    BY <2>1, <2>2, ConnectionEndsInPipe
<1>12. ASSUME NEW n \in Links, ClientReceivesAck(n)
       PROVE  PipeInv'
  <2>1. /\ clientState[n] = "connecting" /\ down[n] # <<>>
        /\ down' = [down EXCEPT ![n] = Tail(down[n])]
        /\ \/ clientState' = [clientState EXCEPT ![n] = "ready"]
           \/ clientState' = [clientState EXCEPT ![n] = "closed"]
        /\ UNCHANGED <<conn, up, authenticated, hostState>>
    BY <1>12 DEF ClientReceivesAck
  <2>2. n \in authenticated /\ down[n] = <<HelloAck>>
    BY <1>1, <2>1 DEF PipeInv
  <2>3. down'[n] = <<>>
    BY <1>1, <2>1, <2>2
  <2>4. \A m \in Links : m # n => down'[m] = down[m] /\ clientState'[m] = clientState[m]
    BY <1>1, <2>1
  <2>5. clientState'[n] \in {"ready", "closed"}
    BY <1>1, <2>1
  <2> QED
    BY <1>1, <2>1, <2>2, <2>3, <2>4, <2>5, InShort DEF PipeInv
<1>13. ASSUME NEW n \in Links, ClientReceivesResponse(n)
       PROVE  PipeInv'
  <2>1. /\ clientState[n] = "ready" /\ down[n] # <<>>
        /\ down' = [down EXCEPT ![n] = Tail(down[n])]
        /\ UNCHANGED <<clientState, conn, up, authenticated, hostState>>
    BY <1>13 DEF ClientReceivesResponse
  <2>2. In(down'[n], HelloAck) => In(down[n], HelloAck)
    BY <1>1, <2>1, InTail
  <2>3. conn[n] # "none"
    BY <1>1, <2>1 DEF PipeInv
  <2>4. \A m \in Links : m # n => down'[m] = down[m]
    BY <1>1, <2>1
  <2> QED
    BY <1>1, <2>1, <2>2, <2>3, <2>4 DEF PipeInv
<1>14. ASSUME NEW n \in Links, Accept(n)
       PROVE  PipeInv'
  <2>1. /\ conn[n] = "queued" /\ conn' = [conn EXCEPT ![n] = IF hostState = "open" THEN "open" ELSE "gone"]
        /\ UNCHANGED <<clientState, up, down, authenticated, hostState>>
    BY <1>14 DEF Accept
  <2> QED
    BY <1>1, <2>1 DEF PipeInv
<1>15. ASSUME NEW n \in Links, HostLosesLink(n)
       PROVE  PipeInv'
  <2>1. /\ conn[n] = "open" /\ Terminate({n})
        /\ UNCHANGED <<clientState, up, down, authenticated, hostState>>
    BY <1>15 DEF HostLosesLink
  <2> QED
    BY <2>1, PipesTerminated
<1>16. ASSUME NEW n \in Links, HostReceivesHello(n)
       PROVE  PipeInv'
  BY <1>16, HelloOutOfPipe
<1>17. ASSUME NEW n \in Links, HostReceivesRequest(n) \/ HostReceivesCancel(n)
       PROVE  PipeInv'
  <2>1. \E type \in {"request", "cancel"} : HostReads(n, type)
    BY <1>17 DEF HostReceivesRequest, HostReceivesCancel
  <2>2. UNCHANGED <<clientState, conn, down, authenticated, hostState>>
    BY <1>17 DEF HostReceivesRequest, HostReceivesCancel
  <2> QED
    BY <2>1, <2>2, RequestOutOfPipe
<1>18. ASSUME NEW n \in Links, CleanupEnds(n)
       PROVE  PipeInv'
  <2>1. UNCHANGED pipeVars
    BY <1>18 DEF CleanupEnds, pipeVars
  <2> QED
    BY <1>2, <2>1
<1>19. ASSUME HostCloses
       PROVE  PipeInv'
  <2> DEFINE S == {n \in Links : conn[n] = "open"}
  <2>1. /\ Terminate(S) /\ hostState' = "closing"
        /\ UNCHANGED <<clientState, up, down, authenticated>>
    BY <1>19 DEF HostCloses
  <2>2. S \in SUBSET Links /\ (\A n \in S : conn[n] # "none")
        /\ \A n \in Links : conn[n] = "open" => n \in S
    OBVIOUS
  <2> HIDE DEF S
  <2> QED
    BY <2>1, <2>2, PipesTerminated
<1>20. ASSUME HostClosed \/ HostProcessEnds \/ HostProcessBegins
       PROVE  PipeInv'
  <2>1. UNCHANGED <<clientState, up, down, authenticated>>
    BY <1>20 DEF HostClosed, HostProcessEnds, HostProcessBegins
  <2>2. CASE HostClosed
    <3>1. hostState = "closing" /\ hostState' = "closed"
      BY <2>2 DEF HostClosed
    <3>2. \A n \in Links : conn'[n] = IF conn[n] = "queued" THEN "gone" ELSE conn[n]
      BY <1>1, <2>2 DEF HostClosed, Unaccepted
    <3> QED
      BY <1>1, <2>1, <3>1, <3>2 DEF PipeInv
  <2>3. CASE HostProcessEnds
    <3>1. \A n \in Links : conn'[n] = IF conn[n] = "none" THEN "none" ELSE "gone"
      BY <1>1, <2>3 DEF HostProcessEnds
    <3> QED
      BY <1>1, <2>1, <3>1 DEF PipeInv
  <2>4. CASE HostProcessBegins
    <3>1. /\ \A n \in Links : conn'[n] = IF clientState[n] = "none" THEN "none" ELSE "gone"
      BY <1>1, <2>4 DEF HostProcessBegins
    <3> QED
      BY <1>1, <2>1, <3>1 DEF PipeInv
  <2> QED
    BY <1>20, <2>2, <2>3, <2>4
<1>21. ASSUME NEW c \in Calls, CallStep(c)
       PROVE  PipeInv'
  BY <1>3, <1>4, <1>5, <1>6, <1>7, <1>21 DEF CallStep
<1>22. ASSUME NEW n \in Links, LinkStep(n)
       PROVE  PipeInv'
  BY <1>8, <1>9, <1>10, <1>12, <1>13, <1>14, <1>15, <1>16, <1>17, <1>18,
       <1>22 DEF LinkStep
<1> QED
  BY <1>11, <1>19, <1>20, <1>21, <1>22, NextSplits DEF HostStep

-----------------------------------------------------------------------------
(* Frames.                                                                 *)

\* What a step may do with the way to the host.
UpMove(n) ==
    \/ up'[n] = up[n]
    \/ \E c \in Calls :
         /\ Send(c) /\ step[c] = "waiting" /\ step'[c] = "pending" /\ via[c] = n
         /\ clientState[n] = "ready" /\ up'[n] = Append(up[n], Request(c))
    \/ \E c \in Calls :
         /\ Withdraw(c) /\ step[c] = "pending" /\ step'[c] = "done" /\ via[c] = n
         /\ up'[n] = Append(up[n], Cancel(c))
    \/ SocketConnects(n) /\ up'[n] = Append(up[n], Hello)
    \/ /\ HostReceivesHello(n) \/ HostReceivesRequest(n) \/ HostReceivesCancel(n)
       /\ up[n] # <<>> /\ up'[n] = Tail(up[n])

LEMMA UpMoves ==
    ASSUME Inv, Next, NEW n \in Links
    PROVE  UpMove(n)
<1>1. /\ up \in [Links -> Seq(UpFrames)]
      /\ step \in [Calls -> {"idle", "waiting", "pending", "done"}]
  BY DEF Inv, TypeOK, UpFrames
<1>2. ASSUME up'[n] = up[n]
      PROVE  UpMove(n)
  BY <1>2 DEF UpMove
<1>3. ASSUME NEW c \in Calls, Send(c)
      PROVE  UpMove(n)
  <2>1. CASE up' = up
    BY <1>2, <2>1
  <2>2. CASE up' # up
    <3>1. /\ step[c] = "waiting" /\ via[c] \in Links /\ clientState[via[c]] = "ready"
          /\ step' = [step EXCEPT ![c] = "pending"]
          /\ up' = [up EXCEPT ![via[c]] = Append(up[via[c]], Request(c))]
      BY <1>3, <2>2, LinksInUse DEF Send
    <3>2. CASE via[c] = n
      BY <1>1, <1>3, <3>1, <3>2 DEF UpMove
    <3>3. CASE via[c] # n
      BY <1>1, <1>2, <3>1, <3>3
    <3> QED
      BY <3>2, <3>3
  <2> QED
    BY <2>1, <2>2
<1>4. ASSUME NEW c \in Calls, Withdraw(c)
      PROVE  UpMove(n)
  <2>1. CASE step[c] # "pending"
    <3>1. up' = up
      BY <1>4, <2>1 DEF Withdraw
    <3> QED
      BY <1>2, <3>1
  <2>2. CASE step[c] = "pending"
    <3>1. /\ via[c] \in Links /\ step' = [step EXCEPT ![c] = "done"]
          /\ up' = [up EXCEPT ![via[c]] = Append(up[via[c]], Cancel(c))]
      BY <1>4, <2>2, LinksInUse DEF Withdraw, Tell
    <3>2. CASE via[c] = n
      BY <1>1, <1>4, <2>2, <3>1, <3>2 DEF UpMove
    <3>3. CASE via[c] # n
      BY <1>1, <1>2, <3>1, <3>3
    <3> QED
      BY <3>2, <3>3
  <2> QED
    BY <2>1, <2>2
<1>5. ASSUME NEW m \in Links, SocketConnects(m)
      PROVE  UpMove(n)
  <2>1. up' = [up EXCEPT ![m] = Append(up[m], Hello)]
    BY <1>5 DEF SocketConnects
  <2>2. CASE m = n
    BY <1>1, <1>5, <2>1, <2>2 DEF UpMove
  <2>3. CASE m # n
    BY <1>1, <1>2, <2>1, <2>3
  <2> QED
    BY <2>2, <2>3
<1>6. ASSUME NEW m \in Links,
             HostReceivesHello(m) \/ HostReceivesRequest(m) \/ HostReceivesCancel(m)
      PROVE  UpMove(n)
  <2>1. up[m] # <<>> /\ up' = [up EXCEPT ![m] = Tail(up[m])]
    BY <1>6 DEF HostReceivesHello, HostReceivesRequest, HostReceivesCancel,
         HostReads
  <2>2. CASE m = n
    BY <1>1, <1>6, <2>1, <2>2 DEF UpMove
  <2>3. CASE m # n
    BY <1>1, <1>2, <2>1, <2>3
  <2> QED
    BY <2>2, <2>3
<1>7. ASSUME NEW c \in Calls, CallStep(c)
      PROVE  UpMove(n)
  <2>1. up' = up \/ Send(c) \/ Withdraw(c)
    BY <1>7 DEF CallStep, CallRefused, Call, WaitFails, HandlerEnds,
         HandlerEndsUnserializable
  <2> QED
    BY <1>2, <1>3, <1>4, <2>1
<1>8. ASSUME NEW m \in Links, LinkStep(m)
      PROVE  UpMove(n)
  <2>1. \/ up' = up \/ SocketConnects(m)
        \/ HostReceivesHello(m) \/ HostReceivesRequest(m) \/ HostReceivesCancel(m)
    BY <1>8 DEF LinkStep, Locate, ConnectFails, ClientLosesLink, ClientReceivesAck,
         ClientReceivesResponse, Accept, HostLosesLink, CleanupEnds
  <2> QED
    BY <1>2, <1>5, <1>6, <2>1
<1>9. ASSUME Close \/ HostStep
      PROVE  UpMove(n)
  <2>1. up' = up
    BY <1>9 DEF Close, HostStep, HostCloses, HostClosed, HostProcessEnds,
         HostProcessBegins
  <2> QED
    BY <1>2, <2>1
<1> QED
  BY <1>7, <1>8, <1>9, NextSplits

\* What a step may do with the way to the client.
DownMove(n) ==
    \/ down'[n] = down[n]
    \/ down'[n] = Append(down[n], HelloAck)
    \/ \E c \in Calls, how \in Ends :
         /\ HandlerEnds(c) /\ via[c] = n /\ handler'[c] = how
         /\ down'[n] = Append(down[n], Response(c, how))
    \/ down[n] # <<>> /\ down'[n] = Tail(down[n])

LEMMA DownMoves ==
    ASSUME Inv, Next, NEW n \in Links
    PROVE  DownMove(n)
<1>1. /\ down \in [Links -> Seq(DownFrames)]
      /\ handler \in [Calls -> HandlerStates]
  BY DEF Inv, TypeOK, DataInv
<1>2. ASSUME down'[n] = down[n]
      PROVE  DownMove(n)
  BY <1>2 DEF DownMove
<1>3. ASSUME NEW c \in Calls, HandlerEnds(c)
      PROVE  DownMove(n)
  <2>1. via[c] \in Links
    BY <1>3, LinksInUse DEF HandlerEnds
  <2>2. PICK how \in Ends :
          /\ handler' = [handler EXCEPT ![c] = how]
          /\ down' = IF conn[via[c]] = "open"
                     THEN [down EXCEPT ![via[c]] = Append(@, Response(c, how))] ELSE down
    BY <1>3 DEF HandlerEnds
  <2>3. CASE conn[via[c]] = "open" /\ via[c] = n
    BY <1>1, <1>3, <2>1, <2>2, <2>3 DEF DownMove
  <2>4. CASE conn[via[c]] # "open" \/ via[c] # n
    BY <1>1, <1>2, <2>1, <2>2, <2>4
  <2> QED
    BY <2>3, <2>4
<1>4. ASSUME NEW m \in Links, HostReceivesHello(m)
      PROVE  DownMove(n)
  <2>1. down' = [down EXCEPT ![m] = Append(down[m], HelloAck)]
    BY <1>4 DEF HostReceivesHello
  <2> QED
    BY <1>1, <2>1 DEF DownMove
<1>5. ASSUME NEW m \in Links, ClientReceivesAck(m) \/ ClientReceivesResponse(m)
      PROVE  DownMove(n)
  <2>1. down[m] # <<>> /\ down' = [down EXCEPT ![m] = Tail(down[m])]
    BY <1>5 DEF ClientReceivesAck, ClientReceivesResponse
  <2> QED
    BY <1>1, <2>1 DEF DownMove
<1>6. ASSUME NEW c \in Calls, CallStep(c)
      PROVE  DownMove(n)
  <2>1. down' = down \/ HandlerEnds(c)
    BY <1>6 DEF CallStep, CallRefused, Call, Send, WaitFails, Withdraw,
         HandlerEndsUnserializable
  <2> QED
    BY <1>2, <1>3, <2>1
<1>7. ASSUME NEW m \in Links, LinkStep(m)
      PROVE  DownMove(n)
  <2>1. \/ down' = down \/ HostReceivesHello(m)
        \/ ClientReceivesAck(m) \/ ClientReceivesResponse(m)
    BY <1>7 DEF LinkStep, Locate, SocketConnects, ConnectFails, ClientLosesLink,
         Accept,
         HostLosesLink, HostReceivesRequest, HostReceivesCancel, CleanupEnds
  <2> QED
    BY <1>2, <1>4, <1>5, <2>1
<1>8. ASSUME Close \/ HostStep
      PROVE  DownMove(n)
  <2>1. down' = down
    BY <1>8 DEF Close, HostStep, HostCloses, HostClosed, HostProcessEnds,
         HostProcessBegins
  <2> QED
    BY <1>2, <2>1
<1> QED
  BY <1>6, <1>7, <1>8, NextSplits

\* A connection is open only after it was accepted.
LEMMA ConnectionsOpen ==
    ASSUME Inv, Next, NEW n \in Links, conn'[n] = "open"
    PROVE  conn[n] = "open" \/ (conn[n] = "queued" /\ up'[n] = up[n])
<1>1. conn \in [Links -> {"none", "queued", "open", "gone"}]
  BY DEF Inv, TypeOK
<1> USE DEF hostVars, connVars
<1>2. ASSUME NEW c \in Calls, CallStep(c)
      PROVE  conn[n] = "open"
  BY <1>1, <1>2 DEF CallStep, CallRefused, Call, Send, WaitFails, Withdraw,
       HandlerEnds,
       HandlerEndsUnserializable, Terminate
<1>3. ASSUME NEW m \in Links, LinkStep(m), ~Accept(m)
      PROVE  conn[n] = "open"
  BY <1>1, <1>3 DEF LinkStep, Locate, SocketConnects, ConnectFails, ClientLosesLink,
       ClientReceivesAck, ClientReceivesResponse, HostLosesLink, HostReceivesHello,
       HostReceivesRequest, HostReceivesCancel, CleanupEnds, HostReads, Terminate
<1>4. ASSUME NEW m \in Links, Accept(m)
      PROVE  conn[n] = "open" \/ (conn[n] = "queued" /\ up'[n] = up[n])
  BY <1>1, <1>4 DEF Accept
<1>5. ASSUME Close \/ HostStep
      PROVE  conn[n] = "open"
  BY <1>1, <1>5 DEF Close, HostStep, HostCloses, HostClosed, HostProcessEnds,
       HostProcessBegins, Terminate, Unaccepted
<1> QED
  BY <1>2, <1>3, <1>4, <1>5, NextSplits

\* A frame that the host reads is the one at the front, and a request it reads
\* starts its handler.
LEMMA RequestsStart ==
    ASSUME Inv, NEW n \in Links, NEW c \in Calls,
           HostReceivesHello(n) \/ HostReceivesRequest(n) \/ HostReceivesCancel(n),
           Head(up[n]) = Request(c)
    PROVE  handler'[c] = "running"
<1>1. HostReceivesRequest(n)
  <2>1. ~HostReceivesHello(n) /\ ~HostReceivesCancel(n)
    BY FrameRead, FramesDiffer DEF HostReceivesHello, HostReceivesCancel
  <2> QED
    BY <2>1
<1>2. handler' = [handler EXCEPT ![Head(up[n]).call] = "running"]
  BY <1>1 DEF HostReceivesRequest
<1> QED
  BY <1>2, FramesDiffer DEF Inv, DataInv

\* The requests in a pipe.
LEMMA RequestsInPipe ==
    ASSUME Inv, Next, NEW n \in Links, NEW c \in Calls, In(up'[n], Request(c))
    PROVE  /\ Sent(c, n)' /\ handler'[c] = "none"
           /\ In(up[n], Request(c)) \/ (Send(c) /\ step[c] = "waiting")
<1>1. up[n] \in Seq(UpFrames) /\ FrameInv /\ CallInv /\ LinkInv
  BY DEF Inv, TypeOK, UpFrames
<1>2. UpMove(n)
  BY UpMoves
<1>3. CASE In(up[n], Request(c))
  <2>1. Sent(c, n) /\ handler[c] = "none"
    BY <1>1, <1>3 DEF FrameInv
  <2>2. handler'[c] = "none"
    <3>1. SUFFICES ASSUME NEW m \in Links, HostReceivesRequest(m), Head(up[m]) = Request(c)
                   PROVE  FALSE
      BY <2>1, HandlerMoves
    <3>2. m = n
      <4>1. In(up[m], Request(c))
        BY <3>1, FrameRead DEF HostReceivesRequest
      <4> QED
        BY <1>1, <2>1, <4>1 DEF FrameInv, Sent
    <3>3. up[n] # <<>> /\ up'[n] = Tail(up[n])
      BY <3>1, <3>2, FrameRead DEF HostReceivesRequest, Inv, TypeOK
    <3>4. OneRequest(up[n]) /\ Head(up[n]).type = "request"
      BY <1>1, <3>1, <3>2, FramesDiffer DEF FrameInv
    <3>5. ~In(Tail(up[n]), Request(c))
      BY <1>1, <3>1, <3>2, <3>3, <3>4, OneRequestTail
    <3> QED
      BY <3>3, <3>5
  <2> QED
    BY <1>3, <2>1, <2>2, SentStays
<1>4. CASE ~In(up[n], Request(c))
  <2>1. \E d \in Calls :
          /\ Send(d) /\ step[d] = "waiting" /\ step'[d] = "pending" /\ via[d] = n
          /\ clientState[n] = "ready" /\ up'[n] = Append(up[n], Request(d))
    <3>1. ASSUME NEW e \in UpFrames, up'[n] = Append(up[n], e)
          PROVE  e = Request(c)
      <4>1. In(Append(up[n], e), Request(c))
        BY <3>1
      <4> QED
        BY <1>1, <1>4, <4>1, InAppend
    <3>2. /\ \A d \in Calls : up'[n] # Append(up[n], Cancel(d))
          /\ up'[n] # Append(up[n], Hello)
      BY <3>1, FramesDiffer
    <3>3. ~(up[n] # <<>> /\ up'[n] = Tail(up[n]))
      BY <1>1, <1>4, InTail
    <3>4. up'[n] # up[n]
      BY <1>4
    <3> QED
      BY <1>2, <3>2, <3>3, <3>4 DEF UpMove
  <2>2. /\ Send(c) /\ step[c] = "waiting" /\ step'[c] = "pending" /\ via[c] = n
        /\ clientState[n] = "ready"
    BY <1>1, <1>4, <2>1, InAppend, FramesDiffer
  <2>3. handler[c] = "none" /\ connected[n] = "ok"
    BY <1>1, <2>2 DEF CallInv, LinkInv, Sent
  <2>4. UNCHANGED <<handler, connected, via>>
    BY <2>2 DEF Send, hostVars, runVars
  <2> QED
    BY <2>2, <2>3, <2>4 DEF Sent
<1> QED
  BY <1>3, <1>4

\* The cancels in a pipe.
LEMMA CancelsInPipe ==
    ASSUME Inv, Next, NEW n \in Links, NEW c \in Calls, In(up'[n], Cancel(c))
    PROVE  Sent(c, n)' /\ step'[c] = "done"
<1>1. up[n] \in Seq(UpFrames) /\ FrameInv /\ CallInv /\ LinkInv
  BY DEF Inv, TypeOK, UpFrames
<1>2. UpMove(n)
  BY UpMoves
<1>3. CASE In(up[n], Cancel(c))
  <2>1. Sent(c, n) /\ step[c] = "done"
    BY <1>1, <1>3 DEF FrameInv
  <2>2. CallMove(c)
    BY CallMoves
  <2> QED
    BY <2>1, <2>2, SentStays DEF CallMove
<1>4. CASE ~In(up[n], Cancel(c))
  <2>1. \E d \in Calls :
          /\ Withdraw(d) /\ step[d] = "pending" /\ step'[d] = "done" /\ via[d] = n
          /\ up'[n] = Append(up[n], Cancel(d))
    <3>1. ASSUME NEW e \in UpFrames, up'[n] = Append(up[n], e)
          PROVE  e = Cancel(c)
      <4>1. In(Append(up[n], e), Cancel(c))
        BY <3>1
      <4> QED
        BY <1>1, <1>4, <4>1, InAppend
    <3>2. /\ \A d \in Calls : up'[n] # Append(up[n], Request(d))
          /\ up'[n] # Append(up[n], Hello)
      BY <3>1, FramesDiffer
    <3>3. ~(up[n] # <<>> /\ up'[n] = Tail(up[n]))
      BY <1>1, <1>4, InTail
    <3>4. up'[n] # up[n]
      BY <1>4
    <3> QED
      BY <1>2, <3>2, <3>3, <3>4 DEF UpMove
  <2>2. Withdraw(c) /\ step[c] = "pending" /\ step'[c] = "done" /\ via[c] = n
    BY <1>1, <1>4, <2>1, InAppend, FramesDiffer
  <2>3. clientState[n] = "ready" /\ connected[n] = "ok"
    BY <1>1, <2>2 DEF CallInv, LinkInv
  <2>4. Sent(c, n)
    BY <2>2, <2>3 DEF Sent
  <2> QED
    BY <2>2, <2>4, SentStays
<1> QED
  BY <1>3, <1>4

LEMMA FrameInvStep ==
    ASSUME Inv, Next
    PROVE  FrameInv'
<1>1. /\ FrameInv /\ CallInv /\ LinkInv /\ PipeInv
      /\ up \in [Links -> Seq(UpFrames)] /\ down \in [Links -> Seq(DownFrames)]
      /\ conn \in [Links -> {"none", "queued", "open", "gone"}]
  BY DEF Inv, TypeOK, UpFrames
<1>2. ASSUME NEW n \in Links
      PROVE  OneRequest(up'[n])
  <2>1. UpMove(n) /\ OneRequest(up[n]) /\ up[n] \in Seq(UpFrames)
    BY <1>1, UpMoves DEF FrameInv
  <2>2. ASSUME NEW c \in Calls, step[c] = "waiting", up'[n] = Append(up[n], Request(c))
        PROVE  OneRequest(up'[n])
    <3>1. ~In(up[n], Request(c))
      BY <1>1, <2>2 DEF FrameInv, Sent
    <3> QED
      BY <2>1, <2>2, <3>1, OneRequestAppend, FramesDiffer
  <2>3. ASSUME NEW e \in UpFrames, e.type # "request", up'[n] = Append(up[n], e)
        PROVE  OneRequest(up'[n])
    BY <2>1, <2>3, OneRequestAppend
  <2>4. ASSUME up[n] # <<>>, up'[n] = Tail(up[n])
        PROVE  OneRequest(up'[n])
    BY <2>1, <2>4, OneRequestTail
  <2>5. ASSUME NEW c \in Calls, up'[n] = Append(up[n], Cancel(c))
        PROVE  OneRequest(up'[n])
    BY <2>3, <2>5, FramesDiffer
  <2>6. ASSUME up'[n] = Append(up[n], Hello)
        PROVE  OneRequest(up'[n])
    BY <2>3, <2>6, FramesDiffer
  <2> QED
    BY <2>1, <2>2, <2>4, <2>5, <2>6 DEF UpMove
<1>3. ASSUME NEW n \in Links, NEW c \in Calls, conn'[n] = "open", handler'[c] = "none"
      PROVE  RequestFirst(up'[n], c)
  <2>1. handler[c] = "none" /\ up[n] \in Seq(UpFrames) /\ UpMove(n)
    BY <1>1, <1>3, HandlerMoves, UpMoves DEF Ends
  <2>2. CASE conn[n] = "queued" /\ up'[n] = up[n]
    <3>1. up'[n] = <<Hello>>
      BY <1>1, <2>2 DEF PipeInv
    <3>2. Hello # Cancel(c)
      BY FramesDiffer
    <3> QED
      BY <3>1, <3>2 DEF RequestFirst
  <2>3. CASE conn[n] = "open"
    <3>1. RequestFirst(up[n], c)
      BY <1>1, <2>1, <2>3 DEF FrameInv
    <3>2. ASSUME NEW e \in UpFrames, e # Cancel(c), up'[n] = Append(up[n], e)
          PROVE  RequestFirst(up'[n], c)
      BY <2>1, <3>1, <3>2, RequestFirstAppend
    <3>3. ASSUME NEW d \in Calls, step[d] = "pending", via[d] = n, up'[n] = Append(up[n], Cancel(d))
          PROVE  RequestFirst(up'[n], c)
      <4>1. CASE d # c
        BY <3>2, <3>3, <4>1, FramesDiffer
      <4>2. CASE d = c
        <5>1. In(up[n], Request(c))
          BY <1>1, <2>1, <2>3, <3>3, <4>2 DEF FrameInv
        <5> QED
          BY <2>1, <3>1, <3>3, <4>2, <5>1, RequestFirstAppend, FramesDiffer
      <4> QED
        BY <4>1, <4>2
    <3>4. ASSUME HostReceivesHello(n) \/ HostReceivesRequest(n) \/ HostReceivesCancel(n),
                 up[n] # <<>>, up'[n] = Tail(up[n])
          PROVE  RequestFirst(up'[n], c)
      <4>1. Head(up[n]) # Request(c)
        BY <1>3, <3>4, RequestsStart
      <4> QED
        BY <2>1, <3>1, <3>4, <4>1, RequestFirstTail
    <3>5. ASSUME NEW d \in Calls, up'[n] = Append(up[n], Request(d))
          PROVE  RequestFirst(up'[n], c)
      BY <3>2, <3>5, FramesDiffer
    <3>6. ASSUME up'[n] = Append(up[n], Hello)
          PROVE  RequestFirst(up'[n], c)
      BY <3>2, <3>6, FramesDiffer
    <3> QED
      BY <2>1, <3>1, <3>3, <3>4, <3>5, <3>6 DEF UpMove
  <2> QED
    BY <1>3, <2>2, <2>3, ConnectionsOpen
<1>4. ASSUME NEW c \in Calls, step'[c] = "pending", conn'[via'[c]] = "open", handler'[c] = "none"
      PROVE  In(up'[via'[c]], Request(c))
  <2>1. CallMove(c) /\ handler[c] = "none"
    BY <1>4, CallMoves, HandlerMoves DEF Ends
  <2>2. CASE step[c] = "pending"
    <3> DEFINE n == via[c]
    <3>1. n \in Links /\ clientState[n] = "ready" /\ via'[c] = n
      BY <1>1, <1>4, <2>1, <2>2 DEF CallInv, CallMove
    <3>2. via[c] = n /\ conn'[n] = "open"
      BY <1>4, <3>1
    <3> HIDE DEF n
    <3>3. conn[n] = "open"
      BY <1>1, <3>1, <3>2, ConnectionsOpen DEF PipeInv
    <3>4. In(up[n], Request(c)) /\ up[n] \in Seq(UpFrames)
      BY <1>1, <2>1, <2>2, <3>1, <3>2, <3>3 DEF FrameInv
    <3>5. ASSUME NEW e \in UpFrames, up'[n] = Append(up[n], e)
          PROVE  In(up'[n], Request(c))
      BY <3>4, <3>5, InAppend
    <3>6. ASSUME HostReceivesHello(n) \/ HostReceivesRequest(n) \/ HostReceivesCancel(n),
                 up[n] # <<>>, up'[n] = Tail(up[n])
          PROVE  In(up'[n], Request(c))
      <4>1. Head(up[n]) # Request(c)
        BY <1>4, <3>1, <3>6, RequestsStart
      <4> QED
        BY <3>4, <3>6, <4>1, InTail
    <3>7. /\ \A d \in Calls : Request(d) \in UpFrames /\ Cancel(d) \in UpFrames
          /\ Hello \in UpFrames
      BY FramesDiffer
    <3>8. UpMove(n)
      BY <3>1, UpMoves
    <3>9. In(up'[n], Request(c))
      BY <3>4, <3>5, <3>6, <3>7, <3>8 DEF UpMove
    <3> QED
      BY <3>1, <3>9
  <2>3. CASE step[c] # "pending"
    <3>1. Send(c) /\ step[c] = "waiting" /\ via[c] \in Links /\ via'[c] = via[c]
      BY <1>1, <1>4, <2>1, <2>3 DEF CallMove, CallInv
    <3>2. up' = [up EXCEPT ![via[c]] = Append(up[via[c]], Request(c))]
      <4>1. step \in [Calls -> {"idle", "waiting", "pending", "done"}]
        BY DEF Inv, TypeOK
      <4> QED
        BY <1>4, <3>1, <4>1 DEF Send, Tell
    <3>3. up'[via[c]] = Append(up[via[c]], Request(c))
      BY <1>1, <3>1, <3>2
    <3> QED
      BY <1>1, <3>1, <3>3, InAppend, FramesDiffer
  <2> QED
    BY <2>2, <2>3
<1>5. ASSUME NEW n \in Links, NEW c \in Calls, NEW how \in Ends,
             In(down'[n], Response(c, how))
      PROVE  via'[c] = n /\ handler'[c] = how
  <2>1. down[n] \in Seq(DownFrames) /\ DownMove(n)
    BY <1>1, DownMoves
  <2>2. (via[c] = n /\ handler[c] = how) => via'[c] = n /\ handler'[c] = how
    <3>1. ASSUME via[c] = n, handler[c] = how
          PROVE  via'[c] = n /\ handler'[c] = how
      <4>1. Sent(c, n) /\ handler[c] \notin {"none", "running"}
        BY <1>1, <3>1 DEF CallInv, Ends
      <4> QED
        BY <3>1, <4>1, SentStays, HandlerMoves DEF Sent
    <3> QED
      BY <3>1
  <2>3. CASE In(down[n], Response(c, how))
    BY <1>1, <2>2, <2>3 DEF FrameInv
  <2>4. CASE ~In(down[n], Response(c, how))
    <3>1. ASSUME NEW e \in DownFrames, down'[n] = Append(down[n], e)
          PROVE  e = Response(c, how)
      <4>1. In(Append(down[n], e), Response(c, how))
        BY <1>5, <3>1
      <4> QED
        BY <2>1, <2>4, <4>1, InAppend
    <3>2. down'[n] # Append(down[n], HelloAck)
      BY <3>1, ResponsesDiffer
    <3>3. ~(down[n] # <<>> /\ down'[n] = Tail(down[n]))
      BY <1>5, <2>1, <2>4, InTail
    <3>4. down'[n] # down[n]
      BY <1>5, <2>4
    <3>5. PICK d \in Calls, end \in Ends :
            /\ HandlerEnds(d) /\ via[d] = n /\ handler'[d] = end
            /\ down'[n] = Append(down[n], Response(d, end))
      BY <2>1, <3>2, <3>3, <3>4 DEF DownMove
    <3>6. d = c /\ end = how
      <4>1. Response(d, end) = Response(c, how)
        BY <3>1, <3>5, ResponsesDiffer
      <4> QED
        BY <4>1, ResponsesDiffer
    <3>7. via' = via
      BY <3>5 DEF HandlerEnds, clientVars, callVars
    <3> QED
      BY <3>5, <3>6, <3>7
  <2> QED
    BY <2>3, <2>4
<1> QED
  BY <1>2, <1>3, <1>4, <1>5, RequestsInPipe, CancelsInPipe DEF FrameInv

-----------------------------------------------------------------------------
(* The host.                                                               *)

\* A call that stops waiting for its answer on a live connection was
\* withdrawn, or has got it.
LEMMA PendingSettles ==
    ASSUME Inv, Next, NEW c \in Calls, step[c] = "pending", step'[c] = "done"
    PROVE  \/ Withdraw(c) /\ up' = [up EXCEPT ![via[c]] = Append(up[via[c]], Cancel(c))]
           \/ clientState'[via[c]] = "closed"
           \/ handler[c] \in Ends
<1>1. /\ step \in [Calls -> {"idle", "waiting", "pending", "done"}]
      /\ clientState \in [Links -> {"none", "connecting", "ready", "closed"}]
      /\ via[c] \in Links
  BY LinksInUse DEF Inv, TypeOK
<1>2. ASSUME NEW d \in Calls, CallRefused(d) \/ Call(d) \/ Send(d) \/ WaitFails(d)
      PROVE  FALSE
  <2>1. step[d] \in {"idle", "waiting"} /\ \A e \in Calls : e # d => step'[e] = step[e]
    BY <1>1, <1>2 DEF CallRefused, Call, Send, WaitFails, Tell
  <2> QED
    BY <2>1
<1>3. ASSUME NEW d \in Calls, Withdraw(d)
      PROVE  Withdraw(c) /\ up' = [up EXCEPT ![via[c]] = Append(up[via[c]], Cancel(c))]
  <2>1. d = c
    BY <1>1, <1>3 DEF Withdraw, Tell
  <2> QED
    BY <1>3, <2>1 DEF Withdraw
<1>4. ASSUME NEW n \in Links, ConnectFails(n) \/ ClientLosesLink(n)
      PROVE  clientState'[via[c]] = "closed"
  BY <1>1, <1>4 DEF ConnectFails, ClientLosesLink, LoseLink
<1>5. ASSUME Close
      PROVE  clientState'[via[c]] = "closed"
  <2>1. CurrentReady /\ via[c] = current
    BY <1>1, <1>5 DEF Close, LoseLink
  <2> QED
    BY <1>1, <1>5, <2>1 DEF Close, LoseLink
<1>6. ASSUME NEW n \in Links, ClientReceivesResponse(n)
      PROVE  handler[c] \in Ends
  <2> DEFINE f == Head(down[n])
  <2>1. f.call \in Calls /\ f.how \in Ends /\ handler[f.call] = f.how
    BY <1>6, ResponseRead
  <2>2. IF step[f.call] = "pending" THEN Tell(f.call, f.how) ELSE UNCHANGED <<step, outcome>>
    BY <1>6 DEF ClientReceivesResponse
  <2> HIDE DEF f
  <2>3. f.call = c
    BY <1>1, <2>1, <2>2 DEF Tell
  <2> QED
    BY <2>1, <2>3
<1> QED
  BY <1>2, <1>3, <1>4, <1>5, <1>6, CallSteps DEF callVars

\* What HostInv says of the connections that end together.
LEMMA HostTerminates ==
    ASSUME Inv, NEW S \in SUBSET Links, \A n \in S : conn[n] = "open", Terminate(S),
           \A c \in requests' : handler'[c] = "running",
           \A c \in Calls : handler'[c] = "running" => handler[c] = "running",
           via' = via, authenticated' = authenticated,
           hostState' # "closed"
    PROVE  HostInv'
<1>1. /\ HostInv /\ CallInv /\ PipeInv
      /\ conn \in [Links -> {"none", "queued", "open", "gone"}]
      /\ cleanup \in [Links -> {"none", "running", "done", "lost"}]
      /\ requests \subseteq Calls
  BY DEF Inv, TypeOK
<1>2. /\ \A n \in Links : conn'[n] = IF n \in S THEN "gone" ELSE conn[n]
      /\ requests' = requests \ OnLinks(S) /\ aborted' = aborted \cup OnLinks(S)
      /\ \A n \in Links : cleanup'[n] = IF n \in S /\ n \in authenticated THEN "running" ELSE cleanup[n]
  BY <1>1 DEF Terminate
<1>3. ASSUME NEW c \in requests'
      PROVE  handler'[c] = "running" /\ conn'[via'[c]] = "open"
  <2>1. c \in requests /\ via[c] \notin S
    BY <1>2, <1>3 DEF OnLinks
  <2>2. handler[c] = "running" /\ conn[via[c]] = "open" /\ c \in Calls
    BY <1>1, <2>1 DEF HostInv
  <2>3. via[c] \in Links
    BY <2>2, LinksInUse
  <2> QED
    BY <1>2, <1>3, <2>1, <2>2, <2>3
<1>4. \A c \in Calls : handler'[c] = "running" => c \in requests' \cup aborted'
  BY <1>1, <1>2 DEF HostInv
<1>5. ASSUME NEW n \in Links
      PROVE  cleanup'[n] # "none" <=> n \in authenticated' /\ conn'[n] = "gone"
  BY <1>1, <1>2 DEF HostInv
<1> QED
  BY <1>3, <1>4, <1>5 DEF HostInv

LEMMA HostInvStep ==
    ASSUME Inv, Next
    PROVE  HostInv'
<1>1. /\ HostInv /\ CallInv /\ PipeInv /\ FrameInv
      /\ conn \in [Links -> {"none", "queued", "open", "gone"}]
      /\ cleanup \in [Links -> {"none", "running", "done", "lost"}]
      /\ clientState \in [Links -> {"none", "connecting", "ready", "closed"}]
      /\ handler \in [Calls -> HandlerStates]
      /\ requests \subseteq Calls
      /\ hostState \in {"open", "closing", "closed", "ended"}
  BY DEF Inv, TypeOK, DataInv
<1>2. \A c \in requests : via[c] \in Links /\ via'[c] = via[c]
  <2>1. ASSUME NEW c \in requests
        PROVE  via[c] \in Links /\ via'[c] = via[c]
    <3>1. c \in Calls /\ handler[c] # "none"
      BY <1>1 DEF HostInv
    <3>2. via[c] \in Links /\ Sent(c, via[c])
      BY <1>1, <3>1 DEF CallInv
    <3>3. CallMove(c)
      BY <3>1, CallMoves
    <3> QED
      BY <3>2, <3>3 DEF Sent, CallMove
  <2> QED
    BY <2>1
<1>3. ASSUME UNCHANGED <<conn, authenticated, requests, cleanup, handler, aborted, hostState>>
      PROVE  HostInv'
  BY <1>1, <1>2, <1>3 DEF HostInv
<1> USE DEF clientVars, callVars, hostVars, connVars, runVars
<1>4. ASSUME NEW c \in Calls, CallRefused(c) \/ Call(c) \/ Send(c) \/ WaitFails(c) \/ Withdraw(c)
      PROVE  HostInv'
  BY <1>3, <1>4 DEF CallRefused, Call, Send, WaitFails, Withdraw
<1>5. ASSUME NEW c \in Calls, HandlerEnds(c)
      PROVE  HostInv'
  <2>1. /\ handler[c] = "running" /\ (\E how \in Ends : handler' = [handler EXCEPT ![c] = how])
        /\ requests' = requests \ {c}
        /\ UNCHANGED <<via, conn, authenticated, cleanup, aborted, hostState>>
    BY <1>5 DEF HandlerEnds
  <2>2. handler'[c] # "running" /\ \A d \in Calls : d # c => handler'[d] = handler[d]
    BY <1>1, <2>1 DEF Ends
  <2> QED
    BY <1>1, <2>1, <2>2 DEF HostInv
<1>6. ASSUME NEW c \in Calls, HandlerEndsUnserializable(c)
      PROVE  HostInv'
  <2> DEFINE S == {via[c]}
  <2>1. /\ handler[c] = "running" /\ conn[via[c]] = "open" /\ Terminate(S)
        /\ handler' = [handler EXCEPT ![c] = "error"]
        /\ UNCHANGED <<via, authenticated, hostState>>
    BY <1>6 DEF HandlerEndsUnserializable
  <2>2. S \in SUBSET Links /\ (\A n \in S : conn[n] = "open") /\ hostState' # "closed"
    BY <1>1, <2>1, LinksInUse DEF PipeInv
  <2>3. requests' = requests \ OnLinks(S) /\ c \notin requests \ OnLinks(S)
    BY <2>1 DEF Terminate, OnLinks
  <2> HIDE DEF S
  <2>4. \A d \in requests' : handler'[d] = "running"
    BY <1>1, <2>1, <2>3 DEF HostInv
  <2>5. \A d \in Calls : handler'[d] = "running" => handler[d] = "running"
    BY <1>1, <2>1
  <2> QED
    BY <2>1, <2>2, <2>4, <2>5, HostTerminates
<1>7. ASSUME NEW n \in Links,
             \/ Locate(n) \/ ConnectFails(n) \/ ClientLosesLink(n)
             \/ ClientReceivesAck(n) \/ ClientReceivesResponse(n)
      PROVE  HostInv'
  BY <1>3, <1>7 DEF Locate, ConnectFails, ClientLosesLink, ClientReceivesAck,
       ClientReceivesResponse
<1>8. ASSUME NEW n \in Links, SocketConnects(n) \/ Accept(n)
      PROVE  HostInv'
  <2>1. /\ conn[n] \in {"none", "queued"} /\ n \notin authenticated
        /\ \A m \in Links : m # n => conn'[m] = conn[m]
    BY <1>1, <1>8 DEF SocketConnects, Accept, PipeInv
  <2>2. UNCHANGED <<via, authenticated, requests, cleanup, handler, aborted, hostState>>
    BY <1>8 DEF SocketConnects, Accept
  <2>3. cleanup[n] = "none"
    BY <1>1, <2>1 DEF HostInv
  <2> QED
    BY <1>1, <1>2, <2>1, <2>2, <2>3 DEF HostInv
<1>9. ASSUME NEW n \in Links, HostLosesLink(n)
      PROVE  HostInv'
  <2> DEFINE S == {n}
  <2>1. /\ conn[n] = "open" /\ Terminate(S)
        /\ UNCHANGED <<via, handler, authenticated, hostState>>
    BY <1>9 DEF HostLosesLink
  <2>2. S \in SUBSET Links /\ (\A m \in S : conn[m] = "open") /\ hostState' # "closed"
    BY <1>1, <2>1 DEF PipeInv
  <2>3. requests' \subseteq requests
    BY <2>1 DEF Terminate
  <2> HIDE DEF S
  <2>4. \A d \in requests' : handler'[d] = "running"
    BY <1>1, <2>1, <2>3 DEF HostInv
  <2> QED
    BY <2>1, <2>2, <2>4, HostTerminates
<1>10. ASSUME NEW n \in Links, HostReceivesHello(n)
       PROVE  HostInv'
  <2>1. /\ conn[n] = "open" /\ authenticated' = authenticated \cup {n}
        /\ UNCHANGED <<via, conn, requests, cleanup, handler, aborted, hostState>>
    BY <1>10 DEF HostReceivesHello, HostReads
  <2> QED
    BY <1>1, <2>1 DEF HostInv
<1>11. ASSUME NEW n \in Links, HostReceivesRequest(n)
       PROVE  HostInv'
  <2> DEFINE c == Head(up[n]).call
  <2>1. c \in Calls /\ conn[n] = "open" /\ In(up[n], Request(c))
    BY <1>11, FrameRead DEF HostReceivesRequest
  <2>2. /\ requests' = requests \cup {c} /\ handler' = [handler EXCEPT ![c] = "running"]
        /\ UNCHANGED <<via, conn, authenticated, cleanup, aborted, hostState>>
    BY <1>11 DEF HostReceivesRequest
  <2> HIDE DEF c
  <2>3. via[c] = n
    BY <1>1, <2>1 DEF FrameInv, Sent
  <2>4. \A d \in Calls : handler'[d] = IF d = c THEN "running" ELSE handler[d]
    BY <1>1, <2>1, <2>2
  <2> QED
    BY <1>1, <2>1, <2>2, <2>3, <2>4 DEF HostInv
<1>12. ASSUME NEW n \in Links, HostReceivesCancel(n)
       PROVE  HostInv'
  <2>1. /\ aborted \subseteq aborted'
        /\ UNCHANGED <<via, conn, authenticated, requests, cleanup, handler, hostState>>
    BY <1>12 DEF HostReceivesCancel
  <2> QED
    BY <1>1, <2>1 DEF HostInv
<1>13. ASSUME NEW n \in Links, CleanupEnds(n)
       PROVE  HostInv'
  <2>1. /\ cleanup[n] = "running" /\ cleanup' = [cleanup EXCEPT ![n] = "done"]
        /\ UNCHANGED <<via, conn, authenticated, requests, handler, aborted, hostState>>
    BY <1>13 DEF CleanupEnds
  <2> QED
    BY <1>1, <2>1 DEF HostInv
<1>14. ASSUME Close
       PROVE  HostInv'
  BY <1>3, <1>14 DEF Close
<1>15. ASSUME HostCloses
       PROVE  HostInv'
  <2> DEFINE S == {n \in Links : conn[n] = "open"}
  <2>1. /\ Terminate(S) /\ hostState' = "closing"
        /\ UNCHANGED <<via, handler, authenticated>>
    BY <1>15 DEF HostCloses
  <2>2. S \in SUBSET Links /\ (\A m \in S : conn[m] = "open") /\ hostState' # "closed"
    BY <2>1
  <2>3. requests' \subseteq requests
    BY <2>1 DEF Terminate
  <2> HIDE DEF S
  <2>4. \A d \in requests' : handler'[d] = "running"
    BY <1>1, <2>1, <2>3 DEF HostInv
  <2> QED
    BY <2>1, <2>2, <2>4, HostTerminates
<1>16. ASSUME HostClosed
       PROVE  HostInv'
  <2>1. /\ \A n \in Links : conn'[n] = IF conn[n] = "queued" THEN "gone" ELSE conn[n]
        /\ \A n \in Links : cleanup[n] # "running"
        /\ UNCHANGED <<via, authenticated, requests, cleanup, handler, aborted>>
    BY <1>1, <1>16 DEF HostClosed, Unaccepted
  <2>2. \A n \in Links : conn[n] = "queued" => n \notin authenticated
    BY <1>1 DEF PipeInv
  <2> QED
    BY <1>1, <1>2, <2>1, <2>2 DEF HostInv
<1>17. ASSUME HostProcessEnds
       PROVE  HostInv'
  <2>1. /\ hostState' = "ended" /\ requests' = {} /\ authenticated' = authenticated
        /\ \A n \in Links : conn'[n] = IF conn[n] = "none" THEN "none" ELSE "gone"
        /\ \A n \in Links : cleanup'[n] = IF n \in authenticated /\ cleanup[n] # "done"
                                         THEN "lost" ELSE cleanup[n]
        /\ \A c \in Calls : handler'[c] # "running"
    BY <1>1, <1>17 DEF HostProcessEnds
  <2>2. \A n \in Links : n \in authenticated => conn[n] # "none"
    BY <1>1 DEF PipeInv
  <2> QED
    BY <1>1, <2>1, <2>2 DEF HostInv
<1>18. ASSUME HostProcessBegins
       PROVE  HostInv'
  <2>1. /\ hostState' = "open" /\ hostState = "ended"
        /\ \A n \in Links : conn'[n] = IF clientState[n] = "none" THEN "none" ELSE "gone"
        /\ UNCHANGED <<via, authenticated, requests, cleanup, handler, aborted>>
    BY <1>1, <1>18 DEF HostProcessBegins
  <2>2. requests = {}
    BY <1>1, <1>2, <2>1 DEF HostInv, PipeInv
  <2>3. \A n \in Links : n \in authenticated => conn[n] = "gone" /\ clientState[n] # "none"
    BY <1>1, <2>1 DEF PipeInv
  <2> QED
    BY <1>1, <2>1, <2>2, <2>3 DEF HostInv
<1>19. ASSUME NEW c \in Calls, CallStep(c)
       PROVE  HostInv'
  BY <1>4, <1>5, <1>6, <1>19 DEF CallStep
<1>20. ASSUME NEW n \in Links, LinkStep(n)
       PROVE  HostInv'
  BY <1>7, <1>8, <1>9, <1>10, <1>11, <1>12, <1>13, <1>20 DEF LinkStep
<1> QED
  BY <1>14, <1>15, <1>16, <1>17, <1>18, <1>19, <1>20, NextSplits DEF HostStep

\* A connection that is open was, or its client has only begun to connect.
LEMMA OpenedLinks ==
    ASSUME Inv, Next, NEW n \in Links, Open(n)'
    PROVE  Open(n) \/ clientState[n] = "none"
<1>1. clientState \in [Links -> {"none", "connecting", "ready", "closed"}]
  BY DEF Inv, TypeOK
<1>2. ASSUME NEW m \in Links,
             Locate(m) \/ ConnectFails(m) \/ ClientLosesLink(m) \/ ClientReceivesAck(m)
      PROVE  Open(n) \/ clientState[n] = "none"
  BY <1>1, <1>2 DEF Locate, ConnectFails, ClientLosesLink, ClientReceivesAck,
       LoseLink, Open
<1>3. ASSUME (\E c \in Calls : Call(c) \/ Send(c)) \/ UNCHANGED linkVars
      PROVE  Open(n)
  BY <1>3 DEF Call, Send, linkVars, Open
<1>4. ASSUME Close
      PROVE  Open(n)
  BY <1>1, <1>4 DEF Close, LoseLink, Open
<1> QED
  BY <1>2, <1>3, <1>4, LinkSteps

\* An abort signal that has fired stays so.
LEMMA AbortsStay ==
    ASSUME Next
    PROVE  aborted \subseteq aborted'
<1> USE DEF hostVars, runVars
<1>1. ASSUME NEW c \in Calls, CallStep(c)
      PROVE  aborted \subseteq aborted'
  BY <1>1 DEF CallStep, CallRefused, Call, Send, WaitFails, Withdraw, HandlerEnds,
       HandlerEndsUnserializable, Terminate
<1>2. ASSUME NEW n \in Links, LinkStep(n)
      PROVE  aborted \subseteq aborted'
  BY <1>2 DEF LinkStep, Locate, SocketConnects, ConnectFails, ClientLosesLink,
       ClientReceivesAck, ClientReceivesResponse, Accept, HostLosesLink,
       HostReceivesHello, HostReceivesRequest, HostReceivesCancel, CleanupEnds,
       Terminate
<1>3. ASSUME Close \/ HostStep
      PROVE  aborted \subseteq aborted'
  BY <1>3 DEF Close, HostStep, HostCloses, HostClosed, HostProcessEnds,
       HostProcessBegins,
       Terminate
<1> QED
  BY <1>1, <1>2, <1>3, NextSplits

LEMMA NoticeInvStep ==
    ASSUME Inv, Next
    PROVE  NoticeInv'
<1> SUFFICES ASSUME NEW c \in Calls, step'[c] = "done", via'[c] # 0, Open(via[c])',
                    \/ handler'[c] = "running" /\ c \notin aborted'
                    \/ In(up'[via'[c]], Request(c))
             PROVE  In(up'[via'[c]], Cancel(c))
  BY DEF NoticeInv
<1>1. /\ FrameInv /\ CallInv /\ LinkInv /\ PipeInv /\ HostInv /\ NoticeInv
      /\ up \in [Links -> Seq(UpFrames)]
      /\ step \in [Calls -> {"idle", "waiting", "pending", "done"}]
      /\ via \in [Calls -> 0..MaxLinks] /\ via' \in [Calls -> 0..MaxLinks]
  BY TypesOfTheClient DEF Inv, TypeOK, UpFrames
<1>2. \A n \in Links : In(up'[n], Request(c)) => In(up[n], Request(c))
  <2>1. ASSUME NEW n \in Links, In(up'[n], Request(c))
        PROVE  In(up[n], Request(c))
    <3>1. SUFFICES ASSUME Send(c), step[c] = "waiting"
                   PROVE  In(up[n], Request(c))
      BY <2>1, RequestsInPipe
    <3>2. up' = up
      BY <1>1, <3>1 DEF Send
    <3> QED
      BY <2>1, <3>2
  <2> QED
    BY <2>1
<1>3. \E m \in Links :
        /\ Sent(c, m) /\ via'[c] = m
        /\ (handler[c] = "running" /\ c \notin aborted) \/ In(up[m], Request(c))
  <2>1. ASSUME NEW m \in Links, Sent(c, m)
        PROVE  via'[c] = m
    BY <2>1, SentStays DEF Sent
  <2>2. via'[c] \in Links
    BY <1>1, Bounds DEF Links
  <2>3. CASE In(up'[via'[c]], Request(c))
    <3>1. In(up[via'[c]], Request(c))
      BY <1>2, <2>2, <2>3
    <3> QED
      BY <1>1, <2>2, <3>1 DEF FrameInv, Sent
  <2>4. CASE handler'[c] = "running" /\ c \notin aborted'
    <3>1. CASE handler[c] = "running"
      <4>1. via[c] \in Links /\ Sent(c, via[c]) /\ c \notin aborted
        BY <1>1, <2>4, <3>1, AbortsStay DEF CallInv
      <4> QED
        BY <2>1, <3>1, <4>1
    <3>2. CASE handler[c] # "running"
      <4>1. PICK m \in Links : HostReceivesRequest(m) /\ Head(up[m]) = Request(c)
        BY <2>4, <3>2, HandlerMoves
      <4>2. In(up[m], Request(c))
        BY <4>1, FrameRead DEF HostReceivesRequest
      <4>3. Sent(c, m)
        BY <1>1, <4>2 DEF FrameInv
      <4> QED
        BY <2>1, <4>2, <4>3
    <3> QED
      BY <3>1, <3>2
  <2> QED
    BY <2>3, <2>4
<1>4. PICK n \in Links :
        /\ Sent(c, n) /\ via'[c] = n /\ via[c] = n
        /\ (handler[c] = "running" /\ c \notin aborted) \/ In(up[n], Request(c))
  BY <1>3 DEF Sent
<1>5. Open(n)
  <2>1. clientState[n] # "none"
    BY <1>1, <1>4 DEF Sent, LinkInv
  <2>2. Open(n)'
    BY <1>4 DEF Open
  <2> QED
    BY <2>1, <2>2, OpenedLinks
<1>6. CASE step[c] = "done"
  <2>1. In(up[n], Cancel(c))
    BY <1>1, <1>4, <1>5, <1>6, Bounds DEF NoticeInv, Links
  <2>2. ASSUME NEW e \in UpFrames, up'[n] = Append(up[n], e)
        PROVE  In(up'[n], Cancel(c))
    BY <1>1, <2>1, <2>2, InAppend
  <2>3. ASSUME HostReceivesHello(n) \/ HostReceivesRequest(n) \/ HostReceivesCancel(n),
               up[n] # <<>>, up'[n] = Tail(up[n])
        PROVE  In(up'[n], Cancel(c))
    <3>1. Head(up[n]) # Cancel(c)
      <4> SUFFICES ASSUME Head(up[n]) = Cancel(c)
                   PROVE  FALSE
        OBVIOUS
      <4>1. HostReceivesCancel(n) /\ conn[n] = "open"
        <5>1. ~HostReceivesHello(n) /\ ~HostReceivesRequest(n)
          BY FrameRead, FramesDiffer DEF HostReceivesHello, HostReceivesRequest
        <5> QED
          BY <2>3, <5>1 DEF HostReceivesCancel, HostReads
      <4>2. handler' = handler /\ aborted' = aborted \cup ({c} \cap requests)
        <5>1. Head(up[n]).call = c
          BY FramesDiffer
        <5> QED
          BY <4>1, <5>1 DEF HostReceivesCancel
      <4>3. CASE In(up[n], Request(c))
        <5>1. RequestFirst(up[n], c)
          BY <1>1, <4>1, <4>3 DEF FrameInv
        <5> QED
          BY <1>1, <2>3, <5>1, RequestFirstTail
      <4>4. CASE ~In(up[n], Request(c))
        <5>1. handler[c] = "running" /\ c \notin aborted
          BY <1>4, <4>4
        <5>2. c \in aborted'
          BY <1>1, <4>2, <5>1 DEF HostInv
        <5>3. In(up'[n], Request(c))
          BY <1>4, <5>2
        <5> QED
          BY <1>2, <4>4, <5>3
      <4> QED
        BY <4>3, <4>4
    <3> QED
      BY <1>1, <2>1, <2>3, <3>1, InTail
  <2>4. /\ \A d \in Calls : Request(d) \in UpFrames /\ Cancel(d) \in UpFrames
        /\ Hello \in UpFrames
    BY FramesDiffer
  <2>5. UpMove(n)
    BY UpMoves
  <2>6. In(up'[n], Cancel(c))
    BY <2>1, <2>2, <2>3, <2>4, <2>5 DEF UpMove
  <2> QED
    BY <1>4, <2>6
<1>7. CASE step[c] # "done"
  <2>1. step[c] = "pending"
    BY <1>4, <1>7 DEF Sent
  <2>2. handler[c] \notin Ends
    BY <1>1, <1>4 DEF FrameInv, Ends
  <2>3. clientState'[n] # "closed"
    BY <1>4 DEF Open
  <2>4. up' = [up EXCEPT ![n] = Append(up[n], Cancel(c))]
    BY <1>4, <2>1, <2>2, <2>3, PendingSettles
  <2>5. In(up'[n], Cancel(c))
    BY <1>1, <2>4, InAppend, FramesDiffer
  <2> QED
    BY <1>4, <2>5
<1> QED
  BY <1>6, <1>7

-----------------------------------------------------------------------------
(* The theorems.                                                           *)

LEMMA InvInit == Init => Inv
<1> SUFFICES ASSUME Init
             PROVE  Inv
  OBVIOUS
<1>1. TypeOK
  <2>1. up \in [Links -> Seq(UpFrames)] /\ down \in [Links -> Seq(DownFrames)]
    BY EmptySeq DEF Init
  <2>2. {current, operation, opened} \subseteq 0..MaxLinks /\ via \in [Calls -> 0..MaxLinks]
    BY Bounds DEF Init, Links
  <2> QED
    BY <2>1, <2>2 DEF Init, TypeOK, UpFrames
<1>2. DataInv
  BY DEF Init, DataInv, Outcomes, HandlerStates
<1>3. LinkInv
  BY Bounds DEF Init, LinkInv, Links
<1>4. CallInv /\ HostInv /\ NoticeInv
  BY DEF Init, CallInv, HostInv, NoticeInv
<1>5. PipeInv
  BY DEF Init, PipeInv
<1>6. FrameInv
  <2>1. \A n \in Links : up[n] = <<>> /\ down[n] = <<>>
    BY DEF Init
  <2>2. /\ \A n \in Links : OneRequest(up[n])
        /\ \A n \in Links, c \in Calls : RequestFirst(up[n], c)
    BY <2>1 DEF OneRequest, RequestFirst
  <2>3. \A c \in Calls : step[c] # "pending"
    BY DEF Init
  <2> QED
    BY <2>1, <2>2, <2>3, InShort DEF FrameInv
<1> QED
  BY <1>1, <1>2, <1>3, <1>4, <1>5, <1>6 DEF Inv

\* The frames that a step leaves in a pipe are frames of its direction.
LEMMA TypesOfThePipes ==
    ASSUME Inv, Next
    PROVE  /\ up' \in [Links -> Seq(UpFrames)]
           /\ down' \in [Links -> Seq(DownFrames)]
<1>1. /\ up \in [Links -> Seq(UpFrames)] /\ down \in [Links -> Seq(DownFrames)]
      /\ \A n \in Links : UpMove(n) /\ DownMove(n)
  BY UpMoves, DownMoves DEF Inv, TypeOK, UpFrames
<1>2. \A n \in Links : up'[n] \in Seq(UpFrames)
  <2>1. ASSUME NEW n \in Links
        PROVE  up'[n] \in Seq(UpFrames)
    <3>1. ASSUME NEW e \in UpFrames, up'[n] = Append(up[n], e)
          PROVE  up'[n] \in Seq(UpFrames)
      BY <1>1, <3>1, AppendProperties
    <3>2. ASSUME up[n] # <<>>, up'[n] = Tail(up[n])
          PROVE  up'[n] \in Seq(UpFrames)
      BY <1>1, <3>2, HeadTailProperties
    <3>3. /\ \A d \in Calls : Request(d) \in UpFrames /\ Cancel(d) \in UpFrames
          /\ Hello \in UpFrames
      BY FramesDiffer
    <3> QED
      BY <1>1, <3>1, <3>2, <3>3 DEF UpMove
  <2> QED
    BY <2>1
<1>3. \A n \in Links : down'[n] \in Seq(DownFrames)
  <2>1. ASSUME NEW n \in Links
        PROVE  down'[n] \in Seq(DownFrames)
    <3>1. ASSUME NEW e \in DownFrames, down'[n] = Append(down[n], e)
          PROVE  down'[n] \in Seq(DownFrames)
      BY <1>1, <3>1, AppendProperties
    <3>2. ASSUME down[n] # <<>>, down'[n] = Tail(down[n])
          PROVE  down'[n] \in Seq(DownFrames)
      BY <1>1, <3>2, HeadTailProperties
    <3>3. /\ \A d \in Calls, how \in Ends : Response(d, how) \in DownFrames
          /\ HelloAck \in DownFrames
      BY ResponsesDiffer
    <3> QED
      BY <1>1, <3>1, <3>2, <3>3 DEF DownMove
  <2> QED
    BY <2>1
<1>4. ASSUME NEW c \in Calls, CallStep(c)
      PROVE  up' = [n \in Links |-> up'[n]] /\ down' = [n \in Links |-> down'[n]]
  BY <1>1, <1>4 DEF CallStep, CallRefused, Call, Send, WaitFails, Withdraw,
       HandlerEnds,
       HandlerEndsUnserializable
<1>5. ASSUME NEW m \in Links, LinkStep(m)
      PROVE  up' = [n \in Links |-> up'[n]] /\ down' = [n \in Links |-> down'[n]]
  BY <1>1, <1>5 DEF LinkStep, Locate, SocketConnects, ConnectFails, ClientLosesLink,
       ClientReceivesAck, ClientReceivesResponse, Accept, HostLosesLink,
       HostReceivesHello,
       HostReceivesRequest, HostReceivesCancel, HostReads, CleanupEnds
<1>6. ASSUME Close \/ HostStep
      PROVE  up' = [n \in Links |-> up'[n]] /\ down' = [n \in Links |-> down'[n]]
  BY <1>1, <1>6 DEF Close, HostStep, HostCloses, HostClosed, HostProcessEnds,
       HostProcessBegins
<1>7. up' = [n \in Links |-> up'[n]] /\ down' = [n \in Links |-> down'[n]]
  BY <1>4, <1>5, <1>6, NextSplits
<1> QED
  BY <1>2, <1>3, <1>7

LEMMA InvStep == Inv /\ [Next]_vars => Inv'
<1>1. ASSUME Inv, Next
      PROVE  Inv'
  <2>1. TypeOK' /\ DataInv'
    BY <1>1, TypesOfTheClient, TypesOfTheCalls, TypesOfTheHost, TypesOfThePipes
       DEF TypeOK, DataInv, UpFrames
  <2> QED
    BY <1>1, <2>1, LinkInvStep, CallInvStep, PipeInvStep, FrameInvStep,
         HostInvStep, NoticeInvStep
       DEF Inv
<1>2. ASSUME Inv, UNCHANGED vars
      PROVE  Inv'
  <2> USE DEF vars, clientVars, registryVars, callVars, hostVars, connVars, runVars
  <2>1. TypeOK' /\ DataInv'
    BY <1>2 DEF Inv, TypeOK, DataInv
  <2>2. LinkInv' /\ CallInv'
    BY <1>2 DEF Inv, LinkInv, CallInv, Sent
  <2>3. PipeInv' /\ FrameInv'
    BY <1>2 DEF Inv, PipeInv, FrameInv, Sent
  <2>4. HostInv' /\ NoticeInv'
    BY <1>2 DEF Inv, HostInv, NoticeInv, Open
  <2> QED
    BY <2>1, <2>2, <2>3, <2>4 DEF Inv
<1> QED
  BY <1>1, <1>2

\* What holds whenever neither process is in the middle of a callback.
THEOREM Invariant == SafeSpec => []Inv
BY InvInit, InvStep, PTL DEF SafeSpec

\* RegistryBridgeClient shares one connect operation among the calls that find
\* no connection, and never has two links that live.
THEOREM LinksAreShared == SafeSpec => []OneLiveLink
<1>1. Inv => OneLiveLink
  <2> SUFFICES ASSUME Inv
               PROVE  OneLiveLink
    OBVIOUS
  <2>1. LinkInv /\ TypeOK
    BY DEF Inv
  <2>2. \A n \in Links : Open(n) => operation = n \/ (current = n /\ clientState[n] = "ready")
    BY <2>1 DEF LinkInv, Open
  <2>3. current # 0 /\ operation # 0 => ~Open(current)
    BY <2>1 DEF LinkInv, Open
  <2>4. 0 \notin Links
    BY DEF Links
  <2>5. \A m, n \in Links : Open(m) /\ Open(n) => m = n
    BY <2>2, <2>3, <2>4
  <2>6. closed => current = 0 /\ \A n \in Links : Open(n) => operation = n
    BY <2>1, <2>2, <2>4 DEF LinkInv
  <2>7. \A n \in Links : connected[n] = "pending" <=> operation = n
    BY <2>1 DEF LinkInv
  <2> QED
    BY <2>1, <2>3, <2>5, <2>6, <2>7 DEF OneLiveLink
<1> QED
  BY <1>1, Invariant, PTL

\* BridgeClient and BridgeHost never take each other's frames for a protocol
\* failure, in whatever order calls, cancels and failures come.
THEOREM PeersUnderstand == SafeSpec => []PeersAgree
<1>1. Inv => PeersAgree
  <2> SUFFICES ASSUME Inv
               PROVE  PeersAgree
    OBVIOUS
  <2>1. /\ PipeInv /\ FrameInv
        /\ up \in [Links -> Seq(UpFrames)] /\ down \in [Links -> Seq(DownFrames)]
    BY DEF Inv, TypeOK, UpFrames
  <2>2. ASSUME NEW n \in Links, conn[n] = "open", up[n] # <<>>
        PROVE  Head(up[n]) = Hello <=> n \notin authenticated
    <3>1. In(up[n], Head(up[n]))
      BY <2>1, <2>2, InTail
    <3>2. CASE n \in authenticated
      BY <2>1, <2>2, <3>1, <3>2 DEF PipeInv
    <3>3. CASE n \notin authenticated
      BY <2>1, <2>2, <3>1, <3>3, InShort DEF PipeInv
    <3> QED
      BY <3>2, <3>3
  <2>3. ASSUME NEW n \in Links, Open(n), down[n] # <<>>
        PROVE  Head(down[n]) = HelloAck <=> clientState[n] = "connecting"
    <3>1. In(down[n], Head(down[n]))
      BY <2>1, <2>3, InTail
    <3>2. CASE clientState[n] = "connecting"
      BY <2>1, <2>3, <3>1, <3>2, InShort DEF PipeInv
    <3>3. CASE clientState[n] = "ready"
      BY <2>1, <3>1, <3>3 DEF PipeInv
    <3> QED
      BY <2>3, <3>2, <3>3 DEF Open
  <2>4. ASSUME NEW n \in Links, NEW i \in 1..Len(up[n])
        PROVE  LET f == up[n][i]
               IN  /\ f.type = "request" => handler[f.call] = "none"
                   /\ f.type = "cancel" /\ conn[n] = "open" /\ handler[f.call] = "none"
                        => \E j \in 1..(i - 1) : up[n][j] = Request(f.call)
    <3> DEFINE f == up[n][i]
    <3>1. f \in UpFrames /\ In(up[n], f)
      BY <2>1, ElementOfSeq DEF In
    <3>2. f = up[n][i]
      OBVIOUS
    <3> HIDE DEF f
    <3>3. f.type = "request" => handler[f.call] = "none"
      <4>1. f.type = "request" => f.call \in Calls /\ In(up[n], Request(f.call))
        BY <3>1, UpFrame
      <4> QED
        BY <2>1, <4>1 DEF FrameInv
    <3>4. ASSUME f.type = "cancel", conn[n] = "open", handler[f.call] = "none"
          PROVE  \E j \in 1..(i - 1) : up[n][j] = Request(f.call)
      <4>1. f.call \in Calls /\ up[n][i] = Cancel(f.call)
        BY <3>1, <3>2, <3>4, UpFrame
      <4>2. RequestFirst(up[n], f.call)
        BY <2>1, <3>4, <4>1 DEF FrameInv
      <4> QED
        BY <4>1, <4>2 DEF RequestFirst
    <3> QED
      BY <3>3, <3>4 DEF f
  <2> QED
    BY <2>2, <2>3, <2>4 DEF PeersAgree
<1> QED
  BY <1>1, Invariant, PTL

\* BridgeHost keeps every handler within the reach of a cancel until its signal
\* has fired, and cleans up behind every client that has said hello.
THEOREM EverybodyIsRemembered == SafeSpec => []NobodyIsForgotten
<1>1. Inv => NobodyIsForgotten
  <2> SUFFICES ASSUME Inv
               PROVE  NobodyIsForgotten
    OBVIOUS
  <2>1. CallInv /\ PipeInv /\ HostInv /\ NoticeInv
    BY DEF Inv
  <2>2. ASSUME NEW c \in Calls, handler[c] = "running", c \notin aborted
        PROVE  /\ c \in requests /\ conn[via[c]] = "open"
               /\ outcome[c] # "none" /\ Open(via[c]) =>
                    \E i \in DOMAIN up[via[c]] : up[via[c]][i] = Cancel(c)
    <3>1. c \in requests /\ conn[via[c]] = "open"
      BY <2>1, <2>2 DEF HostInv
    <3>2. via[c] \in Links /\ via[c] # 0
      BY <2>1, <2>2 DEF CallInv, Links
    <3>3. ASSUME outcome[c] # "none", Open(via[c])
          PROVE  \E i \in DOMAIN up[via[c]] : up[via[c]][i] = Cancel(c)
      <4>1. In(up[via[c]], Cancel(c))
        BY <2>1, <2>2, <3>2, <3>3 DEF NoticeInv, CallInv
      <4>2. DOMAIN up[via[c]] = 1..Len(up[via[c]])
        BY <3>2, LenProperties DEF Inv, TypeOK
      <4> QED
        BY <4>1, <4>2 DEF In
    <3> QED
      BY <3>1, <3>3
  <2>3. hostState = "closed" => \A n \in Links : conn[n] # "open" /\ cleanup[n] # "running"
    BY <2>1 DEF PipeInv, HostInv
  <2>4. \A n \in Links : cleanup[n] # "none" <=> n \in authenticated /\ conn[n] = "gone"
    BY <2>1 DEF HostInv
  <2> QED
    BY <2>2, <2>3, <2>4 DEF NobodyIsForgotten
<1> QED
  BY <1>1, Invariant, PTL

-----------------------------------------------------------------------------
(* The refinement.  Handlers, outcomes and withdrawals are the same in both*)
(* specifications; what becomes of links and frames is invisible to a call.*)

LEMMA RefinesInit == Init => AMO!ACInit
BY DEF Init, AMO!ACInit

\* The client's part: how a call is told its outcome.
LEMMA CallStepRefines ==
    ASSUME Inv, NEW c \in Calls, CallStep(c)
    PROVE  AMO!ACNext \/ UNCHANGED AMO!acVars
<1>1. /\ outcome \in [Calls -> Outcomes] /\ handler \in [Calls -> HandlerStates]
      /\ outcome[c] = "none" <=> step[c] # "done"
  BY DEF Inv, DataInv, CallInv
<1> USE DEF hostVars, runVars, clientVars, callVars, registryVars
<1>2. ASSUME UNCHANGED <<handler, outcome, withdrawn>>
      PROVE  AMO!ACNext \/ UNCHANGED AMO!acVars
  BY <1>2 DEF AMO!acVars
<1>3. ASSUME step[c] # "done", UNCHANGED <<handler, withdrawn>>,
             \/ outcome' = [outcome EXCEPT ![c] = "unavailable"]
             \/ c \in withdrawn /\ outcome' = [outcome EXCEPT ![c] = "cancelled"]
      PROVE  AMO!ACNext
  <2>1. CASE outcome' = [outcome EXCEPT ![c] = "unavailable"]
    <3> DEFINE S == {c}
    <3>1. /\ S \in SUBSET Calls /\ \A d \in S : outcome[d] = "none"
          /\ outcome' = [d \in Calls |-> IF d \in S THEN "unavailable" ELSE outcome[d]]
      BY <1>1, <1>3, <2>1
    <3> HIDE DEF S
    <3>2. AMO!ReportUnavailable(S)
      BY <1>3, <3>1 DEF AMO!ReportUnavailable
    <3> QED
      BY <3>1, <3>2 DEF AMO!ACNext
  <2>2. CASE c \in withdrawn /\ outcome' = [outcome EXCEPT ![c] = "cancelled"]
    <3>1. AMO!ReportCancelled(c)
      BY <1>1, <1>3, <2>2 DEF AMO!ReportCancelled
    <3> QED
      BY <3>1 DEF AMO!ACNext
  <2> QED
    BY <1>3, <2>1, <2>2
<1>4. CASE CallRefused(c) \/ WaitFails(c)
  BY <1>3, <1>4 DEF CallRefused, WaitFails, Tell
<1>5. CASE Call(c)
  BY <1>2, <1>5 DEF Call
<1>6. CASE Send(c)
  BY <1>2, <1>3, <1>6 DEF Send, Tell
<1>7. CASE Withdraw(c)
  <2>1. AMO!Withdraw(c)
    BY <1>1, <1>7 DEF Withdraw, Tell, AMO!Withdraw
  <2> QED
    BY <2>1 DEF AMO!ACNext
<1>8. CASE HandlerEnds(c) \/ HandlerEndsUnserializable(c)
  <2>1. AMO!End(c)
    BY <1>8 DEF HandlerEnds, HandlerEndsUnserializable, AMO!End, AMO!Ends, Ends
  <2> QED
    BY <2>1 DEF AMO!ACNext
<1> QED
  BY <1>4, <1>5, <1>6, <1>7, <1>8 DEF CallStep

\* A link that is lost takes its pending calls with it.
LEMMA LosingRefines ==
    ASSUME Inv, NEW n, NEW now, LoseLink(n, now), UNCHANGED <<handler, withdrawn>>
    PROVE  AMO!ACNext
<1> DEFINE S == {c \in Calls : step[c] = "pending" /\ via[c] = n}
<1>1. /\ S \in SUBSET Calls /\ \A c \in S : outcome[c] = "none"
      /\ outcome' = [c \in Calls |-> IF c \in S THEN "unavailable" ELSE outcome[c]]
  BY DEF LoseLink, Inv, CallInv
<1> HIDE DEF S
<1>2. AMO!ReportUnavailable(S)
  BY <1>1 DEF AMO!ReportUnavailable
<1> QED
  BY <1>1, <1>2 DEF AMO!ACNext

LEMMA LinkStepRefines ==
    ASSUME Inv, NEW n \in Links, LinkStep(n)
    PROVE  AMO!ACNext \/ UNCHANGED AMO!acVars
<1> USE DEF hostVars, runVars, clientVars, callVars, registryVars
<1>1. ASSUME UNCHANGED <<handler, outcome, withdrawn>>
      PROVE  AMO!ACNext \/ UNCHANGED AMO!acVars
  BY <1>1 DEF AMO!acVars
<1>2. CASE ConnectFails(n) \/ ClientLosesLink(n)
  <2>1. (\E now : LoseLink(n, now)) /\ UNCHANGED <<handler, withdrawn>>
    BY <1>2 DEF ConnectFails, ClientLosesLink
  <2> QED
    BY <2>1, LosingRefines
<1>3. CASE ClientReceivesResponse(n)
  <2> DEFINE f == Head(down[n])
  <2>1. f.call \in Calls /\ f.how \in Ends /\ handler[f.call] = f.how
    BY <1>3, ResponseRead
  <2>2. /\ IF step[f.call] = "pending" THEN Tell(f.call, f.how) ELSE UNCHANGED <<step, outcome>>
        /\ UNCHANGED <<handler, withdrawn>>
    BY <1>3 DEF ClientReceivesResponse
  <2> HIDE DEF f
  <2>3. CASE step[f.call] = "pending"
    <3>1. outcome[f.call] = "none"
      BY <2>1, <2>3 DEF Inv, CallInv
    <3>2. AMO!Report(f.call)
      BY <2>1, <2>2, <2>3, <3>1 DEF Tell, AMO!Report, AMO!Ends, Ends
    <3> QED
      BY <2>1, <3>2 DEF AMO!ACNext
  <2>4. CASE step[f.call] # "pending"
    BY <1>1, <2>2, <2>4
  <2> QED
    BY <2>3, <2>4
<1>4. CASE HostReceivesRequest(n)
  <2> DEFINE c == Head(up[n]).call
  <2>1. c \in Calls /\ In(up[n], Request(c))
    BY <1>4, FrameRead DEF HostReceivesRequest
  <2>2. handler' = [handler EXCEPT ![c] = "running"] /\ UNCHANGED <<outcome, withdrawn>>
    BY <1>4 DEF HostReceivesRequest
  <2> HIDE DEF c
  <2>3. handler[c] = "none"
    BY <2>1 DEF Inv, FrameInv
  <2>4. AMO!Start(c)
    BY <2>2, <2>3 DEF AMO!Start
  <2> QED
    BY <2>1, <2>4 DEF AMO!ACNext
<1>5. CASE \/ Locate(n) \/ SocketConnects(n) \/ ClientReceivesAck(n)
           \/ Accept(n) \/ HostLosesLink(n) \/ HostReceivesHello(n)
           \/ HostReceivesCancel(n) \/ CleanupEnds(n)
  <2>1. UNCHANGED <<handler, outcome, withdrawn>>
    BY <1>5 DEF Locate, SocketConnects, ClientReceivesAck, Accept, HostLosesLink,
         HostReceivesHello, HostReceivesCancel, CleanupEnds
  <2> QED
    BY <1>1, <2>1
<1> QED
  BY <1>2, <1>3, <1>4, <1>5 DEF LinkStep

LEMMA NextRefines ==
    ASSUME Inv, Next
    PROVE  AMO!ACNext \/ UNCHANGED AMO!acVars
<1> USE DEF hostVars, runVars, clientVars, callVars, registryVars
<1>1. ASSUME UNCHANGED <<handler, outcome, withdrawn>>
      PROVE  AMO!ACNext \/ UNCHANGED AMO!acVars
  BY <1>1 DEF AMO!acVars
<1>2. ASSUME Close
      PROVE  AMO!ACNext \/ UNCHANGED AMO!acVars
  <2>1. CASE CurrentReady
    <3>1. LoseLink(current, 0) /\ UNCHANGED <<handler, withdrawn>>
      BY <1>2, <2>1 DEF Close
    <3> QED
      BY <3>1, LosingRefines
  <2>2. CASE ~CurrentReady
    <3>1. UNCHANGED <<handler, outcome, withdrawn>>
      BY <1>2, <2>2 DEF Close
    <3> QED
      BY <1>1, <3>1
  <2> QED
    BY <2>1, <2>2
<1>3. ASSUME HostProcessEnds
      PROVE  AMO!ACNext \/ UNCHANGED AMO!acVars
  <2> DEFINE S == {c \in Calls : handler[c] = "running"}
  <2>1. /\ S \in SUBSET Calls /\ \A c \in S : handler[c] = "running"
        /\ handler' = [c \in Calls |-> IF c \in S THEN "lost" ELSE handler[c]]
        /\ UNCHANGED <<outcome, withdrawn>>
    BY <1>3 DEF HostProcessEnds
  <2> HIDE DEF S
  <2>2. AMO!Lose(S)
    BY <2>1 DEF AMO!Lose
  <2> QED
    BY <2>1, <2>2 DEF AMO!ACNext
<1>4. ASSUME HostCloses \/ HostClosed \/ HostProcessBegins
      PROVE  AMO!ACNext \/ UNCHANGED AMO!acVars
  <2>1. UNCHANGED <<handler, outcome, withdrawn>>
    BY <1>4 DEF HostCloses, HostClosed, HostProcessBegins
  <2> QED
    BY <1>1, <2>1
<1> QED
  BY <1>2, <1>3, <1>4, CallStepRefines, LinkStepRefines, NextSplits DEF HostStep

\* However links fail and come back, a call is handled at most once and told
\* at most one outcome, and a result it is told is its handler's: bridgeClient.ts
\* never sends a request again, and bridgeHost.ts answers the one that came.
THEOREM RefinesAtMostOnceCalls == SafeSpec => ImplementsAtMostOnceCalls
<1>1. Init => AMO!ACInit
  BY RefinesInit
<1>2. Inv /\ [Next]_vars => [AMO!ACNext]_(AMO!acVars)
  <2>1. ASSUME Inv, Next
        PROVE  AMO!ACNext \/ UNCHANGED AMO!acVars
    BY <2>1, NextRefines
  <2>2. ASSUME UNCHANGED vars
        PROVE  UNCHANGED AMO!acVars
    BY <2>2 DEF vars, clientVars, callVars, hostVars, runVars, AMO!acVars
  <2> QED
    BY <2>1, <2>2
<1> QED
  BY <1>1, <1>2, Invariant, PTL DEF SafeSpec, ImplementsAtMostOnceCalls, AMO!ACSpec

-----------------------------------------------------------------------------
(* Framing: what one step of the decoder does.  Together the theorems say  *)
(* why cutting a stream anywhere does no harm: a chunk only lengthens the  *)
(* unread bytes, whole frames are taken from their front as they were      *)
(* encoded, and a frame that is not complete is left where it is.          *)

Cell == Byte \cup {Unsafe}

\* The unread bytes lie in the buffer between the offsets.
LEMMA UnreadCells ==
    ASSUME NEW d \in Decoder
    PROVE  /\ Unread(d) \in Seq(Cell) /\ Len(Unread(d)) = d.write - d.read
           /\ \A i \in 1..(d.write - d.read) :
                Unread(d)[i] = d.buffer[d.read + i]
<1>1. /\ d.buffer \in Seq(Cell) /\ Len(d.buffer) \in Nat
      /\ d.read \in Nat /\ d.write \in Nat
      /\ d.read <= d.write /\ d.write <= Len(d.buffer)
  BY DEF Decoder, Cell
<1>2. \A i \in (d.read + 1)..d.write : d.buffer[i] \in Cell
  BY <1>1
<1> DEFINE m == d.read + 1
           n == d.write
<1>3. /\ SubSeq(d.buffer, m, n) \in Seq(Cell)
      /\ Len(SubSeq(d.buffer, m, n)) = IF m <= n THEN n - m + 1 ELSE 0
      /\ \A i \in 1..(n - m + 1) : SubSeq(d.buffer, m, n)[i] = d.buffer[m + i - 1]
  <2>1. m \in Int /\ n \in Int
    BY <1>1
  <2> HIDE DEF m, n
  <2> QED
    BY <1>2, <2>1, SubSeqProperties DEF m, n
<1>4. /\ n - m + 1 = d.write - d.read
      /\ (IF m <= n THEN n - m + 1 ELSE 0) = d.write - d.read
      /\ \A i \in 1..(d.write - d.read) : m + i - 1 = d.read + i
  BY <1>1
<1>5. Unread(d) = SubSeq(d.buffer, m, n)
  BY DEF Unread
<1> HIDE DEF m, n
<1> QED
  BY <1>3, <1>4, <1>5

\* Copy changes the cells it is to change and no others.
LEMMA CopyCells ==
    ASSUME NEW source \in Seq(Cell), NEW target \in Seq(Cell),
           NEW at \in Nat, NEW from \in Nat, NEW to \in Nat,
           from <= to, to <= Len(source), at + (to - from) <= Len(target)
    PROVE  LET c == Copy(source, target, at, from, to)
           IN  /\ c \in Seq(Cell) /\ Len(c) = Len(target)
               /\ \A i \in 1..Len(target) :
                    c[i] = IF at < i /\ i <= at + (to - from)
                           THEN source[from + (i - at)] ELSE target[i]
<1> DEFINE c == Copy(source, target, at, from, to)
<1>1. \A i \in 1..Len(target) :
        /\ c[i] = IF at < i /\ i <= at + (to - from)
                  THEN source[from + (i - at)] ELSE target[i]
        /\ c[i] \in Cell
  BY DEF Copy
<1>2. c \in [1..Len(target) -> Cell]
  BY <1>1 DEF Copy
<1>3. c \in Seq(Cell) /\ Len(c) = Len(target)
  BY <1>2
<1> QED
  BY <1>1, <1>3

\* Making room moves the unread bytes at most, and there is room.
LEMMA RoomForMore ==
    ASSUME NEW d \in Decoder, NEW n \in Nat
    PROVE  LET e == Roomy(d, n)
           IN  /\ e \in Decoder /\ e.write + n <= Len(e.buffer)
               /\ Unread(e) = Unread(d)
<1> DEFINE e == Roomy(d, n)
           m == d.write - d.read
<1>1. /\ d.buffer \in Seq(Cell) /\ Len(d.buffer) \in Nat
      /\ d.read \in Nat /\ d.write \in Nat /\ m \in Nat
      /\ d.read <= d.write /\ d.write <= Len(d.buffer)
  BY DEF Decoder, Cell
<1>2. ASSUME NEW target \in Seq(Cell), m + n <= Len(target),
             e = Moved(d, target)
      PROVE  e \in Decoder /\ e.write + n <= Len(e.buffer) /\ Unread(e) = Unread(d)
  <2>1. /\ e.buffer \in Seq(Cell) /\ Len(e.buffer) = Len(target)
        /\ \A i \in 1..m : e.buffer[i] = d.buffer[d.read + i]
        /\ e.read = 0 /\ e.write = m
        /\ e = [buffer |-> e.buffer, read |-> e.read, write |-> e.write]
    <3> DEFINE c == Copy(d.buffer, target, 0, d.read, d.write)
    <3>1. Len(target) \in Nat
      OBVIOUS
    <3>2. /\ c \in Seq(Cell) /\ Len(c) = Len(target)
          /\ \A i \in 1..Len(target) :
               c[i] = IF 0 < i /\ i <= 0 + (d.write - d.read)
                      THEN d.buffer[d.read + (i - 0)] ELSE target[i]
      <4> DEFINE s == d.buffer
                 z == 0
                 r == d.read
                 w == d.write
      <4>1. /\ s \in Seq(Cell) /\ z \in Nat /\ r \in Nat /\ w \in Nat
            /\ r <= w /\ w <= Len(s) /\ z + (w - r) <= Len(target)
        BY <1>1, <1>2, <3>1
      <4> HIDE DEF s, z, r, w
      <4>2. LET x == Copy(s, target, z, r, w)
            IN  /\ x \in Seq(Cell) /\ Len(x) = Len(target)
                /\ \A i \in 1..Len(target) :
                     x[i] = IF z < i /\ i <= z + (w - r)
                            THEN s[r + (i - z)] ELSE target[i]
        BY <1>2, <4>1, CopyCells
      <4> QED
        BY <4>2 DEF s, z, r, w
    <3>3. \A i \in 1..m : c[i] = d.buffer[d.read + i]
      <4> HIDE DEF c
      <4>1. \A i \in 1..m : /\ i \in 1..Len(target) /\ 0 < i
                            /\ i <= 0 + (d.write - d.read)
                            /\ d.read + (i - 0) = d.read + i
        BY <1>1, <1>2, <3>1
      <4> QED
        BY <3>2, <4>1
    <3>4. e = [buffer |-> c, read |-> 0, write |-> m]
      BY <1>2 DEF Moved
    <3> HIDE DEF c, e
    <3> QED
      BY <3>2, <3>3, <3>4
  <2>2. e \in Decoder /\ e.write + n <= Len(e.buffer)
    BY <1>1, <1>2, <2>1 DEF Decoder, Cell
  <2>3. Unread(e) = Unread(d)
    <3>1. /\ Unread(e) \in Seq(Cell) /\ Len(Unread(e)) = m
          /\ \A i \in 1..m : Unread(e)[i] = e.buffer[i]
      <4> HIDE DEF e
      <4> QED
        BY <1>1, <2>1, <2>2, UnreadCells
    <3>2. /\ Unread(d) \in Seq(Cell) /\ Len(Unread(d)) = m
          /\ \A i \in 1..m : Unread(d)[i] = d.buffer[d.read + i]
      BY UnreadCells
    <3> HIDE DEF e, m
    <3>3. \A i \in 1..m : Unread(e)[i] = Unread(d)[i]
      BY <2>1, <3>1, <3>2
    <3> QED
      BY <3>1, <3>2, <3>3, SeqEqual
  <2> QED
    BY <2>2, <2>3
<1>3. CASE Len(d.buffer) < m + n
  <2> DEFINE k == Larger(m + n, Larger(8, 2 * Len(d.buffer)))
             fresh == [i \in 1..k |-> Unsafe]
  <2>1. k \in Nat /\ m + n <= k
    BY <1>1 DEF Larger
  <2>2. fresh \in Seq(Cell) /\ Len(fresh) = k
    BY <2>1 DEF Cell
  <2>3. e = Moved(d, fresh)
    BY <1>3 DEF Roomy
  <2> QED
    BY <1>2, <2>1, <2>2, <2>3
<1>4. CASE ~(Len(d.buffer) < m + n) /\ Len(d.buffer) - d.write < n
  <2>1. e = Moved(d, d.buffer)
    BY <1>4 DEF Roomy
  <2> QED
    BY <1>1, <1>2, <1>4, <2>1
<1>5. CASE ~(Len(d.buffer) < m + n) /\ ~(Len(d.buffer) - d.write < n)
  <2>1. e = d
    BY <1>5 DEF Roomy
  <2> QED
    BY <1>1, <1>5, <2>1
<1> QED
  BY <1>3, <1>4, <1>5

\* A chunk is appended to the unread bytes, whatever the buffer had to go
\* through for it: none is lost, repeated, moved or read before it was
\* written.
THEOREM ChunksAreAppended ==
    ASSUME NEW d \in Decoder, NEW bytes \in Seq(Byte)
    PROVE  /\ AppendBytes(d, bytes) \in Decoder
           /\ Unread(AppendBytes(d, bytes)) = Unread(d) \o bytes
<1>1. CASE bytes = <<>>
  <2>1. Unread(d) \in Seq(Cell)
    BY DEF Unread, Decoder, Cell
  <2> QED
    BY <1>1, <2>1 DEF AppendBytes
<1>2. CASE bytes # <<>>
  <2> DEFINE e == Roomy(d, Len(bytes))
             f == AppendBytes(d, bytes)
             n == Len(bytes)
  <2>1. n \in Nat /\ bytes \in Seq(Cell)
    BY DEF Cell
  <2>2. e \in Decoder /\ e.write + n <= Len(e.buffer) /\ Unread(e) = Unread(d)
    BY <2>1, RoomForMore
  <2>3. /\ e.buffer \in Seq(Cell) /\ Len(e.buffer) \in Nat
        /\ e.read \in Nat /\ e.write \in Nat /\ e.read <= e.write
    BY <2>2 DEF Decoder, Cell
  <2>4. f = [buffer |-> Copy(bytes, e.buffer, e.write, 0, n),
             read |-> e.read, write |-> e.write + n]
    BY <1>2 DEF AppendBytes
  <2>5. /\ f.buffer \in Seq(Cell) /\ Len(f.buffer) = Len(e.buffer)
        /\ \A i \in 1..Len(e.buffer) :
             f.buffer[i] = IF e.write < i /\ i <= e.write + n
                           THEN bytes[i - e.write] ELSE e.buffer[i]
    <3>1. LET c == Copy(bytes, e.buffer, e.write, 0, n)
          IN  /\ c \in Seq(Cell) /\ Len(c) = Len(e.buffer)
              /\ \A i \in 1..Len(e.buffer) :
                   c[i] = IF e.write < i /\ i <= e.write + (n - 0)
                          THEN bytes[0 + (i - e.write)] ELSE e.buffer[i]
      <4> HIDE DEF e, n
      <4> QED
        BY SMTT(30), <2>1, <2>2, <2>3, CopyCells DEF n
    <3> QED
      BY <2>1, <2>3, <2>4, <3>1
  <2>6. f \in Decoder
    BY <2>1, <2>2, <2>3, <2>4, <2>5 DEF Decoder, Cell
  <2>7. Unread(f) = Unread(e) \o bytes
    <3> DEFINE u == Unread(e) \o bytes
               k == e.write - e.read
    <3>1. /\ Unread(e) \in Seq(Cell) /\ Len(Unread(e)) = k /\ k \in Nat
          /\ \A i \in 1..k : Unread(e)[i] = e.buffer[e.read + i]
      BY <2>2, <2>3, UnreadCells
    <3>2. /\ Unread(f) \in Seq(Cell) /\ Len(Unread(f)) = k + n
          /\ \A i \in 1..(k + n) : Unread(f)[i] = f.buffer[e.read + i]
      <4>1. f.read = e.read /\ f.write - f.read = k + n
        BY <2>1, <2>3, <2>4
      <4> HIDE DEF f, e, k, n
      <4> QED
        BY <2>6, <4>1, UnreadCells
    <3>3. /\ u \in Seq(Cell) /\ Len(u) = k + n
          /\ \A i \in 1..(k + n) :
               u[i] = IF i <= k THEN Unread(e)[i] ELSE bytes[i - k]
      <4> HIDE DEF e, k
      <4> QED
        BY <2>1, <3>1
    <3>4. ASSUME NEW i \in 1..(k + n)
          PROVE  Unread(f)[i] = u[i]
      <4>1. f.buffer[e.read + i] = IF i <= k THEN e.buffer[e.read + i]
                                            ELSE bytes[i - k]
        <5>1. /\ e.read + i \in 1..Len(e.buffer)
              /\ e.write < e.read + i <=> ~(i <= k)
              /\ e.read + i <= e.write + n
              /\ (e.read + i) - e.write = i - k
          BY SMTT(30), <2>1, <2>2, <2>3
        <5> HIDE DEF e, f, k, n
        <5> QED
          BY <2>5, <5>1
      <4>2. i <= k => i \in 1..k
        BY <3>1, <2>1
      <4> HIDE DEF e, f, k, n, u
      <4> QED
        BY <3>1, <3>2, <3>3, <4>1, <4>2
    <3> HIDE DEF e, f, k, n, u
    <3>5. Unread(f) = u
      BY <2>1, <3>1, <3>2, <3>3, <3>4, SeqEqual
    <3> QED
      BY <3>5 DEF u
  <2> QED
    BY <2>2, <2>6, <2>7
<1> QED
  BY <1>1, <1>2

-----------------------------------------------------------------------------
(* Frames.                                                                 *)

Word == {n \in Nat : n <= 4294967295}

\* readUInt32LE undoes writeUInt32LE.
LEMMA HeaderDigits ==
    ASSUME NEW n \in Word
    PROVE  /\ Header(n) \in Seq(Byte) /\ Len(Header(n)) = 4
           /\ Header(n)[1] + 256 * Header(n)[2] + 65536 * Header(n)[3]
                + 16777216 * Header(n)[4] = n
<1> DEFINE a == n % 256
           b == (n \div 256) % 256
           c == (n \div 65536) % 256
           e == (n \div 16777216) % 256
<1>1. /\ n \in Nat /\ n \div 256 \in Nat /\ n \div 65536 \in Nat
      /\ n \div 16777216 \in 0..255
  BY SMT DEF Word
<1>2. a \in Byte /\ b \in Byte /\ c \in Byte /\ e \in Byte
  BY <1>1, SMT DEF Byte
<1>3. a + 256 * b + 65536 * c + 16777216 * e = n
  <2>1. n = 256 * (n \div 256) + a
    BY <1>1, SMT
  <2>2. n \div 256 = 256 * (n \div 65536) + b
    BY <1>1, SMT
  <2>3. n \div 65536 = 256 * (n \div 16777216) + c
    BY <1>1, SMT
  <2>4. n \div 16777216 = e
    BY <1>1, SMT
  <2> HIDE DEF a, b, c, e
  <2> QED
    BY <1>1, <1>2, <2>1, <2>2, <2>3, <2>4, SMT DEF Byte
<1>4. Header(n) = <<a, b, c, e>>
  BY DEF Header
<1> HIDE DEF a, b, c, e
<1> QED
  BY <1>2, <1>3, <1>4, SMT

LEMMA EncodableLength ==
    ASSUME NEW p \in Seq(Byte), Encodable(p)
    PROVE  Len(p) \in Word /\ Len(p) \in Nat /\ Len(p) <= MaxFrame /\ MaxFrame \in Nat
<1>1. Len(p) \in Nat
  OBVIOUS
<1>2. Len(p) <= MaxFrame
  BY DEF Encodable
<1>3. MaxFrame \in Nat /\ MaxFrame <= 2147483647
  BY MaxFrameAssumption, SMT
<1> DEFINE n == Len(p)
<1>4. n \in Nat /\ n <= MaxFrame
  BY <1>1, <1>2
<1> HIDE DEF n
<1>5. n \in Word
  BY <1>3, <1>4, SMT DEF Word
<1> QED
  BY <1>3, <1>4, <1>5 DEF n

\* What stands in front of the unread bytes is what the decoder reads.
LEMMA HeaderIsRead ==
    ASSUME NEW d \in Decoder, NEW n \in Word, NEW tail \in Seq(Byte),
           Unread(d) = Header(n) \o tail
    PROVE  /\ HasHeader(d) /\ PayloadLength(d) = n
           /\ d.write - d.read = 4 + Len(tail)
           /\ \A i \in 1..Len(tail) : d.buffer[d.read + 4 + i] = tail[i]
<1> DEFINE h == Header(n)
<1>1. /\ h \in Seq(Byte) /\ Len(h) = 4
      /\ h[1] + 256 * h[2] + 65536 * h[3] + 16777216 * h[4] = n
  BY HeaderDigits
<1>2. /\ Len(tail) \in Nat /\ Len(h \o tail) = 4 + Len(tail)
      /\ \A i \in 1..(4 + Len(tail)) :
           (h \o tail)[i] = IF i <= 4 THEN h[i] ELSE tail[i - 4]
  <2> HIDE DEF h
  <2>1. /\ h \in Seq(Byte) /\ Len(h) = 4 /\ Len(tail) \in Nat
    BY <1>1
  <2>2. /\ Len(h \o tail) = Len(h) + Len(tail)
        /\ \A i \in 1..(Len(h) + Len(tail)) :
             (h \o tail)[i] = IF i <= Len(h) THEN h[i] ELSE tail[i - Len(h)]
    BY <2>1, ConcatProperties
  <2> QED
    BY <2>1, <2>2
<1>3. /\ Len(Unread(d)) = d.write - d.read
      /\ \A i \in 1..(d.write - d.read) : Unread(d)[i] = d.buffer[d.read + i]
  BY UnreadCells
<1>4. d.read \in Nat /\ d.write \in Nat
  BY DEF Decoder
<1>5. d.write - d.read = 4 + Len(tail)
  BY <1>2, <1>3
<1>6. \A i \in 1..(4 + Len(tail)) :
        d.buffer[d.read + i] = IF i <= 4 THEN h[i] ELSE tail[i - 4]
  <2> HIDE DEF h
  <2> QED
    BY <1>2, <1>3, <1>5 DEF h
<1>7. PayloadLength(d) = n
  <2>1. \A i \in 1..4 : d.buffer[d.read + i] = h[i]
    BY <1>2, <1>6
  <2> HIDE DEF h
  <2> QED
    BY <1>1, <2>1 DEF PayloadLength, Length
<1>8. \A i \in 1..Len(tail) : d.buffer[d.read + 4 + i] = tail[i]
  <2>1. ASSUME NEW i \in 1..Len(tail)
        PROVE  d.buffer[d.read + 4 + i] = tail[i]
    <3>1. /\ 4 + i \in 1..(4 + Len(tail)) /\ ~(4 + i <= 4) /\ (4 + i) - 4 = i
          /\ d.read + (4 + i) = d.read + 4 + i
      BY <1>2, <1>4
    <3> QED
      BY <1>6, <3>1
  <2> QED
    BY <2>1
<1>9. HasHeader(d)
  BY <1>2, <1>5 DEF HasHeader
<1> QED
  BY <1>5, <1>7, <1>8, <1>9

\* A frame at the front of the unread bytes is taken as it was encoded, and
\* what follows it becomes the front.
THEOREM FramesAreTaken ==
    ASSUME NEW d \in Decoder, NEW p \in Seq(Byte), NEW rest \in Seq(Byte),
           Encodable(p), Unread(d) = Encode(p) \o rest
    PROVE  /\ Complete(d) /\ Payload(d) = p
           /\ Skipped(d) \in Decoder /\ Unread(Skipped(d)) = rest
<1> DEFINE n == Len(p)
           tail == p \o rest
<1>1. n \in Word /\ n \in Nat /\ n <= MaxFrame /\ MaxFrame \in Nat
  BY EncodableLength
<1>2. /\ tail \in Seq(Byte) /\ Len(tail) = n + Len(rest) /\ Len(rest) \in Nat
      /\ \A i \in 1..(n + Len(rest)) :
           tail[i] = IF i <= n THEN p[i] ELSE rest[i - n]
  BY ConcatProperties
<1>3. Unread(d) = Header(n) \o tail
  <2>1. Header(n) \in Seq(Byte)
    BY HeaderDigits, <1>1
  <2>2. Unread(d) = (Header(n) \o p) \o rest
    BY DEF Encode
  <2> HIDE DEF n
  <2> QED
    BY <2>1, <2>2, ConcatAssociative
<1> HIDE DEF tail, n
<1>4. /\ HasHeader(d) /\ PayloadLength(d) = n
      /\ d.write - d.read = 4 + n + Len(rest)
      /\ \A i \in 1..(n + Len(rest)) : d.buffer[d.read + 4 + i] = tail[i]
  <2>1. /\ HasHeader(d) /\ PayloadLength(d) = n
        /\ d.write - d.read = 4 + Len(tail)
        /\ \A i \in 1..Len(tail) : d.buffer[d.read + 4 + i] = tail[i]
    BY <1>1, <1>2, <1>3, HeaderIsRead
  <2> QED
    BY <1>1, <1>2, <2>1
<1>5. /\ d.buffer \in Seq(Cell) /\ Len(d.buffer) \in Nat
      /\ d.read \in Nat /\ d.write \in Nat /\ d.write <= Len(d.buffer)
      /\ d = [buffer |-> d.buffer, read |-> d.read, write |-> d.write]
  BY DEF Decoder, Cell
<1>6. Complete(d)
  BY <1>1, <1>2, <1>4, <1>5 DEF Complete, TooLarge
<1>7. Payload(d) = p
  <2> DEFINE i0 == d.read + 5
             i1 == d.read + 4 + n
  <2>1. i0 \in Int /\ i1 \in Int /\ i1 - i0 + 1 = n
        /\ (IF i0 <= i1 THEN i1 - i0 + 1 ELSE 0) = n
    <3>1. n \in Nat /\ d.read \in Nat
      BY <1>1, <1>5
    <3>2. i0 \in Int /\ i1 \in Int
      BY <3>1
    <3>3. i1 - i0 + 1 = n
      BY <3>1
    <3>4. ~(i0 <= i1) => n = 0
      BY <3>1
    <3> QED
      BY <3>1, <3>2, <3>3, <3>4
  <2>2. \A i \in i0..i1 : d.buffer[i] \in Cell
    BY SMTT(30), <1>1, <1>2, <1>4, <1>5
  <2>3. \A i \in 1..n : d.buffer[i0 + i - 1] = p[i]
    <3>1. ASSUME NEW i \in 1..n
          PROVE  d.buffer[i0 + i - 1] = p[i]
      <4>1. i \in 1..(n + Len(rest)) /\ i <= n /\ i0 + i - 1 = d.read + 4 + i
        BY <1>1, <1>2, <1>5
      <4> HIDE DEF i0
      <4> QED
        BY <1>2, <1>4, <4>1
    <3> QED
      BY <3>1
  <2>4. Payload(d) = SubSeq(d.buffer, i0, i1)
    BY <1>4 DEF Payload
  <2> HIDE DEF i0, i1
  <2>5. /\ Payload(d) \in Seq(Cell) /\ Len(Payload(d)) = n
        /\ \A i \in 1..n : Payload(d)[i] = d.buffer[i0 + i - 1]
    BY <2>1, <2>2, <2>4, SubSeqProperties
  <2>6. p \in Seq(Cell) /\ Len(p) = n
    BY DEF Cell, n
  <2> QED
    BY <2>3, <2>5, <2>6, SeqEqual
<1>8. /\ Skipped(d).buffer = d.buffer /\ Skipped(d).write = d.write
      /\ Skipped(d).read = d.read + 4 + n
      /\ Skipped(d) \in Decoder
  <2> DEFINE r == d.read + 4 + n
  <2>1. Skipped(d) = [buffer |-> d.buffer, read |-> r, write |-> d.write]
    BY SMTT(30), <1>4, <1>5 DEF Skipped
  <2>2. r \in Nat /\ r <= d.write
    <3>1. /\ n \in Nat /\ Len(rest) \in Nat /\ d.read \in Nat /\ d.write \in Nat
          /\ d.write - d.read = 4 + n + Len(rest)
      BY <1>1, <1>2, <1>4, <1>5
    <3> QED
      BY <3>1
  <2> HIDE DEF r
  <2>3. Skipped(d) \in Decoder
    BY <1>5, <2>1, <2>2 DEF Decoder, Cell
  <2> QED
    BY <2>1, <2>3 DEF r
<1>9. Unread(Skipped(d)) = rest
  <2> DEFINE e == Skipped(d)
  <2>1. /\ Unread(e) \in Seq(Cell) /\ Len(Unread(e)) = Len(rest)
        /\ \A i \in 1..Len(rest) : Unread(e)[i] = d.buffer[d.read + 4 + n + i]
    <3>1. e.write - e.read = Len(rest)
      BY SMTT(30), <1>1, <1>2, <1>4, <1>5, <1>8
    <3> HIDE DEF e
    <3> QED
      BY <1>8, <3>1, UnreadCells DEF e
  <2>2. \A i \in 1..Len(rest) : d.buffer[d.read + 4 + n + i] = rest[i]
    <3>1. ASSUME NEW i \in 1..Len(rest)
          PROVE  d.buffer[d.read + 4 + n + i] = rest[i]
      <4>1. /\ n + i \in 1..(n + Len(rest)) /\ ~(n + i <= n) /\ (n + i) - n = i
            /\ d.read + 4 + (n + i) = d.read + 4 + n + i
        BY SMTT(30), <1>1, <1>2, <1>5
      <4> QED
        BY <1>2, <1>4, <4>1
    <3> QED
      BY <3>1
  <2>3. rest \in Seq(Cell)
    BY DEF Cell
  <2> HIDE DEF e
  <2>4. Unread(e) = rest
    BY <2>1, <2>2, <2>3, SeqEqual
  <2> QED
    BY <2>4 DEF e
<1> QED
  BY <1>6, <1>7, <1>8, <1>9

\* As long as a byte of a frame is missing, the decoder takes nothing and finds
\* no fault, in the middle of a header or after it.
THEOREM PartialFramesWait ==
    ASSUME NEW d \in Decoder, NEW p \in Seq(Byte), NEW missing \in Seq(Byte),
           missing # <<>>, Encodable(p), Unread(d) \in Seq(Byte),
           Unread(d) \o missing = Encode(p)
    PROVE  ~Complete(d) /\ ~TooLarge(d)
<1> DEFINE n == Len(p)
           u == Unread(d)
           h == Header(n)
<1>1. n \in Word /\ n \in Nat /\ n <= MaxFrame /\ MaxFrame \in Nat
  BY EncodableLength
<1>2. /\ h \in Seq(Byte) /\ Len(h) = 4
      /\ h[1] + 256 * h[2] + 65536 * h[3] + 16777216 * h[4] = n
  BY <1>1, HeaderDigits
<1>3. /\ Len(h \o p) = 4 + n
      /\ \A i \in 1..4 : (h \o p)[i] = h[i]
  <2> HIDE DEF h
  <2>1. /\ h \in Seq(Byte) /\ Len(h) = 4 /\ Len(p) \in Nat
    BY <1>2
  <2>2. /\ Len(h \o p) = Len(h) + Len(p)
        /\ \A i \in 1..(Len(h) + Len(p)) :
             (h \o p)[i] = IF i <= Len(h) THEN h[i] ELSE p[i - Len(h)]
    BY <2>1, ConcatProperties
  <2>3. \A i \in 1..4 : i \in 1..(Len(h) + Len(p)) /\ i <= Len(h)
    BY <2>1
  <2> QED
    BY <2>1, <2>2, <2>3
<1>4. /\ Len(u) \in Nat /\ Len(missing) \in Nat /\ Len(missing) > 0
      /\ Len(u \o missing) = Len(u) + Len(missing)
      /\ \A i \in 1..Len(u) : (u \o missing)[i] = u[i]
  <2> HIDE DEF u
  <2>1. u \in Seq(Byte)
    BY DEF u
  <2>2. Len(u) \in Nat /\ Len(missing) \in Nat /\ Len(missing) > 0
    BY <2>1
  <2>3. \A i \in 1..Len(u) : i \in 1..(Len(u) + Len(missing)) /\ i <= Len(u)
    BY <2>2
  <2> QED
    BY <2>1, <2>2, <2>3, ConcatProperties
<1>5. Len(u) < 4 + n /\ \A i \in 1..4 : i <= Len(u) => u[i] = h[i]
  <2>1. u \o missing = h \o p
    BY DEF Encode
  <2> HIDE DEF u, h, n
  <2>2. Len(u) < 4 + n
    BY <1>1, <1>3, <1>4, <2>1
  <2>3. \A i \in 1..4 : i <= Len(u) => i \in 1..Len(u)
    BY <1>4
  <2> QED
    BY <1>3, <1>4, <2>1, <2>2, <2>3
<1>6. /\ d.write - d.read = Len(u)
      /\ \A i \in 1..Len(u) : u[i] = d.buffer[d.read + i]
  BY UnreadCells
<1>7. HasHeader(d) => PayloadLength(d) = n
  <2> SUFFICES ASSUME HasHeader(d) PROVE PayloadLength(d) = n
    OBVIOUS
  <2>1. \A i \in 1..4 : i <= Len(u) /\ i \in 1..Len(u)
    BY <1>4, <1>6 DEF HasHeader
  <2>2. \A i \in 1..4 : d.buffer[d.read + i] = h[i]
    BY <1>5, <1>6, <2>1
  <2> HIDE DEF h, u, n
  <2> QED
    BY <1>2, <2>2 DEF PayloadLength, Length
<1> HIDE DEF u, n, h
<1> QED
  BY <1>1, <1>4, <1>5, <1>6, <1>7 DEF Complete, TooLarge

\* A header that announces more than the limit is refused as soon as it is
\* there, before any of its payload.
THEOREM LargeFramesAreRefused ==
    ASSUME NEW d \in Decoder, NEW n \in Word, NEW tail \in Seq(Byte),
           n > MaxFrame, Unread(d) = Header(n) \o tail
    PROVE  TooLarge(d) /\ ~Complete(d)
<1>1. HasHeader(d) /\ PayloadLength(d) = n
  BY HeaderIsRead
<1> QED
  BY <1>1 DEF TooLarge, Complete
=============================================================================
