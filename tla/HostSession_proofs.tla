------------------------- MODULE HostSession_proofs -------------------------
(* Proofs about the Host and its clients, for any number of connections and *)
(* requests and any bounds on operations.                                   *)
EXTENDS HostSession, TLAPS, FiniteSetTheorems, SequenceTheorems
-----------------------------------------------------------------------------
(* Queues. *)
LEMMA Appended ==
    ASSUME NEW S, NEW q \in Seq(S), NEW e \in S
    PROVE  Append(q, e) \in Seq(S) /\ Len(Append(q, e)) = Len(q) + 1 /\ Append(q, e) # <<>>
BY AppendProperties

LEMMA Handled ==
    ASSUME NEW S, NEW q \in Seq(S), q # <<>>
    PROVE  Head(q) \in S /\ Tail(q) \in Seq(S) /\ Len(Tail(q)) = Len(q) - 1
BY HeadTailProperties

\* What a message adds to the channels.
LEMMA SentTyped ==
    ASSUME HostTypeOK, NEW c, NEW m \in ClientMessage
    PROVE  Sent(c, m) \in [Connections -> Seq(ClientMessage)]
<1>1. toClient \in [Connections -> Seq(ClientMessage)]
  BY DEF HostTypeOK
<1>2. CASE c \in Connections
  <2>1. Append(toClient[c], m) \in Seq(ClientMessage)
    BY <1>1, <1>2, Appended
  <2> QED
    BY <1>1, <1>2, <2>1 DEF Sent
<1>3. CASE c \notin Connections
  <2>1. [toClient EXCEPT ![c] = Append(toClient[c], m)] = toClient
    BY <1>1, <1>3
  <2> QED
    BY <1>1, <2>1 DEF Sent
<1> QED
  BY <1>2, <1>3

\* The finally of a handled request.
LEMMA FinishTyped ==
    ASSUME HostTypeOK, NEW c \in Connections, queue[c] # <<>>, FinishRequest(c)
    PROVE  /\ queue' \in [Connections -> Seq(RequestMessage)]
           /\ requestWaiters' \subseteq Waiters
           /\ Head(queue[c]) \in RequestMessage
<1>1. queue \in [Connections -> Seq(RequestMessage)] /\ queue[c] \in Seq(RequestMessage)
  BY DEF HostTypeOK
<1>2. Tail(queue[c]) \in Seq(RequestMessage) /\ Head(queue[c]) \in RequestMessage
  BY <1>1, Handled
<1> QED
  BY <1>1, <1>2 DEF FinishRequest, HostTypeOK

\* An operation that ends.
LEMMA CompleteTyped ==
    ASSUME HostTypeOK, HostAssumption, NEW r \in Requests, NEW outcome \in Outcomes, Complete(r, outcome)
    PROVE  /\ ops' \in [Requests -> Operation]
           /\ ops'[r].state = "completed"
           /\ \A s \in Requests \ {r} : ops'[s] = ops[s]
           /\ retained' \in Seq(Requests) /\ Len(retained') <= MaxCompleted
           /\ idleWaiters' = IF ops[r].counted THEN {w \in idleWaiters : Active(w) \ {r} # {}} ELSE idleWaiters
           /\ toClient' \in [Connections -> Seq(ClientMessage)]
<1> DEFINE op == [ops[r] EXCEPT !.state = "completed", !.seq = ops[r].seq + 1, !.outcome = outcome]
<1>1. ops \in [Requests -> Operation] /\ ops[r] \in Operation
  BY DEF HostTypeOK
<1>4. ops[r].seq + 1 \in Nat
  BY <1>1 DEF Operation
<1>2. op \in Operation /\ op.state = "completed"
  BY <1>1, <1>4 DEF Operation
<1>3. ops' = [ops EXCEPT ![r] = op]
  BY <1>1 DEF Complete
<1>5. [type |-> "terminal", id |-> r, seq |-> ops[r].seq + 1, outcome |-> outcome] \in ClientMessage
  BY <1>4 DEF ClientMessage
<1>6. toClient' \in [Connections -> Seq(ClientMessage)]
  BY <1>5, SentTyped DEF Complete
<1> HIDE DEF op
<1>7. retained' \in Seq(Requests) /\ Len(retained') <= MaxCompleted
  <2>1. retained \in Seq(Requests) /\ Len(retained) <= MaxCompleted /\ MaxCompleted \in Nat /\ Len(retained) \in Nat
    BY LenProperties DEF HostTypeOK, HostAssumption
  <2>2. Append(retained, r) \in Seq(Requests) /\ Len(Append(retained, r)) = Len(retained) + 1
        /\ Append(retained, r) # <<>>
    BY <2>1, Appended
  <2>3. Tail(Append(retained, r)) \in Seq(Requests) /\ Len(Tail(Append(retained, r))) = Len(retained)
    BY <2>1, <2>2, Handled
  <2> QED
    BY <2>1, <2>2, <2>3 DEF Complete, Retain
<1> QED
  BY ZenonT(60), <1>1, <1>2, <1>3, <1>6, <1>7 DEF Complete

-----------------------------------------------------------------------------
(* Well-typed states: the Host. *)
LEMMA OpenTyped ==
    ASSUME HostTypeOK, NEW c \in Connections, OpenConnection(c) PROVE HostTypeOK'
BY DEF OpenConnection, HostTypeOK, channelVars

LEMMA ReceiveTyped ==
    ASSUME HostTypeOK, NEW c \in Connections, Receive(c) PROVE HostTypeOK'
<1>1. toHost[c] \in Seq(RequestMessage) /\ toHost[c] # <<>> /\ queue[c] \in Seq(RequestMessage)
  BY DEF HostTypeOK, Receive
<1>2. Head(toHost[c]) \in RequestMessage /\ Tail(toHost[c]) \in Seq(RequestMessage)
  BY <1>1, Handled
<1>3. Append(queue[c], Head(toHost[c])) \in Seq(RequestMessage)
  BY <1>1, <1>2, Appended
<1>4. queue' \in [Connections -> Seq(RequestMessage)] /\ toHost' \in [Connections -> Seq(RequestMessage)]
  BY <1>2, <1>3 DEF HostTypeOK, Receive
<1> QED
  BY <1>4 DEF HostTypeOK, Receive

LEMMA GoneTyped ==
    ASSUME HostTypeOK, NEW c \in Connections, NoticeClientGone(c) PROVE HostTypeOK'
BY DEF NoticeClientGone, HostTypeOK, channelVars

LEMMA HandleTyped ==
    ASSUME HostTypeOK, NEW c \in Connections, HandleStep(c) PROVE HostTypeOK'
<1> DEFINE m == Head(queue[c])
<1>1. queue' \in [Connections -> Seq(RequestMessage)] /\ requestWaiters' \subseteq Waiters
      /\ m.id \in Requests /\ m.of \in Requests
  BY FinishTyped DEF HandleStep, HandleClosed, HandleInitialize, HandleImmediate, HandleLong, RequestMessage
<1> HIDE DEF m
<1>2. CASE HandleClosed(c)
  BY <1>1, <1>2 DEF HandleClosed, HostTypeOK, channelVars
<1>3. CASE HandleInitialize(c)
  <2>1. PICK compatible \in BOOLEAN :
          /\ initialized' = [initialized EXCEPT ![c] = compatible]
          /\ toClient' = Sent(c, [type |-> IF compatible THEN "result" ELSE "rejected", id |-> m.id])
    BY <1>3 DEF HandleInitialize, m
  <2>2. [type |-> IF compatible THEN "result" ELSE "rejected", id |-> m.id] \in ClientMessage
    BY <1>1 DEF ClientMessage
  <2>3. toClient' \in [Connections -> Seq(ClientMessage)]
    BY <2>1, <2>2, SentTyped
  <2> QED
    BY <1>1, <1>3, <2>1, <2>3 DEF HandleInitialize, HostTypeOK
<1>4. CASE HandleImmediate(c)
  <2>1. [type |-> "result", id |-> m.id] \in ClientMessage
    BY <1>1 DEF ClientMessage
  <2>2. [type |-> "observed", id |-> m.id, events |-> Observation(m.of)] \in ClientMessage
    <3>1. Observation(m.of) \in Observations
      BY DEF Observation, Observations
    <3> QED
      BY <1>1, <3>1 DEF ClientMessage
  <2>3. toClient' \in [Connections -> Seq(ClientMessage)]
    BY <1>4, <2>1, <2>2, SentTyped DEF HandleImmediate, m
  <2>4. ops' \in [Requests -> Operation]
    <3>1. ops \in [Requests -> Operation]
      BY DEF HostTypeOK
    <3>2. [ops[m.of] EXCEPT !.cancel = TRUE] \in Operation
      BY ZenonT(60), <1>1, <3>1 DEF Operation
    <3>3. ops' = ops \/ ops' = [ops EXCEPT ![m.of] = [ops[m.of] EXCEPT !.cancel = TRUE]]
      BY <1>4 DEF HandleImmediate, m
    <3> QED
      BY <3>1, <3>2, <3>3
  <2>5. applied' \subseteq Requests
    BY <1>1, <1>4 DEF HandleImmediate, HostTypeOK, m
  <2> QED
    BY <1>1, <1>4, <2>3, <2>4, <2>5 DEF HandleImmediate, HostTypeOK
<1>5. CASE HandleLong(c)
  <2>1. CASE clientEnd[c] = "closed" /\ hostEnd' = [hostEnd EXCEPT ![c] = "closed"]
             /\ idleWaiters' = {w \in idleWaiters : Active(w) # {}} /\ UNCHANGED <<ops, toClient>>
    BY <1>1, <1>5, <2>1 DEF HandleLong, HostTypeOK
  <2>2. CASE /\ ops' = [ops EXCEPT ![m.id] = [NoOperation EXCEPT !.state = "scheduled", !.conn = c,
                            !.counted = Cardinality(Active(None)) < MaxActive]]
             /\ toClient' = Sent(c, [type |-> "accepted", id |-> m.id])
             /\ UNCHANGED <<hostEnd, idleWaiters>>
    <3> DEFINE few == Cardinality(Active(None)) < MaxActive
    <3>1. few \in BOOLEAN
      OBVIOUS
    <3> HIDE DEF few
    <3>2. [NoOperation EXCEPT !.state = "scheduled", !.conn = c, !.counted = few] \in Operation
      BY <3>1 DEF Operation, NoOperation, LiveStates
    <3>3. ops' \in [Requests -> Operation]
      BY <1>1, <2>2, <3>2 DEF HostTypeOK, few
    <3>4. [type |-> "accepted", id |-> m.id] \in ClientMessage
      BY <1>1 DEF ClientMessage
    <3>5. toClient' \in [Connections -> Seq(ClientMessage)]
      BY <2>2, <3>4, SentTyped
    <3> QED
      BY <1>1, <1>5, <2>2, <3>3, <3>5 DEF HandleLong, HostTypeOK
  <2> QED
    BY <1>5, <2>1, <2>2 DEF HandleLong, m
<1> QED
  BY <1>2, <1>3, <1>4, <1>5 DEF HandleStep

LEMMA WaitTyped ==
    ASSUME HostTypeOK, NEW w \in Waiters, BeginWait(w)
    PROVE  requestWaiters' \subseteq Waiters /\ idleWaiters' \subseteq Waiters
BY DEF BeginWait, HostTypeOK

LEMMA OperationTyped ==
    ASSUME HostTypeOK, HostAssumption, NEW r \in Requests, OperationStep(r) PROVE HostTypeOK'
<1>1. ops \in [Requests -> Operation] /\ ops[r] \in Operation
  BY DEF HostTypeOK
<1>2. ASSUME NEW st \in LiveStates, ops' = [ops EXCEPT ![r].state = st] PROVE ops' \in [Requests -> Operation]
  <2>1. [ops[r] EXCEPT !.state = st] \in Operation
    BY <1>1 DEF Operation
  <2> QED
    BY <1>1, <1>2, <2>1
<1>3. {"executing", "staging", "quiescing", "activating"} \subseteq LiveStates
  BY DEF LiveStates
<1>4. {"complete", "failed", "cancelled", "capacity"} = Outcomes
  BY DEF Outcomes
<1>5. ASSUME NEW outcome \in Outcomes, Complete(r, outcome)
      PROVE  /\ ops' \in [Requests -> Operation]
             /\ retained' \in Seq(Requests) /\ Len(retained') <= MaxCompleted
             /\ idleWaiters' \subseteq Waiters
             /\ toClient' \in [Connections -> Seq(ClientMessage)]
  BY <1>5, CompleteTyped DEF HostTypeOK
<1>6. CASE Begin(r)
  <2>1. CASE ops[r].counted
    <3>1. ops' \in [Requests -> Operation]
      BY <1>2, <1>3, <1>6, <2>1 DEF Begin
    <3> QED
      BY <1>6, <2>1, <3>1 DEF Begin, HostTypeOK
  <2>2. CASE ~ops[r].counted
    <3>1. Complete(r, "capacity")
      BY <1>6, <2>2 DEF Begin
    <3> QED
      BY <1>4, <1>5, <1>6, <3>1 DEF Begin, HostTypeOK
  <2> QED
    BY <2>1, <2>2
<1>7. CASE Progress(r)
  <2>1. ops[r].seq + 1 \in Nat
    BY <1>1 DEF Operation
  <2>2. [ops[r] EXCEPT !.seq = ops[r].seq + 1] \in Operation
    BY <1>1, <2>1 DEF Operation
  <2>3. ops' = [ops EXCEPT ![r] = [ops[r] EXCEPT !.seq = ops[r].seq + 1]]
    BY <1>1, <1>7 DEF Progress
  <2>4. [type |-> "progress", id |-> r, seq |-> ops[r].seq + 1] \in ClientMessage
    BY <2>1 DEF ClientMessage
  <2>5. toClient' \in [Connections -> Seq(ClientMessage)]
    BY <1>7, <2>4, SentTyped DEF Progress
  <2> QED
    BY <1>1, <1>7, <2>2, <2>3, <2>5 DEF Progress, HostTypeOK
<1>8. CASE End(r)
  <2>1. PICK outcome \in {"complete", "failed", "cancelled"} : Complete(r, outcome)
    BY <1>8 DEF End
  <2> QED
    BY <1>4, <1>5, <1>8, <2>1 DEF End, HostTypeOK
<1>9. CASE StageRestore(r)
  <2>1. ops' \in [Requests -> Operation]
    BY <1>2, <1>3, <1>9 DEF StageRestore
  <2> QED
    BY <1>9, <2>1 DEF StageRestore, HostTypeOK, channelVars
<1>10. CASE QuiesceRestore(r)
  <2>1. ops' \in [Requests -> Operation]
    BY <1>2, <1>3, <1>10 DEF QuiesceRestore
  <2>2. requestWaiters' \subseteq Waiters /\ idleWaiters' \subseteq Waiters
    BY <1>10, WaitTyped DEF QuiesceRestore, Waiters
  <2> QED
    BY <1>10, <2>1, <2>2 DEF QuiesceRestore, HostTypeOK, channelVars
<1>11. CASE ActivateRestore(r)
  <2>1. ops' \in [Requests -> Operation]
    BY <1>2, <1>3, <1>11 DEF ActivateRestore
  <2> QED
    BY <1>11, <2>1 DEF ActivateRestore, HostTypeOK, channelVars
<1>12. CASE EndRestore(r)
  <2>1. PICK outcome \in {"complete", "failed"} : Complete(r, outcome)
    BY <1>12 DEF EndRestore
  <2>2. replacement' \in BOOLEAN
    BY <1>12 DEF EndRestore
  <2> QED
    BY <1>4, <1>5, <1>12, <2>1, <2>2 DEF EndRestore, HostTypeOK
<1> QED
  BY <1>6, <1>7, <1>8, <1>9, <1>10, <1>11, <1>12 DEF OperationStep

LEMMA CallTyped ==
    ASSUME HostTypeOK, CallStep PROVE HostTypeOK'
<1>1. "drain" \in Waiters /\ "shutdown" \in Waiters
  BY DEF Waiters
<1>2. CASE Drain
  BY <1>1, <1>2, WaitTyped DEF Drain, HostTypeOK, channelVars
<1>3. CASE Drained
  BY <1>3 DEF Drained, HostTypeOK, channelVars
<1>4. CASE Shutdown
  BY <1>1, <1>4, WaitTyped DEF Shutdown, HostTypeOK, channelVars
<1>5. CASE CloseConnections
  <2>1. hostEnd' \in [Connections -> {"absent", "open", "closed"}]
    BY <1>5 DEF CloseConnections, HostTypeOK
  <2> QED
    BY <1>5, <2>1 DEF CloseConnections, HostTypeOK, channelVars
<1>6. CASE ReleaseCore
  BY <1>6 DEF ReleaseCore, HostTypeOK, channelVars
<1> QED
  BY <1>2, <1>3, <1>4, <1>5, <1>6 DEF CallStep

LEMMA HostTyped ==
    ASSUME HostTypeOK, HostNext PROVE HostTypeOK'
BY HostAssumption, OpenTyped, ReceiveTyped, GoneTyped, HandleTyped, OperationTyped, CallTyped DEF HostNext

-----------------------------------------------------------------------------
(* Well-typed states: the client. *)
LEMMA Settled ==
    ASSUME ClientTypeOK, NEW r \in Requests, NEW st \in Answers \cup Deliveries \cup {"unused", "pending"}
    PROVE  [call EXCEPT ![r].status = st] \in [Requests -> Call] /\ [call[r] EXCEPT !.status = st] \in Call
<1>1. call \in [Requests -> Call] /\ call[r] \in Call
  BY DEF ClientTypeOK
<1>2. [call[r] EXCEPT !.status = st] \in Call
  BY <1>1 DEF Call
<1> QED
  BY <1>1, <1>2

LEMMA HandleSet ==
    ASSUME ClientTypeOK, NEW r \in Requests, NEW st \in {"none", "running", "terminal", "uncertain"}
    PROVE  [handle EXCEPT ![r].state = st] \in [Requests -> Handle] /\ [handle[r] EXCEPT !.state = st] \in Handle
<1>1. handle \in [Requests -> Handle] /\ handle[r] \in Handle
  BY DEF ClientTypeOK
<1>2. [handle[r] EXCEPT !.state = st] \in Handle
  BY <1>1 DEF Handle
<1> QED
  BY <1>1, <1>2

LEMMA ClosedTyped ==
    ASSUME TypeOK, NEW c \in Connections,
           NEW reason \in {"local", "transport", "protocol", "initialization_failed", None},
           TransitionClosed(c, reason)
    PROVE  ClientTypeOK' /\ clientEnd' \in [Connections -> {"open", "closed"}]
<1>1. ASSUME NEW r \in Requests PROVE [call[r] EXCEPT !.status = Lost(r)] \in Call
  <2>1. Lost(r) \in Answers \cup Deliveries \cup {"unused", "pending"}
    BY DEF Lost, Deliveries
  <2> QED
    BY <2>1, Settled DEF TypeOK
<1>2. \A r \in Requests : [handle[r] EXCEPT !.state = "uncertain"] \in Handle
  BY HandleSet DEF TypeOK
<1>3. call' \in [Requests -> Call]
  BY <1>1 DEF TypeOK, ClientTypeOK, TransitionClosed
<1>4. handle' \in [Requests -> Handle]
  BY <1>2 DEF TypeOK, ClientTypeOK, TransitionClosed
<1> QED
  BY <1>3, <1>4 DEF TypeOK, HostTypeOK, ClientTypeOK, TransitionClosed

LEMMA IncomingTyped ==
    ASSUME TypeOK, NEW c \in Connections, Arrives(c), Consumed(c)
    PROVE  /\ Incoming(c).id \in Requests
           /\ IsResponse(Incoming(c)) =>
                Incoming(c).type \in {"result", "accepted", "rejected", "observed"}
           /\ Incoming(c).type = "observed" => Incoming(c).events \in Observations
           /\ ~IsResponse(Incoming(c)) => Incoming(c).seq \in Nat
           /\ ~IsResponse(Incoming(c)) /\ Incoming(c).type = "terminal" => Incoming(c).outcome \in Outcomes
           /\ toClient' \in [Connections -> Seq(ClientMessage)]
<1>1. toClient \in [Connections -> Seq(ClientMessage)] /\ toClient[c] \in Seq(ClientMessage) /\ toClient[c] # <<>>
  BY DEF TypeOK, HostTypeOK, Arrives
<1>2. Incoming(c) \in ClientMessage /\ Tail(toClient[c]) \in Seq(ClientMessage)
  BY <1>1, Handled DEF Incoming
<1>3. toClient' \in [Connections -> Seq(ClientMessage)]
  BY <1>1, <1>2 DEF Consumed
<1> DEFINE m == Incoming(c)
<1>4. \/ m \in [type : {"result", "rejected", "accepted"}, id : Requests]
      \/ m \in [type : {"observed"}, id : Requests, events : Observations]
      \/ m \in [type : {"progress"}, id : Requests, seq : Nat]
      \/ m \in [type : {"terminal"}, id : Requests, seq : Nat, outcome : Outcomes]
  BY <1>2 DEF ClientMessage
<1> QED
  BY <1>3, <1>4 DEF IsResponse

LEMMA DispatchTyped ==
    ASSUME TypeOK, NEW c \in Connections, NEW r \in Requests, NEW of \in Requests, Dispatch(c, r, of)
    PROVE  call' \in [Requests -> Call] /\ toHost' \in [Connections -> Seq(RequestMessage)]
<1>1. [id |-> r, of |-> of] \in RequestMessage
  BY DEF RequestMessage
<1>2. toHost \in [Connections -> Seq(RequestMessage)] /\ toHost[c] \in Seq(RequestMessage)
  BY DEF TypeOK, HostTypeOK
<1>3. Append(toHost[c], [id |-> r, of |-> of]) \in Seq(RequestMessage)
  BY <1>1, <1>2, Appended
<1>4. \A st \in {"pending", "not_sent"} : [status |-> st, conn |-> c, of |-> of] \in Call
  BY DEF Call, Deliveries
<1>5. call \in [Requests -> Call]
  BY DEF TypeOK, ClientTypeOK
<1> QED
  BY <1>2, <1>3, <1>4, <1>5 DEF Dispatch

LEMMA AskTyped ==
    ASSUME TypeOK, NEW c \in Connections, NEW r \in Requests, Initialize(c, r) \/ Request(c, r),
           UNCHANGED <<lifecycle, initialized, queue, ops, retained, applied, requestWaiters,
                       idleWaiters, drainCall, shutdownCall, restoreLock, replacement>>
    PROVE  TypeOK'
<1>1. PICK of \in Requests : Dispatch(c, r, of)
  BY DEF Initialize, Request
<1>2. call' \in [Requests -> Call] /\ toHost' \in [Connections -> Seq(RequestMessage)]
  BY <1>1, DispatchTyped
<1>3. clientState' \in [Connections -> {"created", "initializing", "ready", "closed"}]
  BY DEF Initialize, Request, TypeOK, ClientTypeOK
<1>4. UNCHANGED <<closeReason, handle, toClient, clientEnd, hostEnd>>
  BY DEF Initialize, Request
<1> QED
  BY <1>2, <1>3, <1>4 DEF TypeOK, HostTypeOK, ClientTypeOK

LEMMA ResponseTyped ==
    ASSUME TypeOK, NEW c \in Connections, ReceiveResponse(c),
           UNCHANGED <<lifecycle, initialized, queue, ops, retained, applied, requestWaiters,
                       idleWaiters, drainCall, shutdownCall, restoreLock, replacement>>
    PROVE  TypeOK'
<1> DEFINE m == Incoming(c)
<1>1. /\ m.id \in Requests
      /\ m.type \in {"result", "accepted", "rejected", "observed"}
      /\ m.type = "observed" => m.events \in Observations
      /\ toClient' \in [Connections -> Seq(ClientMessage)]
  BY IncomingTyped DEF ReceiveResponse
<1>2. CASE ResponseExpected(m, c)
  <2> DEFINE st == IF m.type = "observed" THEN m.events ELSE m.type
  <2>1. st \in Answers \cup Deliveries \cup {"unused", "pending"}
    BY <1>1 DEF Answers, Observations
  <2>2. call' = [call EXCEPT ![m.id].status = st]
    BY <1>2 DEF ReceiveResponse
  <2> HIDE DEF st
  <2>3. call' \in [Requests -> Call]
    BY <1>1, <2>1, <2>2, Settled DEF TypeOK
  <2>4. handle' \in [Requests -> Handle]
    <3>1. handle' = handle \/ handle' = [handle EXCEPT ![m.id].state = "running"]
      BY <1>2 DEF ReceiveResponse
    <3>2. [handle EXCEPT ![m.id].state = "running"] \in [Requests -> Handle]
      BY <1>1, HandleSet DEF TypeOK
    <3> QED
      BY <3>1, <3>2 DEF TypeOK, ClientTypeOK
  <2>5. clientState' \in [Connections -> {"created", "initializing", "ready", "closed"}]
    BY <1>2 DEF ReceiveResponse, TypeOK, ClientTypeOK
  <2>6. UNCHANGED <<closeReason, clientEnd, toHost, hostEnd>>
    BY <1>2 DEF ReceiveResponse
  <2> QED
    BY <1>1, <2>3, <2>4, <2>5, <2>6 DEF TypeOK, HostTypeOK, ClientTypeOK
<1>3. CASE ~ResponseExpected(m, c)
  <2>1. TransitionClosed(c, "protocol") /\ UNCHANGED <<toHost, hostEnd>>
    BY <1>3 DEF ReceiveResponse
  <2>2. ClientTypeOK' /\ clientEnd' \in [Connections -> {"open", "closed"}]
    BY <2>1, ClosedTyped
  <2> QED
    BY <1>1, <2>1, <2>2 DEF TypeOK, HostTypeOK
<1> QED
  BY <1>2, <1>3

LEMMA RefusalTyped ==
    ASSUME TypeOK, NEW c \in Connections, ReceiveRefusal(c),
           UNCHANGED <<lifecycle, initialized, queue, ops, retained, applied, requestWaiters,
                       idleWaiters, drainCall, shutdownCall, restoreLock, replacement>>
    PROVE  TypeOK'
<1> DEFINE m == Incoming(c)
<1>1. m.id \in Requests /\ toClient' \in [Connections -> Seq(ClientMessage)]
  BY IncomingTyped DEF ReceiveRefusal
<1>2. call' = [call EXCEPT ![m.id].status = "rejected"]
  BY DEF ReceiveRefusal
<1> HIDE DEF m
<1>3. call' \in [Requests -> Call]
  BY <1>1, <1>2, Settled DEF TypeOK, Answers
<1> QED
  BY <1>1, <1>3 DEF ReceiveRefusal, TypeOK, HostTypeOK, ClientTypeOK

LEMMA NotificationTyped ==
    ASSUME TypeOK, NEW c \in Connections, ReceiveNotification(c),
           UNCHANGED <<lifecycle, initialized, queue, ops, retained, applied, requestWaiters,
                       idleWaiters, drainCall, shutdownCall, restoreLock, replacement>>
    PROVE  TypeOK'
<1> DEFINE m == Incoming(c)
<1>1. /\ m.id \in Requests /\ m.seq \in Nat
      /\ m.type = "terminal" => m.outcome \in Outcomes
      /\ toClient' \in [Connections -> Seq(ClientMessage)]
  BY IncomingTyped DEF ReceiveNotification
<1>2. CASE NotificationExpected(m, c)
  <2> DEFINE h == IF m.type = "terminal" THEN [state |-> "terminal", seq |-> m.seq, outcome |-> m.outcome]
                                         ELSE [handle[m.id] EXCEPT !.seq = m.seq]
  <2>1. handle \in [Requests -> Handle] /\ handle[m.id] \in Handle
    BY <1>1 DEF TypeOK, ClientTypeOK
  <2>2. h \in Handle
    BY <1>1, <2>1 DEF Handle, Outcomes
  <2>3. handle' = [handle EXCEPT ![m.id] = h]
    BY <1>2 DEF ReceiveNotification
  <2> HIDE DEF h
  <2>4. handle' \in [Requests -> Handle]
    BY <2>1, <2>2, <2>3
  <2>5. UNCHANGED <<clientState, closeReason, call, clientEnd, toHost, hostEnd>>
    BY <1>2 DEF ReceiveNotification
  <2> QED
    BY <1>1, <2>4, <2>5 DEF TypeOK, HostTypeOK, ClientTypeOK
<1>3. CASE ~NotificationExpected(m, c)
  <2>1. TransitionClosed(c, "protocol") /\ UNCHANGED <<toHost, hostEnd>>
    BY <1>3 DEF ReceiveNotification
  <2>2. ClientTypeOK' /\ clientEnd' \in [Connections -> {"open", "closed"}]
    BY <2>1, ClosedTyped
  <2> QED
    BY <1>1, <2>1, <2>2 DEF TypeOK, HostTypeOK
<1> QED
  BY <1>2, <1>3

LEMMA ClientTyped ==
    ASSUME TypeOK, ClientSide PROVE TypeOK'
<1>1. PICK c \in Connections :
        \/ \E r \in Requests : Initialize(c, r) \/ Request(c, r)
        \/ ClientReceive(c) \/ Close(c) \/ NoticeHostGone(c)
  BY DEF ClientSide, ClientNext
<1>2. UNCHANGED <<lifecycle, initialized, queue, ops, retained, applied, requestWaiters,
                  idleWaiters, drainCall, shutdownCall, restoreLock, replacement>>
  BY DEF ClientSide
<1>3. CASE Close(c) \/ NoticeHostGone(c)
  <2>1. PICK reason \in {"local", "transport"} : TransitionClosed(c, reason)
    BY <1>3 DEF Close, NoticeHostGone
  <2>2. UNCHANGED <<toHost, toClient, hostEnd>>
    BY <1>3 DEF Close, NoticeHostGone
  <2>3. ClientTypeOK' /\ clientEnd' \in [Connections -> {"open", "closed"}]
    BY <2>1, ClosedTyped
  <2> QED
    BY <1>2, <2>2, <2>3 DEF TypeOK, HostTypeOK
<1> QED
  BY <1>1, <1>2, <1>3, AskTyped, ResponseTyped, RefusalTyped, NotificationTyped DEF ClientReceive

\* Whatever a client asks, whatever the Host answers and in whatever order, both
\* stay in the states their classes declare, and no completed operation is kept
\* beyond the bound.
THEOREM TypeCorrect == Spec => []TypeOK
<1>1. Init => TypeOK
  <2> SUFFICES ASSUME Init PROVE TypeOK
    OBVIOUS
  <2>1. HostTypeOK
    <3>1. NoOperation \in Operation
      BY DEF NoOperation, Operation, LiveStates
    <3>2. <<>> \in Seq(Requests) /\ Len(<<>>) <= MaxCompleted
      BY HostAssumption
    <3>3. <<>> \in Seq(RequestMessage) /\ <<>> \in Seq(ClientMessage)
      OBVIOUS
    <3> QED
      BY <3>1, <3>2, <3>3 DEF Init, HostInit, HostTypeOK
  <2>2. ClientTypeOK
    <3>1. [status |-> "unused", conn |-> None, of |-> None] \in Call
      BY DEF Call
    <3>2. NoHandle \in Handle
      BY DEF NoHandle, Handle
    <3> QED
      BY <3>1, <3>2 DEF Init, ClientInit, ClientTypeOK
  <2> QED
    BY <2>1, <2>2 DEF TypeOK
<1>2. TypeOK /\ [Next]_vars => TypeOK'
  <2> SUFFICES ASSUME TypeOK, [Next]_vars PROVE TypeOK'
    OBVIOUS
  <2>1. CASE HostSide
    BY <2>1, HostTyped DEF HostSide, TypeOK, ClientTypeOK, clientVars
  <2>2. CASE ClientSide
    BY <2>2, ClientTyped
  <2>3. CASE UNCHANGED vars
    BY <2>3 DEF vars, hostVars, channelVars, clientVars, TypeOK, HostTypeOK, ClientTypeOK
  <2> QED
    BY <2>1, <2>2, <2>3 DEF Next
<1> QED
  BY <1>1, <1>2, PTL DEF Spec

-----------------------------------------------------------------------------
(* The drain and the restore find the Host idle. *)
Settling == LockHolders /\ Counted /\ NoMoreWork /\ WaitsEnd

LEMMA WaitersApart == "drain" \in Waiters /\ "shutdown" \in Waiters /\ Requests \subseteq Waiters
                      /\ "drain" \notin Requests /\ "shutdown" \notin Requests /\ None \notin Requests
BY HostAssumption DEF Waiters

\* A wait that is going on was asked for, and the calls that ended wait no more.
LEMMA WaitFacts ==
    ASSUME HostTypeOK, WaitsEnd
    PROVE  /\ \A w : Waiting(w) => Asked(w)
           /\ drainCall # "waiting" => "drain" \notin idleWaiters
           /\ shutdownCall # "waiting" => "shutdown" \notin idleWaiters
           /\ \A r \in Requests : ops[r].state # "quiescing" => r \notin idleWaiters
<1>1. \A w : Waiting(w) => Asked(w)
  BY DEF Waiting, Asked
<1>2. drainCall # "waiting" => "drain" \notin idleWaiters
  BY WaitersApart DEF WaitsEnd, Waiting
<1>3. shutdownCall # "waiting" => "shutdown" \notin idleWaiters
  BY WaitersApart DEF WaitsEnd, Waiting
<1>4. \A r \in Requests : ops[r].state # "quiescing" => r \notin idleWaiters
  BY WaitersApart DEF WaitsEnd, Waiting
<1> QED
  BY <1>1, <1>2, <1>3, <1>4

\* While the Host is ready nobody waits.
LEMMA ReadyNobodyWaits ==
    ASSUME HostTypeOK, Settling, lifecycle = "ready"
    PROVE  /\ idleWaiters = {} /\ drainCall = "none" /\ shutdownCall = "none"
           /\ \A r \in Requests : ops[r].state \notin {"quiescing", "activating"}
<1>1. \A w \in Waiters : ~Asked(w)
  BY DEF Settling, NoMoreWork
<1>2. idleWaiters \subseteq Waiters
  BY DEF HostTypeOK
<1>3. idleWaiters = {}
  BY <1>1, <1>2, WaitFacts DEF Settling, WaitsEnd
<1>4. drainCall = "none" /\ shutdownCall = "none"
  BY <1>1, WaitersApart DEF Asked
<1>5. \A r \in Requests : ops[r].state \notin {"quiescing", "activating"}
  BY <1>1, WaitersApart DEF Asked
<1> QED
  BY <1>3, <1>4, <1>5

\* A step of a ready Host that asks nothing keeps it so.
LEMMA ReadyKept ==
    ASSUME HostTypeOK, Settling, lifecycle = "ready", lifecycle' = "ready",
           UNCHANGED <<drainCall, shutdownCall>>, idleWaiters' \subseteq idleWaiters,
           \A r \in Requests : ops'[r].state \notin {"quiescing", "activating"}
    PROVE  NoMoreWork' /\ WaitsEnd'
<1>1. idleWaiters' = {} /\ drainCall' = "none" /\ shutdownCall' = "none"
  BY ReadyNobodyWaits
<1>2. \A w : ~Asked(w)'
  BY <1>1 DEF Asked
<1> QED
  BY <1>1, <1>2 DEF NoMoreWork, WaitsEnd

\* A step that leaves the states of operations, calls and waits alone, and adds
\* no work when the Host takes none.
LEMMA StatesKept ==
    ASSUME HostTypeOK, Settling,
           UNCHANGED <<lifecycle, drainCall, shutdownCall, idleWaiters, restoreLock>>,
           \A r \in Requests : ops'[r].state = ops[r].state /\ ops'[r].counted = ops[r].counted,
           lifecycle # "ready" => UNCHANGED queue
    PROVE  Settling'
<1>1. LockHolders' /\ Counted'
  BY DEF Settling, LockHolders, Counted, Live
<1>2. \A w : (Asked(w)' <=> Asked(w)) /\ (Waiting(w)' <=> Waiting(w))
  BY DEF Asked, Waiting
<1>3. NoMoreWork'
  BY <1>2 DEF Settling, NoMoreWork, Quiet, Busy
<1>4. WaitsEnd'
  BY <1>2 DEF Settling, WaitsEnd, Live
<1> QED
  BY <1>1, <1>3, <1>4 DEF Settling

LEMMA ConnectionSettling ==
    ASSUME HostTypeOK, Settling, NEW c \in Connections,
           OpenConnection(c) \/ Receive(c) \/ NoticeClientGone(c)
    PROVE  Settling'
<1>1. UNCHANGED <<lifecycle, drainCall, shutdownCall, idleWaiters, restoreLock, ops>>
  BY DEF OpenConnection, Receive, NoticeClientGone
<1>2. lifecycle # "ready" => UNCHANGED queue
  BY DEF OpenConnection, Receive, NoticeClientGone
<1> QED
  BY <1>1, <1>2, StatesKept

\* Only a ready Host has requests to handle.
LEMMA HandleSettling ==
    ASSUME HostTypeOK, Settling, NEW c \in Connections, HandleStep(c)
    PROVE  Settling'
<1>1. queue[c] # <<>> /\ UNCHANGED <<lifecycle, drainCall, shutdownCall, restoreLock>>
  BY DEF HandleStep, HandleClosed, HandleInitialize, HandleImmediate, HandleLong
<1>2. lifecycle = "ready" /\ lifecycle' = "ready"
  BY <1>1 DEF Settling, NoMoreWork, Quiet, Busy
<1>3. idleWaiters' \subseteq idleWaiters
  BY DEF HandleStep, HandleClosed, HandleInitialize, HandleImmediate, HandleLong
<1>4. ops \in [Requests -> Operation]
  BY DEF HostTypeOK
<1>5. \A s \in Requests :
        \/ ops'[s].state = "scheduled"
        \/ ops'[s].state = ops[s].state /\ ops'[s].counted = ops[s].counted
  <2>1. CASE HandleClosed(c) \/ HandleInitialize(c)
    BY <2>1 DEF HandleClosed, HandleInitialize
  <2>2. CASE HandleImmediate(c)
    <3> DEFINE of == Head(queue[c]).of
    <3>1. ops' = ops \/ ops' = [ops EXCEPT ![of].cancel = TRUE]
      BY <2>2 DEF HandleImmediate
    <3>2. CASE ops' = ops
      BY <3>2
    <3>3. CASE ops' = [ops EXCEPT ![of].cancel = TRUE]
      <4> HIDE DEF of
      <4>1. ASSUME NEW s \in Requests
            PROVE  ops'[s].state = ops[s].state /\ ops'[s].counted = ops[s].counted
        <5>1. ops[s] \in Operation
          BY <1>4
        <5>2. ops'[s] = ops[s] \/ ops'[s] = [ops[s] EXCEPT !.cancel = TRUE]
          BY <1>4, <3>3
        <5>3. CASE ops'[s] = ops[s]
          BY <5>3
        <5>4. CASE ops'[s] = [ops[s] EXCEPT !.cancel = TRUE]
          BY <5>1, <5>4 DEF Operation
        <5> QED
          BY <5>2, <5>3, <5>4
      <4> QED
        BY <4>1
    <3> QED
      BY <3>1, <3>2, <3>3
  <2>3. CASE HandleLong(c)
    <3> DEFINE r == Head(queue[c]).id
               few == Cardinality(Active(None)) < MaxActive
    <3>1. \/ ops' = ops
          \/ ops' = [ops EXCEPT ![r] = [NoOperation EXCEPT !.state = "scheduled", !.conn = c, !.counted = few]]
      BY <2>3 DEF HandleLong
    <3> HIDE DEF r, few
    <3>2. [NoOperation EXCEPT !.state = "scheduled", !.conn = c, !.counted = few].state = "scheduled"
      BY DEF NoOperation
    <3> QED
      BY <1>4, <3>1, <3>2
  <2> QED
    BY <2>1, <2>2, <2>3 DEF HandleStep
<1>6. \A s \in Requests : ops'[s].state \notin {"quiescing", "activating"}
  BY <1>2, <1>5, ReadyNobodyWaits
<1>7. NoMoreWork' /\ WaitsEnd'
  BY <1>1, <1>2, <1>3, <1>6, ReadyKept
<1>8. LockHolders'
  BY <1>1, <1>5 DEF Settling, LockHolders
<1>9. Counted'
  BY <1>5 DEF Settling, Counted, Live
<1> QED
  BY <1>7, <1>8, <1>9 DEF Settling

\* An operation that ends: who waited for it alone waits no more, and nobody
\* else runs.
LEMMA CompleteSettling ==
    ASSUME HostTypeOK, Settling, NEW r \in Requests, NEW outcome \in Outcomes, Complete(r, outcome),
           Live(r), ops[r].state \notin {"scheduled", "quiescing"},
           UNCHANGED <<lifecycle, queue, drainCall, shutdownCall>>,
           restoreLock' = IF ops[r].state = "executing" THEN restoreLock ELSE None
    PROVE  Settling'
<1>1. /\ ops'[r].state = "completed"
      /\ \A s \in Requests \ {r} : ops'[s] = ops[s]
      /\ idleWaiters' = IF ops[r].counted THEN {w \in idleWaiters : Active(w) \ {r} # {}} ELSE idleWaiters
  BY HostAssumption, CompleteTyped
<1>2. ops[r].counted
  BY DEF Settling, Counted
<1>3. LockHolders'
  <2>1. ASSUME NEW s \in Requests, ops'[s].state \in {"staging", "quiescing", "activating"}
        PROVE  restoreLock' = s
    <3>1. s # r /\ ops'[s] = ops[s]
      BY <1>1, <2>1
    <3>2. restoreLock = s
      BY <2>1, <3>1 DEF Settling, LockHolders
    <3>3. ops[r].state = "executing"
      BY <3>1, <3>2 DEF Settling, LockHolders, Live, LiveStates
    <3> QED
      BY <3>2, <3>3
  <2> QED
    BY <2>1 DEF LockHolders
<1>4. Counted'
  BY <1>1 DEF Settling, Counted, Live, LiveStates
<1>5. \A w \in Waiters : Asked(w)' => Asked(w)
  BY <1>1, WaitersApart DEF Asked
<1>6. NoMoreWork'
  <2>1. lifecycle' # "ready" => Quiet'
    BY <1>1 DEF Settling, NoMoreWork, Quiet, Busy
  <2> QED
    BY <1>5, <2>1 DEF Settling, NoMoreWork
<1>7. ASSUME NEW w \in idleWaiters' PROVE Waiting(w)'
  <2>1. Waiting(w)
    BY <1>1, <1>7 DEF Settling, WaitsEnd
  <2>2. w = r => r \in Requests /\ ops[r].state # "quiescing" /\ w # "drain" /\ w # "shutdown"
    BY WaitersApart
  <2> QED
    BY <1>1, <2>1, <2>2 DEF Waiting
<1>8. ASSUME NEW w \in Waiters \ idleWaiters', Asked(w)', NEW s \in Requests \ {w} PROVE ~Live(s)'
  <2>1. Asked(w) /\ lifecycle # "ready"
    BY <1>5, <1>8 DEF Settling, NoMoreWork
  <2>2. CASE w \in idleWaiters
    <3>1. Active(w) \ {r} = {}
      BY <1>1, <1>2, <1>8, <2>2
    <3>2. s = r \/ ~(Live(s) /\ ops[s].counted)
      BY <3>1 DEF Active
    <3>3. ops[s].state # "scheduled"
      BY <2>1 DEF Settling, NoMoreWork, Quiet
    <3> QED
      BY <1>1, <3>2, <3>3 DEF Settling, Counted, Live, LiveStates
  <2>3. CASE w \notin idleWaiters
    <3>1. ~Live(s)
      BY <2>1, <2>3 DEF Settling, WaitsEnd
    <3> QED
      BY <1>1, <3>1 DEF Live, LiveStates
  <2> QED
    BY <2>2, <2>3
<1>9. WaitsEnd'
  BY <1>7, <1>8 DEF WaitsEnd
<1> QED
  BY <1>3, <1>4, <1>6, <1>9 DEF Settling

\* What an operation's next state is where it is just set.
LEMMA StateSet ==
    ASSUME HostTypeOK, NEW r \in Requests, NEW st \in LiveStates, ops' = [ops EXCEPT ![r].state = st]
    PROVE  /\ ops'[r].state = st /\ ops'[r].counted = ops[r].counted
           /\ \A s \in Requests \ {r} : ops'[s] = ops[s]
<1>1. ops \in [Requests -> Operation] /\ ops[r] \in Operation
  BY DEF HostTypeOK
<1>2. ops'[r] = [ops[r] EXCEPT !.state = st]
  BY <1>1
<1> QED
  BY <1>1, <1>2 DEF Operation

LEMMA BeginSettling ==
    ASSUME HostTypeOK, Settling, NEW r \in Requests, Begin(r)
    PROVE  Settling'
<1>1. /\ ops[r].state = "scheduled"
      /\ UNCHANGED <<lifecycle, queue, drainCall, shutdownCall, restoreLock>>
  BY DEF Begin
<1>2. lifecycle = "ready" /\ lifecycle' = "ready"
  BY <1>1 DEF Settling, NoMoreWork, Quiet
<1>3. /\ \A s \in Requests \ {r} : ops'[s] = ops[s]
      /\ \/ ops'[r].state = "executing" /\ ops'[r].counted
         \/ ops'[r].state = "completed"
      /\ idleWaiters' = idleWaiters
  <2>1. CASE ops[r].counted
    <3>1. ops' = [ops EXCEPT ![r].state = "executing"] /\ UNCHANGED idleWaiters
      BY <2>1 DEF Begin
    <3> QED
      BY <2>1, <3>1, StateSet DEF LiveStates
  <2>2. CASE ~ops[r].counted
    <3>1. Complete(r, "capacity")
      BY <2>2 DEF Begin
    <3> QED
      BY <2>2, <3>1, HostAssumption, CompleteTyped DEF Outcomes
  <2> QED
    BY <2>1, <2>2
<1>4. \A s \in Requests : ops'[s].state \notin {"quiescing", "activating"}
  BY <1>2, <1>3, ReadyNobodyWaits
<1>5. NoMoreWork' /\ WaitsEnd'
  BY <1>1, <1>2, <1>3, <1>4, ReadyKept
<1>6. LockHolders' /\ Counted'
  BY <1>1, <1>3 DEF Settling, LockHolders, Counted, Live, LiveStates
<1> QED
  BY <1>5, <1>6 DEF Settling

LEMMA ProgressSettling ==
    ASSUME HostTypeOK, Settling, NEW r \in Requests, Progress(r)
    PROVE  Settling'
<1>1. ops \in [Requests -> Operation] /\ ops[r] \in Operation
  BY DEF HostTypeOK
<1>2. ops' = [ops EXCEPT ![r] = [ops[r] EXCEPT !.seq = ops[r].seq + 1]]
  BY <1>1 DEF Progress
<1>3. [ops[r] EXCEPT !.seq = ops[r].seq + 1].state = ops[r].state
      /\ [ops[r] EXCEPT !.seq = ops[r].seq + 1].counted = ops[r].counted
  BY <1>1 DEF Operation
<1>4. \A s \in Requests : ops'[s].state = ops[s].state /\ ops'[s].counted = ops[s].counted
  BY <1>1, <1>2, <1>3
<1>5. UNCHANGED <<lifecycle, queue, drainCall, shutdownCall, idleWaiters, restoreLock>>
  BY DEF Progress
<1> QED
  BY <1>4, <1>5, StatesKept

LEMMA EndSettling ==
    ASSUME HostTypeOK, Settling, NEW r \in Requests, End(r) \/ EndRestore(r)
    PROVE  Settling'
<1>1. PICK outcome \in {"complete", "failed", "cancelled"} : Complete(r, outcome)
  BY DEF End, EndRestore
<1>2. outcome \in Outcomes
  BY DEF Outcomes
<1>3. /\ UNCHANGED <<lifecycle, queue, drainCall, shutdownCall>>
      /\ ops[r].state \in {"executing", "staging", "activating"}
  BY DEF End, EndRestore
<1>4. restoreLock' = IF ops[r].state = "executing" THEN restoreLock ELSE None
  BY DEF End, EndRestore
<1>5. Live(r) /\ ops[r].state \notin {"scheduled", "quiescing"}
  BY <1>3 DEF Live, LiveStates
<1> QED
  BY <1>1, <1>2, <1>3, <1>4, <1>5, CompleteSettling

LEMMA StageSettling ==
    ASSUME HostTypeOK, Settling, NEW r \in Requests, StageRestore(r)
    PROVE  Settling'
<1>1. /\ ops[r].state = "executing" /\ restoreLock = None /\ restoreLock' = r
      /\ ops' = [ops EXCEPT ![r].state = "staging"]
      /\ UNCHANGED <<lifecycle, queue, drainCall, shutdownCall, idleWaiters>>
  BY DEF StageRestore
<1>2. /\ ops'[r].state = "staging" /\ ops'[r].counted = ops[r].counted
      /\ \A s \in Requests \ {r} : ops'[s] = ops[s]
  BY <1>1, StateSet DEF LiveStates
<1>3. LockHolders'
  <2>1. \A s \in Requests : ops[s].state \notin {"staging", "quiescing", "activating"}
    BY <1>1, WaitersApart DEF Settling, LockHolders
  <2> QED
    BY <1>1, <1>2, <2>1 DEF LockHolders
<1>4. \A s \in Requests : (Live(s)' <=> Live(s)) /\ (ops'[s].state = "scheduled" <=> ops[s].state = "scheduled")
  BY <1>1, <1>2 DEF Live, LiveStates
<1>5. Counted'
  BY <1>1, <1>2, <1>4 DEF Settling, Counted
<1>6. \A w : (Asked(w)' <=> Asked(w)) /\ (Waiting(w)' <=> Waiting(w))
  BY <1>1, <1>2 DEF Asked, Waiting
<1>7. NoMoreWork'
  BY <1>1, <1>4, <1>6 DEF Settling, NoMoreWork, Quiet, Busy
<1>8. WaitsEnd'
  BY <1>1, <1>4, <1>6 DEF Settling, WaitsEnd
<1> QED
  BY <1>3, <1>5, <1>7, <1>8 DEF Settling

\* Who begins to wait in a quiet Host waits for every other operation, or there
\* is none.
LEMMA WaitBegun ==
    ASSUME HostTypeOK, Settling, NEW w \in Waiters, Quiet, BeginWait(w)
    PROVE  /\ idleWaiters \subseteq idleWaiters' /\ idleWaiters' \subseteq idleWaiters \cup {w}
           /\ w \notin idleWaiters' => \A s \in Requests \ {w} : ~Live(s)
<1>1. w \notin idleWaiters' => Active(w) = {}
  BY DEF BeginWait
<1>2. \A s \in Requests : Live(s) => ops[s].counted
  BY DEF Settling, Counted, Quiet
<1> QED
  BY <1>1, <1>2 DEF BeginWait, Active

LEMMA QuiesceSettling ==
    ASSUME TaskPerMessage, HostTypeOK, Settling, NEW r \in Requests, QuiesceRestore(r)
    PROVE  Settling'
<1>1. /\ ops[r].state = "staging" /\ Quiet /\ lifecycle' = "draining" /\ BeginWait(r)
      /\ ops' = [ops EXCEPT ![r].state = "quiescing"]
      /\ UNCHANGED <<queue, drainCall, shutdownCall, restoreLock>>
  BY DEF QuiesceRestore, TaskMayBegin
<1>2. /\ ops'[r].state = "quiescing" /\ ops'[r].counted = ops[r].counted
      /\ \A s \in Requests \ {r} : ops'[s] = ops[s]
  BY <1>1, StateSet DEF LiveStates
<1>3. \A s \in Requests : (Live(s)' <=> Live(s)) /\ ops'[s].state # "scheduled"
  BY <1>1, <1>2 DEF Live, LiveStates, Quiet
<1>4. LockHolders' /\ Counted'
  BY <1>1, <1>2, <1>3 DEF Settling, LockHolders, Counted
<1>5. NoMoreWork'
  BY <1>1, <1>3 DEF NoMoreWork, Quiet, Busy
<1>6. /\ idleWaiters \subseteq idleWaiters' /\ idleWaiters' \subseteq idleWaiters \cup {r}
      /\ r \notin idleWaiters' => \A s \in Requests \ {r} : ~Live(s)
  BY <1>1, WaitersApart, WaitBegun
<1>7. \A w \in Waiters : Waiting(w) => Waiting(w)'
  BY <1>1, <1>2 DEF Waiting
<1>8. \A w \in Waiters \ {r} : Asked(w)' => Asked(w)
  BY <1>1, <1>2 DEF Asked
<1>9. Waiting(r)'
  BY <1>2, WaitersApart DEF Waiting
<1>10. idleWaiters \subseteq Waiters
  BY DEF HostTypeOK
<1>11. WaitsEnd'
  BY <1>3, <1>6, <1>7, <1>8, <1>9, <1>10 DEF Settling, WaitsEnd
<1> QED
  BY <1>4, <1>5, <1>11 DEF Settling

LEMMA ActivateSettling ==
    ASSUME HostTypeOK, Settling, NEW r \in Requests, ActivateRestore(r)
    PROVE  Settling'
<1>1. /\ ops[r].state = "quiescing" /\ r \notin idleWaiters
      /\ ops' = [ops EXCEPT ![r].state = "activating"]
      /\ UNCHANGED <<lifecycle, queue, drainCall, shutdownCall, restoreLock, idleWaiters>>
  BY DEF ActivateRestore, WaitOver
<1>2. /\ ops'[r].state = "activating" /\ ops'[r].counted = ops[r].counted
      /\ \A s \in Requests \ {r} : ops'[s] = ops[s]
  BY <1>1, StateSet DEF LiveStates
<1>3. \A s \in Requests : (Live(s)' <=> Live(s)) /\ (ops'[s].state = "scheduled" <=> ops[s].state = "scheduled")
  BY <1>1, <1>2 DEF Live, LiveStates
<1>4. LockHolders' /\ Counted'
  BY <1>1, <1>2, <1>3 DEF Settling, LockHolders, Counted
<1>5. \A w : Asked(w)' <=> Asked(w)
  BY <1>1, <1>2 DEF Asked
<1>6. \A w \in idleWaiters : Waiting(w)'
  BY <1>1, <1>2 DEF Settling, WaitsEnd, Waiting
<1>7. NoMoreWork'
  BY <1>1, <1>3, <1>5 DEF Settling, NoMoreWork, Quiet, Busy
<1>8. WaitsEnd'
  BY <1>1, <1>3, <1>5, <1>6 DEF Settling, WaitsEnd
<1> QED
  BY <1>4, <1>7, <1>8 DEF Settling

\* The owner's calls.
LEMMA CallSettling ==
    ASSUME TaskPerMessage, HostTypeOK, Settling, CallStep
    PROVE  Settling'
<1>1. UNCHANGED <<queue, ops, restoreLock>>
  BY DEF CallStep, Drain, Drained, Shutdown, CloseConnections, ReleaseCore, channelVars
<1>2. LockHolders' /\ Counted'
  BY <1>1 DEF Settling, LockHolders, Counted, Live
<1>3. \A s \in Requests : Live(s)' <=> Live(s)
  BY <1>1 DEF Live
<1>4. idleWaiters \subseteq Waiters
  BY DEF HostTypeOK
<1>5. Quiet' <=> Quiet
  BY <1>1 DEF Quiet, Busy
<1>6. ASSUME NEW w0 \in {"drain", "shutdown"}, Quiet, BeginWait(w0), lifecycle' = "draining", Waiting(w0)',
             \A w \in Waiters \ {w0} : (Asked(w)' => Asked(w)) /\ (Waiting(w) => Waiting(w)')
      PROVE  Settling'
  <2>1. NoMoreWork'
    BY <1>5, <1>6 DEF NoMoreWork
  <2>2. /\ idleWaiters \subseteq idleWaiters' /\ idleWaiters' \subseteq idleWaiters \cup {w0}
        /\ w0 \notin idleWaiters' => \A s \in Requests \ {w0} : ~Live(s)
    BY <1>6, WaitersApart, WaitBegun
  <2>3. WaitsEnd'
    BY <1>3, <1>4, <1>6, <2>2 DEF Settling, WaitsEnd
  <2> QED
    BY <1>2, <2>1, <2>3 DEF Settling
<1>7. CASE Drain
  <2>1. CASE lifecycle = "stopped"
    <3>1. /\ drainCall = "none" /\ drainCall' = "done"
          /\ UNCHANGED <<lifecycle, idleWaiters, shutdownCall>>
      BY <1>7, <2>1 DEF Drain
    <3>2. /\ shutdownCall \in {"done", "failed"}
          /\ "shutdown" \notin idleWaiters /\ "drain" \notin idleWaiters
      BY <2>1, <3>1, WaitFacts DEF Settling, NoMoreWork
    <3>3. \A s \in Requests : ~Live(s)
      BY <3>2, WaitersApart DEF Settling, WaitsEnd, Asked
    <3>4. \A w \in idleWaiters : Waiting(w)'
      BY <1>1, <3>1, <3>2 DEF Settling, WaitsEnd, Waiting
    <3>5. WaitsEnd'
      BY <1>3, <3>1, <3>3, <3>4 DEF WaitsEnd
    <3>6. NoMoreWork'
      BY <1>5, <2>1, <3>1 DEF Settling, NoMoreWork
    <3> QED
      BY <1>2, <3>5, <3>6 DEF Settling
  <2>2. CASE lifecycle # "stopped"
    <3>1. /\ Quiet /\ BeginWait("drain") /\ lifecycle' = "draining" /\ drainCall' = "waiting"
          /\ UNCHANGED shutdownCall
      BY <1>7, <2>2 DEF Drain, TaskMayBegin
    <3>2. Waiting("drain")'
      BY <3>1 DEF Waiting
    <3>3. \A w \in Waiters \ {"drain"} : (Asked(w)' => Asked(w)) /\ (Waiting(w) => Waiting(w)')
      BY <1>1, <3>1 DEF Asked, Waiting
    <3> QED
      BY <1>6, <3>1, <3>2, <3>3
  <2> QED
    BY <2>1, <2>2
<1>8. CASE Shutdown
  <2>1. /\ Quiet /\ BeginWait("shutdown") /\ lifecycle' = "draining" /\ shutdownCall' = "waiting"
        /\ UNCHANGED drainCall
    BY <1>8 DEF Shutdown, TaskMayBegin
  <2>2. Waiting("shutdown")'
    BY <2>1 DEF Waiting
  <2>3. \A w \in Waiters \ {"shutdown"} : (Asked(w)' => Asked(w)) /\ (Waiting(w) => Waiting(w)')
    BY <1>1, <2>1 DEF Asked, Waiting
  <2> QED
    BY <1>6, <2>1, <2>2, <2>3
<1>9. CASE Drained \/ CloseConnections \/ ReleaseCore
  <2>1. UNCHANGED idleWaiters
    BY <1>9 DEF Drained, CloseConnections, ReleaseCore
  <2>2. \A w : Asked(w)' => Asked(w)
    BY <1>1, <1>9 DEF Drained, CloseConnections, ReleaseCore, Asked
  <2>3. \A w \in idleWaiters : Waiting(w)'
    <3>1. CASE Drained
      BY <1>1, <3>1 DEF Drained, WaitOver, Settling, WaitsEnd, Waiting
    <3>2. CASE CloseConnections
      BY <1>1, <3>2 DEF CloseConnections, WaitOver, Settling, WaitsEnd, Waiting
    <3>3. CASE ReleaseCore
      BY <1>1, <3>3 DEF ReleaseCore, Settling, WaitsEnd, Waiting
    <3> QED
      BY <1>9, <3>1, <3>2, <3>3
  <2>4. WaitsEnd'
    BY <1>3, <2>1, <2>2, <2>3 DEF Settling, WaitsEnd
  <2>5. NoMoreWork'
    <3>1. CASE Drained \/ CloseConnections
      <4>1. /\ UNCHANGED lifecycle
            /\ shutdownCall \in {"done", "failed"} => shutdownCall' = shutdownCall
        BY <3>1 DEF Drained, CloseConnections
      <4> QED
        BY <1>5, <2>2, <4>1 DEF Settling, NoMoreWork
    <3>2. CASE ReleaseCore
      <4>1. shutdownCall = "releasing" /\ UNCHANGED drainCall
        BY <3>2 DEF ReleaseCore
      <4>2. lifecycle # "ready" /\ Quiet
        BY <4>1, WaitersApart DEF Settling, NoMoreWork, Asked
      <4>3. lifecycle' \in {"stopped", lifecycle} /\ shutdownCall' \in {"done", "failed"}
        BY <3>2 DEF ReleaseCore
      <4> QED
        BY <1>5, <4>1, <4>2, <4>3 DEF NoMoreWork
    <3> QED
      BY <1>9, <3>1, <3>2
  <2> QED
    BY <1>2, <2>4, <2>5 DEF Settling
<1> QED
  BY <1>7, <1>8, <1>9 DEF CallStep

\* Every step keeps it: only operations change while anyone waits, and they
\* only end.
LEMMA StepSettling ==
    ASSUME TaskPerMessage, HostTypeOK, Settling, [Next]_vars
    PROVE  Settling'
<1>1. CASE HostSide
  <2>1. CASE \E c \in Connections : OpenConnection(c) \/ Receive(c) \/ NoticeClientGone(c)
    BY <2>1, ConnectionSettling
  <2>2. CASE \E c \in Connections : HandleStep(c)
    BY <2>2, HandleSettling
  <2>3. CASE \E r \in Requests : OperationStep(r)
    BY <2>3, BeginSettling, ProgressSettling, EndSettling, StageSettling, QuiesceSettling, ActivateSettling
       DEF OperationStep
  <2>4. CASE CallStep
    BY <2>4, CallSettling
  <2> QED
    BY <1>1, <2>1, <2>2, <2>3, <2>4 DEF HostSide, HostNext
<1>2. CASE ClientSide \/ UNCHANGED vars
  <2>1. UNCHANGED <<lifecycle, queue, ops, idleWaiters, drainCall, shutdownCall, restoreLock>>
    BY <1>2 DEF ClientSide, vars, hostVars
  <2> QED
    BY <2>1, StatesKept
<1> QED
  BY <1>1, <1>2 DEF Next

\* Where a message waits for the microtasks of the one before it, a Host that
\* stopped taking work has none left that it does not know of, and whoever waits
\* for its operations waits for the last one.
THEOREM WorkIsSettled == ASSUME TaskPerMessage PROVE Spec => []QuiesceInv
<1>1. Init => Settling
  <2> SUFFICES ASSUME Init PROVE Settling
    OBVIOUS
  <2>1. /\ lifecycle = "ready" /\ idleWaiters = {} /\ drainCall = "none" /\ shutdownCall = "none"
        /\ \A r \in Requests : ops[r].state = "none"
    BY DEF Init, HostInit, NoOperation
  <2>2. \A w : ~Asked(w)
    BY <2>1 DEF Asked
  <2> QED
    BY <2>1, <2>2 DEF Settling, LockHolders, Counted, Live, LiveStates, NoMoreWork, WaitsEnd
<1>2. TypeOK /\ Settling /\ [Next]_vars => Settling'
  BY StepSettling DEF TypeOK
<1>3. TypeOK /\ Settling => QuiesceInv
  BY DEF TypeOK, Settling, QuiesceInv
<1> QED
  BY <1>1, <1>2, <1>3, TypeCorrect, PTL DEF Spec

\* What a wait that is over has seen.
LEMMA NobodyElse ==
    ASSUME QuiesceInv, NEW w \in Waiters, Asked(w), ~Waiting(w)
    PROVE  ~Busy /\ \A s \in Requests \ {w} : ~Live(s)
BY DEF QuiesceInv, NoMoreWork, WaitsEnd, Quiet

\* The drain is over, and the release of Core begins, only when no request is
\* queued and no operation runs.
THEOREM DrainFindsIdle == ASSUME TaskPerMessage PROVE Spec => []DrainedIdle
<1>1. QuiesceInv => DrainedIdle
  <2> SUFFICES ASSUME QuiesceInv, drainCall = "done" \/ shutdownCall \in {"releasing", "done", "failed"}
               PROVE  Idle
    BY DEF DrainedIdle
  <2>1. PICK w \in {"drain", "shutdown"} : Asked(w) /\ ~Waiting(w)
    BY WaitersApart DEF Asked, Waiting
  <2> QED
    BY <2>1, NobodyElse, WaitersApart DEF Idle
<1> QED
  BY <1>1, WorkIsSettled, PTL

\* While a restore replaces the state directory it is alone in the Host.
THEOREM RestoresAlone == ASSUME TaskPerMessage PROVE Spec => []RestoreAlone
<1>1. QuiesceInv => RestoreAlone
  <2> SUFFICES ASSUME QuiesceInv, NEW r \in Requests, ops[r].state = "activating"
               PROVE  restoreLock = r /\ ~Busy /\ \A s \in Requests \ {r} : ~Live(s)
    BY DEF RestoreAlone
  <2>1. restoreLock = r
    BY DEF QuiesceInv, LockHolders
  <2>2. r \in Waiters /\ Asked(r) /\ ~Waiting(r)
    BY WaitersApart DEF Asked, Waiting
  <2> QED
    BY <2>1, <2>2, NobodyElse
<1> QED
  BY <1>1, WorkIsSettled, PTL

-----------------------------------------------------------------------------
(* The life of a request.  A request is at one place at a time: on its way   *)
(* to the Host, in the queue of its connection, or answered and on its way   *)
(* back; the events of an operation follow its acknowledgement, in order.    *)
Apart(s) == \A i, j \in DOMAIN s : s[i].id = s[j].id => i = j
Away(s, r) == \A i \in DOMAIN s : s[i].id # r

\* Whoever closes leaves the channel too.
EndsAgree == \A c \in Connections : clientState[c] = "closed" <=> clientEnd[c] = "closed"

\* What a client may believe of a request, and what it asked before.
Believed(r) ==
    /\ call[r].conn \in Connections
    /\ Method[r] # "initialize" => clientState[call[r].conn] \in {"ready", "closed"}
    /\ Method[r] = "observe" => handle[call[r].of].state # "none"
    /\ call[r].of \in Requests
    /\ call[r].status = "interrupted" => Method[r] \notin Mutating
    /\ call[r].status = "rejected" => Method[r] = "initialize"
    /\ call[r].status = "result" /\ Method[r] = "write" => r \in applied
    /\ call[r].status \in {"unavailable", "terminal"} => ops[call[r].of].state = "completed"
Beliefs == \A r \in Requests : call[r].status # "unused" => Believed(r)

\* What the Host did, it was asked to.
WasSent(r) == call[r].status \notin {"unused", "not_sent"}
Done == \A r \in Requests :
    /\ r \in applied => Method[r] = "write" /\ WasSent(r)
    /\ ops[r].state # "none" => Method[r] \in LongMethods /\ WasSent(r) /\ ops[r].conn = call[r].conn
Kept == \A i \in DOMAIN retained : ops[retained[i]].state = "completed"

\* A handle lags behind its operation.
HandleOf(r) ==
    /\ handle[r].state # "none" => ops[r].state # "none"
    /\ handle[r].state = "none" => handle[r].seq = 0
    /\ handle[r].seq <= ops[r].seq
    /\ handle[r].state = "terminal" => ops[r].state = "completed" /\ ops[r].outcome = handle[r].outcome
Handles == \A r \in Requests : HandleOf(r)

\* A request that was not handled yet.
Coming(c, m) ==
    /\ call[m.id].conn = c /\ call[m.id].of = m.of /\ WasSent(m.id)
    /\ clientState[c] # "closed" => call[m.id].status = "pending"
    /\ ops[m.id].state = "none"
ComingApart(c) ==
    /\ Apart(toHost[c]) /\ Apart(queue[c])
    /\ \A i \in DOMAIN toHost[c] : Away(queue[c], toHost[c][i].id)
Requested == \A c \in Connections :
    /\ \A i \in DOMAIN toHost[c] : Coming(c, toHost[c][i])
    /\ \A i \in DOMAIN queue[c] : Coming(c, queue[c][i])
    /\ ComingApart(c)

\* An answer on its way: to a request that waits for it, and true.
Answer(c, m) ==
    /\ call[m.id].conn = c /\ call[m.id].status = "pending"
    /\ Away(toHost[c], m.id) /\ Away(queue[c], m.id)
    /\ m.type = "accepted" => handle[m.id].state = "none" /\ ops[m.id].state # "none"
    /\ m.type = "rejected" => Method[m.id] = "initialize"
    /\ m.type = "result" /\ Method[m.id] = "write" => m.id \in applied
    /\ m.type = "observed" /\ m.events # "running" => ops[call[m.id].of].state = "completed"
\* The handle of r is there, or its acknowledgement is among the first n messages.
Known(c, n, r) == \/ handle[r].state = "running"
                  \/ \E i \in DOMAIN toClient[c] :
                        i <= n /\ toClient[c][i].type = "accepted" /\ toClient[c][i].id = r
Event(c, m, n) ==
    /\ ops[m.id].state # "none" /\ ops[m.id].conn = c
    /\ handle[m.id].seq < m.seq /\ m.seq <= ops[m.id].seq
    /\ m.type = "terminal" => ops[m.id].state = "completed" /\ ops[m.id].outcome = m.outcome
    /\ Known(c, n, m.id)
Sound(c, m, n) == IF IsResponse(m) THEN Answer(c, m) ELSE Event(c, m, n)
\* Two messages about one request, the first before the second.
InOrder(m, n) ==
    /\ ~(IsResponse(m) /\ IsResponse(n))
    /\ ~IsResponse(m) /\ ~IsResponse(n) => m.type = "progress" /\ m.seq < n.seq
Stream(c) ==
    /\ \A i \in DOMAIN toClient[c] : Sound(c, toClient[c][i], i)
    /\ \A i, j \in DOMAIN toClient[c] :
          i < j /\ toClient[c][i].id = toClient[c][j].id => InOrder(toClient[c][i], toClient[c][j])
    /\ \A r \in Requests : Live(r) /\ ops[r].conn = c => Known(c, Len(toClient[c]), r)
Streams == \A c \in Connections : clientState[c] # "closed" => Stream(c)

RequestInv == EndsAgree /\ Beliefs /\ Done /\ Kept /\ Handles /\ Requested /\ Streams

-----------------------------------------------------------------------------
(* Sequences of messages. *)
LEMMA Rest ==
    ASSUME NEW S, NEW s \in Seq(S), s # <<>>
    PROVE  /\ Head(s) = s[1] /\ 1 \in DOMAIN s /\ Head(s) \in S /\ Tail(s) \in Seq(S)
           /\ Len(s) \in Nat /\ Len(Tail(s)) = Len(s) - 1
           /\ \A i \in DOMAIN Tail(s) : i \in Nat /\ i + 1 \in DOMAIN s /\ i + 1 # 1 /\ Tail(s)[i] = s[i + 1]
<1>1. Len(s) \in Nat /\ Len(s) > 0 /\ DOMAIN s = 1 .. Len(s)
  BY EmptySeq, LenProperties
<1>2. Tail(s) \in Seq(S) /\ Head(s) \in S /\ Len(Tail(s)) = Len(s) - 1
      /\ \A i \in 1 .. Len(Tail(s)) : Tail(s)[i] = s[i + 1]
  BY HeadTailProperties
<1>3. DOMAIN Tail(s) = 1 .. Len(s) - 1
  BY <1>2, LenProperties
<1> QED
  BY <1>1, <1>2, <1>3

LEMMA Longer ==
    ASSUME NEW S, NEW s \in Seq(S), NEW e \in S
    PROVE  /\ Append(s, e) \in Seq(S) /\ Len(s) \in Nat /\ Len(Append(s, e)) = Len(s) + 1
           /\ Len(s) + 1 \in DOMAIN Append(s, e) /\ Append(s, e)[Len(s) + 1] = e
           /\ \A i \in DOMAIN s : i \in Nat /\ i <= Len(s) /\ i \in DOMAIN Append(s, e) /\ Append(s, e)[i] = s[i]
           /\ \A i \in DOMAIN Append(s, e) : i \in DOMAIN s \/ i = Len(s) + 1
<1>1. Len(s) \in Nat /\ DOMAIN s = 1 .. Len(s)
  BY LenProperties
<1>2. Append(s, e) \in Seq(S) /\ Len(Append(s, e)) = Len(s) + 1 /\ Append(s, e)[Len(s) + 1] = e
      /\ \A i \in 1 .. Len(s) : Append(s, e)[i] = s[i]
  BY AppendProperties
<1>3. DOMAIN Append(s, e) = 1 .. Len(s) + 1
  BY <1>2, LenProperties
<1> QED
  BY <1>1, <1>2, <1>3

LEMMA ApartRest ==
    ASSUME NEW S, NEW s \in Seq(S), s # <<>>
    PROVE  /\ Apart(s) => Apart(Tail(s)) /\ Away(Tail(s), Head(s).id)
           /\ \A r : Away(s, r) => Away(Tail(s), r) /\ r # Head(s).id
<1>1. /\ Head(s) = s[1] /\ 1 \in DOMAIN s
      /\ \A i \in DOMAIN Tail(s) : i \in Nat /\ i + 1 \in DOMAIN s /\ i + 1 # 1 /\ Tail(s)[i] = s[i + 1]
  BY Rest
<1>2. ASSUME Apart(s) PROVE Apart(Tail(s))
  <2> SUFFICES ASSUME NEW i \in DOMAIN Tail(s), NEW j \in DOMAIN Tail(s), Tail(s)[i].id = Tail(s)[j].id
               PROVE  i = j
    BY DEF Apart
  <2>1. i + 1 = j + 1 /\ i \in Nat /\ j \in Nat
    BY <1>1, <1>2 DEF Apart
  <2> QED
    BY <2>1
<1>3. ASSUME Apart(s) PROVE Away(Tail(s), Head(s).id)
  BY <1>1, <1>3 DEF Apart, Away
<1>4. \A r : Away(s, r) => Away(Tail(s), r) /\ r # Head(s).id
  BY <1>1 DEF Away
<1> QED
  BY <1>2, <1>3, <1>4

LEMMA ApartLonger ==
    ASSUME NEW S, NEW s \in Seq(S), NEW e \in S
    PROVE  /\ Apart(s) /\ Away(s, e.id) => Apart(Append(s, e))
           /\ \A r : Away(s, r) /\ r # e.id => Away(Append(s, e), r)
<1>1. /\ Append(s, e)[Len(s) + 1] = e
      /\ \A i \in DOMAIN s : i \in DOMAIN Append(s, e) /\ Append(s, e)[i] = s[i]
      /\ \A i \in DOMAIN Append(s, e) : i \in DOMAIN s \/ i = Len(s) + 1
  BY Longer
<1>2. ASSUME Apart(s), Away(s, e.id) PROVE Apart(Append(s, e))
  <2> SUFFICES ASSUME NEW i \in DOMAIN Append(s, e), NEW j \in DOMAIN Append(s, e),
                      Append(s, e)[i].id = Append(s, e)[j].id
               PROVE  i = j
    BY DEF Apart
  <2> QED
    BY <1>1, <1>2 DEF Apart, Away
<1>3. \A r : Away(s, r) /\ r # e.id => Away(Append(s, e), r)
  BY <1>1 DEF Away
<1> QED
  BY <1>2, <1>3

-----------------------------------------------------------------------------
(* Steps of the Host: what the client believes stays true, for operations    *)
(* only go forward and mutations stay applied.                               *)
Forward == \A r \in Requests :
    /\ ops[r].state # "none" => ops'[r].state # "none" /\ ops'[r].conn = ops[r].conn /\ ops[r].seq <= ops'[r].seq
    /\ ops[r].state = "completed" => ops'[r] = ops[r]
HostOnly == UNCHANGED <<clientState, closeReason, call, handle, clientEnd>> /\ applied \subseteq applied' /\ Forward

LEMMA BelievedForward ==
    ASSUME TypeOK, TypeOK', RequestInv, HostOnly
    PROVE  EndsAgree' /\ Beliefs' /\ Handles'
<1>1. EndsAgree'
  BY DEF HostOnly, RequestInv, EndsAgree
<1>2. Beliefs'
  <2> SUFFICES ASSUME NEW r \in Requests, call[r].status # "unused" PROVE Believed(r)'
    BY DEF HostOnly, Beliefs
  <2>1. Believed(r)
    BY DEF RequestInv, Beliefs
  <2> QED
    BY <2>1 DEF Believed, HostOnly, Forward
<1>3. Handles'
  <2> SUFFICES ASSUME NEW r \in Requests PROVE HandleOf(r)'
    BY DEF Handles
  <2>1. HandleOf(r)
    BY DEF RequestInv, Handles
  <2>2. ops[r] \in Operation /\ ops'[r] \in Operation /\ handle[r] \in Handle
    BY DEF TypeOK, HostTypeOK, ClientTypeOK
  <2>3. ops[r].seq \in Nat /\ ops'[r].seq \in Nat /\ handle[r].seq \in Nat
    BY <2>2 DEF Operation, Handle
  <2>4. CASE ops[r].state # "none"
    BY <2>1, <2>3, <2>4 DEF HandleOf, HostOnly, Forward
  <2>5. CASE ops[r].state = "none"
    BY <2>1, <2>3, <2>5 DEF HandleOf, HostOnly, Forward
  <2> QED
    BY <2>4, <2>5
<1> QED
  BY <1>1, <1>2, <1>3

\* A message on its way to the client stays what it was.
LEMMA AnswerForward ==
    ASSUME HostOnly, NEW c \in Connections, NEW m, Answer(c, m), m.id \in Requests,
           call[m.id].of \in Requests,
           Away(toHost'[c], m.id), Away(queue'[c], m.id)
    PROVE  Answer(c, m)'
BY DEF Answer, HostOnly, Forward

LEMMA KnownForward ==
    ASSUME UNCHANGED handle, NEW c \in Connections, NEW n, NEW r,
           \A i \in DOMAIN toClient[c] : i \in DOMAIN toClient'[c] /\ toClient'[c][i] = toClient[c][i],
           Known(c, n, r)
    PROVE  Known(c, n, r)'
BY DEF Known

LEMMA EventForward ==
    ASSUME TypeOK, TypeOK', HostOnly, NEW c \in Connections, NEW m, NEW n, Event(c, m, n),
           m.id \in Requests, m.seq \in Nat,
           \A i \in DOMAIN toClient[c] : i \in DOMAIN toClient'[c] /\ toClient'[c][i] = toClient[c][i]
    PROVE  Event(c, m, n)'
<1>1. Known(c, n, m.id)'
  BY KnownForward DEF Event, HostOnly
<1>2. ops[m.id].seq \in Nat /\ ops'[m.id].seq \in Nat
  BY DEF TypeOK, HostTypeOK, Operation
<1>3. m.seq <= ops'[m.id].seq
  BY <1>2 DEF Event, HostOnly, Forward
<1> QED
  BY <1>1, <1>3 DEF Event, HostOnly, Forward

LEMMA MessageTyped ==
    ASSUME NEW m \in ClientMessage
    PROVE  /\ m.id \in Requests
           /\ ~IsResponse(m) => m.seq \in Nat /\ m.type \in {"progress", "terminal"}
<1>1. \/ m \in [type : {"result", "rejected", "accepted"}, id : Requests]
      \/ m \in [type : {"observed"}, id : Requests, events : Observations]
      \/ m \in [type : {"progress"}, id : Requests, seq : Nat]
      \/ m \in [type : {"terminal"}, id : Requests, seq : Nat, outcome : Outcomes]
  BY DEF ClientMessage
<1> QED
  BY <1>1 DEF IsResponse

\* The channel of a client to which a step of the Host adds nothing, or one
\* message that is true and in order.
Adds(c, m) ==
    /\ toClient'[c] = Append(toClient[c], m)
    /\ Sound(c, m, Len(toClient[c]))'
    /\ \A i \in DOMAIN toClient[c] : toClient[c][i].id = m.id => InOrder(toClient[c][i], m)

LEMMA SoundForward ==
    ASSUME TypeOK, TypeOK', RequestInv, HostOnly, NEW c \in Connections,
           \A r \in Requests : Away(toHost[c], r) /\ Away(queue[c], r)
                                 => Away(toHost'[c], r) /\ Away(queue'[c], r),
           \A i \in DOMAIN toClient[c] : i \in DOMAIN toClient'[c] /\ toClient'[c][i] = toClient[c][i],
           NEW m \in ClientMessage, NEW n, Sound(c, m, n)
    PROVE  Sound(c, m, n)'
<1>1. m.id \in Requests /\ (~IsResponse(m) => m.seq \in Nat)
  BY MessageTyped
<1>2. CASE IsResponse(m)
  <2>1. Answer(c, m)
    BY <1>2 DEF Sound
  <2>2. call[m.id].of \in Requests
    BY <1>1, <2>1 DEF Answer, RequestInv, Beliefs, Believed
  <2>3. Answer(c, m)'
    BY <1>1, <2>1, <2>2, AnswerForward DEF Answer
  <2> QED
    BY <1>2, <2>3 DEF Sound, IsResponse
<1>3. CASE ~IsResponse(m)
  <2>1. Event(c, m, n)
    BY <1>3 DEF Sound
  <2>2. Event(c, m, n)'
    BY <1>1, <1>3, <2>1, EventForward
  <2> QED
    BY <1>3, <2>2 DEF Sound, IsResponse
<1> QED
  BY <1>2, <1>3

LEMMA StreamForward ==
    ASSUME TypeOK, TypeOK', RequestInv, HostOnly, NEW c \in Connections, clientState[c] # "closed",
           \A r \in Requests : Away(toHost[c], r) /\ Away(queue[c], r)
                                 => Away(toHost'[c], r) /\ Away(queue'[c], r),
           NEW m \in ClientMessage, toClient'[c] = toClient[c] \/ Adds(c, m),
           \A r \in Requests : Live(r)' /\ ops'[r].conn = c =>
              \/ Live(r) /\ ops[r].conn = c
              \/ m.type = "accepted" /\ m.id = r /\ Adds(c, m)
    PROVE  Stream(c)'
<1> DEFINE s == toClient[c]
<1>1. /\ \A i \in DOMAIN s : Sound(c, s[i], i)
      /\ \A i, j \in DOMAIN s : i < j /\ s[i].id = s[j].id => InOrder(s[i], s[j])
      /\ \A r \in Requests : Live(r) /\ ops[r].conn = c => Known(c, Len(s), r)
  BY DEF RequestInv, Streams, Stream
<1>2. s \in Seq(ClientMessage)
  BY DEF TypeOK, HostTypeOK
<1>3. Len(s) \in Nat /\ \A i \in DOMAIN s : i \in Nat /\ i <= Len(s)
  BY <1>2, Longer
<1>4. /\ \A i \in DOMAIN s : i \in DOMAIN toClient'[c] /\ toClient'[c][i] = s[i]
      /\ Len(toClient'[c]) \in Nat /\ Len(s) <= Len(toClient'[c])
      /\ \A i \in DOMAIN toClient'[c] : 
            \/ i \in DOMAIN s
            \/ i = Len(s) + 1 /\ i = Len(toClient'[c]) /\ toClient'[c][i] = m /\ Adds(c, m)
  <2>1. CASE toClient'[c] = toClient[c]
    BY <1>3, <2>1
  <2>2. CASE Adds(c, m)
    BY <1>2, <1>3, <2>2, Longer DEF Adds
  <2> QED
    BY <2>1, <2>2
<1>5. ASSUME NEW i \in DOMAIN toClient'[c] PROVE Sound(c, toClient[c][i], i)'
  <2>1. CASE i \in DOMAIN s
    <3>1. PICK e \in ClientMessage : e = s[i]
      BY <1>2, <2>1, ElementOfSeq
    <3>2. Sound(c, e, i)'
      BY <1>1, <1>4, <2>1, <3>1, SoundForward
    <3> QED
      BY <1>4, <2>1, <3>1, <3>2
  <2>2. CASE i \notin DOMAIN s
    BY <1>4, <1>5, <2>2 DEF Adds
  <2> QED
    BY <2>1, <2>2
<1>6. ASSUME NEW i \in DOMAIN toClient'[c], NEW j \in DOMAIN toClient'[c],
             i < j, toClient'[c][i].id = toClient'[c][j].id
      PROVE  InOrder(toClient'[c][i], toClient'[c][j])
  <2>1. CASE j \in DOMAIN s
    <3>1. i \in DOMAIN s
      BY <1>3, <1>4, <1>6, <2>1
    <3> QED
      BY <1>1, <1>4, <1>6, <2>1, <3>1
  <2>2. CASE j \notin DOMAIN s
    <3>1. i \in DOMAIN s /\ toClient'[c][j] = m /\ Adds(c, m)
      BY <1>3, <1>4, <1>6, <2>2
    <3> QED
      BY <1>4, <1>6, <3>1 DEF Adds
  <2> QED
    BY <2>1, <2>2
<1>7. ASSUME NEW r \in Requests, Live(r)', ops'[r].conn = c PROVE Known(c, Len(toClient[c]), r)'
  <2>1. CASE Live(r) /\ ops[r].conn = c
    <3>1. Known(c, Len(s), r)
      BY <1>1, <2>1
    <3>2. CASE handle[r].state = "running"
      BY <3>2 DEF Known, HostOnly
    <3>3. CASE \E i \in DOMAIN s : i <= Len(s) /\ s[i].type = "accepted" /\ s[i].id = r
      BY <1>3, <1>4, <3>3 DEF Known
    <3> QED
      BY <3>1, <3>2, <3>3 DEF Known
  <2>2. CASE m.type = "accepted" /\ m.id = r /\ Adds(c, m)
    <3>1. toClient'[c][Len(s) + 1] = m /\ Len(s) + 1 \in DOMAIN toClient'[c] /\ Len(s) + 1 <= Len(toClient'[c])
      BY <1>2, <2>2, Longer DEF Adds
    <3> QED
      BY <2>2, <3>1 DEF Known
  <2> QED
    BY <1>7, <2>1, <2>2
<1> HIDE DEF s
<1>8. /\ (\A i \in DOMAIN toClient[c] : Sound(c, toClient[c][i], i))'
      /\ (\A i, j \in DOMAIN toClient[c] :
            i < j /\ toClient[c][i].id = toClient[c][j].id => InOrder(toClient[c][i], toClient[c][j]))'
      /\ (\A r \in Requests : Live(r) /\ ops[r].conn = c => Known(c, Len(toClient[c]), r))'
  BY <1>5, <1>6, <1>7 DEF InOrder, IsResponse
<1> QED
  BY <1>8 DEF Stream

LEMMA KeptForward ==
    ASSUME TypeOK, RequestInv, HostOnly
    PROVE  /\ \A i \in DOMAIN retained : ops'[retained[i]].state = "completed"
           /\ UNCHANGED retained => Kept'
<1>1. \A i \in DOMAIN retained : retained[i] \in Requests
  BY ElementOfSeq DEF TypeOK, HostTypeOK
<1> QED
  BY <1>1 DEF RequestInv, Kept, HostOnly, Forward

\* A step that takes no request off its way.
LEMMA RequestsKept ==
    ASSUME TypeOK, TypeOK', RequestInv, HostOnly, UNCHANGED <<queue, toHost, applied>>, Kept',
           \A r \in Requests : /\ ops[r].state = "none" => ops'[r] = ops[r]
                               /\ Live(r)' => Live(r),
           NEW m \in ClientMessage, m.type # "accepted",
           \A c \in Connections : clientState[c] # "closed" => toClient'[c] = toClient[c] \/ Adds(c, m)
    PROVE  RequestInv'
<1>1. EndsAgree' /\ Beliefs' /\ Handles'
  BY BelievedForward
<1>2. Done'
  BY DEF RequestInv, Done, WasSent, HostOnly, Forward
<1>3. Requested'
  <2>1. \A c \in Connections : ComingApart(c)'
    BY DEF RequestInv, Requested, ComingApart
  <2>2. \A c \in Connections : toHost[c] \in Seq(RequestMessage) /\ queue[c] \in Seq(RequestMessage)
    BY DEF TypeOK, HostTypeOK
  <2>3. \A c \in Connections, n \in RequestMessage : Coming(c, n) => Coming(c, n)'
    BY DEF Coming, WasSent, HostOnly, RequestMessage
  <2> QED
    BY <2>1, <2>2, <2>3, ElementOfSeq DEF RequestInv, Requested
<1>4. Streams'
  <2> SUFFICES ASSUME NEW c \in Connections, clientState[c] # "closed" PROVE Stream(c)'
    BY DEF Streams, HostOnly
  <2>1. \A r \in Requests : Live(r)' /\ ops'[r].conn = c => Live(r) /\ ops[r].conn = c
    BY DEF HostOnly, Forward, Live, LiveStates
  <2>2. \A r \in Requests : Away(toHost[c], r) /\ Away(queue[c], r) => Away(toHost'[c], r) /\ Away(queue'[c], r)
    OBVIOUS
  <2> QED
    BY <2>1, <2>2, StreamForward
<1> QED
  BY <1>1, <1>2, <1>3, <1>4 DEF RequestInv

\* The event an operation sends: whoever may still hear it knows the operation,
\* and hears it last.
LEMMA EventSent ==
    ASSUME TypeOK, TypeOK', RequestInv, HostOnly, NEW r \in Requests, Live(r),
           NEW m \in ClientMessage, ~IsResponse(m), m.id = r, m.seq = ops[r].seq + 1, ops'[r].seq = m.seq,
           m.type = "terminal" => ops'[r].state = "completed" /\ ops'[r].outcome = m.outcome,
           toClient' = Sent(ops[r].conn, m),
           NEW c \in Connections, clientState[c] # "closed"
    PROVE  toClient'[c] = toClient[c] \/ Adds(c, m)
<1>1. ops[r].state # "none" /\ ops[r].state # "completed"
  BY DEF Live, LiveStates
<1>2. /\ toClient \in [Connections -> Seq(ClientMessage)] /\ toClient[c] \in Seq(ClientMessage)
      /\ ops[r].seq \in Nat /\ handle[r].seq \in Nat
  BY DEF TypeOK, HostTypeOK, ClientTypeOK, Operation, Handle
<1>3. CASE toClient' = [toClient EXCEPT ![c] = Append(@, m)] /\ ops[r].conn = c
  <2>1. toClient'[c] = Append(toClient[c], m)
    BY <1>2, <1>3
  <2>2. Event(c, m, Len(toClient[c]))'
    <3>1. ops'[r].state # "none" /\ ops'[r].conn = c
      BY <1>1, <1>3 DEF HostOnly, Forward
    <3>2. handle'[r].seq < m.seq /\ m.seq <= ops'[r].seq
      <4>1. handle[r].seq <= ops[r].seq /\ handle'[r] = handle[r]
        BY DEF RequestInv, Handles, HandleOf, HostOnly
      <4> QED
        BY <1>2, <4>1
    <3>3. Known(c, Len(toClient[c]), r)'
      <4>1. Known(c, Len(toClient[c]), r)
        BY <1>3 DEF RequestInv, Streams, Stream
      <4>2. /\ \A i \in DOMAIN toClient[c] : i \in DOMAIN toClient'[c] /\ toClient'[c][i] = toClient[c][i]
            /\ \A i \in DOMAIN toClient[c] : i \in Nat /\ i <= Len(toClient[c])
            /\ Len(toClient'[c]) = Len(toClient[c]) + 1 /\ Len(toClient[c]) \in Nat
        BY <1>2, <2>1, Longer
      <4> QED
        BY <4>1, <4>2 DEF Known, HostOnly
    <3> QED
      BY <3>1, <3>2, <3>3 DEF Event
  <2>3. Sound(c, m, Len(toClient[c]))'
    BY <2>2 DEF Sound, IsResponse
  <2>4. ASSUME NEW i \in DOMAIN toClient[c], toClient[c][i].id = m.id PROVE InOrder(toClient[c][i], m)
    <3>1. CASE IsResponse(toClient[c][i])
      BY <3>1 DEF InOrder
    <3>2. CASE ~IsResponse(toClient[c][i])
      <4>1. toClient[c][i] \in ClientMessage
        BY <1>2, ElementOfSeq
      <4>2. toClient[c][i].seq \in Nat /\ toClient[c][i].type \in {"progress", "terminal"}
        BY <3>2, <4>1, MessageTyped
      <4>3. Event(c, toClient[c][i], i)
        BY <3>2 DEF RequestInv, Streams, Stream, Sound
      <4>4. toClient[c][i].type = "progress" /\ toClient[c][i].seq <= ops[r].seq
        BY <1>1, <2>4, <4>2, <4>3 DEF Event
      <4> QED
        BY <1>2, <4>2, <4>4 DEF InOrder
    <3> QED
      BY <3>1, <3>2
  <2> QED
    BY <2>1, <2>3, <2>4 DEF Adds
<1>4. CASE toClient' = toClient \/ ops[r].conn # c
  BY <1>2, <1>4 DEF Sent
<1> QED
  BY <1>3, <1>4 DEF Sent

\* One operation moves.
LEMMA OneForward ==
    ASSUME TypeOK, NEW r \in Requests, ops[r].state # "completed", ops'[r].state # "none",
           ops'[r].conn = ops[r].conn, ops'[r].seq \in {ops[r].seq, ops[r].seq + 1},
           \A s \in Requests \ {r} : ops'[s] = ops[s]
    PROVE  Forward
<1>1. \A s \in Requests : ops[s].seq \in Nat
  BY DEF TypeOK, HostTypeOK, Operation
<1>2. ASSUME NEW s \in Requests
      PROVE  /\ ops[s].state # "none" => ops'[s].state # "none" /\ ops'[s].conn = ops[s].conn /\ ops[s].seq <= ops'[s].seq
             /\ ops[s].state = "completed" => ops'[s] = ops[s]
  <2>1. CASE s = r
    BY <1>1, <2>1
  <2>2. CASE s # r
    BY <1>1, <2>2
  <2> QED
    BY <2>1, <2>2
<1> QED
  BY <1>2 DEF Forward

\* The life of an operation.
LEMMA CompleteRequests ==
    ASSUME HostAssumption, TypeOK, TypeOK', RequestInv, NEW r \in Requests, Live(r),
           NEW outcome \in Outcomes, Complete(r, outcome),
           UNCHANGED <<clientState, closeReason, call, handle, clientEnd, queue, toHost, applied>>
    PROVE  RequestInv'
<1> DEFINE m == [type |-> "terminal", id |-> r, seq |-> ops[r].seq + 1, outcome |-> outcome]
<1>1. ops \in [Requests -> Operation] /\ ops[r] \in Operation /\ ops[r].seq \in Nat
  BY DEF TypeOK, HostTypeOK, Operation
<1>2. /\ ops'[r].state = "completed" /\ ops'[r].seq = ops[r].seq + 1 /\ ops'[r].outcome = outcome
      /\ ops'[r].conn = ops[r].conn
      /\ \A s \in Requests \ {r} : ops'[s] = ops[s]
  <2> DEFINE op == [ops[r] EXCEPT !.state = "completed", !.seq = ops[r].seq + 1, !.outcome = outcome]
  <2>1. op.state = "completed" /\ op.seq = ops[r].seq + 1 /\ op.outcome = outcome /\ op.conn = ops[r].conn
    BY <1>1 DEF Operation
  <2>2. ops' = [ops EXCEPT ![r] = op]
    BY <1>1 DEF Complete
  <2> HIDE DEF op
  <2> QED
    BY <1>1, <2>1, <2>2
<1>3. ops[r].state # "none" /\ ops[r].state # "completed"
  BY DEF Live, LiveStates
<1>4. HostOnly
  <2>1. Forward
    BY <1>1, <1>2, <1>3, OneForward
  <2> QED
    BY <2>1 DEF HostOnly
<1>5. Kept'
  <2>1. retained \in Seq(Requests)
    BY DEF TypeOK, HostTypeOK
  <2>2. \A i \in DOMAIN retained : ops'[retained[i]].state = "completed"
    BY <1>4, KeptForward
  <2> DEFINE order == Append(retained, r)
  <2>3. order \in Seq(Requests) /\ Len(order) = Len(retained) + 1 /\ Len(retained) \in Nat
        /\ \A i \in DOMAIN order : ops'[order[i]].state = "completed"
    BY <1>2, <2>1, <2>2, Longer
  <2>4. order # <<>>
    BY <2>1, AppendProperties
  <2> HIDE DEF order
  <2>5. \A i \in DOMAIN Tail(order) : ops'[Tail(order)[i]].state = "completed"
    BY <2>3, <2>4, Rest
  <2>6. retained' = order \/ retained' = Tail(order)
    BY DEF Complete, Retain, order
  <2> QED
    BY <2>3, <2>5, <2>6 DEF Kept
<1>6. m \in ClientMessage /\ m.type = "terminal" /\ m.id = r /\ m.seq = ops[r].seq + 1 /\ m.outcome = outcome
  BY <1>1 DEF ClientMessage
<1>7. toClient' = Sent(ops[r].conn, m)
  BY DEF Complete
<1> HIDE DEF m
<1>8. ~IsResponse(m) /\ m.type # "accepted"
  BY <1>6 DEF IsResponse
<1>9. \A c \in Connections : clientState[c] # "closed" => toClient'[c] = toClient[c] \/ Adds(c, m)
  BY <1>2, <1>4, <1>6, <1>7, <1>8, EventSent
<1>10. \A s \in Requests : /\ ops[s].state = "none" => ops'[s] = ops[s]
                           /\ Live(s)' => Live(s)
  BY <1>2, <1>3 DEF Live, LiveStates
<1> QED
  BY <1>4, <1>5, <1>6, <1>8, <1>9, <1>10, RequestsKept

LEMMA ProgressRequests ==
    ASSUME TypeOK, TypeOK', RequestInv, NEW r \in Requests, Progress(r),
           UNCHANGED <<clientState, closeReason, call, handle>>
    PROVE  RequestInv'
<1> DEFINE m == [type |-> "progress", id |-> r, seq |-> ops[r].seq + 1]
<1>1. ops \in [Requests -> Operation] /\ ops[r] \in Operation /\ ops[r].seq \in Nat
  BY DEF TypeOK, HostTypeOK, Operation
<1>2. /\ ops'[r].state = ops[r].state /\ ops'[r].seq = ops[r].seq + 1 /\ ops'[r].conn = ops[r].conn
      /\ \A s \in Requests \ {r} : ops'[s] = ops[s]
  <2> DEFINE op == [ops[r] EXCEPT !.seq = ops[r].seq + 1]
  <2>1. op.state = ops[r].state /\ op.seq = ops[r].seq + 1 /\ op.conn = ops[r].conn
    BY <1>1 DEF Operation
  <2>2. ops' = [ops EXCEPT ![r] = op]
    BY <1>1 DEF Progress
  <2> HIDE DEF op
  <2> QED
    BY <1>1, <2>1, <2>2
<1>3. Live(r) /\ ops[r].state # "none" /\ ops[r].state # "completed"
  BY DEF Progress, Live, LiveStates
<1>4. HostOnly /\ UNCHANGED <<queue, toHost, applied, retained>>
  <2>1. Forward
    BY <1>1, <1>2, <1>3, OneForward
  <2> QED
    BY <2>1 DEF HostOnly, Progress
<1>5. Kept'
  BY <1>4, KeptForward
<1>6. m \in ClientMessage /\ m.type = "progress" /\ m.id = r /\ m.seq = ops[r].seq + 1
  BY <1>1 DEF ClientMessage
<1>7. toClient' = Sent(ops[r].conn, m)
  BY DEF Progress
<1> HIDE DEF m
<1>8. ~IsResponse(m) /\ m.type # "accepted" /\ m.type # "terminal"
  BY <1>6 DEF IsResponse
<1>9. \A c \in Connections : clientState[c] # "closed" => toClient'[c] = toClient[c] \/ Adds(c, m)
  BY <1>2, <1>3, <1>4, <1>6, <1>7, <1>8, EventSent
<1>10. \A s \in Requests : /\ ops[s].state = "none" => ops'[s] = ops[s]
                           /\ Live(s)' => Live(s)
  BY <1>2, <1>3 DEF Live
<1> QED
  BY <1>4, <1>5, <1>6, <1>8, <1>9, <1>10, RequestsKept

\* A step of an operation that tells the client nothing.
LEMMA SilentRequests ==
    ASSUME TypeOK, TypeOK', RequestInv, NEW r \in Requests, Live(r), NEW st \in LiveStates,
           ops' = [ops EXCEPT ![r].state = st],
           UNCHANGED <<clientState, closeReason, call, handle, clientEnd, queue, toHost, toClient, applied, retained>>
    PROVE  RequestInv'
<1> DEFINE m == [type |-> "result", id |-> r]
<1>1. ops \in [Requests -> Operation] /\ ops[r] \in Operation /\ ops[r].seq \in Nat
  BY DEF TypeOK, HostTypeOK, Operation
<1>2. /\ ops'[r].state = st /\ ops'[r].seq = ops[r].seq /\ ops'[r].conn = ops[r].conn
      /\ \A s \in Requests \ {r} : ops'[s] = ops[s]
  <2>1. ops'[r] = [ops[r] EXCEPT !.state = st]
    BY <1>1
  <2> QED
    BY <1>1, <2>1 DEF Operation
<1>3. st # "none" /\ st # "completed" /\ ops[r].state # "none" /\ ops[r].state # "completed"
  BY DEF Live, LiveStates
<1>4. HostOnly
  <2>1. Forward
    BY <1>1, <1>2, <1>3, OneForward
  <2> QED
    BY <2>1 DEF HostOnly
<1>5. Kept'
  BY <1>4, KeptForward
<1>6. m \in ClientMessage /\ m.type # "accepted"
  BY DEF ClientMessage
<1>7. \A s \in Requests : /\ ops[s].state = "none" => ops'[s] = ops[s]
                          /\ Live(s)' => Live(s)
  BY <1>2, <1>3 DEF Live
<1> QED
  BY <1>4, <1>5, <1>6, <1>7, RequestsKept

-----------------------------------------------------------------------------
(* A request on its way to the Host, and taken by it. *)
LEMMA IdleRequests ==
    ASSUME RequestInv,
           UNCHANGED <<clientState, call, handle, clientEnd, queue, toHost, toClient, applied, retained, ops>>
    PROVE  RequestInv'
<1>1. EndsAgree' /\ Beliefs' /\ Handles'
  BY DEF RequestInv, EndsAgree, Beliefs, Believed, Handles, HandleOf
<1>2. Done' /\ Kept'
  BY DEF RequestInv, Done, WasSent, Kept
<1>3. Requested'
  BY DEF RequestInv, Requested, Coming, WasSent, ComingApart
<1>4. Streams'
  <2> SUFFICES ASSUME NEW c \in Connections, clientState[c] # "closed" PROVE Stream(c)'
    BY DEF Streams
  <2>1. \A m, n : Sound(c, m, n) => Sound(c, m, n)'
    BY DEF Sound, Answer, Event, Known
  <2> QED
    BY <2>1 DEF RequestInv, Streams, Stream, Live, Known
<1> QED
  BY <1>1, <1>2, <1>3, <1>4 DEF RequestInv

LEMMA ReceiveRequests ==
    ASSUME TypeOK, TypeOK', RequestInv, NEW c \in Connections, Receive(c),
           UNCHANGED <<clientState, closeReason, call, handle>>
    PROVE  RequestInv'
<1> DEFINE h == Head(toHost[c])
<1>1. /\ toHost[c] # <<>> /\ toHost' = [toHost EXCEPT ![c] = Tail(@)]
      /\ queue' = [queue EXCEPT ![c] = Append(@, h)] \/ queue' = queue
      /\ UNCHANGED <<ops, retained, applied, toClient, clientEnd>>
  BY DEF Receive
<1>2. /\ toHost \in [Connections -> Seq(RequestMessage)] /\ toHost[c] \in Seq(RequestMessage)
      /\ queue \in [Connections -> Seq(RequestMessage)] /\ queue[c] \in Seq(RequestMessage)
  BY DEF TypeOK, HostTypeOK
<1>3. /\ h \in RequestMessage /\ 1 \in DOMAIN toHost[c] /\ h = toHost[c][1]
      /\ \A i \in DOMAIN Tail(toHost[c]) : i + 1 \in DOMAIN toHost[c] /\ Tail(toHost[c])[i] = toHost[c][i + 1]
  BY <1>1, <1>2, Rest
<1>4. /\ \A i \in DOMAIN toHost[c] : Coming(c, toHost[c][i])
      /\ \A i \in DOMAIN queue[c] : Coming(c, queue[c][i])
      /\ Apart(toHost[c]) /\ Apart(queue[c])
      /\ \A i \in DOMAIN toHost[c] : Away(queue[c], toHost[c][i].id)
  BY DEF RequestInv, Requested, ComingApart
<1> HIDE DEF h
<1>5. Apart(Tail(toHost[c])) /\ Away(Tail(toHost[c]), h.id) /\ Away(queue[c], h.id)
  BY <1>1, <1>2, <1>3, <1>4, ApartRest DEF h
<1>6. \A r \in Requests : Away(toHost[c], r) /\ Away(queue[c], r)
                            => Away(toHost'[c], r) /\ Away(queue'[c], r)
  <2> SUFFICES ASSUME NEW r \in Requests, Away(toHost[c], r), Away(queue[c], r)
               PROVE  Away(toHost'[c], r) /\ Away(queue'[c], r)
    OBVIOUS
  <2>1. Away(Tail(toHost[c]), r) /\ r # h.id
    BY <1>1, <1>2, ApartRest DEF h
  <2>2. Away(Append(queue[c], h), r)
    BY <1>2, <1>3, <2>1, ApartLonger
  <2> QED
    BY <1>1, <1>2, <2>1, <2>2
<1>7. Requested'
  <2>0. \A d, m : Coming(d, m)' <=> Coming(d, m)
    BY <1>1 DEF Coming, WasSent
  <2> SUFFICES ASSUME NEW d \in Connections
               PROVE  /\ \A i \in DOMAIN toHost'[d] : Coming(d, toHost'[d][i])
                      /\ \A i \in DOMAIN queue'[d] : Coming(d, queue'[d][i])
                      /\ ComingApart(d)'
    BY <2>0 DEF Requested
  <2>1. CASE d # c
    <3>1. toHost'[d] = toHost[d] /\ queue'[d] = queue[d]
      BY <1>1, <1>2, <2>1
    <3> QED
      BY <3>1 DEF RequestInv, Requested, ComingApart
  <2>2. CASE d = c
    <3>1. \A i \in DOMAIN toHost'[c] : Coming(c, toHost'[c][i]) /\ toHost'[c][i].id # h.id
                                        /\ Away(queue[c], toHost'[c][i].id)
      BY <1>1, <1>2, <1>3, <1>4, <1>5 DEF Away
    <3>2. CASE queue' = queue
      BY <1>1, <1>2, <1>4, <1>5, <2>2, <3>1, <3>2 DEF ComingApart
    <3>3. CASE queue' = [queue EXCEPT ![c] = Append(@, h)]
      <4>1. queue'[c] = Append(queue[c], h)
        BY <1>2, <3>3
      <4>2. Apart(queue'[c]) /\ \A r : Away(queue[c], r) /\ r # h.id => Away(queue'[c], r)
        BY <1>2, <1>3, <1>4, <1>5, <4>1, ApartLonger
      <4>3. \A i \in DOMAIN queue'[c] : Coming(c, queue'[c][i])
        BY <1>2, <1>3, <1>4, <4>1, Longer
      <4>4. Apart(toHost'[c])
        BY <1>1, <1>2, <1>5
      <4> QED
        BY <2>2, <3>1, <4>2, <4>3, <4>4 DEF ComingApart
    <3> QED
      BY <1>1, <3>2, <3>3
  <2> QED
    BY <2>1, <2>2
<1>8. HostOnly
  BY <1>1 DEF HostOnly, Forward, TypeOK, HostTypeOK, Operation
<1>9. EndsAgree' /\ Beliefs' /\ Handles' /\ Kept'
  BY <1>1, <1>8, BelievedForward, KeptForward
<1>10. Done'
  BY <1>1 DEF RequestInv, Done, WasSent
<1>11. Streams'
  <2> SUFFICES ASSUME NEW d \in Connections, clientState[d] # "closed" PROVE Stream(d)'
    BY DEF Streams
  <2>1. \A r \in Requests : Live(r)' /\ ops'[r].conn = d => Live(r) /\ ops[r].conn = d
    BY <1>1 DEF Live
  <2>2. \A r \in Requests : Away(toHost[d], r) /\ Away(queue[d], r) => Away(toHost'[d], r) /\ Away(queue'[d], r)
    BY <1>1, <1>2, <1>6
  <2>3. [type |-> "result", id |-> h.id] \in ClientMessage
    BY <1>3 DEF ClientMessage, RequestMessage
  <2> QED
    BY <1>1, <1>8, <2>1, <2>2, <2>3, StreamForward
<1> QED
  BY <1>7, <1>9, <1>10, <1>11 DEF RequestInv

\* A request the Host takes from the queue is nowhere else.
LEMMA TakenRequested ==
    ASSUME TypeOK, TypeOK', RequestInv, HostOnly, NEW c \in Connections, queue[c] # <<>>,
           queue' = [queue EXCEPT ![c] = Tail(@)], UNCHANGED toHost,
           \A r \in Requests \ {Head(queue[c]).id} : ops[r].state = "none" => ops'[r].state = "none"
    PROVE  /\ Head(queue[c]).id \in Requests /\ Head(queue[c]).of \in Requests
           /\ Coming(c, Head(queue[c]))
           /\ ~Away(queue[c], Head(queue[c]).id)
           /\ Away(toHost'[c], Head(queue[c]).id) /\ Away(queue'[c], Head(queue[c]).id)
           /\ \A d \in Connections : \A r \in Requests :
                Away(toHost[d], r) /\ Away(queue[d], r) => Away(toHost'[d], r) /\ Away(queue'[d], r)
           /\ Requested'
<1> DEFINE h == Head(queue[c])
<1>1. /\ toHost \in [Connections -> Seq(RequestMessage)] /\ toHost[c] \in Seq(RequestMessage)
      /\ queue \in [Connections -> Seq(RequestMessage)] /\ queue[c] \in Seq(RequestMessage)
  BY DEF TypeOK, HostTypeOK
<1>2. /\ h \in RequestMessage /\ 1 \in DOMAIN queue[c] /\ h = queue[c][1]
      /\ \A i \in DOMAIN Tail(queue[c]) : i + 1 \in DOMAIN queue[c] /\ Tail(queue[c])[i] = queue[c][i + 1]
  BY <1>1, Rest
<1>3. /\ \A i \in DOMAIN toHost[c] : Coming(c, toHost[c][i])
      /\ \A i \in DOMAIN queue[c] : Coming(c, queue[c][i])
      /\ Apart(toHost[c]) /\ Apart(queue[c])
      /\ \A i \in DOMAIN toHost[c] : Away(queue[c], toHost[c][i].id)
  BY DEF RequestInv, Requested, ComingApart
<1>4. queue'[c] = Tail(queue[c]) /\ toHost'[c] = toHost[c]
  BY <1>1
<1>5. Apart(queue'[c]) /\ Away(queue'[c], h.id) /\ \A r : Away(queue[c], r) => Away(queue'[c], r) /\ r # h.id
  BY <1>1, <1>3, <1>4, ApartRest
<1>6. Away(toHost[c], h.id)
  BY <1>3, <1>5 DEF Away
<1>7. h.id \in Requests /\ h.of \in Requests /\ Coming(c, h) /\ ~Away(queue[c], h.id)
  BY <1>2, <1>3 DEF RequestMessage, Away
<1> HIDE DEF h
<1>8. ASSUME NEW d \in Connections, NEW m \in RequestMessage, Coming(d, m), m.id # h.id PROVE Coming(d, m)'
  BY <1>8 DEF Coming, WasSent, HostOnly, RequestMessage, h
<1>9. ASSUME NEW d \in Connections
      PROVE  /\ (\A i \in DOMAIN toHost[d] : Coming(d, toHost[d][i]))'
             /\ (\A i \in DOMAIN queue[d] : Coming(d, queue[d][i]))'
             /\ ComingApart(d)'
  <2>1. CASE d # c
    <3>1. toHost'[d] = toHost[d] /\ queue'[d] = queue[d] /\ toHost[d] \in Seq(RequestMessage) /\ queue[d] \in Seq(RequestMessage)
      BY <1>1, <2>1
    <3>2. /\ \A i \in DOMAIN toHost[d] : Coming(d, toHost[d][i]) /\ toHost[d][i] \in RequestMessage
          /\ \A i \in DOMAIN queue[d] : Coming(d, queue[d][i]) /\ queue[d][i] \in RequestMessage
          /\ ComingApart(d)
      BY <3>1, ElementOfSeq DEF RequestInv, Requested
    <3>3. \A m : Coming(d, m) => m.id # h.id
      BY <1>7, <2>1 DEF Coming
    <3> QED
      BY <1>8, <3>1, <3>2, <3>3 DEF ComingApart
  <2>2. CASE d = c
    <3>1. /\ \A i \in DOMAIN toHost[c] : Coming(c, toHost[c][i]) /\ toHost[c][i] \in RequestMessage /\ toHost[c][i].id # h.id
          /\ \A i \in DOMAIN queue'[c] : Coming(c, queue'[c][i]) /\ queue'[c][i] \in RequestMessage /\ queue'[c][i].id # h.id
      <4>1. \A i \in DOMAIN toHost[c] : toHost[c][i] \in RequestMessage
        BY <1>1, ElementOfSeq
      <4>2. \A i \in DOMAIN queue[c] : queue[c][i] \in RequestMessage
        BY <1>1, ElementOfSeq
      <4> QED
        BY <1>2, <1>3, <1>4, <1>5, <1>6, <4>1, <4>2 DEF Away
    <3>2. ComingApart(c)'
      BY <1>3, <1>4, <1>5 DEF ComingApart
    <3> QED
      BY <1>4, <1>8, <2>2, <3>1, <3>2
  <2> QED
    BY <2>1, <2>2
<1>10. Requested'
  BY <1>9 DEF Requested
<1>11. ASSUME NEW d \in Connections, NEW r \in Requests, Away(toHost[d], r), Away(queue[d], r)
       PROVE  Away(toHost'[d], r) /\ Away(queue'[d], r)
  <2>1. CASE d = c
    BY <1>5, <1>11, <2>1
  <2>2. CASE d # c
    BY <1>1, <1>11, <2>2
  <2> QED
    BY <2>1, <2>2
<1> QED
  BY <1>4, <1>5, <1>6, <1>7, <1>10, <1>11 DEF h

\* A request that is dropped: its connection closed.
LEMMA DroppedRequests ==
    ASSUME TypeOK, TypeOK', RequestInv, NEW c \in Connections, queue[c] # <<>>,
           queue' = [queue EXCEPT ![c] = Tail(@)],
           UNCHANGED <<clientState, closeReason, call, handle, clientEnd, toHost, toClient, applied, retained, ops>>
    PROVE  RequestInv'
<1>1. HostOnly
  BY DEF HostOnly, Forward, TypeOK, HostTypeOK, Operation
<1>2. EndsAgree' /\ Beliefs' /\ Handles' /\ Kept'
  BY <1>1, BelievedForward, KeptForward
<1>3. Done'
  BY DEF RequestInv, Done, WasSent
<1>4. /\ Head(queue[c]).id \in Requests
      /\ \A d \in Connections : \A r \in Requests :
                Away(toHost[d], r) /\ Away(queue[d], r) => Away(toHost'[d], r) /\ Away(queue'[d], r)
      /\ Requested'
  BY <1>1, TakenRequested
<1>5. Streams'
  <2> SUFFICES ASSUME NEW d \in Connections, clientState[d] # "closed" PROVE Stream(d)'
    BY DEF Streams
  <2>1. \A r \in Requests : Live(r)' /\ ops'[r].conn = d => Live(r) /\ ops[r].conn = d
    BY DEF Live
  <2>2. [type |-> "result", id |-> Head(queue[c]).id] \in ClientMessage
    BY <1>4 DEF ClientMessage
  <2> QED
    BY <1>1, <1>4, <2>1, <2>2, StreamForward
<1> QED
  BY <1>2, <1>3, <1>4, <1>5 DEF RequestInv

\* A request that is answered, where the answer is true.
LEMMA AnsweredRequests ==
    ASSUME TypeOK, TypeOK', RequestInv, HostOnly, Done', UNCHANGED <<toHost, retained>>,
           NEW c \in Connections, queue[c] # <<>>, hostEnd[c] = "open",
           queue' = [queue EXCEPT ![c] = Tail(@)],
           NEW m \in ClientMessage, IsResponse(m), m.id = Head(queue[c]).id, toClient' = Sent(c, m),
           m.type = "accepted" => ops'[m.id].state # "none",
           m.type = "rejected" => Method[m.id] = "initialize",
           m.type = "result" /\ Method[m.id] = "write" => m.id \in applied',
           m.type = "observed" /\ m.events # "running" => ops'[call[m.id].of].state = "completed",
           \A r \in Requests \ {m.id} : ops[r].state = "none" => ops'[r].state = "none",
           \A r \in Requests : Live(r)' => Live(r) \/ (m.type = "accepted" /\ r = m.id /\ ops'[r].conn = c)
    PROVE  RequestInv'
<1>1. EndsAgree' /\ Beliefs' /\ Handles' /\ Kept'
  BY BelievedForward, KeptForward
<1>2. /\ m.id \in Requests /\ Coming(c, Head(queue[c])) /\ ~Away(queue[c], m.id)
      /\ Away(toHost'[c], m.id) /\ Away(queue'[c], m.id)
      /\ \A d \in Connections : \A r \in Requests :
                Away(toHost[d], r) /\ Away(queue[d], r) => Away(toHost'[d], r) /\ Away(queue'[d], r)
      /\ Requested'
  BY TakenRequested
<1>3. /\ call[m.id].conn = c /\ ops[m.id].state = "none"
      /\ clientState[c] # "closed" => call[m.id].status = "pending"
  BY <1>2 DEF Coming
<1>4. toClient \in [Connections -> Seq(ClientMessage)]
  BY DEF TypeOK, HostTypeOK
<1>5. ASSUME clientState[c] # "closed" PROVE Adds(c, m)
  <2>1. toClient'[c] = Append(toClient[c], m)
    <3>1. clientEnd[c] = "open"
      BY <1>5 DEF RequestInv, EndsAgree, TypeOK, HostTypeOK
    <3> QED
      BY <1>4, <3>1 DEF Sent
  <2>2. Answer(c, m)'
    <3>1. handle[m.id].state = "none"
      BY <1>2, <1>3 DEF RequestInv, Handles, HandleOf
    <3> QED
      BY <1>2, <1>3, <1>5, <3>1 DEF Answer, HostOnly
  <2>3. Sound(c, m, Len(toClient[c]))'
    BY <2>2 DEF Sound, IsResponse
  <2>4. ASSUME NEW i \in DOMAIN toClient[c], toClient[c][i].id = m.id PROVE FALSE
    <3>1. Sound(c, toClient[c][i], i)
      BY <1>5 DEF RequestInv, Streams, Stream
    <3> QED
      BY <1>2, <1>3, <2>4, <3>1 DEF Sound, Answer, Event
  <2> QED
    BY <2>1, <2>3, <2>4 DEF Adds
<1>6. Streams'
  <2> SUFFICES ASSUME NEW d \in Connections, clientState[d] # "closed" PROVE Stream(d)'
    BY DEF Streams, HostOnly
  <2>1. CASE d = c
    <3>1. \A r \in Requests : Live(r)' /\ ops'[r].conn = d =>
              \/ Live(r) /\ ops[r].conn = d
              \/ m.type = "accepted" /\ m.id = r /\ Adds(d, m)
      BY <1>5, <2>1 DEF HostOnly, Forward, Live, LiveStates
    <3> QED
      BY <1>2, <1>5, <2>1, <3>1, StreamForward
  <2>2. CASE d # c
    <3>1. \A r \in Requests : Live(r)' /\ ops'[r].conn = d => Live(r) /\ ops[r].conn = d
      BY <2>2 DEF HostOnly, Forward, Live, LiveStates
    <3>2. toClient'[d] = toClient[d]
      BY <1>4, <2>2 DEF Sent
    <3> QED
      BY <1>2, <3>1, <3>2, StreamForward
  <2> QED
    BY <2>1, <2>2
<1> QED
  BY <1>1, <1>2, <1>6 DEF RequestInv

\* What the Host tells of an operation its client knows: if it does not run, it
\* is over.
LEMMA ObservationTrue ==
    ASSUME TypeOK, RequestInv, NEW of \in Requests, handle[of].state # "none", Observation(of) # "running"
    PROVE  ops[of].state = "completed"
<1>1. ops[of].state # "none" /\ ops[of] \in Operation
  BY DEF RequestInv, Handles, HandleOf, TypeOK, HostTypeOK
<1>2. CASE \E i \in DOMAIN retained : retained[i] = of
  BY <1>2 DEF RequestInv, Kept
<1>3. CASE ~\E i \in DOMAIN retained : retained[i] = of
  <2>1. ~Live(of)
    BY <1>3 DEF Observation
  <2> QED
    BY <1>1, <2>1 DEF Live, Operation
<1> QED
  BY <1>2, <1>3

\* The state of an operation that is asked to stop.
LEMMA CancelForward ==
    ASSUME TypeOK, NEW of \in Requests,
           ops' = ops \/ (ops' = [ops EXCEPT ![of].cancel = TRUE] /\ Live(of))
    PROVE  /\ Forward
           /\ \A r \in Requests : ops'[r].state = ops[r].state /\ ops'[r].conn = ops[r].conn
<1>1. ops \in [Requests -> Operation] /\ \A r \in Requests : ops[r] \in Operation /\ ops[r].seq \in Nat
  BY DEF TypeOK, HostTypeOK, Operation
<1>2. CASE ops' = ops
  BY <1>1, <1>2 DEF Forward
<1>3. CASE ops' = [ops EXCEPT ![of].cancel = TRUE] /\ Live(of)
  <2>1. \A r \in Requests \ {of} : ops'[r] = ops[r]
    BY <1>1, <1>3
  <2>2. ops'[of].state = ops[of].state /\ ops'[of].conn = ops[of].conn /\ ops'[of].seq = ops[of].seq
    BY <1>1, <1>3 DEF Operation
  <2>3. ops[of].state # "completed"
    BY <1>3 DEF Live, LiveStates
  <2> QED
    BY <1>1, <2>1, <2>2, <2>3 DEF Forward
<1> QED
  BY <1>2, <1>3

LEMMA HandleRequests ==
    ASSUME TypeOK, TypeOK', RequestInv, NEW c \in Connections, HandleStep(c),
           UNCHANGED <<clientState, closeReason, call, handle>>
    PROVE  RequestInv'
<1> DEFINE h == Head(queue[c])
<1>1. /\ queue[c] # <<>> /\ queue' = [queue EXCEPT ![c] = Tail(@)]
      /\ UNCHANGED <<toHost, retained, clientEnd>>
  BY DEF HandleStep, HandleClosed, HandleInitialize, HandleImmediate, HandleLong, FinishRequest, channelVars
<1>2. queue[c] \in Seq(RequestMessage) /\ h \in RequestMessage /\ 1 \in DOMAIN queue[c] /\ h = queue[c][1]
  BY <1>1, Rest DEF TypeOK, HostTypeOK
<1>3. h.id \in Requests /\ h.of \in Requests /\ Coming(c, h)
  BY <1>2 DEF RequestMessage, RequestInv, Requested
<1>4. call[h.id].of = h.of /\ WasSent(h.id) /\ ops[h.id].state = "none" /\ call[h.id].conn = c
  BY <1>3 DEF Coming
<1> HIDE DEF h
<1>5. CASE HandleClosed(c)
  BY <1>1, <1>5, DroppedRequests DEF HandleClosed, channelVars
<1>6. CASE HandleInitialize(c)
  <2>1. PICK compatible \in BOOLEAN :
          toClient' = Sent(c, [type |-> IF compatible THEN "result" ELSE "rejected", id |-> h.id])
    BY <1>6 DEF HandleInitialize, h
  <2>2. PICK m : m = [type |-> IF compatible THEN "result" ELSE "rejected", id |-> h.id]
    OBVIOUS
  <2>3. m \in ClientMessage /\ IsResponse(m) /\ m.id = h.id /\ m.type \in {"result", "rejected"}
    BY <1>3, <2>2 DEF ClientMessage, IsResponse
  <2>4. Method[h.id] = "initialize" /\ hostEnd[c] = "open" /\ UNCHANGED <<ops, applied>>
    BY <1>6 DEF HandleInitialize, h
  <2>5. HostOnly
    BY <1>1, <2>4 DEF HostOnly, Forward, TypeOK, HostTypeOK, Operation
  <2>6. Done'
    BY <2>4 DEF RequestInv, Done, WasSent
  <2>7. toClient' = Sent(c, m) /\ m.id = Head(queue[c]).id
    BY <2>1, <2>2, <2>3 DEF h
  <2>8. /\ m.type # "accepted" /\ m.type # "observed"
        /\ Method[m.id] = "initialize" /\ Method[m.id] # "write"
    BY <2>3, <2>4
  <2>9. \A r \in Requests : (Live(r)' <=> Live(r)) /\ ops'[r].state = ops[r].state
    BY <2>4 DEF Live
  <2> QED
    BY <1>1, <2>3, <2>4, <2>5, <2>6, <2>7, <2>8, <2>9, AnsweredRequests
<1>7. CASE HandleImmediate(c)
  <2>1. /\ hostEnd[c] = "open" /\ Method[h.id] \in {"read", "write", "observe", "cancel"}
        /\ applied' = IF Method[h.id] = "write" THEN applied \cup {h.id} ELSE applied
        /\ ops' = ops \/ (ops' = [ops EXCEPT ![h.of].cancel = TRUE] /\ Live(h.of))
        /\ toClient' = Sent(c, IF Method[h.id] = "observe"
                               THEN [type |-> "observed", id |-> h.id, events |-> Observation(h.of)]
                               ELSE [type |-> "result", id |-> h.id])
    BY <1>7 DEF HandleImmediate, h
  <2>2. PICK m : m = IF Method[h.id] = "observe"
                     THEN [type |-> "observed", id |-> h.id, events |-> Observation(h.of)]
                     ELSE [type |-> "result", id |-> h.id]
    OBVIOUS
  <2>3. m \in ClientMessage /\ IsResponse(m) /\ m.id = h.id /\ m.type \in {"result", "observed"}
    <3>1. Observation(h.of) \in Observations
      BY DEF Observation, Observations
    <3> QED
      BY <1>3, <2>2, <3>1 DEF ClientMessage, IsResponse
  <2>4. Forward /\ \A r \in Requests : ops'[r].state = ops[r].state /\ ops'[r].conn = ops[r].conn
    BY <1>3, <2>1, CancelForward
  <2>5. HostOnly
    BY <1>1, <2>1, <2>4 DEF HostOnly
  <2>6. Done'
    BY <1>3, <1>4, <2>1, <2>4 DEF RequestInv, Done, WasSent
  <2>7. m.type = "observed" /\ m.events # "running" => ops'[call[m.id].of].state = "completed"
    <3> SUFFICES ASSUME m.type = "observed", m.events # "running" PROVE ops'[h.of].state = "completed"
      BY <1>4, <2>3
    <3>1. Method[h.id] = "observe" /\ Observation(h.of) # "running"
      BY <2>2
    <3>2. handle[h.of].state # "none"
      BY <1>3, <1>4, <3>1 DEF RequestInv, Beliefs, Believed, WasSent
    <3> QED
      BY <1>3, <2>4, <3>1, <3>2, ObservationTrue
  <2>8. m.type = "result" /\ Method[m.id] = "write" => m.id \in applied'
    BY <2>1, <2>3
  <2>9. toClient' = Sent(c, m) /\ m.id = Head(queue[c]).id
    BY <2>1, <2>2, <2>3 DEF h
  <2>10. m.type # "accepted" /\ m.type # "rejected"
    BY <2>3
  <2>11. \A r \in Requests : (Live(r)' <=> Live(r)) /\ ops'[r].state = ops[r].state
    BY <2>4 DEF Live
  <2> QED
    BY <1>1, <2>1, <2>3, <2>5, <2>6, <2>7, <2>8, <2>9, <2>10, <2>11, AnsweredRequests
<1>8. CASE HandleLong(c)
  <2>1. /\ hostEnd[c] = "open" /\ Method[h.id] \in LongMethods /\ UNCHANGED applied
    BY <1>8 DEF HandleLong, h
  <2> DEFINE few == Cardinality(Active(None)) < MaxActive
             op == [NoOperation EXCEPT !.state = "scheduled", !.conn = c, !.counted = few]
  <2>2. \/ UNCHANGED <<ops, toClient>>
        \/ /\ ops' = [ops EXCEPT ![h.id] = op]
           /\ toClient' = Sent(c, [type |-> "accepted", id |-> h.id])
    BY <1>8 DEF HandleLong, h
  <2>3. CASE UNCHANGED <<ops, toClient>>
    BY <1>1, <2>1, <2>3, DroppedRequests
  <2>4. CASE /\ ops' = [ops EXCEPT ![h.id] = op]
             /\ toClient' = Sent(c, [type |-> "accepted", id |-> h.id])
    <3> HIDE DEF few
    <3>1. op.state = "scheduled" /\ op.conn = c /\ op.seq = 0
      BY DEF NoOperation
    <3> HIDE DEF op
    <3>2. ops \in [Requests -> Operation] /\ \A r \in Requests : ops[r] \in Operation /\ ops[r].seq \in Nat
      BY DEF TypeOK, HostTypeOK, Operation
    <3>3. ops'[h.id] = op /\ \A r \in Requests \ {h.id} : ops'[r] = ops[r]
      BY <1>3, <2>4, <3>2
    <3>4. HostOnly
      <4>1. Forward
        BY <1>4, <3>2, <3>3 DEF Forward
      <4> QED
        BY <1>1, <2>1, <4>1 DEF HostOnly
    <3>5. Done'
      BY <1>3, <1>4, <2>1, <3>1, <3>3 DEF RequestInv, Done, WasSent
    <3>6. PICK m : m = [type |-> "accepted", id |-> h.id]
      OBVIOUS
    <3>7. m \in ClientMessage /\ IsResponse(m) /\ m.id = h.id /\ m.type = "accepted"
      BY <1>3, <3>6 DEF ClientMessage, IsResponse
    <3>8. \A r \in Requests : Live(r)' => Live(r) \/ (r = m.id /\ ops'[r].conn = c)
      BY <3>1, <3>3, <3>7 DEF Live
    <3>9. ops'[m.id].state # "none"
      BY <3>1, <3>3, <3>7
    <3>10. toClient' = Sent(c, m) /\ m.id = Head(queue[c]).id
      BY <2>4, <3>6, <3>7 DEF h
    <3>11. m.type # "result" /\ m.type # "rejected" /\ m.type # "observed"
      BY <3>7
    <3>12. \A r \in Requests \ {m.id} : ops[r].state = "none" => ops'[r].state = "none"
      BY <3>3, <3>7
    <3> QED
      BY <1>1, <2>1, <3>4, <3>5, <3>7, <3>8, <3>9, <3>10, <3>11, <3>12, AnsweredRequests
  <2> QED
    BY <2>2, <2>3, <2>4
<1> QED
  BY <1>5, <1>6, <1>7, <1>8 DEF HandleStep

LEMMA OperationRequests ==
    ASSUME TypeOK, TypeOK', RequestInv, NEW r \in Requests, OperationStep(r),
           UNCHANGED <<clientState, closeReason, call, handle>>
    PROVE  RequestInv'
<1>1. {"scheduled", "executing", "staging", "quiescing", "activating"} = LiveStates
      /\ {"complete", "failed", "cancelled", "capacity"} = Outcomes
  BY DEF LiveStates, Outcomes
<1>2. CASE Begin(r)
  <2>1. Live(r) /\ UNCHANGED <<clientEnd, queue, toHost, applied>>
    BY <1>1, <1>2 DEF Begin, Live
  <2>2. CASE ops[r].counted
    <3>1. ops' = [ops EXCEPT ![r].state = "executing"] /\ UNCHANGED <<retained, toClient>>
      BY <1>2, <2>2 DEF Begin
    <3> QED
      BY <1>1, <2>1, <3>1, SilentRequests
  <2>3. CASE ~ops[r].counted
    <3>1. Complete(r, "capacity")
      BY <1>2, <2>3 DEF Begin
    <3> QED
      BY <1>1, <2>1, <3>1, HostAssumption, CompleteRequests
  <2> QED
    BY <2>2, <2>3
<1>3. CASE Progress(r)
  BY <1>3, ProgressRequests
<1>4. CASE End(r) \/ EndRestore(r)
  <2>1. PICK outcome \in {"complete", "failed", "cancelled"} : Complete(r, outcome)
    BY <1>4 DEF End, EndRestore
  <2>2. Live(r) /\ UNCHANGED <<clientEnd, queue, toHost, applied>>
    BY <1>1, <1>4 DEF End, EndRestore, Live
  <2> QED
    BY <1>1, <2>1, <2>2, HostAssumption, CompleteRequests
<1>5. CASE StageRestore(r) \/ QuiesceRestore(r) \/ ActivateRestore(r)
  <2>1. PICK st \in LiveStates : ops' = [ops EXCEPT ![r].state = st]
    BY <1>1, <1>5 DEF StageRestore, QuiesceRestore, ActivateRestore
  <2>2. Live(r) /\ UNCHANGED <<clientEnd, queue, toHost, toClient, applied, retained>>
    BY <1>1, <1>5 DEF StageRestore, QuiesceRestore, ActivateRestore, Live, channelVars
  <2> QED
    BY <2>1, <2>2, SilentRequests
<1> QED
  BY <1>2, <1>3, <1>4, <1>5 DEF OperationStep

LEMMA HostRequests ==
    ASSUME TypeOK, TypeOK', RequestInv, HostSide
    PROVE  RequestInv'
<1>1. HostNext /\ UNCHANGED <<clientState, closeReason, call, handle>>
  BY DEF HostSide, clientVars
<1>2. CASE \E c \in Connections : OpenConnection(c) \/ NoticeClientGone(c)
  <2>1. UNCHANGED <<clientEnd, queue, toHost, toClient, applied, retained, ops>>
    BY <1>2 DEF OpenConnection, NoticeClientGone, channelVars
  <2> QED
    BY <1>1, <2>1, IdleRequests
<1>3. CASE CallStep
  <2>1. UNCHANGED <<clientEnd, queue, toHost, toClient, applied, retained, ops>>
    BY <1>3 DEF CallStep, Drain, Drained, Shutdown, CloseConnections, ReleaseCore, channelVars
  <2> QED
    BY <1>1, <2>1, IdleRequests
<1> QED
  BY <1>1, <1>2, <1>3, ReceiveRequests, HandleRequests, OperationRequests DEF HostNext

-----------------------------------------------------------------------------
(* Steps of a client: the others do not notice. *)
LEMMA StreamElse ==
    ASSUME TypeOK, RequestInv, NEW d \in Connections, clientState[d] # "closed",
           UNCHANGED <<ops, applied, queue>>, toClient'[d] = toClient[d],
           \A r \in Requests : WasSent(r) /\ call[r].conn = d =>
              /\ call'[r] = call[r] /\ handle'[r] = handle[r]
              /\ Away(toHost[d], r) => Away(toHost'[d], r)
    PROVE  Stream(d)'
<1>1. Stream(d)
  BY DEF RequestInv, Streams
<1>2. ASSUME NEW n, NEW r \in Requests, WasSent(r), call[r].conn = d, Known(d, n, r) PROVE Known(d, n, r)'
  BY <1>2 DEF Known
<1>3. ASSUME NEW m \in ClientMessage, NEW n, Sound(d, m, n) PROVE Sound(d, m, n)'
  <2>1. m.id \in Requests
    BY MessageTyped
  <2>2. CASE IsResponse(m)
    <3>1. Answer(d, m)
      BY <1>3, <2>2 DEF Sound
    <3>2. WasSent(m.id) /\ call[m.id].conn = d
      BY <3>1 DEF Answer, WasSent
    <3>3. Answer(d, m)'
      BY <2>1, <3>1, <3>2 DEF Answer
    <3> QED
      BY <2>2, <3>3 DEF Sound, IsResponse
  <2>3. CASE ~IsResponse(m)
    <3>1. Event(d, m, n)
      BY <1>3, <2>3 DEF Sound
    <3>2. WasSent(m.id) /\ call[m.id].conn = d
      BY <2>1, <3>1 DEF Event, RequestInv, Done
    <3>3. Event(d, m, n)'
      BY <1>2, <2>1, <3>1, <3>2 DEF Event
    <3> QED
      BY <2>3, <3>3 DEF Sound, IsResponse
  <2> QED
    BY <2>2, <2>3
<1>4. (\A i \in DOMAIN toClient[d] : Sound(d, toClient[d][i], i))'
  <2>1. \A i \in DOMAIN toClient[d] : toClient[d][i] \in ClientMessage
    BY ElementOfSeq DEF TypeOK, HostTypeOK
  <2> QED
    BY <1>1, <1>3, <2>1 DEF Stream
<1>5. (\A r \in Requests : Live(r) /\ ops[r].conn = d => Known(d, Len(toClient[d]), r))'
  <2> SUFFICES ASSUME NEW r \in Requests, Live(r), ops[r].conn = d PROVE Known(d, Len(toClient[d]), r)'
    BY DEF Live
  <2>1. Known(d, Len(toClient[d]), r)
    BY <1>1 DEF Stream
  <2>2. WasSent(r) /\ call[r].conn = d
    BY DEF RequestInv, Done, Live, LiveStates
  <2> QED
    BY <2>1, <2>2 DEF Known
<1> QED
  BY <1>1, <1>4, <1>5 DEF Stream, InOrder, IsResponse

LEMMA RequestedElse ==
    ASSUME TypeOK, RequestInv, UNCHANGED <<queue, toHost>>,
           \A d \in Connections : \A m \in RequestMessage :
              Coming(d, m) /\ ~(Away(toHost[d], m.id) /\ Away(queue[d], m.id)) => Coming(d, m)'
    PROVE  Requested'
<1>1. ASSUME NEW d \in Connections
      PROVE  /\ \A i \in DOMAIN toHost[d] : toHost[d][i] \in RequestMessage /\ ~Away(toHost[d], toHost[d][i].id)
             /\ \A i \in DOMAIN queue[d] : queue[d][i] \in RequestMessage /\ ~Away(queue[d], queue[d][i].id)
  <2>1. toHost[d] \in Seq(RequestMessage) /\ queue[d] \in Seq(RequestMessage)
    BY DEF TypeOK, HostTypeOK
  <2> QED
    BY <2>1, ElementOfSeq DEF Away
<1> QED
  BY <1>1 DEF RequestInv, Requested, ComingApart

\* A request that was not sent is nowhere, and nothing was done for it.
LEMMA Unsent ==
    ASSUME TypeOK, RequestInv, NEW r \in Requests, ~WasSent(r)
    PROVE  /\ \A d \in Connections : Away(toHost[d], r) /\ Away(queue[d], r)
           /\ ops[r].state = "none" /\ r \notin applied
BY DEF RequestInv, Done, Requested, Coming, Away

LEMMA AskRequests ==
    ASSUME TypeOK, TypeOK', RequestInv, NEW c \in Connections, NEW r \in Requests,
           Initialize(c, r) \/ Request(c, r), UNCHANGED <<ops, applied, queue, retained>>
    PROVE  RequestInv'
<1>1. PICK of \in Requests :
        /\ Dispatch(c, r, of)
        /\ Method[r] # "initialize" => clientState[c] = "ready"
        /\ Method[r] = "observe" => handle[of].state # "none"
  BY DEF Initialize, Request
<1>2. /\ call[r].status = "unused" /\ clientState[c] # "closed"
      /\ UNCHANGED <<closeReason, handle, toClient, clientEnd, hostEnd>>
      /\ \/ clientState' = clientState
         \/ clientState[c] = "created" /\ clientState' = [clientState EXCEPT ![c] = "initializing"]
  BY DEF Initialize, Request
<1>3. ~WasSent(r)
  BY <1>2 DEF WasSent
<1>4. /\ call \in [Requests -> Call] /\ clientState \in [Connections -> {"created", "initializing", "ready", "closed"}]
      /\ toHost \in [Connections -> Seq(RequestMessage)] /\ toHost[c] \in Seq(RequestMessage)
      /\ queue \in [Connections -> Seq(RequestMessage)]
  BY DEF TypeOK, HostTypeOK, ClientTypeOK
<1>5. /\ call'[r].status \in {"pending", "not_sent"} /\ call'[r].conn = c /\ call'[r].of = of
      /\ \A s \in Requests \ {r} : call'[s] = call[s]
  BY <1>1, <1>4 DEF Dispatch
<1>6. /\ \A d \in Connections : clientState'[d] = "closed" <=> clientState[d] = "closed"
      /\ \A d \in Connections : clientState[d] \in {"ready", "closed"} => clientState'[d] = clientState[d]
  BY <1>2, <1>4
<1>7. EndsAgree' /\ Kept' /\ Handles'
  BY <1>2, <1>6 DEF RequestInv, EndsAgree, Kept, Handles, HandleOf
<1>8. Beliefs'
  <2> SUFFICES ASSUME NEW s \in Requests, call'[s].status # "unused" PROVE Believed(s)'
    BY DEF Beliefs
  <2>1. CASE s = r
    BY <1>1, <1>2, <1>5, <1>6, <2>1 DEF Believed
  <2>2. CASE s # r
    <3>1. Believed(s) /\ call'[s] = call[s]
      BY <1>5, <2>2 DEF RequestInv, Beliefs
    <3> QED
      BY <1>2, <1>6, <3>1 DEF Believed
  <2> QED
    BY <2>1, <2>2
<1>9. Done'
  BY <1>3, <1>5, Unsent DEF RequestInv, Done, WasSent
<1>10. /\ \/ toHost' = toHost
          \/ call'[r].status = "pending" /\ toHost' = [toHost EXCEPT ![c] = Append(@, [id |-> r, of |-> of])]
  BY <1>1, <1>4 DEF Dispatch
<1>11. [id |-> r, of |-> of] \in RequestMessage
  BY DEF RequestMessage
<1>12. ASSUME NEW d \in Connections, NEW s \in Requests, s # r, Away(toHost[d], s) PROVE Away(toHost'[d], s)
  <2>1. CASE toHost'[d] = toHost[d]
    BY <1>12, <2>1
  <2>2. CASE toHost'[d] = Append(toHost[d], [id |-> r, of |-> of])
    BY <1>4, <1>11, <1>12, <2>2, ApartLonger
  <2> QED
    BY <1>4, <1>10, <2>1, <2>2
<1>13. Streams'
  <2> SUFFICES ASSUME NEW d \in Connections, clientState[d] # "closed" PROVE Stream(d)'
    BY <1>6 DEF Streams
  <2> QED
    BY <1>2, <1>3, <1>5, <1>12, StreamElse
<1>14. Requested'
  <2>1. ASSUME NEW d \in Connections, NEW m \in RequestMessage, Coming(d, m) PROVE Coming(d, m)'
    <3>1. m.id \in Requests /\ m.id # r
      BY <1>3, <2>1 DEF Coming, RequestMessage
    <3> QED
      BY <1>5, <1>6, <2>1, <3>1 DEF Coming, WasSent
  <2>2. CASE toHost' = toHost
    BY <2>1, <2>2, RequestedElse
  <2>3. CASE call'[r].status = "pending" /\ toHost' = [toHost EXCEPT ![c] = Append(@, [id |-> r, of |-> of])]
    <3>1. PICK e \in RequestMessage : e = [id |-> r, of |-> of]
      BY <1>11
    <3>2. toHost'[c] = Append(toHost[c], e) /\ \A d \in Connections \ {c} : toHost'[d] = toHost[d]
      BY <1>4, <2>3, <3>1
    <3>3. Coming(c, e)'
      BY <1>3, <1>5, <2>3, <3>1, Unsent DEF Coming, WasSent
    <3>4. \A d \in Connections : /\ \A i \in DOMAIN queue[d] : Coming(d, queue[d][i]) /\ queue[d][i] \in RequestMessage
                                 /\ \A i \in DOMAIN toHost[d] : Coming(d, toHost[d][i]) /\ toHost[d][i] \in RequestMessage
                                 /\ ComingApart(d)
      BY <1>4, ElementOfSeq DEF RequestInv, Requested
    <3>5. Away(toHost[c], e.id) /\ Away(queue[c], e.id)
      BY <1>3, <3>1, Unsent
    <3>6. /\ Apart(toHost'[c])
          /\ \A i \in DOMAIN toHost'[c] : (i \in DOMAIN toHost[c] /\ toHost'[c][i] = toHost[c][i]) \/ toHost'[c][i] = e
      <4>1. /\ \A i \in DOMAIN toHost[c] : toHost'[c][i] = toHost[c][i]
            /\ \A i \in DOMAIN toHost'[c] : i \in DOMAIN toHost[c] \/ toHost'[c][i] = e
        BY <1>4, <3>2, Longer
      <4>2. Apart(toHost'[c])
        BY <1>4, <3>2, <3>4, <3>5, ApartLonger DEF ComingApart
      <4> QED
        BY <4>1, <4>2
    <3>7. ASSUME NEW d \in Connections
          PROVE  /\ (\A i \in DOMAIN toHost[d] : Coming(d, toHost[d][i]))'
                 /\ (\A i \in DOMAIN queue[d] : Coming(d, queue[d][i]))'
                 /\ ComingApart(d)'
      <4>1. CASE d = c
        <5>1. (\A i \in DOMAIN toHost[c] : Coming(c, toHost[c][i]))'
          BY <2>1, <3>3, <3>4, <3>6
        <5>2. (\A i \in DOMAIN queue[c] : Coming(c, queue[c][i]))'
          BY <2>1, <3>4
        <5>3. ComingApart(c)'
          BY <3>4, <3>5, <3>6 DEF ComingApart
        <5> QED
          BY <4>1, <5>1, <5>2, <5>3
      <4>2. CASE d # c
        BY <2>1, <3>2, <3>4, <4>2 DEF ComingApart
      <4> QED
        BY <4>1, <4>2
    <3> QED
      BY <3>7 DEF Requested
  <2> QED
    BY <1>10, <2>2, <2>3
<1> QED
  BY <1>7, <1>8, <1>9, <1>13, <1>14 DEF RequestInv

\* The client closes its end: what it waited for is given up.
LEMMA CloseRequests ==
    ASSUME TypeOK, TypeOK', RequestInv, NEW c \in Connections, NEW reason, TransitionClosed(c, reason),
           UNCHANGED <<ops, applied, queue, retained, toHost, toClient>>
    PROVE  RequestInv'
<1>1. call \in [Requests -> Call] /\ handle \in [Requests -> Handle]
      /\ clientState \in [Connections -> {"created", "initializing", "ready", "closed"}]
      /\ clientEnd \in [Connections -> {"open", "closed"}]
  BY DEF TypeOK, HostTypeOK, ClientTypeOK
<1>2. /\ clientState'[c] = "closed" /\ clientEnd'[c] = "closed"
      /\ \A d \in Connections \ {c} : clientState'[d] = clientState[d] /\ clientEnd'[d] = clientEnd[d]
  BY <1>1 DEF TransitionClosed
<1>3. ASSUME NEW r \in Requests
      PROVE  /\ call'[r].conn = call[r].conn /\ call'[r].of = call[r].of
             /\ call'[r].status = IF r \in PendingOf(c) THEN Lost(r) ELSE call[r].status
             /\ r \notin PendingOf(c) => call'[r] = call[r]
             /\ handle'[r].seq = handle[r].seq /\ handle'[r].outcome = handle[r].outcome
             /\ handle'[r].state = IF r \in RunningOf(c) THEN "uncertain" ELSE handle[r].state
             /\ r \notin RunningOf(c) => handle'[r] = handle[r]
  <2>1. call[r] \in Call /\ handle[r] \in Handle
    BY <1>1
  <2>2. call'[r] = IF r \in PendingOf(c) THEN [call[r] EXCEPT !.status = Lost(r)] ELSE call[r]
    BY DEF TransitionClosed
  <2>3. handle'[r] = IF r \in RunningOf(c) THEN [handle[r] EXCEPT !.state = "uncertain"] ELSE handle[r]
    BY DEF TransitionClosed
  <2> QED
    BY <2>1, <2>2, <2>3 DEF Call, Handle
<1>4. \A r \in Requests : /\ Lost(r) \in {"uncertain", "interrupted"}
                          /\ Lost(r) = "interrupted" => Method[r] \notin Mutating
  BY DEF Lost
<1>5. EndsAgree'
  BY <1>2 DEF RequestInv, EndsAgree
<1>6. Kept'
  BY DEF RequestInv, Kept
<1>7. Handles'
  BY <1>3 DEF RequestInv, Handles, HandleOf, RunningOf
<1>8. Beliefs'
  <2> SUFFICES ASSUME NEW r \in Requests, call'[r].status # "unused" PROVE Believed(r)'
    BY DEF Beliefs
  <2>1. Believed(r)
    BY <1>3, <1>4 DEF RequestInv, Beliefs, PendingOf
  <2>2. clientState[call[r].conn] \in {"ready", "closed"} => clientState'[call[r].conn] \in {"ready", "closed"}
    BY <1>2, <2>1 DEF Believed
  <2>3. handle[call[r].of].state # "none" => handle'[call[r].of].state # "none"
    BY <1>3, <2>1 DEF Believed
  <2> QED
    BY <1>3, <1>4, <2>1, <2>2, <2>3 DEF Believed
<1>9. Done'
  BY <1>3, <1>4 DEF RequestInv, Done, WasSent, PendingOf
<1>10. Requested'
  <2>1. ASSUME NEW d \in Connections, NEW m \in RequestMessage, Coming(d, m) PROVE Coming(d, m)'
    <3>1. m.id \in Requests
      BY DEF RequestMessage
    <3>2. d # c => call'[m.id] = call[m.id]
      BY <1>3, <2>1, <3>1 DEF Coming, PendingOf
    <3>3. WasSent(m.id)'
      BY <1>3, <1>4, <2>1, <3>1 DEF Coming, WasSent
    <3> QED
      BY <1>2, <1>3, <2>1, <3>1, <3>2, <3>3 DEF Coming
  <2> QED
    BY <2>1, RequestedElse
<1>11. Streams'
  <2> SUFFICES ASSUME NEW d \in Connections, clientState'[d] # "closed" PROVE Stream(d)'
    BY DEF Streams
  <2>1. d # c /\ clientState[d] # "closed"
    BY <1>2
  <2>2. \A r \in Requests : call[r].conn = d => call'[r] = call[r] /\ handle'[r] = handle[r]
    BY <1>3, <2>1 DEF PendingOf, RunningOf
  <2> QED
    BY <2>1, <2>2, StreamElse
<1> QED
  BY <1>5, <1>6, <1>7, <1>8, <1>9, <1>10, <1>11 DEF RequestInv

\* The message a client takes: what was true of it, and what is left.
LEMMA Taken ==
    ASSUME TypeOK, RequestInv, NEW c \in Connections, Arrives(c), Consumed(c)
    PROVE  /\ Incoming(c) \in ClientMessage
           /\ Sound(c, Incoming(c), 1)
           /\ Incoming(c).id \in Requests /\ WasSent(Incoming(c).id) /\ call[Incoming(c).id].conn = c
           /\ 1 \in DOMAIN toClient[c] /\ toClient[c][1] = Incoming(c)
           /\ Len(toClient[c]) \in Nat /\ Len(toClient'[c]) = Len(toClient[c]) - 1
           /\ \A d \in Connections \ {c} : toClient'[d] = toClient[d]
           /\ \A i \in DOMAIN toClient'[c] :
                /\ i \in Nat /\ i + 1 \in DOMAIN toClient[c] /\ toClient'[c][i] = toClient[c][i + 1]
                /\ toClient'[c][i] \in ClientMessage
                /\ Sound(c, toClient'[c][i], i + 1)
                /\ toClient'[c][i].id = Incoming(c).id => InOrder(Incoming(c), toClient'[c][i])
<1>1. toClient \in [Connections -> Seq(ClientMessage)] /\ toClient[c] \in Seq(ClientMessage) /\ toClient[c] # <<>>
  BY DEF TypeOK, HostTypeOK, Arrives
<1>2. toClient'[c] = Tail(toClient[c]) /\ \A d \in Connections \ {c} : toClient'[d] = toClient[d]
  BY <1>1 DEF Consumed
<1>3. /\ Incoming(c) = toClient[c][1] /\ 1 \in DOMAIN toClient[c] /\ Incoming(c) \in ClientMessage
      /\ Len(toClient[c]) \in Nat /\ Len(toClient'[c]) = Len(toClient[c]) - 1
      /\ toClient'[c] \in Seq(ClientMessage)
      /\ \A i \in DOMAIN toClient'[c] : i \in Nat /\ i + 1 \in DOMAIN toClient[c]
                                        /\ toClient'[c][i] = toClient[c][i + 1]
  BY <1>1, <1>2, Rest DEF Incoming
<1>4. \A i \in DOMAIN toClient'[c] : toClient'[c][i] \in ClientMessage /\ 1 < i + 1
  BY <1>3, ElementOfSeq, LenProperties
<1>5. /\ \A i \in DOMAIN toClient[c] : Sound(c, toClient[c][i], i)
      /\ \A i, j \in DOMAIN toClient[c] :
            i < j /\ toClient[c][i].id = toClient[c][j].id => InOrder(toClient[c][i], toClient[c][j])
  BY DEF RequestInv, Streams, Stream, Arrives
<1>6. Sound(c, Incoming(c), 1) /\ Incoming(c).id \in Requests
  BY <1>3, <1>5, MessageTyped
<1>7. WasSent(Incoming(c).id) /\ call[Incoming(c).id].conn = c
  <2>1. CASE IsResponse(Incoming(c))
    BY <1>6, <2>1 DEF Sound, Answer, WasSent
  <2>2. CASE ~IsResponse(Incoming(c))
    BY <1>6, <2>2 DEF Sound, Event, RequestInv, Done
  <2> QED
    BY <2>1, <2>2
<1>8. ASSUME NEW i \in DOMAIN toClient'[c]
      PROVE  /\ Sound(c, toClient'[c][i], i + 1)
             /\ toClient'[c][i].id = Incoming(c).id => InOrder(Incoming(c), toClient'[c][i])
  BY <1>3, <1>4, <1>5
<1> QED
  BY <1>2, <1>3, <1>4, <1>6, <1>7, <1>8

\* What is left in the channel is in order as before.
LEMMA StreamRest ==
    ASSUME TypeOK, RequestInv, NEW c \in Connections, Arrives(c), Consumed(c), UNCHANGED ops,
           \A r \in Requests : handle[r].state = "running" /\ Live(r) => handle'[r].state = "running",
           Incoming(c).type = "accepted" => handle'[Incoming(c).id].state = "running",
           \A i \in DOMAIN toClient'[c] : \A m \in ClientMessage : m = toClient'[c][i] => Sound(c, m, i)'
    PROVE  Stream(c)'
<1>1. /\ Len(toClient[c]) \in Nat /\ Len(toClient'[c]) = Len(toClient[c]) - 1
      /\ \A i \in DOMAIN toClient'[c] : /\ i \in Nat /\ i + 1 \in DOMAIN toClient[c]
                                        /\ toClient'[c][i] = toClient[c][i + 1] /\ toClient'[c][i] \in ClientMessage
  BY Taken
<1>2. /\ \A i, j \in DOMAIN toClient[c] :
            i < j /\ toClient[c][i].id = toClient[c][j].id => InOrder(toClient[c][i], toClient[c][j])
      /\ \A r \in Requests : Live(r) /\ ops[r].conn = c => Known(c, Len(toClient[c]), r)
  BY DEF RequestInv, Streams, Stream, Arrives
<1>3. (\A i \in DOMAIN toClient[c] : Sound(c, toClient[c][i], i))'
  BY <1>1
<1>4. \A i, j \in DOMAIN toClient'[c] :
            i < j /\ toClient'[c][i].id = toClient'[c][j].id => InOrder(toClient'[c][i], toClient'[c][j])
  BY <1>1, <1>2
<1>5. ASSUME NEW r \in Requests, Live(r)', ops'[r].conn = c PROVE Known(c, Len(toClient[c]), r)'
  <2>1. Live(r) /\ Known(c, Len(toClient[c]), r)
    BY <1>2, <1>5 DEF Live
  <2>2. CASE handle[r].state = "running"
    BY <2>1, <2>2 DEF Known
  <2>3. CASE handle[r].state # "running"
    <3>1. PICK i \in DOMAIN toClient[c] : toClient[c][i].type = "accepted" /\ toClient[c][i].id = r
      BY <2>1, <2>3 DEF Known
    <3>2. CASE i = 1
      BY <3>1, <3>2, Taken DEF Known
    <3>3. CASE i # 1
      <4>1. i - 1 \in DOMAIN toClient'[c] /\ i - 1 <= Len(toClient'[c]) /\ toClient'[c][i - 1] = toClient[c][i]
        <5>1. toClient[c] \in Seq(ClientMessage) /\ toClient'[c] = Tail(toClient[c])
              /\ toClient'[c] \in Seq(ClientMessage)
          BY Handled DEF TypeOK, HostTypeOK, Consumed, Arrives
        <5>2. DOMAIN toClient[c] = 1 .. Len(toClient[c]) /\ DOMAIN toClient'[c] = 1 .. Len(toClient[c]) - 1
          BY <1>1, <5>1, LenProperties
        <5>3. i \in Nat /\ i - 1 \in 1 .. Len(toClient[c]) - 1
          BY <1>1, <3>3, <5>2
        <5> QED
          BY <1>1, <5>2, <5>3
      <4> QED
        BY <3>1, <4>1 DEF Known
    <3> QED
      BY <3>2, <3>3
  <2> QED
    BY <2>2, <2>3
<1> QED
  BY <1>3, <1>4, <1>5 DEF Stream, InOrder, IsResponse

\* A handle that is there, or whose acknowledgement is the message just taken
\* or comes before the event.
LEMMA KnownRest ==
    ASSUME TypeOK, RequestInv, NEW c \in Connections, Arrives(c), Consumed(c), NEW r \in Requests,
           NEW i \in DOMAIN toClient'[c], Known(c, i + 1, r),
           handle[r].state = "running" => handle'[r].state = "running",
           Incoming(c).type = "accepted" /\ Incoming(c).id = r => handle'[r].state = "running"
    PROVE  Known(c, i, r)'
<1>1. CASE handle[r].state = "running"
  BY <1>1 DEF Known
<1>2. CASE handle[r].state # "running"
  <2>1. PICK j \in DOMAIN toClient[c] : j <= i + 1 /\ toClient[c][j].type = "accepted" /\ toClient[c][j].id = r
    BY <1>2 DEF Known
  <2>2. CASE j = 1
    BY <2>1, <2>2, Taken DEF Known
  <2>3. CASE j # 1
    <3>1. toClient[c] \in Seq(ClientMessage) /\ toClient'[c] = Tail(toClient[c]) /\ toClient'[c] \in Seq(ClientMessage)
      BY Handled DEF TypeOK, HostTypeOK, Consumed, Arrives
    <3>2. /\ Len(toClient[c]) \in Nat /\ Len(toClient'[c]) = Len(toClient[c]) - 1
          /\ \A k \in DOMAIN toClient'[c] : toClient'[c][k] = toClient[c][k + 1]
          /\ i \in Nat
      BY Taken
    <3>3. DOMAIN toClient[c] = 1 .. Len(toClient[c]) /\ DOMAIN toClient'[c] = 1 .. Len(toClient[c]) - 1
      BY <3>1, <3>2, LenProperties
    <3>4. j - 1 \in DOMAIN toClient'[c] /\ j - 1 <= i /\ toClient'[c][j - 1] = toClient[c][j]
      BY <2>1, <2>3, <3>2, <3>3
    <3> QED
      BY <2>1, <3>4 DEF Known
  <2> QED
    BY <2>2, <2>3
<1> QED
  BY <1>1, <1>2

\* An answer the client waits for.
LEMMA ResponseAwaited ==
    ASSUME TypeOK, RequestInv, NEW c \in Connections, Arrives(c), Consumed(c), IsResponse(Incoming(c))
    PROVE  Answer(c, Incoming(c)) /\ ResponseExpected(Incoming(c), c)
<1>1. Answer(c, Incoming(c)) /\ Incoming(c).id \in Requests
  BY Taken DEF Sound
<1> QED
  BY <1>1 DEF Answer, ResponseExpected, PendingOf

\* What the answer to r, settled as st, leaves true.
LEMMA SettledRequests ==
    ASSUME TypeOK, TypeOK', RequestInv, NEW c \in Connections, Arrives(c), Consumed(c),
           IsResponse(Incoming(c)), UNCHANGED <<ops, applied, queue, retained, toHost>>,
           NEW r \in Requests, r = Incoming(c).id, NEW st \in Answers, call' = [call EXCEPT ![r].status = st],
           st = "rejected" => Method[r] = "initialize",
           st = "result" /\ Method[r] = "write" => r \in applied,
           st \in {"unavailable", "terminal"} => ops[call[r].of].state = "completed",
           \A s \in Requests : handle'[s].seq = handle[s].seq /\ handle'[s].outcome = handle[s].outcome,
           \A s \in Requests \ {r} : handle'[s] = handle[s],
           \/ handle'[r].state = handle[r].state /\ Incoming(c).type # "accepted"
           \/ handle'[r].state = "running" /\ ops[r].state # "none" /\ Incoming(c).type = "accepted",
           \A d \in Connections \ {c} : clientState'[d] = clientState[d] /\ clientEnd'[d] = clientEnd[d],
           \/ clientState'[c] = clientState[c] /\ UNCHANGED clientEnd
           \/ clientState'[c] = "ready" /\ UNCHANGED clientEnd
           \/ clientState'[c] = "closed" /\ clientEnd'[c] = "closed"
    PROVE  RequestInv'
<1>1. Answer(c, Incoming(c)) /\ clientState[c] # "closed"
  BY ResponseAwaited DEF Arrives
<1>2. /\ call[r].conn = c /\ call[r].status = "pending" /\ WasSent(r)
      /\ Away(toHost[c], r) /\ Away(queue[c], r)
      /\ Incoming(c).type = "accepted" => handle[r].state = "none" /\ ops[r].state # "none"
  BY <1>1 DEF Answer, WasSent
<1>3. call \in [Requests -> Call] /\ call[r] \in Call /\ clientEnd[c] = "open"
  BY <1>1 DEF TypeOK, HostTypeOK, ClientTypeOK, RequestInv, EndsAgree
<1>4. /\ call'[r].status = st /\ call'[r].conn = c /\ call'[r].of = call[r].of
      /\ \A s \in Requests \ {r} : call'[s] = call[s]
  <2>1. call'[r] = [call[r] EXCEPT !.status = st]
    BY <1>3
  <2> QED
    BY <1>2, <1>3, <2>1 DEF Call
<1>5. st \notin {"unused", "not_sent", "pending", "interrupted", "uncertain"}
  BY DEF Answers
<1>6. \A s \in Requests : handle[s].state # "none" => handle'[s].state # "none"
  OBVIOUS
<1>7. \A d \in Connections : clientState[d] \in {"ready", "closed"} => clientState'[d] \in {"ready", "closed"}
  OBVIOUS
<1>8. EndsAgree' /\ Kept'
  BY <1>1, <1>3 DEF RequestInv, EndsAgree, Kept
<1>9. Handles'
  <2> SUFFICES ASSUME NEW s \in Requests PROVE HandleOf(s)'
    BY DEF Handles
  <2>1. HandleOf(s)
    BY DEF RequestInv, Handles
  <2>2. CASE handle'[s].state = handle[s].state
    BY <2>1, <2>2 DEF HandleOf
  <2>3. CASE handle'[s].state # handle[s].state
    <3>1. s = r /\ handle'[s].state = "running" /\ ops[s].state # "none"
      BY <2>3
    <3> QED
      BY <2>1, <3>1 DEF HandleOf
  <2> QED
    BY <2>2, <2>3
<1>10. Beliefs'
  <2> SUFFICES ASSUME NEW s \in Requests, call'[s].status # "unused" PROVE Believed(s)'
    BY DEF Beliefs
  <2>1. Believed(s) /\ call'[s].conn = call[s].conn /\ call'[s].of = call[s].of
    BY <1>2, <1>4 DEF RequestInv, Beliefs
  <2>2. /\ Method[s] # "initialize" => clientState'[call[s].conn] \in {"ready", "closed"}
        /\ Method[s] = "observe" => handle'[call[s].of].state # "none"
    BY <1>6, <1>7, <2>1 DEF Believed
  <2>3. CASE s = r
    BY <1>4, <1>5, <2>1, <2>2, <2>3 DEF Believed
  <2>4. CASE s # r
    BY <1>4, <2>1, <2>2, <2>4 DEF Believed
  <2> QED
    BY <2>3, <2>4
<1>11. Done'
  BY <1>2, <1>4, <1>5 DEF RequestInv, Done, WasSent
<1>12. Requested'
  <2>1. ASSUME NEW d \in Connections, NEW m \in RequestMessage, Coming(d, m),
               ~(Away(toHost[d], m.id) /\ Away(queue[d], m.id))
        PROVE  Coming(d, m)'
    <3>1. m.id \in Requests /\ m.id # r
      BY <1>2, <2>1 DEF RequestMessage, Coming
    <3>2. clientState'[d] # "closed" => clientState[d] # "closed"
      BY <1>1
    <3> QED
      BY <1>4, <2>1, <3>1, <3>2 DEF Coming, WasSent
  <2> QED
    BY <2>1, RequestedElse
<1>13. ASSUME NEW i \in DOMAIN toClient'[c], NEW m \in ClientMessage, m = toClient'[c][i]
       PROVE  Sound(c, m, i)'
  <2>1. /\ Sound(c, m, i + 1)
        /\ m.id = r => ~IsResponse(m)
    BY <1>13, Taken DEF InOrder
  <2>2. m.id \in Requests
    BY MessageTyped
  <2>3. CASE IsResponse(m)
    <3>1. Answer(c, m) /\ m.id # r
      BY <2>1, <2>3 DEF Sound
    <3>2. Answer(c, m)'
      BY <1>4, <2>2, <3>1 DEF Answer
    <3> QED
      BY <2>3, <3>2 DEF Sound, IsResponse
  <2>4. CASE ~IsResponse(m)
    <3>1. Event(c, m, i + 1)
      BY <2>1, <2>4 DEF Sound
    <3>2. Known(c, i, m.id)'
      BY <2>2, <3>1, KnownRest DEF Event
    <3>3. Event(c, m, i)'
      BY <2>2, <3>1, <3>2 DEF Event
    <3> QED
      BY <2>4, <3>3 DEF Sound, IsResponse
  <2> QED
    BY <2>3, <2>4
<1>14. Streams'
  <2> SUFFICES ASSUME NEW d \in Connections, clientState'[d] # "closed" PROVE Stream(d)'
    BY DEF Streams
  <2>1. CASE d = c
    <3>1. \A s \in Requests : handle[s].state = "running" /\ Live(s) => handle'[s].state = "running"
      OBVIOUS
    <3> QED
      BY <1>13, <2>1, <3>1, StreamRest
  <2>2. CASE d # c
    <3>1. clientState[d] # "closed" /\ toClient'[d] = toClient[d]
      BY <2>2, Taken
    <3>2. \A s \in Requests : call[s].conn = d => call'[s] = call[s] /\ handle'[s] = handle[s]
      BY <1>2, <1>4, <2>2
    <3> QED
      BY <3>1, <3>2, StreamElse
  <2> QED
    BY <2>1, <2>2
<1> QED
  BY <1>8, <1>9, <1>10, <1>11, <1>12, <1>14 DEF RequestInv

LEMMA ResponseRequests ==
    ASSUME TypeOK, TypeOK', RequestInv, NEW c \in Connections, ReceiveResponse(c),
           UNCHANGED <<ops, applied, queue, retained>>
    PROVE  RequestInv' /\ closeReason' = closeReason
<1> DEFINE m == Incoming(c)
           st == IF m.type = "observed" THEN m.events ELSE m.type
<1>1. Arrives(c) /\ Consumed(c) /\ IsResponse(m) /\ UNCHANGED <<toHost, hostEnd>>
  BY DEF ReceiveResponse
<1>2. Answer(c, m) /\ ResponseExpected(m, c)
  BY <1>1, ResponseAwaited
<1>3. PICK r \in Requests : r = m.id
  BY <1>1, Taken
<1>4. /\ call' = [call EXCEPT ![r].status = st]
      /\ handle' = IF m.type = "accepted" THEN [handle EXCEPT ![r].state = "running"] ELSE handle
      /\ clientState' = IF Method[r] = "initialize" THEN [clientState EXCEPT ![c] = "ready"] ELSE clientState
      /\ UNCHANGED <<closeReason, clientEnd>>
  BY <1>2, <1>3 DEF ReceiveResponse
<1>5. /\ m.type \in {"result", "rejected", "accepted", "observed"}
      /\ m.type = "observed" => m.events \in {"unavailable", "running", "terminal"}
  BY <1>1, IncomingTyped DEF Observations
<1>6. /\ st \in Answers
      /\ st = "rejected" => Method[r] = "initialize"
      /\ st = "result" /\ Method[r] = "write" => r \in applied
      /\ st \in {"unavailable", "terminal"} => ops[call[r].of].state = "completed"
  BY <1>2, <1>3, <1>5 DEF Answer, Answers
<1> HIDE DEF st
<1>7. handle \in [Requests -> Handle] /\ handle[r] \in Handle
      /\ clientState \in [Connections -> {"created", "initializing", "ready", "closed"}]
  BY DEF TypeOK, ClientTypeOK
<1>8. m.type = "accepted" => ops[r].state # "none"
  BY <1>2, <1>3 DEF Answer
<1>9. /\ \A s \in Requests : handle'[s].seq = handle[s].seq /\ handle'[s].outcome = handle[s].outcome
      /\ \A s \in Requests \ {r} : handle'[s] = handle[s]
      /\ \/ handle'[r].state = handle[r].state /\ m.type # "accepted"
         \/ handle'[r].state = "running" /\ ops[r].state # "none" /\ m.type = "accepted"
  <2>1. CASE m.type # "accepted"
    BY <1>4, <2>1
  <2>2. CASE m.type = "accepted"
    <3>1. handle'[r] = [handle[r] EXCEPT !.state = "running"] /\ \A s \in Requests \ {r} : handle'[s] = handle[s]
      BY <1>4, <1>7, <2>2
    <3> QED
      BY <1>7, <1>8, <2>2, <3>1 DEF Handle
  <2> QED
    BY <2>1, <2>2
<1>10. /\ \A d \in Connections \ {c} : clientState'[d] = clientState[d] /\ clientEnd'[d] = clientEnd[d]
       /\ clientState'[c] = clientState[c] \/ clientState'[c] = "ready"
  BY <1>4, <1>7
<1> HIDE DEF m
<1>11. RequestInv'
  BY <1>1, <1>3, <1>4, <1>6, <1>9, <1>10, SettledRequests DEF m
<1> QED
  BY <1>4, <1>11

LEMMA RefusalRequests ==
    ASSUME TypeOK, TypeOK', RequestInv, NEW c \in Connections, ReceiveRefusal(c),
           UNCHANGED <<ops, applied, queue, retained>>
    PROVE  RequestInv' /\ closeReason' = [closeReason EXCEPT ![c] = "initialization_failed"]
<1> DEFINE m == Incoming(c)
<1>1. /\ Arrives(c) /\ Consumed(c) /\ m.type = "rejected" /\ Method[m.id] = "initialize"
      /\ call' = [call EXCEPT ![m.id].status = "rejected"]
      /\ clientState' = [clientState EXCEPT ![c] = "closed"]
      /\ closeReason' = [closeReason EXCEPT ![c] = "initialization_failed"]
      /\ clientEnd' = [clientEnd EXCEPT ![c] = "closed"]
      /\ UNCHANGED <<handle, toHost, hostEnd>>
  BY DEF ReceiveRefusal
<1>2. IsResponse(m) /\ "rejected" \in Answers
  BY <1>1 DEF IsResponse, Answers
<1>3. PICK r \in Requests : r = m.id
  BY <1>1, Taken
<1>4. clientState \in [Connections -> {"created", "initializing", "ready", "closed"}]
      /\ clientEnd \in [Connections -> {"open", "closed"}]
  BY DEF TypeOK, HostTypeOK, ClientTypeOK
<1>5. /\ \A d \in Connections \ {c} : clientState'[d] = clientState[d] /\ clientEnd'[d] = clientEnd[d]
      /\ clientState'[c] = "closed" /\ clientEnd'[c] = "closed"
  BY <1>1, <1>4
<1> HIDE DEF m
<1>6. RequestInv'
  BY <1>1, <1>2, <1>3, <1>5, SettledRequests DEF m
<1> QED
  BY <1>1, <1>6

\* An event the client listens for.
LEMMA NotificationAwaited ==
    ASSUME TypeOK, RequestInv, NEW c \in Connections, Arrives(c), Consumed(c), ~IsResponse(Incoming(c))
    PROVE  Event(c, Incoming(c), 1) /\ NotificationExpected(Incoming(c), c)
<1> DEFINE m == Incoming(c)
<1>1. /\ Event(c, m, 1) /\ m \in ClientMessage /\ m.id \in Requests /\ WasSent(m.id) /\ call[m.id].conn = c
      /\ toClient[c][1] = m
      /\ \A i \in DOMAIN toClient[c] : i \in Nat /\ (i <= 1 => i = 1)
  <2>1. toClient[c] \in Seq(ClientMessage)
    BY DEF TypeOK, HostTypeOK
  <2>2. \A i \in DOMAIN toClient[c] : i \in Nat /\ (i <= 1 => i = 1)
    BY <2>1, LenProperties
  <2> QED
    BY <2>2, Taken DEF Sound
<1>2. m.type # "accepted" /\ m.seq \in Nat
  BY <1>1, MessageTyped
<1>3. handle[m.id].state = "running"
  BY <1>1, <1>2 DEF Event, Known
<1>4. clientState[c] = "ready"
  <2>1. Method[m.id] \in LongMethods
    BY <1>1 DEF Event, RequestInv, Done
  <2>2. Method[m.id] # "initialize"
    BY <2>1 DEF LongMethods
  <2>3. Believed(m.id)
    BY <1>1 DEF RequestInv, Beliefs, WasSent
  <2> QED
    BY <1>1, <2>2, <2>3 DEF Believed, Arrives
<1>5. handle[m.id].seq \in Nat
  BY <1>1 DEF TypeOK, ClientTypeOK, Handle
<1> QED
  BY <1>1, <1>2, <1>3, <1>4, <1>5 DEF NotificationExpected, Event

LEMMA NotificationRequests ==
    ASSUME TypeOK, TypeOK', RequestInv, NEW c \in Connections, ReceiveNotification(c),
           UNCHANGED <<ops, applied, queue, retained>>
    PROVE  RequestInv' /\ closeReason' = closeReason
<1> DEFINE m == Incoming(c)
<1>1. Arrives(c) /\ Consumed(c) /\ ~IsResponse(m) /\ UNCHANGED <<toHost, hostEnd>>
  BY DEF ReceiveNotification
<1>2. Event(c, m, 1) /\ NotificationExpected(m, c)
  BY <1>1, NotificationAwaited
<1>3. PICK r \in Requests : r = m.id
  BY <1>1, Taken
<1>4. /\ handle' = [handle EXCEPT ![r] =
                            IF m.type = "terminal"
                            THEN [state |-> "terminal", seq |-> m.seq, outcome |-> m.outcome]
                            ELSE [handle[r] EXCEPT !.seq = m.seq]]
      /\ UNCHANGED <<clientState, closeReason, call, clientEnd>>
  BY <1>2, <1>3 DEF ReceiveNotification, TypeOK, ClientTypeOK
<1>5. handle \in [Requests -> Handle] /\ handle[r] \in Handle
  BY DEF TypeOK, ClientTypeOK
<1>6. m \in ClientMessage /\ m.type \in {"progress", "terminal"} /\ m.seq \in Nat
  BY <1>1, Taken, MessageTyped
<1>7. /\ handle[r].state = "running" /\ call[r].conn = c /\ ops[r].state # "none"
      /\ m.seq <= ops[r].seq
      /\ m.type = "terminal" => ops[r].state = "completed" /\ ops[r].outcome = m.outcome
  BY <1>2, <1>3 DEF NotificationExpected, Event
<1>8. /\ \A s \in Requests \ {r} : handle'[s] = handle[s]
      /\ handle'[r].seq = m.seq
      /\ \/ m.type = "terminal" /\ handle'[r].state = "terminal" /\ handle'[r].outcome = m.outcome
         \/ m.type = "progress" /\ handle'[r].state = "running"
  <2>1. CASE m.type = "terminal"
    BY <1>4, <1>5, <2>1
  <2>2. CASE m.type = "progress"
    <3>1. handle'[r] = [handle[r] EXCEPT !.seq = m.seq]
      BY <1>4, <1>5, <2>2
    <3> QED
      BY <1>4, <1>5, <1>7, <2>2, <3>1 DEF Handle
  <2> QED
    BY <1>6, <2>1, <2>2
<1>9. EndsAgree' /\ Kept' /\ Done'
  BY <1>4 DEF RequestInv, EndsAgree, Kept, Done, WasSent
<1>10. Beliefs'
  BY <1>4, <1>8 DEF RequestInv, Beliefs, Believed
<1>11. Handles'
  BY <1>7, <1>8 DEF RequestInv, Handles, HandleOf
<1>12. Requested'
  BY <1>1, <1>4, RequestedElse DEF Coming, WasSent
<1>13. ASSUME NEW i \in DOMAIN toClient'[c], NEW e \in ClientMessage, e = toClient'[c][i]
       PROVE  Sound(c, e, i)'
  <2>1. Sound(c, e, i + 1) /\ (e.id = r => InOrder(m, e))
    BY <1>1, <1>3, <1>13, Taken
  <2>2. e.id \in Requests
    BY MessageTyped
  <2>3. CASE IsResponse(e)
    <3>1. Answer(c, e)
      BY <2>1, <2>3 DEF Sound
    <3>2. e.type = "accepted" => e.id # r
      BY <1>7, <3>1 DEF Answer
    <3>3. Answer(c, e)'
      BY <1>1, <1>4, <1>8, <2>2, <3>1, <3>2 DEF Answer
    <3> QED
      BY <2>3, <3>3 DEF Sound, IsResponse
  <2>4. CASE ~IsResponse(e)
    <3>1. Event(c, e, i + 1)
      BY <2>1, <2>4 DEF Sound
    <3>2. e.id = r => m.type = "progress" /\ m.seq < e.seq
      BY <1>1, <2>1, <2>4 DEF InOrder
    <3>3. e.id = r => handle'[r].state = "running"
      BY <1>8, <3>2
    <3>4. Known(c, i, e.id)'
      BY <1>1, <1>6, <1>8, <2>2, <3>1, <3>3, KnownRest DEF Event
    <3>5. Event(c, e, i)'
      BY <1>8, <2>2, <3>1, <3>2, <3>4 DEF Event
    <3> QED
      BY <2>4, <3>5 DEF Sound, IsResponse
  <2> QED
    BY <2>3, <2>4
<1>14. Streams'
  <2> SUFFICES ASSUME NEW d \in Connections, clientState[d] # "closed" PROVE Stream(d)'
    BY <1>4 DEF Streams
  <2>1. CASE d = c
    <3>1. \A s \in Requests : handle[s].state = "running" /\ Live(s) => handle'[s].state = "running"
      BY <1>7, <1>8 DEF Live, LiveStates
    <3> QED
      BY <1>1, <1>6, <1>13, <2>1, <3>1, StreamRest
  <2>2. CASE d # c
    <3>1. toClient'[d] = toClient[d]
      BY <1>1, <2>2, Taken
    <3>2. \A s \in Requests : call[s].conn = d => call'[s] = call[s] /\ handle'[s] = handle[s]
      BY <1>4, <1>7, <1>8, <2>2
    <3> QED
      BY <1>1, <3>1, <3>2, StreamElse
  <2> QED
    BY <2>1, <2>2
<1> QED
  BY <1>4, <1>9, <1>10, <1>11, <1>12, <1>14 DEF RequestInv

LEMMA ClientRequests ==
    ASSUME TypeOK, TypeOK', RequestInv, ClientSide
    PROVE  RequestInv' /\ \A d \in Connections : closeReason'[d] = "protocol" => closeReason[d] = "protocol"
<1>1. UNCHANGED <<ops, applied, queue, retained>>
  BY DEF ClientSide
<1>2. closeReason \in [Connections -> {"local", "transport", "protocol", "initialization_failed", None}]
  BY DEF TypeOK, ClientTypeOK
<1>3. PICK c \in Connections :
        \/ \E r \in Requests : Initialize(c, r) \/ Request(c, r)
        \/ ClientReceive(c) \/ Close(c) \/ NoticeHostGone(c)
  BY DEF ClientSide, ClientNext
<1>4. CASE \E r \in Requests : Initialize(c, r) \/ Request(c, r)
  <2>1. RequestInv'
    BY <1>1, <1>4, AskRequests
  <2>2. closeReason' = closeReason
    BY <1>4 DEF Initialize, Request
  <2> QED
    BY <2>1, <2>2
<1>5. CASE ReceiveResponse(c)
  BY <1>1, <1>5, ResponseRequests
<1>6. CASE ReceiveRefusal(c)
  <2>1. RequestInv' /\ closeReason' = [closeReason EXCEPT ![c] = "initialization_failed"]
    BY <1>1, <1>6, RefusalRequests
  <2> QED
    BY <1>2, <2>1
<1>7. CASE ReceiveNotification(c)
  BY <1>1, <1>7, NotificationRequests
<1>8. CASE Close(c) \/ NoticeHostGone(c)
  <2>1. PICK reason \in {"local", "transport"} : TransitionClosed(c, reason)
    BY <1>8 DEF Close, NoticeHostGone
  <2>2. UNCHANGED <<toHost, toClient>>
    BY <1>8 DEF Close, NoticeHostGone
  <2>3. RequestInv'
    BY <1>1, <2>1, <2>2, CloseRequests
  <2>4. closeReason' = [closeReason EXCEPT ![c] = reason]
    BY <2>1 DEF TransitionClosed
  <2> QED
    BY <1>2, <2>3, <2>4
<1> QED
  BY <1>3, <1>4, <1>5, <1>6, <1>7, <1>8 DEF ClientReceive

LEMMA RequestsBegin == Init => RequestInv
<1> SUFFICES ASSUME Init PROVE RequestInv
  OBVIOUS
<1>1. /\ \A r \in Requests : call[r].status = "unused" /\ handle[r] = NoHandle /\ ops[r] = NoOperation
      /\ applied = {} /\ retained = <<>>
      /\ \A c \in Connections : /\ toHost[c] = <<>> /\ queue[c] = <<>> /\ toClient[c] = <<>>
                                /\ clientState[c] = "created" /\ clientEnd[c] = "open"
  BY DEF Init, HostInit, ClientInit
<1>2. DOMAIN <<>> = {} /\ Len(<<>>) = 0
  OBVIOUS
<1>3. EndsAgree /\ Beliefs /\ Done
  BY <1>1 DEF EndsAgree, Beliefs, Done, NoOperation
<1>4. Kept
  BY <1>1, <1>2 DEF Kept
<1>5. Handles
  BY <1>1 DEF Handles, HandleOf, NoHandle, NoOperation
<1>6. Requested
  BY <1>1, <1>2 DEF Requested, ComingApart, Apart, Away
<1>7. Streams
  BY <1>1, <1>2 DEF Streams, Stream, Live, LiveStates, NoOperation
<1> QED
  BY <1>3, <1>4, <1>5, <1>6, <1>7 DEF RequestInv

\* A request is at one place at a time; the events of an operation follow its
\* acknowledgement, in order and none after the end; and what is on its way to
\* a client is true when it arrives: whatever closes, is lost with its
\* connection, or is handled meanwhile.
THEOREM RequestsInOrder == Spec => []RequestInv
<1>1. TypeOK /\ TypeOK' /\ RequestInv /\ [Next]_vars => RequestInv'
  <2> SUFFICES ASSUME TypeOK, TypeOK', RequestInv, [Next]_vars PROVE RequestInv'
    OBVIOUS
  <2>1. CASE UNCHANGED vars
    BY <2>1, IdleRequests DEF vars, hostVars, channelVars, clientVars
  <2> QED
    BY <2>1, HostRequests, ClientRequests DEF Next
<1> QED
  BY <1>1, RequestsBegin, TypeCorrect, PTL DEF Spec

\* The Host never sends what its client takes for a violation of the Protocol,
\* for any number of connections, requests and operations: no client closes its
\* connection over an early, late or repeated message of a correct Host.
THEOREM NeverAFault == Spec => []NoProtocolFault
<1>1. Init => NoProtocolFault
  BY SessionAssumption DEF Init, ClientInit, NoProtocolFault
<1>2. TypeOK /\ TypeOK' /\ RequestInv /\ NoProtocolFault /\ [Next]_vars => NoProtocolFault'
  <2> SUFFICES ASSUME TypeOK, TypeOK', RequestInv, NoProtocolFault, [Next]_vars PROVE NoProtocolFault'
    OBVIOUS
  <2>1. CASE ClientSide
    BY <2>1, ClientRequests DEF NoProtocolFault
  <2>2. CASE HostSide \/ UNCHANGED vars
    <3>1. closeReason' = closeReason
      BY <2>2 DEF HostSide, vars, clientVars
    <3> QED
      BY <3>1 DEF NoProtocolFault
  <2> QED
    BY <2>1, <2>2 DEF Next
<1> QED
  BY <1>1, <1>2, TypeCorrect, RequestsInOrder, PTL DEF Spec

\* What a client is told of a request is what the Host did: nothing for one it
\* calls not sent, interrupted or rejected, all of one it calls answered, the
\* operation's own outcome for a handle, and an operation the Host forgot is over.
THEOREM ToldTheTruth == Spec => []SettledTruthfully
<1>1. RequestInv => SettledTruthfully
  <2> SUFFICES ASSUME RequestInv, NEW r \in Requests
               PROVE  /\ call[r].status \in {"not_sent", "interrupted", "rejected"}
                            => r \notin applied /\ ops[r].state = "none"
                      /\ call[r].status = "result" /\ Method[r] = "write" => r \in applied
                      /\ handle[r].state # "none" => ops[r].state # "none"
                      /\ handle[r].state = "terminal"
                            => ops[r].state = "completed" /\ ops[r].outcome = handle[r].outcome
                      /\ call[r].status \in {"unavailable", "terminal"} => ops[call[r].of].state = "completed"
    BY DEF SettledTruthfully
  <2>1. /\ r \in applied => Method[r] = "write" /\ WasSent(r)
        /\ ops[r].state # "none" => Method[r] \in LongMethods /\ WasSent(r)
        /\ HandleOf(r)
        /\ call[r].status # "unused" => Believed(r)
    BY DEF RequestInv, Done, Handles, Beliefs
  <2>2. /\ Method[r] = "write" \/ Method[r] \in LongMethods => Method[r] \in Mutating /\ Method[r] # "initialize"
    BY DEF LongMethods, Mutating
  <2>3. call[r].status \in {"not_sent", "interrupted", "rejected"} => r \notin applied /\ ops[r].state = "none"
    BY <2>1, <2>2 DEF WasSent, Believed
  <2> QED
    BY <2>1, <2>3 DEF HandleOf, Believed
<1> QED
  BY <1>1, RequestsInOrder, PTL

\* What was settled stays settled, whatever arrives later: a request keeps the
\* answer its caller was given, a finished handle its outcome.
THEOREM SettledOnce == Spec => SettledForGood
<1> DEFINE Unsettled == \A r \in Requests :
        /\ call[r].status \notin {"unused", "pending"} => call'[r] = call[r]
        /\ handle[r].state \in {"terminal", "uncertain"} => handle'[r] = handle[r]
<1>1. TypeOK /\ [Next]_vars => Unsettled
  <2> SUFFICES ASSUME TypeOK, ClientSide, NEW r \in Requests
               PROVE  /\ call[r].status \notin {"unused", "pending"} => call'[r] = call[r]
                      /\ handle[r].state \in {"terminal", "uncertain"} => handle'[r] = handle[r]
    BY DEF Next, HostSide, vars, clientVars
  <2>1. call \in [Requests -> Call] /\ handle \in [Requests -> Handle]
    BY DEF TypeOK, ClientTypeOK
  <2>2. PICK c \in Connections :
        \/ \E q \in Requests : Initialize(c, q) \/ Request(c, q)
        \/ ClientReceive(c) \/ Close(c) \/ NoticeHostGone(c)
    BY DEF ClientSide, ClientNext
  <2>3. CASE \E q \in Requests : Initialize(c, q) \/ Request(c, q)
    BY <2>1, <2>3 DEF Initialize, Request, Dispatch
  <2>4. ASSUME NEW reason, TransitionClosed(c, reason)
        PROVE  /\ call[r].status \notin {"unused", "pending"} => call'[r] = call[r]
               /\ handle[r].state \in {"terminal", "uncertain"} => handle'[r] = handle[r]
    BY <2>4 DEF TransitionClosed, PendingOf, RunningOf
  <2>5. CASE ReceiveResponse(c)
    <3>1. CASE ResponseExpected(Incoming(c), c)
      <4>1. /\ call[Incoming(c).id].status = "pending"
            /\ Incoming(c).type = "accepted" => handle[Incoming(c).id].state = "none"
        BY <3>1 DEF ResponseExpected, PendingOf
      <4>2. \/ Incoming(c).id # r /\ call'[r] = call[r] /\ handle'[r] = handle[r]
            \/ Incoming(c).id = r /\ (Incoming(c).type # "accepted" => handle' = handle)
        BY <2>1, <2>5, <3>1 DEF ReceiveResponse
      <4> QED
        BY <4>1, <4>2
    <3>2. CASE ~ResponseExpected(Incoming(c), c)
      BY <2>4, <2>5, <3>2 DEF ReceiveResponse
    <3> QED
      BY <3>1, <3>2
  <2>6. CASE ReceiveRefusal(c)
    BY <2>1, <2>6 DEF ReceiveRefusal, ResponseExpected, PendingOf
  <2>7. CASE ReceiveNotification(c)
    <3>1. CASE NotificationExpected(Incoming(c), c)
      <4>1. handle[Incoming(c).id].state = "running" /\ call' = call
        BY <2>7, <3>1 DEF ReceiveNotification, NotificationExpected
      <4>2. Incoming(c).id # r => handle'[r] = handle[r]
        BY <2>1, <2>7, <3>1 DEF ReceiveNotification
      <4> QED
        BY <4>1, <4>2
    <3>2. CASE ~NotificationExpected(Incoming(c), c)
      BY <2>4, <2>7, <3>2 DEF ReceiveNotification
    <3> QED
      BY <3>1, <3>2
  <2>8. CASE Close(c) \/ NoticeHostGone(c)
    BY <2>4, <2>8 DEF Close, NoticeHostGone
  <2> QED
    BY <2>2, <2>3, <2>5, <2>6, <2>7, <2>8 DEF ClientReceive
<1>2. TypeOK /\ [Next]_vars => [Unsettled]_vars
  BY <1>1
<1> QED
  BY <1>2, TypeCorrect, PTL DEF Spec, SettledForGood

=============================================================================
