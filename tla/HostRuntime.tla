----------------------------- MODULE HostRuntime -----------------------------
(* The App Server Host: ProductionHostRuntime, its ProtocolHostConnections   *)
(* and its HostOperationManager.  A step is a synchronous run of JavaScript: *)
(* the delivery of one message, one microtask, or the continuation of an     *)
(* await.                                                                    *)
EXTENDS Naturals, Sequences, FiniteSets

CONSTANTS
    Connections,     \* client connections, each opened at most once
    Requests,        \* request ids; a long request also names its operation
    Method,          \* the method a request calls
    MaxActive,       \* maximumActiveOperations
    MaxCompleted,    \* maximumCompletedOperations
    MaxProgress,     \* bound: progress events an operation reports
    Calls,           \* which of drain and shutdown the Host's owner may call
    TaskPerMessage,  \* a message is delivered only after the microtasks of
                     \* the previous one (a message port), or at any time
                     \* (a caller in the same process)
    None

Methods == {"initialize", "read", "write", "observe", "cancel", "compare", "work", "restore"}
LongMethods == {"compare", "work", "restore"}

ASSUME HostAssumption ==
    /\ Method \in [Requests -> Methods]
    /\ MaxActive \in Nat \ {0} /\ MaxCompleted \in Nat \ {0} /\ MaxProgress \in Nat
    /\ TaskPerMessage \in BOOLEAN /\ Calls \subseteq {"drain", "shutdown"}
    /\ {None, "drain", "shutdown"} \cap Requests = {}

VARIABLES
    lifecycle,       \* HostLifecycleState
    hostEnd,         \* the Host's end of each connection
    initialized,
    queue,           \* requests received and not handled, per connection
    ops,             \* operations by the id of the request that started them
    retained,        \* completedOrder: completed operations still stored
    applied,         \* immediate mutations carried out
    requestWaiters,  \* awaits of "no request is active"
    idleWaiters,     \* awaits of "no (other) operation is active"
    drainCall,       \* the drain command
    shutdownCall,    \* the one memoized shutdown
    restoreLock,     \* the file lock Core takes for a restore
    replacement,     \* restoreRequiresHostReplacement was signalled
    toHost,          \* messages on their way to the Host, per connection
    toClient,        \* messages on their way to the client, per connection
    clientEnd        \* the client's end of each connection

hostVars == <<lifecycle, hostEnd, initialized, queue, ops, retained, applied,
              requestWaiters, idleWaiters, drainCall, shutdownCall, restoreLock, replacement>>
channelVars == <<toHost, toClient, clientEnd>>

Waiters == Requests \cup {"drain", "shutdown"}

\* An abandoned operation is forgotten at once: it never leaves "none".
LiveStates == {"scheduled", "executing", "staging", "quiescing", "activating"}
Outcomes == {"complete", "failed", "cancelled", "capacity"}
Operation == [state : LiveStates \cup {"none", "completed"}, conn : Connections \cup {None},
              counted : BOOLEAN, cancel : BOOLEAN, seq : Nat, outcome : Outcomes \cup {None}]
NoOperation == [state |-> "none", conn |-> None, counted |-> FALSE, cancel |-> FALSE,
                seq |-> 0, outcome |-> None]
Observations == {"unavailable", "running", "terminal"}

RequestMessage == [id : Requests, of : Requests]
ClientMessage ==
         [type : {"result", "rejected", "accepted"}, id : Requests]
    \cup [type : {"observed"}, id : Requests, events : Observations]
    \cup [type : {"progress"}, id : Requests, seq : Nat]
    \cup [type : {"terminal"}, id : Requests, seq : Nat, outcome : Outcomes]

HostTypeOK ==
    /\ lifecycle \in {"ready", "draining", "stopped"}
    /\ hostEnd \in [Connections -> {"absent", "open", "closed"}]
    /\ initialized \in [Connections -> BOOLEAN]
    /\ queue \in [Connections -> Seq(RequestMessage)]
    /\ ops \in [Requests -> Operation]
    /\ retained \in Seq(Requests) /\ Len(retained) <= MaxCompleted
    /\ applied \subseteq Requests
    /\ requestWaiters \subseteq Waiters
    /\ idleWaiters \subseteq Waiters
    /\ drainCall \in {"none", "waiting", "done"}
    /\ shutdownCall \in {"none", "waiting", "releasing", "done", "failed"}
    /\ restoreLock \in Requests \cup {None}
    /\ replacement \in BOOLEAN
    /\ toHost \in [Connections -> Seq(RequestMessage)]
    /\ toClient \in [Connections -> Seq(ClientMessage)]
    /\ clientEnd \in [Connections -> {"open", "closed"}]

HostInit ==
    /\ lifecycle = "ready"
    /\ hostEnd = [c \in Connections |-> "absent"]
    /\ initialized = [c \in Connections |-> FALSE]
    /\ queue = [c \in Connections |-> <<>>]
    /\ ops = [r \in Requests |-> NoOperation]
    /\ retained = <<>>
    /\ applied = {}
    /\ requestWaiters = {} /\ idleWaiters = {}
    /\ drainCall = "none" /\ shutdownCall = "none"
    /\ restoreLock = None
    /\ replacement = FALSE

-----------------------------------------------------------------------------
\* What the steps below share.

Live(r) == ops[r].state \in LiveStates
\* Mutant: a restore counts itself among the operations it waits for.
ActiveWithSelf(w) == {r \in Requests : Live(r) /\ ops[r].counted}

\* activeCountExcluding: w is an operation, or a drain that excludes none.
Active(w) == {r \in Requests : Live(r) /\ ops[r].counted /\ r # w}
Busy == \E c \in Connections : queue[c] # <<>>

\* No microtask of an earlier task is left.
Quiet == ~Busy /\ \A r \in Requests : ops[r].state # "scheduled"
TaskMayBegin == TaskPerMessage => Quiet

\* What a message sent to c adds to the channel: nothing once an end is closed.
Sent(c, m) == IF hostEnd[c] = "open" /\ clientEnd[c] = "open"
              THEN [toClient EXCEPT ![c] = Append(@, m)] ELSE toClient

\* Mutant: only requests are awaited.
BeginWaitForRequests(w) ==
    /\ requestWaiters' = IF Busy THEN requestWaiters \cup {w} ELSE requestWaiters
    /\ UNCHANGED idleWaiters

BeginWait(w) ==
    /\ requestWaiters' = IF Busy THEN requestWaiters \cup {w} ELSE requestWaiters
    /\ idleWaiters' = IF Active(w) # {} THEN idleWaiters \cup {w} ELSE idleWaiters
WaitOver(w) == w \notin requestWaiters \cup idleWaiters

\* The finally of a handled request: the last one releases who awaits requests.
FinishRequest(c) ==
    /\ queue' = [queue EXCEPT ![c] = Tail(@)]
    /\ requestWaiters' = IF \A d \in Connections : queue'[d] = <<>> THEN {} ELSE requestWaiters

\* evictCompleted: the oldest completed operations beyond the bound go.
Retain(r) == LET order == Append(retained, r) IN
    IF Len(order) > MaxCompleted THEN Tail(order) ELSE order

\* Mutant: the terminal event repeats the number of the last progress.
CompleteSameSequence(r, outcome) ==
    LET op == ops[r] IN
    /\ ops' = [ops EXCEPT ![r].state = "completed", ![r].outcome = outcome]
    /\ retained' = Retain(r)
    /\ idleWaiters' = IF op.counted THEN {w \in idleWaiters : Active(w) \ {r} # {}} ELSE idleWaiters
    /\ toClient' = Sent(op.conn, [type |-> "terminal", id |-> r, seq |-> op.seq, outcome |-> outcome])

\* Mutant: the waiters are not told.
CompleteWithoutWaking(r, outcome) ==
    LET op == ops[r] IN
    /\ ops' = [ops EXCEPT ![r].state = "completed", ![r].seq = @ + 1, ![r].outcome = outcome]
    /\ retained' = Retain(r)
    /\ UNCHANGED idleWaiters
    /\ toClient' = Sent(op.conn, [type |-> "terminal", id |-> r, seq |-> op.seq + 1, outcome |-> outcome])

\* complete: the terminal event is stored, the waiters see the operation gone,
\* the client is told.
Complete(r, outcome) ==
    LET op == ops[r] IN
    /\ ops' = [ops EXCEPT ![r].state = "completed", ![r].seq = @ + 1, ![r].outcome = outcome]
    /\ retained' = Retain(r)
    /\ idleWaiters' = IF op.counted THEN {w \in idleWaiters : Active(w) \ {r} # {}} ELSE idleWaiters
    /\ toClient' = Sent(op.conn, [type |-> "terminal", id |-> r, seq |-> op.seq + 1, outcome |-> outcome])

-----------------------------------------------------------------------------
\* Connections and requests.

OpenConnection(c) ==
    /\ lifecycle = "ready" /\ hostEnd[c] = "absent"
    /\ hostEnd' = [hostEnd EXCEPT ![c] = "open"]
    /\ UNCHANGED <<lifecycle, initialized, queue, ops, retained, applied, requestWaiters, idleWaiters,
                   drainCall, shutdownCall, restoreLock, replacement, channelVars>>

\* Mutant: requests are taken while the Host drains.
ReceiveWhileDraining(c) ==
    /\ toHost[c] # <<>> /\ TaskMayBegin
    /\ toHost' = [toHost EXCEPT ![c] = Tail(@)]
    /\ IF hostEnd[c] = "open"
       THEN queue' = [queue EXCEPT ![c] = Append(@, Head(toHost[c]))] ELSE UNCHANGED queue
    /\ UNCHANGED <<lifecycle, hostEnd, initialized, ops, retained, applied, requestWaiters, idleWaiters,
                   drainCall, shutdownCall, restoreLock, replacement, toClient, clientEnd>>

\* receive: a request is queued, or the connection closes on it when the Host
\* takes no more work.
Receive(c) ==
    /\ toHost[c] # <<>> /\ TaskMayBegin
    /\ toHost' = [toHost EXCEPT ![c] = Tail(@)]
    /\ IF hostEnd[c] = "open" /\ lifecycle = "ready"
       THEN queue' = [queue EXCEPT ![c] = Append(@, Head(toHost[c]))] ELSE UNCHANGED queue
    /\ hostEnd' = IF lifecycle = "ready" THEN hostEnd ELSE [hostEnd EXCEPT ![c] = "closed"]
    /\ UNCHANGED <<lifecycle, initialized, ops, retained, applied, requestWaiters, idleWaiters,
                   drainCall, shutdownCall, restoreLock, replacement, toClient, clientEnd>>

\* The port's close event: the client went away.
NoticeClientGone(c) ==
    /\ hostEnd[c] = "open" /\ clientEnd[c] = "closed"
    /\ hostEnd' = [hostEnd EXCEPT ![c] = "closed"]
    /\ UNCHANGED <<lifecycle, initialized, queue, ops, retained, applied, requestWaiters, idleWaiters,
                   drainCall, shutdownCall, restoreLock, replacement, channelVars>>

\* handle, for a connection that closed after the request was queued.
HandleClosed(c) ==
    /\ queue[c] # <<>> /\ hostEnd[c] # "open"
    /\ FinishRequest(c)
    /\ UNCHANGED <<lifecycle, hostEnd, initialized, ops, retained, applied, idleWaiters,
                   drainCall, shutdownCall, restoreLock, replacement, channelVars>>

\* handle of initialize: refused when the versions do not match.  The other
\* refusals (a malformed envelope, a reused id, a request before initialize)
\* are not among the requests a ClientConnection sends.
HandleInitialize(c) ==
    /\ queue[c] # <<>> /\ hostEnd[c] = "open" /\ Method[Head(queue[c]).id] = "initialize"
    /\ \E compatible \in BOOLEAN :
          /\ initialized' = [initialized EXCEPT ![c] = compatible]
          /\ toClient' = Sent(c, [type |-> IF compatible THEN "result" ELSE "rejected", id |-> Head(queue[c]).id])
    /\ FinishRequest(c)
    /\ UNCHANGED <<lifecycle, hostEnd, ops, retained, applied, idleWaiters, drainCall, shutdownCall,
                   restoreLock, replacement, toHost, clientEnd>>

\* observe: what the operation manager still stores of an operation.
Observation(r) == CASE Live(r) -> "running"
                    [] \E i \in DOMAIN retained : retained[i] = r -> "terminal"
                    [] OTHER -> "unavailable"

\* handle of what is answered at once: a query, a mutation, operation.observe
\* and operation.cancel, which only a running comparison takes.
HandleImmediate(c) ==
    LET m == Head(queue[c]) IN
    /\ queue[c] # <<>> /\ hostEnd[c] = "open" /\ initialized[c]
    /\ Method[m.id] \in {"read", "write", "observe", "cancel"}
    /\ applied' = IF Method[m.id] = "write" THEN applied \cup {m.id} ELSE applied
    /\ ops' = IF Method[m.id] = "cancel" /\ Method[m.of] = "compare" /\ Live(m.of)
              THEN [ops EXCEPT ![m.of].cancel = TRUE] ELSE ops
    /\ toClient' = Sent(c, IF Method[m.id] = "observe"
                           THEN [type |-> "observed", id |-> m.id, events |-> Observation(m.of)]
                           ELSE [type |-> "result", id |-> m.id])
    /\ FinishRequest(c)
    /\ UNCHANGED <<lifecycle, hostEnd, initialized, retained, idleWaiters, drainCall, shutdownCall,
                   restoreLock, replacement, toHost, clientEnd>>

\* startLong: reserve, acknowledge, start.  Where the acknowledgement cannot
\* be sent (only a transport whose client is gone throws) the reservation is
\* abandoned and the connection closes.
HandleLong(c) ==
    LET r == Head(queue[c]).id IN
    /\ queue[c] # <<>> /\ hostEnd[c] = "open" /\ initialized[c]
    /\ Method[r] \in LongMethods
    /\ \/ /\ ops' = [ops EXCEPT ![r] = [NoOperation EXCEPT
                        !.state = "scheduled", !.conn = c, !.counted = Cardinality(Active(None)) < MaxActive]]
          /\ toClient' = Sent(c, [type |-> "accepted", id |-> r])
          /\ UNCHANGED <<hostEnd, idleWaiters>>
       \/ /\ clientEnd[c] = "closed"
          /\ hostEnd' = [hostEnd EXCEPT ![c] = "closed"]
          /\ idleWaiters' = {w \in idleWaiters : Active(w) # {}}
          /\ UNCHANGED <<ops, toClient>>
    /\ FinishRequest(c)
    /\ UNCHANGED <<lifecycle, initialized, retained, applied, drainCall, shutdownCall,
                   restoreLock, replacement, toHost, clientEnd>>

-----------------------------------------------------------------------------
\* Operations.

\* The microtask start queued: an operation over the bound fails at once.
Begin(r) ==
    /\ ops[r].state = "scheduled"
    /\ IF ops[r].counted
       THEN /\ ops' = [ops EXCEPT ![r].state = "executing"]
            /\ UNCHANGED <<retained, idleWaiters, toClient>>
       ELSE Complete(r, "capacity")
    /\ UNCHANGED <<lifecycle, hostEnd, initialized, queue, applied, requestWaiters, drainCall,
                   shutdownCall, restoreLock, replacement, toHost, clientEnd>>

\* reportProgress, at any moment of a running operation.
Progress(r) ==
    /\ Live(r) /\ ops[r].state # "scheduled" /\ ops[r].seq < MaxProgress
    /\ ops' = [ops EXCEPT ![r].seq = @ + 1]
    /\ toClient' = Sent(ops[r].conn, [type |-> "progress", id |-> r, seq |-> ops[r].seq + 1])
    /\ UNCHANGED <<lifecycle, hostEnd, initialized, queue, retained, applied, requestWaiters, idleWaiters,
                   drainCall, shutdownCall, restoreLock, replacement, toHost, clientEnd>>

\* The operation ends: Core answered, failed, or saw the cancellation it polls.
End(r) ==
    /\ ops[r].state = "executing"
    /\ \E outcome \in {"complete", "failed", "cancelled"} :
          /\ Method[r] = "restore" => outcome = "failed"
          /\ outcome = "cancelled" => ops[r].cancel
          /\ Complete(r, outcome)
    /\ UNCHANGED <<lifecycle, hostEnd, initialized, queue, applied, requestWaiters, drainCall,
                   shutdownCall, restoreLock, replacement, toHost, clientEnd>>

\* activateStateRestore up to the staged candidate: without the lock it fails (End).
StageRestore(r) ==
    /\ ops[r].state = "executing" /\ Method[r] = "restore" /\ restoreLock = None
    /\ ops' = [ops EXCEPT ![r].state = "staging"]
    /\ restoreLock' = r
    /\ UNCHANGED <<lifecycle, hostEnd, initialized, queue, retained, applied, requestWaiters, idleWaiters,
                   drainCall, shutdownCall, replacement, channelVars>>

\* quiesceMutations: beginExclusiveRestore stops new work and waits for the rest.
QuiesceRestore(r) ==
    /\ ops[r].state = "staging" /\ lifecycle # "stopped" /\ TaskMayBegin
    /\ lifecycle' = "draining"
    /\ BeginWait(r)
    /\ ops' = [ops EXCEPT ![r].state = "quiescing"]
    /\ UNCHANGED <<hostEnd, initialized, queue, retained, applied, drainCall, shutdownCall,
                   restoreLock, replacement, channelVars>>

\* The wait is over: the database closes and the state directory is replaced.
ActivateRestore(r) ==
    /\ ops[r].state = "quiescing" /\ WaitOver(r)
    /\ ops' = [ops EXCEPT ![r].state = "activating"]
    /\ UNCHANGED <<lifecycle, hostEnd, initialized, queue, retained, applied, requestWaiters, idleWaiters,
                   drainCall, shutdownCall, restoreLock, replacement, channelVars>>

\* A restore that took the lock ends and releases it; past the quiescence the
\* Host asks to be replaced, whatever the outcome.
EndRestore(r) ==
    /\ ops[r].state \in {"staging", "activating"}
    /\ \E outcome \in {"complete", "failed"} :
          /\ ops[r].state = "staging" => outcome = "failed"
          /\ Complete(r, outcome)
    /\ restoreLock' = None
    /\ replacement' = (replacement \/ ops[r].state = "activating")
    /\ UNCHANGED <<lifecycle, hostEnd, initialized, queue, applied, requestWaiters, drainCall,
                   shutdownCall, toHost, clientEnd>>

-----------------------------------------------------------------------------
\* Draining and shutdown.

Drain ==
    /\ "drain" \in Calls /\ drainCall = "none" /\ TaskMayBegin
    /\ IF lifecycle = "stopped"
       THEN drainCall' = "done" /\ UNCHANGED <<lifecycle, requestWaiters, idleWaiters>>
       ELSE /\ drainCall' = "waiting" /\ lifecycle' = "draining"
            /\ BeginWait("drain")
    /\ UNCHANGED <<hostEnd, initialized, queue, ops, retained, applied, shutdownCall, restoreLock,
                   replacement, channelVars>>

Drained ==
    /\ drainCall = "waiting" /\ WaitOver("drain")
    /\ drainCall' = "done"
    /\ UNCHANGED <<lifecycle, hostEnd, initialized, queue, ops, retained, applied, requestWaiters,
                   idleWaiters, shutdownCall, restoreLock, replacement, channelVars>>

Shutdown ==
    /\ "shutdown" \in Calls /\ shutdownCall = "none" /\ TaskMayBegin
    /\ shutdownCall' = "waiting" /\ lifecycle' = "draining"
    /\ BeginWait("shutdown")
    /\ UNCHANGED <<hostEnd, initialized, queue, ops, retained, applied, drainCall, restoreLock,
                   replacement, channelVars>>

\* completeShutdown past the drain: every connection closes, the review
\* records go, and the release of Core begins.
CloseConnections ==
    /\ shutdownCall = "waiting" /\ WaitOver("shutdown")
    /\ shutdownCall' = "releasing"
    /\ hostEnd' = [c \in Connections |-> IF hostEnd[c] = "open" THEN "closed" ELSE hostEnd[c]]
    /\ UNCHANGED <<lifecycle, initialized, queue, ops, retained, applied, requestWaiters, idleWaiters,
                   drainCall, restoreLock, replacement, channelVars>>

\* The release of Core ends; where it fails the Host never reaches "stopped".  The
\* review records failed to close where the Host stops and the call fails.
ReleaseCore ==
    /\ shutdownCall = "releasing"
    /\ \/ shutdownCall' \in {"done", "failed"} /\ lifecycle' = "stopped"
       \/ shutdownCall' = "failed" /\ UNCHANGED lifecycle
    /\ UNCHANGED <<hostEnd, initialized, queue, ops, retained, applied, requestWaiters, idleWaiters,
                   drainCall, restoreLock, replacement, channelVars>>

-----------------------------------------------------------------------------
HandleStep(c) == \/ HandleClosed(c) \/ HandleInitialize(c)
                 \/ HandleImmediate(c) \/ HandleLong(c)
OperationStep(r) == \/ Begin(r) \/ Progress(r) \/ End(r) \/ StageRestore(r)
                    \/ QuiesceRestore(r) \/ ActivateRestore(r) \/ EndRestore(r)
CallStep == Drain \/ Drained \/ Shutdown \/ CloseConnections \/ ReleaseCore

HostNext ==
    \/ \E c \in Connections : \/ OpenConnection(c) \/ Receive(c) \/ NoticeClientGone(c)
                              \/ HandleStep(c)
    \/ \E r \in Requests : OperationStep(r)
    \/ CallStep
==============================================================================
