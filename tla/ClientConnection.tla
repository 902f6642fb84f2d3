-------------------------- MODULE ClientConnection --------------------------
(* The client's end of a connection to the Host: ClientConnection with its   *)
(* pending requests and its handles of accepted long operations.  All the    *)
(* clients of one Host are here, one per connection.                         *)
EXTENDS Naturals, Sequences

CONSTANTS Connections, Requests, Method, None

\* deliveryAfterSend: of these the Host may have done the work.
Mutating == {"compare", "work", "restore", "write", "cancel"}

VARIABLES
    clientState,   \* ClientConnectionState
    closeReason,   \* why it closed
    call,          \* what became of each request, and whose it is
    handle,        \* handles of accepted operations
    toHost, toClient, hostEnd, clientEnd

Answers == {"result", "accepted", "rejected", "unavailable", "running", "terminal"}
Deliveries == {"not_sent", "uncertain", "interrupted"}
Call == [status : {"unused", "pending"} \cup Answers \cup Deliveries,
         conn : Connections \cup {None}, of : Requests \cup {None}]
Handle == [state : {"none", "running", "terminal", "uncertain"}, seq : Nat,
           outcome : {"complete", "failed", "cancelled", "capacity", None}]
NoHandle == [state |-> "none", seq |-> 0, outcome |-> None]

ClientTypeOK ==
    /\ clientState \in [Connections -> {"created", "initializing", "ready", "closed"}]
    /\ closeReason \in [Connections -> {"local", "transport", "protocol", "initialization_failed", None}]
    /\ call \in [Requests -> Call]
    /\ handle \in [Requests -> Handle]

ClientInit ==
    /\ clientState = [c \in Connections |-> "created"]
    /\ closeReason = [c \in Connections |-> None]
    /\ call = [r \in Requests |-> [status |-> "unused", conn |-> None, of |-> None]]
    /\ handle = [r \in Requests |-> NoHandle]

\* Mutant: accepted operations are not settled with their connection.
RunningOfNone(c) == {}
\* Mutant: finished handles are settled again.
RunningOfAll(c) == {r \in Requests : handle[r].state # "none" /\ call[r].conn = c}

PendingOf(c) == {r \in Requests : call[r].status = "pending" /\ call[r].conn = c}
RunningOf(c) == {r \in Requests : handle[r].state = "running" /\ call[r].conn = c}

-----------------------------------------------------------------------------
\* dispatch: the request is pending, or the transport throws and it is settled
\* as not sent.
Dispatch(c, r, of) ==
    \/ /\ call' = [call EXCEPT ![r] = [status |-> "pending", conn |-> c, of |-> of]]
       /\ toHost' = [toHost EXCEPT ![c] = Append(@, [id |-> r, of |-> of])]
    \/ /\ call' = [call EXCEPT ![r] = [status |-> "not_sent", conn |-> c, of |-> of]]
       /\ UNCHANGED toHost

\* Mutant: every lost request counts as a query.
LostAsQuery(r) == "interrupted"

\* transitionClosed: every pending request and every unfinished handle is
\* settled, none of them as "not sent".
Lost(r) == IF Method[r] \in Mutating THEN "uncertain" ELSE "interrupted"
TransitionClosed(c, reason) ==
    /\ clientState' = [clientState EXCEPT ![c] = "closed"]
    /\ closeReason' = [closeReason EXCEPT ![c] = reason]
    /\ clientEnd' = [clientEnd EXCEPT ![c] = "closed"]
    /\ call' = [r \in Requests |-> IF r \in PendingOf(c) THEN [call[r] EXCEPT !.status = Lost(r)] ELSE call[r]]
    /\ handle' = [r \in Requests |-> IF r \in RunningOf(c) THEN [handle[r] EXCEPT !.state = "uncertain"] ELSE handle[r]]

\* initialize: the connection waits for the answer; not sent, it may be tried again.
Initialize(c, r) ==
    /\ hostEnd[c] # "absent" /\ clientState[c] = "created"
    /\ call[r].status = "unused" /\ Method[r] = "initialize"
    /\ Dispatch(c, r, r)
    /\ clientState' = IF call'[r].status = "pending" THEN [clientState EXCEPT ![c] = "initializing"] ELSE clientState
    /\ UNCHANGED <<closeReason, handle, toClient, clientEnd, hostEnd>>

\* request and start; observe and cancel name an operation the client holds.
Request(c, r) ==
    /\ clientState[c] = "ready" /\ call[r].status = "unused" /\ Method[r] # "initialize"
    /\ \E of \in Requests :
          /\ IF Method[r] \in {"observe", "cancel"}
             THEN handle[of].state # "none" /\ call[of].conn = c ELSE of = r
          /\ Dispatch(c, r, of)
    /\ UNCHANGED <<clientState, closeReason, handle, toClient, clientEnd, hostEnd>>

-----------------------------------------------------------------------------
\* receive: what the client believes to be impossible closes the connection.
Incoming(c) == Head(toClient[c])
Arrives(c) == clientState[c] # "closed" /\ toClient[c] # <<>>
Consumed(c) == toClient' = [toClient EXCEPT ![c] = Tail(@)]

IsResponse(m) == m.type \in {"result", "rejected", "accepted", "observed"}
ResponseExpected(m, c) == m.id \in PendingOf(c) /\ (m.type = "accepted" => handle[m.id].state = "none")
NotificationExpected(m, c) ==
    /\ clientState[c] = "ready"
    /\ handle[m.id].state = "running" /\ call[m.id].conn = c
    /\ m.seq > handle[m.id].seq

\* receiveResponse.
ReceiveResponse(c) ==
    LET m == Incoming(c)
        initializes == Method[m.id] = "initialize" IN
    /\ Arrives(c) /\ IsResponse(m) /\ ~(initializes /\ m.type = "rejected")
    /\ Consumed(c)
    /\ IF ResponseExpected(m, c)
       THEN /\ call' = [call EXCEPT ![m.id].status = IF m.type = "observed" THEN m.events ELSE m.type]
            /\ handle' = IF m.type = "accepted" THEN [handle EXCEPT ![m.id].state = "running"] ELSE handle
            /\ clientState' = IF initializes THEN [clientState EXCEPT ![c] = "ready"] ELSE clientState
            /\ UNCHANGED <<closeReason, clientEnd>>
       ELSE TransitionClosed(c, "protocol")
    /\ UNCHANGED <<toHost, hostEnd>>

\* A refused initialize closes the connection.
ReceiveRefusal(c) ==
    LET m == Incoming(c) IN
    /\ Arrives(c) /\ m.type = "rejected" /\ Method[m.id] = "initialize" /\ ResponseExpected(m, c)
    /\ Consumed(c)
    /\ clientState' = [clientState EXCEPT ![c] = "closed"]
    /\ closeReason' = [closeReason EXCEPT ![c] = "initialization_failed"]
    /\ clientEnd' = [clientEnd EXCEPT ![c] = "closed"]
    /\ call' = [call EXCEPT ![m.id].status = "rejected"]
    /\ UNCHANGED <<handle, toHost, hostEnd>>

\* receiveNotification: progress, and the one terminal outcome of a handle.
ReceiveNotification(c) ==
    LET m == Incoming(c) IN
    /\ Arrives(c) /\ ~IsResponse(m)
    /\ Consumed(c)
    /\ IF NotificationExpected(m, c)
       THEN /\ handle' = [handle EXCEPT ![m.id] =
                            IF m.type = "terminal"
                            THEN [state |-> "terminal", seq |-> m.seq, outcome |-> m.outcome]
                            ELSE [@ EXCEPT !.seq = m.seq]]
            /\ UNCHANGED <<clientState, closeReason, call, clientEnd>>
       ELSE TransitionClosed(c, "protocol")
    /\ UNCHANGED <<toHost, hostEnd>>

\* close, by the user of the client.
Close(c) ==
    /\ clientState[c] # "closed" /\ hostEnd[c] # "absent"
    /\ TransitionClosed(c, "local")
    /\ UNCHANGED <<toHost, toClient, hostEnd>>

\* The transport reports that the Host closed its end; what was still on its
\* way may be lost.
NoticeHostGone(c) ==
    /\ clientState[c] # "closed" /\ hostEnd[c] = "closed"
    /\ TransitionClosed(c, "transport")
    /\ UNCHANGED <<toHost, toClient, hostEnd>>

ClientReceive(c) == ReceiveResponse(c) \/ ReceiveRefusal(c) \/ ReceiveNotification(c)
ClientNext == \E c \in Connections :
    \/ \E r \in Requests : Initialize(c, r) \/ Request(c, r)
    \/ ClientReceive(c) \/ Close(c) \/ NoticeHostGone(c)
==============================================================================
