----------------------------- MODULE HostSession -----------------------------
(* The Host and its clients: HostRuntime and ClientConnection over their     *)
(* channels.                                                                 *)
EXTENDS HostRuntime

VARIABLES clientState, closeReason, call, handle

INSTANCE ClientConnection

\* A connection that did not close has no reason to.
ASSUME SessionAssumption == None \notin {"local", "transport", "protocol", "initialization_failed"}

clientVars == <<clientState, closeReason, call, handle>>
vars == <<hostVars, channelVars, clientVars>>

TypeOK == HostTypeOK /\ ClientTypeOK

Init ==
    /\ HostInit /\ ClientInit
    /\ toHost = [c \in Connections |-> <<>>]
    /\ toClient = [c \in Connections |-> <<>>]
    /\ clientEnd = [c \in Connections |-> "open"]

HostSide == HostNext /\ UNCHANGED clientVars
ClientSide ==
    /\ ClientNext
    /\ UNCHANGED <<lifecycle, initialized, queue, ops, retained, applied, requestWaiters,
                   idleWaiters, drainCall, shutdownCall, restoreLock, replacement>>
Next == HostSide \/ ClientSide

Spec == Init /\ [][Next]_vars

\* The event loops of both sides turn, messages and close events arrive, and
\* every operation ends.  Nothing obliges a client to ask, to close, or a Host
\* to report progress; a Host that is asked to drain is not obliged to be asked.
Fairness ==
    /\ \A c \in Connections :
          /\ WF_vars((Receive(c) \/ NoticeClientGone(c)) /\ UNCHANGED clientVars)
          /\ WF_vars(HandleStep(c) /\ UNCHANGED clientVars)
          /\ WF_vars((ClientReceive(c) \/ NoticeHostGone(c)) /\ UNCHANGED hostVars)
    /\ \A r \in Requests :
          /\ WF_vars((Begin(r) \/ End(r) \/ QuiesceRestore(r)) /\ UNCHANGED clientVars)
          /\ WF_vars((ActivateRestore(r) \/ EndRestore(r)) /\ UNCHANGED clientVars)
    /\ WF_vars((Drained \/ CloseConnections \/ ReleaseCore) /\ UNCHANGED clientVars)
FairSpec == Spec /\ Fairness

-----------------------------------------------------------------------------
\* What goes wrong when the order of messages, microtasks and waits is wrong.

Idle == ~Busy /\ \A r \in Requests : ~Live(r)

\* A drain is over, and the release of Core begins, only when no request is
\* queued and no operation runs: nothing is left that could use Core.
DrainedIdle ==
    (drainCall = "done" \/ shutdownCall \in {"releasing", "done", "failed"}) => Idle

\* While a restore replaces the state directory it is alone: no other operation
\* runs, no request is about to be handled, no second restore holds the lock.
RestoreAlone == \A r \in Requests : ops[r].state = "activating" =>
    /\ restoreLock = r /\ ~Busy
    /\ \A s \in Requests \ {r} : ~Live(s)

\* The Host never sends what its client takes for a violation of the Protocol:
\* an event before its acknowledgement, out of order or after the end, or a
\* second answer.
NoProtocolFault == \A c \in Connections : closeReason[c] # "protocol"

\* What a client is told of a request is what the Host did.  A request not
\* sent, interrupted or rejected changed nothing; an answered one was done; a
\* terminal outcome is the operation's; and an operation the Host no longer
\* knows is over, so that its client need not wait for it.
SettledTruthfully == \A r \in Requests :
    /\ call[r].status \in {"not_sent", "interrupted", "rejected"} => r \notin applied /\ ops[r].state = "none"
    /\ call[r].status = "result" /\ Method[r] = "write" => r \in applied
    /\ handle[r].state # "none" => ops[r].state # "none"
    /\ handle[r].state = "terminal" => ops[r].state = "completed" /\ ops[r].outcome = handle[r].outcome
    /\ call[r].status \in {"unavailable", "terminal"} => ops[call[r].of].state = "completed"

\* What was settled stays settled: a late answer or event, after the connection
\* closed, changes nothing the client was told.
SettledForGood == [][\A r \in Requests :
    /\ call[r].status \notin {"unused", "pending"} => call'[r] = call[r]
    /\ handle[r].state \in {"terminal", "uncertain"} => handle'[r] = handle[r]]_vars

\* Every request is answered or given up, every accepted operation's handle
\* ends, whatever closes meanwhile.
EverySettled == \A r \in Requests :
    /\ call[r].status = "pending" ~> call[r].status # "pending"
    /\ handle[r].state = "running" ~> handle[r].state # "running"

\* A shutdown comes to its end, though a restore may be waiting for the same
\* operations, and a restore never waits for another.
ShutdownEnds == shutdownCall = "waiting" ~> shutdownCall \in {"done", "failed"}
RestoreEnds == \A r \in Requests : ops[r].state = "quiescing" ~> ops[r].state = "completed"

-----------------------------------------------------------------------------
(* Why the drain and the restore find the Host idle, where a message waits   *)
(* for the microtasks of the one before it: when the Host stops taking work  *)
(* nothing is queued or about to start, so from then on operations only end, *)
(* and a wait that is over has seen the last of them.                        *)
Waiting(w) ==
    \/ w = "drain" /\ drainCall = "waiting"
    \/ w = "shutdown" /\ shutdownCall = "waiting"
    \/ w \in Requests /\ ops[w].state = "quiescing"
Asked(w) ==
    \/ w = "drain" /\ drainCall # "none"
    \/ w = "shutdown" /\ shutdownCall # "none"
    \/ w \in Requests /\ ops[w].state \in {"quiescing", "activating"}

LockHolders == \A r \in Requests :
    ops[r].state \in {"staging", "quiescing", "activating"} => restoreLock = r
Counted == \A r \in Requests : Live(r) /\ ops[r].state # "scheduled" => ops[r].counted
NoMoreWork ==
    /\ lifecycle # "ready" => Quiet
    /\ lifecycle = "stopped" => shutdownCall \in {"done", "failed"}
    /\ \A w \in Waiters : Asked(w) => lifecycle # "ready"
WaitsEnd ==
    /\ \A w \in idleWaiters : Waiting(w)
    /\ \A w \in Waiters \ idleWaiters : Asked(w) => \A s \in Requests \ {w} : ~Live(s)

QuiesceInv == HostTypeOK /\ LockHolders /\ Counted /\ NoMoreWork /\ WaitsEnd
==============================================================================
