----------------------------- MODULE HostProcess -----------------------------
(* The utility process that carries the Host: HostProcessRuntime with its    *)
(* serial chain of commands, the restore after which it asks to be replaced, *)
(* and the ways a process ends.  The Desktop preferences a backup reads and  *)
(* a restore applies, and the diagnostics, are left out.                     *)
EXTENDS Naturals, Sequences, FiniteSets

CONSTANTS
    Hosts,      \* utility processes; one that is gone and silent may stand for a new one
    Requests,   \* control requests of the Desktop: paths, project roots, backup files
    None

ASSUME HostsAssumption ==
    /\ IsFiniteSet(Hosts) /\ IsFiniteSet(Requests)
    /\ None \notin Hosts \cup Requests \cup {"quit", "restore"}

VARIABLES
    host,       \* HostProcessRuntime of each process
    alive,      \* processes that run
    killed,     \* processes the Desktop has killed and that have not yet exited
    toHost,     \* commands posted to each process
    toDesktop   \* events posted by the processes

procVars == <<host, alive, killed, toHost, toDesktop>>

\* chain is the command the #handling chain awaits, restoring the one restore
\* there is at a time: accepted, or past the quiescence.
Runtime == [lifecycle : {"none", "ready", "draining", "stopped"},
            chain : {"free", "drain", "shutdown"}, restoring : {"none", "accepted", "running"}]
NewHost == [lifecycle |-> "none", chain |-> "free", restoring |-> "none"]

Commands == {"boot", "connect", "request", "drain", "shutdown"}
Events == {"ready", "failure", "answer", "replacement", "drained", "stopped"}
Ids == Requests \cup {None}

ProcessTypeOK ==
    /\ host \in [Hosts -> Runtime]
    /\ alive \subseteq Hosts /\ killed \subseteq Hosts
    /\ toHost \in [Hosts -> Seq([type : Commands, id : Ids])]
    /\ toDesktop \in Seq([from : Hosts, type : Events, id : Ids])

ProcessInit ==
    /\ host = [h \in Hosts |-> NewHost]
    /\ alive = {} /\ killed = {}
    /\ toHost = [h \in Hosts |-> <<>>]
    /\ toDesktop = <<>>

Event(h, type, id) == [from |-> h, type |-> type, id |-> id]
Post(h, type, id) == toDesktop' = Append(toDesktop, Event(h, type, id))
Report(h) == Post(h, "failure", None)

\* The next command of the chain, handled only when the one before it is over.
Command(h, type) ==
    /\ h \in alive /\ host[h].chain = "free" /\ toHost[h] # <<>>
    /\ Head(toHost[h]).type = type
    /\ toHost' = [toHost EXCEPT ![h] = Tail(@)]
    /\ UNCHANGED <<alive, killed>>

-----------------------------------------------------------------------------
Boot(h) ==
    /\ Command(h, "boot")
    /\ \/ host' = [host EXCEPT ![h].lifecycle = "ready"] /\ Post(h, "ready", None)
       \/ UNCHANGED host /\ Report(h)

\* A Host that drains, for a restore too, has no connection to give.
BindConnection(h) ==
    /\ Command(h, "connect")
    /\ IF host[h].lifecycle = "ready" THEN UNCHANGED toDesktop ELSE Report(h)
    /\ UNCHANGED host

\* register_local_path and its four relatives: answered, if only by a failure.
Answer(h) ==
    /\ Command(h, "request")
    /\ Post(h, "answer", Head(toHost[h]).id)
    /\ UNCHANGED host

\* drain and shutdown hold the chain until the restore is over, begun or not.
Close(h, type) ==
    /\ Command(h, type)
    /\ IF host[h].lifecycle = "none"
       THEN UNCHANGED host /\ Report(h)
       ELSE /\ host' = [host EXCEPT ![h].chain = type,
                           ![h].lifecycle = IF @ = "ready" THEN "draining" ELSE @]
            /\ UNCHANGED toDesktop

Drained(h) ==
    /\ h \in alive /\ host[h].chain = "drain" /\ host[h].restoring = "none"
    /\ host' = [host EXCEPT ![h].chain = "free"]
    /\ Post(h, "drained", None)
    /\ UNCHANGED <<alive, killed, toHost>>

\* The shutdown may fail, in the release of Core or before it; the process then
\* stays.  After a success it exits soon, but what is queued is still handled first.
Released(h) ==
    /\ h \in alive /\ host[h].chain = "shutdown" /\ host[h].restoring = "none"
    /\ \/ host' = [host EXCEPT ![h].chain = "free", ![h].lifecycle = "stopped"] /\ Post(h, "stopped", None)
       \/ host' = [host EXCEPT ![h].chain = "free"] /\ Report(h)
    /\ UNCHANGED <<alive, killed, toHost>>

\* A client activates a restore.
AcceptRestore(h) ==
    /\ h \in alive /\ host[h].lifecycle = "ready" /\ host[h].restoring = "none"
    /\ host' = [host EXCEPT ![h].restoring = "accepted"]
    /\ UNCHANGED <<alive, killed, toHost, toDesktop>>

\* beginExclusiveRestore: from here the Host accepts nothing more.  A Host that
\* drains meanwhile lets a restore it had accepted begin all the same.
BeginRestore(h) ==
    /\ h \in alive /\ host[h].restoring = "accepted" /\ host[h].lifecycle \in {"ready", "draining"}
    /\ host' = [host EXCEPT ![h].lifecycle = "draining", ![h].restoring = "running"]
    /\ UNCHANGED <<alive, killed, toHost, toDesktop>>

\* Mutant: a restore that failed asks for nothing.
EndRestoreQuietly(h) ==
    /\ h \in alive /\ host[h].restoring # "none"
    /\ host' = [host EXCEPT ![h].restoring = "none"]
    /\ UNCHANGED <<alive, killed, toHost, toDesktop>>

\* restoreRequiresHostReplacement, when a restore that had begun is over and even
\* if it failed; one that fails before its quiescence asks for nothing.
EndRestore(h) ==
    /\ h \in alive /\ host[h].restoring # "none"
    /\ host' = [host EXCEPT ![h].restoring = "none"]
    /\ IF host[h].restoring = "running" THEN Post(h, "replacement", None) ELSE UNCHANGED toDesktop
    /\ UNCHANGED <<alive, killed, toHost>>

\* The process ends: by itself after its shutdown, killed, or by a crash.
Dies(h) ==
    /\ h \in alive
    /\ alive' = alive \ {h}
    /\ killed' = killed \ {h}
    /\ host' = [host EXCEPT ![h] = [NewHost EXCEPT !.lifecycle = host[h].lifecycle]]
    /\ toHost' = [toHost EXCEPT ![h] = <<>>]
    /\ UNCHANGED toDesktop

HostSteps(h) ==
    \/ Boot(h) \/ BindConnection(h) \/ Answer(h)
    \/ Close(h, "drain") \/ Close(h, "shutdown") \/ Drained(h) \/ Released(h)
    \/ AcceptRestore(h) \/ BeginRestore(h) \/ EndRestore(h) \/ Dies(h)
=============================================================================
