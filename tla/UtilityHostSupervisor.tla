------------------------ MODULE UtilityHostSupervisor ------------------------
(* The Desktop's owner of the Host process: UtilityHostSupervisor.  A        *)
(* supervisor call is one step, the delivery failures and refused kills it   *)
(* may meet included.  An event that does not parse is never sent by the     *)
(* process of HostProcess and is left out.                                   *)
EXTENDS HostProcess

VARIABLES
    sup,        \* the fields of the supervisor
    attempts    \* history: starts since the last call of the user or the last ready Host

supVars == <<sup, attempts>>

Supervisor ==
    [state : {"stopped", "starting", "ready", "draining", "failed"},
     process : Hosts \cup {None},
     stopPurpose : {"quit", "restore", None},
     acknowledged : BOOLEAN, replacementUsed : BOOLEAN, cycleTerminal : BOOLEAN,
     timers : SUBSET {"check", "deadline"},
     request : [Requests -> Hosts \cup {None}]]

SupervisorTypeOK ==
    /\ sup \in Supervisor
    /\ attempts \in Nat
    /\ sup.timers # {} => sup.state = "starting"

SupervisorInit ==
    /\ sup = [state |-> "stopped", process |-> None, stopPurpose |-> None,
              acknowledged |-> FALSE, replacementUsed |-> FALSE, cycleTerminal |-> FALSE,
              timers |-> {}, request |-> [r \in Requests |-> None]]
    /\ attempts = 0

Failed(s) == [s EXCEPT !.state = "failed", !.timers = {}]
\* rejectTerminatedRequests
RejectAll(s) == [s EXCEPT !.request = [r \in Requests |-> IF @[r] = s.process THEN None ELSE @[r]]]
\* A message posted to a process that is gone is lost.
Deliver(h, type, id) ==
    toHost' = IF h \in alive THEN [toHost EXCEPT ![h] = Append(@, [type |-> type, id |-> id])] ELSE toHost

-----------------------------------------------------------------------------
\* terminateFailedProcess: kill, and wait for the exit.  A kill that is refused,
\* as one of a process just gone may be, ends the startup cycle.
Terminate(s) ==
    \/ /\ killed' = killed \cup ({s.process} \cap alive)
       /\ sup' = IF s.cycleTerminal THEN s
                 ELSE [s EXCEPT !.timers = @ \ {"check"}, !.state = "starting"]
    \/ /\ UNCHANGED killed
       /\ sup' = IF s.cycleTerminal THEN s ELSE [Failed(RejectAll(s)) EXCEPT !.cycleTerminal = TRUE]

\* Processes nothing remembers: a handle is never used twice.
Fresh == {h \in Hosts : /\ h \notin alive
                        /\ \A k \in DOMAIN toDesktop : toDesktop[k].from # h}

\* Mutant: no check of the startup is scheduled.
LaunchUnchecked(s, n) == \E h \in Fresh :
    /\ alive' = alive \cup {h} /\ host' = [host EXCEPT ![h] = NewHost]
    /\ attempts' = n
    /\ toHost' = [toHost EXCEPT ![h] = <<[type |-> "boot", id |-> None]>>]
    /\ sup' = [s EXCEPT !.state = "starting", !.process = h]
    /\ UNCHANGED killed

\* startProcess once the spawn succeeded: boot, or the first delivery fails.
Launch(s, n) == \E h \in Fresh :
    /\ alive' = alive \cup {h}
    /\ host' = [host EXCEPT ![h] = NewHost]
    /\ attempts' = n
    /\ \/ /\ toHost' = [toHost EXCEPT ![h] = <<[type |-> "boot", id |-> None]>>]
          /\ sup' = [s EXCEPT !.state = "starting", !.process = h, !.timers = @ \cup {"check"}]
          /\ UNCHANGED killed
       \/ /\ UNCHANGED toHost
          /\ \/ killed' = killed \cup {h} /\ sup' = [s EXCEPT !.state = "starting", !.process = h]
             \/ /\ UNCHANGED killed
                /\ sup' = [Failed(s) EXCEPT !.process = h, !.cycleTerminal = TRUE]

\* startProcess: a spawn that throws uses up the one automatic replacement.
StartProcess(s, n) ==
    /\ Fresh # {}
    /\ \/ Launch(s, n + 1)
       \/ ~s.replacementUsed /\ Launch([s EXCEPT !.replacementUsed = TRUE], n + 2)
       \/ /\ sup' = [Failed(s) EXCEPT !.replacementUsed = TRUE]
          /\ attempts' = n + (IF s.replacementUsed THEN 1 ELSE 2)
          /\ UNCHANGED <<host, alive, killed, toHost>>

BeginStartupCycle(s, used, n) ==
    StartProcess([s EXCEPT !.timers = {"deadline"}, !.replacementUsed = used,
                           !.cycleTerminal = FALSE, !.state = "starting"], n)

Renewed == [sup EXCEPT !.stopPurpose = None, !.acknowledged = FALSE]

\* The Desktop starts the supervisor once, when the application is ready.
Start ==
    /\ sup.state = "stopped" /\ sup.process = None /\ attempts = 0
    /\ BeginStartupCycle(Renewed, FALSE, 0)
    /\ UNCHANGED toDesktop

\* Mutant: the process that failed may still run.
RetryAnyway ==
    /\ sup.state = "failed"
    /\ BeginStartupCycle(Renewed, FALSE, 0)
    /\ UNCHANGED toDesktop

\* The user retries; a failed process that still runs forbids it.
Retry ==
    /\ sup.state = "failed" /\ sup.process = None
    /\ BeginStartupCycle(Renewed, FALSE, 0)
    /\ UNCHANGED toDesktop

\* A window is loaded, or reloaded, and wants a connection.  At most one such
\* command, or its refusal, is under way.
Connect ==
    /\ sup.state = "ready"
    /\ \A h \in Hosts : \A k \in DOMAIN toHost[h] : toHost[h][k].type # "connect"
    /\ \A k \in DOMAIN toDesktop : toDesktop[k].type # "failure"
    /\ Deliver(sup.process, "connect", None)
    /\ UNCHANGED <<host, alive, killed, toDesktop, sup, attempts>>

\* createControlId: an identifier no message still carries.
InFlight(r) ==
    \/ \E h \in Hosts : \E k \in DOMAIN toHost[h] : toHost[h][k].id = r
    \/ \E k \in DOMAIN toDesktop : toDesktop[k].id = r

\* registerLocalPathSelection and its relatives.
Request(r) ==
    /\ sup.state = "ready" /\ sup.request[r] = None /\ ~InFlight(r)
    /\ sup' = [sup EXCEPT !.request[r] = sup.process]
    /\ Deliver(sup.process, "request", r)
    /\ UNCHANGED <<host, alive, killed, toDesktop, attempts>>

\* The five seconds a request waits.
RequestTimeout(r) ==
    /\ sup.request[r] # None
    /\ sup' = [sup EXCEPT !.request[r] = None]
    /\ UNCHANGED <<procVars, attempts>>

Drain ==
    /\ sup.state = "ready"
    /\ \/ /\ sup' = [sup EXCEPT !.state = "draining"]
          /\ Deliver(sup.process, "drain", None)
          /\ UNCHANGED killed
       \/ Terminate([sup EXCEPT !.state = "draining"]) /\ UNCHANGED toHost
    /\ UNCHANGED <<host, alive, toDesktop, attempts>>

-----------------------------------------------------------------------------
\* Mutant: what was delivered is done.
StoppedAtOnce(s) == sup' = [s EXCEPT !.state = "stopped"] /\ UNCHANGED toHost

\* requestUtilityHostShutdown
RequestShutdown(s) ==
    \/ s.process = None /\ sup' = [s EXCEPT !.state = "stopped"] /\ UNCHANGED toHost
    \/ /\ s.process # None
       /\ \/ sup' = [s EXCEPT !.state = "draining"] /\ Deliver(s.process, "shutdown", None)
          \/ sup' = [s EXCEPT !.state = "failed"] /\ UNCHANGED toHost

\* shutdown: a restore that is being replaced becomes a quit.
Shutdown ==
    /\ CASE sup.stopPurpose = "quit" -> UNCHANGED <<sup, toHost>>
         [] sup.stopPurpose = "restore" -> sup' = [sup EXCEPT !.stopPurpose = "quit"] /\ UNCHANGED toHost
         [] OTHER -> RequestShutdown([sup EXCEPT !.stopPurpose = "quit", !.timers = {}])
    /\ UNCHANGED <<host, alive, killed, toDesktop, attempts>>

-----------------------------------------------------------------------------
\* An event of the process; those of a process that was replaced are ignored.
Receive(type) ==
    /\ toDesktop # <<>> /\ Head(toDesktop).type = type
    /\ toDesktop' = Tail(toDesktop)
    /\ UNCHANGED <<host, alive>>
\* Mutant: an event counts whoever sent it.
FromAnyone == TRUE
Current == Head(toDesktop).from = sup.process

ReceiveStale(type) ==
    /\ Receive(type) /\ ~Current
    /\ UNCHANGED <<killed, toHost, supVars>>

ReceiveReady ==
    /\ Receive("ready") /\ Current
    /\ IF sup.state = "starting"
       THEN /\ sup' = [sup EXCEPT !.state = "ready", !.timers = {}, !.cycleTerminal = FALSE,
                                  !.replacementUsed = FALSE]
            /\ attempts' = 0 /\ UNCHANGED killed
       ELSE Terminate(sup) /\ UNCHANGED attempts
    /\ UNCHANGED toHost

\* The answer to a request that timed out ends the process that gave it.
ReceiveAnswer ==
    /\ Receive("answer") /\ Current
    /\ LET r == Head(toDesktop).id IN
       IF sup.request[r] = sup.process
       THEN sup' = [sup EXCEPT !.request[r] = None] /\ UNCHANGED killed
       ELSE Terminate(sup)
    /\ UNCHANGED <<toHost, attempts>>

ReceiveReplacement ==
    /\ Receive("replacement") /\ Current
    /\ IF sup.state = "ready"
       THEN /\ RequestShutdown([sup EXCEPT !.stopPurpose = "restore", !.acknowledged = FALSE])
            /\ UNCHANGED killed
       ELSE Terminate(sup) /\ UNCHANGED toHost
    /\ UNCHANGED attempts

ReceiveDrained ==
    /\ Receive("drained") /\ Current
    /\ UNCHANGED <<killed, toHost, supVars>>

\* Only a process that was asked to stop may say that it has.
ReceiveStopped ==
    /\ Receive("stopped") /\ Current
    /\ IF sup.stopPurpose = None
       THEN Terminate(sup)
       ELSE sup' = [RejectAll(sup) EXCEPT !.acknowledged = TRUE] /\ UNCHANGED killed
    /\ UNCHANGED <<toHost, attempts>>

ReceiveFailure ==
    /\ Receive("failure") /\ Current
    /\ IF sup.stopPurpose = None
       THEN Terminate(sup)
       ELSE sup' = [sup EXCEPT !.state = "failed"] /\ UNCHANGED killed
    /\ UNCHANGED <<toHost, attempts>>

-----------------------------------------------------------------------------
\* Mutant: the exit of a process that was asked to stop suffices.
ExitSuffices(s) == TRUE
Receipted(s) == s.acknowledged

\* handleExit, in the order of its tests.
Gone(s) == [RejectAll(s) EXCEPT !.process = None, !.timers = @ \ {"check"}]
HandleExit ==
    /\ sup.process # None /\ sup.process \notin alive
    /\ LET s == Gone(sup)
           ends(state) == /\ sup' = [s EXCEPT !.state = state, !.timers = {}]
                          /\ UNCHANGED <<host, alive, killed, toHost, attempts>>
       IN CASE s.stopPurpose # None /\ ~Receipted(s) -> ends("failed")
            [] s.stopPurpose = "restore" /\ Receipted(s) ->
                 BeginStartupCycle([s EXCEPT !.stopPurpose = None, !.acknowledged = FALSE], TRUE, attempts)
            [] s.stopPurpose = "quit" /\ Receipted(s) -> ends("stopped")
            [] s.stopPurpose = None /\ s.cycleTerminal -> ends("failed")
            [] s.stopPurpose = None /\ ~s.cycleTerminal /\ s.state \in {"ready", "draining"} ->
                 BeginStartupCycle(s, TRUE, attempts)
            [] OTHER -> IF s.replacementUsed THEN ends("failed")
                        ELSE StartProcess([s EXCEPT !.replacementUsed = TRUE, !.state = "starting"], attempts)
    /\ UNCHANGED toDesktop

\* The ten seconds a process has to become ready.
StartupCheck ==
    /\ "check" \in sup.timers
    /\ LET s == [sup EXCEPT !.timers = @ \ {"check"}] IN
       IF s.state = "starting" /\ ~s.cycleTerminal THEN Terminate(s) ELSE sup' = s /\ UNCHANGED killed
    /\ UNCHANGED <<host, alive, toHost, toDesktop, attempts>>

\* The thirty seconds of a whole startup cycle.
StartupDeadline ==
    /\ "deadline" \in sup.timers
    /\ LET s == [sup EXCEPT !.timers = @ \ {"deadline"}] IN
       IF s.state = "starting" /\ ~s.cycleTerminal
       THEN /\ sup' = [s EXCEPT !.cycleTerminal = TRUE, !.timers = {}, !.state = "failed"]
            /\ \/ killed' = killed \cup ({s.process} \cap alive)
               \/ UNCHANGED killed
       ELSE sup' = s /\ UNCHANGED killed
    /\ UNCHANGED <<host, alive, toHost, toDesktop, attempts>>

SupervisorSteps ==
    \/ Start \/ Retry \/ Connect \/ Drain \/ HandleExit \/ StartupCheck \/ StartupDeadline
    \/ \E r \in Requests : Request(r) \/ RequestTimeout(r)
    \/ \E type \in Events : ReceiveStale(type)
    \/ ReceiveReady \/ ReceiveAnswer \/ ReceiveReplacement
    \/ ReceiveDrained \/ ReceiveStopped \/ ReceiveFailure
=============================================================================
