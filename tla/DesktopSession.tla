---------------------------- MODULE DesktopSession ----------------------------
(* The Desktop process: DesktopQuitCoordinator over the supervisor of the    *)
(* Host process.                                                             *)
EXTENDS UtilityHostSupervisor

VARIABLES
    attempt,    \* the coordinator's attempt to quit
    waitsFor,   \* what its finish() awaits
    traced,     \* performanceFinished
    exited      \* the application has quit

quitVars == <<attempt, waitsFor, traced, exited>>
vars == <<procVars, supVars, quitVars>>

TypeOK ==
    /\ ProcessTypeOK /\ SupervisorTypeOK
    /\ attempt \in {"idle", "pending", "failed"}
    /\ waitsFor \in {"performance", "host", None}
    /\ traced \in BOOLEAN /\ exited \in BOOLEAN

Init ==
    /\ ProcessInit /\ SupervisorInit
    /\ attempt = "idle" /\ waitsFor = None /\ traced = FALSE /\ exited = FALSE

-----------------------------------------------------------------------------
\* finishHost listens to the supervisor; a stopped Host lets the application
\* quit in the same task, a failed one is reported and the application stays.
Concludes(state) ==
    /\ waitsFor' = None
    /\ attempt' = IF state = "stopped" THEN "idle" ELSE "failed"
    /\ exited' = (state = "stopped")

Observes ==
    /\ IF waitsFor = "host" /\ sup'.state \in {"stopped", "failed"}
       THEN Concludes(sup'.state)
       ELSE UNCHANGED <<attempt, waitsFor, exited>>
    /\ UNCHANGED traced

\* finishHost: nothing to stop, or a shutdown that may end at once.
FinishHost ==
    /\ traced' = TRUE
    /\ IF sup.state = "stopped"
       THEN Concludes("stopped") /\ UNCHANGED <<procVars, supVars>>
       ELSE /\ Shutdown
            /\ IF sup'.state \in {"stopped", "failed"}
               THEN Concludes(sup'.state)
               ELSE attempt' = "pending" /\ waitsFor' = "host" /\ UNCHANGED exited

\* beforeQuit.  A failed attempt is repeated only for a Host that runs again.
BeforeQuit ==
    /\ attempt # "pending"
    /\ IF traced /\ sup.state = "stopped"
       THEN exited' = TRUE /\ UNCHANGED <<procVars, supVars, attempt, waitsFor, traced>>
       ELSE /\ attempt = "failed" => sup.state \in {"ready", "starting"}
            /\ IF traced
               THEN FinishHost
               ELSE /\ attempt' = "pending" /\ waitsFor' = "performance"
                    /\ UNCHANGED <<procVars, supVars, traced, exited>>

\* The trace was written, failed, or took more than its ten seconds.
PerformanceFinished == waitsFor = "performance" /\ FinishHost

\* Mutant: the bound is set by the drain that follows.
DeadlineOfReady ==
    /\ waitsFor = "host" /\ sup.state = "ready"
    /\ attempt' = "failed" /\ waitsFor' = None
    /\ UNCHANGED <<procVars, supVars, traced, exited>>

\* The bound on the report of a failure, not on the shutdown.
HostDeadline ==
    /\ waitsFor = "host"
    /\ attempt' = "failed" /\ waitsFor' = None
    /\ UNCHANGED <<procVars, supVars, traced, exited>>

HostStep == \E h \in Hosts : HostSteps(h) /\ UNCHANGED <<supVars, quitVars>>
SupervisorStep == SupervisorSteps /\ Observes
QuitStep == BeforeQuit \/ PerformanceFinished \/ HostDeadline

Next == ~exited /\ (HostStep \/ SupervisorStep \/ QuitStep)
Spec == Init /\ [][Next]_vars

\* Timers fire, events and exits are delivered, a killed or stopped process
\* exits, and a restore ends.
\* Nothing makes the Host boot or stop, nothing makes the user ask.
Fairness ==
    /\ WF_vars(PerformanceFinished) /\ WF_vars(HostDeadline)
    /\ WF_vars((StartupCheck \/ StartupDeadline) /\ Observes)
    /\ WF_vars(HandleExit /\ Observes)
    /\ WF_vars(toDesktop # <<>> /\ SupervisorStep /\ toDesktop' # toDesktop)
    /\ \A h \in Hosts :
          /\ WF_vars((h \in killed \/ host[h].lifecycle = "stopped") /\ Dies(h) /\ UNCHANGED <<supVars, quitVars>>)
          /\ WF_vars(EndRestore(h) /\ UNCHANGED <<supVars, quitVars>>)
FairSpec == Spec /\ Fairness

-----------------------------------------------------------------------------
\* Two Hosts would be two writers of one state: a new process is started only
\* when the one before it is gone, whatever was killed or timed out.
OneHost == Cardinality(alive) <= 1

\* The Desktop says ready, and gives connections, only for a process that has
\* booted: a late word of a process that was replaced does not count.
ReadyHasBooted ==
    sup.state = "ready" => sup.process # None /\ host[sup.process].lifecycle # "none"

\* A control request waits only for the process it was sent to.
RequestsOwned == \A r \in Requests : sup.request[r] \in {sup.process, None}

\* The application has quit: no Host process is left behind, neither one the
\* supervisor knows nor one it has given up.
QuitLeavesNoHost == exited => alive = {} /\ sup.process = None

\* A process ends in "stopped", the state a clean quit concludes from, only if that
\* very process has released Core: neither the delivery of the command, nor an exit
\* after a kill, a crash or a failed shutdown, nor what another process said will do.
StoppedIsReceipt ==
    [][sup.process # None /\ sup'.state = "stopped" => host[sup.process].lifecycle = "stopped"]_vars

\* One automatic replacement and no more, until a Host is ready or the user asks.
OneReplacement == attempts <= 2

\* A startup ends: ready, failed or stopped.
StartupEnds == sup.state = "starting" ~> sup.state # "starting"

\* The user who quits gets an answer.
QuitEnds == attempt = "pending" ~> attempt # "pending"

\* A Host that no longer accepts work is not shown as ready for ever.
ReadyAccepts ==
    (sup.state = "ready" /\ host[sup.process].lifecycle = "draining") ~>
        ~(sup.state = "ready" /\ host[sup.process].lifecycle = "draining")

-----------------------------------------------------------------------------
(* Why the safety holds.  The process the supervisor knows is the only one   *)
(* that may run; a stopped supervisor knows none; what a process said still  *)
(* holds of it when it is heard; and the starts since the last ready Host    *)
(* are bounded by the one replacement.                                       *)
Owned ==
    /\ alive \subseteq {sup.process}
    /\ sup.state = "stopped" => sup.process = None
    /\ RequestsOwned /\ ReadyHasBooted

\* boot is the first command of a process, or none; the dead have no commands;
\* only a process that booted awaits the end of a drain or shutdown.
Queues == \A h \in Hosts :
    /\ h \notin alive => toHost[h] = <<>>
    /\ \A k \in DOMAIN toHost[h] :
          toHost[h][k].type = "boot" => k = 1 /\ host[h].lifecycle = "none"
    /\ host[h].chain # "free" => host[h].lifecycle # "none"

Said == \A k \in DOMAIN toDesktop : LET e == toDesktop[k] IN
    /\ e.type = "ready" => host[e.from].lifecycle # "none"
    /\ e.type = "stopped" => host[e.from].lifecycle = "stopped"

Stopping ==
    /\ sup.stopPurpose # None => sup.timers = {}
    /\ sup.acknowledged =>
          /\ sup.stopPurpose # None
          /\ sup.process # None => host[sup.process].lifecycle = "stopped"

Replacements ==
    /\ attempts <= 2
    /\ ~sup.replacementUsed => attempts <= 1
    /\ sup.stopPurpose = "restore" \/ sup.state = "ready" => attempts = 0
    /\ sup.stopPurpose = None /\ sup.state = "draining" => attempts = 0

SupervisorInv ==
    /\ ProcessTypeOK /\ SupervisorTypeOK
    /\ Owned /\ Queues /\ Said /\ Stopping /\ Replacements
Inv == TypeOK /\ SupervisorInv /\ QuitLeavesNoHost
=============================================================================
