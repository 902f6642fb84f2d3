---------------------------- MODULE StateRestore ----------------------------
(* The restore of a whole profile (activateStateRestore), the reconciliation *)
(* every Host start runs before its Core (reconcileStateRestoreBeforeStartup)*)
(* and the Core start that ends it (finalizeStateRestoreReopen), with        *)
(* crashes and storage errors between any two durable steps.                 *)
(*                                                                           *)
(* Several Hosts may start and serve side by side; a Host restores while no  *)
(* other Host runs, and none starts meanwhile: the code neither refuses nor  *)
(* quiesces a second Host on the same profile.                               *)
EXTENDS Naturals, FiniteSets

CONSTANTS
    Hosts,      \* Host processes, each restarted any number of times
    Restores,   \* restore identifiers, each used for one transaction directory
    Own,        \* the origin of the profile the user started with
    None,
    MaxCrashes, MaxFaults, MaxEdits     \* bounds of a run

ASSUME RestoreAssumption ==
    /\ IsFiniteSet(Restores)
    /\ None \notin Hosts \cup Restores /\ Own \notin Restores /\ Own # None
    /\ {MaxCrashes, MaxFaults, MaxEdits} \subseteq Nat

VARIABLES
    live,       \* the directory at the profile's path
    txn,        \* transaction directories beside it: marker phase, staged/, displaced/
    lock,       \* the Host that holds the restore lock
    host,       \* what each Host does, and why it last refused to start normally
    crashes, faults

vars == <<live, txn, lock, host, crashes, faults>>
bounds == <<crashes, faults>>

-----------------------------------------------------------------------------
\* state is "partial" while a staged tree is being filled, "exact" while it is
\* the backup's closure byte for byte, "opened" once a Core has worked on it.
\* db says that the State DB is current, backups that archives lie in backups/.
Profile == [of : Restores \cup {Own}, edits : Nat,
            state : {"partial", "exact", "opened"}, db : BOOLEAN, backups : BOOLEAN]
Directory == Profile \cup {None}

ASSUME NoneAssumption == None \notin Profile

\* A transaction directory whose marker does not exist yet is "unmarked".
Phases == {"unused", "unmarked", "staging", "candidate_ready", "live_displaced",
           "activated", "reprojecting", "aborted", "reconciled"}

Causes == {"none", "unreadable", "several", "locked", "changed", "database",
           "mismatch", "ambiguous", "occupied", "storage"}
StartupSteps == {"scan", "lock", "reconcile", "retain", "complete", "reproject",
                 "core", "open", "finalize", "reindex"}
StagingSteps == {"marker", "populate", "ready", "quiesce"}
SharedSteps == {"displaced", "carry", "publish", "activated", "check"}
Steps == StartupSteps \cup StagingSteps \cup {"displace"} \cup SharedSteps
            \cup {"idle", "replaced"}

Transaction == [phase : Phases, staged : Directory, displaced : Directory]
HostState == [mode : {"down", "boot", "normal", "recovery"}, pc : Steps,
              cur : Restores \cup {None}, why : Causes]

TypeOK ==
    /\ live \in Directory
    /\ txn \in [Restores -> Transaction]
    /\ lock \in Hosts \cup {None}
    /\ host \in [Hosts -> HostState]
    /\ crashes \in 0 .. MaxCrashes /\ faults \in 0 .. MaxFaults

Stopped == [mode |-> "down", pc |-> "idle", cur |-> None, why |-> "none"]

Init ==
    /\ live \in [of : {Own}, edits : {0}, state : {"opened"}, db : BOOLEAN, backups : BOOLEAN]
    /\ txn = [r \in Restores |-> [phase |-> "unused", staged |-> None, displaced |-> None]]
    /\ lock = None
    /\ host = [h \in Hosts |-> Stopped]
    /\ crashes = 0 /\ faults = 0

At(h, step) == host[h].pc = step
Cur(h) == host[h].cur
Goto(h, step) == host' = [host EXCEPT ![h].pc = step]
Unlocked(h) == IF lock = h THEN None ELSE lock

Restoring(h) ==
    /\ host[h].mode \in {"normal", "recovery"}
    /\ host[h].pc \in StagingSteps \cup {"displace"} \cup SharedSteps

\* What the scan of the profile's parent finds.
Unreadable == \E r \in Restores : txn[r].phase = "unmarked"
\* Mutant: an activated restore counts as over.
BlockingUntilActivated ==
    {r \in Restores : txn[r].phase \notin {"unused", "activated", "aborted", "reconciled"}}

Blocking == {r \in Restores : txn[r].phase \notin {"unused", "aborted", "reconciled"}}

\* StateProfileRecoveryRequiredError: a Host that only inspects and restores.
Refuse(h, cause) ==
    /\ host' = [host EXCEPT ![h] = [mode |-> "recovery", pc |-> "idle", cur |-> None, why |-> cause]]
    /\ lock' = Unlocked(h)

\* HostStartupError: the process ends.
FailStart(h) ==
    /\ host' = [host EXCEPT ![h] = Stopped]
    /\ lock' = Unlocked(h)

SetPhase(r, phase) == txn' = [txn EXCEPT ![r].phase = phase]

-----------------------------------------------------------------------------
(* The start of a Host.                                                      *)
Boot(h) ==
    /\ host[h].mode = "down"
    /\ \A g \in Hosts : ~Restoring(g)
    /\ host' = [host EXCEPT ![h].mode = "boot", ![h].pc = "scan"]
    /\ UNCHANGED <<live, txn, lock, bounds>>

Scan(h) ==
    /\ At(h, "scan")
    /\ IF Unreadable THEN Refuse(h, "unreadable")
       ELSE IF Blocking = {} THEN Goto(h, "core") /\ UNCHANGED lock
       ELSE IF Cardinality(Blocking) # 1 THEN Refuse(h, "several")
       ELSE /\ host' = [host EXCEPT ![h].pc = "lock", ![h].cur = CHOOSE r \in Blocking : TRUE]
            /\ UNCHANGED lock
    /\ UNCHANGED <<live, txn, bounds>>

LockProfile(h) ==
    /\ At(h, "lock")
    /\ IF lock # None THEN Refuse(h, "locked")
       ELSE IF Unreadable \/ Blocking # {Cur(h)} THEN Refuse(h, "changed")
       ELSE lock' = h /\ Goto(h, "reconcile")
    /\ UNCHANGED <<live, txn, bounds>>

\* Mutant: a profile that is displaced and not yet marked so is not completed.
RemedyAfterMarking(r) ==
    IF txn[r].phase \in {"staging", "candidate_ready"}
    THEN IF live # None THEN "retain" ELSE "ambiguous"
    ELSE IF txn[r].phase = "live_displaced" /\ live = None THEN "complete"
    ELSE IF txn[r].phase = "reprojecting" THEN "core" ELSE "check"

\* The step a marker and the three directories call for.
Remedy(r) ==
    LET there == <<live # None, txn[r].staged # None, txn[r].displaced # None>>
    IN CASE txn[r].phase = "staging" /\ there[1] /\ ~there[3] -> "retain"
         [] txn[r].phase = "candidate_ready" /\ there = <<TRUE, TRUE, FALSE>> -> "retain"
         [] txn[r].phase \in {"candidate_ready", "live_displaced"}
                /\ there = <<FALSE, TRUE, TRUE>> -> "complete"
         [] txn[r].phase = "candidate_ready" /\ there = <<TRUE, FALSE, FALSE>> -> "check"
         [] txn[r].phase = "live_displaced" /\ there = <<TRUE, FALSE, TRUE>> -> "check"
         [] txn[r].phase = "activated" /\ there[1] /\ ~there[2] -> "check"
         [] txn[r].phase = "reprojecting" -> "core"
         [] OTHER -> "ambiguous"

\* verifyProfileFingerprint: the cause for which a profile is not the backup's.
Mismatch(p) == IF ~p.db THEN "database" ELSE "mismatch"
Verified(p) == p # None /\ p.db /\ p.state = "exact"

Reconcile(h) ==
    /\ At(h, "reconcile")
    /\ LET remedy == Remedy(Cur(h))
       IN CASE remedy = "ambiguous" -> Refuse(h, "ambiguous")
            [] remedy = "core" /\ (live = None \/ ~live.db) -> Refuse(h, "database")
            [] remedy = "core" /\ live # None /\ live.db ->
                 host' = [host EXCEPT ![h].pc = "core", ![h].cur = None] /\ lock' = None
            [] OTHER -> Goto(h, remedy) /\ UNCHANGED lock
    /\ UNCHANGED <<live, txn, bounds>>

\* Mutant: the marker keeps its phase.
RetainSilently(h) ==
    /\ At(h, "retain")
    /\ Goto(h, "core")
    /\ lock' = None
    /\ UNCHANGED <<live, txn, bounds>>

\* The candidate never reached the profile: keep what is there.
Retain(h) ==
    /\ At(h, "retain")
    /\ IF live.db
       THEN /\ SetPhase(Cur(h), "aborted")
            /\ host' = [host EXCEPT ![h].pc = "core", ![h].cur = None]
            /\ lock' = None
       ELSE Refuse(h, "database") /\ UNCHANGED txn
    /\ UNCHANGED <<live, bounds>>

\* The profile was displaced: go forward with the candidate.
Complete(h) ==
    /\ At(h, "complete")
    /\ LET staged == txn[Cur(h)].staged
       IN IF Verified(staged) THEN Goto(h, "displaced") /\ UNCHANGED lock
          ELSE Refuse(h, Mismatch(staged))
    /\ UNCHANGED <<live, txn, bounds>>

BeginReprojection(h) ==
    /\ At(h, "reproject")
    /\ SetPhase(Cur(h), "reprojecting")
    /\ host' = [host EXCEPT ![h].pc = "core", ![h].cur = None]
    /\ lock' = None
    /\ UNCHANGED <<live, bounds>>

\* assertStateProfileRestoreStartup, before the Core opens the database.
StartCore(h) ==
    /\ At(h, "core")
    /\ IF Unreadable THEN Refuse(h, "unreadable")
       ELSE IF live = None \/ ~live.db THEN Refuse(h, "database")
       ELSE IF Blocking = {} THEN Goto(h, "open") /\ UNCHANGED lock
       ELSE IF \E r \in Restores : Blocking = {r} /\ txn[r].phase = "reprojecting"
       THEN /\ host' = [host EXCEPT ![h].pc = "open", ![h].cur = CHOOSE r \in Blocking : TRUE]
            /\ UNCHANGED lock
       ELSE Refuse(h, "changed")
    /\ UNCHANGED <<live, txn, bounds>>

OpenProfile(h) ==
    /\ At(h, "open")
    /\ live' = [live EXCEPT !.state = "opened"]
    /\ host' = [host EXCEPT ![h].pc = IF Cur(h) = None THEN "idle" ELSE "finalize",
                            ![h].mode = IF Cur(h) = None THEN "normal" ELSE "boot"]
    /\ UNCHANGED <<txn, lock, bounds>>

LockReopen(h) ==
    /\ At(h, "finalize")
    /\ IF lock = None /\ ~Unreadable /\ Blocking = {Cur(h)} /\ txn[Cur(h)].phase = "reprojecting"
       THEN lock' = h /\ Goto(h, "reindex")
       ELSE FailStart(h)
    /\ UNCHANGED <<live, txn, bounds>>

Reindex(h) ==
    /\ At(h, "reindex")
    /\ SetPhase(Cur(h), "reconciled")
    /\ host' = [host EXCEPT ![h].pc = "idle", ![h].mode = "normal", ![h].cur = None]
    /\ lock' = None
    /\ UNCHANGED <<live, bounds>>

-----------------------------------------------------------------------------
(* A Host that serves.                                                       *)
Serving(h) == host[h].mode = "normal" /\ At(h, "idle")

\* An operation under way may still write while the restore quiesces.
Edit(h) ==
    /\ host[h].mode = "normal" /\ host[h].pc \in {"idle", "quiesce"}
    /\ live.edits < MaxEdits
    /\ live' = [live EXCEPT !.edits = @ + 1]
    /\ UNCHANGED <<txn, lock, host, bounds>>

CreateBackup(h) ==
    /\ Serving(h)
    /\ ~live.backups
    /\ live' = [live EXCEPT !.backups = TRUE]
    /\ UNCHANGED <<txn, lock, host, bounds>>

-----------------------------------------------------------------------------
(* activateStateRestore, from a serving Host or from a recovery Host.        *)
StagedTree(r, state) ==
    [of |-> r, edits |-> 0, state |-> state, db |-> state = "exact", backups |-> FALSE]

MayRestore(h) ==
    /\ host[h].mode \in {"normal", "recovery"} /\ At(h, "idle")
    /\ lock = None /\ Blocking = {}

CreateTransaction(h, r) ==
    /\ MayRestore(h)
    /\ \A g \in Hosts \ {h} : host[g].mode = "down"
    /\ txn[r].phase = "unused"
    /\ txn' = [txn EXCEPT ![r].phase = "unmarked", ![r].staged = StagedTree(r, "partial")]
    /\ lock' = h
    /\ host' = [host EXCEPT ![h].pc = "marker", ![h].cur = r]
    /\ UNCHANGED <<live, bounds>>

CreateMarker(h) ==
    /\ At(h, "marker")
    /\ SetPhase(Cur(h), "staging")
    /\ Goto(h, "populate")
    /\ UNCHANGED <<live, lock, bounds>>

Populate(h) ==
    /\ At(h, "populate")
    /\ txn' = [txn EXCEPT ![Cur(h)].staged = StagedTree(Cur(h), "exact")]
    /\ Goto(h, "ready")
    /\ UNCHANGED <<live, lock, bounds>>

MarkReady(h) ==
    /\ At(h, "ready")
    /\ SetPhase(Cur(h), "candidate_ready")
    /\ Goto(h, "quiesce")
    /\ UNCHANGED <<live, lock, bounds>>

Quiesce(h) ==
    /\ At(h, "quiesce")
    /\ Goto(h, "displace")
    /\ UNCHANGED <<live, txn, lock, bounds>>

Displace(h) ==
    /\ At(h, "displace")
    /\ txn' = [txn EXCEPT ![Cur(h)].displaced = live]
    /\ live' = None
    /\ Goto(h, "displaced")
    /\ UNCHANGED <<lock, bounds>>

(* The steps the activation and its completion at a start share.             *)
MarkDisplaced(h) ==
    /\ At(h, "displaced")
    /\ SetPhase(Cur(h), "live_displaced")
    /\ Goto(h, "carry")
    /\ UNCHANGED <<live, lock, bounds>>

\* Mutant: only the Host that displaced the profile carries its archives.
CarryOnce(h) ==
    /\ At(h, "carry")
    /\ txn' = IF txn[Cur(h)].displaced.backups /\ host[h].mode # "boot"
              THEN [txn EXCEPT ![Cur(h)].displaced.backups = FALSE, ![Cur(h)].staged.backups = TRUE]
              ELSE txn
    /\ Goto(h, "publish")
    /\ UNCHANGED <<live, lock, bounds>>

CarryBackups(h) ==
    /\ At(h, "carry")
    /\ txn' = IF txn[Cur(h)].displaced.backups
              THEN [txn EXCEPT ![Cur(h)].displaced.backups = FALSE, ![Cur(h)].staged.backups = TRUE]
              ELSE txn
    /\ Goto(h, "publish")
    /\ UNCHANGED <<live, lock, bounds>>

Publish(h) ==
    /\ At(h, "publish")
    /\ IF live = None
       THEN /\ live' = txn[Cur(h)].staged
            /\ txn' = [txn EXCEPT ![Cur(h)].staged = None]
            /\ Goto(h, "activated")
            /\ UNCHANGED lock
       ELSE /\ IF host[h].mode = "boot" THEN Refuse(h, "occupied")
               ELSE /\ host' = [host EXCEPT ![h].pc = "replaced", ![h].cur = None, ![h].why = "occupied"]
                    /\ lock' = None
            /\ UNCHANGED <<live, txn>>
    /\ UNCHANGED bounds

\* Mutant: the displaced profile is cleaned up.
PruneDisplaced(h) ==
    /\ At(h, "activated")
    /\ txn' = [txn EXCEPT ![Cur(h)].phase = "activated", ![Cur(h)].displaced = None]
    /\ Goto(h, "check")
    /\ UNCHANGED <<live, lock, bounds>>

MarkActivated(h) ==
    /\ At(h, "activated")
    /\ SetPhase(Cur(h), "activated")
    /\ Goto(h, "check")
    /\ UNCHANGED <<live, lock, bounds>>

\* The restore ends, and asks for a new Host, or the start goes on.
CheckActivated(h) ==
    /\ At(h, "check")
    /\ IF host[h].mode # "boot"
       THEN host' = [host EXCEPT ![h].pc = "replaced", ![h].cur = None] /\ lock' = None
       ELSE IF Verified(live) THEN Goto(h, "reproject") /\ UNCHANGED lock
       ELSE Refuse(h, Mismatch(live))
    /\ UNCHANGED <<live, txn, bounds>>

-----------------------------------------------------------------------------
(* Ends and errors.                                                          *)
Exit(h) ==
    /\ host[h].mode # "down" /\ host[h].pc \in {"idle", "replaced"}
    /\ host' = [host EXCEPT ![h] = Stopped]
    /\ UNCHANGED <<live, txn, lock, bounds>>

Crash(h) ==
    /\ host[h].mode # "down" /\ host[h].pc \notin {"idle", "replaced"}
    /\ crashes < MaxCrashes
    /\ crashes' = crashes + 1
    /\ FailStart(h)
    /\ UNCHANGED <<live, txn, faults>>

\* A durable step fails: before the quiescence the Host goes on, after it the
\* Host waits for its replacement; a start becomes a recovery Host or ends, and
\* either at "core", where the transactions are scanned and the database is opened.
Fault(h) ==
    /\ host[h].pc \notin {"idle", "replaced", "scan", "lock"}
    /\ faults < MaxFaults
    /\ faults' = faults + 1
    /\ \/ /\ host[h].mode = "boot" /\ host[h].pc \notin {"open", "finalize", "reindex"}
          /\ Refuse(h, "storage")
       \/ /\ host[h].mode = "boot" /\ host[h].pc \in {"core", "open", "finalize", "reindex"}
          /\ FailStart(h)
       \/ /\ host[h].mode # "boot"
          /\ host' = [host EXCEPT ![h].cur = None,
                            ![h].pc = IF @ \in StagingSteps THEN "idle" ELSE "replaced"]
          /\ lock' = None
    /\ UNCHANGED <<live, txn, crashes>>

-----------------------------------------------------------------------------
StartupStep(h) ==
    \/ Scan(h) \/ LockProfile(h) \/ Reconcile(h) \/ Retain(h) \/ Complete(h)
    \/ BeginReprojection(h) \/ StartCore(h) \/ OpenProfile(h) \/ LockReopen(h) \/ Reindex(h)

ActivationStep(h) ==
    \/ CreateMarker(h) \/ Populate(h) \/ MarkReady(h) \/ Quiesce(h) \/ Displace(h)
    \/ MarkDisplaced(h) \/ CarryBackups(h) \/ Publish(h) \/ MarkActivated(h) \/ CheckActivated(h)

Next == \E h \in Hosts :
    \/ Boot(h) \/ StartupStep(h)
    \/ (\E r \in Restores : CreateTransaction(h, r)) \/ ActivationStep(h)
    \/ Edit(h) \/ CreateBackup(h)
    \/ Exit(h) \/ Crash(h) \/ Fault(h)

Spec == Init /\ [][Next]_vars

\* Code that runs goes on, and a Host that waits for its replacement ends.
\* Nothing makes a user start, restore, edit or quit.
Fairness == \A h \in Hosts :
    /\ WF_vars(StartupStep(h)) /\ WF_vars(ActivationStep(h))
    /\ WF_vars(At(h, "replaced") /\ Exit(h))

FairSpec == Spec /\ Fairness

-----------------------------------------------------------------------------
(* Whatever step a crash or an error interrupts, and whatever several starts *)
(* do at once, no start finds directories its marker does not explain, a     *)
(* profile that is not the backup's, a taken path or two open transactions:  *)
(* the table of reconcileObservedTransaction misses no reachable state.      *)
NeverStranded ==
    \A h \in Hosts : host[h].why \notin {"ambiguous", "mismatch", "occupied", "several"}

(* A Host serves only when every restore is over or has not touched the      *)
(* profile, on a profile that is there and whose database is current.        *)
ServesSettled ==
    \A h \in Hosts : Serving(h) =>
        /\ live # None /\ live.db /\ live.state = "opened"
        /\ \A r \in Restores :
              \/ txn[r].phase \in {"unused", "aborted", "reconciled"}
              \/ txn[r].displaced = None /\ txn[r].phase \in {"unmarked", "staging", "candidate_ready"}

(* The archives the user made are in the profile whenever a Host serves: a   *)
(* restore carries backups/ forward, also when another process finishes it.  *)
ArchivesReachable ==
    (\E h \in Hosts : Serving(h)) =>
        \A r \in Restores : \A p \in {txn[r].staged, txn[r].displaced} \ {None} : ~p.backups

(* A restore replaces the profile as a unit and keeps what it replaced.  The *)
(* profile in force is the one at its path, and between the two renames the  *)
(* displaced one.                                                            *)
ContentOf(p) == [of |-> p.of, edits |-> p.edits]
Published == {r \in Restores : txn[r].displaced # None /\ txn[r].staged = None}
Between == {r \in Restores : txn[r].displaced # None /\ txn[r].staged # None}
authority == IF live # None THEN ContentOf(live)
             ELSE ContentOf(txn[CHOOSE r \in Between : TRUE].displaced)
kept == {ContentOf(txn[r].displaced) : r \in Published}
Whole == INSTANCE StateProfile
ReplacedAsAUnit == Whole!Spec

(* Why these hold.  One restore is open at a time; the lock belongs to the   *)
(* Host at a step under it, and that Host works on the open restore; the     *)
(* phase of a marker and the step of the lock's holder say which directories *)
(* are there and what they hold.                                             *)
LockSteps == {"reconcile", "retain", "complete", "reproject", "reindex"}
                \cup StagingSteps \cup {"displace"} \cup SharedSteps

OneOpen == \A r, s \in Blocking : r = s

Exact(p, r) == p # None /\ p.state = "exact" /\ p.db /\ p.of = r /\ p.edits = 0

\* What each phase says of the three directories.
Shape(r) ==
    LET t == txn[r]
    IN /\ t.phase = "unused" => t.staged = None /\ t.displaced = None
       /\ t.phase \in {"unmarked", "staging", "aborted"} => t.staged # None /\ t.displaced = None
       /\ t.phase = "candidate_ready" =>
             /\ Exact(t.staged, r)
             /\ (live = None) <=> (t.displaced # None)
       /\ t.phase = "live_displaced" =>
             /\ t.displaced # None
             /\ IF live = None THEN Exact(t.staged, r) ELSE t.staged = None /\ Exact(live, r)
       /\ t.phase = "activated" => t.staged = None /\ t.displaced # None /\ Exact(live, r)
       /\ t.phase \in {"reprojecting", "reconciled"} => t.staged = None /\ t.displaced # None
       /\ t.staged # None => t.staged.of = r /\ t.staged.edits = 0
       /\ t.staged # None /\ t.staged.backups => t.phase = "live_displaced"
       /\ t.displaced # None /\ t.displaced.backups =>
             t.phase \in {"candidate_ready", "live_displaced"} /\ live = None

LiveOrBetween == live = None =>
    \E r \in Blocking : txn[r].phase \in {"candidate_ready", "live_displaced"}

\* A profile comes from a restore only once its candidate was published.
Origins == \A r \in Restores :
    txn[r].phase = "unused" \/ txn[r].staged # None =>
        /\ live # None => live.of # r
        /\ \A s \in Restores : txn[s].displaced # None => txn[s].displaced.of # r

DataInv == OneOpen /\ (\A r \in Restores : Shape(r)) /\ LiveOrBetween /\ Origins

LockHeld(h) ==
    /\ lock = h <=> host[h].pc \in LockSteps
    /\ lock = h => Cur(h) \in Blocking

StepOfMode(h) ==
    /\ host[h].mode = "down" => host[h].pc = "idle"
    /\ host[h].mode = "boot" => host[h].pc \in StartupSteps \cup SharedSteps
    /\ host[h].mode \in {"normal", "recovery"} =>
          host[h].pc \in {"idle", "replaced", "displace"} \cup StagingSteps \cup SharedSteps
    /\ host[h].pc = "lock" => Cur(h) \in Restores
    /\ host[h].pc \in {"idle", "scan", "core", "replaced"} => Cur(h) = None
    /\ host[h].pc = "finalize" => Cur(h) # None

RestoresAlone(h) == Restoring(h) => \A g \in Hosts \ {h} : host[g].mode = "down"

\* A Host past the assertion of its Core start sees no open restore but its
\* own reprojection; one that serves sees at most one that touched nothing.
PastAssertion(h) ==
    /\ host[h].pc = "open" =>
          /\ live # None /\ live.db
          /\ IF Cur(h) = None THEN Blocking = {}
             ELSE \A r \in Blocking : txn[r].phase = "reprojecting"
    /\ host[h].pc \in {"finalize", "reindex"} =>
          /\ live # None /\ live.db /\ live.state = "opened"
          /\ \A r \in Blocking : txn[r].phase = "reprojecting"
    /\ host[h].mode = "normal" /\ host[h].pc \in {"idle", "displace"} \cup StagingSteps =>
          /\ live # None /\ live.db /\ live.state = "opened"
          /\ \A r \in Blocking :
                /\ txn[r].phase \in {"unmarked", "staging", "candidate_ready"}
                /\ txn[r].displaced = None

\* What the holder of the lock has reached.
Reached(h) ==
    LET t == txn[Cur(h)]
    IN /\ At(h, "marker") => t.phase = "unmarked"
       /\ host[h].pc \in {"populate", "ready"} => t.phase = "staging"
       /\ At(h, "ready") => Exact(t.staged, Cur(h))
       /\ host[h].pc \in {"quiesce", "displace"} => t.phase = "candidate_ready" /\ live # None
       /\ At(h, "reconcile") => t.phase # "unmarked"
       /\ At(h, "retain") => t.phase \in {"staging", "candidate_ready"} /\ live # None
       /\ At(h, "reindex") => t.phase = "reprojecting"
       /\ host[h].pc \in {"complete", "displaced"} =>
             t.phase \in {"candidate_ready", "live_displaced"} /\ live = None
       /\ host[h].pc \in {"carry", "publish"} => t.phase = "live_displaced" /\ live = None
       /\ At(h, "publish") => ~t.displaced.backups
       /\ At(h, "activated") => t.phase = "live_displaced" /\ live # None
       /\ host[h].pc \in {"check", "reproject"} =>
             t.phase \in {"live_displaced", "activated"} /\ live # None

HostInv(h) ==
    /\ LockHeld(h) /\ StepOfMode(h) /\ RestoresAlone(h) /\ PastAssertion(h) /\ Reached(h)
    /\ host[h].why \notin {"ambiguous", "mismatch", "occupied", "several"}

Inv == TypeOK /\ DataInv /\ \A h \in Hosts : HostInv(h)

(* A Host that is started again and again on a profile that was healthy, in  *)
(* the end with no other beside it, serves again and again, wherever its     *)
(* restores were interrupted: unless one died between its directory and its  *)
(* marker. Two Hosts that start at the same time can fail each other for     *)
(* ever over the lock.                                                       *)
Alone(h) == \A g \in Hosts \ {h} : host[g].mode = "down"
StartsServe == \A h \in Hosts :
    /\ live # None /\ live.db
    /\ <>[]Alone(h)
    /\ []<>(host[h].mode = "boot")
    /\ []<>~Unreadable
    => []<>Serving(h)

(* A recovery Host that nothing disturbs can restore a backup.               *)
RecoveryCanRestore ==
    \A h \in Hosts :
        host[h].mode = "recovery" /\ At(h, "idle") /\ host[h].why = "database"
            /\ Alone(h)
        => MayRestore(h)
=============================================================================
