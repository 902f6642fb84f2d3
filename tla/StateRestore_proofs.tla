------------------------ MODULE StateRestore_proofs ------------------------
(* Proofs about StateRestore, for any number of Hosts and restores and any *)
(* bound on crashes, storage errors and edits.                             *)
EXTENDS StateRestore, TLAPS, FiniteSetTheorems
-----------------------------------------------------------------------------
(* The initial states. *)

LEMMA InitInv == Init => Inv
<1> SUFFICES ASSUME Init PROVE Inv
  OBVIOUS
<1> USE RestoreAssumption, NoneAssumption DEF Init
<1>1. live \in Profile /\ live # None
  BY DEF Profile
<1>2. TypeOK
  <2>1. Stopped \in HostState
    BY DEF Stopped, HostState, Steps, Causes
  <2>2. [phase |-> "unused", staged |-> None, displaced |-> None] \in Transaction
    BY DEF Transaction, Directory, Phases
  <2> QED
    BY <1>1, <2>1, <2>2 DEF TypeOK, Directory
<1>3. Blocking = {}
  BY DEF Blocking
<1>4. DataInv
  <2>1. OneOpen /\ LiveOrBetween
    BY <1>1, <1>3 DEF OneOpen, LiveOrBetween
  <2>2. \A r \in Restores : Shape(r)
    BY DEF Shape
  <2>3. Origins
    BY DEF Origins
  <2> QED
    BY <2>1, <2>2, <2>3 DEF DataInv
<1>5. ASSUME NEW h \in Hosts PROVE HostInv(h)
  <2> USE DEF Stopped, At, Cur
  <2>1. LockHeld(h)
    BY DEF LockHeld, LockSteps, StagingSteps, SharedSteps
  <2>2. StepOfMode(h) /\ RestoresAlone(h) /\ PastAssertion(h) /\ Reached(h)
    BY DEF StepOfMode, RestoresAlone, Restoring, PastAssertion, Reached
  <2> QED
    BY <2>1, <2>2 DEF HostInv
<1> QED
  BY <1>2, <1>4, <1>5 DEF Inv
-----------------------------------------------------------------------------
(* Steps that leave the directories alone. *)

\* What a step of one Host leaves another Host with.
LEMMA BystanderKept ==
    ASSUME Inv, NEW h \in Hosts, NEW g \in Hosts \ {h},
           UNCHANGED <<live, txn>>, host'[g] = host[g],
           \A f \in Hosts \ {h} : host'[f] = host[f],
           lock' = g <=> lock = g,
           host[h].mode # "down" \/ ~Restoring(g)
    PROVE  HostInv(g)'
<1> USE DEF At, Cur
<1>1. HostInv(g)
  BY DEF Inv
<1>2. Blocking' = Blocking
  BY DEF Blocking
<1>3. LockHeld(g)' /\ StepOfMode(g)'
  BY <1>1, <1>2 DEF HostInv, LockHeld, StepOfMode
<1>4. RestoresAlone(g)'
  <2> SUFFICES ASSUME Restoring(g)', NEW f \in Hosts \ {g} PROVE host'[f].mode = "down"
    BY DEF RestoresAlone
  <2>1. Restoring(g)
    BY DEF Restoring
  <2>2. host[f].mode = "down" /\ host[h].mode = "down"
    BY <1>1, <2>1 DEF HostInv, RestoresAlone
  <2> QED
    BY <2>1, <2>2
<1>5. PastAssertion(g)' /\ Reached(g)'
  BY <1>1, <1>2 DEF HostInv, PastAssertion, Reached
<1> QED
  BY <1>1, <1>3, <1>4, <1>5 DEF HostInv

\* Only the Host that steps has anything to show.
LEMMA HostStep ==
    ASSUME Inv, NEW h \in Hosts, NEW new \in HostState,
           UNCHANGED <<live, txn>>,
           host' = [host EXCEPT ![h] = new],
           lock' \in Hosts \cup {None},
           \A g \in Hosts \ {h} : lock' = g <=> lock = g,
           host[h].mode # "down" \/ (\A g \in Hosts : ~Restoring(g)),
           crashes' \in 0 .. MaxCrashes, faults' \in 0 .. MaxFaults,
           host'[h] = new => HostInv(h)'
    PROVE  Inv'
<1>1. host'[h] = new /\ (\A g \in Hosts \ {h} : host'[g] = host[g])
  BY DEF Inv, TypeOK
<1>2. TypeOK'
  BY DEF Inv, TypeOK
<1>3. DataInv'
  <2>1. Blocking' = Blocking
    BY DEF Blocking
  <2>2. DataInv
    BY DEF Inv
  <2>3. OneOpen' /\ LiveOrBetween' /\ Origins'
    BY <2>1, <2>2 DEF DataInv, OneOpen, LiveOrBetween, Origins
  <2>4. \A r \in Restores : Shape(r)'
    BY <2>2 DEF DataInv, Shape, Exact
  <2> QED
    BY <2>3, <2>4 DEF DataInv
<1>4. ASSUME NEW g \in Hosts PROVE HostInv(g)'
  <2>1. CASE g = h
    BY <1>1, <2>1
  <2>2. CASE g # h
    BY <1>1, <2>2, BystanderKept
  <2> QED
    BY <2>1, <2>2
<1> QED
  BY <1>2, <1>3, <1>4 DEF Inv

LEMMA UnlockedKeeps ==
    ASSUME Inv, NEW h \in Hosts, lock' = Unlocked(h)
    PROVE  /\ lock' \in Hosts \cup {None} /\ lock' # h
           /\ \A g \in Hosts \ {h} : lock' = g <=> lock = g
BY RestoreAssumption DEF Unlocked, Inv, TypeOK

\* A start that ends as a recovery Host, and one that does not come up.
LEMMA RefuseKeeps ==
    ASSUME Inv, NEW h \in Hosts,
           NEW cause \in Causes \ {"ambiguous", "mismatch", "occupied", "several"},
           Refuse(h, cause), UNCHANGED <<live, txn>>, host[h].mode # "down",
           crashes' \in 0 .. MaxCrashes, faults' \in 0 .. MaxFaults
    PROVE  Inv'
<1> DEFINE new == [mode |-> "recovery", pc |-> "idle", cur |-> None, why |-> cause]
<1>1. new \in HostState
  BY DEF HostState, Steps
<1>2. host' = [host EXCEPT ![h] = new] /\ lock' = Unlocked(h)
  BY DEF Refuse
<1>3. /\ lock' \in Hosts \cup {None} /\ lock' # h
      /\ \A g \in Hosts \ {h} : lock' = g <=> lock = g
  BY <1>2, UnlockedKeeps
<1>4. ASSUME host'[h] = new PROVE HostInv(h)'
  BY <1>3, <1>4 DEF HostInv, LockHeld, StepOfMode, RestoresAlone, Restoring, PastAssertion,
     Reached, At, Cur, LockSteps, StagingSteps, SharedSteps
<1> QED
  BY <1>1, <1>2, <1>3, <1>4, HostStep

LEMMA FailStartKeeps ==
    ASSUME Inv, NEW h \in Hosts,
           FailStart(h), UNCHANGED <<live, txn>>, host[h].mode # "down",
           crashes' \in 0 .. MaxCrashes, faults' \in 0 .. MaxFaults
    PROVE  Inv'
<1>1. Stopped \in HostState
  BY DEF Stopped, HostState, Steps, Causes
<1>2. host' = [host EXCEPT ![h] = Stopped] /\ lock' = Unlocked(h)
  BY DEF FailStart
<1>3. /\ lock' \in Hosts \cup {None} /\ lock' # h
      /\ \A g \in Hosts \ {h} : lock' = g <=> lock = g
  BY <1>2, UnlockedKeeps
<1>4. ASSUME host'[h] = Stopped PROVE HostInv(h)'
  BY <1>3, <1>4 DEF HostInv, LockHeld, StepOfMode, RestoresAlone, Restoring, PastAssertion,
     Reached, At, Cur, LockSteps, StagingSteps, SharedSteps, Stopped
<1> QED
  BY <1>1, <1>2, <1>3, <1>4, HostStep

\* A Host that is at a step is not down.
LEMMA UpAtStep ==
    ASSUME Inv, NEW h \in Hosts, host[h].pc # "idle"
    PROVE  host[h].mode # "down"
BY DEF Inv, HostInv, StepOfMode

\* A Host that moves and keeps its lock.
LEMMA MoveKeeps ==
    ASSUME Inv, NEW h \in Hosts, NEW step \in Steps,
           Goto(h, step), UNCHANGED <<live, txn, lock, bounds>>, host[h].pc # "idle",
           host'[h] = [host[h] EXCEPT !.pc = step] => HostInv(h)'
    PROVE  Inv'
<1> DEFINE new == [host[h] EXCEPT !.pc = step]
<1>1. new \in HostState
  BY DEF HostState, Inv, TypeOK
<1>2. host' = [host EXCEPT ![h] = new]
  BY DEF Goto
<1>3. host[h].mode # "down"
  BY UpAtStep
<1> HIDE DEF new
<1>4. /\ lock' \in Hosts \cup {None} /\ (\A g \in Hosts \ {h} : lock' = g <=> lock = g)
      /\ crashes' \in 0 .. MaxCrashes /\ faults' \in 0 .. MaxFaults
  BY DEF Inv, TypeOK, bounds
<1>5. host'[h] = new => HostInv(h)'
  BY DEF new
<1> QED
  BY <1>1, <1>2, <1>3, <1>4, <1>5, HostStep
-----------------------------------------------------------------------------
(* The start of a Host. *)

\* The holder of the lock works on the one restore that is open.
LEMMA LockOwnsOpen ==
    ASSUME Inv, NEW h \in Hosts, host[h].pc \in LockSteps
    PROVE  lock = h /\ Cur(h) \in Restores /\ Blocking = {Cur(h)}
<1>1. lock = h /\ Cur(h) \in Blocking
  BY DEF Inv, HostInv, LockHeld
<1> QED
  BY <1>1 DEF Inv, DataInv, OneOpen, Blocking

\* What reconcileObservedTransaction finds: its table has a row for it.
LEMMA RemedyFits ==
    ASSUME Inv, NEW h \in Hosts, At(h, "reconcile")
    PROVE  LET t == txn[Cur(h)]
           IN \/ /\ Remedy(Cur(h)) = "retain"
                 /\ t.phase \in {"staging", "candidate_ready"} /\ live # None
              \/ /\ Remedy(Cur(h)) = "complete"
                 /\ t.phase \in {"candidate_ready", "live_displaced"} /\ live = None
              \/ /\ Remedy(Cur(h)) = "check"
                 /\ t.phase \in {"live_displaced", "activated"} /\ live # None
              \/ Remedy(Cur(h)) = "core"
<1> DEFINE r == Cur(h)
<1>1. r \in Restores /\ Blocking = {r}
  BY LockOwnsOpen DEF At, LockSteps
<1> HIDE DEF r
<1>2. Shape(r) /\ txn[r].phase # "unmarked"
  BY <1>1 DEF Inv, DataInv, HostInv, Reached, r
<1>3. txn[r].phase \in {"staging", "candidate_ready", "live_displaced", "activated", "reprojecting"}
  <2>1. txn[r].phase \in Phases
    BY <1>1 DEF Inv, TypeOK, Transaction
  <2>2. txn[r].phase \notin {"unused", "aborted", "reconciled"}
    BY <1>1 DEF Blocking
  <2> QED
    BY <1>2, <2>1, <2>2 DEF Phases
<1>4. live = None => txn[r].phase \in {"candidate_ready", "live_displaced"}
  BY <1>1 DEF Inv, DataInv, LiveOrBetween
<1>5. CASE txn[r].phase = "staging"
  BY <1>2, <1>4, <1>5 DEF Remedy, Shape, r
<1>6. CASE txn[r].phase = "candidate_ready"
  BY <1>2, <1>6 DEF Remedy, Shape, Exact, r
<1>7. CASE txn[r].phase = "live_displaced"
  BY <1>2, <1>7 DEF Remedy, Shape, Exact, r
<1>8. CASE txn[r].phase = "activated"
  BY <1>2, <1>4, <1>8 DEF Remedy, Shape, Exact, r
<1>9. CASE txn[r].phase = "reprojecting"
  BY <1>9 DEF Remedy, r
<1> QED
  BY <1>3, <1>5, <1>6, <1>7, <1>8, <1>9

LEMMA BootKeeps ==
    ASSUME Inv, NEW h \in Hosts, Boot(h)
    PROVE  Inv'
<1> USE DEF Boot
<1> DEFINE new == [host[h] EXCEPT !.mode = "boot", !.pc = "scan"]
<1>1. new \in HostState
  BY DEF Inv, TypeOK, HostState, Steps, StartupSteps
<1>2. host' = [host EXCEPT ![h] = new]
  BY DEF Inv, TypeOK, HostState
<1>3. host[h].cur = None /\ host[h].pc = "idle" /\ lock # h
  BY DEF Inv, HostInv, StepOfMode, Cur, LockHeld, LockSteps, StagingSteps, SharedSteps
<1>4. ASSUME host'[h] = new PROVE HostInv(h)'
  <2>1. /\ host'[h].mode = "boot" /\ host'[h].pc = "scan" /\ host'[h].cur = None
        /\ host'[h].why = host[h].why
    BY <1>3, <1>4 DEF Inv, TypeOK, HostState
  <2> QED
    BY <1>3, <2>1 DEF Inv, HostInv, LockHeld, StepOfMode, RestoresAlone, Restoring, PastAssertion,
       Reached, At, Cur, LockSteps, StagingSteps, SharedSteps, StartupSteps
<1> HIDE DEF new
<1> QED
  BY <1>1, <1>2, <1>4, HostStep DEF Inv, TypeOK, bounds

LEMMA ScanKeeps ==
    ASSUME Inv, NEW h \in Hosts, Scan(h)
    PROVE  Inv'
<1> USE DEF Scan, At
<1>1. host[h].mode # "down" /\ host[h].mode = "boot" /\ lock # h /\ Cur(h) = None
  BY DEF Inv, TypeOK, HostState, HostInv, StepOfMode, LockHeld, LockSteps, StagingSteps, SharedSteps
<1>2. crashes' \in 0 .. MaxCrashes /\ faults' \in 0 .. MaxFaults
  BY DEF Inv, TypeOK, bounds
<1>3. CASE Refuse(h, "unreadable")
  BY <1>1, <1>2, <1>3, RefuseKeeps DEF Causes
<1>4. CASE ~Unreadable /\ Blocking = {}
  <2>1. Goto(h, "core") /\ UNCHANGED <<live, txn, lock, bounds>>
    BY <1>4
  <2>2. ASSUME host'[h] = [host[h] EXCEPT !.pc = "core"] PROVE HostInv(h)'
    <3>1. /\ host'[h].mode = "boot" /\ host'[h].pc = "core" /\ host'[h].cur = None
          /\ host'[h].why = host[h].why
      BY <1>1, <2>2 DEF Inv, TypeOK, HostState, Cur
    <3> QED
      BY <1>1, <2>1, <3>1 DEF Inv, HostInv, LockHeld, StepOfMode, RestoresAlone, Restoring, PastAssertion,
         Reached, Cur, LockSteps, StagingSteps, SharedSteps, StartupSteps
  <2> QED
    BY <2>1, <2>2, MoveKeeps DEF Steps, StartupSteps
<1>5. CASE ~Unreadable /\ Blocking # {}
  <2> DEFINE r == CHOOSE r \in Blocking : TRUE
             new == [host[h] EXCEPT !.pc = "lock", !.cur = r]
  <2>1. r \in Restores /\ Blocking = {r}
    BY <1>5 DEF Inv, DataInv, OneOpen, Blocking
  <2>2. Cardinality(Blocking) = 1
    BY <2>1, FS_Singleton
  <2> HIDE DEF r
  <2>3. host' = [host EXCEPT ![h] = new] /\ UNCHANGED lock
    BY <1>5, <2>2 DEF Inv, TypeOK, HostState, r
  <2>4. new \in HostState
    BY <2>1 DEF Inv, TypeOK, HostState, Steps, StartupSteps
  <2>5. ASSUME host'[h] = new PROVE HostInv(h)'
    <3>1. /\ host'[h].mode = "boot" /\ host'[h].pc = "lock" /\ host'[h].cur = r
          /\ host'[h].why = host[h].why
      BY <1>1, <2>5 DEF Inv, TypeOK, HostState
    <3> QED
      BY <1>1, <2>1, <2>3, <3>1 DEF Inv, HostInv, LockHeld, StepOfMode, RestoresAlone, Restoring, PastAssertion,
         Reached, Cur, LockSteps, StagingSteps, SharedSteps, StartupSteps
  <2> HIDE DEF new
  <2> QED
    BY <1>1, <1>2, <2>3, <2>4, <2>5, HostStep DEF Inv, TypeOK
<1> QED
  BY <1>3, <1>4, <1>5

LEMMA LockProfileKeeps ==
    ASSUME Inv, NEW h \in Hosts, LockProfile(h)
    PROVE  Inv'
<1> USE DEF LockProfile, At
<1>1. /\ host[h].mode = "boot" /\ Cur(h) \in Restores
      /\ crashes' \in 0 .. MaxCrashes /\ faults' \in 0 .. MaxFaults
  BY DEF Inv, TypeOK, HostState, HostInv, StepOfMode, StagingSteps, SharedSteps, bounds
<1>2. CASE Refuse(h, "locked") \/ Refuse(h, "changed")
  BY <1>1, <1>2, RefuseKeeps DEF Causes
<1>3. CASE lock = None /\ ~Unreadable /\ Blocking = {Cur(h)}
  <2> DEFINE new == [host[h] EXCEPT !.pc = "reconcile"]
  <2>1. host' = [host EXCEPT ![h] = new] /\ lock' = h
    BY <1>3 DEF Goto
  <2>2. new \in HostState
    BY DEF Inv, TypeOK, HostState, Steps, StartupSteps
  <2>3. \A g \in Hosts \ {h} : lock' = g <=> lock = g
    BY <1>3, <2>1, RestoreAssumption
  <2>4. ASSUME host'[h] = new PROVE HostInv(h)'
    <3>1. /\ host'[h].mode = "boot" /\ host'[h].pc = "reconcile" /\ host'[h].cur = Cur(h)
          /\ host'[h].why = host[h].why
      BY <1>1, <2>4 DEF Inv, TypeOK, HostState, Cur
    <3>2. txn[Cur(h)].phase # "unmarked"
      BY <1>1, <1>3 DEF Unreadable
    <3>3. LockHeld(h)' /\ Reached(h)'
      BY <1>3, <2>1, <3>1, <3>2 DEF LockHeld, LockSteps, Blocking, Reached, Cur
    <3>4. StepOfMode(h)' /\ RestoresAlone(h)' /\ PastAssertion(h)'
      BY <3>1 DEF StepOfMode, RestoresAlone, Restoring, PastAssertion, StartupSteps
    <3> QED
      BY <3>1, <3>3, <3>4 DEF Inv, HostInv
  <2> HIDE DEF new
  <2> QED
    BY <1>1, <2>1, <2>2, <2>3, <2>4, HostStep
<1> QED
  BY <1>2, <1>3

LEMMA ReconcileKeeps ==
    ASSUME Inv, NEW h \in Hosts, Reconcile(h)
    PROVE  Inv'
<1> USE DEF Reconcile
<1> DEFINE remedy == Remedy(Cur(h))
<1>1. /\ At(h, "reconcile") /\ host[h].pc # "idle" /\ host[h].mode = "boot"
      /\ crashes' \in 0 .. MaxCrashes /\ faults' \in 0 .. MaxFaults
  BY DEF At, Inv, TypeOK, HostState, HostInv, StepOfMode, StagingSteps, SharedSteps, bounds
<1>2. /\ lock = h /\ Cur(h) \in Restores /\ Blocking = {Cur(h)}
      /\ host[h].why \notin {"ambiguous", "mismatch", "occupied", "several"}
  BY <1>1, LockOwnsOpen DEF At, LockSteps, Inv, HostInv
<1>3. CASE remedy = "core"
  <2>1. CASE live = None \/ ~live.db
    BY <1>1, <1>3, <2>1, RefuseKeeps DEF Causes
  <2>2. CASE live # None /\ live.db
    <3> DEFINE new == [host[h] EXCEPT !.pc = "core", !.cur = None]
    <3>1. host' = [host EXCEPT ![h] = new] /\ lock' = None
      BY <1>3, <2>2 DEF Inv, TypeOK, HostState
    <3>2. new \in HostState
      BY DEF Inv, TypeOK, HostState, Steps, StartupSteps
    <3>3. \A g \in Hosts \ {h} : lock' = g <=> lock = g
      BY <1>2, <3>1, RestoreAssumption
    <3>4. ASSUME host'[h] = new PROVE HostInv(h)'
      <4>1. /\ host'[h].mode = "boot" /\ host'[h].pc = "core" /\ host'[h].cur = None
            /\ host'[h].why = host[h].why /\ lock' # h
        BY <1>1, <3>1, <3>4, RestoreAssumption DEF Inv, TypeOK, HostState
      <4> QED
        BY <1>2, <4>1 DEF HostInv, LockHeld, StepOfMode, RestoresAlone, Restoring, PastAssertion,
           Reached, At, Cur, LockSteps, StagingSteps, SharedSteps, StartupSteps
    <3> HIDE DEF new
    <3> QED
      BY <1>1, <3>1, <3>2, <3>3, <3>4, HostStep, RestoreAssumption
  <2> QED
    BY <2>1, <2>2
<1>4. CASE remedy \in {"retain", "complete", "check"}
  <2>1. Goto(h, remedy) /\ UNCHANGED <<live, txn, lock, bounds>>
    BY <1>4
  <2>2. ASSUME host'[h] = [host[h] EXCEPT !.pc = remedy] PROVE HostInv(h)'
    <3>1. /\ host'[h].mode = "boot" /\ host'[h].pc = remedy /\ host'[h].cur = Cur(h)
          /\ host'[h].why = host[h].why
      BY <1>1, <2>2 DEF Inv, TypeOK, HostState, Cur
    <3> HIDE DEF remedy
    <3>2. LockHeld(h)'
      BY <1>2, <1>4, <2>1, <3>1 DEF LockHeld, LockSteps, SharedSteps, Blocking, Cur
    <3>3. StepOfMode(h)' /\ RestoresAlone(h)' /\ PastAssertion(h)'
      BY <1>4, <3>1 DEF StepOfMode, RestoresAlone, Restoring, PastAssertion, StartupSteps, SharedSteps
    <3>4. Reached(h)'
      <4>1. UNCHANGED <<live, txn>> /\ Cur(h)' = Cur(h)
        BY <2>1, <3>1 DEF Cur
      <4>2. \/ /\ remedy = "retain"
               /\ txn[Cur(h)].phase \in {"staging", "candidate_ready"} /\ live # None
            \/ /\ remedy = "complete"
               /\ txn[Cur(h)].phase \in {"candidate_ready", "live_displaced"} /\ live = None
            \/ /\ remedy = "check"
               /\ txn[Cur(h)].phase \in {"live_displaced", "activated"} /\ live # None
        BY <1>1, <1>4, RemedyFits DEF remedy
      <4> QED
        BY <3>1, <4>1, <4>2 DEF Reached, At
    <3> QED
      BY <1>2, <3>1, <3>2, <3>3, <3>4 DEF HostInv
  <2>3. remedy \in Steps
    BY <1>4 DEF Steps, StartupSteps, SharedSteps
  <2> HIDE DEF remedy
  <2> QED
    BY <1>1, <2>1, <2>2, <2>3, MoveKeeps
<1> QED
  BY <1>1, <1>3, <1>4, RemedyFits

LEMMA CompleteKeeps ==
    ASSUME Inv, NEW h \in Hosts, Complete(h)
    PROVE  Inv'
<1> USE DEF Complete
<1>1. host[h].pc = "complete" /\ host[h].pc # "idle" /\ host[h].mode = "boot"
  BY DEF At, Inv, TypeOK, HostState, HostInv, StepOfMode, StagingSteps, SharedSteps
<1>2. /\ lock = h /\ Cur(h) \in Restores /\ Blocking = {Cur(h)}
      /\ host[h].why \notin {"ambiguous", "mismatch", "occupied", "several"}
  BY <1>1, LockOwnsOpen DEF LockSteps, Inv, HostInv
<1>3. txn[Cur(h)].phase \in {"candidate_ready", "live_displaced"} /\ live = None
  BY <1>1 DEF Inv, HostInv, Reached
<1>4. Verified(txn[Cur(h)].staged)
  BY <1>2, <1>3 DEF Inv, DataInv, Shape, Exact, Verified
<1>5. Goto(h, "displaced") /\ UNCHANGED <<live, txn, lock, bounds>>
  BY <1>4
<1>6. ASSUME host'[h] = [host[h] EXCEPT !.pc = "displaced"] PROVE HostInv(h)'
  <2>1. /\ host'[h].mode = "boot" /\ host'[h].pc = "displaced" /\ host'[h].cur = Cur(h)
        /\ host'[h].why = host[h].why
    BY <1>1, <1>6 DEF Inv, TypeOK, HostState, Cur
  <2>2. LockHeld(h)' /\ Reached(h)'
    BY <1>2, <1>3, <1>5, <2>1 DEF LockHeld, LockSteps, SharedSteps, Blocking, Reached, At, Cur
  <2>3. StepOfMode(h)' /\ RestoresAlone(h)' /\ PastAssertion(h)'
    BY <2>1 DEF StepOfMode, RestoresAlone, Restoring, PastAssertion, StartupSteps, SharedSteps
  <2> QED
    BY <1>2, <2>1, <2>2, <2>3 DEF HostInv
<1> QED
  BY <1>1, <1>5, <1>6, MoveKeeps DEF Steps, SharedSteps

LEMMA StartCoreKeeps ==
    ASSUME Inv, NEW h \in Hosts, StartCore(h)
    PROVE  Inv'
<1> USE DEF StartCore
<1>1. /\ host[h].pc = "core" /\ host[h].mode = "boot" /\ Cur(h) = None /\ lock # h
      /\ host[h].why \notin {"ambiguous", "mismatch", "occupied", "several"}
      /\ crashes' \in 0 .. MaxCrashes /\ faults' \in 0 .. MaxFaults
  BY DEF At, Inv, TypeOK, HostState, HostInv, StepOfMode, LockHeld, LockSteps, StagingSteps, SharedSteps, bounds
<1>2. CASE \E cause \in {"unreadable", "database", "changed"} : Refuse(h, cause)
  BY <1>1, <1>2, RefuseKeeps DEF Causes
<1>3. CASE live # None /\ live.db /\ Blocking = {} /\ Goto(h, "open") /\ UNCHANGED lock
  <2>1. ASSUME host'[h] = [host[h] EXCEPT !.pc = "open"] PROVE HostInv(h)'
    <3>1. /\ host'[h].mode = "boot" /\ host'[h].pc = "open" /\ host'[h].cur = None
          /\ host'[h].why = host[h].why /\ lock' # h
      BY <1>1, <1>3, <2>1 DEF Inv, TypeOK, HostState, Cur
    <3> QED
      BY <1>1, <1>3, <3>1 DEF HostInv, LockHeld, StepOfMode, RestoresAlone, Restoring, PastAssertion,
         Reached, At, Cur, LockSteps, StagingSteps, SharedSteps, StartupSteps, Blocking
  <2> QED
    BY <1>1, <1>3, <2>1, MoveKeeps DEF Steps, StartupSteps
<1>4. CASE /\ live # None /\ live.db /\ UNCHANGED lock
           /\ \E r \in Restores : Blocking = {r} /\ txn[r].phase = "reprojecting"
           /\ host' = [host EXCEPT ![h].pc = "open", ![h].cur = CHOOSE r \in Blocking : TRUE]
  <2>1. PICK r \in Restores : Blocking = {r} /\ txn[r].phase = "reprojecting"
    BY <1>4
  <2> DEFINE new == [host[h] EXCEPT !.pc = "open", !.cur = r]
  <2>2. host' = [host EXCEPT ![h] = new]
    BY <1>4, <2>1 DEF Inv, TypeOK, HostState
  <2>3. new \in HostState
    BY DEF Inv, TypeOK, HostState, Steps, StartupSteps
  <2>4. ASSUME host'[h] = new PROVE HostInv(h)'
    <3>1. /\ host'[h].mode = "boot" /\ host'[h].pc = "open" /\ host'[h].cur = r
          /\ host'[h].why = host[h].why /\ lock' # h /\ r # None
      BY ZenonT(60), <1>1, <1>4, <2>4, RestoreAssumption DEF Inv, TypeOK, HostState
    <3>2. Blocking' = {r} /\ txn' = txn /\ live' = live
      BY <2>1 DEF Blocking
    <3> QED
      BY <1>1, <1>4, <2>1, <3>1, <3>2 DEF HostInv, LockHeld, StepOfMode, RestoresAlone, Restoring,
         PastAssertion, Reached, At, Cur, LockSteps, StagingSteps, SharedSteps, StartupSteps
  <2> HIDE DEF new
  <2> QED
    BY ZenonT(60), <1>1, <1>4, <2>2, <2>3, <2>4, HostStep DEF Inv, TypeOK
<1> QED
  BY <1>2, <1>3, <1>4

LEMMA LockReopenKeeps ==
    ASSUME Inv, NEW h \in Hosts, LockReopen(h)
    PROVE  Inv'
<1> USE DEF LockReopen
<1>1. /\ host[h].pc = "finalize" /\ host[h].mode = "boot" /\ Cur(h) # None
      /\ host[h].why \notin {"ambiguous", "mismatch", "occupied", "several"}
      /\ crashes' \in 0 .. MaxCrashes /\ faults' \in 0 .. MaxFaults
  BY DEF At, Inv, TypeOK, HostState, HostInv, StepOfMode, StagingSteps, SharedSteps, bounds
<1>2. CASE FailStart(h)
  BY <1>1, <1>2, FailStartKeeps
<1>3. CASE /\ lock = None /\ Blocking = {Cur(h)} /\ txn[Cur(h)].phase = "reprojecting"
           /\ lock' = h /\ Goto(h, "reindex")
  <2> DEFINE new == [host[h] EXCEPT !.pc = "reindex"]
  <2>1. host' = [host EXCEPT ![h] = new]
    BY <1>3 DEF Goto
  <2>2. new \in HostState
    BY DEF Inv, TypeOK, HostState, Steps, StartupSteps
  <2>3. \A g \in Hosts \ {h} : lock' = g <=> lock = g
    BY <1>3, RestoreAssumption
  <2>4. ASSUME host'[h] = new PROVE HostInv(h)'
    <3>1. /\ host'[h].mode = "boot" /\ host'[h].pc = "reindex" /\ host'[h].cur = Cur(h)
          /\ host'[h].why = host[h].why
      BY <1>1, <2>4 DEF Inv, TypeOK, HostState, Cur
    <3>2. Blocking' = Blocking
      BY DEF Blocking
    <3>3. LockHeld(h)' /\ Reached(h)'
      BY <1>3, <3>1, <3>2 DEF LockHeld, LockSteps, Reached, At, Cur
    <3>4. StepOfMode(h)' /\ RestoresAlone(h)'
      BY <1>1, <3>1 DEF StepOfMode, RestoresAlone, Restoring, StartupSteps
    <3>5. PastAssertion(h)'
      BY <1>1, <3>1, <3>2 DEF Inv, HostInv, PastAssertion
    <3> QED
      BY <1>1, <3>1, <3>3, <3>4, <3>5 DEF HostInv
  <2> HIDE DEF new
  <2> QED
    BY <1>1, <1>3, <2>1, <2>2, <2>3, <2>4, HostStep
<1> QED
  BY <1>2, <1>3
-----------------------------------------------------------------------------
(* Steps that change a directory or a marker. *)

\* One transaction changes, and no other one is open.
LEMMA DataStep ==
    ASSUME Inv, NEW r \in Restores, Blocking \subseteq {r},
           NEW t \in Transaction, txn' = [txn EXCEPT ![r] = t],
           t.phase # "unused", live' \in Directory,
           live' = None => t.phase \in {"candidate_ready", "live_displaced"},
           Shape(r)', Origins'
    PROVE  DataInv' /\ txn' \in [Restores -> Transaction] /\ Blocking' \subseteq {r}
<1>1. txn' \in [Restores -> Transaction] /\ txn'[r] = t /\ \A s \in Restores \ {r} : txn'[s] = txn[s]
  BY DEF Inv, TypeOK
<1>2. Blocking' \subseteq {r} /\ (r \in Blocking' <=> t.phase \notin {"aborted", "reconciled"})
  BY <1>1 DEF Blocking
<1>3. OneOpen' /\ LiveOrBetween'
  BY <1>1, <1>2 DEF OneOpen, LiveOrBetween
<1>4. ASSUME NEW s \in Restores, s # r PROVE Shape(s)'
  <2>1. Shape(s) /\ txn'[s] = txn[s] /\ txn[s].phase \in {"unused", "aborted", "reconciled"}
    BY <1>1, <1>4 DEF Inv, DataInv, Blocking
  <2> QED
    BY <2>1 DEF Shape
<1> QED
  BY <1>1, <1>2, <1>3, <1>4 DEF DataInv

\* No profile appears under another origin.
LEMMA OriginsKept ==
    ASSUME Inv, NEW r \in Restores, NEW t \in Transaction, txn' = [txn EXCEPT ![r] = t],
           t.phase # "unused",
           t.staged # None => txn[r].staged # None \/ txn[r].phase = "unused",
           t.displaced # None => txn[r].displaced # None /\ t.displaced.of = txn[r].displaced.of,
           live' # None => live # None /\ live'.of = live.of
    PROVE  Origins'
<1>1. Origins /\ txn'[r] = t /\ \A s \in Restores \ {r} : txn'[s] = txn[s]
  BY DEF Inv, DataInv, TypeOK
<1> SUFFICES ASSUME NEW q \in Restores, txn'[q].phase = "unused" \/ txn'[q].staged # None
             PROVE  /\ live' # None => live'.of # q
                    /\ \A s \in Restores : txn'[s].displaced # None => txn'[s].displaced.of # q
  BY DEF Origins
<1>2. txn[q].phase = "unused" \/ txn[q].staged # None
  BY <1>1
<1>3. /\ live # None => live.of # q
      /\ \A s \in Restores : txn[s].displaced # None => txn[s].displaced.of # q
  BY <1>1, <1>2 DEF Origins
<1> QED
  BY <1>1, <1>3

\* A step of the Host that holds the lock: what is left to show of the others
\* is what they know past the assertion of their start.
LEMMA LockStep ==
    ASSUME Inv, NEW h \in Hosts, host[h].pc \in LockSteps,
           NEW new \in HostState, host' = [host EXCEPT ![h] = new],
           lock' \in {h, None}, UNCHANGED bounds,
           live' \in Directory, txn' \in [Restores -> Transaction], DataInv',
           host'[h] = new => HostInv(h)',
           Restoring(h) \/ \A g \in Hosts \ {h} : PastAssertion(g) /\ host'[g] = host[g] => PastAssertion(g)'
    PROVE  Inv'
<1>1. host'[h] = new /\ (\A g \in Hosts \ {h} : host'[g] = host[g])
  BY DEF Inv, TypeOK
<1>2. lock = h
  BY LockOwnsOpen
<1>3. TypeOK'
  BY DEF Inv, TypeOK, bounds
<1>4. ASSUME NEW g \in Hosts, g # h PROVE HostInv(g)'
  <2>1. HostInv(g) /\ host'[g] = host[g] /\ host[g].pc \notin LockSteps /\ lock' # g
    BY <1>1, <1>2, <1>4, RestoreAssumption DEF Inv, HostInv, LockHeld
  <2>2. LockHeld(g)' /\ StepOfMode(g)' /\ RestoresAlone(g)' /\ Reached(g)'
    BY <2>1 DEF HostInv, LockHeld, StepOfMode, RestoresAlone, Restoring, Reached, At, Cur,
       LockSteps, SharedSteps, StagingSteps
  <2>3. PastAssertion(g)'
    <3>1. CASE Restoring(h)
      <4>1. host[g].mode = "down" /\ host[g].pc = "idle"
        BY <1>4, <2>1, <3>1 DEF Inv, HostInv, RestoresAlone, StepOfMode
      <4> QED
        BY <2>1, <4>1 DEF PastAssertion, StagingSteps
    <3>2. CASE \A f \in Hosts \ {h} : PastAssertion(f) /\ host'[f] = host[f] => PastAssertion(f)'
      BY <1>4, <2>1, <3>2 DEF HostInv
    <3> QED
      BY <3>1, <3>2
  <2> QED
    BY <2>1, <2>2, <2>3 DEF HostInv
<1> QED
  BY <1>1, <1>3, <1>4 DEF Inv

\* What another Host knows survives the steps of a start.
LEMMA AssertionKept ==
    ASSUME Inv, NEW r \in Restores, Blocking = {r},
           NEW t \in Transaction, txn' = [txn EXCEPT ![r] = t],
           NEW g \in Hosts, PastAssertion(g), host'[g] = host[g],
           \/ live = None
           \/ txn[r].phase \in {"live_displaced", "activated"}
           \/ t.phase \in {"aborted", "reconciled"} /\ UNCHANGED live
    PROVE  PastAssertion(g)'
<1>1. txn'[r] = t /\ \A s \in Restores \ {r} : txn'[s] = txn[s]
  BY DEF Inv, TypeOK
<1>2. CASE live = None \/ txn[r].phase \in {"live_displaced", "activated"}
  BY <1>2 DEF PastAssertion, Cur
<1>3. CASE t.phase \in {"aborted", "reconciled"} /\ UNCHANGED live
  <2>1. Blocking' = {}
    BY <1>1, <1>3 DEF Blocking
  <2> QED
    BY <1>3, <2>1 DEF PastAssertion, Cur
<1> QED
  BY <1>2, <1>3

\* A step on the transaction of the Host that holds the lock.
LEMMA TxnStep ==
    ASSUME Inv, NEW h \in Hosts, host[h].pc \in LockSteps,
           NEW r \in Restores, r = Cur(h),
           NEW new \in HostState, host' = [host EXCEPT ![h] = new],
           lock' \in {h, None}, UNCHANGED bounds, live' \in Directory,
           NEW t \in Transaction, txn' = [txn EXCEPT ![r] = t], t.phase # "unused",
           live' = None => t.phase \in {"candidate_ready", "live_displaced"},
           txn'[r] = t => Shape(r)',
           Origins',
           host'[h] = new /\ txn'[r] = t /\ Blocking' \subseteq {r} => HostInv(h)',
           \/ Restoring(h)
           \/ live = None
           \/ txn[r].phase \in {"live_displaced", "activated"}
           \/ t.phase \in {"aborted", "reconciled"} /\ UNCHANGED live
    PROVE  Inv'
<1>1. txn'[r] = t /\ Blocking = {r} /\ host'[h] = new
  BY LockOwnsOpen DEF Inv, TypeOK
<1>2. DataInv' /\ txn' \in [Restores -> Transaction] /\ Blocking' \subseteq {r}
  BY <1>1, DataStep
<1>3. HostInv(h)'
  BY <1>1, <1>2
<1>4. Restoring(h) \/ \A g \in Hosts \ {h} : PastAssertion(g) /\ host'[g] = host[g] => PastAssertion(g)'
  BY <1>1, AssertionKept
<1> QED
  BY <1>2, <1>3, <1>4, LockStep

LEMMA RetainKeeps ==
    ASSUME Inv, NEW h \in Hosts, Retain(h)
    PROVE  Inv'
<1> USE DEF Retain
<1>1. /\ host[h].pc = "retain" /\ host[h].mode = "boot" /\ host[h].pc \in LockSteps
      /\ host[h].why \notin {"ambiguous", "mismatch", "occupied", "several"}
      /\ crashes' \in 0 .. MaxCrashes /\ faults' \in 0 .. MaxFaults
  BY DEF At, Inv, TypeOK, HostState, HostInv, StepOfMode, StagingSteps, SharedSteps, bounds, LockSteps
<1>2. PICK r \in Restores : r = Cur(h) /\ lock = h /\ Blocking = {r}
  BY <1>1, LockOwnsOpen
<1>3. txn[r].phase \in {"staging", "candidate_ready"} /\ live # None
  BY <1>1, <1>2 DEF Inv, HostInv, Reached
<1>4. CASE ~live.db
  BY <1>1, <1>4, RefuseKeeps DEF Causes
<1>5. CASE live.db
  <2> DEFINE t == [txn[r] EXCEPT !.phase = "aborted"]
             new == [host[h] EXCEPT !.pc = "core", !.cur = None]
  <2>1. txn' = [txn EXCEPT ![r] = t] /\ host' = [host EXCEPT ![h] = new] /\ lock' = None
    BY <1>2, <1>5 DEF SetPhase, Inv, TypeOK, HostState
  <2>2. new \in HostState /\ t \in Transaction
    <3>1. host[h] \in HostState /\ "core" \in Steps /\ None \in Restores \cup {None}
      BY DEF Inv, TypeOK, Steps, StartupSteps
    <3>2. txn[r] \in Transaction /\ "aborted" \in Phases
      BY DEF Inv, TypeOK, Phases
    <3>3. new \in HostState
      BY <3>1 DEF HostState
    <3>4. t \in Transaction
      BY <3>2 DEF Transaction
    <3> QED
      BY <3>3, <3>4
  <2>3. /\ t.phase = "aborted" /\ t.staged = txn[r].staged /\ t.displaced = txn[r].displaced
        /\ new.mode = "boot" /\ new.pc = "core" /\ new.cur = None /\ new.why = host[h].why
    BY <1>1, <1>2 DEF Inv, TypeOK, HostState, Transaction
  <2> HIDE DEF t, new
  <2>4. ASSUME txn'[r] = t PROVE Shape(r)'
    <3>1. Shape(r) /\ live' = live
      BY <1>2 DEF Inv, DataInv
    <3> QED
      BY <1>3, <2>3, <2>4, <3>1 DEF Shape, Exact
  <2>5. Origins'
    BY <1>2, <2>1, <2>2, <2>3, OriginsKept
  <2>6. ASSUME host'[h] = new PROVE HostInv(h)'
    <3>1. lock' # h
      BY <2>1, RestoreAssumption
    <3> QED
      BY <1>1, <2>3, <2>6, <3>1 DEF HostInv, LockHeld, StepOfMode, RestoresAlone, Restoring,
         PastAssertion, Reached, At, Cur, LockSteps, StagingSteps, SharedSteps, StartupSteps
  <2>7. live' \in Directory /\ live' # None
    BY <1>3 DEF Inv, TypeOK
  <2> QED
    BY ZenonT(60), <1>1, <1>2, <2>1, <2>2, <2>3, <2>4, <2>5, <2>6, <2>7, TxnStep
<1> QED
  BY <1>4, <1>5

LEMMA BeginReprojectionKeeps ==
    ASSUME Inv, NEW h \in Hosts, BeginReprojection(h)
    PROVE  Inv'
<1> USE DEF BeginReprojection
<1>1. /\ host[h].pc = "reproject" /\ host[h].mode = "boot" /\ host[h].pc \in LockSteps
      /\ host[h].why \notin {"ambiguous", "mismatch", "occupied", "several"}
  BY DEF At, Inv, TypeOK, HostState, HostInv, StepOfMode, StagingSteps, SharedSteps, LockSteps
<1>2. PICK r \in Restores : r = Cur(h) /\ lock = h /\ Blocking = {r}
  BY <1>1, LockOwnsOpen
<1> DEFINE t == [txn[r] EXCEPT !.phase = "reprojecting"]
           new == [host[h] EXCEPT !.pc = "core", !.cur = None]
<1>3. txn[r].phase \in {"live_displaced", "activated"} /\ live # None
  BY <1>1, <1>2 DEF Inv, HostInv, Reached
<1>4. txn' = [txn EXCEPT ![r] = t] /\ host' = [host EXCEPT ![h] = new] /\ lock' = None
  BY <1>2 DEF SetPhase, Inv, TypeOK, HostState
<1>5. new \in HostState /\ t \in Transaction
  BY ZenonT(60), <1>2 DEF Inv, TypeOK, HostState, Steps, StartupSteps, Transaction, Phases
<1>6. /\ t.phase = "reprojecting" /\ t.staged = txn[r].staged /\ t.displaced = txn[r].displaced
      /\ new.mode = "boot" /\ new.pc = "core" /\ new.cur = None /\ new.why = host[h].why
  BY <1>1, <1>2 DEF Inv, TypeOK, HostState, Transaction
<1> HIDE DEF t, new
<1>7. ASSUME txn'[r] = t PROVE Shape(r)'
  <2>1. Shape(r) /\ live' = live
    BY <1>2 DEF Inv, DataInv
  <2> QED
    BY <1>3, <1>6, <1>7, <2>1 DEF Shape, Exact
<1>8. Origins'
  BY <1>2, <1>4, <1>5, <1>6, OriginsKept
<1>9. ASSUME host'[h] = new PROVE HostInv(h)'
  <2>1. lock' # h
    BY <1>4, RestoreAssumption
  <2> QED
    BY <1>1, <1>6, <1>9, <2>1 DEF HostInv, LockHeld, StepOfMode, RestoresAlone, Restoring,
       PastAssertion, Reached, At, Cur, LockSteps, StagingSteps, SharedSteps, StartupSteps
<1>10. live' \in Directory /\ live' # None
  BY <1>3 DEF Inv, TypeOK
<1> QED
  BY ZenonT(60), <1>1, <1>2, <1>3, <1>4, <1>5, <1>6, <1>7, <1>8, <1>9, <1>10, TxnStep

LEMMA ReindexKeeps ==
    ASSUME Inv, NEW h \in Hosts, Reindex(h)
    PROVE  Inv'
<1> USE DEF Reindex
<1>1. /\ host[h].pc = "reindex" /\ host[h].mode = "boot" /\ host[h].pc \in LockSteps
      /\ host[h].why \notin {"ambiguous", "mismatch", "occupied", "several"}
  BY DEF At, Inv, TypeOK, HostState, HostInv, StepOfMode, StagingSteps, SharedSteps, LockSteps
<1>2. PICK r \in Restores : r = Cur(h) /\ lock = h /\ Blocking = {r}
  BY <1>1, LockOwnsOpen
<1> DEFINE t == [txn[r] EXCEPT !.phase = "reconciled"]
           new == [host[h] EXCEPT !.pc = "idle", !.mode = "normal", !.cur = None]
<1>3. txn[r].phase = "reprojecting" /\ live # None /\ live.db /\ live.state = "opened"
  BY <1>1, <1>2 DEF Inv, HostInv, Reached, PastAssertion, At
<1>4. txn' = [txn EXCEPT ![r] = t] /\ host' = [host EXCEPT ![h] = new] /\ lock' = None
  BY <1>2 DEF SetPhase, Inv, TypeOK, HostState
<1>5. new \in HostState /\ t \in Transaction
  BY ZenonT(60), <1>2 DEF Inv, TypeOK, HostState, Steps, Transaction, Phases
<1>6. /\ t.phase = "reconciled" /\ t.staged = txn[r].staged /\ t.displaced = txn[r].displaced
      /\ new.mode = "normal" /\ new.pc = "idle" /\ new.cur = None /\ new.why = host[h].why
  BY <1>1, <1>2 DEF Inv, TypeOK, HostState, Transaction
<1> HIDE DEF t, new
<1>7. ASSUME txn'[r] = t PROVE Shape(r)'
  <2>1. Shape(r) /\ live' = live
    BY <1>2 DEF Inv, DataInv
  <2> QED
    BY <1>3, <1>6, <1>7, <2>1 DEF Shape, Exact
<1>8. Origins'
  BY <1>2, <1>4, <1>5, <1>6, OriginsKept
<1>9. ASSUME host'[h] = new, txn'[r] = t, Blocking' \subseteq {r} PROVE HostInv(h)'
  <2>1. lock' # h /\ Blocking' = {} /\ live' = live
    BY <1>4, <1>6, <1>9, RestoreAssumption DEF Blocking
  <2> QED
    BY <1>1, <1>3, <1>6, <1>9, <2>1 DEF HostInv, LockHeld, StepOfMode, RestoresAlone, Restoring,
       PastAssertion, Reached, At, Cur, LockSteps, StagingSteps, SharedSteps, StartupSteps
<1>10. live' \in Directory /\ live' # None /\ UNCHANGED live
  BY <1>3 DEF Inv, TypeOK
<1>11. /\ t.phase \in {"aborted", "reconciled"} /\ t.phase # "unused"
       /\ lock' \in {h, None} /\ UNCHANGED bounds
  BY <1>4, <1>6
<1> HIDE DEF Reindex
<1> QED
  BY ZenonT(60), <1>1, <1>2, <1>4, <1>5, <1>7, <1>8, <1>9, <1>10, <1>11, TxnStep

\* A step that works on the profile in place.
LEMMA LiveStep ==
    ASSUME Inv, NEW h \in Hosts, host[h].mode # "down",
           NEW new \in HostState, host' = [host EXCEPT ![h] = new],
           UNCHANGED <<txn, lock, bounds>>,
           live # None, live' \in Profile, live'.of = live.of, live'.db = live.db,
           live.state = "opened" => live'.state = "opened",
           \A r \in Blocking : txn[r].phase \notin {"live_displaced", "activated"},
           host'[h] = new => HostInv(h)'
    PROVE  Inv'
<1>1. host'[h] = new /\ (\A g \in Hosts \ {h} : host'[g] = host[g]) /\ live' # None
  BY NoneAssumption DEF Inv, TypeOK
<1>2. Blocking' = Blocking
  BY DEF Blocking
<1>3. TypeOK'
  BY DEF Inv, TypeOK, bounds, Directory
<1>4. DataInv'
  <2>1. OneOpen' /\ LiveOrBetween' /\ Origins'
    BY <1>1, <1>2 DEF Inv, DataInv, OneOpen, LiveOrBetween, Origins
  <2>2. ASSUME NEW r \in Restores PROVE Shape(r)'
    <3>1. Shape(r) /\ txn[r].phase \notin {"live_displaced", "activated"}
      BY DEF Inv, DataInv, Blocking
    <3> QED
      BY <1>1, <3>1 DEF Shape, Exact
  <2> QED
    BY <2>1, <2>2 DEF DataInv
<1>5. ASSUME NEW g \in Hosts, g # h PROVE HostInv(g)'
  <2>1. HostInv(g) /\ host'[g] = host[g]
    BY <1>1, <1>5 DEF Inv
  <2>2. LockHeld(g)' /\ StepOfMode(g)' /\ Reached(g)'
    BY <1>1, <1>2, <2>1 DEF HostInv, LockHeld, StepOfMode, Reached, At, Cur
  <2>3. RestoresAlone(g)'
    BY <1>5, <2>1 DEF HostInv, RestoresAlone, Restoring
  <2>4. PastAssertion(g)'
    BY <1>1, <1>2, <2>1 DEF HostInv, PastAssertion, Cur
  <2> QED
    BY <2>1, <2>2, <2>3, <2>4 DEF HostInv
<1> QED
  BY <1>1, <1>3, <1>4, <1>5 DEF Inv

LEMMA OpenProfileKeeps ==
    ASSUME Inv, NEW h \in Hosts, OpenProfile(h)
    PROVE  Inv'
<1>1. /\ host[h].pc = "open" /\ host[h].mode = "boot" /\ lock # h
      /\ host[h].why \notin {"ambiguous", "mismatch", "occupied", "several"}
  BY DEF OpenProfile, At, Inv, TypeOK, HostState, HostInv, StepOfMode, LockHeld, LockSteps,
     StagingSteps, SharedSteps
<1>2. /\ live # None /\ live \in Profile /\ live.db
      /\ IF Cur(h) = None THEN Blocking = {} ELSE \A r \in Blocking : txn[r].phase = "reprojecting"
  BY <1>1 DEF Inv, TypeOK, Directory, HostInv, PastAssertion
<1> DEFINE new == [host[h] EXCEPT !.pc = IF Cur(h) = None THEN "idle" ELSE "finalize",
                                  !.mode = IF Cur(h) = None THEN "normal" ELSE "boot"]
<1>3. host' = [host EXCEPT ![h] = new] /\ new \in HostState
  BY DEF OpenProfile, Inv, TypeOK, HostState, Steps, StartupSteps
<1>4. /\ new.pc = (IF Cur(h) = None THEN "idle" ELSE "finalize") /\ new.cur = Cur(h)
      /\ new.mode = (IF Cur(h) = None THEN "normal" ELSE "boot") /\ new.why = host[h].why
  BY DEF Inv, TypeOK, HostState, Cur
<1>5. /\ live' \in Profile /\ live'.of = live.of /\ live'.db = live.db /\ live'.state = "opened"
      /\ live' # None
  BY <1>2, NoneAssumption DEF OpenProfile, Profile
<1>6. UNCHANGED <<txn, lock, bounds>> /\ Blocking' = Blocking
  BY DEF OpenProfile, Blocking
<1> HIDE DEF new
<1>7. ASSUME host'[h] = new PROVE HostInv(h)'
  BY <1>1, <1>2, <1>4, <1>5, <1>6, <1>7 DEF HostInv, LockHeld, StepOfMode, RestoresAlone, Restoring,
     PastAssertion, Reached, At, Cur, LockSteps, StagingSteps, SharedSteps, StartupSteps
<1> QED
  BY <1>1, <1>2, <1>3, <1>5, <1>6, <1>7, LiveStep
-----------------------------------------------------------------------------
(* A Host that serves, and its restore. *)

LEMMA InPlaceKeeps ==
    ASSUME Inv, NEW h \in Hosts, Edit(h) \/ CreateBackup(h)
    PROVE  Inv'
<1>1. /\ host[h].mode = "normal" /\ host[h].pc \in {"idle", "quiesce"}
      /\ UNCHANGED <<txn, lock, host, bounds>>
  BY DEF Edit, CreateBackup, Serving, At
<1>2. /\ live # None /\ live \in Profile /\ live.db /\ live.state = "opened"
      /\ \A r \in Blocking : txn[r].phase \in {"unmarked", "staging", "candidate_ready"}
                             /\ txn[r].displaced = None
  BY <1>1 DEF Inv, TypeOK, Directory, HostInv, PastAssertion, StagingSteps
<1>3. /\ live' \in Profile /\ live'.of = live.of /\ live'.db = live.db /\ live'.state = live.state
      /\ live' # None
  <2>1. CASE Edit(h)
    <3>1. live' = [live EXCEPT !.edits = @ + 1] /\ live.edits \in Nat
      BY <1>2, <2>1 DEF Edit, Profile
    <3>2. live' \in Profile
      BY <1>2, <3>1 DEF Profile
    <3> QED
      BY <1>2, <3>1, <3>2, NoneAssumption DEF Profile
  <2>2. CASE CreateBackup(h)
    BY <1>2, <2>2, NoneAssumption DEF CreateBackup, Profile
  <2> QED
    BY <2>1, <2>2
<1>4. host' = [host EXCEPT ![h] = host[h]] /\ host[h] \in HostState
  BY <1>1 DEF Inv, TypeOK
<1>5. HostInv(h)'
  <2>1. HostInv(h) /\ Blocking' = Blocking
    BY <1>1 DEF Inv, Blocking
  <2>2. LockHeld(h)' /\ StepOfMode(h)' /\ RestoresAlone(h)'
    BY <1>1, <2>1 DEF HostInv, LockHeld, StepOfMode, RestoresAlone, Restoring, Cur
  <2>3. PastAssertion(h)' /\ Reached(h)'
    BY <1>1, <1>2, <1>3, <2>1 DEF HostInv, PastAssertion, Reached, At, Cur
  <2> QED
    BY <1>1, <2>1, <2>2, <2>3 DEF HostInv
<1> QED
  BY <1>1, <1>2, <1>3, <1>4, <1>5, LiveStep

LEMMA CreateTransactionKeeps ==
    ASSUME Inv, NEW h \in Hosts, NEW r \in Restores, CreateTransaction(h, r)
    PROVE  Inv'
<1> DEFINE t == [txn[r] EXCEPT !.phase = "unmarked", !.staged = StagedTree(r, "partial")]
           new == [host[h] EXCEPT !.pc = "marker", !.cur = r]
<1>1. /\ host[h].mode \in {"normal", "recovery"} /\ host[h].pc = "idle" /\ lock = None /\ Blocking = {}
      /\ txn[r].phase = "unused" /\ lock' = h
      /\ (\A g \in Hosts \ {h} : host[g].mode = "down")
      /\ host[h].why \notin {"ambiguous", "mismatch", "occupied", "several"}
  BY DEF CreateTransaction, MayRestore, At, Inv, HostInv
<1>2. txn' = [txn EXCEPT ![r] = t] /\ host' = [host EXCEPT ![h] = new] /\ UNCHANGED <<live, bounds>>
  BY DEF CreateTransaction, Inv, TypeOK, HostState, Transaction
<1>3. StagedTree(r, "partial") \in Profile /\ StagedTree(r, "partial") # None
  <2>1. StagedTree(r, "partial") = [of |-> r, edits |-> 0, state |-> "partial", db |-> FALSE, backups |-> FALSE]
    BY DEF StagedTree
  <2>2. [of |-> r, edits |-> 0, state |-> "partial", db |-> FALSE, backups |-> FALSE] \in Profile
    BY DEF Profile
  <2> QED
    BY <2>1, <2>2, NoneAssumption
<1>4. new \in HostState /\ t \in Transaction
  BY ZenonT(60), <1>3 DEF Inv, TypeOK, HostState, Steps, StagingSteps, Transaction, Phases, Directory
<1>5. /\ t.phase = "unmarked" /\ t.staged = StagedTree(r, "partial") /\ t.displaced = txn[r].displaced
      /\ new.mode = host[h].mode /\ new.pc = "marker" /\ new.cur = r /\ new.why = host[h].why
  BY DEF Inv, TypeOK, HostState, Transaction
<1> HIDE DEF t, new
<1>6. txn'[r] = t /\ host'[h] = new /\ (\A g \in Hosts \ {h} : host'[g] = host[g])
      /\ \A s \in Restores \ {r} : txn'[s] = txn[s]
  BY <1>2 DEF Inv, TypeOK
<1>7. Shape(r)' /\ live' # None /\ txn[r].displaced = None
  <2>1. txn[r].displaced = None /\ live # None
    BY <1>1 DEF Inv, DataInv, Shape, LiveOrBetween
  <2> QED
    BY <1>2, <1>3, <1>5, <1>6, <2>1 DEF Shape, StagedTree, Exact
<1>8. Origins'
  BY <1>1, <1>2, <1>4, <1>5, <1>7, OriginsKept
<1>9. DataInv' /\ txn' \in [Restores -> Transaction] /\ Blocking' = {r}
  <2>1. live' \in Directory
    BY <1>2 DEF Inv, TypeOK
  <2>2. DataInv' /\ txn' \in [Restores -> Transaction] /\ Blocking' \subseteq {r}
    BY <1>1, <1>2, <1>4, <1>5, <1>7, <1>8, <2>1, DataStep
  <2> QED
    BY <1>5, <1>6, <2>2 DEF Blocking
<1>10. TypeOK'
  BY <1>1, <1>2, <1>4, <1>9 DEF Inv, TypeOK, bounds
<1>11. HostInv(h)'
  <2>1. LockHeld(h)' /\ StepOfMode(h)' /\ Reached(h)'
    BY <1>1, <1>5, <1>6, <1>9 DEF LockHeld, StepOfMode, Reached, At, Cur, LockSteps, StagingSteps, SharedSteps
  <2>2. RestoresAlone(h)'
    BY <1>1, <1>6 DEF RestoresAlone
  <2>3. PastAssertion(h)'
    BY <1>1, <1>2, <1>5, <1>6, <1>7, <1>9 DEF Inv, HostInv, PastAssertion, StagingSteps
  <2> QED
    BY <1>1, <1>5, <1>6, <2>1, <2>2, <2>3 DEF HostInv
<1>12. ASSUME NEW g \in Hosts, g # h PROVE HostInv(g)'
  <2>1. HostInv(g) /\ host'[g] = host[g] /\ host[g].mode = "down" /\ host[g].pc = "idle" /\ Cur(g)' = None
    BY <1>1, <1>6, <1>12 DEF Inv, HostInv, StepOfMode, Cur
  <2> QED
    BY <1>1, <1>12, <2>1 DEF HostInv, LockHeld, StepOfMode, RestoresAlone, Restoring, PastAssertion,
       Reached, At, LockSteps, StagingSteps, SharedSteps
<1> QED
  BY <1>9, <1>10, <1>11, <1>12 DEF Inv

RestoreSteps == StagingSteps \cup {"displace"} \cup SharedSteps

\* A step of a restore r to the next one: what there is to show of it.
StepsTo(h, r, step, t) ==
    /\ r = Cur(h) /\ host[h].pc \in RestoreSteps /\ step \in RestoreSteps
    /\ host[h].mode = "boot" =>
          /\ step \in SharedSteps
          /\ live = None \/ txn[r].phase \in {"live_displaced", "activated"}
    /\ Goto(h, step) /\ UNCHANGED <<lock, bounds>> /\ live' \in Directory
    /\ txn' = [txn EXCEPT ![r] = t]
    /\ t.phase \notin {"unused", "aborted", "reconciled"}
    /\ live' = None => t.phase \in {"candidate_ready", "live_displaced"}
    /\ step \in StagingSteps \cup {"displace"} =>
          /\ host[h].pc \in StagingSteps /\ UNCHANGED live
          /\ t.phase \in {"unmarked", "staging", "candidate_ready"}
          /\ t.displaced = txn[r].displaced
    /\ txn'[r] = t => Shape(r)'
    /\ Origins'
    /\ host'[h].pc = step /\ host'[h].cur = r /\ txn'[r] = t => Reached(h)'

\* A step of a restore, in the Host that runs it or in the start that ends it.
LEMMA WorkStep ==
    ASSUME Inv, NEW h \in Hosts, NEW r \in Restores, NEW step \in Steps, NEW t \in Transaction,
           StepsTo(h, r, step, t)
    PROVE  Inv'
<1> USE DEF StepsTo
<1> USE DEF RestoreSteps
<1> DEFINE new == [host[h] EXCEPT !.pc = step]
<1>1. host' = [host EXCEPT ![h] = new] /\ new \in HostState
  BY DEF Goto, Inv, TypeOK, HostState, Steps
<1>2. /\ new.pc = step /\ new.cur = r /\ new.mode = host[h].mode /\ new.why = host[h].why
      /\ host[h].mode \in {"down", "boot", "normal", "recovery"}
  BY DEF Inv, TypeOK, HostState, Cur
<1>3. host[h].pc \in LockSteps /\ step \in LockSteps /\ host[h].pc # "idle"
  BY DEF LockSteps, StagingSteps, SharedSteps
<1>4. lock = h /\ lock' = h /\ Blocking = {r}
  BY <1>3, LockOwnsOpen
<1> HIDE DEF new
<1>5. ASSUME host'[h] = new, txn'[r] = t, Blocking' \subseteq {r} PROVE HostInv(h)'
  <2>1. HostInv(h) /\ r \in Blocking' /\ Blocking' = {r}
    BY <1>5 DEF Inv, Blocking
  <2>2. LockHeld(h)' /\ Reached(h)'
    BY <1>2, <1>3, <1>4, <1>5, <2>1 DEF LockHeld, Cur
  <2>3. StepOfMode(h)'
    <3>1. step \notin {"idle", "lock", "scan", "core", "replaced", "finalize"} /\ host[h].mode # "down"
      BY <1>3, UpAtStep DEF StagingSteps, SharedSteps
    <3> QED
      BY <1>2, <1>5, <3>1 DEF StepOfMode, Cur
  <2>4. RestoresAlone(h)'
    <3> SUFFICES ASSUME Restoring(h)', NEW g \in Hosts \ {h} PROVE host'[g].mode = "down"
      BY DEF RestoresAlone
    <3>1. Restoring(h)
      BY <1>2, <1>5 DEF Restoring
    <3> QED
      BY <1>1, <2>1, <3>1 DEF HostInv, RestoresAlone, Inv, TypeOK
  <2>5. PastAssertion(h)'
    <3>1. step \notin {"open", "finalize", "reindex", "idle"}
      BY DEF StagingSteps, SharedSteps
    <3>2. CASE host[h].mode = "normal" /\ step \in StagingSteps \cup {"displace"}
      <4>1. /\ live # None /\ live.db /\ live.state = "opened" /\ txn[r].displaced = None
        BY <1>4, <2>1, <3>2 DEF HostInv, PastAssertion
      <4> QED
        BY <1>2, <1>5, <2>1, <3>1, <3>2, <4>1 DEF PastAssertion
    <3>3. CASE ~(host[h].mode = "normal" /\ step \in StagingSteps \cup {"displace"})
      BY <1>2, <1>5, <3>1, <3>3 DEF PastAssertion
    <3> QED
      BY <3>2, <3>3
  <2> QED
    BY <1>2, <1>5, <2>1, <2>2, <2>3, <2>4, <2>5 DEF HostInv
<1>6. \/ Restoring(h)
      \/ live = None
      \/ txn[r].phase \in {"live_displaced", "activated"}
  <2>1. host[h].mode # "down"
    BY <1>3, UpAtStep
  <2> QED
    BY <1>2, <2>1 DEF Restoring
<1>7. t.phase # "unused" /\ lock' \in {h, None} /\ UNCHANGED bounds
  BY <1>4
<1> HIDE DEF RestoreSteps
<1>8. txn'[r] = t /\ host'[h] = new
  BY <1>1 DEF Inv, TypeOK
<1>9. DataInv' /\ txn' \in [Restores -> Transaction] /\ Blocking' \subseteq {r}
  BY <1>4, <1>7, <1>8, DataStep
<1>10. HostInv(h)'
  BY <1>5, <1>8, <1>9
<1>11. Restoring(h) \/ \A g \in Hosts \ {h} : PastAssertion(g) /\ host'[g] = host[g] => PastAssertion(g)'
  BY <1>4, <1>6, AssertionKept
<1> QED
  BY <1>1, <1>3, <1>7, <1>9, <1>10, <1>11, LockStep

LEMMA CreateMarkerKeeps ==
    ASSUME Inv, NEW h \in Hosts, CreateMarker(h)
    PROVE  Inv'
<1>1. host[h].pc = "marker" /\ host[h].pc \in LockSteps /\ host[h].pc \in RestoreSteps
      /\ "populate" \in RestoreSteps /\ "populate" \in Steps
  BY DEF CreateMarker, At, LockSteps, RestoreSteps, StagingSteps, SharedSteps, Steps
<1>2. PICK r \in Restores : r = Cur(h) /\ lock = h /\ Blocking = {r}
  BY <1>1, LockOwnsOpen
<1> DEFINE t == [txn[r] EXCEPT !.phase = "staging"]
<1>3. txn[r].phase = "unmarked" /\ live # None
  BY <1>1, <1>2 DEF Inv, DataInv, LiveOrBetween, Shape, HostInv, Reached, At
<1>4. /\ txn' = [txn EXCEPT ![r] = t] /\ Goto(h, "populate")
      /\ UNCHANGED <<live, lock, bounds>> /\ live' \in Directory
  BY <1>2 DEF CreateMarker, SetPhase, Inv, TypeOK, Transaction
<1>5. t \in Transaction
  BY <1>2 DEF Inv, TypeOK, Transaction, Phases
<1>6. t.phase = "staging" /\ t.staged = txn[r].staged /\ t.displaced = txn[r].displaced
  BY <1>2 DEF Inv, TypeOK, Transaction
<1> HIDE DEF t
<1>7. ASSUME txn'[r] = t PROVE Shape(r)'
  <2>1. Shape(r) /\ live' = live
    BY <1>2, <1>4 DEF Inv, DataInv
  <2> QED
    BY <1>3, <1>6, <1>7, <2>1 DEF Shape, Exact
<1>8. Origins'
  BY <1>2, <1>3, <1>4, <1>5, <1>6, OriginsKept
<1>9. ASSUME host'[h].pc = "populate", host'[h].cur = r, txn'[r] = t PROVE Reached(h)'
  BY <1>2, <1>3, <1>4, <1>6, <1>9 DEF Reached, At, Cur
<1>10. host[h].mode = "boot" =>
         /\ "populate" \in SharedSteps
         /\ live = None \/ txn[r].phase \in {"live_displaced", "activated"}
  BY <1>1, <1>3 DEF Inv, HostInv, StepOfMode, StartupSteps, SharedSteps
<1>11. /\ live' = None => t.phase \in {"candidate_ready", "live_displaced"}
       /\ t.phase \notin {"unused", "aborted", "reconciled"}
       /\ "populate" \in StagingSteps \cup {"displace"} =>
            /\ host[h].pc \in StagingSteps /\ UNCHANGED live
            /\ t.phase \in {"unmarked", "staging", "candidate_ready"}
            /\ t.displaced = txn[r].displaced
  BY <1>1, <1>2, <1>3, <1>4, <1>6 DEF Inv, DataInv, LiveOrBetween, StagingSteps, SharedSteps
<1>12. StepsTo(h, r, "populate", t)
  BY <1>1, <1>2, <1>4, <1>7, <1>8, <1>9, <1>10, <1>11 DEF StepsTo
<1> QED
  BY <1>1, <1>5, <1>12, WorkStep

LEMMA MarkReadyKeeps ==
    ASSUME Inv, NEW h \in Hosts, MarkReady(h)
    PROVE  Inv'
<1>1. host[h].pc = "ready" /\ host[h].pc \in LockSteps /\ host[h].pc \in RestoreSteps
      /\ "quiesce" \in RestoreSteps /\ "quiesce" \in Steps
  BY DEF MarkReady, At, LockSteps, RestoreSteps, StagingSteps, SharedSteps, Steps
<1>2. PICK r \in Restores : r = Cur(h) /\ lock = h /\ Blocking = {r}
  BY <1>1, LockOwnsOpen
<1> DEFINE t == [txn[r] EXCEPT !.phase = "candidate_ready"]
<1>3. txn[r].phase = "staging" /\ Exact(txn[r].staged, r) /\ live # None /\ txn[r].displaced = None
  BY <1>1, <1>2 DEF Inv, DataInv, LiveOrBetween, Shape, HostInv, Reached, At
<1>4. /\ txn' = [txn EXCEPT ![r] = t] /\ Goto(h, "quiesce")
      /\ UNCHANGED <<live, lock, bounds>> /\ live' \in Directory
  BY <1>2 DEF MarkReady, SetPhase, Inv, TypeOK, Transaction
<1>5. t \in Transaction
  BY <1>2 DEF Inv, TypeOK, Transaction, Phases
<1>6. t.phase = "candidate_ready" /\ t.staged = txn[r].staged /\ t.displaced = txn[r].displaced
  BY <1>2 DEF Inv, TypeOK, Transaction
<1> HIDE DEF t
<1>7. ASSUME txn'[r] = t PROVE Shape(r)'
  <2>1. Shape(r) /\ live' = live
    BY <1>2, <1>4 DEF Inv, DataInv
  <2> QED
    BY <1>3, <1>6, <1>7, <2>1 DEF Shape, Exact
<1>8. Origins'
  BY <1>2, <1>3, <1>4, <1>5, <1>6, OriginsKept
<1>9. ASSUME host'[h].pc = "quiesce", host'[h].cur = r, txn'[r] = t PROVE Reached(h)'
  BY <1>2, <1>3, <1>4, <1>6, <1>9 DEF Reached, At, Cur
<1>10. host[h].mode = "boot" =>
         /\ "quiesce" \in SharedSteps
         /\ live = None \/ txn[r].phase \in {"live_displaced", "activated"}
  BY <1>1, <1>3 DEF Inv, HostInv, StepOfMode, StartupSteps, SharedSteps
<1>11. /\ live' = None => t.phase \in {"candidate_ready", "live_displaced"}
       /\ t.phase \notin {"unused", "aborted", "reconciled"}
       /\ "quiesce" \in StagingSteps \cup {"displace"} =>
            /\ host[h].pc \in StagingSteps /\ UNCHANGED live
            /\ t.phase \in {"unmarked", "staging", "candidate_ready"}
            /\ t.displaced = txn[r].displaced
  BY <1>1, <1>2, <1>3, <1>4, <1>6 DEF Inv, DataInv, LiveOrBetween, StagingSteps, SharedSteps
<1>12. StepsTo(h, r, "quiesce", t)
  BY <1>1, <1>2, <1>4, <1>7, <1>8, <1>9, <1>10, <1>11 DEF StepsTo
<1> QED
  BY <1>1, <1>5, <1>12, WorkStep

LEMMA MarkDisplacedKeeps ==
    ASSUME Inv, NEW h \in Hosts, MarkDisplaced(h)
    PROVE  Inv'
<1>1. host[h].pc = "displaced" /\ host[h].pc \in LockSteps /\ host[h].pc \in RestoreSteps
      /\ "carry" \in RestoreSteps /\ "carry" \in Steps
  BY DEF MarkDisplaced, At, LockSteps, RestoreSteps, StagingSteps, SharedSteps, Steps
<1>2. PICK r \in Restores : r = Cur(h) /\ lock = h /\ Blocking = {r}
  BY <1>1, LockOwnsOpen
<1> DEFINE t == [txn[r] EXCEPT !.phase = "live_displaced"]
<1>3. txn[r].phase \in {"candidate_ready", "live_displaced"} /\ live = None
  BY <1>1, <1>2 DEF Inv, DataInv, LiveOrBetween, Shape, HostInv, Reached, At
<1>4. /\ txn' = [txn EXCEPT ![r] = t] /\ Goto(h, "carry")
      /\ UNCHANGED <<live, lock, bounds>> /\ live' \in Directory
  BY <1>2 DEF MarkDisplaced, SetPhase, Inv, TypeOK, Transaction
<1>5. t \in Transaction
  BY <1>2 DEF Inv, TypeOK, Transaction, Phases
<1>6. t.phase = "live_displaced" /\ t.staged = txn[r].staged /\ t.displaced = txn[r].displaced
  BY <1>2 DEF Inv, TypeOK, Transaction
<1> HIDE DEF t
<1>7. ASSUME txn'[r] = t PROVE Shape(r)'
  <2>1. Shape(r) /\ live' = live
    BY <1>2, <1>4 DEF Inv, DataInv
  <2> QED
    BY <1>3, <1>6, <1>7, <2>1 DEF Shape, Exact
<1>8. Origins'
  BY <1>2, <1>3, <1>4, <1>5, <1>6, OriginsKept
<1>9. ASSUME host'[h].pc = "carry", host'[h].cur = r, txn'[r] = t PROVE Reached(h)'
  BY <1>2, <1>3, <1>4, <1>6, <1>9 DEF Reached, At, Cur
<1>10. host[h].mode = "boot" =>
         /\ "carry" \in SharedSteps
         /\ live = None \/ txn[r].phase \in {"live_displaced", "activated"}
  BY <1>1, <1>3 DEF Inv, HostInv, StepOfMode, StartupSteps, SharedSteps
<1>11. /\ live' = None => t.phase \in {"candidate_ready", "live_displaced"}
       /\ t.phase \notin {"unused", "aborted", "reconciled"}
       /\ "carry" \in StagingSteps \cup {"displace"} =>
            /\ host[h].pc \in StagingSteps /\ UNCHANGED live
            /\ t.phase \in {"unmarked", "staging", "candidate_ready"}
            /\ t.displaced = txn[r].displaced
  BY <1>1, <1>2, <1>3, <1>4, <1>6 DEF Inv, DataInv, LiveOrBetween, StagingSteps, SharedSteps
<1>12. StepsTo(h, r, "carry", t)
  BY <1>1, <1>2, <1>4, <1>7, <1>8, <1>9, <1>10, <1>11 DEF StepsTo
<1> QED
  BY <1>1, <1>5, <1>12, WorkStep

LEMMA MarkActivatedKeeps ==
    ASSUME Inv, NEW h \in Hosts, MarkActivated(h)
    PROVE  Inv'
<1>1. host[h].pc = "activated" /\ host[h].pc \in LockSteps /\ host[h].pc \in RestoreSteps
      /\ "check" \in RestoreSteps /\ "check" \in Steps
  BY DEF MarkActivated, At, LockSteps, RestoreSteps, StagingSteps, SharedSteps, Steps
<1>2. PICK r \in Restores : r = Cur(h) /\ lock = h /\ Blocking = {r}
  BY <1>1, LockOwnsOpen
<1> DEFINE t == [txn[r] EXCEPT !.phase = "activated"]
<1>3. txn[r].phase = "live_displaced" /\ live # None
  BY <1>1, <1>2 DEF Inv, DataInv, LiveOrBetween, Shape, HostInv, Reached, At
<1>4. /\ txn' = [txn EXCEPT ![r] = t] /\ Goto(h, "check")
      /\ UNCHANGED <<live, lock, bounds>> /\ live' \in Directory
  BY <1>2 DEF MarkActivated, SetPhase, Inv, TypeOK, Transaction
<1>5. t \in Transaction
  BY <1>2 DEF Inv, TypeOK, Transaction, Phases
<1>6. t.phase = "activated" /\ t.staged = txn[r].staged /\ t.displaced = txn[r].displaced
  BY <1>2 DEF Inv, TypeOK, Transaction
<1> HIDE DEF t
<1>7. ASSUME txn'[r] = t PROVE Shape(r)'
  <2>1. Shape(r) /\ live' = live
    BY <1>2, <1>4 DEF Inv, DataInv
  <2> QED
    BY <1>3, <1>6, <1>7, <2>1 DEF Shape, Exact
<1>8. Origins'
  BY <1>2, <1>3, <1>4, <1>5, <1>6, OriginsKept
<1>9. ASSUME host'[h].pc = "check", host'[h].cur = r, txn'[r] = t PROVE Reached(h)'
  BY <1>2, <1>3, <1>4, <1>6, <1>9 DEF Reached, At, Cur
<1>10. host[h].mode = "boot" =>
         /\ "check" \in SharedSteps
         /\ live = None \/ txn[r].phase \in {"live_displaced", "activated"}
  BY <1>1, <1>3 DEF Inv, HostInv, StepOfMode, StartupSteps, SharedSteps
<1>11. /\ live' = None => t.phase \in {"candidate_ready", "live_displaced"}
       /\ t.phase \notin {"unused", "aborted", "reconciled"}
       /\ "check" \in StagingSteps \cup {"displace"} =>
            /\ host[h].pc \in StagingSteps /\ UNCHANGED live
            /\ t.phase \in {"unmarked", "staging", "candidate_ready"}
            /\ t.displaced = txn[r].displaced
  BY <1>1, <1>2, <1>3, <1>4, <1>6 DEF Inv, DataInv, LiveOrBetween, StagingSteps, SharedSteps
<1>12. StepsTo(h, r, "check", t)
  BY <1>1, <1>2, <1>4, <1>7, <1>8, <1>9, <1>10, <1>11 DEF StepsTo
<1> QED
  BY <1>1, <1>5, <1>12, WorkStep

LEMMA PopulateKeeps ==
    ASSUME Inv, NEW h \in Hosts, Populate(h)
    PROVE  Inv'
<1>1. host[h].pc = "populate" /\ host[h].pc \in LockSteps /\ host[h].pc \in RestoreSteps
      /\ "ready" \in RestoreSteps /\ "ready" \in Steps
  BY DEF Populate, At, LockSteps, RestoreSteps, StagingSteps, SharedSteps, Steps
<1>2. PICK r \in Restores : r = Cur(h) /\ lock = h /\ Blocking = {r}
  BY <1>1, LockOwnsOpen
<1> DEFINE p == StagedTree(r, "exact")
           t == [txn[r] EXCEPT !.staged = p]
<1>3. txn[r].phase = "staging" /\ live # None /\ txn[r].displaced = None /\ txn[r].staged # None
  BY <1>1, <1>2 DEF Inv, DataInv, LiveOrBetween, Shape, HostInv, Reached, At
<1>4. /\ txn' = [txn EXCEPT ![r] = t] /\ Goto(h, "ready")
      /\ UNCHANGED <<live, lock, bounds>> /\ live' \in Directory
  BY <1>2 DEF Populate, Inv, TypeOK, Transaction
<1>0. p \in Profile /\ Exact(p, r) /\ ~p.backups
  <2>1. p = [of |-> r, edits |-> 0, state |-> "exact", db |-> TRUE, backups |-> FALSE]
    BY DEF StagedTree
  <2>2. [of |-> r, edits |-> 0, state |-> "exact", db |-> TRUE, backups |-> FALSE] \in Profile
    BY DEF Profile
  <2> HIDE DEF p
  <2>3. p \in Profile /\ p # None
    BY <2>1, <2>2, NoneAssumption
  <2>4. p.of = r /\ p.edits = 0 /\ p.state = "exact" /\ p.db /\ ~p.backups
    BY <2>1
  <2> QED
    BY <2>3, <2>4 DEF Exact
<1> HIDE DEF p
<1>5. t \in Transaction
  BY <1>2, <1>0 DEF Inv, TypeOK, Transaction, Directory
<1>6. t.phase = txn[r].phase /\ t.staged = p /\ t.displaced = txn[r].displaced
  BY <1>2 DEF Inv, TypeOK, Transaction
<1> HIDE DEF t
<1>7. ASSUME txn'[r] = t PROVE Shape(r)'
  BY <1>3, <1>4, <1>6, <1>7, <1>0 DEF Shape, Exact
<1>8. Origins'
  BY <1>2, <1>3, <1>4, <1>5, <1>6, OriginsKept
<1>9. ASSUME host'[h].pc = "ready", host'[h].cur = r, txn'[r] = t PROVE Reached(h)'
  BY <1>2, <1>3, <1>4, <1>6, <1>9, <1>0 DEF Reached, At, Cur
<1>10. host[h].mode = "boot" =>
         /\ "ready" \in SharedSteps
         /\ live = None \/ txn[r].phase \in {"live_displaced", "activated"}
  BY <1>1, <1>3 DEF Inv, HostInv, StepOfMode, StartupSteps, SharedSteps
<1>11. /\ live' = None => t.phase \in {"candidate_ready", "live_displaced"}
       /\ t.phase \notin {"unused", "aborted", "reconciled"}
       /\ "ready" \in StagingSteps \cup {"displace"} =>
            /\ host[h].pc \in StagingSteps /\ UNCHANGED live
            /\ t.phase \in {"unmarked", "staging", "candidate_ready"}
            /\ t.displaced = txn[r].displaced
  BY <1>1, <1>2, <1>3, <1>4, <1>6 DEF Inv, DataInv, LiveOrBetween, StagingSteps, SharedSteps
<1>12. StepsTo(h, r, "ready", t)
  BY <1>1, <1>2, <1>4, <1>7, <1>8, <1>9, <1>10, <1>11 DEF StepsTo
<1> QED
  BY <1>1, <1>5, <1>12, WorkStep

LEMMA QuiesceKeeps ==
    ASSUME Inv, NEW h \in Hosts, Quiesce(h)
    PROVE  Inv'
<1>1. host[h].pc = "quiesce" /\ host[h].pc \in LockSteps /\ host[h].pc \in RestoreSteps
      /\ "displace" \in RestoreSteps /\ "displace" \in Steps
  BY DEF Quiesce, At, LockSteps, RestoreSteps, StagingSteps, SharedSteps, Steps
<1>2. PICK r \in Restores : r = Cur(h) /\ lock = h /\ Blocking = {r}
  BY <1>1, LockOwnsOpen
<1> DEFINE t == txn[r]
<1>3. txn[r].phase = "candidate_ready" /\ live # None /\ txn[r].displaced = None
  BY <1>1, <1>2 DEF Inv, DataInv, Shape, HostInv, Reached, At
<1>4. /\ txn' = [txn EXCEPT ![r] = t] /\ Goto(h, "displace")
      /\ UNCHANGED <<live, lock, bounds>> /\ live' \in Directory
  BY <1>2 DEF Quiesce, Inv, TypeOK
<1>5. t \in Transaction
  BY <1>2 DEF Inv, TypeOK
<1>6. t = txn[r]
  OBVIOUS
<1> HIDE DEF t
<1>7. ASSUME txn'[r] = t PROVE Shape(r)'
  <2>1. Shape(r) /\ live' = live
    BY <1>2, <1>4 DEF Inv, DataInv
  <2> QED
    BY <1>6, <1>7, <2>1 DEF Shape, Exact
<1>8. Origins'
  BY <1>2, <1>3, <1>4, <1>5, <1>6, OriginsKept
<1>9. ASSUME host'[h].pc = "displace", host'[h].cur = r, txn'[r] = t PROVE Reached(h)'
  BY <1>2, <1>3, <1>4, <1>6, <1>9 DEF Reached, At, Cur
<1>10. host[h].mode = "boot" =>
         /\ "displace" \in SharedSteps
         /\ live = None \/ txn[r].phase \in {"live_displaced", "activated"}
  BY <1>1, <1>3 DEF Inv, HostInv, StepOfMode, StartupSteps, SharedSteps
<1>11. /\ live' = None => t.phase \in {"candidate_ready", "live_displaced"}
       /\ t.phase \notin {"unused", "aborted", "reconciled"}
       /\ "displace" \in StagingSteps \cup {"displace"} =>
            /\ host[h].pc \in StagingSteps /\ UNCHANGED live
            /\ t.phase \in {"unmarked", "staging", "candidate_ready"}
            /\ t.displaced = txn[r].displaced
  BY <1>1, <1>2, <1>3, <1>4, <1>6 DEF Inv, DataInv, LiveOrBetween, StagingSteps, SharedSteps
<1>12. StepsTo(h, r, "displace", t)
  BY <1>1, <1>2, <1>4, <1>7, <1>8, <1>9, <1>10, <1>11 DEF StepsTo
<1> QED
  BY <1>1, <1>5, <1>12, WorkStep

LEMMA DisplaceKeeps ==
    ASSUME Inv, NEW h \in Hosts, Displace(h)
    PROVE  Inv'
<1>1. host[h].pc = "displace" /\ host[h].pc \in LockSteps /\ host[h].pc \in RestoreSteps
      /\ "displaced" \in RestoreSteps /\ "displaced" \in Steps
  BY DEF Displace, At, LockSteps, RestoreSteps, StagingSteps, SharedSteps, Steps
<1>2. PICK r \in Restores : r = Cur(h) /\ lock = h /\ Blocking = {r}
  BY <1>1, LockOwnsOpen
<1> DEFINE t == [txn[r] EXCEPT !.displaced = live]
<1>3. txn[r].phase = "candidate_ready" /\ live # None /\ txn[r].displaced = None /\ txn[r].staged # None
  BY <1>1, <1>2 DEF Inv, DataInv, Shape, Exact, HostInv, Reached, At
<1>4. /\ txn' = [txn EXCEPT ![r] = t] /\ Goto(h, "displaced")
      /\ UNCHANGED <<lock, bounds>> /\ live' \in Directory /\ live' = None
  BY <1>2 DEF Displace, Inv, TypeOK, Transaction, Directory
<1>5. t \in Transaction
  BY <1>2 DEF Inv, TypeOK, Transaction
<1>6. t.phase = txn[r].phase /\ t.staged = txn[r].staged /\ t.displaced = live
  BY <1>2 DEF Inv, TypeOK, Transaction
<1> HIDE DEF t
<1>7. ASSUME txn'[r] = t PROVE Shape(r)'
  <2>1. Shape(r)
    BY <1>2 DEF Inv, DataInv
  <2> QED
    BY <1>3, <1>4, <1>6, <1>7, <2>1 DEF Shape, Exact
<1>8. Origins'
  <2>1. Origins /\ txn'[r] = t /\ \A s \in Restores \ {r} : txn'[s] = txn[s]
    BY <1>4 DEF Inv, DataInv, TypeOK
  <2> QED
    BY <1>3, <1>4, <1>6, <2>1 DEF Origins
<1>9. ASSUME host'[h].pc = "displaced", host'[h].cur = r, txn'[r] = t PROVE Reached(h)'
  BY <1>2, <1>3, <1>4, <1>6, <1>9 DEF Reached, At, Cur
<1>10. host[h].mode = "boot" =>
         /\ "displaced" \in SharedSteps
         /\ live = None \/ txn[r].phase \in {"live_displaced", "activated"}
  BY <1>1, <1>3 DEF Inv, HostInv, StepOfMode, StartupSteps, SharedSteps
<1>11. /\ live' = None => t.phase \in {"candidate_ready", "live_displaced"}
       /\ t.phase \notin {"unused", "aborted", "reconciled"}
       /\ "displaced" \in StagingSteps \cup {"displace"} =>
            /\ host[h].pc \in StagingSteps /\ UNCHANGED live
            /\ t.phase \in {"unmarked", "staging", "candidate_ready"}
            /\ t.displaced = txn[r].displaced
  BY <1>1, <1>2, <1>3, <1>4, <1>6 DEF Inv, DataInv, LiveOrBetween, StagingSteps, SharedSteps
<1>12. StepsTo(h, r, "displaced", t)
  BY <1>1, <1>2, <1>4, <1>7, <1>8, <1>9, <1>10, <1>11 DEF StepsTo
<1> QED
  BY <1>1, <1>5, <1>12, WorkStep

LEMMA CarryBackupsKeeps ==
    ASSUME Inv, NEW h \in Hosts, CarryBackups(h)
    PROVE  Inv'
<1>1. host[h].pc = "carry" /\ host[h].pc \in LockSteps /\ host[h].pc \in RestoreSteps
      /\ "publish" \in RestoreSteps /\ "publish" \in Steps
  BY DEF CarryBackups, At, LockSteps, RestoreSteps, StagingSteps, SharedSteps, Steps
<1>2. PICK r \in Restores : r = Cur(h) /\ lock = h /\ Blocking = {r}
  BY <1>1, LockOwnsOpen
<1> DEFINE t == IF txn[r].displaced.backups
                 THEN [txn[r] EXCEPT !.displaced.backups = FALSE, !.staged.backups = TRUE]
                 ELSE txn[r]
<1>3. txn[r].phase = "live_displaced" /\ live = None
  BY <1>1, <1>2 DEF Inv, HostInv, Reached, At
<1>0. txn[r].displaced \in Profile /\ txn[r].staged \in Profile /\ Exact(txn[r].staged, r)
  BY <1>2, <1>3 DEF Inv, TypeOK, Transaction, Directory, DataInv, Shape, Exact
<1>4. /\ txn' = [txn EXCEPT ![r] = t] /\ Goto(h, "publish")
      /\ UNCHANGED <<live, lock, bounds>> /\ live' \in Directory
  BY <1>2, <1>0 DEF CarryBackups, Inv, TypeOK, Transaction, Profile
<1>6. /\ t.phase = txn[r].phase
      /\ t.staged \in Profile /\ t.staged # None /\ Exact(t.staged, r)
      /\ t.displaced \in Profile /\ t.displaced # None /\ t.displaced.of = txn[r].displaced.of
      /\ ~t.displaced.backups
  <2>1. CASE txn[r].displaced.backups
    <3>1. /\ t.phase = txn[r].phase
          /\ t.staged = [txn[r].staged EXCEPT !.backups = TRUE]
          /\ t.displaced = [txn[r].displaced EXCEPT !.backups = FALSE]
      BY <1>2, <1>0, <2>1 DEF Inv, TypeOK, Transaction
    <3> HIDE DEF t
    <3>2. t.staged \in Profile /\ t.displaced \in Profile
      BY <1>0, <3>1 DEF Profile
    <3> QED
      BY <1>0, <3>1, <3>2, NoneAssumption DEF Exact, Profile
  <2>2. CASE ~txn[r].displaced.backups
    BY <1>0, <2>2, NoneAssumption DEF Exact
  <2> QED
    BY <2>1, <2>2
<1>5. t \in Transaction
  <2>1. txn[r] \in Transaction
    BY DEF Inv, TypeOK
  <2>2. t = [phase |-> t.phase, staged |-> t.staged, displaced |-> t.displaced]
    BY <2>1 DEF Transaction
  <2> HIDE DEF t
  <2> QED
    BY <1>6, <2>1, <2>2 DEF Transaction, Directory
<1> HIDE DEF t
<1>7. ASSUME txn'[r] = t PROVE Shape(r)'
  BY <1>3, <1>4, <1>6, <1>7 DEF Shape, Exact
<1>8. Origins'
  BY <1>2, <1>4, <1>5, <1>6, <1>3, <1>0, NoneAssumption, OriginsKept
<1>9. ASSUME host'[h].pc = "publish", host'[h].cur = r, txn'[r] = t PROVE Reached(h)'
  BY <1>2, <1>3, <1>4, <1>6, <1>9 DEF Reached, At, Cur
<1>10. host[h].mode = "boot" =>
         /\ "publish" \in SharedSteps
         /\ live = None \/ txn[r].phase \in {"live_displaced", "activated"}
  BY <1>1, <1>3 DEF Inv, HostInv, StepOfMode, StartupSteps, SharedSteps
<1>11. /\ live' = None => t.phase \in {"candidate_ready", "live_displaced"}
       /\ t.phase \notin {"unused", "aborted", "reconciled"}
       /\ "publish" \in StagingSteps \cup {"displace"} =>
            /\ host[h].pc \in StagingSteps /\ UNCHANGED live
            /\ t.phase \in {"unmarked", "staging", "candidate_ready"}
            /\ t.displaced = txn[r].displaced
  BY <1>1, <1>2, <1>3, <1>4, <1>6 DEF Inv, DataInv, LiveOrBetween, StagingSteps, SharedSteps
<1>12. StepsTo(h, r, "publish", t)
  BY <1>1, <1>2, <1>4, <1>7, <1>8, <1>9, <1>10, <1>11 DEF StepsTo
<1> QED
  BY <1>1, <1>5, <1>12, WorkStep

LEMMA PublishKeeps ==
    ASSUME Inv, NEW h \in Hosts, Publish(h)
    PROVE  Inv'
<1>1. host[h].pc = "publish" /\ host[h].pc \in LockSteps /\ host[h].pc \in RestoreSteps
      /\ "activated" \in RestoreSteps /\ "activated" \in Steps
  BY DEF Publish, At, LockSteps, RestoreSteps, StagingSteps, SharedSteps, Steps
<1>2. PICK r \in Restores : r = Cur(h) /\ lock = h /\ Blocking = {r}
  BY <1>1, LockOwnsOpen
<1> DEFINE t == [txn[r] EXCEPT !.staged = None]
<1>3. /\ txn[r].phase = "live_displaced" /\ live = None /\ ~txn[r].displaced.backups
      /\ txn[r].displaced # None /\ Exact(txn[r].staged, r)
  BY <1>1, <1>2 DEF Inv, DataInv, Shape, HostInv, Reached, At
<1>4. /\ txn' = [txn EXCEPT ![r] = t] /\ Goto(h, "activated")
      /\ UNCHANGED <<lock, bounds>> /\ live' \in Directory /\ live' = txn[r].staged /\ live' # None
  BY <1>2, <1>3 DEF Publish, Inv, TypeOK, Transaction, Exact
<1>5. t \in Transaction
  BY <1>2 DEF Inv, TypeOK, Transaction, Directory
<1>6. t.phase = txn[r].phase /\ t.staged = None /\ t.displaced = txn[r].displaced
  BY <1>2 DEF Inv, TypeOK, Transaction
<1> HIDE DEF t
<1>7. ASSUME txn'[r] = t PROVE Shape(r)'
  BY <1>3, <1>4, <1>6, <1>7 DEF Shape, Exact
<1>8. Origins'
  <2>1. Origins /\ txn'[r] = t /\ \A s \in Restores \ {r} : txn'[s] = txn[s]
    BY <1>4 DEF Inv, DataInv, TypeOK
  <2> QED
    BY <1>3, <1>4, <1>6, <2>1 DEF Origins, Exact
<1>9. ASSUME host'[h].pc = "activated", host'[h].cur = r, txn'[r] = t PROVE Reached(h)'
  BY <1>2, <1>3, <1>4, <1>6, <1>9 DEF Reached, At, Cur
<1>10. host[h].mode = "boot" =>
         /\ "activated" \in SharedSteps
         /\ live = None \/ txn[r].phase \in {"live_displaced", "activated"}
  BY <1>1, <1>3 DEF Inv, HostInv, StepOfMode, StartupSteps, SharedSteps
<1>11. /\ live' = None => t.phase \in {"candidate_ready", "live_displaced"}
       /\ t.phase \notin {"unused", "aborted", "reconciled"}
       /\ "activated" \in StagingSteps \cup {"displace"} =>
            /\ host[h].pc \in StagingSteps /\ UNCHANGED live
            /\ t.phase \in {"unmarked", "staging", "candidate_ready"}
            /\ t.displaced = txn[r].displaced
  BY <1>1, <1>2, <1>3, <1>4, <1>6 DEF Inv, DataInv, LiveOrBetween, StagingSteps, SharedSteps
<1>12. StepsTo(h, r, "activated", t)
  BY <1>1, <1>2, <1>4, <1>7, <1>8, <1>9, <1>10, <1>11 DEF StepsTo
<1> QED
  BY <1>1, <1>5, <1>12, WorkStep

-----------------------------------------------------------------------------
(* Ends and errors. *)

\* A restore ends, well or not: the Host serves on or waits for its replacement.
LEMMA ReleaseKeeps ==
    ASSUME Inv, NEW h \in Hosts, host[h].mode \in {"normal", "recovery"},
           host[h].pc \in LockSteps, NEW step \in {"idle", "replaced"},
           step = "idle" => host[h].pc \in StagingSteps,
           host' = [host EXCEPT ![h].pc = step, ![h].cur = None], lock' = None,
           UNCHANGED <<live, txn>>,
           crashes' \in 0 .. MaxCrashes, faults' \in 0 .. MaxFaults
    PROVE  Inv'
<1> DEFINE new == [host[h] EXCEPT !.pc = step, !.cur = None]
<1>1. host' = [host EXCEPT ![h] = new] /\ new \in HostState
  BY DEF Inv, TypeOK, HostState, Steps
<1>2. new.pc = step /\ new.cur = None /\ new.mode = host[h].mode /\ new.why = host[h].why
  BY DEF Inv, TypeOK, HostState
<1>3. lock = h /\ lock' # h /\ (\A g \in Hosts \ {h} : lock' = g <=> lock = g) /\ host[h].mode # "down"
  BY LockOwnsOpen, RestoreAssumption
<1> HIDE DEF new
<1>4. ASSUME host'[h] = new PROVE HostInv(h)'
  <2>1. HostInv(h) /\ Blocking' = Blocking
    BY DEF Inv, Blocking
  <2>2. LockHeld(h)' /\ StepOfMode(h)' /\ RestoresAlone(h)' /\ Reached(h)'
    BY <1>2, <1>3, <1>4 DEF LockHeld, StepOfMode, RestoresAlone, Restoring, Reached, At, Cur,
       LockSteps, StagingSteps, SharedSteps
  <2>3. PastAssertion(h)'
    BY <1>2, <1>4, <2>1 DEF HostInv, PastAssertion, StagingSteps
  <2> QED
    BY <1>2, <1>4, <2>1, <2>2, <2>3 DEF HostInv
<1> QED
  BY <1>1, <1>3, <1>4, HostStep, RestoreAssumption

LEMMA CheckActivatedKeeps ==
    ASSUME Inv, NEW h \in Hosts, CheckActivated(h)
    PROVE  Inv'
<1>1. /\ host[h].pc = "check" /\ host[h].pc \in LockSteps /\ host[h].pc # "idle"
      /\ host[h].mode \in {"boot", "normal", "recovery"}
      /\ UNCHANGED <<live, txn, bounds>>
      /\ crashes' \in 0 .. MaxCrashes /\ faults' \in 0 .. MaxFaults
  BY DEF CheckActivated, At, LockSteps, SharedSteps, Inv, HostInv, StepOfMode, TypeOK, HostState, bounds
<1>2. /\ lock = h /\ Cur(h) \in Restores /\ Blocking = {Cur(h)}
      /\ host[h].why \notin {"ambiguous", "mismatch", "occupied", "several"}
  BY <1>1, LockOwnsOpen DEF Inv, HostInv
<1>3. CASE host[h].mode # "boot"
  BY <1>1, <1>3, ReleaseKeeps DEF CheckActivated
<1>4. CASE host[h].mode = "boot"
  <2>1. txn[Cur(h)].phase \in {"live_displaced", "activated"} /\ live # None /\ Verified(live)
    BY <1>1, <1>2 DEF Inv, HostInv, Reached, DataInv, Shape, Exact, Verified
  <2>2. Goto(h, "reproject") /\ UNCHANGED <<live, txn, lock, bounds>>
    BY <1>1, <1>4, <2>1 DEF CheckActivated
  <2>3. ASSUME host'[h] = [host[h] EXCEPT !.pc = "reproject"] PROVE HostInv(h)'
    <3>1. /\ host'[h].mode = "boot" /\ host'[h].pc = "reproject" /\ host'[h].cur = Cur(h)
          /\ host'[h].why = host[h].why
      BY <1>1, <1>4, <2>3 DEF Inv, TypeOK, HostState, Cur
    <3>2. LockHeld(h)' /\ Reached(h)'
      BY <1>2, <2>1, <2>2, <3>1 DEF LockHeld, LockSteps, Blocking, Reached, At, Cur
    <3>3. StepOfMode(h)' /\ RestoresAlone(h)' /\ PastAssertion(h)'
      BY <3>1 DEF StepOfMode, RestoresAlone, Restoring, PastAssertion, StartupSteps
    <3> QED
      BY <1>2, <3>1, <3>2, <3>3 DEF HostInv
  <2> QED
    BY <1>1, <2>2, <2>3, MoveKeeps DEF Steps, StartupSteps
<1> QED
  BY <1>3, <1>4

LEMMA ExitKeeps ==
    ASSUME Inv, NEW h \in Hosts, Exit(h)
    PROVE  Inv'
<1>1. /\ host[h].mode # "down" /\ host[h].pc \in {"idle", "replaced"}
      /\ host' = [host EXCEPT ![h] = Stopped] /\ UNCHANGED <<live, txn, lock, bounds>>
  BY DEF Exit
<1>2. lock # h
  BY <1>1 DEF Inv, HostInv, LockHeld, LockSteps, StagingSteps, SharedSteps
<1>3. FailStart(h) /\ crashes' \in 0 .. MaxCrashes /\ faults' \in 0 .. MaxFaults
  BY <1>1, <1>2 DEF FailStart, Unlocked, Inv, TypeOK, bounds
<1> QED
  BY <1>1, <1>3, FailStartKeeps

LEMMA CrashKeeps ==
    ASSUME Inv, NEW h \in Hosts, Crash(h)
    PROVE  Inv'
<1>1. crashes' \in 0 .. MaxCrashes /\ faults' \in 0 .. MaxFaults
  BY RestoreAssumption DEF Crash, Inv, TypeOK
<1> QED
  BY <1>1, FailStartKeeps DEF Crash

LEMMA FaultKeeps ==
    ASSUME Inv, NEW h \in Hosts, Fault(h)
    PROVE  Inv'
<1>1. /\ crashes' \in 0 .. MaxCrashes /\ faults' \in 0 .. MaxFaults
      /\ UNCHANGED <<live, txn>> /\ host[h].mode # "down"
  BY RestoreAssumption DEF Fault, Inv, TypeOK, HostInv, StepOfMode
<1>2. CASE Refuse(h, "storage")
  BY <1>1, <1>2, RefuseKeeps DEF Causes
<1>3. CASE FailStart(h)
  BY <1>1, <1>3, FailStartKeeps
<1>4. CASE /\ host[h].mode # "boot"
           /\ host' = [host EXCEPT ![h].cur = None,
                         ![h].pc = IF @ \in StagingSteps THEN "idle" ELSE "replaced"]
           /\ lock' = None
  <2> DEFINE step == IF host[h].pc \in StagingSteps THEN "idle" ELSE "replaced"
  <2>1. host' = [host EXCEPT ![h].pc = step, ![h].cur = None]
    BY <1>4 DEF Inv, TypeOK, HostState
  <2>2. host[h].mode \in {"normal", "recovery"} /\ host[h].pc \in LockSteps
    BY <1>1, <1>4 DEF Fault, Inv, TypeOK, HostState, HostInv, StepOfMode, LockSteps
  <2>3. step \in {"idle", "replaced"} /\ (step = "idle" => host[h].pc \in StagingSteps)
    OBVIOUS
  <2> HIDE DEF step
  <2> QED
    BY <1>1, <1>4, <2>1, <2>2, <2>3, ReleaseKeeps
<1> QED
  BY <1>1, <1>2, <1>3, <1>4 DEF Fault
-----------------------------------------------------------------------------
(* The theorems. *)

LEMMA StepInv == Inv /\ [Next]_vars => Inv'
<1> SUFFICES ASSUME Inv, [Next]_vars PROVE Inv'
  OBVIOUS
<1>1. CASE UNCHANGED vars
  <2>1. UNCHANGED <<live, txn, lock, host, crashes, faults>> /\ Blocking' = Blocking
    BY <1>1 DEF vars, Blocking
  <2>2. TypeOK'
    BY <2>1 DEF Inv, TypeOK
  <2>3. DataInv'
    <3>1. OneOpen' /\ LiveOrBetween' /\ Origins'
      BY <2>1 DEF Inv, DataInv, OneOpen, LiveOrBetween, Origins
    <3>2. \A r \in Restores : Shape(r)'
      BY <2>1 DEF Inv, DataInv, Shape, Exact
    <3> QED
      BY <3>1, <3>2 DEF DataInv
  <2>4. ASSUME NEW h \in Hosts PROVE HostInv(h)'
    <3>1. LockHeld(h)' /\ StepOfMode(h)' /\ RestoresAlone(h)'
      BY <2>1 DEF Inv, HostInv, LockHeld, StepOfMode, RestoresAlone, Restoring, At, Cur
    <3>2. PastAssertion(h)' /\ Reached(h)'
      BY <2>1 DEF Inv, HostInv, PastAssertion, Reached, At, Cur
    <3> QED
      BY <2>1, <3>1, <3>2 DEF Inv, HostInv
  <2> QED
    BY <2>2, <2>3, <2>4 DEF Inv
<1>2. ASSUME NEW h \in Hosts, StartupStep(h) PROVE Inv'
  BY <1>2, ScanKeeps, LockProfileKeeps, ReconcileKeeps, RetainKeeps, CompleteKeeps,
     BeginReprojectionKeeps, StartCoreKeeps, OpenProfileKeeps, LockReopenKeeps, ReindexKeeps
     DEF StartupStep
<1>3. ASSUME NEW h \in Hosts, ActivationStep(h) PROVE Inv'
  BY <1>3, CreateMarkerKeeps, PopulateKeeps, MarkReadyKeeps, QuiesceKeeps, DisplaceKeeps,
     MarkDisplacedKeeps, CarryBackupsKeeps, PublishKeeps, MarkActivatedKeeps, CheckActivatedKeeps
     DEF ActivationStep
<1>4. CASE Next
  BY <1>2, <1>3, <1>4, BootKeeps, CreateTransactionKeeps, InPlaceKeeps, ExitKeeps, CrashKeeps,
     FaultKeeps DEF Next
<1> QED
  BY <1>1, <1>4

\* The inductive invariant: one restore is open, its marker, its directories
\* and the steps of all Hosts fit together in every reachable state.
THEOREM Invariance == Spec => []Inv
<1> QED
  BY InitInv, StepInv, PTL DEF Spec

\* Every reachable state is well typed.
THEOREM TypeCorrect == Spec => []TypeOK
<1>1. Inv => TypeOK
  BY DEF Inv
<1> QED
  BY <1>1, Invariance, PTL

\* No start finds directories its marker does not explain, a profile that is
\* not the backup's, a taken path or two open transactions.
THEOREM StartsAreExplained == Spec => []NeverStranded
<1>1. Inv => NeverStranded
  BY DEF Inv, HostInv, NeverStranded
<1> QED
  BY <1>1, Invariance, PTL

\* A Host serves only a profile that is whole, with no restore half done.
THEOREM ServiceIsSettled == Spec => []ServesSettled
<1>1. Inv => ServesSettled
  <2> SUFFICES ASSUME Inv, NEW h \in Hosts, Serving(h)
               PROVE  /\ live # None /\ live.db /\ live.state = "opened"
                      /\ \A r \in Restores :
                            \/ txn[r].phase \in {"unused", "aborted", "reconciled"}
                            \/ txn[r].displaced = None
                               /\ txn[r].phase \in {"unmarked", "staging", "candidate_ready"}
    BY DEF ServesSettled
  <2>1. PastAssertion(h) /\ host[h].mode = "normal" /\ host[h].pc = "idle"
    BY DEF Inv, HostInv, Serving, At
  <2> QED
    BY <2>1 DEF PastAssertion, Blocking
<1> QED
  BY <1>1, Invariance, PTL

\* While a Host serves, the user's archives are in the profile.
THEOREM ArchivesCarried == Spec => []ArchivesReachable
<1>1. Inv => ArchivesReachable
  <2> SUFFICES ASSUME Inv, NEW h \in Hosts, Serving(h),
                      NEW r \in Restores, NEW p \in {txn[r].staged, txn[r].displaced} \ {None}
               PROVE  ~p.backups
    BY DEF ArchivesReachable
  <2>1. live # None /\ Shape(r) /\ txn[r].phase # "live_displaced"
    BY DEF Inv, HostInv, DataInv, Serving, At, PastAssertion, Blocking
  <2> QED
    BY <2>1 DEF Shape
<1> QED
  BY <1>1, Invariance, PTL
-----------------------------------------------------------------------------
(* The restore implements the replacement of one profile by another. *)

LEMMA BetweenIsOpen ==
    ASSUME Inv
    PROVE  /\ \A r \in Between : r \in Blocking /\ live = None
           /\ \A q, r \in Between : q = r
           /\ live = None => Between # {}
<1>1. ASSUME NEW r \in Between PROVE r \in Blocking /\ live = None
  <2>1. r \in Restores /\ Shape(r) /\ txn[r].displaced # None /\ txn[r].staged # None
    BY DEF Between, Inv, DataInv
  <2>2. txn[r].phase \in {"candidate_ready", "live_displaced"}
    BY <2>1 DEF Shape, Inv, TypeOK, Transaction, Phases
  <2> QED
    BY <2>1, <2>2 DEF Shape, Blocking
<1>2. \A q, r \in Between : q = r
  BY <1>1 DEF Inv, DataInv, OneOpen
<1>3. live = None => Between # {}
  BY DEF Inv, DataInv, LiveOrBetween, Shape, Exact, Between, Blocking
<1> QED
  BY <1>1, <1>2, <1>3

\* A step that keeps what the directories hold changes no profile.
LEMMA ContentKept ==
    ASSUME Inv,
           live' = None <=> live = None,
           live # None => live'.of = live.of /\ live'.edits = live.edits,
           \A r \in Restores :
              /\ txn'[r].displaced # None <=> txn[r].displaced # None
              /\ txn[r].displaced # None =>
                    /\ txn'[r].staged = None <=> txn[r].staged = None
                    /\ txn'[r].displaced.of = txn[r].displaced.of
                    /\ txn'[r].displaced.edits = txn[r].displaced.edits
    PROVE  UNCHANGED <<authority, kept>>
<1>1. Between' = Between /\ Published' = Published
  BY DEF Between, Published
<1>2. \A r \in Between \cup Published : ContentOf(txn[r].displaced)' = ContentOf(txn[r].displaced)
  BY DEF Between, Published, ContentOf
<1>3. kept' = kept
  BY <1>1, <1>2 DEF kept
<1>4. authority' = authority
  <2>1. CASE live # None
    BY <2>1 DEF authority, ContentOf
  <2>2. CASE live = None
    <3> DEFINE r == CHOOSE r \in Between : TRUE
    <3>1. r \in Between /\ r' = r
      BY <1>1, <2>2, BetweenIsOpen
    <3>2. authority = ContentOf(txn[r].displaced) /\ authority' = ContentOf(txn[r].displaced)'
      BY <2>2 DEF authority
    <3> QED
      BY <1>2, <3>1, <3>2
  <2> QED
    BY <2>1, <2>2
<1> QED
  BY <1>3, <1>4

\* Every step but an edit and a publication leaves the profiles as they are.
Quiet(h) ==
    \/ UNCHANGED <<live, txn>>
    \/ Retain(h) \/ BeginReprojection(h) \/ OpenProfile(h) \/ Reindex(h) \/ CreateBackup(h)
    \/ (\E r \in Restores : CreateTransaction(h, r))
    \/ CreateMarker(h) \/ Populate(h) \/ MarkReady(h)
    \/ MarkDisplaced(h) \/ CarryBackups(h) \/ MarkActivated(h)

LEMMA QuietStutters ==
    ASSUME Inv, NEW h \in Hosts, Quiet(h)
    PROVE  UNCHANGED <<authority, kept>>
<1>1. CASE UNCHANGED <<live, txn>>
  BY <1>1, ContentKept
<1>2. CASE OpenProfile(h) \/ CreateBackup(h)
  <2>1. live # None /\ live \in Profile
    <3>1. live # None
      BY <1>2 DEF OpenProfile, CreateBackup, Serving, At, Inv, HostInv, PastAssertion
    <3> QED
      BY <3>1 DEF Inv, TypeOK, Directory
  <2>2. live' \in Profile /\ live'.of = live.of /\ live'.edits = live.edits /\ txn' = txn
    <3>1. CASE OpenProfile(h)
      BY <2>1, <3>1 DEF OpenProfile, Profile
    <3>2. CASE CreateBackup(h)
      BY <2>1, <3>2 DEF CreateBackup, Profile
    <3> QED
      BY <1>2, <3>1, <3>2
  <2> QED
    BY <2>1, <2>2, NoneAssumption, ContentKept
<1>3. ASSUME NEW ph, SetPhase(Cur(h), ph), UNCHANGED live PROVE UNCHANGED <<authority, kept>>
  <2>1. \A r \in Restores : txn'[r].displaced = txn[r].displaced /\ txn'[r].staged = txn[r].staged
    BY <1>3 DEF SetPhase, Inv, TypeOK, Transaction
  <2> QED
    BY <1>3, <2>1, ContentKept
<1>4. CASE Retain(h)
  BY <1>1, <1>3, <1>4 DEF Retain
<1>5. CASE \/ BeginReprojection(h) \/ Reindex(h) \/ CreateMarker(h) \/ MarkReady(h)
           \/ MarkDisplaced(h) \/ MarkActivated(h)
  BY <1>3, <1>5 DEF BeginReprojection, Reindex, CreateMarker, MarkReady, MarkDisplaced, MarkActivated
<1>6. ASSUME NEW r \in Restores, CreateTransaction(h, r) PROVE UNCHANGED <<authority, kept>>
  <2>1. txn[r].phase = "unused" /\ txn[r].displaced = None /\ live' = live
    BY <1>6 DEF CreateTransaction, Inv, DataInv, Shape
  <2>2. /\ txn'[r].displaced = txn[r].displaced
        /\ \A s \in Restores \ {r} : txn'[s] = txn[s]
    BY <1>6 DEF CreateTransaction, Inv, TypeOK, Transaction
  <2> QED
    BY <2>1, <2>2, ContentKept
<1>7. CASE Populate(h)
  <2>1. Cur(h) \in Restores /\ txn[Cur(h)].phase = "staging" /\ live' = live
    BY <1>7, LockOwnsOpen DEF Populate, At, LockSteps, StagingSteps, Inv, HostInv, Reached
  <2>2. txn[Cur(h)].displaced = None
    BY <2>1 DEF Inv, DataInv, Shape
  <2>3. /\ txn'[Cur(h)].displaced = txn[Cur(h)].displaced
        /\ \A s \in Restores \ {Cur(h)} : txn'[s] = txn[s]
    BY <1>7, <2>1 DEF Populate, Inv, TypeOK, Transaction
  <2> QED
    BY <2>1, <2>2, <2>3, ContentKept
<1>8. CASE CarryBackups(h)
  <2> DEFINE t == txn[Cur(h)]
  <2>1. Cur(h) \in Restores /\ t.phase = "live_displaced" /\ live = None /\ live' = live
    BY <1>8, LockOwnsOpen DEF CarryBackups, At, LockSteps, SharedSteps, Inv, HostInv, Reached
  <2>2. t.displaced \in Profile /\ t.staged \in Profile /\ t \in Transaction
    BY <2>1 DEF Inv, TypeOK, Transaction, Directory, DataInv, Shape, Exact
  <2>3. CASE t.displaced.backups
    <3>1. /\ txn'[Cur(h)].displaced = [t.displaced EXCEPT !.backups = FALSE]
          /\ txn'[Cur(h)].staged = [t.staged EXCEPT !.backups = TRUE]
          /\ \A s \in Restores \ {Cur(h)} : txn'[s] = txn[s]
      BY <1>8, <2>1, <2>2, <2>3 DEF CarryBackups, Inv, TypeOK, Transaction
    <3>2. /\ txn'[Cur(h)].displaced \in Profile /\ txn'[Cur(h)].staged \in Profile
          /\ txn'[Cur(h)].displaced.of = t.displaced.of
          /\ txn'[Cur(h)].displaced.edits = t.displaced.edits
      BY <2>2, <3>1 DEF Profile
    <3> HIDE DEF t
    <3>3. \A s \in Restores :
             /\ txn'[s].displaced # None <=> txn[s].displaced # None
             /\ txn[s].displaced # None =>
                   /\ txn'[s].staged = None <=> txn[s].staged = None
                   /\ txn'[s].displaced.of = txn[s].displaced.of
                   /\ txn'[s].displaced.edits = txn[s].displaced.edits
      BY <2>2, <3>1, <3>2, NoneAssumption DEF t
    <3> QED
      BY <2>1, <3>3, ContentKept
  <2>4. CASE ~t.displaced.backups
    BY <1>1, <1>8, <2>1, <2>4 DEF CarryBackups
  <2> QED
    BY <2>3, <2>4
<1> QED
  BY <1>1, <1>2, <1>4, <1>5, <1>6, <1>7, <1>8 DEF Quiet

\* Between the two renames the displaced profile is the one in force.
LEMMA DisplaceStutters ==
    ASSUME Inv, Inv', NEW h \in Hosts, Displace(h)
    PROVE  UNCHANGED <<authority, kept>>
<1>1. PICK r \in Restores : r = Cur(h)
  BY LockOwnsOpen DEF Displace, At, LockSteps
<1>2. live # None /\ txn[r].phase = "candidate_ready" /\ txn[r].displaced = None /\ txn[r].staged # None
  BY <1>1 DEF Displace, At, Inv, HostInv, Reached, DataInv, Shape, Exact
<1>3. /\ txn'[r].displaced = live /\ txn'[r].staged = txn[r].staged /\ live' = None
      /\ \A s \in Restores \ {r} : txn'[s] = txn[s]
  BY <1>1 DEF Displace, Inv, TypeOK, Transaction
<1>4. Between = {} /\ Between' = {r} /\ Published' = Published
  BY <1>2, <1>3, BetweenIsOpen DEF Between, Published
<1>5. kept' = kept
  <2>1. \A s \in Published : ContentOf(txn[s].displaced)' = ContentOf(txn[s].displaced)
    BY <1>2, <1>3 DEF Published, ContentOf
  <2> QED
    BY <1>4, <2>1 DEF kept
<1>6. authority' = authority
  <2>1. (CHOOSE s \in Between : TRUE)' = r
    BY <1>4
  <2>2. authority = ContentOf(live) /\ authority' = ContentOf(txn[CHOOSE s \in Between : TRUE].displaced)'
    BY <1>2, <1>3 DEF authority
  <2> QED
    BY <1>3, <2>1, <2>2 DEF ContentOf
<1> QED
  BY <1>5, <1>6

LEMMA PublishReplaces ==
    ASSUME Inv, NEW h \in Hosts, Publish(h)
    PROVE  \E r \in Restores : Whole!Replace(r)
<1>1. PICK r \in Restores : r = Cur(h) /\ Blocking = {r}
  BY LockOwnsOpen DEF Publish, At, LockSteps, SharedSteps
<1>2. /\ live = None /\ txn[r].phase = "live_displaced" /\ txn[r].displaced # None
      /\ Exact(txn[r].staged, r)
  BY <1>1 DEF Publish, At, Inv, HostInv, Reached, DataInv, Shape
<1>3. /\ live' = txn[r].staged /\ txn'[r].staged = None /\ txn'[r].displaced = txn[r].displaced
      /\ \A s \in Restores \ {r} : txn'[s] = txn[s]
  BY <1>1, <1>2 DEF Publish, Inv, TypeOK, Transaction
<1>4. Between = {r} /\ Published' = Published \cup {r}
  BY <1>2, <1>3, BetweenIsOpen DEF Between, Published, Exact
<1>5. authority = ContentOf(txn[r].displaced) /\ authority' = [of |-> r, edits |-> 0]
  BY <1>2, <1>3, <1>4 DEF authority, ContentOf, Exact
<1>6. kept' = kept \cup {authority}
  <2>1. \A s \in Published \cup {r} : ContentOf(txn[s].displaced)' = ContentOf(txn[s].displaced)
    BY <1>3 DEF Published, ContentOf
  <2> QED
    BY <1>4, <1>5, <2>1 DEF kept
<1>7. \A c \in kept \cup {authority} : c.of # r
  <2>1. \A s \in Restores : txn[s].displaced # None => txn[s].displaced.of # r
    BY <1>2 DEF Inv, DataInv, Origins, Exact
  <2> QED
    BY <1>2, <1>5, <2>1 DEF kept, Published, ContentOf
<1> QED
  BY <1>5, <1>6, <1>7 DEF Whole!Replace

LEMMA EditEdits ==
    ASSUME Inv, NEW h \in Hosts, Edit(h)
    PROVE  Whole!Edit
<1>1. live # None /\ live \in Profile /\ txn' = txn /\ live' = [live EXCEPT !.edits = @ + 1]
  BY DEF Edit, Inv, TypeOK, Directory, HostInv, PastAssertion, StagingSteps
<1>2. live' \in Profile /\ live'.of = live.of /\ live'.edits = live.edits + 1
  BY <1>1 DEF Profile
<1>3. authority = [of |-> live.of, edits |-> live.edits] /\ authority' = [of |-> live.of, edits |-> live.edits + 1]
  BY <1>1, <1>2, NoneAssumption DEF authority, ContentOf
<1>4. kept' = kept
  BY <1>1 DEF kept, Published, ContentOf
<1> QED
  BY <1>3, <1>4 DEF Whole!Edit

LEMMA InitReplaces == Init => Whole!Init
<1> SUFFICES ASSUME Init PROVE Whole!Init
  OBVIOUS
<1>1. live # None /\ live.of = Own /\ live.edits = 0
  BY NoneAssumption DEF Init, Profile
<1>2. Published = {}
  BY DEF Init, Published
<1> QED
  BY <1>1, <1>2 DEF authority, kept, ContentOf, Whole!Init

LEMMA StepReplaces == Inv /\ Inv' /\ [Next]_vars => [Whole!Next]_(Whole!vars)
<1> SUFFICES ASSUME Inv, Inv', [Next]_vars PROVE Whole!Next \/ UNCHANGED <<authority, kept>>
  BY DEF Whole!vars
<1>1. CASE UNCHANGED vars
  BY <1>1, ContentKept DEF vars
<1>2. ASSUME NEW h \in Hosts, Quiet(h) \/ Displace(h) \/ Publish(h) \/ Edit(h)
      PROVE  Whole!Next \/ UNCHANGED <<authority, kept>>
  BY <1>2, QuietStutters, DisplaceStutters, PublishReplaces, EditEdits DEF Whole!Next
<1>3. ASSUME NEW h \in Hosts, StartupStep(h) PROVE Quiet(h)
  BY <1>3 DEF StartupStep, Quiet, Scan, LockProfile, Reconcile, Complete, StartCore, LockReopen
<1>4. ASSUME NEW h \in Hosts, ActivationStep(h) PROVE Quiet(h) \/ Displace(h) \/ Publish(h)
  BY <1>4 DEF ActivationStep, Quiet, Quiesce, CheckActivated
<1>5. ASSUME NEW h \in Hosts, Boot(h) \/ Exit(h) \/ Crash(h) \/ Fault(h) PROVE Quiet(h)
  BY <1>5 DEF Quiet, Boot, Exit, Crash, Fault
<1>6. CASE Next
  BY <1>2, <1>3, <1>4, <1>5, <1>6 DEF Next, Quiet
<1> QED
  BY <1>1, <1>6

\* The restore refines the replacement of one profile by another, as a unit.
THEOREM RestoreRefined == Spec => ReplacedAsAUnit
<1> QED
  BY Invariance, InitReplaces, StepReplaces, PTL DEF Spec, ReplacedAsAUnit, Whole!Spec
=============================================================================
