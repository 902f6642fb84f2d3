-------------------- MODULE DeploymentTransaction_safety --------------------
(* Why two journals never collide, no path gets two owners and recovery is *)
(* never refused: the inductive invariant Inv of DeploymentTransaction.    *)
(*                                                                         *)
(* A step is seen through what it does to control, that is the journals,   *)
(* the rows, the leases, the phases and the jobs. Local(q) gathers what    *)
(* Inv says of process q, Global what it says of journals and rows.        *)
EXTENDS DeploymentTransaction_proofs

Local(q) ==
    /\ pc[q] \in OwningPhases => job[q].dep \in Deployments /\ opLock[job[q].dep] = q
    /\ pc[q] \in LeasedPhases => \A k \in KeysOf(job[q].ent.paths) : keyLock[k] = q
    /\ pc[q] \in ScannedPhases => ~Reserved(job[q].ent.paths)
    /\ pc[q] = "probed" => ~Occupied(job[q].dep, job[q].ent.paths)
    /\ pc[q] \in PrepPhases => /\ row[job[q].dep].baseline = job[q].ent.base
                               /\ JournalsOf(job[q].dep) = {}
    /\ pc[q] \in PrepPhases \cup WritePhases =>
           \A x \in Paths : job[q].ent.new[x] # Absent => x \in job[q].ent.paths
    /\ pc[q] \in WritePhases \cup RecoverPhases =>
           /\ job[q].txn \in Txns
           /\ journal[job[q].txn].phase # "unused"
           /\ journal[job[q].txn].dep = job[q].dep
           /\ journal[job[q].txn].ent = job[q].ent
           /\ pc[q] \notin {"found", "owned", "locked"} => Active(job[q].txn)

Global ==
    /\ OneJournal /\ PointerPublished /\ MarkersNamed
    /\ JournalsDisjoint /\ SingleOwner /\ RecoveryNeverRefused

LEMMA InvSplit == Inv <=> TypeOK /\ Global /\ \A q \in Procs : Local(q)
BY DEF Inv, Global, Local, OperationLeased, KeysLeased, ScanHolds, ProbeHolds,
       BaselineHolds, DeployCovers, JobIsMarker

\* A step that moves a process on and leaves leases, jobs and journals alone.
Forward(p, q) ==
    /\ Goto(p, q)
    /\ UNCHANGED <<journal, row, opLock, keyLock, job>>
    /\ \/ pc[p] = "keyed" /\ q = "scanned" /\ ~Reserved(job[p].ent.paths)
       \/ pc[p] = "prepared" /\ q = "probed" /\ ~Occupied(job[p].dep, job[p].ent.paths)
       \/ pc[p] \in WritePhases /\ q \in WritePhases
       \/ pc[p] = "locked" /\ q = "recovering" /\ Active(job[p].txn)
       \/ pc[p] = "recovering" /\ q = "resolving"

Left(p) == Leave(p) /\ UNCHANGED <<journal, row>>
Quiet == UNCHANGED <<journal, row, opLock, keyLock, pc, job>>
Commits(p) ==
    /\ pc[p] = "committing" /\ CommitAllowed(p)
    /\ row' = [row EXCEPT ![job[p].dep] = CommittedRow(p)]
    /\ Goto(p, "finalizing")
    /\ UNCHANGED <<job, opLock, keyLock, journal>>
Owns(p) ==
    /\ pc[p] = "found" /\ opLock[job[p].dep] = NoProc
    /\ opLock' = [opLock EXCEPT ![job[p].dep] = p]
    /\ Goto(p, "owned")
    /\ UNCHANGED <<job, keyLock, journal, row>>
Locks(p) ==
    /\ pc[p] = "owned" /\ TakeKeys(p, job[p].ent.paths)
    /\ Goto(p, "locked")
    /\ UNCHANGED <<job, opLock, journal, row>>

LEMMA FileControl ==
    ASSUME NEW p \in Procs, FileStep(p)
    PROVE  Quiet \/ Left(p) \/ \E q \in WritePhases : Forward(p, q)
<1>1. ASSUME NEW x \in Paths, SkipFile(p, x) \/ ReadFile(p, x) PROVE Quiet
  BY <1>1 DEF SkipFile, ReadFile, Quiet
<1>2. ASSUME NEW x \in Paths, MeetThirdValue(p, x)
      PROVE Quiet \/ Left(p) \/ Forward(p, "undoing")
  BY <1>2 DEF MeetThirdValue, Quiet, Left, Forward, WritePhases
<1>3. CASE DeleteFile(p)
  BY <1>3 DEF DeleteFile, FailCall, Quiet, Left
<1>4. CASE WriteFile(p)
  BY <1>4 DEF WriteFile, FailCall, Quiet, Left
<1>5. CASE ChmodFile(p)
  BY <1>5 DEF ChmodFile, Quiet
<1>6. CASE CheckFile(p)
  BY <1>6 DEF CheckFile, Quiet, Left
<1>7. "undoing" \in WritePhases
  BY DEF WritePhases
<1> QED
  BY <1>1, <1>2, <1>3, <1>4, <1>5, <1>6, <1>7 DEF FileStep

LEMMA FinishControl ==
    ASSUME NEW p \in Procs, FinishStep(p)
    PROVE  \/ Quiet \/ Left(p) \/ Commits(p) \/ DeleteJournal(p)
           \/ \E q \in WritePhases : Forward(p, q)
<1>1. {"verifying", "undone", "committing"} \subseteq WritePhases
  BY DEF WritePhases
<1>2. CASE FinishWriting(p)
  <2>1. Forward(p, "verifying")
    BY <1>2 DEF FinishWriting, Forward, WritePhases
  <2> QED
    BY <1>1, <2>1
<1>3. CASE FinishUndoing(p)
  <2>1. Left(p) \/ Forward(p, "undone")
    BY <1>3 DEF FinishUndoing, Forward, Left, WritePhases
  <2> QED
    BY <1>1, <2>1
<1>4. ASSUME NEW x \in Paths, VerifyFile(p, x) PROVE Quiet \/ Left(p)
  BY <1>4 DEF VerifyFile, Quiet, Left
<1>5. CASE FinishVerifying(p)
  <2>1. Forward(p, "committing")
    BY <1>5 DEF FinishVerifying, Forward, WritePhases
  <2> QED
    BY <1>1, <2>1
<1>6. CASE Commit(p)
  BY <1>6 DEF Commit, Commits, Left
<1> QED
  BY <1>2, <1>3, <1>4, <1>5, <1>6 DEF FinishStep

LEMMA RecoverControl ==
    ASSUME NEW p \in Procs, RecoverStep(p)
    PROVE  \/ Left(p) \/ Owns(p) \/ Locks(p)
           \/ Forward(p, "recovering") \/ Forward(p, "resolving")
<1>1. CASE RecoverOwn(p)
  BY <1>1 DEF RecoverOwn, Owns, Left
<1>2. CASE RecoverKeys(p)
  BY <1>2 DEF RecoverKeys, Locks, Left
<1>3. CASE RecoverDecide(p)
  BY <1>3 DEF RecoverDecide, Forward, Left
<1>4. CASE FinishRecovering(p)
  BY <1>4 DEF FinishRecovering, Forward
<1> QED
  BY <1>1, <1>2, <1>3, <1>4 DEF RecoverStep
-----------------------------------------------------------------------------
(* Facts about keys and leases. *)

LEMMA KeysCover ==
    ASSUME NEW S \in SUBSET Paths
    PROVE  KeysOf(S) \in SUBSET Keys /\ S \subseteq KeysOf(S)
BY ClosureAssumption DEF KeysOf

\* Two processes that lease their closures share no key, and no path.
LEMMA LeasedApart ==
    ASSUME TypeOK, NEW p \in Procs, NEW q \in Procs, p # q, Local(p), Local(q),
           pc[p] \in LeasedPhases, pc[q] \in LeasedPhases
    PROVE  /\ KeysOf(job[p].ent.paths) \cap KeysOf(job[q].ent.paths) = {}
           /\ job[p].ent.paths \cap job[q].ent.paths = {}
<1>1. job[p].ent.paths \in SUBSET Paths /\ job[q].ent.paths \in SUBSET Paths
  BY SidesTyped, EntriesTyped DEF TypeOK, Jobs
<1>2. KeysOf(job[p].ent.paths) \cap KeysOf(job[q].ent.paths) = {}
  BY DEF Local
<1> QED
  BY <1>1, <1>2, KeysCover

\* Two processes past their first lock work on different Deployments.
LEMMA OwnersApart ==
    ASSUME NEW p \in Procs, NEW q \in Procs, p # q, Local(p), Local(q),
           pc[p] \in OwningPhases, pc[q] \in OwningPhases
    PROVE  job[p].dep # job[q].dep
BY DEF Local

\* A process keeps what Inv says of it while nothing it depends on changes.
LEMMA Bystander ==
    ASSUME NEW q \in Procs, Local(q), UNCHANGED <<journal, row>>,
           pc'[q] = pc[q], job'[q] = job[q],
           TypeOK,
           \A d \in Deployments : opLock[d] = q => opLock'[d] = q,
           \A k \in Keys : keyLock[k] = q => keyLock'[k] = q
    PROVE  Local(q)'
<1>1. job[q].ent.paths \in SUBSET Paths
  BY EntriesTyped DEF TypeOK, Jobs
<1>2. KeysOf(job[q].ent.paths) \in SUBSET Keys
  BY <1>1, KeysCover
<1>3. Reserved(job[q].ent.paths)' = Reserved(job[q].ent.paths)
  BY DEF Reserved, KeysOf, Active
<1>4. Occupied(job[q].dep, job[q].ent.paths)' = Occupied(job[q].dep, job[q].ent.paths)
  BY DEF Occupied, Live, Owned
<1>5. JournalsOf(job[q].dep)' = JournalsOf(job[q].dep)
  BY DEF JournalsOf, Active
<1>6. KeysOf(job[q].ent.paths)' = KeysOf(job[q].ent.paths)
  BY DEF KeysOf
<1>7. Active(job[q].txn)' = Active(job[q].txn)
  BY DEF Active
<1> QED
  BY <1>2, <1>3, <1>4, <1>5, <1>6, <1>7 DEF Local

LEMMA GlobalFrame == Global /\ UNCHANGED <<journal, row>> => Global'
BY DEF Global, OneJournal, PointerPublished, MarkersNamed, JournalsDisjoint, SingleOwner,
       RecoveryNeverRefused, Active, Committed, MatchesAuthority, Occupied, Live, Owned, KeysOf
-----------------------------------------------------------------------------
(* Steps that leave the journals and the rows alone.                       *)

Kept == TypeOK /\ Global /\ \A q \in Procs : Local(q)
KeptNext == Global' /\ \A q \in Procs : Local(q)'

LEMMA ProcessStep ==
    ASSUME Kept, UNCHANGED <<journal, row>>, NEW p \in Procs, Local(p)',
           \A q \in Procs \ {p} : pc'[q] = pc[q] /\ job'[q] = job[q],
           \A d \in Deployments : opLock[d] \notin {p, NoProc} => opLock'[d] = opLock[d],
           \A k \in Keys : keyLock[k] \notin {p, NoProc} => keyLock'[k] = keyLock[k]
    PROVE  KeptNext
<1>1. Global'
  BY GlobalFrame DEF Kept
<1>2. ASSUME NEW q \in Procs, q # p PROVE Local(q)'
  <2>1. TypeOK /\ Local(q)
    BY DEF Kept
  <2>2. \A d \in Deployments : opLock[d] = q => opLock'[d] = q
    BY <1>2, MarkersAssumption
  <2>3. \A k \in Keys : keyLock[k] = q => keyLock'[k] = q
    BY <1>2, MarkersAssumption
  <2>4. pc'[q] = pc[q] /\ job'[q] = job[q]
    BY <1>2
  <2> QED
    BY <2>1, <2>2, <2>3, <2>4, Bystander
<1> QED
  BY <1>1, <1>2 DEF KeptNext

LEMMA QuietKept == Kept /\ Quiet => KeptNext
<1> SUFFICES ASSUME Kept, Quiet PROVE KeptNext
  OBVIOUS
<1>1. ASSUME NEW q \in Procs PROVE Local(q)'
  BY Bystander DEF Kept, Quiet
<1> QED
  BY <1>1, GlobalFrame DEF Kept, KeptNext, Quiet

LEMMA LeftKept == ASSUME Kept, NEW p \in Procs, Left(p) PROVE KeptNext
<1>1. pc'[p] = "idle"
  BY DEF Left, Leave, Goto, Kept, TypeOK
<1>2. Local(p)'
  BY <1>1 DEF Local, OwningPhases, LeasedPhases, ScannedPhases, PrepPhases, WritePhases,
              RecoverPhases
<1>3. \A q \in Procs \ {p} : pc'[q] = pc[q] /\ job'[q] = job[q]
  BY DEF Left, Leave, Goto, Kept, TypeOK
<1> QED
  BY <1>2, <1>3, ProcessStep DEF Left, Leave

LEMMA ForwardKept ==
    ASSUME Kept, NEW p \in Procs, NEW q \in Phases, Forward(p, q) PROVE KeptNext
<1>1. pc'[p] = q /\ Local(p)
  BY DEF Forward, Goto, Kept, TypeOK
<1>2. Local(p)'
  <2>1. Reserved(job[p].ent.paths)' = Reserved(job[p].ent.paths)
    BY DEF Forward, Reserved, KeysOf, Active
  <2>2. Occupied(job[p].dep, job[p].ent.paths)' = Occupied(job[p].dep, job[p].ent.paths)
    BY DEF Forward, Occupied, Live, Owned
  <2>3. JournalsOf(job[p].dep)' = JournalsOf(job[p].dep)
    BY DEF Forward, JournalsOf, Active
  <2>4. KeysOf(job[p].ent.paths)' = KeysOf(job[p].ent.paths)
    BY DEF Forward, KeysOf
  <2>5. Active(job[p].txn)' = Active(job[p].txn)
    BY DEF Forward, Active
  <2> QED
    BY <1>1, <2>1, <2>2, <2>3, <2>4, <2>5
    DEF Forward, Local, OwningPhases, LeasedPhases, ScannedPhases, PrepPhases, WritePhases,
        RecoverPhases
<1>3. \A r \in Procs \ {p} : pc'[r] = pc[r] /\ job'[r] = job[r]
  BY DEF Forward, Goto, Kept, TypeOK
<1> QED
  BY <1>2, <1>3, ProcessStep DEF Forward

LEMMA OwnsKept == ASSUME Kept, NEW p \in Procs, Owns(p) PROVE KeptNext
<1>1. pc'[p] = "owned" /\ Local(p)
  BY DEF Owns, Goto, Kept, TypeOK
<1>2. job[p].dep \in Deployments
  BY <1>1 DEF Owns, Local, RecoverPhases, Kept, Global, MarkersNamed
<1>3. opLock'[job[p].dep] = p
  BY <1>2 DEF Owns, Kept, TypeOK
<1>4. Local(p)'
  BY <1>1, <1>2, <1>3
  DEF Owns, Local, OwningPhases, LeasedPhases, ScannedPhases, PrepPhases, WritePhases,
      RecoverPhases
<1>5. \A r \in Procs \ {p} : pc'[r] = pc[r] /\ job'[r] = job[r]
  BY DEF Owns, Goto, Kept, TypeOK
<1>6. \A d \in Deployments : opLock[d] \notin {p, NoProc} => opLock'[d] = opLock[d]
  BY DEF Owns, Kept, TypeOK
<1> QED
  BY <1>4, <1>5, <1>6, ProcessStep DEF Owns

\* Taking the keys of one's closure.
LEMMA TakenKeys ==
    ASSUME TypeOK, NEW p \in Procs, NEW S \in SUBSET Paths, TakeKeys(p, S)
    PROVE  /\ \A k \in KeysOf(S) : keyLock'[k] = p
           /\ \A k \in Keys : keyLock[k] \notin {p, NoProc} => keyLock'[k] = keyLock[k]
BY KeysCover DEF TakeKeys

LEMMA LocksKept ==
    ASSUME Kept, NEW p \in Procs, Locks(p) PROVE KeptNext
<1>1. pc'[p] = "locked" /\ Local(p) /\ TypeOK
  BY DEF Locks, Goto, Kept, TypeOK
<1>2. job[p].ent.paths \in SUBSET Paths
  BY <1>1, SidesTyped, EntriesTyped DEF TypeOK, Jobs
<1>3. \A k \in KeysOf(job[p].ent.paths) : keyLock'[k] = p
  BY <1>1, <1>2, TakenKeys DEF Locks
<1>4. KeysOf(job[p].ent.paths)' = KeysOf(job[p].ent.paths)
  BY DEF Locks, KeysOf
<1>5. Local(p)'
  BY <1>1, <1>3, <1>4
  DEF Locks, Local, OwningPhases, LeasedPhases, ScannedPhases, PrepPhases, WritePhases,
      RecoverPhases
<1>6. \A r \in Procs \ {p} : pc'[r] = pc[r] /\ job'[r] = job[r]
  BY DEF Locks, Goto, Kept, TypeOK
<1> QED
  BY <1>1, <1>2, <1>5, <1>6, TakenKeys, ProcessStep DEF Locks

LEMMA AcquireKept == ASSUME Kept, NEW p \in Procs, AcquireKeys(p) PROVE KeptNext
<1>1. pc'[p] = "keyed" /\ Local(p) /\ TypeOK
  BY DEF AcquireKeys, Goto, Kept, TypeOK
<1>2. job[p].ent.paths \in SUBSET Paths
  BY <1>1, SidesTyped, EntriesTyped DEF TypeOK, Jobs
<1>3. \A k \in KeysOf(job[p].ent.paths) : keyLock'[k] = p
  BY <1>1, <1>2, TakenKeys DEF AcquireKeys
<1>4. KeysOf(job[p].ent.paths)' = KeysOf(job[p].ent.paths)
  BY DEF AcquireKeys, KeysOf
<1>5. JournalsOf(job[p].dep)' = JournalsOf(job[p].dep)
  BY DEF AcquireKeys, JournalsOf, Active
<1>6. Local(p)'
  BY <1>1, <1>3, <1>4, <1>5
  DEF AcquireKeys, Local, OwningPhases, LeasedPhases, ScannedPhases, PrepPhases, WritePhases,
      RecoverPhases
<1>7. \A r \in Procs \ {p} : pc'[r] = pc[r] /\ job'[r] = job[r]
  BY DEF AcquireKeys, Goto, Kept, TypeOK
<1> QED
  BY <1>1, <1>2, <1>6, <1>7, TakenKeys, ProcessStep DEF AcquireKeys

LEMMA PrepareKept == ASSUME Kept, NEW p \in Procs, Prepare(p) PROVE KeptNext
<1>1. pc'[p] = "prepared" /\ Local(p) /\ TypeOK
  BY DEF Prepare, Goto, Kept, TypeOK
<1>2. /\ job'[p].dep = job[p].dep /\ job'[p].ent.paths = job[p].ent.paths
      /\ job'[p].ent.base = job[p].ent.base /\ job'[p].ent.new = job[p].ent.new
  BY DEF Prepare, Kept, TypeOK, Jobs, Entries
<1>3. Reserved(job[p].ent.paths)' = Reserved(job[p].ent.paths)
  BY <1>2 DEF Prepare, Reserved, KeysOf, Active
<1>4. KeysOf(job[p].ent.paths)' = KeysOf(job[p].ent.paths)
  BY <1>2 DEF Prepare, KeysOf
<1>5. JournalsOf(job[p].dep)' = JournalsOf(job[p].dep)
  BY <1>2 DEF Prepare, JournalsOf, Active
<1>6. pc[p] = "scanned" /\ row' = row /\ opLock' = opLock /\ keyLock' = keyLock
  BY DEF Prepare
<1>7. Local(p)'
  BY <1>1, <1>2, <1>3, <1>4, <1>5, <1>6
  DEF Local, OwningPhases, LeasedPhases, ScannedPhases, PrepPhases, WritePhases,
      RecoverPhases
<1>8. \A r \in Procs \ {p} : pc'[r] = pc[r] /\ job'[r] = job[r]
  BY DEF Prepare, Goto, Kept, TypeOK
<1> QED
  BY <1>7, <1>8, ProcessStep DEF Prepare

LEMMA BeginKept ==
    ASSUME Kept, NEW p \in Procs, NEW d \in Deployments, NEW a \in Authorities,
           BeginDeploy(p, d, a)
    PROVE  KeptNext
<1>1. pc'[p] = "begun"
  BY DEF BeginDeploy, Goto, Kept, TypeOK
<1>2. /\ job'[p].dep = d
      /\ job'[p].ent.base = row[d].baseline
      /\ job'[p].ent.new = Plan[d][row[d].inputs]
      /\ job'[p].ent.paths = {x \in Paths : Plan[d][row[d].inputs][x] # Absent
                                            \/ row[d].baseline[x] # Absent}
  BY DEF BeginDeploy, Kept, TypeOK
<1>3. opLock'[d] = p /\ row' = row /\ keyLock' = keyLock /\ journal' = journal
  BY DEF BeginDeploy, Kept, TypeOK
<1>4. JournalsOf(d)' = {}
  BY <1>3 DEF BeginDeploy, JournalsOf, Active
<1>5. Local(p)'
  BY <1>1, <1>2, <1>3, <1>4
  DEF Local, OwningPhases, LeasedPhases, ScannedPhases, PrepPhases, WritePhases,
      RecoverPhases
<1>6. \A r \in Procs \ {p} : pc'[r] = pc[r] /\ job'[r] = job[r]
  BY DEF BeginDeploy, Goto, Kept, TypeOK
<1>7. \A e \in Deployments : opLock[e] \notin {p, NoProc} => opLock'[e] = opLock[e]
  BY DEF BeginDeploy, Kept, TypeOK
<1> QED
  BY <1>3, <1>5, <1>6, <1>7, ProcessStep

LEMMA ReadKept ==
    ASSUME Kept, NEW p \in Procs, NEW t \in Txns, RecoverRead(p, t) PROVE KeptNext
<1>1. pc'[p] = "found"
  BY DEF RecoverRead, Goto, Kept, TypeOK
<1>2. job'[p].dep = journal[t].dep /\ job'[p].txn = t /\ job'[p].ent = journal[t].ent
  BY DEF RecoverRead, Kept, TypeOK, NoJob
<1>3. UNCHANGED <<journal, row, opLock, keyLock>> /\ journal[t].phase # "unused"
  BY DEF RecoverRead, Active
<1>4. Local(p)'
  BY <1>1, <1>2, <1>3
  DEF Local, OwningPhases, LeasedPhases, ScannedPhases, PrepPhases, WritePhases,
      RecoverPhases
<1>5. \A r \in Procs \ {p} : pc'[r] = pc[r] /\ job'[r] = job[r]
  BY DEF RecoverRead, Goto, Kept, TypeOK
<1> QED
  BY <1>3, <1>4, <1>5, ProcessStep
-----------------------------------------------------------------------------
(* Steps that change a row. *)

\* Only the owners' baselines, their lives and the pointer matter to Inv.
LEMMA RowFrame ==
    ASSUME Kept, NEW d \in Deployments, UNCHANGED <<journal, opLock, keyLock, pc, job>>,
           row' \in [Deployments -> Rows],
           \A e \in Deployments : row'[e].baseline = row[e].baseline
                                  /\ row'[e].committed = row[e].committed
                                  /\ (row[e].deleted => row'[e].deleted)
    PROVE  KeptNext
<1>1. ASSUME NEW e \in Deployments PROVE Owned(e)' = Owned(e) /\ (Live(e)' => Live(e))
  BY DEF Owned, Live
<1>2. ASSUME NEW e, NEW S PROVE Occupied(e, S)' => Occupied(e, S)
  BY <1>1 DEF Occupied
<1>3. ASSUME NEW q \in Procs PROVE Local(q)'
  <2>1. Local(q)
    BY DEF Kept
  <2>2. Reserved(job[q].ent.paths)' = Reserved(job[q].ent.paths)
    BY DEF Reserved, KeysOf, Active
  <2>3. Occupied(job[q].dep, job[q].ent.paths)' => Occupied(job[q].dep, job[q].ent.paths)
    BY DEF Occupied, Owned, Live
  <2>4. JournalsOf(job[q].dep)' = JournalsOf(job[q].dep)
    BY DEF JournalsOf, Active
  <2>5. KeysOf(job[q].ent.paths)' = KeysOf(job[q].ent.paths)
    BY DEF KeysOf
  <2>6. Active(job[q].txn)' = Active(job[q].txn)
    BY DEF Active
  <2>7. pc[q] \in PrepPhases => row'[job[q].dep].baseline = row[job[q].dep].baseline
    BY <2>1 DEF Local, OwningPhases
  <2> QED
    BY <2>1, <2>2, <2>3, <2>4, <2>5, <2>6, <2>7 DEF Local
<1>4. OneJournal' /\ PointerPublished' /\ MarkersNamed' /\ JournalsDisjoint'
  BY DEF Kept, Global, OneJournal, PointerPublished, MarkersNamed, JournalsDisjoint, Active, KeysOf
<1>5. SingleOwner'
  BY <1>1 DEF Kept, Global, SingleOwner
<1>6. ASSUME NEW t \in Txns, Active(t)' PROVE (MatchesAuthority(t) /\ ~Occupied(journal[t].dep, journal[t].ent.paths))'
  <2>1. Active(t) /\ journal[t].dep \in Deployments
    BY <1>6 DEF Active, Kept, Global, MarkersNamed
  <2>2. MatchesAuthority(t) /\ ~Occupied(journal[t].dep, journal[t].ent.paths)
    BY <2>1 DEF Kept, Global, RecoveryNeverRefused
  <2>3. Occupied(journal[t].dep, journal[t].ent.paths)' => Occupied(journal[t].dep, journal[t].ent.paths)
    BY DEF Occupied, Owned, Live
  <2> QED
    BY <2>1, <2>2, <2>3 DEF MatchesAuthority, Committed
<1> QED
  BY <1>3, <1>4, <1>5, <1>6 DEF KeptNext, Global, RecoveryNeverRefused

LEMMA EditKept == Kept /\ Mutation => KeptNext
<1>1. ASSUME Kept, NEW d \in Deployments, SoftDelete(d) PROVE KeptNext
  <2>1. row' = [row EXCEPT ![d] = [row[d] EXCEPT !.deleted = TRUE]]
    BY <1>1 DEF SoftDelete
  <2>2. row \in [Deployments -> Rows]
    BY <1>1 DEF Kept, TypeOK
  <2>3. row' \in [Deployments -> Rows]
    BY <2>1, <2>2 DEF Rows
  <2>4. \A e \in Deployments : row'[e].baseline = row[e].baseline
                               /\ row'[e].committed = row[e].committed
                               /\ (row[e].deleted => row'[e].deleted)
    BY <2>1, <2>2 DEF Rows
  <2> QED
    BY <1>1, <2>3, <2>4, RowFrame DEF SoftDelete
<1>2. ASSUME Kept, NEW d \in Deployments, NEW i \in Inputs, UpdateInputs(d, i) PROVE KeptNext
  <2> DEFINE r == [row[d] EXCEPT !.inputs = i, !.assets = @ \cup AssetsOf[i]]
  <2>1. row' = [row EXCEPT ![d] = r]
    BY <1>2 DEF UpdateInputs
  <2>2. row \in [Deployments -> Rows]
    BY <1>2 DEF Kept, TypeOK
  <2>3. r \in Rows /\ r.baseline = row[d].baseline /\ r.committed = row[d].committed
        /\ r.deleted = row[d].deleted
    BY <2>2, PlanAssumption DEF Rows
  <2>4. \A e \in Deployments : row'[e].baseline = row[e].baseline
                               /\ row'[e].committed = row[e].committed
                               /\ (row[e].deleted => row'[e].deleted)
    BY <2>1, <2>2, <2>3
  <2>5. row' \in [Deployments -> Rows]
    BY <2>1, <2>2, <2>3
  <2> QED
    BY <1>2, <2>4, <2>5, RowFrame DEF UpdateInputs
<1> QED
  BY <1>1, <1>2 DEF Mutation

\* A commit: the new baseline lies within the journal's paths, which no other
\* owner and no other journal has, and which no other process can have leased.
LEMMA CommitKept ==
    ASSUME Kept, NEW p \in Procs, Commits(p) PROVE KeptNext
<1>0. PICK d, t, S, n :
         d = job[p].dep /\ t = job[p].txn /\ S = job[p].ent.paths /\ n = job[p].ent.new
  OBVIOUS
<1>1. TypeOK /\ Local(p) /\ pc[p] \in WritePhases /\ pc[p] \in OwningPhases /\ pc[p] \in LeasedPhases
  BY DEF Kept, Commits, WritePhases, OwningPhases, LeasedPhases
<1>2. /\ d \in Deployments /\ t \in Txns /\ Active(t)
      /\ journal[t].dep = d /\ journal[t].ent = job[p].ent
      /\ \A x \in Paths : n[x] # Absent => x \in S
  <2>1. pc[p] = "committing"
    BY DEF Commits
  <2> QED
    BY <1>0, <1>1, <2>1 DEF Local
<1>3. S \in SUBSET Paths /\ n \in Contents
  <2>1. job[p].ent \in Entries
    BY <1>1 DEF TypeOK, Jobs
  <2> QED
    BY <1>0, <2>1, EntriesTyped
<1>4. /\ pc'[p] = "finalizing" /\ \A q \in Procs \ {p} : pc'[q] = pc[q]
      /\ UNCHANGED <<journal, opLock, keyLock, job>>
  BY <1>1 DEF Commits, Goto, TypeOK
<1>5. /\ row'[d].baseline = n /\ row'[d].committed = t /\ row'[d].deleted = row[d].deleted
      /\ \A e \in Deployments \ {d} : row'[e] = row[e]
  <2>1. row[d] \in Rows /\ row' = [row EXCEPT ![d] = CommittedRow(p)]
    BY <1>0, <1>1, <1>2 DEF TypeOK, Commits
  <2>2. /\ CommittedRow(p).baseline = n /\ CommittedRow(p).committed = t
        /\ CommittedRow(p).deleted = row[d].deleted
    BY <1>0, <2>1 DEF CommittedRow, Rows
  <2> QED
    BY <1>1, <1>2, <2>1, <2>2 DEF TypeOK
<1>6. Owned(d)' \subseteq S
  BY <1>2, <1>5 DEF Owned
<1>7. ASSUME NEW e \in Deployments, e # d PROVE Owned(e)' = Owned(e)
  BY <1>5, <1>7 DEF Owned
<1>8. ASSUME NEW e \in Deployments PROVE Live(e)' = Live(e)
  BY <1>2, <1>5 DEF Live
\* Whoever shares no path with the journal sees no new owner.
<1>9. ASSUME NEW e \in Deployments, NEW T, T \cap S = {}, ~Occupied(e, T) PROVE ~Occupied(e, T)'
  <2> SUFFICES ASSUME NEW f \in Deployments \ {e}, Live(f)', Owned(f)' \cap T # {} PROVE FALSE
    BY DEF Occupied
  <2>1. CASE f = d
    BY <1>6, <1>9, <2>1
  <2>2. CASE f # d
    BY <1>7, <1>8, <1>9, <2>2 DEF Occupied
  <2> QED
    BY <2>1, <2>2
<1>10. ~Occupied(d, S)'
  <2>1. ~Occupied(d, S)
    BY <1>0, <1>2 DEF Kept, Global, RecoveryNeverRefused
  <2> SUFFICES ASSUME NEW f \in Deployments \ {d}, Live(f)', Owned(f)' \cap S # {} PROVE FALSE
    BY DEF Occupied
  <2> QED
    BY <1>7, <1>8, <2>1 DEF Occupied
<1>11. ASSUME NEW q \in Procs, q # p PROVE Local(q)'
  <2>1. Local(q) /\ pc'[q] = pc[q] /\ job'[q] = job[q] /\ UNCHANGED <<journal, opLock, keyLock, job>>
    BY <1>4, <1>11 DEF Kept
  <2>2. pc[q] \in OwningPhases => job[q].dep # d /\ job[q].dep \in Deployments
    BY <1>0, <1>1, <1>11, <2>1, OwnersApart DEF Local
  <2>3. pc[q] \in LeasedPhases => job[q].ent.paths \cap S = {}
    BY <1>0, <1>1, <1>11, <2>1, LeasedApart
  <2>4. Reserved(job[q].ent.paths)' = Reserved(job[q].ent.paths)
    BY <2>1 DEF Reserved, KeysOf, Active
  <2>5. pc[q] = "probed" => ~Occupied(job[q].dep, job[q].ent.paths)'
    <3>1. pc[q] = "probed" => pc[q] \in LeasedPhases /\ pc[q] \in OwningPhases
      BY DEF LeasedPhases, OwningPhases, PrepPhases
    <3>2. PICK e, T : e = job[q].dep /\ T = job[q].ent.paths
      OBVIOUS
    <3>3. pc[q] = "probed" => e \in Deployments /\ T \cap S = {} /\ ~Occupied(e, T)
      BY <2>1, <2>2, <2>3, <3>1, <3>2 DEF Local
    <3>4. pc[q] = "probed" => ~Occupied(e, T)'
      BY <1>9, <3>3
    <3> QED
      BY <2>1, <3>2, <3>4 DEF Occupied, Owned, Live
  <2>6. JournalsOf(job[q].dep)' = JournalsOf(job[q].dep)
    BY <2>1 DEF JournalsOf, Active
  <2>7. KeysOf(job[q].ent.paths)' = KeysOf(job[q].ent.paths)
    BY <2>1 DEF KeysOf
  <2>8. Active(job[q].txn)' = Active(job[q].txn)
    BY <2>1 DEF Active
  <2>9. pc[q] \in PrepPhases => row'[job[q].dep].baseline = row[job[q].dep].baseline
    BY <1>5, <2>2 DEF OwningPhases
  <2> QED
    BY <2>1, <2>4, <2>5, <2>6, <2>7, <2>8, <2>9 DEF Local
<1>12. Local(p)'
  <2>1. KeysOf(job[p].ent.paths)' = KeysOf(job[p].ent.paths) /\ Active(job[p].txn)' = Active(job[p].txn)
    BY <1>4 DEF KeysOf, Active
  <2> QED
    BY <1>0, <1>1, <1>2, <1>4, <2>1
    DEF Local, OwningPhases, LeasedPhases, ScannedPhases, PrepPhases, WritePhases, RecoverPhases
<1>13. OneJournal' /\ MarkersNamed' /\ JournalsDisjoint'
  BY <1>4 DEF Kept, Global, OneJournal, MarkersNamed, JournalsDisjoint, Active, KeysOf
<1>14. PointerPublished'
  BY <1>2, <1>4, <1>5 DEF Kept, Global, PointerPublished, Active
<1>15. SingleOwner'
  <2>1. ~Occupied(d, S)
    BY <1>0, <1>2 DEF Kept, Global, RecoveryNeverRefused
  <2>2. \A e \in Deployments : e # d /\ Live(e) => Owned(e) \cap S = {}
    BY <2>1 DEF Occupied
  <2>3. ASSUME NEW e \in Deployments, e # d, Live(e)' PROVE Owned(d)' \cap Owned(e)' = {}
    BY <1>6, <1>7, <1>8, <2>2, <2>3
  <2>4. ASSUME NEW e \in Deployments, NEW f \in Deployments, e # d, f # d, e # f, Live(e)', Live(f)'
        PROVE Owned(e)' \cap Owned(f)' = {}
    BY <1>7, <1>8, <2>4 DEF Kept, Global, SingleOwner
  <2> QED
    BY <2>3, <2>4 DEF SingleOwner
<1>16. RecoveryNeverRefused'
  <2> SUFFICES ASSUME NEW u \in Txns, Active(u)'
               PROVE  MatchesAuthority(u)' /\ ~Occupied(journal[u].dep, journal[u].ent.paths)'
    BY DEF RecoveryNeverRefused
  <2>1. /\ Active(u) /\ MatchesAuthority(u) /\ ~Occupied(journal[u].dep, journal[u].ent.paths)
        /\ journal[u].dep \in Deployments
    BY <1>4 DEF Kept, Global, RecoveryNeverRefused, Active, MarkersNamed
  <2>2. CASE u = t
    <3>1. MatchesAuthority(t)'
      BY <1>0, <1>2, <1>4, <1>5 DEF MatchesAuthority, Committed
    <3> QED
      BY <1>0, <1>2, <1>4, <1>10, <2>2, <3>1 DEF Occupied
  <2>3. CASE u # t
    <3>1. journal[u].dep # d
      BY <1>2, <2>1, <2>3 DEF Kept, Global, OneJournal
    <3>2. journal[u].ent.paths \cap S = {}
      <4>1. journal[u].ent.paths \in SUBSET Paths
        BY <1>1, EntriesTyped DEF TypeOK, Journals
      <4>2. KeysOf(journal[u].ent.paths) \cap KeysOf(S) = {}
        BY <1>0, <1>2, <2>1, <2>3 DEF Kept, Global, JournalsDisjoint
      <4> QED
        BY <1>3, <4>1, <4>2, KeysCover
    <3>3. MatchesAuthority(u)'
      BY <1>4, <1>5, <2>1, <3>1 DEF MatchesAuthority, Committed
    <3>4. PICK e, T : e = journal[u].dep /\ T = journal[u].ent.paths
      OBVIOUS
    <3>5. ~Occupied(e, T)'
      BY <1>9, <2>1, <3>2, <3>4
    <3> QED
      BY <1>4, <3>3, <3>4, <3>5 DEF Occupied, Owned, Live
  <2> QED
    BY <2>2, <2>3
<1> QED
  BY <1>11, <1>12, <1>13, <1>14, <1>15, <1>16 DEF KeptNext, Global
-----------------------------------------------------------------------------
(* Steps that change a marker. *)

\* A publication: the scan still holds, because every journal published since
\* would need a key of the closure, and the closure has been leased all along.
LEMMA PublishKept ==
    ASSUME Kept, NEW p \in Procs, NEW t \in Txns, Publish(p, t) PROVE KeptNext
<1>0. PICK d, S, e : d = job[p].dep /\ e = job[p].ent /\ S = e.paths
  OBVIOUS
<1>1. /\ TypeOK /\ Local(p) /\ pc[p] = "probed"
      /\ pc[p] \in PrepPhases /\ pc[p] \in ScannedPhases
      /\ pc[p] \in OwningPhases /\ pc[p] \in LeasedPhases
  BY DEF Kept, Publish, PrepPhases, ScannedPhases, OwningPhases, LeasedPhases
<1>2. /\ d \in Deployments /\ e \in Entries /\ S \in SUBSET Paths
      /\ row[d].baseline = e.base /\ JournalsOf(d) = {}
      /\ ~Reserved(S) /\ ~Occupied(d, S)
  <2>1. e \in Entries
    BY <1>0, <1>1 DEF TypeOK, Jobs
  <2> QED
    BY <1>0, <1>1, <2>1, EntriesTyped DEF Local
<1>3. /\ pc'[p] = "writing" /\ \A q \in Procs \ {p} : pc'[q] = pc[q] /\ job'[q] = job[q]
      /\ job'[p].dep = d /\ job'[p].ent = e /\ job'[p].txn = t
      /\ UNCHANGED <<row, opLock, keyLock>>
  BY <1>0, <1>1 DEF Publish, Goto, TypeOK, Jobs
<1>4. /\ journal[t].phase = "unused" /\ ~Active(t)
      /\ journal'[t].phase = "active" /\ journal'[t].dep = d /\ journal'[t].ent = e
      /\ \A u \in Txns \ {t} : journal'[u] = journal[u]
  BY <1>0, <1>1 DEF Publish, TypeOK, Active
<1>5. Active(t)' /\ \A u \in Txns \ {t} : Active(u)' = Active(u)
  BY <1>4 DEF Active
<1>6. ASSUME NEW f, NEW T PROVE Occupied(f, T)' = Occupied(f, T)
  BY <1>3 DEF Occupied, Live, Owned
<1>7. ASSUME NEW q \in Procs, q # p PROVE Local(q)'
  <2>1. PICK f, T, u : f = job[q].dep /\ T = job[q].ent.paths /\ u = job[q].txn
    OBVIOUS
  <2>2. /\ Local(q) /\ pc'[q] = pc[q] /\ job'[q] = job[q]
        /\ job'[q].dep = f /\ job'[q].ent.paths = T /\ job'[q].txn = u
    BY <1>3, <1>7, <2>1 DEF Kept
  <2>3. ASSUME pc[q] \in ScannedPhases PROVE ~Reserved(T)'
    <3>1. KeysOf(T) \cap KeysOf(S) = {}
      <4>1. pc[q] \in LeasedPhases
        BY <2>3 DEF ScannedPhases, LeasedPhases, OwningPhases, PrepPhases
      <4> QED
        BY <1>0, <1>1, <1>7, <2>1, <2>2, <4>1, LeasedApart
    <3>2. ~Reserved(T)
      BY <2>1, <2>2, <2>3 DEF Local
    <3> SUFFICES ASSUME NEW v \in Txns, Active(v)', KeysOf(journal'[v].ent.paths) \cap KeysOf(T) # {}
                 PROVE  FALSE
      BY DEF Reserved, KeysOf
    <3>3. CASE v = t
      BY <1>0, <1>4, <3>1, <3>3
    <3>4. CASE v # t
      BY <1>4, <1>5, <3>2, <3>4 DEF Reserved
    <3> QED
      BY <3>3, <3>4
  <2>4. ASSUME pc[q] \in PrepPhases PROVE row'[f].baseline = row[f].baseline /\ JournalsOf(f)' = {}
    <3>1. f # d
      BY <1>0, <1>1, <1>7, <2>1, <2>2, <2>4, OwnersApart DEF OwningPhases
    <3>2. JournalsOf(f) = {}
      BY <2>1, <2>2, <2>4 DEF Local
    <3> QED
      BY <1>3, <1>4, <1>5, <3>1, <3>2 DEF JournalsOf
  <2>5. ASSUME pc[q] \in WritePhases \cup RecoverPhases PROVE u \in Txns \ {t}
    BY <1>4, <2>1, <2>2, <2>5 DEF Local
  <2>6. KeysOf(T)' = KeysOf(T)
    BY DEF KeysOf
  <2>7. pc[q] \in ScannedPhases => ~Reserved(job[q].ent.paths)'
    BY <2>1, <2>2, <2>3 DEF Reserved, KeysOf, Active
  <2>8. pc[q] = "probed" => ~Occupied(job[q].dep, job[q].ent.paths)'
    BY <1>3, <2>2 DEF Local, Occupied, Live, Owned
  <2>9. pc[q] \in PrepPhases => /\ row'[job'[q].dep].baseline = job'[q].ent.base
                                /\ JournalsOf(job[q].dep)' = {}
    BY <1>3, <2>1, <2>2, <2>4 DEF Local, JournalsOf, Active
  <2>10. pc[q] \in WritePhases \cup RecoverPhases =>
           /\ u \in Txns
           /\ journal'[u].phase # "unused" /\ journal'[u].dep = job[q].dep
           /\ journal'[u].ent = job[q].ent
           /\ pc[q] \notin {"found", "owned", "locked"} => Active(u)'
    BY <1>4, <1>5, <2>1, <2>2, <2>5 DEF Local
  <2>11. Active(job[q].txn)' = Active(u)'
    BY <2>2 DEF Active
  <2>12. KeysOf(job[q].ent.paths)' = KeysOf(job[q].ent.paths)
    BY <2>2 DEF KeysOf
  <2> QED
    BY <1>3, <2>1, <2>2, <2>7, <2>8, <2>9, <2>10, <2>11, <2>12 DEF Local
<1>8. Local(p)'
  <2>1. KeysOf(job[p].ent.paths)' = KeysOf(job[p].ent.paths)
    BY <1>0, <1>3 DEF KeysOf
  <2>2. Active(job[p].txn)'
    BY <1>3, <1>5 DEF Active
  <2>3. Local(p) /\ job'[p].ent = job[p].ent /\ job'[p].dep = job[p].dep
    BY <1>0, <1>1, <1>3
  <2> QED
    BY <1>1, <1>2, <1>3, <1>4, <2>1, <2>2, <2>3
    DEF Local, OwningPhases, LeasedPhases, ScannedPhases, PrepPhases, WritePhases, RecoverPhases
<1>9. OneJournal'
  <2> SUFFICES ASSUME NEW u \in Txns, NEW v \in Txns, u # v, Active(u)', Active(v)',
                      journal'[u].dep = journal'[v].dep
               PROVE  FALSE
    BY DEF OneJournal
  <2>1. \A w \in Txns \ {t} : Active(w)' => Active(w) /\ journal'[w].dep # d
    BY <1>2, <1>4, <1>5 DEF JournalsOf
  <2>2. u # t /\ v # t
    BY <1>4, <2>1
  <2> QED
    BY <1>4, <2>1, <2>2 DEF Kept, Global, OneJournal
<1>10. PointerPublished' /\ MarkersNamed'
  BY <1>2, <1>3, <1>4 DEF Kept, Global, PointerPublished, MarkersNamed
<1>11. JournalsDisjoint'
  <2>1. \A w \in Txns \ {t} : Active(w)' =>
           /\ Active(w) /\ journal'[w].ent = journal[w].ent
           /\ KeysOf(journal[w].ent.paths) \cap KeysOf(S) = {}
    BY <1>2, <1>4, <1>5 DEF Reserved
  <2> SUFFICES ASSUME NEW u \in Txns, NEW v \in Txns, u # v, Active(u)', Active(v)'
               PROVE  KeysOf(journal'[u].ent.paths) \cap KeysOf(journal'[v].ent.paths) = {}
    BY DEF JournalsDisjoint, KeysOf
  <2>2. CASE u = t
    BY <1>0, <1>4, <2>1, <2>2
  <2>3. CASE v = t
    BY <1>0, <1>4, <2>1, <2>3
  <2>4. CASE u # t /\ v # t
    BY <2>1, <2>4 DEF Kept, Global, JournalsDisjoint
  <2> QED
    BY <2>2, <2>3, <2>4
<1>12. SingleOwner'
  BY <1>3 DEF Kept, Global, SingleOwner, Live, Owned
<1>13. RecoveryNeverRefused'
  <2> SUFFICES ASSUME NEW u \in Txns, Active(u)'
               PROVE  MatchesAuthority(u)' /\ ~Occupied(journal[u].dep, journal[u].ent.paths)'
    BY DEF RecoveryNeverRefused
  <2>1. CASE u = t
    <3>1. row'[d].committed # t
      BY <1>2, <1>3, <1>4 DEF Kept, Global, PointerPublished
    <3>2. MatchesAuthority(t)'
      BY <1>2, <1>3, <1>4, <3>1 DEF MatchesAuthority, Committed
    <3>3. ~Occupied(d, S)'
      BY <1>2, <1>6
    <3> QED
      BY <1>0, <1>4, <2>1, <3>2, <3>3 DEF Occupied, Live, Owned
  <2>2. CASE u # t
    <3>1. MatchesAuthority(u) /\ ~Occupied(journal[u].dep, journal[u].ent.paths)
      BY <1>5, <2>2 DEF Kept, Global, RecoveryNeverRefused
    <3> QED
      BY <1>3, <1>4, <2>2, <3>1 DEF MatchesAuthority, Committed, Occupied, Live, Owned
  <2> QED
    BY <2>1, <2>2
<1> QED
  BY <1>7, <1>8, <1>9, <1>10, <1>11, <1>12, <1>13 DEF KeptNext, Global

\* A resolution: the marker is the process's own, and nobody else holds the
\* Deployment's lease to be working under it.
LEMMA DeleteKept ==
    ASSUME Kept, NEW p \in Procs, DeleteJournal(p) PROVE KeptNext
<1>0. PICK t : t = job[p].txn
  OBVIOUS
<1>1. /\ TypeOK /\ Local(p)
      /\ pc[p] \in WritePhases \cup RecoverPhases /\ pc[p] \in OwningPhases
  BY DEF Kept, DeleteJournal, WritePhases, RecoverPhases, OwningPhases
<1>2. t \in Txns /\ journal[t].dep = job[p].dep
  BY <1>0, <1>1 DEF Local
<1>3. /\ journal'[t].phase = "gone" /\ journal'[t].dep = journal[t].dep
      /\ journal'[t].ent = journal[t].ent
      /\ \A u \in Txns \ {t} : journal'[u] = journal[u]
      /\ row' = row
  BY <1>0, <1>1, <1>2 DEF DeleteJournal, TypeOK, Journals
<1>4. pc'[p] = "idle" /\ \A q \in Procs \ {p} : pc'[q] = pc[q] /\ job'[q] = job[q]
  BY <1>1 DEF DeleteJournal, Leave, Goto, TypeOK
<1>5. ~Active(t)' /\ \A u \in Txns \ {t} : Active(u)' = Active(u)
  BY <1>3 DEF Active
<1>6. ASSUME NEW q \in Procs, q # p PROVE Local(q)'
  <2>1. Local(q) /\ pc'[q] = pc[q] /\ job'[q] = job[q]
    BY <1>4, <1>6 DEF Kept
  <2>2. PICK u : u = job[q].txn
    OBVIOUS
  <2>3. Reserved(job[q].ent.paths)' => Reserved(job[q].ent.paths)
    BY <1>3, <1>5, <2>1 DEF Reserved, KeysOf
  <2>4. Occupied(job[q].dep, job[q].ent.paths)' = Occupied(job[q].dep, job[q].ent.paths)
    BY <1>3, <2>1 DEF Occupied, Live, Owned
  <2>5. JournalsOf(job[q].dep)' \subseteq JournalsOf(job[q].dep)
    BY <1>3, <1>5, <2>1 DEF JournalsOf
  <2>6. KeysOf(job[q].ent.paths)' = KeysOf(job[q].ent.paths)
    BY <2>1 DEF KeysOf
  <2>7. \A d \in Deployments : opLock[d] = q => opLock'[d] = q
    BY <1>6 DEF DeleteJournal, Leave
  <2>8. \A k \in Keys : keyLock[k] = q => keyLock'[k] = q
    BY <1>6 DEF DeleteJournal, Leave
  <2>9. job[q].ent.paths \in SUBSET Paths
    BY <1>1, EntriesTyped DEF TypeOK, Jobs
  <2>10. pc[q] \in LeasedPhases => \A k \in KeysOf(job[q].ent.paths) : keyLock'[k] = q
    BY <2>1, <2>8, <2>9, KeysCover DEF Local
  <2>11. ASSUME pc[q] \in WritePhases \cup RecoverPhases
         PROVE  /\ u \in Txns
                /\ journal'[u].phase # "unused" /\ journal'[u].dep = job[q].dep
                /\ journal'[u].ent = job[q].ent
                /\ pc[q] \notin {"found", "owned", "locked"} => Active(u)'
    <3>1. /\ u \in Txns /\ journal[u].phase # "unused" /\ journal[u].dep = job[q].dep
          /\ journal[u].ent = job[q].ent
          /\ pc[q] \notin {"found", "owned", "locked"} => Active(u)
      BY <2>1, <2>2, <2>11 DEF Local
    <3>2. CASE u = t
      <4>1. pc[q] \notin {"found", "owned", "locked"} => pc[q] \in OwningPhases
        BY <2>11 DEF WritePhases, RecoverPhases, OwningPhases
      <4>2. pc[q] \in {"found", "owned", "locked"}
        BY <1>1, <1>2, <1>6, <2>1, <3>1, <3>2, <4>1, OwnersApart
      <4> QED
        BY <1>3, <3>1, <3>2, <4>2
    <3>3. CASE u # t
      BY <1>3, <1>5, <3>1, <3>3
    <3> QED
      BY <3>2, <3>3
  <2>12. Active(job[q].txn)' = Active(u)'
    BY <2>1, <2>2 DEF Active
  <2> QED
    BY <1>3, <2>1, <2>2, <2>3, <2>4, <2>5, <2>6, <2>7, <2>10, <2>11, <2>12 DEF Local
<1>7. Local(p)'
  BY <1>4 DEF Local, OwningPhases, LeasedPhases, ScannedPhases, PrepPhases, WritePhases, RecoverPhases
<1>8. OneJournal' /\ JournalsDisjoint'
  BY <1>3, <1>5 DEF Kept, Global, OneJournal, JournalsDisjoint, KeysOf
<1>9. PointerPublished' /\ MarkersNamed'
  BY <1>1, <1>2, <1>3 DEF Kept, Global, PointerPublished, MarkersNamed, Local
<1>10. SingleOwner'
  BY <1>3 DEF Kept, Global, SingleOwner, Live, Owned
<1>11. RecoveryNeverRefused'
  <2> SUFFICES ASSUME NEW u \in Txns, Active(u)'
               PROVE  MatchesAuthority(u)' /\ ~Occupied(journal[u].dep, journal[u].ent.paths)'
    BY DEF RecoveryNeverRefused
  <2>1. u # t /\ Active(u) /\ journal'[u] = journal[u] /\ row' = row
    BY <1>3, <1>5
  <2>2. MatchesAuthority(u) /\ ~Occupied(journal[u].dep, journal[u].ent.paths)
    BY <2>1 DEF Kept, Global, RecoveryNeverRefused
  <2> QED
    BY <2>1, <2>2 DEF MatchesAuthority, Committed, Occupied, Live, Owned
<1> QED
  BY <1>6, <1>7, <1>8, <1>9, <1>10, <1>11 DEF KeptNext, Global
-----------------------------------------------------------------------------
LEMMA StepKept ==
    ASSUME Kept, [Next]_vars PROVE KeptNext
<1>1. CASE UNCHANGED vars
  BY <1>1, QuietKept DEF vars, Quiet
<1>2. WritePhases \subseteq Phases /\ "recovering" \in Phases /\ "resolving" \in Phases
      /\ "scanned" \in Phases /\ "probed" \in Phases
  BY DEF Phases, WritePhases, RecoverPhases, PrepPhases
<1>3. ASSUME NEW p \in Procs, Request(p) PROVE KeptNext
  BY <1>3, BeginKept, ReadKept DEF Request
<1>4. ASSUME NEW p \in Procs, PrepareStep(p) PROVE KeptNext
  <2>1. CASE CheckReservations(p)
    <3>1. Forward(p, "scanned")
      BY <2>1 DEF CheckReservations, Forward
    <3> QED
      BY <1>2, <3>1, ForwardKept
  <2>2. CASE Probe(p)
    <3>1. Forward(p, "probed")
      BY <2>2 DEF Probe, Forward
    <3> QED
      BY <1>2, <3>1, ForwardKept
  <2>3. CASE Refuse(p)
    <3>1. Left(p)
      BY <2>3 DEF Refuse, Left
    <3> QED
      BY <3>1, LeftKept
  <2> QED
    BY <1>4, <2>1, <2>2, <2>3, AcquireKept, PrepareKept, PublishKept DEF PrepareStep
<1>5. ASSUME NEW p \in Procs, FileStep(p) PROVE KeptNext
  BY <1>2, <1>5, FileControl, QuietKept, LeftKept, ForwardKept
<1>6. ASSUME NEW p \in Procs, FinishStep(p) PROVE KeptNext
  BY <1>2, <1>6, FinishControl, QuietKept, LeftKept, ForwardKept, CommitKept, DeleteKept
<1>7. ASSUME NEW p \in Procs, RecoverStep(p) PROVE KeptNext
  BY <1>2, <1>7, RecoverControl, LeftKept, OwnsKept, LocksKept, ForwardKept
<1>8. ASSUME NEW p \in Procs, Abandon(p) PROVE KeptNext
  <2>1. Left(p)
    BY <1>8 DEF Abandon, Left
  <2> QED
    BY <2>1, LeftKept
<1>9. ASSUME Edit PROVE KeptNext
  BY <1>9, QuietKept DEF Edit, UserEdit, Quiet
<1> QED
  BY <1>1, <1>3, <1>4, <1>5, <1>6, <1>7, <1>8, <1>9, EditKept DEF Next, Step

LEMMA InvInit == Init => Inv
<1> SUFFICES ASSUME Init PROVE Inv
  OBVIOUS
<1>1. TypeOK
  BY TypeInit
<1>2. \A t \in Txns : journal[t].phase = "unused" /\ ~Active(t)
  BY DEF Init, Active
<1>3. \A p \in Procs : Local(p)
  BY DEF Init, Local, OwningPhases, LeasedPhases, ScannedPhases, PrepPhases, WritePhases,
         RecoverPhases
<1>4. PointerPublished
  BY MarkersAssumption DEF Init, PointerPublished
<1>5. SingleOwner
  BY DEF Init, SingleOwner, Owned, NoContents
<1>6. OneJournal /\ MarkersNamed /\ JournalsDisjoint /\ RecoveryNeverRefused
  BY <1>2 DEF OneJournal, MarkersNamed, JournalsDisjoint, RecoveryNeverRefused
<1> QED
  BY <1>1, <1>3, <1>4, <1>5, <1>6, InvSplit DEF Global

LEMMA InvStep == Inv /\ [Next]_vars => Inv'
<1> SUFFICES ASSUME Inv, [Next]_vars PROVE Inv'
  OBVIOUS
<1>1. Kept
  BY InvSplit DEF Kept
<1>2. KeptNext /\ TypeOK'
  BY <1>1, StepKept, TypeStep DEF Kept
<1> QED
  BY <1>2, InvSplit DEF KeptNext, Inv, Global, Local, OperationLeased, KeysLeased, ScanHolds,
     ProbeHolds, BaselineHolds, DeployCovers, JobIsMarker

\* The invariant that the safety of the protocol rests on: what the leases, the
\* scan, the probe and the marker guarantee at every place of every operation.
THEOREM Invariance == Spec => []Inv
BY InvInit, InvStep, PTL DEF Spec

\* No two unresolved journals reserve a common physical key, however deploys,
\* crashes and recoveries interleave.
THEOREM ReservationsNeverCollide == Spec => []JournalsDisjoint
<1>1. Inv => JournalsDisjoint
  BY DEF Inv
<1> QED
  BY <1>1, Invariance, PTL

\* No target path is ever owned by two live Deployments.
THEOREM OwnersNeverCollide == Spec => []SingleOwner
<1>1. Inv => SingleOwner
  BY DEF Inv
<1> QED
  BY <1>1, Invariance, PTL

\* Recovery always finds row and marker in agreement and the paths unoccupied.
THEOREM AuthorityNeverLost == Spec => []RecoveryNeverRefused
<1>1. Inv => RecoveryNeverRefused
  BY DEF Inv
<1> QED
  BY <1>1, Invariance, PTL
=============================================================================
