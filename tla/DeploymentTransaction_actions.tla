-------------------- MODULE DeploymentTransaction_actions --------------------
(* What a step of DeploymentTransaction may never do, the step by step     *)
(* correspondence with TransactionReservation, and how far a process is    *)
(* with each of its files.                                                 *)
EXTENDS DeploymentTransaction_safety
-----------------------------------------------------------------------------
(* Journal publication precedes every mutation.                            *)

\* The file in hand, and those still to do or already changed, are entries.
Held(q) == pc[q] \in Moving =>
    /\ io[q].todo \subseteq job[q].ent.paths
    /\ io[q].mutated \subseteq job[q].ent.paths
    /\ io[q].at # "read" => io[q].cur \in job[q].ent.paths
InHand == \A q \in Procs : Held(q)

LEMMA HandFrame ==
    ASSUME NEW q \in Procs, Held(q), pc'[q] = pc[q], job'[q] = job[q], io'[q] = io[q]
    PROVE  Held(q)'
BY DEF Held

LEMMA HandStarts ==
    ASSUME NEW S, NEW q \in Procs, io'[q] = StartIO(S), S \subseteq job'[q].ent.paths
    PROVE  Held(q)'
BY DEF Held, StartIO

LEMMA HandLeft == ASSUME TypeOK, NEW p \in Procs, Leave(p) PROVE Held(p)'
BY DEF Held, Leave, Goto, TypeOK, Moving

\* What a step leaves alone of the other processes.
LEMMA OthersKeep ==
    ASSUME TypeOK, NEW p \in Procs, Request(p) \/ Step(p) \/ Abandon(p),
           NEW q \in Procs, q # p
    PROVE  pc'[q] = pc[q] /\ job'[q] = job[q] /\ io'[q] = io[q]
<1> USE DEF TypeOK, Leave, Goto
<1>1. CASE Request(p)
  BY <1>1 DEF Request, BeginDeploy, RecoverRead
<1>2. CASE PrepareStep(p)
  BY <1>2 DEF PrepareStep, AcquireKeys, CheckReservations, Prepare, Probe, Publish, Refuse
<1>3. CASE FileStep(p)
  BY <1>3 DEF FileStep, SkipFile, ReadFile, MeetThirdValue, DeleteFile, WriteFile, ChmodFile,
              CheckFile, AfterCall, FailCall
<1>4. CASE FinishStep(p)
  BY <1>4 DEF FinishStep, FinishWriting, FinishUndoing, VerifyFile, FinishVerifying, Commit,
              DeleteJournal
<1>5. CASE RecoverStep(p)
  BY <1>5 DEF RecoverStep, RecoverOwn, RecoverKeys, RecoverDecide, FinishRecovering
<1>6. CASE Abandon(p)
  BY <1>6 DEF Abandon
<1> QED
  BY <1>1, <1>2, <1>3, <1>4, <1>5, <1>6 DEF Step

LEMMA HandFile ==
    ASSUME TypeOK, NEW p \in Procs, Held(p), FileStep(p) PROVE Held(p)'
<1> DEFINE c == io[p].cur
<1>0. io \in [Procs -> IOs] /\ io[p] \in IOs /\ pc \in [Procs -> Phases]
  BY DEF TypeOK
<1>1. ASSUME NEW x \in Paths, SkipFile(p, x) PROVE Held(p)'
  <2>1. io'[p] = [io[p] EXCEPT !.todo = @ \ {x}]
    BY <1>0, <1>1 DEF SkipFile
  <2> QED
    BY <1>0, <1>1, <2>1 DEF SkipFile, Held, IOs
<1>2. ASSUME NEW x \in Paths, ReadFile(p, x) PROVE Held(p)'
  <2>1. io'[p] = [io[p] EXCEPT !.at = "write", !.cur = x, !.seen = disk[x]]
    BY <1>0, <1>2 DEF ReadFile
  <2> QED
    BY <1>0, <1>2, <2>1 DEF ReadFile, NextEntry, Held, IOs
<1>3. ASSUME NEW x \in Paths, MeetThirdValue(p, x) PROVE Held(p)'
  <2>1. CASE pc[p] = "writing"
    <3>1. io'[p] = StartIO(io[p].mutated) /\ job' = job
      BY <1>0, <1>3, <2>1 DEF MeetThirdValue
    <3>2. io[p].mutated \subseteq job[p].ent.paths
      BY <1>3 DEF MeetThirdValue, Held
    <3> QED
      BY <3>1, <3>2, HandStarts
  <2>2. CASE pc[p] = "undoing"
    <3>1. io'[p] = [io[p] EXCEPT !.todo = @ \ {x}, !.failed = @ \cup {x}]
          /\ job' = job /\ pc' = pc
      BY <1>0, <1>3, <2>2 DEF MeetThirdValue
    <3> QED
      BY <1>0, <3>1 DEF Held, IOs
  <2>3. CASE pc[p] = "recovering"
    BY <1>3, <2>3, HandLeft DEF MeetThirdValue
  <2> QED
    BY <1>3, <2>1, <2>2, <2>3 DEF MeetThirdValue, Moving
<1>4. ASSUME AfterCall(p), pc[p] \in Moving, io[p].at # "read", UNCHANGED <<pc, job>>
      PROVE Held(p)'
  <2>1. c \in job[p].ent.paths
    BY <1>4 DEF Held
  <2>2. CASE pc[p] = "writing"
    <3>1. io'[p] = [io[p] EXCEPT !.todo = @ \ {c}, !.at = "read", !.mutated = @ \cup {c}]
      BY <1>0, <1>4, <2>2 DEF AfterCall
    <3> QED
      BY <1>0, <1>4, <2>1, <3>1 DEF Held, IOs
  <2>3. CASE pc[p] # "writing"
    <3>1. io'[p] = [io[p] EXCEPT !.at = "check"]
      BY <1>0, <1>4, <2>3 DEF AfterCall
    <3> QED
      BY <1>0, <1>4, <2>1, <3>1 DEF Held, IOs
  <2> QED
    BY <2>2, <2>3
<1>5. ASSUME FailCall(p), pc[p] \in Moving, io[p].at # "read" PROVE Held(p)'
  <2>1. CASE pc[p] = "undoing"
    <3>1. io'[p] = [io[p] EXCEPT !.at = "check"] /\ UNCHANGED <<pc, job>>
      BY <1>0, <1>5, <2>1 DEF FailCall
    <3> QED
      BY <1>0, <1>5, <3>1 DEF Held, IOs
  <2>2. CASE pc[p] # "undoing"
    BY <1>5, <2>2, HandLeft DEF FailCall
  <2> QED
    BY <2>1, <2>2
<1>6. CASE DeleteFile(p)
  BY <1>4, <1>5, <1>6 DEF DeleteFile
<1>7. CASE WriteFile(p)
  <2>1. CASE CreateBlocked(p, c)
    BY <1>5, <1>7, <2>1 DEF WriteFile
  <2>2. CASE ~CreateBlocked(p, c)
    <3>1. io'[p] = [io[p] EXCEPT !.at = "chmod"] /\ UNCHANGED <<pc, job>>
      BY <1>0, <1>7, <2>2 DEF WriteFile
    <3> QED
      BY <1>0, <1>7, <3>1 DEF WriteFile, Held, IOs
  <2> QED
    BY <2>1, <2>2
<1>8. CASE ChmodFile(p)
  BY <1>4, <1>8 DEF ChmodFile
<1>9. CASE CheckFile(p)
  <2>1. CASE disk[c] = Want(p, c) \/ pc[p] = "undoing"
    <3>1. io'[p] = [io[p] EXCEPT !.at = "read", !.todo = @ \ {c},
                                 !.failed = IF disk[c] = Want(p, c) THEN @ ELSE @ \cup {c}]
          /\ UNCHANGED <<pc, job>>
      BY <1>0, <1>9, <2>1 DEF CheckFile
    <3> QED
      BY <1>0, <3>1 DEF Held, IOs
  <2>2. CASE ~(disk[c] = Want(p, c) \/ pc[p] = "undoing")
    BY <1>9, <2>2, HandLeft DEF CheckFile
  <2> QED
    BY <2>1, <2>2
<1> QED
  BY <1>1, <1>2, <1>3, <1>6, <1>7, <1>8, <1>9 DEF FileStep

\* Elsewhere a process starts on its entries, leaves, or is not moving files.
LEMMA HandElsewhere ==
    ASSUME TypeOK, NEW p \in Procs, Held(p),
           Request(p) \/ PrepareStep(p) \/ FinishStep(p) \/ RecoverStep(p) \/ Abandon(p)
    PROVE  Held(p)'
<1>0. io \in [Procs -> IOs] /\ pc \in [Procs -> Phases] /\ job \in [Procs -> Jobs]
  BY DEF TypeOK
<1>1. ASSUME NEW q \in Phases \ Moving, Goto(p, q) PROVE Held(p)'
  BY <1>0, <1>1 DEF Goto, Held
<1>2. Phases \ Moving = {"idle", "begun", "keyed", "scanned", "prepared", "probed", "undone",
        "verifying", "committing", "finalizing", "found", "owned", "locked", "resolving"}
  BY DEF Phases, Moving, PrepPhases, WritePhases, RecoverPhases
<1>3. CASE Request(p)
  BY <1>1, <1>2, <1>3 DEF Request, BeginDeploy, RecoverRead
<1>4. CASE PrepareStep(p)
  <2>1. ASSUME NEW t \in Txns, Publish(p, t) PROVE Held(p)'
    <3>1. io'[p] = StartIO(job[p].ent.paths) /\ job'[p].ent = job[p].ent
      BY <1>0, <2>1 DEF Publish, Jobs
    <3> QED
      BY <3>1, HandStarts
  <2>2. CASE Refuse(p)
    BY <2>2, HandLeft DEF Refuse
  <2> QED
    BY <1>1, <1>2, <1>4, <2>1, <2>2
    DEF PrepareStep, AcquireKeys, CheckReservations, Prepare, Probe
<1>5. CASE FinishStep(p)
  <2>1. CASE FinishUndoing(p)
    BY <1>1, <1>2, <2>1, HandLeft DEF FinishUndoing
  <2>2. ASSUME NEW x \in Paths, VerifyFile(p, x) PROVE Held(p)'
    <3>1. CASE disk[x] = job[p].ent.new[x]
      BY <2>2, <3>1 DEF VerifyFile, Held, Moving
    <3>2. CASE disk[x] # job[p].ent.new[x]
      BY <2>2, <3>2, HandLeft DEF VerifyFile
    <3> QED
      BY <3>1, <3>2
  <2>3. CASE Commit(p)
    BY <1>1, <1>2, <2>3, HandLeft DEF Commit
  <2>4. CASE DeleteJournal(p)
    BY <2>4, HandLeft DEF DeleteJournal
  <2> QED
    BY <1>1, <1>2, <1>5, <2>1, <2>2, <2>3, <2>4 DEF FinishStep, FinishWriting, FinishVerifying
<1>6. CASE RecoverStep(p)
  <2>1. CASE Leave(p)
    BY <2>1, HandLeft
  <2>2. CASE RecoverOwn(p) /\ ~Leave(p)
    BY <1>1, <1>2, <2>2 DEF RecoverOwn
  <2>3. CASE RecoverKeys(p) /\ ~Leave(p)
    BY <1>1, <1>2, <2>3 DEF RecoverKeys
  <2>4. CASE RecoverDecide(p) /\ ~Leave(p)
    <3>1. io'[p] = StartIO(job[p].ent.paths) /\ job' = job
      BY <1>0, <2>4 DEF RecoverDecide
    <3> QED
      BY <3>1, HandStarts
  <2>5. CASE FinishRecovering(p)
    BY <1>1, <1>2, <2>5 DEF FinishRecovering
  <2> QED
    BY <1>6, <2>1, <2>2, <2>3, <2>4, <2>5 DEF RecoverStep
<1>7. CASE Abandon(p)
  BY <1>7, HandLeft DEF Abandon
<1> QED
  BY <1>3, <1>4, <1>5, <1>6, <1>7

LEMMA HandStep == ASSUME TypeOK, InHand, [Next]_vars PROVE InHand'
<1>1. CASE UNCHANGED vars
  BY <1>1 DEF vars, InHand, Held
<1>2. ASSUME NEW p \in Procs, Request(p) \/ Step(p) \/ Abandon(p) PROVE InHand'
  <2>1. Held(p)'
    BY <1>2, HandFile, HandElsewhere DEF Step, InHand
  <2>2. ASSUME NEW q \in Procs, q # p PROVE Held(q)'
    BY <1>2, <2>2, OthersKeep, HandFrame DEF InHand
  <2> QED
    BY <2>1, <2>2 DEF InHand
<1>3. CASE Mutation
  BY <1>3, HandFrame DEF Mutation, SoftDelete, UpdateInputs, InHand
<1>4. CASE Edit
  BY <1>4, HandFrame DEF Edit, UserEdit, InHand
<1> QED
  BY <1>1, <1>2, <1>3, <1>4 DEF Next

\* The condition of WritesAreJournalled.
Journalled ==
    disk' # disk /\ edits' = edits =>
        \E p \in Procs, t \in Txns :
            /\ pc[p] \in Moving
            /\ Active(t) /\ journal[t].dep = job[p].dep
            /\ opLock[journal[t].dep] = p
            /\ \A x \in Paths : disk'[x] # disk[x] =>
                 x \in journal[t].ent.paths /\ \A k \in Closure[x] : keyLock[k] = p

LEMMA JournalledStep == ASSUME Inv, InHand, [Next]_vars PROVE Journalled
<1> SUFFICES ASSUME disk' # disk, edits' = edits
             PROVE  \E p \in Procs, t \in Txns :
                      /\ pc[p] \in Moving
                      /\ Active(t) /\ journal[t].dep = job[p].dep
                      /\ opLock[journal[t].dep] = p
                      /\ \A x \in Paths : disk'[x] # disk[x] =>
                           x \in journal[t].ent.paths /\ \A k \in Closure[x] : keyLock[k] = p
  BY DEF Journalled
<1>1. TypeOK /\ \A q \in Procs : Local(q)
  BY InvSplit
<1>2. PICK p \in Procs : DeleteFile(p) \/ WriteFile(p) \/ ChmodFile(p)
  <2>1. ~Edit
    BY <1>1 DEF Edit, UserEdit, TypeOK
  <2>2. \A p \in Procs : ~Request(p) /\ ~PrepareStep(p) /\ ~FinishStep(p) /\ ~RecoverStep(p)
                         /\ ~Abandon(p)
    BY ZenonT(60) DEF Request, BeginDeploy, RecoverRead, PrepareStep, AcquireKeys, CheckReservations,
           Prepare, Probe, Publish, Refuse, FinishStep, FinishWriting, FinishUndoing,
           VerifyFile, FinishVerifying, Commit, DeleteJournal, RecoverStep, RecoverOwn,
           RecoverKeys, RecoverDecide, FinishRecovering, Abandon
  <2>3. ~Mutation
    BY DEF Mutation, SoftDelete, UpdateInputs
  <2>4. \A p \in Procs, x \in Paths : ~SkipFile(p, x) /\ ~ReadFile(p, x) /\ ~MeetThirdValue(p, x)
    BY DEF SkipFile, ReadFile, MeetThirdValue
  <2>5. \A p \in Procs : ~CheckFile(p)
    BY DEF CheckFile
  <2>6. Next
    BY DEF vars
  <2> QED
    BY <2>1, <2>2, <2>3, <2>4, <2>5, <2>6 DEF Next, Step, FileStep
<1>3. /\ pc[p] \in Moving /\ io[p].at # "read"
      /\ \A x \in Paths : disk'[x] # disk[x] => x = io[p].cur
  BY <1>1, <1>2 DEF DeleteFile, WriteFile, ChmodFile, TypeOK, Contents
<1>4. pc[p] \in OwningPhases /\ pc[p] \in LeasedPhases
      /\ pc[p] \in WritePhases \cup RecoverPhases /\ pc[p] \notin {"found", "owned", "locked"}
  BY <1>3 DEF Moving, OwningPhases, LeasedPhases, WritePhases, RecoverPhases
<1>5. PICK t \in Txns : /\ Active(t) /\ journal[t].dep = job[p].dep
                        /\ journal[t].ent = job[p].ent /\ opLock[journal[t].dep] = p
  BY <1>1, <1>4 DEF Local
<1>6. ASSUME NEW x \in Paths, disk'[x] # disk[x]
      PROVE  x \in journal[t].ent.paths /\ \A k \in Closure[x] : keyLock[k] = p
  <2>1. x \in job[p].ent.paths
    BY <1>3, <1>6 DEF InHand, Held
  <2>2. \A k \in KeysOf(job[p].ent.paths) : keyLock[k] = p
    BY <1>1, <1>4 DEF Local
  <2> QED
    BY <1>5, <2>1, <2>2 DEF KeysOf
<1> QED
  BY <1>3, <1>5, <1>6

\* "Journal publication precedes every mutation": a process changes a target
\* file only under an unresolved journal that names it, with the leases of the
\* file's whole closure and of the Deployment.
THEOREM MutationsJournalled == Spec => WritesAreJournalled
<1>1. Init => InHand
  BY DEF Init, InHand, Held, Moving
<1>2. Inv /\ InHand /\ [Next]_vars => InHand'
  BY HandStep DEF Inv
<1>3. Inv /\ InHand /\ [Next]_vars => [Journalled]_vars
  BY JournalledStep
<1> QED
  BY <1>1, <1>2, <1>3, Invariance, PTL DEF Spec, WritesAreJournalled, Journalled
-----------------------------------------------------------------------------
(* An unresolved journal freezes its Deployment.                           *)

AssetsKept == \A d \in Deployments : AssetsOf[row[d].inputs] \subseteq row[d].assets

\* The condition of FrozenWhileUnresolved.
Frozen ==
    \A t \in Txns :
        LET d == journal[t].dep IN
        Active(t) /\ AssetsOf[row[d].inputs] # {} =>
            row'[d].inputs = row[d].inputs /\ row'[d].deleted = row[d].deleted

\* The steps that change a row.
LEMMA RowSteps ==
    ASSUME [Next]_vars
    PROVE  row' = row \/ Mutation \/ \E p \in Procs : Commits(p)
<1> USE DEF Mutation
<1>1. ASSUME NEW p \in Procs, Request(p) PROVE row' = row
  BY <1>1 DEF Request, BeginDeploy, RecoverRead
<1>2. ASSUME NEW p \in Procs, PrepareStep(p) PROVE row' = row
  BY <1>2 DEF PrepareStep, AcquireKeys, CheckReservations, Prepare, Probe, Publish, Refuse
<1>3. ASSUME NEW p \in Procs, FileStep(p) PROVE row' = row
  BY <1>3, FileControl DEF Quiet, Left, Forward
<1>4. ASSUME NEW p \in Procs, FinishStep(p) PROVE row' = row \/ Commits(p)
  BY <1>4, FinishControl DEF Quiet, Left, Forward, DeleteJournal
<1>5. ASSUME NEW p \in Procs, RecoverStep(p) PROVE row' = row
  BY <1>5, RecoverControl DEF Left, Owns, Locks, Forward
<1>6. ASSUME NEW p \in Procs, Abandon(p) PROVE row' = row
  BY <1>6 DEF Abandon
<1>7. Edit \/ UNCHANGED vars => row' = row
  BY DEF Edit, UserEdit, vars
<1> QED
  BY <1>1, <1>2, <1>3, <1>4, <1>5, <1>6, <1>7 DEF Next, Step

\* A commit keeps the inputs, the assets and the life of every Deployment.
LEMMA CommitFrame ==
    ASSUME Inv, NEW p \in Procs, Commits(p), NEW d \in Deployments
    PROVE  /\ row'[d].inputs = row[d].inputs /\ row'[d].deleted = row[d].deleted
           /\ row'[d].assets = row[d].assets
<1>1. row \in [Deployments -> Rows]
  BY DEF Inv, TypeOK
<1>2. row' = [row EXCEPT ![job[p].dep] = CommittedRow(p)]
  BY DEF Commits
<1>3. CASE d = job[p].dep
  <2>1. /\ CommittedRow(p).inputs = row[d].inputs /\ CommittedRow(p).deleted = row[d].deleted
        /\ CommittedRow(p).assets = row[d].assets
    BY <1>1, <1>3 DEF CommittedRow, Rows
  <2> QED
    BY <1>1, <1>2, <1>3, <2>1
<1>4. CASE d # job[p].dep
  BY <1>1, <1>2, <1>4
<1> QED
  BY <1>3, <1>4

LEMMA AssetsStep == ASSUME Inv, AssetsKept, [Next]_vars PROVE AssetsKept'
<1>0. row \in [Deployments -> Rows]
  BY DEF Inv, TypeOK
<1>1. CASE row' = row
  BY <1>1 DEF AssetsKept
<1>2. ASSUME NEW p \in Procs, Commits(p) PROVE AssetsKept'
  BY <1>2, CommitFrame DEF AssetsKept
<1>3. ASSUME NEW d \in Deployments, SoftDelete(d) PROVE AssetsKept'
  <2>1. \A e \in Deployments : row'[e].inputs = row[e].inputs /\ row'[e].assets = row[e].assets
    BY <1>0, <1>3 DEF SoftDelete, Rows
  <2> QED
    BY <2>1 DEF AssetsKept
<1>4. ASSUME NEW d \in Deployments, NEW i \in Inputs, UpdateInputs(d, i) PROVE AssetsKept'
  <2>1. row'[d].inputs = i /\ row'[d].assets = row[d].assets \cup AssetsOf[i]
        /\ \A e \in Deployments \ {d} : row'[e] = row[e]
    BY <1>0, <1>4 DEF UpdateInputs, Rows
  <2> QED
    BY <2>1 DEF AssetsKept
<1> QED
  BY <1>1, <1>2, <1>3, <1>4, RowSteps DEF Mutation

LEMMA FrozenStep == ASSUME Inv, AssetsKept, [Next]_vars PROVE Frozen
<1> SUFFICES ASSUME NEW t \in Txns, Active(t), NEW d \in Deployments, d = journal[t].dep,
                    AssetsOf[row[d].inputs] # {}
             PROVE  row'[d].inputs = row[d].inputs /\ row'[d].deleted = row[d].deleted
  BY DEF Frozen, Inv, MarkersNamed, Active
<1>0. row \in [Deployments -> Rows]
  BY DEF Inv, TypeOK
<1>1. AssetsOf[row[d].inputs] # {} /\ AssetsOf[row[d].inputs] \subseteq row[d].assets
  BY DEF AssetsKept
<1>2. ASSUME NEW p \in Procs, Commits(p)
      PROVE  row'[d].inputs = row[d].inputs /\ row'[d].deleted = row[d].deleted
  BY <1>2, CommitFrame
<1>3. ASSUME NEW e \in Deployments, SoftDelete(e) PROVE row'[d] = row[d]
  <2>1. e # d
    BY <1>1, <1>3 DEF SoftDelete, MutationGateOpen
  <2> QED
    BY <1>0, <1>3, <2>1 DEF SoftDelete
<1>4. ASSUME NEW e \in Deployments, NEW i \in Inputs, UpdateInputs(e, i) PROVE row'[d] = row[d]
  <2>1. e # d
    BY <1>1, <1>4 DEF UpdateInputs, MutationGateOpen
  <2> QED
    BY <1>0, <1>4, <2>1 DEF UpdateInputs
<1> QED
  BY <1>2, <1>3, <1>4, RowSteps DEF Mutation

\* A Deployment with an unresolved journal and an asset among its inputs is
\* neither edited nor deleted: for it the gate on assets is as good as one on
\* Deployments, because its assets are among those it is remembered to have had.
THEOREM JournalsFreeze == Spec => FrozenWhileUnresolved
<1>1. Init => AssetsKept
  BY DEF Init, AssetsKept
<1>2. Inv /\ AssetsKept /\ [Next]_vars => AssetsKept'
  BY AssetsStep
<1>3. Inv /\ AssetsKept /\ [Next]_vars => [Frozen]_vars
  BY FrozenStep
<1> QED
  BY <1>1, <1>2, <1>3, Invariance, PTL DEF Spec, FrozenWhileUnresolved, Frozen
-----------------------------------------------------------------------------
(* The refinement of TransactionReservation.                               *)

StageMap == [t \in Txns |-> Stage(t)]
HeldMap == [t \in Txns |-> IF Active(t) THEN KeysOf(journal[t].ent.paths) ELSE {}]

LEMMA ReservationInit == Init => Reservation!Init
BY DEF Init, Reservation!Init, Stage, Active

LEMMA StutterStep ==
    ASSUME Inv, journal' = journal,
           \A t \in Txns : Active(t) => (Committed(t)' <=> Committed(t))
    PROVE  UNCHANGED <<StageMap, HeldMap>>
<1>1. \A t \in Txns : Active(t)' = Active(t)
  BY DEF Active
<1>2. ASSUME NEW t \in Txns PROVE Stage(t)' = Stage(t)
  <2>1. journal[t].phase \in {"unused", "active", "gone"}
    BY DEF Inv, TypeOK, Journals, JournalPhases
  <2>2. CASE Active(t)
    BY <1>1, <2>2 DEF Stage, Active
  <2>3. CASE ~Active(t)
    BY <2>1, <2>3 DEF Stage, Active
  <2> QED
    BY <2>2, <2>3
<1>3. \A t \in Txns : KeysOf(journal[t].ent.paths)' = KeysOf(journal[t].ent.paths)
  BY DEF KeysOf
<1> QED
  BY <1>1, <1>2, <1>3 DEF StageMap, HeldMap

LEMMA OpenStep ==
    ASSUME Inv, NEW p \in Procs, NEW t \in Txns, Publish(p, t) PROVE Reservation!Next
<1>0. PICK S, d : S = job[p].ent.paths /\ d = job[p].dep
  OBVIOUS
<1>1. TypeOK /\ Local(p) /\ pc[p] \in ScannedPhases
  BY InvSplit DEF Publish, ScannedPhases
<1>2. S \in SUBSET Paths /\ ~Reserved(S)
  BY <1>0, <1>1, EntriesTyped DEF Local, TypeOK, Jobs
<1>3. /\ journal[t].phase = "unused" /\ journal'[t].phase = "active"
      /\ journal'[t].dep = d /\ journal'[t].ent.paths = S /\ row' = row
      /\ \A u \in Txns \ {t} : journal'[u] = journal[u]
  BY <1>0, <1>1 DEF Publish, TypeOK
<1>4. d \in Deployments
  BY <1>0, <1>1 DEF Publish, Local, OwningPhases, PrepPhases
<1>5. Stage(t) = "unused" /\ Stage(t)' = "open"
  BY <1>3, <1>4 DEF Stage, Committed, Inv, PointerPublished
<1>6. ASSUME NEW u \in Txns, u # t
      PROVE /\ Stage(u)' = Stage(u) /\ Active(u)' = Active(u)
            /\ KeysOf(journal'[u].ent.paths) = KeysOf(journal[u].ent.paths)
  BY <1>3, <1>6 DEF Stage, Active, Committed
<1>7. StageMap' = [StageMap EXCEPT ![t] = "open"]
  BY <1>5, <1>6 DEF StageMap
<1>8. HeldMap' = [HeldMap EXCEPT ![t] = KeysOf(S)]
  BY <1>3, <1>6 DEF HeldMap, Active, KeysOf
<1>9. \A u \in Txns : HeldMap[u] \cap KeysOf(S) = {}
  BY <1>2 DEF HeldMap, Reserved
<1>10. KeysOf(S) \in SUBSET Keys
  BY <1>2, KeysCover
<1>11. StageMap[t] = "unused"
  BY <1>5 DEF StageMap
<1>12. Reservation!Open(t)
  BY <1>7, <1>8, <1>9, <1>10, <1>11 DEF Reservation!Open, StageMap, HeldMap
<1> QED
  BY <1>12 DEF Reservation!Next

LEMMA CloseStep ==
    ASSUME Inv, NEW p \in Procs, DeleteJournal(p) PROVE Reservation!Next
<1>0. PICK t : t = job[p].txn
  OBVIOUS
<1>1. TypeOK /\ Local(p) /\ pc[p] \in WritePhases \cup RecoverPhases
      /\ pc[p] \notin {"found", "owned", "locked"}
  BY InvSplit DEF DeleteJournal, WritePhases, RecoverPhases
<1>2. t \in Txns /\ Active(t)
  BY <1>0, <1>1 DEF Local
<1>3. /\ journal'[t].phase = "gone" /\ row' = row
      /\ \A u \in Txns \ {t} : journal'[u] = journal[u]
  BY <1>0, <1>1, <1>2 DEF DeleteJournal, TypeOK, Journals
<1>4. Stage(t) \in {"open", "committed"} /\ Stage(t)' = "closed"
  BY <1>2, <1>3 DEF Stage, Active
<1>5. ASSUME NEW u \in Txns, u # t
      PROVE /\ Stage(u)' = Stage(u) /\ Active(u)' = Active(u)
            /\ KeysOf(journal'[u].ent.paths) = KeysOf(journal[u].ent.paths)
  BY <1>3, <1>5 DEF Stage, Active, Committed
<1>6. StageMap' = [StageMap EXCEPT ![t] = "closed"] /\ StageMap[t] \in {"open", "committed"}
  BY <1>2, <1>4, <1>5 DEF StageMap
<1>7. HeldMap' = [HeldMap EXCEPT ![t] = {}]
  BY <1>2, <1>3, <1>5 DEF HeldMap, Active, KeysOf
<1>8. Reservation!Close(t)
  BY <1>6, <1>7 DEF Reservation!Close, StageMap, HeldMap
<1> QED
  BY <1>2, <1>8 DEF Reservation!Next

LEMMA CommitStep ==
    ASSUME Inv, NEW p \in Procs, Commits(p)
    PROVE  Reservation!Next \/ UNCHANGED <<StageMap, HeldMap>>
<1>0. PICK t, d : t = job[p].txn /\ d = job[p].dep
  OBVIOUS
<1>1. TypeOK /\ Local(p) /\ pc[p] \in WritePhases /\ pc[p] \in OwningPhases
      /\ pc[p] \notin {"found", "owned", "locked"}
  BY InvSplit DEF Commits, WritePhases, OwningPhases
<1>2. t \in Txns /\ Active(t) /\ journal[t].dep = d /\ d \in Deployments
  BY <1>0, <1>1 DEF Local
<1>3. row'[d].committed = t /\ journal' = journal
      /\ \A e \in Deployments \ {d} : row'[e] = row[e]
  <2>1. row[d] \in Rows /\ CommittedRow(p).committed = t
    BY <1>0, <1>1, <1>2 DEF TypeOK, CommittedRow, Rows
  <2> QED
    BY <1>0, <1>1, <1>2, <2>1 DEF Commits, TypeOK
<1>4. ASSUME NEW u \in Txns, u # t, Active(u) PROVE Committed(u)' <=> Committed(u)
  <2>1. journal[u].dep \in Deployments \ {d}
    BY <1>2, <1>4 DEF Inv, OneJournal, MarkersNamed, Active
  <2> QED
    BY <1>3, <2>1 DEF Committed
<1>5. CASE Committed(t)
  <2>1. Committed(t)'
    BY <1>2, <1>3 DEF Committed
  <2>2. \A u \in Txns : Active(u) => (Committed(u)' <=> Committed(u))
    BY <1>4, <1>5, <2>1
  <2> QED
    BY <1>3, <2>2, StutterStep
<1>6. CASE ~Committed(t)
  <2>1. Stage(t) = "open" /\ Stage(t)' = "committed"
    BY <1>2, <1>3, <1>6 DEF Stage, Active, Committed
  <2>2. ASSUME NEW u \in Txns, u # t PROVE Stage(u)' = Stage(u)
    <3>1. journal[u].phase \in {"unused", "active", "gone"} /\ journal' = journal
      BY <1>1, <1>3 DEF TypeOK, Journals, JournalPhases
    <3>2. CASE Active(u)
      BY <1>4, <2>2, <3>1, <3>2 DEF Stage, Active
    <3>3. CASE ~Active(u)
      BY <3>1, <3>3 DEF Stage, Active
    <3> QED
      BY <3>2, <3>3
  <2>3. StageMap' = [StageMap EXCEPT ![t] = "committed"] /\ StageMap[t] = "open"
    BY <1>2, <2>1, <2>2 DEF StageMap
  <2>4. HeldMap' = HeldMap
    BY <1>3 DEF HeldMap, Active, KeysOf
  <2>5. Reservation!Commit(t)
    BY <2>3, <2>4 DEF Reservation!Commit, StageMap, HeldMap
  <2> QED
    BY <1>2, <2>5 DEF Reservation!Next
<1> QED
  BY <1>5, <1>6

LEMMA ReservationStep ==
    ASSUME Inv, [Next]_vars PROVE Reservation!Next \/ UNCHANGED <<StageMap, HeldMap>>
<1>0. ASSUME UNCHANGED <<journal, row>> PROVE UNCHANGED <<StageMap, HeldMap>>
  BY <1>0, StutterStep DEF Committed
<1>1. ASSUME NEW p \in Procs, Request(p) PROVE UNCHANGED <<journal, row>>
  BY <1>1 DEF Request, BeginDeploy, RecoverRead
<1>2. ASSUME NEW p \in Procs, PrepareStep(p)
      PROVE  UNCHANGED <<journal, row>> \/ \E t \in Txns : Publish(p, t)
  BY <1>2 DEF PrepareStep, AcquireKeys, CheckReservations, Prepare, Probe, Refuse
<1>3. ASSUME NEW p \in Procs, FileStep(p) PROVE UNCHANGED <<journal, row>>
  BY <1>3, FileControl DEF Quiet, Left, Forward
<1>4. ASSUME NEW p \in Procs, FinishStep(p)
      PROVE  UNCHANGED <<journal, row>> \/ Commits(p) \/ DeleteJournal(p)
  BY <1>4, FinishControl DEF Quiet, Left, Forward
<1>5. ASSUME NEW p \in Procs, RecoverStep(p) PROVE UNCHANGED <<journal, row>>
  BY <1>5, RecoverControl DEF Left, Owns, Locks, Forward
<1>6. ASSUME NEW p \in Procs, Abandon(p) PROVE UNCHANGED <<journal, row>>
  BY <1>6 DEF Abandon
<1>7. Edit \/ UNCHANGED vars => UNCHANGED <<journal, row>>
  BY DEF Edit, UserEdit, vars
<1>8. ASSUME Mutation PROVE UNCHANGED <<StageMap, HeldMap>>
  <2>1. journal' = journal /\ \A d \in Deployments : row'[d].committed = row[d].committed
    <3>1. row \in [Deployments -> Rows]
      BY DEF Inv, TypeOK
    <3> QED
      <4>1. ASSUME NEW d \in Deployments, SoftDelete(d)
            PROVE  \A e \in Deployments : row'[e].committed = row[e].committed
        BY <3>1, <4>1 DEF SoftDelete, Rows
      <4>2. ASSUME NEW d \in Deployments, NEW i \in Inputs, UpdateInputs(d, i)
            PROVE  \A e \in Deployments : row'[e].committed = row[e].committed
        <5>1. [row[d] EXCEPT !.inputs = i, !.assets = @ \cup AssetsOf[i]].committed
                = row[d].committed
          BY <3>1 DEF Rows
        <5> QED
          BY <3>1, <4>2, <5>1 DEF UpdateInputs
      <4>3. journal' = journal
        BY <1>8 DEF Mutation, SoftDelete, UpdateInputs
      <4> QED
        BY <1>8, <4>1, <4>2, <4>3 DEF Mutation
  <2>2. \A t \in Txns : Active(t) => (Committed(t)' <=> Committed(t))
    BY <2>1 DEF Committed, Active, Inv, MarkersNamed
  <2> QED
    BY <2>1, <2>2, StutterStep
<1> QED
  BY <1>0, <1>1, <1>2, <1>3, <1>4, <1>5, <1>6, <1>7, <1>8, OpenStep, CommitStep, CloseStep
  DEF Next, Step

\* The deployment protocol implements the reservation of keys: every step of
\* every process is a step of TransactionReservation or changes nothing there.
THEOREM ReservationRefined == Spec => ReservationSpec
<1>1. Inv /\ [Next]_vars => [Reservation!Next]_(Reservation!vars)
  BY ReservationStep DEF Reservation!vars, StageMap, HeldMap
<1> QED
  BY <1>1, ReservationInit, Invariance, PTL DEF Spec, ReservationSpec, Reservation!Spec
-----------------------------------------------------------------------------
(* How far a process is with each of its files.                            *)

\* Phases of a process that has its journal and the leases of its entries.
Working == WritePhases \cup {"recovering", "resolving"}

Untouched(q) == job[q].ent.paths \ past.touched
PutBack(q, x) == disk[x] \in {past.start[x], job[q].ent.old[x]}
Side(q, x) == IF Committed(job[q].txn) THEN job[q].ent.new[x] ELSE job[q].ent.old[x]

\* The file in hand is one still to do.
InTurn(q) == pc[q] \in Moving /\ io[q].at # "read" => io[q].cur \in io[q].todo

\* What a process read of the file in hand is the side its journal comes from,
\* and is still there unless the user came between; what it removes was there.
InSight(q) == pc[q] \in Moving /\ io[q].at = "write" =>
    /\ io[q].seen = From(q, io[q].cur)
    /\ io[q].cur \in past.touched \/ disk[io[q].cur] = io[q].seen
    /\ Want(q, io[q].cur) = Absent => io[q].seen # Absent

\* A deploy works before its own commit, and deletes its marker after it.
Direction(q) ==
    /\ pc[q] \in WritePhases \ {"finalizing"} => ~Committed(job[q].txn)
    /\ pc[q] = "finalizing" => Committed(job[q].txn)

\* What an entry that the user leaves alone holds, by the phase of its process:
\* until its turn what it held at the publication, and then the side wanted.
Done(q, x) ==
    /\ pc[q] = "writing" =>
         \/ x \in io[q].mutated
         \/ x = io[q].cur /\ io[q].at = "chmod"
         \/ disk[x] = past.start[x]
    /\ pc[q] = "undoing" => x \in io[q].todo \cup io[q].failed \/ PutBack(q, x)
    /\ pc[q] = "undone" => PutBack(q, x)
    /\ pc[q] = "verifying" => x \in io[q].todo \/ disk[x] = job[q].ent.new[x]
    /\ pc[q] \in {"committing", "finalizing"} => disk[x] = job[q].ent.new[x]
    /\ pc[q] = "recovering" => x \in io[q].todo \/ disk[x] = Side(q, x)
    /\ pc[q] = "resolving" => disk[x] = Side(q, x)

Reached(q) ==
    /\ InTurn(q) /\ InSight(q) /\ Direction(q)
    /\ \A x \in Untouched(q) : Done(q, x)
AllReached == \A q \in Procs : Reached(q)

\* A path of which a step changes neither content nor history, or that its
\* user has edited.
Spared(x) ==
    \/ x \in past'.touched
    \/ x \notin past.touched /\ disk'[x] = disk[x] /\ past'.start[x] = past.start[x]

\* A process that does not work on files has nothing to keep.
LEMMA NothingReached == ASSUME NEW q \in Procs, pc'[q] \notin Working PROVE Reached(q)'
BY DEF Reached, InTurn, InSight, Direction, Done, Working, WritePhases, Moving

LEMMA LeftReached == ASSUME TypeOK, NEW p \in Procs, Leave(p) PROVE Reached(p)'
<1>1. pc'[p] = "idle"
  BY DEF Leave, Goto, TypeOK
<1> QED
  BY <1>1, NothingReached DEF Working, WritePhases

LEMMA ReachedFrame ==
    ASSUME NEW q \in Procs, Reached(q), Held(q),
           pc'[q] = pc[q], job'[q] = job[q], io'[q] = io[q],
           \A x \in job[q].ent.paths : Spared(x),
           Committed(job[q].txn)' = Committed(job[q].txn)
    PROVE  Reached(q)'
<1>1. InTurn(q)' /\ Direction(q)'
  BY DEF Reached, InTurn, Direction
<1>3. InSight(q)'
  <2> DEFINE c == io[q].cur
  <2> SUFFICES ASSUME pc[q] \in Moving, io[q].at = "write"
               PROVE  /\ io[q].seen = From(q, c)'
                      /\ c \in past'.touched \/ disk'[c] = io[q].seen
                      /\ Want(q, c)' = Absent => io[q].seen # Absent
    BY DEF InSight
  <2>1. NoNewSide(q)' = NoNewSide(q)
    BY DEF NoNewSide
  <2>2. From(q, c)' = From(q, c) /\ Want(q, c)' = Want(q, c)
    BY <2>1 DEF From, Want
  <2>3. Spared(c)
    BY DEF Held
  <2>4. InSight(q)
    BY DEF Reached
  <2> QED
    BY <2>2, <2>3, <2>4 DEF InSight, Spared
<1>2. ASSUME NEW x \in Untouched(q)' PROVE Done(q, x)'
  <2>1. x \in Untouched(q) /\ disk'[x] = disk[x] /\ past'.start[x] = past.start[x]
    BY <1>2 DEF Untouched, Spared
  <2>2. Done(q, x)
    BY <2>1 DEF Reached
  <2>3. PutBack(q, x)' = PutBack(q, x) /\ Side(q, x)' = Side(q, x)
    BY <2>1 DEF PutBack, Side
  <2> QED
    BY <2>1, <2>2, <2>3 DEF Done
<1> QED
  BY <1>1, <1>2, <1>3 DEF Reached

\* The steps of a process that change a journal or a row.
LEMMA JournalSteps ==
    ASSUME NEW p \in Procs, Request(p) \/ Step(p) \/ Abandon(p)
    PROVE  /\ journal' = journal \/ DeleteJournal(p) \/ \E t \in Txns : Publish(p, t)
           /\ row' = row \/ Commits(p)
<1>1. CASE Request(p)
  BY <1>1 DEF Request, BeginDeploy, RecoverRead
<1>2. CASE PrepareStep(p)
  BY <1>2 DEF PrepareStep, AcquireKeys, CheckReservations, Prepare, Probe, Publish, Refuse
<1>3. CASE FileStep(p)
  BY <1>3, FileControl DEF Quiet, Left, Forward
<1>4. CASE FinishStep(p)
  <2>1. DeleteJournal(p) => row' = row
    BY DEF DeleteJournal
  <2>2. Commits(p) => journal' = journal
    BY DEF Commits
  <2> QED
    BY <1>4, <2>1, <2>2, FinishControl DEF Quiet, Left, Forward
<1>5. CASE RecoverStep(p)
  BY <1>5, RecoverControl DEF Left, Owns, Locks, Forward
<1>6. CASE Abandon(p)
  BY <1>6 DEF Abandon
<1> QED
  BY <1>1, <1>2, <1>3, <1>4, <1>5, <1>6 DEF Step

\* The commit pointer of a working process's journal moves with its own commit.
LEMMA PointerKept ==
    ASSUME Inv, NEW p \in Procs, Request(p) \/ Step(p) \/ Abandon(p),
           NEW q \in Procs, pc[q] \in Working, q # p \/ ~Commits(p),
           job'[q] = job[q]
    PROVE  Committed(job[q].txn)' = Committed(job[q].txn)
<1> DEFINE t == job[q].txn
           d == job[q].dep
<1>1. TypeOK /\ Local(p) /\ Local(q)
  BY InvSplit
<1>2. pc[q] \in OwningPhases /\ pc[q] \in WritePhases \cup RecoverPhases
      /\ pc[q] \notin {"found", "owned", "locked"}
  BY DEF Working, OwningPhases, WritePhases, RecoverPhases
<1>3. t \in Txns /\ Active(t) /\ journal[t].dep = d /\ d \in Deployments
  BY <1>1, <1>2 DEF Local
<1>4. Committed(job[q].txn)' = (row'[journal'[t].dep].committed = t)
  BY DEF Committed
<1>5. journal'[t].dep = d
  <2>1. CASE journal' = journal
    BY <1>3, <2>1
  <2>2. ASSUME NEW u \in Txns, Publish(p, u) PROVE journal'[t].dep = d
    <3>1. u # t
      BY <1>3, <2>2 DEF Publish, Active
    <3> QED
      BY <1>1, <1>3, <2>2, <3>1 DEF Publish, TypeOK
  <2>3. ASSUME DeleteJournal(p) PROVE journal'[t].dep = d
    <3>1. journal'[t].dep = journal[t].dep
      BY <1>1, <1>3, <2>3 DEF DeleteJournal, TypeOK, Journals
    <3> QED
      BY <1>3, <3>1
  <2> QED
    BY <2>1, <2>2, <2>3, JournalSteps
<1>6. row'[d] = row[d] \/ (q = p /\ Commits(p))
  <2>1. CASE row' = row
    BY <2>1
  <2>2. ASSUME Commits(p), q # p PROVE row'[d] = row[d]
    <3>1. pc[p] \in OwningPhases
      BY <2>2 DEF Commits, OwningPhases, WritePhases
    <3>2. job[p].dep # d
      BY <1>1, <1>2, <2>2, <3>1, OwnersApart
    <3> QED
      BY <1>1, <1>3, <2>2, <3>2 DEF Commits, TypeOK
  <2> QED
    BY <2>1, <2>2, JournalSteps
<1> QED
  BY <1>3, <1>4, <1>5, <1>6 DEF Committed

\* A file changes by the hand of the process that has it, history by a
\* publication.
LEMMA DiskSteps ==
    ASSUME TypeOK, NEW p \in Procs, Request(p) \/ Step(p) \/ Abandon(p)
    PROVE  /\ \/ UNCHANGED disk
              \/ /\ pc[p] \in Moving /\ io[p].at # "read"
                 /\ \A x \in Paths : disk'[x] # disk[x] => x = io[p].cur
           /\ past' = past \/ \E t \in Txns : Publish(p, t)
<1>1. CASE Request(p)
  BY <1>1 DEF Request, BeginDeploy, RecoverRead
<1>2. CASE PrepareStep(p)
  BY <1>2 DEF PrepareStep, AcquireKeys, CheckReservations, Prepare, Probe, Publish, Refuse
<1>3. CASE FileStep(p)
  <2>1. ASSUME NEW x \in Paths, SkipFile(p, x) \/ ReadFile(p, x) \/ MeetThirdValue(p, x)
        PROVE  UNCHANGED <<disk, past>>
    BY <2>1 DEF SkipFile, ReadFile, MeetThirdValue
  <2>2. CASE CheckFile(p)
    BY <2>2 DEF CheckFile
  <2>3. CASE DeleteFile(p) \/ WriteFile(p) \/ ChmodFile(p)
    <3>1. /\ pc[p] \in Moving /\ io[p].at # "read"
          /\ \A x \in Paths : disk'[x] # disk[x] => x = io[p].cur
      BY <2>3 DEF DeleteFile, WriteFile, ChmodFile, TypeOK, Contents
    <3>2. past' = past
      BY <2>3 DEF DeleteFile, WriteFile, ChmodFile
    <3> QED
      BY <3>1, <3>2
  <2> QED
    BY <1>3, <2>1, <2>2, <2>3 DEF FileStep
<1>4. CASE FinishStep(p)
  BY <1>4 DEF FinishStep, FinishWriting, FinishUndoing, VerifyFile, FinishVerifying, Commit,
              DeleteJournal
<1>5. CASE RecoverStep(p)
  BY <1>5 DEF RecoverStep, RecoverOwn, RecoverKeys, RecoverDecide, FinishRecovering
<1>6. CASE Abandon(p)
  BY <1>6 DEF Abandon
<1> QED
  BY <1>1, <1>2, <1>3, <1>4, <1>5, <1>6 DEF Step

\* The entries of a working process are spared by every other process.
LEMMA OthersSpare ==
    ASSUME Inv, InHand, NEW p \in Procs, Request(p) \/ Step(p) \/ Abandon(p),
           NEW q \in Procs, q # p, pc[q] \in Working, NEW x \in job[q].ent.paths
    PROVE  Spared(x)
<1>1. TypeOK /\ Local(p) /\ Local(q)
  BY InvSplit
<1>2. pc[q] \in LeasedPhases
  BY DEF Working, LeasedPhases, OwningPhases, WritePhases
<1>3. x \in Paths
  BY <1>1, EntriesTyped DEF TypeOK, Jobs
<1>4. disk'[x] = disk[x]
  <2>1. ASSUME pc[p] \in Moving, io[p].at # "read", x = io[p].cur PROVE FALSE
    <3>1. x \in job[p].ent.paths
      BY <2>1 DEF InHand, Held
    <3>2. pc[p] \in LeasedPhases
      BY <2>1 DEF Moving, LeasedPhases, OwningPhases, WritePhases
    <3> QED
      BY <1>1, <1>2, <3>1, <3>2, LeasedApart
  <2> QED
    BY <1>1, <1>3, <2>1, DiskSteps
<1>5. past'.start[x] = past.start[x] /\ (x \in past'.touched <=> x \in past.touched)
  <2>1. CASE past' = past
    BY <2>1
  <2>2. ASSUME NEW t \in Txns, Publish(p, t)
        PROVE  past'.start[x] = past.start[x] /\ (x \in past'.touched <=> x \in past.touched)
    <3>1. pc[p] \in LeasedPhases
      BY <2>2 DEF Publish, LeasedPhases, OwningPhases, PrepPhases
    <3>2. x \notin job[p].ent.paths
      BY <1>1, <1>2, <3>1, LeasedApart
    <3> QED
      BY <1>3, <2>2, <3>2 DEF Publish
  <2> QED
    BY <1>1, <2>1, <2>2, DiskSteps
<1> QED
  BY <1>4, <1>5 DEF Spared

LEMMA OthersReached ==
    ASSUME Inv, InHand, NEW p \in Procs, Request(p) \/ Step(p) \/ Abandon(p),
           NEW q \in Procs, q # p, Reached(q)
    PROVE  Reached(q)'
<1>1. TypeOK
  BY DEF Inv
<1>2. pc'[q] = pc[q] /\ job'[q] = job[q] /\ io'[q] = io[q]
  BY <1>1, OthersKeep
<1>3. CASE pc[q] \in Working
  <2>1. \A x \in job[q].ent.paths : Spared(x)
    BY <1>3, OthersSpare
  <2>2. Committed(job[q].txn)' = Committed(job[q].txn)
    BY <1>2, <1>3, PointerKept
  <2> QED
    BY <1>2, <2>1, <2>2, ReachedFrame DEF InHand
<1>4. CASE pc[q] \notin Working
  BY <1>2, <1>4, NothingReached
<1> QED
  BY <1>3, <1>4
-----------------------------------------------------------------------------
(* What a process does to its own files.                                   *)

\* A call that leaves the phase, the entries and the commit pointer alone
\* keeps what is known of the entries, if it does of each.
LEMMA FileFrame ==
    ASSUME NEW p \in Procs, Reached(p), UNCHANGED <<journal, row, pc, job, past>>,
           InTurn(p)', InSight(p)', \A x \in Untouched(p) : Done(p, x)'
    PROVE  Reached(p)'
<1>1. Direction(p)'
  BY DEF Reached, Direction, Committed
<1>2. Untouched(p)' = Untouched(p)
  BY DEF Untouched
<1> QED
  BY <1>1, <1>2 DEF Reached

\* Of an entry whose content stays, progress is all that may be lost.
LEMMA DoneFrame ==
    ASSUME NEW p \in Procs, NEW x, Done(p, x), pc[p] \in Moving,
           UNCHANGED <<journal, row, pc, job, past>>, disk'[x] = disk[x],
           pc[p] = "writing" /\ x \in io[p].mutated => x \in io'[p].mutated,
           pc[p] = "writing" /\ x = io[p].cur /\ io[p].at = "chmod"
             => x \in io'[p].mutated,
           pc[p] = "undoing" /\ x \in io[p].todo \cup io[p].failed =>
             x \in io'[p].todo \cup io'[p].failed \/ PutBack(p, x),
           pc[p] = "recovering" /\ x \in io[p].todo =>
             x \in io'[p].todo \/ disk[x] = Side(p, x)
    PROVE  Done(p, x)'
<1>1. Side(p, x)' = Side(p, x) /\ PutBack(p, x)' = PutBack(p, x)
  BY DEF Side, PutBack, Committed
<1>2. CASE pc[p] = "writing"
  BY <1>1, <1>2 DEF Done
<1>3. CASE pc[p] = "undoing"
  BY <1>1, <1>3 DEF Done
<1>4. CASE pc[p] = "recovering"
  BY <1>1, <1>4 DEF Done
<1> QED
  BY <1>2, <1>3, <1>4 DEF Moving

\* What a process wants at a path is the side of its direction.
LEMMA Wanted ==
    ASSUME NEW p \in Procs, NEW x
    PROVE  /\ pc[p] = "writing" =>
                Want(p, x) = job[p].ent.new[x] /\ From(p, x) = job[p].ent.old[x]
           /\ pc[p] = "undoing" => Want(p, x) = job[p].ent.old[x]
           /\ pc[p] = "recovering" => Want(p, x) = Side(p, x)
BY DEF Want, From, NoNewSide, Side

LEMMA SkipReached ==
    ASSUME TypeOK, NEW p \in Procs, NEW z \in Paths, Reached(p), SkipFile(p, z)
    PROVE  Reached(p)'
<1>0. io[p] \in IOs /\ io \in [Procs -> IOs]
  BY DEF TypeOK
<1>1. /\ pc[p] \in Moving /\ io[p].at = "read"
      /\ UNCHANGED <<disk, journal, row, pc, job, past>>
  BY DEF SkipFile
<1>2. /\ io'[p].at = "read" /\ io'[p].mutated = io[p].mutated
      /\ io'[p].todo = io[p].todo \ {z} /\ io'[p].failed = io[p].failed
  BY <1>0 DEF SkipFile, IOs
<1>3. InTurn(p)' /\ InSight(p)'
  BY <1>2 DEF InTurn, InSight
<1>4. ASSUME NEW x \in Untouched(p) PROVE Done(p, x)'
  <2>1. pc[p] = "undoing" => disk[z] = job[p].ent.old[z]
    BY Wanted DEF SkipFile, Settled
  <2>2. pc[p] = "recovering" => disk[z] = Side(p, z)
    BY Wanted DEF SkipFile, Settled
  <2>3. Done(p, x) /\ disk'[x] = disk[x]
    BY <1>1, <1>4 DEF Reached
  <2>4. pc[p] = "undoing" /\ x \in io[p].todo \cup io[p].failed =>
             x \in io'[p].todo \cup io'[p].failed \/ PutBack(p, x)
    BY <1>2, <2>1 DEF PutBack
  <2>5. pc[p] = "recovering" /\ x \in io[p].todo => x \in io'[p].todo \/ disk[x] = Side(p, x)
    BY <1>2, <2>2
  <2> QED
    BY <1>1, <1>2, <2>3, <2>4, <2>5, DoneFrame
<1> QED
  BY <1>1, <1>3, <1>4, FileFrame

LEMMA ReadReached ==
    ASSUME TypeOK, NEW p \in Procs, NEW z \in Paths, Reached(p), ReadFile(p, z)
    PROVE  Reached(p)'
<1>0. io[p] \in IOs /\ io \in [Procs -> IOs]
  BY DEF TypeOK
<1>1. /\ pc[p] \in Moving /\ io[p].at = "read" /\ z \in io[p].todo
      /\ UNCHANGED <<disk, journal, row, pc, job, past>>
  BY DEF ReadFile, NextEntry
<1>2. /\ io'[p].at = "write" /\ io'[p].mutated = io[p].mutated
      /\ io'[p].todo = io[p].todo /\ io'[p].failed = io[p].failed
      /\ io'[p].cur = z /\ io'[p].seen = disk[z]
  BY <1>0 DEF ReadFile, IOs
<1>3. InTurn(p)'
  BY <1>1, <1>2 DEF InTurn
<1>4. InSight(p)'
  <2>1. disk[z] = From(p, z) /\ (Want(p, z) = Absent => disk[z] # Absent)
    BY DEF ReadFile, Settled
  <2>2. From(p, z)' = From(p, z) /\ Want(p, z)' = Want(p, z)
    BY <1>1 DEF From, Want, NoNewSide, Committed
  <2> QED
    BY <1>1, <1>2, <2>1, <2>2 DEF InSight
<1>5. ASSUME NEW x \in Untouched(p) PROVE Done(p, x)'
  <2>1. Done(p, x) /\ disk'[x] = disk[x]
    BY <1>1, <1>5 DEF Reached
  <2> QED
    BY <1>1, <1>2, <2>1, DoneFrame
<1> QED
  BY <1>1, <1>3, <1>4, <1>5, FileFrame

LEMMA MeetReached ==
    ASSUME TypeOK, NEW p \in Procs, NEW z \in Paths, Reached(p), MeetThirdValue(p, z)
    PROVE  Reached(p)'
<1>0. io[p] \in IOs /\ io \in [Procs -> IOs] /\ pc \in [Procs -> Phases]
  BY DEF TypeOK
<1>1. /\ pc[p] \in Moving /\ io[p].at = "read"
      /\ UNCHANGED <<disk, journal, row, past>>
  BY DEF MeetThirdValue
<1>2. CASE pc[p] = "writing"
  <2>1. pc'[p] = "undoing" /\ job' = job /\ io'[p] = StartIO(io[p].mutated)
    BY <1>0, <1>2 DEF MeetThirdValue, Goto
  <2>2. InTurn(p)' /\ InSight(p)'
    BY <2>1 DEF InTurn, InSight, StartIO
  <2>3. Direction(p)'
    <3>1. ~Committed(job[p].txn)
      BY <1>2 DEF Reached, Direction, WritePhases
    <3> QED
      BY <1>1, <2>1, <3>1 DEF Direction, Committed
  <2>4. ASSUME NEW x \in Untouched(p)' PROVE Done(p, x)'
    <3>1. x \in Untouched(p)
      BY <1>1, <2>1, <2>4 DEF Untouched
    <3>2. x \in io[p].mutated \/ disk[x] = past.start[x]
      BY <1>1, <1>2, <3>1 DEF Reached, Done
    <3>3. x \in io'[p].todo \/ PutBack(p, x)'
      BY <1>1, <2>1, <3>2 DEF StartIO, PutBack
    <3> QED
      BY <2>1, <3>3 DEF Done
  <2> QED
    BY <2>2, <2>3, <2>4 DEF Reached
<1>3. CASE pc[p] = "undoing"
  <2>1. /\ io'[p].at = "read" /\ UNCHANGED <<pc, job>>
        /\ io'[p].todo = io[p].todo \ {z} /\ io'[p].failed = io[p].failed \cup {z}
    BY <1>0, <1>3 DEF MeetThirdValue, IOs
  <2>2. InTurn(p)' /\ InSight(p)'
    BY <2>1 DEF InTurn, InSight
  <2>3. ASSUME NEW x \in Untouched(p) PROVE Done(p, x)'
    <3>1. Done(p, x) /\ disk'[x] = disk[x]
      BY <1>1, <2>3 DEF Reached
    <3> QED
      BY <1>1, <1>3, <2>1, <3>1, DoneFrame
  <2> QED
    BY <1>1, <2>1, <2>2, <2>3, FileFrame
<1>4. CASE pc[p] = "recovering"
  BY <1>4, LeftReached DEF MeetThirdValue
<1> QED
  BY <1>1, <1>2, <1>3, <1>4 DEF Moving

\* After a call only the file in hand may have changed.
LEMMA CallReached ==
    ASSUME TypeOK, NEW p \in Procs, Reached(p), pc[p] \in Moving, io[p].at # "read",
           UNCHANGED <<journal, row, past>>,
           \A x \in Paths \ {io[p].cur} : disk'[x] = disk[x],
           \/ AfterCall(p) /\ UNCHANGED <<pc, job>>
           \/ FailCall(p)
           \/ io[p].at = "write" /\ io' = [io EXCEPT ![p].at = "chmod"] /\ UNCHANGED <<pc, job>>
    PROVE  Reached(p)'
<1>0. io[p] \in IOs /\ io \in [Procs -> IOs]
  BY DEF TypeOK
<1> DEFINE c == io[p].cur
<1>1. c \in io[p].todo
  BY DEF Reached, InTurn
<1>2. Untouched(p) \subseteq Paths
  BY EntriesTyped DEF TypeOK, Jobs, Untouched
<1>3. CASE Leave(p)
  BY <1>3, LeftReached
<1>4. CASE pc[p] = "writing" /\ io' = [io EXCEPT ![p].at = "chmod"] /\ UNCHANGED <<pc, job>>
           /\ io[p].at = "write"
  <2>1. /\ io'[p].at = "chmod" /\ io'[p].cur = c /\ io'[p].todo = io[p].todo
        /\ io'[p].mutated = io[p].mutated
    BY <1>0, <1>4 DEF IOs
  <2>2. InTurn(p)' /\ InSight(p)'
    BY <1>1, <2>1 DEF InTurn, InSight
  <2>3. ASSUME NEW x \in Untouched(p) PROVE Done(p, x)'
    <3>1. CASE x = c
      BY <1>4, <2>1, <3>1 DEF Done
    <3>2. CASE x # c
      <4>1. Done(p, x) /\ disk'[x] = disk[x]
        BY <1>2, <2>3, <3>2 DEF Reached
      <4> QED
        BY <1>4, <2>1, <3>2, <4>1, DoneFrame
    <3> QED
      BY <3>1, <3>2
  <2> QED
    BY <1>4, <2>2, <2>3, FileFrame
<1>5. CASE pc[p] = "writing" /\ AfterCall(p) /\ UNCHANGED <<pc, job>>
  <2>1. io' = [io EXCEPT ![p] = [io[p] EXCEPT !.todo = @ \ {c}, !.at = "read",
                                              !.mutated = @ \cup {c}]]
    BY <1>5 DEF AfterCall
  <2>2. io'[p].at = "read" /\ io'[p].mutated = io[p].mutated \cup {c}
    BY <1>0, <2>1 DEF IOs
  <2>3. InTurn(p)' /\ InSight(p)'
    BY <2>2 DEF InTurn, InSight
  <2>4. ASSUME NEW x \in Untouched(p) PROVE Done(p, x)'
    <3>1. CASE x = c
      BY <1>5, <2>2, <3>1 DEF Done
    <3>2. CASE x # c
      <4>1. Done(p, x) /\ disk'[x] = disk[x]
        BY <1>2, <2>4, <3>2 DEF Reached
      <4> QED
        BY <1>5, <2>2, <3>2, <4>1, DoneFrame
    <3> QED
      BY <3>1, <3>2
  <2> QED
    BY <1>5, <2>3, <2>4, FileFrame
<1>6. ASSUME pc[p] # "writing", NEW a \in {"chmod", "check"}, io' = [io EXCEPT ![p].at = a],
             UNCHANGED <<pc, job>>
      PROVE  Reached(p)'
  <2>1. /\ io'[p].cur = c /\ io'[p].todo = io[p].todo /\ io'[p].failed = io[p].failed
        /\ io'[p].at # "write"
    BY <1>0, <1>6 DEF IOs
  <2>2. InTurn(p)' /\ InSight(p)'
    BY <1>1, <1>6, <2>1 DEF InTurn, InSight
  <2>3. ASSUME NEW x \in Untouched(p) PROVE Done(p, x)'
    <3>1. CASE x = c
      BY <1>1, <1>6, <2>1, <3>1 DEF Done, Moving
    <3>2. CASE x # c
      <4>1. Done(p, x) /\ disk'[x] = disk[x]
        BY <1>2, <2>3, <3>2 DEF Reached
      <4> QED
        BY <1>6, <2>1, <4>1, DoneFrame
    <3> QED
      BY <3>1, <3>2
  <2> QED
    BY <1>6, <2>2, <2>3, FileFrame
<1>7. CASE FailCall(p)
  BY <1>3, <1>6, <1>7 DEF FailCall
<1>8. CASE pc[p] # "writing" /\ AfterCall(p) /\ UNCHANGED <<pc, job>>
  BY <1>6, <1>8 DEF AfterCall
<1> QED
  BY <1>4, <1>5, <1>6, <1>7, <1>8

LEMMA CheckReached ==
    ASSUME TypeOK, NEW p \in Procs, Reached(p), CheckFile(p)
    PROVE  Reached(p)'
<1>0. io[p] \in IOs /\ io \in [Procs -> IOs]
  BY DEF TypeOK
<1> DEFINE c == io[p].cur
<1>1. pc[p] \in {"undoing", "recovering"} /\ pc[p] \in Moving /\ UNCHANGED <<disk, journal, row, past>>
  BY DEF CheckFile, Moving
<1>2. CASE disk[c] = Want(p, c) \/ pc[p] = "undoing"
  <2>1. /\ io' = [io EXCEPT ![p] = [io[p] EXCEPT !.at = "read", !.todo = @ \ {c},
                             !.failed = IF disk[c] = Want(p, c) THEN @ ELSE @ \cup {c}]]
        /\ UNCHANGED <<pc, job>>
    BY <1>2 DEF CheckFile
  <2>2. /\ io'[p].at = "read" /\ io'[p].todo = io[p].todo \ {c}
        /\ io'[p].failed = IF disk[c] = Want(p, c) THEN io[p].failed ELSE io[p].failed \cup {c}
    BY <1>0, <2>1 DEF IOs
  <2>3. InTurn(p)' /\ InSight(p)'
    BY <2>2 DEF InTurn, InSight
  <2>4. ASSUME NEW x \in Untouched(p) PROVE Done(p, x)'
    <3>1. Done(p, x) /\ disk'[x] = disk[x]
      BY <1>1, <2>4 DEF Reached
    <3>2. pc[p] = "undoing" /\ x \in io[p].todo \cup io[p].failed =>
             x \in io'[p].todo \cup io'[p].failed \/ PutBack(p, x)
      BY <2>2, Wanted DEF PutBack
    <3>3. pc[p] = "recovering" /\ x \in io[p].todo => x \in io'[p].todo \/ disk[x] = Side(p, x)
      BY <1>2, <2>2, Wanted
    <3> QED
      BY <1>1, <2>1, <3>1, <3>2, <3>3, DoneFrame
  <2> QED
    BY <1>1, <2>1, <2>3, <2>4, FileFrame
<1>3. CASE ~(disk[c] = Want(p, c) \/ pc[p] = "undoing")
  BY <1>3, LeftReached DEF CheckFile
<1> QED
  BY <1>2, <1>3

LEMMA FileReached ==
    ASSUME TypeOK, NEW p \in Procs, Reached(p), FileStep(p) PROVE Reached(p)'
<1>1. ASSUME NEW x \in Paths, SkipFile(p, x) \/ ReadFile(p, x) \/ MeetThirdValue(p, x)
      PROVE  Reached(p)'
  BY <1>1, SkipReached, ReadReached, MeetReached
<1>2. CASE DeleteFile(p)
  <2>1. \A x \in Paths \ {io[p].cur} : disk'[x] = disk[x]
    BY <1>2 DEF DeleteFile, TypeOK, Contents
  <2>2. (AfterCall(p) /\ UNCHANGED <<pc, job>>) \/ FailCall(p)
    BY <1>2 DEF DeleteFile
  <2> QED
    BY <1>2, <2>1, <2>2, CallReached DEF DeleteFile
<1>3. CASE WriteFile(p)
  <2>1. \A x \in Paths \ {io[p].cur} : disk'[x] = disk[x]
    BY <1>3 DEF WriteFile, TypeOK, Contents
  <2>2. FailCall(p) \/ (io' = [io EXCEPT ![p].at = "chmod"] /\ UNCHANGED <<pc, job>>)
    BY <1>3 DEF WriteFile
  <2> QED
    BY <1>3, <2>1, <2>2, CallReached DEF WriteFile
<1>4. CASE ChmodFile(p)
  <2>1. \A x \in Paths \ {io[p].cur} : disk'[x] = disk[x]
    BY <1>4 DEF ChmodFile, TypeOK, Contents
  <2> QED
    BY <1>4, <2>1, CallReached DEF ChmodFile
<1>5. CASE CheckFile(p)
  BY <1>5, CheckReached
<1> QED
  BY <1>1, <1>2, <1>3, <1>4, <1>5 DEF FileStep

\* The publication: nothing is done yet, and no row can name the journal.
LEMMA PublishReached ==
    ASSUME Inv, NEW p \in Procs, NEW t \in Txns, Publish(p, t) PROVE Reached(p)'
<1>1. TypeOK /\ Local(p)
  BY InvSplit
<1>2. /\ pc'[p] = "writing" /\ job'[p].txn = t /\ job'[p].ent = job[p].ent
      /\ io'[p] = StartIO(job[p].ent.paths)
  BY <1>1 DEF Publish, Goto, TypeOK, Jobs
<1>3. InTurn(p)' /\ InSight(p)'
  BY <1>2 DEF InTurn, InSight, StartIO
<1>4. ~Committed(t)'
  <2>1. job[p].dep \in Deployments /\ journal'[t].dep = job[p].dep
    BY <1>1 DEF Local, OwningPhases, PrepPhases, Publish, TypeOK
  <2>2. row[job[p].dep].committed # t
    BY <2>1 DEF Publish, Inv, PointerPublished
  <2> QED
    BY <2>1, <2>2 DEF Committed, Publish
<1>5. Direction(p)'
  BY <1>2, <1>4 DEF Direction
<1>6. ASSUME NEW x \in Untouched(p)' PROVE Done(p, x)'
  <2>1. x \in job[p].ent.paths /\ x \in Paths
    BY <1>1, <1>2, <1>6, EntriesTyped DEF Untouched, TypeOK, Jobs
  <2>2. past'.start[x] = disk[x] /\ disk' = disk
    BY <2>1 DEF Publish
  <2> QED
    BY <1>2, <2>2 DEF Done
<1> QED
  BY <1>3, <1>5, <1>6 DEF Reached

LEMMA PrepareReached ==
    ASSUME Inv, NEW p \in Procs, PrepareStep(p) PROVE Reached(p)'
<1>1. TypeOK
  BY DEF Inv
<1>2. ASSUME NEW q \in PrepPhases, Goto(p, q) PROVE Reached(p)'
  <2>1. pc'[p] = q
    BY <1>1, <1>2 DEF Goto, TypeOK
  <2> QED
    BY <1>2, <2>1, NothingReached DEF Working, WritePhases, PrepPhases
<1>3. {"keyed", "scanned", "prepared", "probed"} \subseteq PrepPhases
  BY DEF PrepPhases
<1>4. ASSUME NEW t \in Txns, Publish(p, t) PROVE Reached(p)'
  BY <1>4, PublishReached
<1>5. CASE Refuse(p)
  BY <1>1, <1>5, LeftReached DEF Refuse
<1> QED
  BY <1>2, <1>3, <1>4, <1>5
  DEF PrepareStep, AcquireKeys, CheckReservations, Prepare, Probe

\* A step that leaves disk, history and authority alone and moves on.
LEMMA MovedOn ==
    ASSUME TypeOK, NEW p \in Procs, Reached(p), NEW q, Goto(p, q), q \in Phases \ {"writing"},
           UNCHANGED <<disk, journal, row, job, past>>,
           q \in Moving => io'[p].at = "read",
           q \in WritePhases \ {"finalizing"} => pc[p] \in WritePhases \ {"finalizing"},
           q # "finalizing",
           \A x \in Untouched(p) : Done(p, x)'
    PROVE  Reached(p)'
<1>1. pc'[p] = q
  BY DEF Goto, TypeOK
<1>2. InTurn(p)' /\ InSight(p)'
  BY <1>1 DEF InTurn, InSight
<1>3. Committed(job[p].txn)' = Committed(job[p].txn)
  BY DEF Committed
<1>4. Direction(p)'
  BY <1>1, <1>3 DEF Reached, Direction
<1>5. Untouched(p)' = Untouched(p)
  BY DEF Untouched
<1> QED
  BY <1>2, <1>4, <1>5 DEF Reached

LEMMA FinishReached ==
    ASSUME Inv, NEW p \in Procs, Reached(p), FinishStep(p) PROVE Reached(p)'
<1>1. TypeOK /\ pc \in [Procs -> Phases] /\ io[p] \in IOs /\ io \in [Procs -> IOs]
  BY DEF Inv, TypeOK
<1>2. WritePhases \subseteq Phases
  BY DEF Phases
<1>3. CASE FinishWriting(p)
  <2>1. io'[p] = StartIO(job[p].ent.paths) /\ pc'[p] = "verifying" /\ pc[p] = "writing"
    BY <1>1, <1>3 DEF FinishWriting, Goto
  <2>2. ASSUME NEW x \in Untouched(p) PROVE Done(p, x)'
    BY <2>1, <2>2 DEF Done, Untouched, StartIO
  <2>3. "verifying" \in WritePhases \ {"finalizing"} /\ "verifying" \in Phases \ {"writing"}
        /\ "verifying" \notin Moving /\ pc[p] \in WritePhases \ {"finalizing"}
    BY <1>2, <2>1 DEF WritePhases, Moving
  <2> QED
    BY <1>1, <1>3, <2>2, <2>3, MovedOn DEF FinishWriting
<1>4. CASE FinishUndoing(p)
  <2>1. CASE io[p].failed # {}
    BY <1>1, <1>4, <2>1, LeftReached DEF FinishUndoing
  <2>2. CASE io[p].failed = {}
    <3>1. pc'[p] = "undone" /\ pc[p] = "undoing" /\ io[p].todo = {}
          /\ UNCHANGED <<disk, journal, row, job, past>> /\ Goto(p, "undone")
      BY <1>1, <1>4, <2>2 DEF FinishUndoing, Goto
    <3>2. ASSUME NEW x \in Untouched(p) PROVE Done(p, x)'
      <4>1. PutBack(p, x)
        BY <2>2, <3>1, <3>2 DEF Reached, Done
      <4>2. PutBack(p, x)'
        BY <3>1, <4>1 DEF PutBack
      <4> QED
        BY <3>1, <4>2 DEF Done
    <3>3. "undone" \in WritePhases \ {"finalizing"} /\ "undone" \in Phases \ {"writing"}
          /\ "undone" \notin Moving /\ pc[p] \in WritePhases \ {"finalizing"}
      BY <1>2, <3>1 DEF WritePhases, Moving
    <3> QED
      BY <1>1, <3>1, <3>2, <3>3, MovedOn
  <2> QED
    BY <2>1, <2>2
<1>5. ASSUME NEW z \in Paths, VerifyFile(p, z) PROVE Reached(p)'
  <2>1. CASE disk[z] = job[p].ent.new[z]
    <3>1. /\ io'[p].todo = io[p].todo \ {z} /\ pc[p] = "verifying" /\ pc' = pc
          /\ UNCHANGED <<disk, journal, row, job, past>>
      BY <1>1, <1>5, <2>1 DEF VerifyFile, IOs
    <3>2. InTurn(p)' /\ InSight(p)'
      BY <3>1 DEF InTurn, InSight, Moving
    <3>3. ASSUME NEW x \in Untouched(p) PROVE Done(p, x)'
      <4>1. x \in io[p].todo \/ disk[x] = job[p].ent.new[x]
        BY <3>1, <3>3 DEF Reached, Done
      <4>2. x \in io'[p].todo \/ disk[x] = job[p].ent.new[x]
        BY <2>1, <3>1, <4>1
      <4> QED
        BY <3>1, <4>2 DEF Done
    <3> QED
      BY <3>1, <3>2, <3>3, FileFrame
  <2>2. CASE disk[z] # job[p].ent.new[z]
    BY <1>1, <1>5, <2>2, LeftReached DEF VerifyFile
  <2> QED
    BY <2>1, <2>2
<1>6. CASE FinishVerifying(p)
  <2>1. /\ pc'[p] = "committing" /\ pc[p] = "verifying" /\ io[p].todo = {}
        /\ UNCHANGED <<disk, journal, row, job, past>> /\ Goto(p, "committing")
    BY <1>1, <1>6 DEF FinishVerifying, Goto
  <2>2. ASSUME NEW x \in Untouched(p) PROVE Done(p, x)'
    <3>1. disk[x] = job[p].ent.new[x]
      BY <2>1, <2>2 DEF Reached, Done
    <3> QED
      BY <2>1, <3>1 DEF Done
  <2>3. "committing" \in WritePhases \ {"finalizing"} /\ "committing" \in Phases \ {"writing"}
        /\ "committing" \notin Moving /\ pc[p] \in WritePhases \ {"finalizing"}
    BY <1>2, <2>1 DEF WritePhases, Moving
  <2> QED
    BY <1>1, <2>1, <2>2, <2>3, MovedOn
<1>7. CASE Commit(p)
  <2>1. CASE ~CommitAllowed(p)
    BY <1>1, <1>7, <2>1, LeftReached DEF Commit
  <2>2. CASE CommitAllowed(p)
    <3>1. /\ pc'[p] = "finalizing" /\ pc[p] = "committing"
          /\ row' = [row EXCEPT ![job[p].dep] = CommittedRow(p)]
          /\ UNCHANGED <<disk, journal, job, past>>
      BY <1>1, <1>7, <2>2 DEF Commit, Goto
    <3>2. Committed(job[p].txn)'
      <4>1. journal[job[p].txn].dep = job[p].dep /\ job[p].dep \in Deployments
        BY <3>1, InvSplit DEF Local, OwningPhases, WritePhases
      <4>2. CommittedRow(p).committed = job[p].txn
        BY <1>1, <4>1 DEF CommittedRow, TypeOK, Rows
      <4>3. row'[job[p].dep].committed = job[p].txn
        BY <1>1, <3>1, <4>1, <4>2 DEF TypeOK
      <4> QED
        BY <3>1, <4>1, <4>3 DEF Committed
    <3>3. InTurn(p)' /\ InSight(p)' /\ Direction(p)'
      BY <3>1, <3>2 DEF InTurn, InSight, Direction, Moving
    <3>4. ASSUME NEW x \in Untouched(p)' PROVE Done(p, x)'
      <4>1. x \in Untouched(p)
        BY <3>1, <3>4 DEF Untouched
      <4>2. disk[x] = job[p].ent.new[x]
        BY <3>1, <4>1 DEF Reached, Done
      <4> QED
        BY <3>1, <4>2 DEF Done
    <3> QED
      BY <3>3, <3>4 DEF Reached
  <2> QED
    BY <2>1, <2>2
<1>8. CASE DeleteJournal(p)
  BY <1>1, <1>8, LeftReached DEF DeleteJournal
<1> QED
  BY <1>3, <1>4, <1>5, <1>6, <1>7, <1>8 DEF FinishStep

LEMMA RecoverReached ==
    ASSUME Inv, NEW p \in Procs, Reached(p), RecoverStep(p) PROVE Reached(p)'
<1>1. TypeOK /\ pc \in [Procs -> Phases] /\ io[p] \in IOs /\ io \in [Procs -> IOs]
  BY DEF Inv, TypeOK
<1>2. CASE Leave(p)
  BY <1>1, <1>2, LeftReached
<1>3. ASSUME NEW q \in {"owned", "locked"}, Goto(p, q) PROVE Reached(p)'
  <2>1. pc'[p] = q
    BY <1>1, <1>3 DEF Goto
  <2> QED
    BY <2>1, NothingReached DEF Working, WritePhases
<1>4. CASE RecoverDecide(p) /\ ~Leave(p)
  <2>1. /\ io'[p] = StartIO(job[p].ent.paths) /\ Goto(p, "recovering")
        /\ pc'[p] = "recovering" /\ UNCHANGED <<disk, journal, row, job, past>>
    BY <1>1, <1>4 DEF RecoverDecide, Goto
  <2>2. ASSUME NEW x \in Untouched(p) PROVE Done(p, x)'
    BY <2>1, <2>2 DEF Done, Untouched, StartIO
  <2>3. "recovering" \in Phases \ {"writing"} /\ "recovering" \notin WritePhases
        /\ io'[p].at = "read"
    BY <2>1 DEF Phases, RecoverPhases, WritePhases, StartIO
  <2> QED
    BY <1>1, <2>1, <2>2, <2>3, MovedOn
<1>5. CASE FinishRecovering(p)
  <2>1. /\ io[p].todo = {} /\ Goto(p, "resolving") /\ pc[p] = "recovering"
        /\ pc'[p] = "resolving" /\ UNCHANGED <<disk, journal, row, job, past>>
    BY <1>1, <1>5 DEF FinishRecovering, Goto
  <2>2. ASSUME NEW x \in Untouched(p) PROVE Done(p, x)'
    <3>1. disk[x] = Side(p, x)
      BY <2>1, <2>2 DEF Reached, Done
    <3>2. Side(p, x)' = Side(p, x)
      BY <2>1 DEF Side, Committed
    <3> QED
      BY <2>1, <3>1, <3>2 DEF Done
  <2>3. "resolving" \in Phases \ {"writing"} /\ "resolving" \notin WritePhases
        /\ "resolving" \notin Moving
    BY DEF Phases, RecoverPhases, WritePhases, Moving
  <2> QED
    BY <1>1, <2>1, <2>2, <2>3, MovedOn
<1> QED
  BY <1>2, <1>3, <1>4, <1>5 DEF RecoverStep, RecoverOwn, RecoverKeys

LEMMA OwnReached ==
    ASSUME Inv, NEW p \in Procs, Reached(p), Request(p) \/ Step(p) \/ Abandon(p)
    PROVE  Reached(p)'
<1>1. TypeOK
  BY DEF Inv
<1>2. CASE Request(p)
  <2>1. pc'[p] \in {"begun", "found"}
    BY <1>1, <1>2 DEF Request, BeginDeploy, RecoverRead, Goto, TypeOK
  <2> QED
    BY <2>1, NothingReached DEF Working, WritePhases
<1>3. CASE Abandon(p)
  BY <1>1, <1>3, LeftReached DEF Abandon
<1> QED
  BY <1>1, <1>2, <1>3, PrepareReached, FileReached, FinishReached, RecoverReached DEF Step

\* The user's edit of a path excuses it.
LEMMA EditReached ==
    ASSUME TypeOK, NEW x \in Paths, NEW s, UserEdit(x, s),
           NEW q \in Procs, Reached(q), Held(q)
    PROVE  Reached(q)'
<1>1. \A y \in job[q].ent.paths : Spared(y)
  <2> SUFFICES ASSUME NEW y \in Paths PROVE Spared(y)
    BY EntriesTyped DEF TypeOK, Jobs
  <2> QED
    BY DEF UserEdit, Spared, TypeOK, Contents
<1>2. Committed(job[q].txn)' = Committed(job[q].txn)
  BY DEF Committed, UserEdit
<1> QED
  BY <1>1, <1>2, ReachedFrame DEF UserEdit

\* Edits of a Deployment leave its commit pointer alone.
LEMMA MutationReached ==
    ASSUME Inv, Mutation, NEW q \in Procs, Reached(q), Held(q) PROVE Reached(q)'
<1>1. row \in [Deployments -> Rows] /\ TypeOK /\ Local(q)
  BY InvSplit DEF TypeOK
<1>2. UNCHANGED <<disk, journal, pc, job, io, past>>
  BY DEF Mutation, SoftDelete, UpdateInputs
<1>3. CASE pc[q] \in Working
  <2>1. journal[job[q].txn].dep \in Deployments
    BY <1>1, <1>3 DEF Working, Local, OwningPhases, WritePhases, RecoverPhases
  <2>2. \A e \in Deployments : row'[e].committed = row[e].committed
    <3>1. ASSUME NEW d \in Deployments, SoftDelete(d)
          PROVE  \A e \in Deployments : row'[e].committed = row[e].committed
      BY <1>1, <3>1 DEF SoftDelete, Rows
    <3>2. ASSUME NEW d \in Deployments, NEW i \in Inputs, UpdateInputs(d, i)
          PROVE  \A e \in Deployments : row'[e].committed = row[e].committed
      <4>1. [row[d] EXCEPT !.inputs = i, !.assets = @ \cup AssetsOf[i]].committed
              = row[d].committed
        BY <1>1 DEF Rows
      <4> QED
        BY <1>1, <3>2, <4>1 DEF UpdateInputs
    <3> QED
      BY <3>1, <3>2 DEF Mutation
  <2>3. Committed(job[q].txn)' = Committed(job[q].txn)
    BY <1>2, <2>1, <2>2 DEF Committed
  <2>4. \A x \in job[q].ent.paths : Spared(x)
    BY <1>2 DEF Spared
  <2> QED
    BY <1>2, <2>3, <2>4, ReachedFrame
<1>4. CASE pc[q] \notin Working
  BY <1>2, <1>4, NothingReached
<1> QED
  BY <1>3, <1>4

LEMMA ReachedStep == ASSUME Inv, InHand, AllReached, [Next]_vars PROVE AllReached'
<1>1. TypeOK
  BY DEF Inv
<1>2. CASE UNCHANGED vars
  <2>1. ASSUME NEW q \in Procs PROVE Reached(q)'
    <3>1. \A x \in job[q].ent.paths : Spared(x)
      BY <1>2 DEF vars, Spared
    <3>2. Committed(job[q].txn)' = Committed(job[q].txn)
      BY <1>2 DEF vars, Committed
    <3> QED
      BY <1>2, <3>1, <3>2, ReachedFrame DEF vars, AllReached, InHand
  <2> QED
    BY <2>1 DEF AllReached
<1>3. ASSUME NEW p \in Procs, Request(p) \/ Step(p) \/ Abandon(p), NEW q \in Procs
      PROVE  Reached(q)'
  BY <1>3, OwnReached, OthersReached DEF AllReached
<1>4. CASE Mutation
  BY <1>4, MutationReached DEF AllReached, InHand
<1>5. CASE Edit
  BY <1>1, <1>5, EditReached DEF Edit, AllReached, InHand
<1> QED
  BY <1>2, <1>3, <1>4, <1>5 DEF Next, AllReached

\* Every working process is as far with its entries as its phase says, whatever
\* the others and the user do meanwhile.
THEOREM FilesFollow == Spec => [](InHand /\ AllReached)
<1>1. Init => InHand /\ AllReached
  BY DEF Init, InHand, Held, Moving, AllReached, Reached, InTurn, InSight, Direction, Done,
         WritePhases
<1>2. Inv /\ InHand /\ AllReached /\ [Next]_vars => InHand' /\ AllReached'
  BY HandStep, ReachedStep DEF Inv
<1> QED
  BY <1>1, <1>2, Invariance, PTL DEF Spec
-----------------------------------------------------------------------------
(* All or nothing.                                                         *)

\* The condition of ResolutionIsAtomic.
Atomic ==
    \A t \in Txns : Active(t) /\ journal'[t].phase = "gone" =>
        \A x \in journal[t].ent.paths \ past.touched :
            IF Committed(t) THEN disk[x] = journal[t].ent.new[x]
                            ELSE disk[x] \in {past.start[x], journal[t].ent.old[x]}

LEMMA AtomicStep == ASSUME Inv, AllReached, [Next]_vars PROVE Atomic
<1> SUFFICES ASSUME NEW t \in Txns, Active(t), journal'[t].phase = "gone",
                    NEW x \in journal[t].ent.paths \ past.touched
             PROVE  IF Committed(t) THEN disk[x] = journal[t].ent.new[x]
                                    ELSE disk[x] \in {past.start[x], journal[t].ent.old[x]}
  BY DEF Atomic
<1>1. TypeOK
  BY DEF Inv
<1>2. journal' # journal
  BY DEF Active
<1>3. PICK p \in Procs : Request(p) \/ Step(p) \/ Abandon(p)
  BY <1>2 DEF Next, vars, Mutation, SoftDelete, UpdateInputs, Edit, UserEdit
<1>4. DeleteJournal(p)
  <2>1. ASSUME NEW u \in Txns, Publish(p, u) PROVE FALSE
    <3>1. journal'[t] = journal[t] \/ journal'[t].phase = "active"
      BY <1>1, <2>1 DEF Publish, TypeOK
    <3> QED
      BY <3>1 DEF Active
  <2> QED
    BY <1>2, <1>3, <2>1, JournalSteps
<1>5. t = job[p].txn /\ pc[p] \in {"finalizing", "undone", "resolving"}
  BY <1>1, <1>4 DEF DeleteJournal, TypeOK, Active
<1>6. journal[t].ent = job[p].ent
  BY <1>5, InvSplit DEF Local, WritePhases, RecoverPhases
<1>7. Done(p, x) /\ Direction(p)
  BY <1>6 DEF AllReached, Reached, Untouched
<1>8. CASE pc[p] = "finalizing"
  BY <1>5, <1>6, <1>7, <1>8 DEF Done, Direction
<1>9. CASE pc[p] = "undone"
  BY <1>5, <1>6, <1>7, <1>9 DEF Done, Direction, PutBack, WritePhases
<1>10. CASE pc[p] = "resolving"
  BY <1>5, <1>6, <1>7, <1>10 DEF Done, Side
<1> QED
  BY <1>5, <1>8, <1>9, <1>10

\* A journal is resolved all or nothing: when its marker goes, every path the
\* user left alone since the publication is new if the row committed the
\* transaction, and otherwise what it was or the state the journal restores,
\* whoever died and whoever finished it.
THEOREM ResolvesAllOrNothing == Spec => ResolutionIsAtomic
<1>1. Inv /\ AllReached /\ [Next]_vars => [Atomic]_vars
  BY AtomicStep
<1> QED
  BY <1>1, Invariance, FilesFollow, PTL DEF ResolutionIsAtomic, Atomic, Spec

-----------------------------------------------------------------------------
(* Compare and set.                                                        *)

\* The condition of ReplacesWhatItRead.
Replaced ==
    \A p \in Procs, x \in Paths :
        /\ pc[p] \in Moving /\ io[p].at = "write" /\ io[p].cur = x
        /\ edits' = edits /\ disk'[x] # disk[x]
        => /\ io[p].seen = From(p, x)
           /\ disk[x] = io[p].seen \/ (x \in past.touched /\ io[p].seen # Absent)

LEMMA ReplacedStep == ASSUME Inv, InHand, AllReached, [Next]_vars PROVE Replaced
<1> SUFFICES ASSUME NEW p \in Procs, NEW x \in Paths, pc[p] \in Moving, io[p].at = "write",
                    io[p].cur = x, edits' = edits, disk'[x] # disk[x]
             PROVE  /\ io[p].seen = From(p, x)
                    /\ disk[x] = io[p].seen \/ (x \in past.touched /\ io[p].seen # Absent)
  BY DEF Replaced
<1>1. TypeOK
  BY DEF Inv
<1>2. /\ io[p].seen = From(p, x)
      /\ x \in past.touched \/ disk[x] = io[p].seen
      /\ Want(p, x) = Absent => io[p].seen # Absent
  BY DEF AllReached, Reached, InSight
<1>3. PICK q \in Procs : Request(q) \/ Step(q) \/ Abandon(q)
  <2>1. ~Edit
    BY <1>1 DEF Edit, UserEdit, TypeOK, BoundsAssumption
  <2> QED
    BY <2>1 DEF Next, vars, Mutation, SoftDelete, UpdateInputs
<1>4. pc[q] \in Moving /\ io[q].at # "read" /\ x = io[q].cur
  BY <1>1, <1>3, DiskSteps
<1>5. q = p
  <2>1. x \in job[p].ent.paths /\ x \in job[q].ent.paths
    BY <1>4 DEF InHand, Held
  <2>2. pc[p] \in LeasedPhases /\ pc[q] \in LeasedPhases /\ Local(p) /\ Local(q)
    BY <1>4, InvSplit DEF Moving, LeasedPhases, OwningPhases, WritePhases
  <2> QED
    BY <1>1, <2>1, <2>2, LeasedApart
<1>6. DeleteFile(p) \/ WriteFile(p)
  <2>1. FileStep(p)
    <3>1. PrepareStep(p) => UNCHANGED disk
      BY DEF PrepareStep, AcquireKeys, CheckReservations, Prepare, Probe, Publish, Refuse
    <3>2. FinishStep(p) => UNCHANGED disk
      BY DEF FinishStep, FinishWriting, FinishUndoing, VerifyFile, FinishVerifying, Commit,
             DeleteJournal
    <3>3. RecoverStep(p) => UNCHANGED disk
      BY DEF RecoverStep, RecoverOwn, RecoverKeys, RecoverDecide, FinishRecovering
    <3>4. Request(p) \/ Abandon(p) => UNCHANGED disk
      BY DEF Request, BeginDeploy, RecoverRead, Abandon
    <3> QED
      BY <1>3, <1>5, <3>1, <3>2, <3>3, <3>4 DEF Step
  <2> QED
    BY <2>1 DEF FileStep, SkipFile, ReadFile, MeetThirdValue, ChmodFile, CheckFile
<1>7. disk[x] # Absent => io[p].seen # Absent
  BY <1>2, <1>6 DEF DeleteFile, WriteFile, CreateBlocked
<1> QED
  BY <1>2, <1>7

\* Whichever process writes or removes a target file, deploy, undo or recovery,
\* replaces what it read there, the side its journal comes from, unless the
\* user edited an existing file; where it read nothing it replaces nothing.
THEOREM WritesFollowReads == Spec => ReplacesWhatItRead
<1>1. Inv /\ InHand /\ AllReached /\ [Next]_vars => [Replaced]_vars
  BY ReplacedStep
<1> QED
  BY <1>1, Invariance, FilesFollow, PTL DEF ReplacesWhatItRead, Replaced, Spec
=============================================================================
