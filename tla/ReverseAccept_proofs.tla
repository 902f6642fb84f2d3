------------------------ MODULE ReverseAccept_proofs ------------------------
(* Proofs about ReverseAccept, for any operations, preparations, Assets and  *)
(* Deployments: its states are well typed, what is told and recorded of a    *)
(* commit is true, what is committed is what was reviewed, and a reservation *)
(* keeps edits and changes out.                                              *)
EXTENDS ReverseAccept, TLAPS

-----------------------------------------------------------------------------
(* The inductive invariant.                                                  *)
Unclaimed == {"none", "directory", "prepared", "cancelled", "expired"}
Settled == {"consumed", "failed", "recovery_required", "retired"}

\* Before its claim a preparation has left no trace outside its marker.
Untouched(i) ==
    /\ receipt[i] = None /\ marker[i].proof = "none" /\ told[i] \in {"nothing", "unknown"}
    /\ \A a \in Assets : i \notin manifest[a].versions
PrepFits(i) ==
    /\ \A a \in Assets : i \notin marker[i].old[a].versions
    /\ State(i) \in Unclaimed => Untouched(i)

\* A running commit: nobody else has changed what it was made for.
CommitFits(p) ==
    /\ State(Prep(p)) = IF At(p, "claim") THEN "prepared" ELSE "claimed"
    /\ marker[Prep(p)].proof = "none" /\ told[Prep(p)] \in {"nothing", "unknown"}
    /\ ~At(p, "consume") => row[DeploymentOf[Prep(p)]].inputs = marker[Prep(p)].inputs
    /\ IF job[p].at \in {"claim", "publish"} THEN ManifestsAreOld(Prep(p))
                                            ELSE ManifestsArePost(Prep(p))
    /\ At(p, "consume") <=> receipt[Prep(p)] # None
    /\ job[p].at \in {"select", "consume"} => Prep(p) \in payloads

\* A reconciliation: its verdict still holds.
ReconcileFits(p) ==
    /\ Active(Prep(p))
    /\ job[p].verdict # "none"
    /\ job[p].verdict = "committed" => Committed(Prep(p))
    /\ job[p].verdict = "pre_authority" => Unpublished(Prep(p))
    /\ job[p].verdict = "staged_manifest_published" => PublishedOnly(Prep(p))
CompletesCommit(p) == Committed(Prep(p)) /\ State(Prep(p)) \in Settled

Concerned == {"mark", "finalize"} \cup Committing \cup Reconciling
JobFits(p) ==
    /\ job[p].at \in Concerned => Prep(p) \in Preps
    /\ At(p, "mark") => State(Prep(p)) = "directory"
    /\ job[p].at \in Committing => job[p].seen \in Row /\ CommitFits(p)
    /\ job[p].at \in Reconciling => ReconcileFits(p)
    /\ At(p, "retire") => job[p].verdict # "contradiction"
    /\ At(p, "finalize") \/ job[p].completing => CompletesCommit(p)
    /\ job[p].completing => job[p].at \in Reconciling
    /\ At(p, "edit") => job[p].on \in Assets
    /\ job[p].at \in {"change", "lock", "observe", "record"} => job[p].on \in Deployments

\* No two operations hold a common lock.
Disjoint(p, q) ==
    /\ OperationLocks(job[p]) \cap OperationLocks(job[q]) = {}
    /\ AssetLocks(job[p]) \cap AssetLocks(job[q]) = {}

\* Who edits or changes stays out of every active reservation.
OutOf(p, i) ==
    Active(i) => /\ At(p, "edit") => job[p].on \notin AssetsOf[DeploymentOf[i]]
                 /\ At(p, "change") => AssetsOf[job[p].on] \cap AssetsOf[DeploymentOf[i]] = {}

Outcome(i) ==
    /\ told[i] \in {"pending", "committed"} \/ marker[i].proof = "committed" => Committed(i)
    /\ told[i] = "not_published" \/ marker[i].proof = "pre_authority" => Unpublished(i)
    /\ told[i] = "published_not_selected" \/ marker[i].proof = "staged_manifest_published"
          => PublishedOnly(i)
    /\ told[i] = "committed" => State(i) = "retired"

IInv ==
    /\ TypeOK
    /\ \A i \in Preps : PrepFits(i) /\ Outcome(i)
    /\ \A p \in Procs : JobFits(p)
    /\ \A p, q \in Procs : p # q => Disjoint(p, q)
    /\ \A p \in Procs, i \in Preps : OutOf(p, i)

-----------------------------------------------------------------------------
(* Frames: what a step of one operation leaves alone for another.            *)

\* What operation p relies on is as before.
Spared(p) ==
    LET i == Prep(p) IN
    /\ job[p].at \in {"mark"} \cup Committing \cup Reconciling =>
          marker'[i] = marker[i] /\ receipt'[i] = receipt[i]
    /\ job[p].at \in Committing =>
          told'[i] = told[i] /\ row'[DeploymentOf[i]].inputs = row[DeploymentOf[i]].inputs
    /\ job[p].at \in Committing \cup Reconciling =>
          \A a \in AssetsOf[DeploymentOf[i]] : manifest'[a] = manifest[a]
    /\ At(p, "finalize") => marker'[i].state \in Settled /\ receipt'[i] # None
                            /\ i \in manifest'[AssetOf[i]].versions
    /\ payloads \subseteq payloads'

\* The same manifests are still the old ones, or still those of the publication.
LEMMA SameManifests ==
    ASSUME NEW i \in Preps, marker'[i] = marker[i],
           \A a \in AssetsOf[DeploymentOf[i]] : manifest'[a] = manifest[a]
    PROVE  /\ ManifestsAreOld(i) => ManifestsAreOld(i)'
           /\ ManifestsArePost(i) => ManifestsArePost(i)'
BY DEF ManifestsAreOld, ManifestsArePost, Extended

\* Such an operation still fits.
LEMMA Undisturbed ==
    ASSUME IInv, NEW p \in Procs, job'[p] = job[p], Spared(p)
    PROVE  JobFits(p)'
<1> DEFINE i == Prep(p)
<1>1. JobFits(p) /\ job[p] \in Job BY DEF IInv, TypeOK
<1>2. CASE job[p].at \in Committing
  <2>1. i \in Preps BY <1>1, <1>2 DEF JobFits, Concerned
  <2>2. CommitFits(p) BY <1>1, <1>2 DEF JobFits
  <2>3. /\ marker'[i] = marker[i] /\ receipt'[i] = receipt[i] /\ told'[i] = told[i]
        /\ row'[DeploymentOf[i]].inputs = row[DeploymentOf[i]].inputs
        /\ \A a \in AssetsOf[DeploymentOf[i]] : manifest'[a] = manifest[a]
        /\ payloads \subseteq payloads'
    BY <1>2 DEF Spared
  <2>4. AssetOf[i] \in AssetsOf[DeploymentOf[i]] BY <2>1, AcceptAssumption
  <2>5. PICK j \in Preps : j = Prep(p) /\ j = Prep(p)' BY <2>1 DEF Prep
  <2>6. /\ ManifestsAreOld(j) => ManifestsAreOld(j)'
        /\ ManifestsArePost(j) => ManifestsArePost(j)'
    BY <2>3, <2>5, SameManifests
  <2>7. CommitFits(p)' BY <2>2, <2>3, <2>5, <2>6 DEF CommitFits, State, At
  <2> QED BY <1>1, <1>2, <2>1, <2>7 DEF JobFits, Concerned, Committing, Reconciling, At, Prep
<1>3. CASE job[p].at \in Reconciling
  <2>1. i \in Preps BY <1>1, <1>3 DEF JobFits, Concerned
  <2>2. ReconcileFits(p) /\ (job[p].completing => CompletesCommit(p)) BY <1>1, <1>3 DEF JobFits
  <2>3. /\ marker'[i] = marker[i] /\ receipt'[i] = receipt[i]
        /\ \A a \in AssetsOf[DeploymentOf[i]] : manifest'[a] = manifest[a]
        /\ payloads \subseteq payloads'
    BY <1>3 DEF Spared
  <2>4. manifest'[AssetOf[i]] = manifest[AssetOf[i]] BY <2>1, <2>3, AcceptAssumption
  <2>5. ReconcileFits(p)' /\ (job[p].completing => CompletesCommit(p)')
    BY <2>2, <2>3, <2>4
    DEF ReconcileFits, CompletesCommit, Committed, Unpublished, PublishedOnly, Active, State, Prep
  <2> QED BY <1>1, <1>3, <2>1, <2>5 DEF JobFits, Concerned, Committing, Reconciling, At, Prep
<1>4. CASE At(p, "finalize")
  <2>1. i \in payloads /\ ~job[p].completing /\ i \in Preps
    BY <1>1, <1>4 DEF JobFits, CompletesCommit, Committed, At, Reconciling, Concerned
  <2>2. CompletesCommit(p)' BY <1>4, <2>1 DEF Spared, CompletesCommit, Committed, Prep, State
  <2> QED BY <1>1, <1>4, <2>1, <2>2 DEF JobFits, Concerned, Committing, Reconciling, At, Prep
<1>5. CASE job[p].at \notin Committing \cup Reconciling \cup {"finalize"}
  <2>1. At(p, "mark") => marker'[i] = marker[i] BY DEF Spared, At
  <2> QED BY <1>1, <1>5, <2>1 DEF JobFits, Concerned, Committing, Reconciling, At, Prep, State
<1> QED BY <1>2, <1>3, <1>4, <1>5 DEF At

Holding == {"mark"} \cup Committing \cup Reconciling

\* The locks of one that holds some for its preparation.
LEMMA Locks ==
    ASSUME NEW j, j.at \in Holding
    PROVE  /\ OperationLocks(j) = {DeploymentOf[j.prep]}
           /\ j.at # "mark" => AssetLocks(j) = AssetsOf[DeploymentOf[j.prep]]
BY DEF Holding, OperationLocks, AssetLocks

LEMMA HoldersDiffer ==
    ASSUME IInv, NEW p \in Procs, NEW q \in Procs, p # q,
           job[p].at \in Holding, job[q].at \in Holding
    PROVE  DeploymentOf[Prep(p)] # DeploymentOf[Prep(q)]
BY Locks DEF IInv, Disjoint, Prep

\* What remains to show of a step of q, whatever it is.
LEMMA Framework ==
    ASSUME IInv, TypeOK', NEW q \in Procs,
           \A p \in Procs : p # q => job'[p] = job[p] /\ Spared(p) /\ Disjoint(p, q)',
           \A i \in Preps : PrepFits(i)' /\ Outcome(i)' /\ OutOf(q, i)',
           \A p \in Procs, i \in Preps : p # q /\ Active(i)' /\ ~Active(i) => OutOf(p, i)',
           JobFits(q)'
    PROVE  IInv'
<1>1. \A p \in Procs : JobFits(p)'
  <2> TAKE p \in Procs
  <2> QED BY Undisturbed
<1>2. \A p, r \in Procs : p # r => Disjoint(p, r)'
  <2> TAKE p, r \in Procs
  <2>1. CASE p # q /\ r # q
    <3>1. p # r => Disjoint(p, r) BY DEF IInv
    <3> QED BY <2>1, <3>1 DEF Disjoint, OperationLocks, AssetLocks
  <2>2. CASE p = q \/ r = q BY <2>2 DEF Disjoint
  <2> QED BY <2>1, <2>2
<1>3. \A p \in Procs, i \in Preps : OutOf(p, i)'
  <2> TAKE p \in Procs, i \in Preps
  <2>1. CASE p # q /\ Active(i)
    <3>1. OutOf(p, i) BY DEF IInv
    <3> QED BY <2>1, <3>1 DEF OutOf, At
  <2>2. CASE p = q BY <2>2
  <2>3. CASE p # q /\ ~Active(i) BY <2>3 DEF OutOf
  <2> QED BY <2>1, <2>2, <2>3
<1> QED BY <1>1, <1>2, <1>3 DEF IInv

\* A step that keeps to the locks it had.
KeepsLocks(q) ==
    /\ OperationLocks(job'[q]) \subseteq OperationLocks(job[q])
    /\ AssetLocks(job'[q]) \subseteq AssetLocks(job[q])

LEMMA LocksKept ==
    ASSUME IInv, NEW p \in Procs, NEW q \in Procs, p # q, job'[p] = job[p], KeepsLocks(q)
    PROVE  Disjoint(p, q)'
<1>1. Disjoint(p, q) BY DEF IInv
<1>2. /\ OperationLocks(job[p])' = OperationLocks(job[p]) /\ AssetLocks(job[p])' = AssetLocks(job[p])
      /\ OperationLocks(job[q])' = OperationLocks(job'[q]) /\ AssetLocks(job[q])' = AssetLocks(job'[q])
  BY DEF OperationLocks, AssetLocks
<1> QED BY <1>1, <1>2 DEF Disjoint, KeepsLocks

\* A step that changes nothing but what q does.
LEMMA OnlyJob ==
    ASSUME IInv, TypeOK', NEW q \in Procs,
           \A p \in Procs : p # q => job'[p] = job[p] /\ Disjoint(p, q)',
           UNCHANGED <<marker, stores, told>>,
           \A i \in Preps : OutOf(q, i)',
           JobFits(q)'
    PROVE  IInv'
<1>1. \A p \in Procs : p # q => Spared(p)
  <2> SUFFICES ASSUME NEW p \in Procs, p # q PROVE Spared(p) OBVIOUS
  <2>1. At(p, "finalize") => CompletesCommit(p) BY DEF IInv, JobFits
  <2> QED BY <2>1 DEF Spared, stores, CompletesCommit, Committed, State
<1>2. \A i \in Preps : PrepFits(i)' /\ Outcome(i)' /\ (Active(i)' = Active(i))
  <2> TAKE i \in Preps
  <2>1. PrepFits(i) /\ Outcome(i) BY DEF IInv
  <2> QED BY <2>1 DEF PrepFits, Untouched, Outcome, Committed, Unpublished, PublishedOnly, State,
                      Active, stores
<1> QED BY <1>1, <1>2, Framework

\* A step of one that holds the locks of its preparation, on its marker.
LEMMA OnMarker ==
    ASSUME IInv, TypeOK', NEW q \in Procs, NEW j \in Preps, j = Prep(q), job[q].at \in Holding,
           \A p \in Procs : p # q => job'[p] = job[p],
           \A i \in Preps : i # j => marker'[i] = marker[i] /\ told'[i] = told[i],
           UNCHANGED stores, KeepsLocks(q), job'[q].at \notin {"edit", "change"},
           marker'[j].state \in Unclaimed \/ job[q].at # "mark",
           marker[j].state \in Settled => marker'[j].state \in Settled,
           PrepFits(j)', Outcome(j)', JobFits(q)'
    PROVE  IInv'
<1>1. \A p \in Procs : p # q => Spared(p)
  <2> SUFFICES ASSUME NEW p \in Procs, p # q PROVE Spared(p) OBVIOUS
  <2>1. JobFits(p) BY DEF IInv
  <2>2. job[p].at \in Holding => Prep(p) \in Preps /\ Prep(p) # j
    BY <2>1, HoldersDiffer DEF JobFits, Concerned, Holding
  <2>3. At(p, "finalize") => CompletesCommit(p) /\ Prep(p) \in Preps
    BY <2>1 DEF JobFits, Concerned, At
  <2>4. At(p, "finalize") => marker'[Prep(p)].state \in Settled
    BY <2>3 DEF CompletesCommit, State
  <2> QED BY <2>2, <2>3, <2>4 DEF Spared, Holding, stores, CompletesCommit, Committed
<1>2. \A p \in Procs : p # q => Disjoint(p, q)' BY LocksKept
<1>3. \A i \in Preps : PrepFits(i)' /\ Outcome(i)'
  <2> SUFFICES ASSUME NEW i \in Preps, i # j PROVE PrepFits(i)' /\ Outcome(i)' OBVIOUS
  <2>1. PrepFits(i) /\ Outcome(i) BY DEF IInv
  <2> QED BY <2>1 DEF PrepFits, Untouched, Outcome, Committed, Unpublished, PublishedOnly, State, stores
<1>4. \A i \in Preps : OutOf(q, i)' BY DEF OutOf, At
<1>5. \A p \in Procs, i \in Preps : p # q /\ Active(i)' /\ ~Active(i) => OutOf(p, i)'
  <2> SUFFICES ASSUME NEW p \in Procs, p # q, Active(j)' PROVE OutOf(p, j)'
    BY DEF Active, State
  <2>1. job[q].at \in Committing \cup Reconciling BY DEF Active, State, Unclaimed, Holding
  <2>2. AssetLocks(job[q]) = AssetsOf[DeploymentOf[j]] BY <2>1, Locks DEF Prep, Holding, Committing, Reconciling
  <2>3. AssetLocks(job[p]) \cap AssetsOf[DeploymentOf[j]] = {} BY <2>2 DEF IInv, Disjoint
  <2>4. /\ At(p, "edit") => AssetLocks(job[p]) = {job[p].on}
        /\ At(p, "change") => AssetLocks(job[p]) = AssetsOf[job[p].on]
    BY DEF AssetLocks, At, Committing, Reconciling
  <2> QED BY <2>3, <2>4 DEF OutOf, At
<1> QED BY <1>1, <1>2, <1>3, <1>4, <1>5, Framework

-----------------------------------------------------------------------------
(* What the parts of an action do.                                           *)
LEMMA Moved ==
    ASSUME TypeOK, NEW p \in Procs, NEW stage \in Stages, Goto(p, stage)
    PROVE  /\ job' \in [Procs -> Job]
           /\ \A q \in Procs : q # p => job'[q] = job[q]
           /\ job'[p] = [job[p] EXCEPT !.at = stage]
           /\ job'[p].at = stage /\ job'[p].prep = job[p].prep /\ job'[p].on = job[p].on
           /\ job'[p].seen = job[p].seen /\ job'[p].verdict = job[p].verdict
           /\ job'[p].left = job[p].left /\ job'[p].completing = job[p].completing
<1>1. job \in [Procs -> Job] /\ job[p] \in Job BY DEF TypeOK
<1>2. job'[p] = [job[p] EXCEPT !.at = stage] /\ \A q \in Procs : q # p => job'[q] = job[q]
  BY <1>1 DEF Goto
<1>3. [job[p] EXCEPT !.at = stage] \in Job BY <1>1 DEF Job
<1>4. job' \in [Procs -> Job] BY <1>1, <1>2, <1>3 DEF Goto
<1> QED BY <1>1, <1>2, <1>4 DEF Job

LEMMA IdleType == Idle \in Job
BY DEF Idle, Job, Stages, Verdicts

LEMMA Finished ==
    ASSUME TypeOK, NEW p \in Procs, Finish(p)
    PROVE  /\ job' \in [Procs -> Job]
           /\ \A q \in Procs : q # p => job'[q] = job[q]
           /\ job'[p] = Idle
BY IdleType DEF TypeOK, Finish

LEMMA StateSet ==
    ASSUME TypeOK, NEW i \in Preps, NEW state \in States, SetState(i, state)
    PROVE  /\ marker' \in [Preps -> Marker]
           /\ \A k \in Preps : k # i => marker'[k] = marker[k]
           /\ marker'[i].state = state /\ marker'[i].old = marker[i].old
           /\ marker'[i].inputs = marker[i].inputs /\ marker'[i].pre = marker[i].pre
           /\ marker'[i].proof = marker[i].proof
<1>1. marker \in [Preps -> Marker] /\ marker[i] \in Marker BY DEF TypeOK
<1>2. marker'[i] = [marker[i] EXCEPT !.state = state]
      /\ \A k \in Preps : k # i => marker'[k] = marker[k]
  BY <1>1 DEF SetState
<1>3. [marker[i] EXCEPT !.state = state] \in Marker BY <1>1 DEF Marker
<1>4. marker' \in [Preps -> Marker] BY <1>1, <1>2, <1>3 DEF SetState
<1> QED BY <1>1, <1>2, <1>4 DEF Marker

LEMMA Resolved ==
    ASSUME TypeOK, NEW i \in Preps, NEW state \in States, NEW proof \in Proofs,
           Resolve(i, state, proof)
    PROVE  /\ marker' \in [Preps -> Marker]
           /\ \A k \in Preps : k # i => marker'[k] = marker[k]
           /\ marker'[i].state = state /\ marker'[i].old = marker[i].old
           /\ marker'[i].inputs = marker[i].inputs /\ marker'[i].pre = marker[i].pre
           /\ marker'[i].proof = proof
<1>1. marker \in [Preps -> Marker] /\ marker[i] \in Marker BY DEF TypeOK
<1>2. marker'[i] = [marker[i] EXCEPT !.state = state, !.proof = proof]
      /\ \A k \in Preps : k # i => marker'[k] = marker[k]
  BY <1>1 DEF Resolve
<1>3. [marker[i] EXCEPT !.state = state, !.proof = proof] \in Marker BY <1>1 DEF Marker
<1>4. marker' \in [Preps -> Marker] BY <1>1, <1>2, <1>3 DEF Resolve
<1> QED BY <1>1, <1>2, <1>4 DEF Marker

LEMMA Told ==
    ASSUME TypeOK, NEW i \in Preps, NEW answer \in Answers, Tell(i, answer)
    PROVE  /\ told' \in [Preps -> Answers] /\ told'[i] = answer
           /\ \A k \in Preps : k # i => told'[k] = told[k]
BY DEF TypeOK, Tell

LEMMA Troubled == ASSUME TypeOK, Trouble PROVE troubles' \in 0 .. MaxTroubles
BY AcceptAssumption DEF TypeOK, Trouble

\* One that does nothing has nothing to fit, and holds no lock.
LEMMA IdleFits ==
    ASSUME NEW p \in Procs, job'[p] = Idle
    PROVE  JobFits(p)' /\ KeepsLocks(p) /\ \A i \in Preps : OutOf(p, i)'
<1>1. job'[p].at = "idle" /\ job'[p].completing = FALSE BY DEF Idle
<1>2. JobFits(p)' BY <1>1 DEF JobFits, Concerned, Committing, Reconciling, At
<1>3. KeepsLocks(p) BY <1>1 DEF KeepsLocks, OperationLocks, AssetLocks, Committing, Reconciling
<1>4. \A i \in Preps : OutOf(p, i)' BY <1>1 DEF OutOf, At
<1> QED BY <1>2, <1>3, <1>4

\* The preparation of one that holds its locks.
LEMMA Its ==
    ASSUME IInv, NEW p \in Procs, job[p].at \in Holding \cup {"finalize"}
    PROVE  /\ Prep(p) \in Preps /\ PrepFits(Prep(p)) /\ Outcome(Prep(p)) /\ JobFits(p)
           /\ AssetOf[Prep(p)] \in AssetsOf[DeploymentOf[Prep(p)]]
           /\ AssetsOf[DeploymentOf[Prep(p)]] \subseteq Assets
           /\ DeploymentOf[Prep(p)] \in Deployments
           /\ job[p] \in Job
<1>1. JobFits(p) /\ Prep(p) \in Preps BY DEF IInv, JobFits, Concerned, Holding
<1> QED BY <1>1, AcceptAssumption DEF IInv, TypeOK

-----------------------------------------------------------------------------
(* The steps on a marker, by who holds the locks of its preparation.         *)

LEMMA PublishMarkerKeeps ==
    ASSUME IInv, NEW p \in Procs, PublishMarker(p)
    PROVE  IInv'
<1>1. TypeOK /\ At(p, "mark") BY DEF IInv, PublishMarker
<1>2. PICK j \in Preps : j = Prep(p) BY <1>1, Its DEF Holding, At
<1>3. PrepFits(j) /\ Outcome(j) /\ State(j) = "directory"
  BY <1>1, <1>2, Its DEF Holding, At, JobFits
<1> DEFINE m == [marker[j] EXCEPT !.state = "prepared", !.old = manifest,
                                  !.inputs = row[DeploymentOf[j]].inputs]
<1>4. marker' = [marker EXCEPT ![j] = m] /\ marker \in [Preps -> Marker]
  BY <1>1, <1>2 DEF PublishMarker, TypeOK
<1>5. row[DeploymentOf[j]] \in Row /\ manifest \in [Assets -> Manifest] /\ marker[j] \in Marker
  BY <1>1, <1>2, AcceptAssumption DEF TypeOK
<1>6. row[DeploymentOf[j]].inputs \in Nat BY <1>5 DEF Row
<1>7. m \in Marker BY <1>5, <1>6 DEF Marker, States
<1>8. /\ marker'[j] = m /\ m.state = "prepared" /\ m.old = manifest /\ m.proof = marker[j].proof
      /\ \A i \in Preps : i # j => marker'[i] = marker[i]
  BY <1>4, <1>5 DEF Marker
<1>14. marker' \in [Preps -> Marker] /\ UNCHANGED <<stores, told, troubles>>
  BY <1>4, <1>7 DEF PublishMarker
<1> HIDE DEF m
<1>9. /\ job' \in [Procs -> Job] /\ job'[p] = Idle
      /\ \A q \in Procs : q # p => job'[q] = job[q]
  BY <1>1, Finished DEF PublishMarker
<1>10. TypeOK' BY <1>1, <1>9, <1>14 DEF TypeOK, stores
<1>11. PrepFits(j)' /\ Outcome(j)'
  BY <1>3, <1>8 DEF PrepFits, Outcome, Untouched, Unclaimed, State, PublishMarker, stores,
                    Committed, Unpublished, PublishedOnly
<1>12. JobFits(p)' /\ KeepsLocks(p) BY <1>9, IdleFits
<1>15. marker'[j].state = "prepared" BY <1>8
<1>16. job'[p].at = "idle" BY <1>9 DEF Idle
<1>13. job[p].at \in Holding /\ marker[j].state = "directory" BY <1>1, <1>3 DEF Holding, At, State
<1> QED BY <1>2, <1>8, <1>9, <1>10, <1>11, <1>12, <1>13, <1>14, <1>15,
        <1>16, OnMarker DEF Unclaimed, Settled

LEMMA ClaimKeeps ==
    ASSUME IInv, NEW p \in Procs, Claim(p)
    PROVE  IInv'
<1>1. TypeOK /\ At(p, "claim") /\ job[p].at \in Holding BY DEF IInv, Claim, Holding, Committing, At
<1>2. PICK j \in Preps : j = Prep(p) BY <1>1, Its
<1>3. PrepFits(j) /\ Outcome(j) /\ CommitFits(p) /\ job[p] \in Job /\ job[p].seen \in Row
  BY <1>1, <1>2, Its DEF At, JobFits, Committing, Concerned
<1> DEFINE m == [marker[j] EXCEPT !.state = "claimed", !.pre = job[p].seen]
<1>4. marker' = [marker EXCEPT ![j] = m] /\ marker \in [Preps -> Marker] /\ marker[j] \in Marker
  BY <1>1, <1>2 DEF Claim, TypeOK
<1>5. m \in Marker BY <1>3, <1>4 DEF Marker, States
<1>6. /\ marker'[j] = m /\ m.state = "claimed" /\ m.old = marker[j].old
      /\ m.proof = marker[j].proof /\ m.inputs = marker[j].inputs
      /\ \A i \in Preps : i # j => marker'[i] = marker[i]
  BY <1>4 DEF Marker
<1>17. marker' \in [Preps -> Marker] /\ UNCHANGED <<stores, told, troubles>> BY <1>4, <1>5 DEF Claim
<1> HIDE DEF m
<1>7. Goto(p, "publish") /\ "publish" \in Stages BY DEF Claim, Stages, Committing
<1>8. /\ job' \in [Procs -> Job] /\ \A q \in Procs : q # p => job'[q] = job[q]
      /\ job'[p].at = "publish" /\ job'[p].prep = j /\ job'[p].seen = job[p].seen
      /\ job'[p].completing = job[p].completing
  BY <1>1, <1>2, <1>7, Moved DEF Prep
<1>9. TypeOK' BY <1>1, <1>8, <1>17 DEF TypeOK, stores
<1>16. marker[j].state = "prepared" BY <1>1, <1>2, <1>3 DEF CommitFits, State, At
<1>10. PrepFits(j)' /\ Outcome(j)'
  BY <1>3, <1>6, <1>16 DEF PrepFits, Outcome, Unclaimed, State, Claim, stores,
                    Committed, Unpublished, PublishedOnly
<1>11. ManifestsAreOld(j)'
  <2>1. ManifestsAreOld(j) BY <1>1, <1>2, <1>3 DEF CommitFits, At
  <2> QED BY <2>1, <1>6 DEF ManifestsAreOld, Claim, stores
<1>12. CommitFits(p)'
  <2>1. receipt[j] = None /\ row[DeploymentOf[j]].inputs = marker[j].inputs
        /\ marker[j].proof = "none" /\ told[j] \in {"nothing", "unknown"}
    BY <1>1, <1>2, <1>3 DEF CommitFits, At
  <2>2. /\ receipt'[j] = None /\ row'[DeploymentOf[j]].inputs = marker'[j].inputs
        /\ marker'[j].proof = "none" /\ told'[j] \in {"nothing", "unknown"}
        /\ marker'[j].state = "claimed"
    BY <2>1, <1>6 DEF Claim, stores
  <2>3. Prep(p)' = j BY <1>8 DEF Prep
  <2> QED BY <2>2, <2>3, <1>8, <1>11 DEF CommitFits, At, State
<1>13. ~job[p].completing BY <1>1, Its DEF JobFits, At, Reconciling
<1>14. JobFits(p)'
  BY <1>3, <1>8, <1>12, <1>13 DEF JobFits, At, Prep, Concerned, Committing, Reconciling
<1>15. KeepsLocks(p)
  BY <1>1, <1>2, <1>8 DEF KeepsLocks, OperationLocks, AssetLocks, Committing, Reconciling, At, Prep
<1> QED BY <1>1, <1>2, <1>6, <1>8, <1>9, <1>10, <1>14, <1>15, <1>16, <1>17, OnMarker
        DEF Settled, At

LEMMA RefuseRowKeeps ==
    ASSUME IInv, NEW p \in Procs, RefuseRow(p)
    PROVE  IInv'
<1>1. TypeOK /\ At(p, "select") /\ job[p].at \in Holding
  BY DEF IInv, RefuseRow, Holding, Committing, At
<1>2. PICK j \in Preps : j = Prep(p) BY <1>1, Its
<1>3. PrepFits(j) /\ Outcome(j) /\ CommitFits(p)
  BY <1>1, <1>2, Its DEF At, JobFits, Committing, Concerned
<1>4. /\ told' \in [Preps -> Answers] /\ told'[j] = "unknown"
      /\ \A i \in Preps : i # j => told'[i] = told[i]
  BY <1>1, <1>2, Told DEF RefuseRow, Answers
<1>5. /\ job' \in [Procs -> Job] /\ job'[p] = Idle
      /\ \A q \in Procs : q # p => job'[q] = job[q]
  BY <1>1, Finished DEF RefuseRow
<1>6. TypeOK' BY <1>1, <1>4, <1>5 DEF TypeOK, RefuseRow, stores
<1>7. PrepFits(j)' /\ Outcome(j)'
  BY <1>3, <1>4 DEF PrepFits, Outcome, Untouched, State, RefuseRow, stores,
                    Committed, Unpublished, PublishedOnly
<1>8. JobFits(p)' /\ KeepsLocks(p) BY <1>5, IdleFits
<1> QED BY <1>1, <1>2, <1>4, <1>5, <1>6, <1>7, <1>8, OnMarker DEF RefuseRow, Idle, At

LEMMA ConsumeKeeps ==
    ASSUME IInv, NEW p \in Procs, Consume(p)
    PROVE  IInv'
<1>1. TypeOK /\ At(p, "consume") /\ job[p].at \in Holding
  BY DEF IInv, Consume, Holding, Committing, At
<1>2. PICK j \in Preps : j = Prep(p) BY <1>1, Its
<1>3. PrepFits(j) /\ Outcome(j) /\ CommitFits(p) /\ job[p] \in Job
      /\ AssetOf[j] \in AssetsOf[DeploymentOf[j]] /\ AssetOf[j] \in Assets
  BY <1>1, <1>2, Its DEF At, JobFits, Committing, Concerned
<1>4. /\ marker' \in [Preps -> Marker] /\ \A i \in Preps : i # j => marker'[i] = marker[i]
      /\ marker'[j].state = "consumed" /\ marker'[j].old = marker[j].old
      /\ marker'[j].proof = "committed"
  BY <1>1, <1>2, Resolved DEF Consume, States, Proofs
<1>5. Goto(p, "finalize") /\ "finalize" \in Stages BY DEF Consume, Stages
<1>6. /\ job' \in [Procs -> Job] /\ \A q \in Procs : q # p => job'[q] = job[q]
      /\ job'[p].at = "finalize" /\ job'[p].prep = j /\ job'[p].completing = job[p].completing
  BY <1>1, <1>2, <1>5, Moved DEF Prep
<1>7. TypeOK' BY <1>1, <1>4, <1>6 DEF TypeOK, Consume, stores
<1>8. Committed(j)
  <2>1. receipt[j] # None /\ j \in payloads /\ ManifestsArePost(j)
    BY <1>1, <1>2, <1>3 DEF CommitFits, At
  <2>2. manifest[AssetOf[j]] = Extended(marker[j].old[AssetOf[j]], j)
    BY <1>3, <2>1 DEF ManifestsArePost
  <2>3. marker[j].old[AssetOf[j]] \in Manifest BY <1>1, <1>3 DEF TypeOK, Marker
  <2>4. j \in manifest[AssetOf[j]].versions BY <2>2, <2>3 DEF Extended, Manifest
  <2> QED BY <2>1, <2>4 DEF Committed
<1>9. told[j] \in {"nothing", "unknown"} BY <1>2, <1>3 DEF CommitFits
<1>10. PrepFits(j)' /\ Outcome(j)'
  BY <1>3, <1>4, <1>8, <1>9 DEF PrepFits, Outcome, Unclaimed, State, Consume, stores, Committed
<1>11. CompletesCommit(p)'
  BY <1>4, <1>6, <1>8 DEF CompletesCommit, Committed, State, Prep, Consume, stores, Settled
<1>12. ~job[p].completing BY <1>1, Its DEF JobFits, At, Reconciling
<1>13. JobFits(p)'
  BY <1>6, <1>11, <1>12 DEF JobFits, At, Prep, Concerned, Committing, Reconciling
<1>14. KeepsLocks(p) BY <1>6 DEF KeepsLocks, OperationLocks, AssetLocks, Committing, Reconciling
<1> QED BY <1>1, <1>2, <1>4, <1>6, <1>7, <1>10, <1>13, <1>14, OnMarker
        DEF Consume, Settled, At

\* A publication whose manifests are still the old ones never was, and one
\* whose manifests are the new ones was.
LEMMA OldOrPost ==
    ASSUME IInv, NEW i \in Preps
    PROVE  /\ ManifestsAreOld(i) => i \notin manifest[AssetOf[i]].versions
           /\ ManifestsArePost(i) => i \in manifest[AssetOf[i]].versions
<1>1. AssetOf[i] \in AssetsOf[DeploymentOf[i]] /\ AssetOf[i] \in Assets BY AcceptAssumption
<1>2. marker[i].old[AssetOf[i]] \in Manifest BY <1>1 DEF IInv, TypeOK, Marker
<1>3. i \notin marker[i].old[AssetOf[i]].versions BY <1>1 DEF IInv, PrepFits
<1>4. ManifestsAreOld(i) => i \notin manifest[AssetOf[i]].versions
  BY <1>1, <1>3 DEF ManifestsAreOld
<1>5. ASSUME ManifestsArePost(i) PROVE i \in manifest[AssetOf[i]].versions
  <2>1. manifest[AssetOf[i]] = Extended(marker[i].old[AssetOf[i]], i)
    BY <1>1, <1>5 DEF ManifestsArePost
  <2> QED BY <1>2, <2>1 DEF Extended, Manifest
<1> QED BY <1>4, <1>5

LEMMA FailCommitKeeps ==
    ASSUME IInv, NEW p \in Procs, FailCommit(p)
    PROVE  IInv'
<1>1. TypeOK /\ job[p].at \in Committing /\ job[p].at \in Holding
  BY DEF IInv, FailCommit, Holding, Committing
<1>2. PICK j \in Preps : j = Prep(p) BY <1>1, Its
<1>3. PrepFits(j) /\ Outcome(j) /\ CommitFits(p)
  BY <1>1, <1>2, Its DEF JobFits
<1>4. /\ job' \in [Procs -> Job] /\ job'[p] = Idle
      /\ \A q \in Procs : q # p => job'[q] = job[q]
  BY <1>1, Finished DEF FailCommit
<1>5. UNCHANGED stores /\ troubles' \in 0 .. MaxTroubles BY <1>1, Troubled DEF FailCommit
<1>6. JobFits(p)' /\ KeepsLocks(p) BY <1>4, IdleFits
<1>7. marker[j].state \in {"prepared", "claimed"} BY <1>2, <1>3 DEF CommitFits, State
<1>8. job'[p].at = "idle" BY <1>4 DEF Idle
<1>9. CASE Tell(j, "unknown") /\ UNCHANGED marker
  <2>1. /\ told' \in [Preps -> Answers] /\ told'[j] = "unknown"
        /\ \A i \in Preps : i # j => told'[i] = told[i]
    BY <1>1, <1>9, Told DEF Answers
  <2>2. TypeOK' BY <1>1, <1>4, <1>5, <1>9, <2>1 DEF TypeOK, stores
  <2>3. PrepFits(j)' /\ Outcome(j)'
    BY <1>3, <1>5, <1>9, <2>1 DEF PrepFits, Outcome, Untouched, State, stores,
                      Committed, Unpublished, PublishedOnly
  <2> QED BY <1>1, <1>2, <1>4, <1>5, <1>6, <1>7, <1>8, <1>9, <2>1, <2>2, <2>3, OnMarker
          DEF Committing
<1>10. ASSUME NEW proof \in Proofs, NEW answer \in Answers,
              Resolve(j, "failed", proof), Tell(j, answer), receipt[j] = None,
              \/ proof = "pre_authority" /\ answer = "not_published" /\ ManifestsAreOld(j)
              \/ proof = "staged_manifest_published" /\ answer = "published_not_selected"
                   /\ ManifestsArePost(j)
       PROVE  IInv'
  <2>1. /\ told' \in [Preps -> Answers] /\ told'[j] = answer
        /\ \A i \in Preps : i # j => told'[i] = told[i]
    BY <1>1, <1>10, Told
  <2>2. /\ marker' \in [Preps -> Marker] /\ marker'[j].state = "failed"
        /\ marker'[j].old = marker[j].old /\ marker'[j].proof = proof
        /\ \A i \in Preps : i # j => marker'[i] = marker[i]
    BY <1>1, <1>10, Resolved DEF States
  <2>3. TypeOK' BY <1>1, <1>4, <1>5, <2>1, <2>2 DEF TypeOK, stores
  <2>4. /\ proof = "pre_authority" => Unpublished(j)
        /\ proof = "staged_manifest_published" => PublishedOnly(j)
    BY <1>10, OldOrPost DEF Unpublished, PublishedOnly
  <2>5. Unpublished(j)' = Unpublished(j) /\ PublishedOnly(j)' = PublishedOnly(j)
    BY <1>5 DEF stores, Unpublished, PublishedOnly
  <2>6. PrepFits(j)' BY <1>3, <2>2 DEF PrepFits, State, Unclaimed
  <2>7. Outcome(j)' BY <1>10, <2>1, <2>2, <2>4, <2>5 DEF Outcome
  <2> QED BY <1>1, <1>2, <1>4, <1>5, <1>6, <1>8, <2>1, <2>2, <2>3, <2>6, <2>7, OnMarker
          DEF Settled, Committing
<1> QED BY <1>2, <1>9, <1>10 DEF FailCommit, Proofs, Answers

\* A reconciliation and its verdict.
LEMMA Reconciles ==
    ASSUME IInv, NEW p \in Procs, job[p].at \in Reconciling
    PROVE  /\ Prep(p) \in Preps /\ PrepFits(Prep(p)) /\ Outcome(Prep(p)) /\ ReconcileFits(p)
           /\ marker[Prep(p)].state \in {"claimed", "consumed", "failed", "recovery_required"}
           /\ job[p].completing => Committed(Prep(p)) /\ marker[Prep(p)].state \in Settled
           /\ job[p].verdict \in Verdicts \ {"none"}
           /\ job[p].at \in Holding
<1>1. job[p].at \in Holding BY DEF Holding
<1>2. Prep(p) \in Preps /\ PrepFits(Prep(p)) /\ Outcome(Prep(p)) /\ JobFits(p) /\ job[p] \in Job
  BY <1>1, Its
<1>3. ReconcileFits(p) /\ (job[p].completing => CompletesCommit(p)) BY <1>2 DEF JobFits
<1> QED BY <1>1, <1>2, <1>3 DEF ReconcileFits, Active, State, CompletesCommit, Job

LEMMA ConcludeOpenKeeps ==
    ASSUME IInv, NEW p \in Procs, ConcludeOpen(p)
    PROVE  IInv'
<1>1. TypeOK /\ job[p].at \in Reconciling /\ At(p, "conclude")
  BY DEF IInv, ConcludeOpen, Reconciling, At
<1>2. PICK j \in Preps : j = Prep(p) BY <1>1, Reconciles
<1> DEFINE state == IF job[p].verdict = "committed" THEN "consumed" ELSE "failed"
           proof == job[p].verdict
<1>3. /\ PrepFits(j) /\ Outcome(j) /\ ReconcileFits(p) /\ job[p].at \in Holding
      /\ job[p].completing => Committed(j) /\ marker[j].state \in Settled
      /\ proof \in Proofs \ {"none"}
  BY <1>1, <1>2, Reconciles DEF ConcludeOpen, Verdicts
<1>4. state \in States /\ state \in {"consumed", "failed"} BY DEF States
<1>5. Resolve(j, state, proof) BY <1>2 DEF ConcludeOpen
<1>6. /\ proof = "committed" => Committed(j)
      /\ proof = "pre_authority" => Unpublished(j)
      /\ proof = "staged_manifest_published" => PublishedOnly(j)
  BY <1>2, <1>3 DEF ReconcileFits
<1> HIDE DEF state, proof
<1>7. /\ marker' \in [Preps -> Marker] /\ marker'[j].state = state
      /\ marker'[j].old = marker[j].old /\ marker'[j].proof = proof
      /\ \A i \in Preps : i # j => marker'[i] = marker[i]
  BY <1>1, <1>3, <1>4, <1>5, Resolved
<1>8. Goto(p, "retire") /\ "retire" \in Stages /\ UNCHANGED <<stores, told, troubles>>
  BY DEF ConcludeOpen, Stages, Reconciling
<1>9. /\ job' \in [Procs -> Job] /\ \A q \in Procs : q # p => job'[q] = job[q]
      /\ job'[p].at = "retire" /\ job'[p].prep = j /\ job'[p].completing = job[p].completing
      /\ job'[p].verdict = proof
  BY <1>1, <1>2, <1>8, Moved DEF Prep, proof
<1>10. TypeOK' BY <1>1, <1>7, <1>8, <1>9 DEF TypeOK, stores
<1>11. /\ Committed(j)' = Committed(j)
       /\ Unpublished(j)' = Unpublished(j) /\ PublishedOnly(j)' = PublishedOnly(j)
  BY <1>8 DEF stores, Committed, Unpublished, PublishedOnly
<1>12. told[j] # "committed"
  BY <1>1, <1>2, <1>3 DEF ConcludeOpen, Outcome, State
<1>13. PrepFits(j)' BY <1>3, <1>4, <1>7 DEF PrepFits, State, Unclaimed
<1>14. Outcome(j)' BY <1>3, <1>6, <1>7, <1>8, <1>11, <1>12 DEF Outcome
<1>15. JobFits(p)'
  <2>1. Prep(p)' = j BY <1>9 DEF Prep
  <2>2. ReconcileFits(p)'
    BY <2>1, <1>3, <1>4, <1>6, <1>7, <1>9, <1>11 DEF ReconcileFits, Active, State
  <2>3. job'[p].completing => CompletesCommit(p)'
    BY <2>1, <1>3, <1>4, <1>7, <1>9, <1>11 DEF CompletesCommit, State, Settled
  <2>4. proof # "contradiction" BY <1>3 DEF Proofs
  <2> QED BY <2>1, <2>2, <2>3, <2>4, <1>9
          DEF JobFits, At, Prep, Concerned, Committing, Reconciling
<1>16. KeepsLocks(p)
  BY <1>1, <1>2, <1>9 DEF KeepsLocks, OperationLocks, AssetLocks, Committing, Reconciling, At, Prep
<1>17. marker'[j].state \in Settled BY <1>4, <1>7 DEF Settled
<1> QED BY <1>1, <1>2, <1>3, <1>7, <1>8, <1>9, <1>10, <1>13, <1>14, <1>15, <1>16, <1>17, OnMarker
        DEF Reconciling

\* The end of a reconciliation, whatever its marker became.
LEMMA ReconciledKeeps ==
    ASSUME IInv, NEW p \in Procs, job[p].at \in Reconciling,
           UNCHANGED <<stores, troubles>>, SetState(Prep(p), "retired"), Reconciled(p)
    PROVE  IInv'
<1>1. TypeOK BY DEF IInv
<1>2. PICK j \in Preps : j = Prep(p) BY Reconciles
<1>3. /\ PrepFits(j) /\ Outcome(j) /\ job[p].at \in Holding
      /\ job[p].completing => Committed(j)
  BY <1>2, Reconciles
<1>4. /\ marker' \in [Preps -> Marker] /\ marker'[j].state = "retired"
      /\ marker'[j].old = marker[j].old /\ marker'[j].proof = marker[j].proof
      /\ \A i \in Preps : i # j => marker'[i] = marker[i]
  BY <1>1, <1>2, StateSet DEF States
<1>5. /\ Committed(j)' = Committed(j)
      /\ Unpublished(j)' = Unpublished(j) /\ PublishedOnly(j)' = PublishedOnly(j)
  BY DEF stores, Committed, Unpublished, PublishedOnly
<1>6. PrepFits(j)' BY <1>3, <1>4 DEF PrepFits, State, Unclaimed
<1>7. CASE job[p].completing
  <2>1. /\ told' \in [Preps -> Answers] /\ told'[j] = "committed"
        /\ \A i \in Preps : i # j => told'[i] = told[i]
    BY <1>1, <1>2, <1>7, Told DEF Reconciled, Answers
  <2>2. /\ job' \in [Procs -> Job] /\ job'[p] = Idle
        /\ \A q \in Procs : q # p => job'[q] = job[q]
    BY <1>1, <1>7, Finished DEF Reconciled
  <2>3. TypeOK' BY <1>1, <1>4, <2>1, <2>2 DEF TypeOK, stores
  <2>4. Outcome(j)' BY <1>3, <1>4, <1>5, <1>7, <2>1 DEF Outcome, State
  <2>5. JobFits(p)' /\ KeepsLocks(p) BY <2>2, IdleFits
  <2>6. job'[p].at = "idle" BY <2>2 DEF Idle
  <2> QED BY <1>2, <1>3, <1>4, <1>6, <2>1, <2>2, <2>3, <2>4, <2>5, <2>6, OnMarker
          DEF Settled, Reconciling
<1>8. CASE ~job[p].completing
  <2> DEFINE x == [Idle EXCEPT !.at = "next", !.left = job[p].left]
  <2>1. job' = [job EXCEPT ![p] = x] /\ told' = told BY <1>8 DEF Reconciled
  <2>2. job \in [Procs -> Job] /\ job[p].left \in SUBSET Preps BY <1>1 DEF TypeOK, Job
  <2>3. x.at = "next" /\ x.completing = FALSE BY IdleType DEF Idle, Job
  <2>4. x \in Job BY <2>2, IdleType DEF Job, Stages
  <2> HIDE DEF x
  <2>5. job' \in [Procs -> Job] /\ job'[p] = x /\ \A q \in Procs : q # p => job'[q] = job[q]
    BY <2>1, <2>2, <2>4
  <2>6. TypeOK' BY <1>1, <1>4, <2>1, <2>5 DEF TypeOK, stores
  <2>7. Outcome(j)' BY <1>3, <1>4, <1>5, <2>1 DEF Outcome, State
  <2>8. JobFits(p)' BY <2>3, <2>5 DEF JobFits, Concerned, Committing, Reconciling, At
  <2>9. KeepsLocks(p) BY <2>3, <2>5 DEF KeepsLocks, OperationLocks, AssetLocks, Committing, Reconciling
  <2>10. job'[p].at = "next" BY <2>3, <2>5
  <2> QED BY <1>2, <1>3, <1>4, <1>6, <2>1, <2>5, <2>6, <2>7, <2>8, <2>9, <2>10, OnMarker
          DEF Settled, Reconciling
<1> QED BY <1>7, <1>8

LEMMA ConcludeTerminalKeeps ==
    ASSUME IInv, NEW p \in Procs, ConcludeTerminal(p)
    PROVE  IInv'
BY ReconciledKeeps DEF ConcludeTerminal, Reconciling, At

LEMMA RetireKeeps ==
    ASSUME IInv, NEW p \in Procs, Retire(p)
    PROVE  IInv'
BY ReconciledKeeps DEF Retire, Reconciling, At

\* A reconciliation that ends without a result, its marker perhaps marked.
LEMMA UnreconciledKeeps ==
    ASSUME IInv, NEW p \in Procs, job[p].at \in Reconciling,
           UNCHANGED stores, troubles' \in 0 .. MaxTroubles, Unreconciled(p),
           UNCHANGED marker \/ SetState(Prep(p), "recovery_required")
    PROVE  IInv'
<1>1. TypeOK BY DEF IInv
<1>2. PICK j \in Preps : j = Prep(p) BY Reconciles
<1>3. /\ PrepFits(j) /\ Outcome(j) /\ job[p].at \in Holding
      /\ job[p].completing => Committed(j) /\ marker[j].state \in Settled
      /\ marker[j].state \in {"claimed", "consumed", "failed", "recovery_required"}
  BY <1>2, Reconciles
<1>4. /\ marker' \in [Preps -> Marker]
      /\ marker'[j].state \in {"claimed", "consumed", "failed", "recovery_required"}
      /\ marker[j].state \in Settled => marker'[j].state \in Settled
      /\ marker'[j].old = marker[j].old /\ marker'[j].proof = marker[j].proof
      /\ \A i \in Preps : i # j => marker'[i] = marker[i]
  <2>1. CASE UNCHANGED marker BY <1>1, <1>3, <2>1 DEF TypeOK
  <2>2. CASE SetState(j, "recovery_required") BY <1>1, <2>2, StateSet DEF States, Settled
  <2> QED BY <1>2, <2>1, <2>2
<1>5. /\ Committed(j)' = Committed(j)
      /\ Unpublished(j)' = Unpublished(j) /\ PublishedOnly(j)' = PublishedOnly(j)
  BY DEF stores, Committed, Unpublished, PublishedOnly
<1>6. PrepFits(j)' BY <1>3, <1>4 DEF PrepFits, State, Unclaimed
<1>7. /\ told' \in [Preps -> Answers] /\ \A i \in Preps : i # j => told'[i] = told[i]
      /\ told'[j] = told[j] \/ (told'[j] = "pending" /\ Committed(j))
  <2>1. CASE job[p].completing
    BY <1>1, <1>2, <1>3, <2>1, Told DEF Unreconciled, Answers
  <2>2. CASE ~job[p].completing BY <1>1, <2>2 DEF Unreconciled, TypeOK
  <2> QED BY <2>1, <2>2
<1>8. /\ job' \in [Procs -> Job] /\ job'[p] = Idle
      /\ \A q \in Procs : q # p => job'[q] = job[q]
  BY <1>1, Finished DEF Unreconciled
<1>9. TypeOK' BY <1>1, <1>4, <1>7, <1>8 DEF TypeOK, stores
<1>10. Outcome(j)' BY <1>3, <1>4, <1>5, <1>7 DEF Outcome, State
<1>11. JobFits(p)' /\ KeepsLocks(p) BY <1>8, IdleFits
<1>12. job'[p].at = "idle" BY <1>8 DEF Idle
<1> QED BY <1>2, <1>3, <1>4, <1>6, <1>7, <1>8, <1>9, <1>10, <1>11, <1>12, OnMarker
        DEF Reconciling

LEMMA ContradictKeeps ==
    ASSUME IInv, NEW p \in Procs, Contradict(p)
    PROVE  IInv'
<1>1. job[p].at \in Reconciling BY DEF Contradict, Reconciling, At
<1>2. troubles' \in 0 .. MaxTroubles BY DEF Contradict, IInv, TypeOK
<1> QED BY <1>1, <1>2, UnreconciledKeeps DEF Contradict

\* An answer about a preparation whose commit is done.
LEMMA AnswerKeeps ==
    ASSUME IInv, NEW p \in Procs, At(p, "finalize"), NEW answer \in {"pending", "committed"},
           answer = "committed" => State(Prep(p)) = "retired",
           Tell(Prep(p), answer), Finish(p),
           UNCHANGED <<marker, stores>>, troubles' \in 0 .. MaxTroubles
    PROVE  IInv'
<1>1. TypeOK BY DEF IInv
<1>2. PICK j \in Preps : j = Prep(p) BY Its DEF At
<1>3. PrepFits(j) /\ Outcome(j) /\ Committed(j) /\ marker[j].state \in Settled
  BY <1>2, Its DEF At, JobFits, CompletesCommit, State
<1>4. /\ told' \in [Preps -> Answers] /\ told'[j] = answer
      /\ \A i \in Preps : i # j => told'[i] = told[i]
  BY <1>1, <1>2, Told DEF Answers
<1>5. /\ job' \in [Procs -> Job] /\ job'[p] = Idle
      /\ \A q \in Procs : q # p => job'[q] = job[q]
  BY <1>1, Finished
<1>6. TypeOK' BY <1>1, <1>4, <1>5 DEF TypeOK, stores
<1>7. \A i \in Preps : PrepFits(i)' /\ Outcome(i)'
  <2> TAKE i \in Preps
  <2>1. PrepFits(i) /\ Outcome(i) BY DEF IInv
  <2>2. /\ Committed(i)' = Committed(i)
        /\ Unpublished(i)' = Unpublished(i) /\ PublishedOnly(i)' = PublishedOnly(i)
    BY DEF stores, Committed, Unpublished, PublishedOnly
  <2>3. PrepFits(i)' BY <1>3, <1>4, <2>1 DEF PrepFits, Untouched, State, stores, Settled, Unclaimed
  <2>4. i = j => Outcome(i)' BY <1>2, <1>3, <1>4, <2>1, <2>2 DEF Outcome, State
  <2>5. i # j => Outcome(i)' BY <1>4, <2>1, <2>2 DEF Outcome, State
  <2> QED BY <2>3, <2>4, <2>5
<1>8. JobFits(p)' /\ KeepsLocks(p) /\ \A i \in Preps : OutOf(p, i)' BY <1>5, IdleFits
<1>9. \A q \in Procs : q # p => Spared(q) /\ Disjoint(q, p)'
  <2> SUFFICES ASSUME NEW q \in Procs, q # p PROVE Spared(q) /\ Disjoint(q, p)' OBVIOUS
  <2>1. JobFits(q) BY DEF IInv
  <2>2. job[q].at \in Committing => Prep(q) \in Preps /\ Prep(q) # j
    BY <1>3, <2>1 DEF JobFits, CommitFits, State, Settled, Concerned
  <2>3. At(q, "finalize") => CompletesCommit(q) BY <2>1 DEF JobFits
  <2>4. Spared(q) BY <1>4, <2>2, <2>3 DEF Spared, stores, CompletesCommit, Committed, State
  <2> QED BY <1>5, <1>8, <2>4, LocksKept
<1>10. \A i \in Preps : Active(i)' = Active(i) BY DEF Active, State
<1> QED BY <1>5, <1>6, <1>7, <1>8, <1>9, <1>10, Framework

LEMMA FailReconcileKeeps ==
    ASSUME IInv, NEW p \in Procs, FailReconcile(p)
    PROVE  IInv'
<1>1. troubles' \in 0 .. MaxTroubles /\ UNCHANGED <<marker, stores>>
  BY Troubled DEF IInv, FailReconcile
<1>2. CASE At(p, "finalize") BY <1>1, <1>2, AnswerKeeps DEF FailReconcile
<1>3. CASE ~At(p, "finalize")
  <2>1. job[p].at \in Reconciling /\ Unreconciled(p) BY <1>3 DEF FailReconcile, At
  <2> QED BY <1>1, <2>1, UnreconciledKeeps
<1> QED BY <1>2, <1>3

-----------------------------------------------------------------------------
(* The steps on the manifests, the payloads, the rows and the receipts.      *)

\* Every store is written under the locks that guard it; the traces of a
\* preparation are written by its own commit.
LEMMA OnStores ==
    ASSUME IInv, TypeOK', NEW q \in Procs,
           \A p \in Procs : p # q => job'[p] = job[p],
           UNCHANGED <<marker, told>>,
           \A d \in Deployments :
               d \notin OperationLocks(job[q]) => row'[d].inputs = row[d].inputs,
           \A a \in Assets : a \notin AssetLocks(job[q]) => manifest'[a] = manifest[a],
           \A i \in Preps :
               \/ job[q].at \in Committing /\ i = Prep(q)
               \/ /\ receipt'[i] = receipt[i] /\ (i \in payloads' <=> i \in payloads)
                  /\ \A a \in Assets : i \in manifest'[a].versions <=> i \in manifest[a].versions,
           payloads \subseteq payloads', KeepsLocks(q), job'[q].at \notin {"edit", "change"},
           ~At(q, "claim"), JobFits(q)'
    PROVE  IInv'
<1>1. ASSUME NEW i \in Preps, job[q].at \in Committing, i = Prep(q)
      PROVE  /\ marker[i].state = "claimed" /\ marker[i].proof = "none"
             /\ told[i] \in {"nothing", "unknown"}
  BY <1>1 DEF IInv, JobFits, CommitFits, State
<1>2. \A p \in Procs : p # q => Spared(p)
  <2> SUFFICES ASSUME NEW p \in Procs, p # q PROVE Spared(p) OBVIOUS
  <2>1. CASE job[p].at \in Holding
    <3>1. Prep(p) \in Preps /\ DeploymentOf[Prep(p)] \in Deployments
          /\ AssetsOf[DeploymentOf[Prep(p)]] \subseteq Assets
      BY <2>1, Its
    <3>2. job[q].at \in Committing => Prep(q) # Prep(p)
      BY <2>1, HoldersDiffer DEF Holding
    <3>3. receipt'[Prep(p)] = receipt[Prep(p)] BY <3>1, <3>2
    <3>4. OperationLocks(job[p]) = {DeploymentOf[Prep(p)]} BY <2>1, Locks DEF Prep
    <3>5. row'[DeploymentOf[Prep(p)]].inputs = row[DeploymentOf[Prep(p)]].inputs
      BY <3>1, <3>4 DEF IInv, Disjoint
    <3>6. job[p].at # "mark" => AssetLocks(job[p]) = AssetsOf[DeploymentOf[Prep(p)]]
      BY <2>1, Locks DEF Prep
    <3>7. job[p].at # "mark" =>
             \A a \in AssetsOf[DeploymentOf[Prep(p)]] : manifest'[a] = manifest[a]
      BY <3>1, <3>6 DEF IInv, Disjoint
    <3> QED BY <2>1, <3>3, <3>5, <3>7 DEF Spared, Holding, Committing, Reconciling, At
  <2>2. CASE At(p, "finalize")
    <3>1. Prep(p) \in Preps /\ AssetOf[Prep(p)] \in Assets BY <2>2, Its DEF At
    <3>2. CompletesCommit(p) BY <2>2 DEF IInv, JobFits
    <3>3. ~(job[q].at \in Committing /\ Prep(p) = Prep(q))
      BY <1>1, <3>1, <3>2 DEF CompletesCommit, State, Settled
    <3> QED BY <2>2, <3>1, <3>2, <3>3
            DEF Spared, Committing, Reconciling, At, CompletesCommit, Committed, State
  <2>3. CASE job[p].at \notin Holding \cup {"finalize"}
    BY <2>3 DEF Spared, Holding, At
  <2> QED BY <2>1, <2>2, <2>3 DEF At
<1>3. \A p \in Procs : p # q => Disjoint(p, q)' BY LocksKept
<1>4. \A i \in Preps : PrepFits(i)' /\ Outcome(i)'
  <2> TAKE i \in Preps
  <2>1. PrepFits(i) /\ Outcome(i) BY DEF IInv
  <2>2. AssetOf[i] \in Assets BY AcceptAssumption
  <2>3. CASE job[q].at \in Committing /\ i = Prep(q)
    <3>1. /\ marker'[i] = marker[i] /\ marker'[i].state = "claimed"
          /\ marker'[i].proof = "none" /\ told'[i] \in {"nothing", "unknown"}
      BY <1>1, <2>3
    <3>2. Outcome(i)' BY <3>1 DEF Outcome
    <3>3. PrepFits(i)' BY <2>1, <3>1 DEF PrepFits, State, Unclaimed
    <3> QED BY <3>2, <3>3
  <2>4. CASE ~(job[q].at \in Committing /\ i = Prep(q))
    <3>1. /\ receipt'[i] = receipt[i] /\ (i \in payloads' <=> i \in payloads)
          /\ \A a \in Assets : i \in manifest'[a].versions <=> i \in manifest[a].versions
      BY <2>4
    <3>2. /\ Committed(i)' <=> Committed(i)
          /\ Unpublished(i)' <=> Unpublished(i)
          /\ PublishedOnly(i)' <=> PublishedOnly(i)
      BY <2>2, <3>1 DEF Committed, Unpublished, PublishedOnly
    <3>3. told'[i] = told[i] /\ marker'[i] = marker[i] OBVIOUS
    <3>4. Outcome(i)'
      <4>1. State(i)' = State(i) /\ marker'[i].proof = marker[i].proof BY <3>3 DEF State
      <4> QED BY <2>1, <3>2, <3>3, <4>1 DEF Outcome
    <3>5. PrepFits(i)' BY <2>1, <3>1 DEF PrepFits, Untouched, State
    <3> QED BY <3>4, <3>5
  <2> QED BY <2>3, <2>4
<1>5. \A i \in Preps : OutOf(q, i)' /\ Active(i)' = Active(i) BY DEF OutOf, At, Active, State
<1> QED BY <1>2, <1>3, <1>4, <1>5, Framework

LEMMA PublishVersionKeeps ==
    ASSUME IInv, NEW p \in Procs, PublishVersion(p)
    PROVE  IInv'
<1>1. TypeOK /\ At(p, "publish") /\ job[p].at \in Holding /\ job[p].at \in Committing
  BY DEF IInv, PublishVersion, Holding, Committing, At
<1>2. PICK j \in Preps : j = Prep(p) BY <1>1, Its
<1>3. /\ CommitFits(p) /\ job[p] \in Job /\ job[p].seen \in Row
      /\ AssetOf[j] \in AssetsOf[DeploymentOf[j]] /\ AssetsOf[DeploymentOf[j]] \subseteq Assets
  BY <1>1, <1>2, Its DEF JobFits
<1> DEFINE a == AssetOf[j]
           m == Extended(manifest[a], j)
<1>4. a \in Assets /\ manifest[a] \in Manifest /\ manifest \in [Assets -> Manifest]
  BY <1>1, <1>3 DEF TypeOK
<1>5. m \in Manifest /\ m.versions = manifest[a].versions \cup {j}
  BY <1>4 DEF Extended, Manifest
<1>6. manifest' = [manifest EXCEPT ![a] = m] BY <1>2 DEF PublishVersion
<1> HIDE DEF m
<1>7. /\ manifest' \in [Assets -> Manifest] /\ manifest'[a] = m
      /\ \A b \in Assets : b # a => manifest'[b] = manifest[b]
  BY <1>4, <1>5, <1>6
<1>8. UNCHANGED <<marker, payloads, row, receipt, told, troubles>> BY DEF PublishVersion
<1>9. Goto(p, "payloads") /\ "payloads" \in Stages BY DEF PublishVersion, Stages, Committing
<1>10. /\ job' \in [Procs -> Job] /\ \A q \in Procs : q # p => job'[q] = job[q]
       /\ job'[p].at = "payloads" /\ job'[p].prep = j /\ job'[p].seen = job[p].seen
       /\ job'[p].completing = job[p].completing
  BY <1>1, <1>2, <1>9, Moved DEF Prep
<1>11. TypeOK' BY <1>1, <1>7, <1>8, <1>10 DEF TypeOK
<1>12. KeepsLocks(p)
  BY <1>1, <1>2, <1>10 DEF KeepsLocks, OperationLocks, AssetLocks, Committing, Reconciling, At, Prep
<1>13. AssetLocks(job[p]) = AssetsOf[DeploymentOf[j]]
  BY <1>1, <1>2, Locks DEF Prep, At
<1>14. ManifestsArePost(j)'
  <2>1. ManifestsAreOld(j) BY <1>1, <1>2, <1>3 DEF CommitFits, At
  <2>2. \A b \in AssetsOf[DeploymentOf[j]] : b # a => manifest'[b] = marker'[j].old[b]
    BY <1>3, <1>7, <1>8, <2>1 DEF ManifestsAreOld
  <2>3. manifest'[a] = Extended(marker'[j].old[a], j)
    BY <1>3, <1>7, <1>8, <2>1 DEF ManifestsAreOld, m
  <2> QED BY <2>2, <2>3 DEF ManifestsArePost
<1>15. CommitFits(p)'
  <2>1. /\ receipt[j] = None /\ row[DeploymentOf[j]].inputs = marker[j].inputs
        /\ marker[j].state = "claimed"
        /\ marker[j].proof = "none" /\ told[j] \in {"nothing", "unknown"}
    BY <1>1, <1>2, <1>3 DEF CommitFits, At, State
  <2>2. Prep(p)' = j BY <1>10 DEF Prep
  <2> QED BY <1>8, <1>10, <1>14, <2>1, <2>2 DEF CommitFits, At, State
<1>16. ~job[p].completing BY <1>1, Its DEF JobFits, At, Reconciling
<1>17. JobFits(p)'
  BY <1>3, <1>10, <1>15, <1>16 DEF JobFits, At, Prep, Concerned, Committing, Reconciling
<1>18. \A i \in Preps : i # j =>
          \A b \in Assets : i \in manifest'[b].versions <=> i \in manifest[b].versions
  BY <1>5, <1>7
<1>19. \A b \in Assets : b \notin AssetLocks(job[p]) => manifest'[b] = manifest[b]
  BY <1>3, <1>7, <1>13
<1>20. job'[p].at \notin {"edit", "change"} /\ ~At(p, "claim") BY <1>1, <1>10 DEF At
<1> QED BY <1>1, <1>2, <1>8, <1>10, <1>11, <1>12, <1>17, <1>18, <1>19, <1>20, OnStores

LEMMA PublishPayloadsKeeps ==
    ASSUME IInv, NEW p \in Procs, PublishPayloads(p)
    PROVE  IInv'
<1>1. TypeOK /\ At(p, "payloads") /\ job[p].at \in Holding /\ job[p].at \in Committing
  BY DEF IInv, PublishPayloads, Holding, Committing, At
<1>2. PICK j \in Preps : j = Prep(p) BY <1>1, Its
<1>3. CommitFits(p) /\ job[p] \in Job /\ job[p].seen \in Row BY <1>1, <1>2, Its DEF JobFits
<1>4. UNCHANGED <<marker, manifest, row, receipt, told, troubles>> /\ payloads' = payloads \cup {j}
  BY <1>2 DEF PublishPayloads
<1>5. Goto(p, "select") /\ "select" \in Stages BY DEF PublishPayloads, Stages, Committing
<1>6. /\ job' \in [Procs -> Job] /\ \A q \in Procs : q # p => job'[q] = job[q]
      /\ job'[p].at = "select" /\ job'[p].prep = j /\ job'[p].seen = job[p].seen
      /\ job'[p].completing = job[p].completing
  BY <1>1, <1>2, <1>5, Moved DEF Prep
<1>7. TypeOK' BY <1>1, <1>4, <1>6 DEF TypeOK
<1>8. KeepsLocks(p)
  BY <1>1, <1>2, <1>6 DEF KeepsLocks, OperationLocks, AssetLocks, Committing, Reconciling, At, Prep
<1>9. CommitFits(p)'
  <2>1. /\ receipt[j] = None /\ row[DeploymentOf[j]].inputs = marker[j].inputs
        /\ marker[j].state = "claimed" /\ ManifestsArePost(j)
        /\ marker[j].proof = "none" /\ told[j] \in {"nothing", "unknown"}
    BY <1>1, <1>2, <1>3 DEF CommitFits, At, State
  <2>2. ManifestsArePost(j)' BY <1>4, <2>1 DEF ManifestsArePost
  <2>3. Prep(p)' = j BY <1>6 DEF Prep
  <2> QED BY <1>4, <1>6, <2>1, <2>2, <2>3 DEF CommitFits, At, State
<1>10. ~job[p].completing BY <1>1, Its DEF JobFits, At, Reconciling
<1>11. JobFits(p)'
  BY <1>3, <1>6, <1>9, <1>10 DEF JobFits, At, Prep, Concerned, Committing, Reconciling
<1>12. job'[p].at \notin {"edit", "change"} /\ ~At(p, "claim") BY <1>1, <1>6 DEF At
<1> QED BY <1>1, <1>2, <1>4, <1>6, <1>7, <1>8, <1>11, <1>12, OnStores

LEMMA CommitRowKeeps ==
    ASSUME IInv, NEW p \in Procs, CommitRow(p)
    PROVE  IInv'
<1>1. TypeOK /\ At(p, "select") /\ job[p].at \in Holding /\ job[p].at \in Committing
  BY DEF IInv, CommitRow, Holding, Committing, At
<1>2. PICK j \in Preps : j = Prep(p) BY <1>1, Its
<1>3. CommitFits(p) /\ job[p] \in Job /\ job[p].seen \in Row /\ DeploymentOf[j] \in Deployments
  BY <1>1, <1>2, Its DEF JobFits
<1> DEFINE d == DeploymentOf[j]
           post == [inputs |-> row[d].inputs + 1, observed |-> row[d].observed + 1]
<1>4. row \in [Deployments -> Row] /\ receipt \in [Preps -> Row \cup {None}]
      /\ row[d].inputs \in Nat /\ row[d].observed \in Nat
  BY <1>1, <1>3 DEF TypeOK, Row
<1>5. post \in Row /\ post # None BY <1>4, NoneAssumption DEF Row
<1>6. row' = [row EXCEPT ![d] = post] /\ receipt' = [receipt EXCEPT ![j] = post]
  BY <1>2 DEF CommitRow
<1> HIDE DEF post
<1>7. /\ row' \in [Deployments -> Row] /\ \A e \in Deployments : e # d => row'[e] = row[e]
      /\ receipt' \in [Preps -> Row \cup {None}] /\ receipt'[j] # None
      /\ \A i \in Preps : i # j => receipt'[i] = receipt[i]
  BY <1>4, <1>5, <1>6
<1>8. UNCHANGED <<marker, manifest, payloads, told, troubles>> BY DEF CommitRow
<1>9. Goto(p, "consume") /\ "consume" \in Stages BY DEF CommitRow, Stages, Committing
<1>10. /\ job' \in [Procs -> Job] /\ \A q \in Procs : q # p => job'[q] = job[q]
       /\ job'[p].at = "consume" /\ job'[p].prep = j /\ job'[p].seen = job[p].seen
       /\ job'[p].completing = job[p].completing
  BY <1>1, <1>2, <1>9, Moved DEF Prep
<1>11. TypeOK' BY <1>1, <1>7, <1>8, <1>10 DEF TypeOK
<1>12. KeepsLocks(p)
  BY <1>1, <1>2, <1>10 DEF KeepsLocks, OperationLocks, AssetLocks, Committing, Reconciling, At, Prep
<1>13. CommitFits(p)'
  <2>1. /\ marker[j].state = "claimed" /\ ManifestsArePost(j) /\ j \in payloads
        /\ marker[j].proof = "none" /\ told[j] \in {"nothing", "unknown"}
    BY <1>1, <1>2, <1>3 DEF CommitFits, At, State
  <2>2. ManifestsArePost(j)' BY <1>8, <2>1 DEF ManifestsArePost
  <2>3. Prep(p)' = j BY <1>10 DEF Prep
  <2> QED BY <1>7, <1>8, <1>10, <2>1, <2>2, <2>3 DEF CommitFits, At, State
<1>14. ~job[p].completing BY <1>1, Its DEF JobFits, At, Reconciling
<1>15. JobFits(p)'
  BY <1>3, <1>10, <1>13, <1>14 DEF JobFits, At, Prep, Concerned, Committing, Reconciling
<1>16. job'[p].at \notin {"edit", "change"} /\ ~At(p, "claim") BY <1>1, <1>10 DEF At
<1>17. OperationLocks(job[p]) = {d} BY <1>1, <1>2, Locks DEF Prep
<1> QED BY <1>1, <1>2, <1>7, <1>8, <1>10, <1>11, <1>12, <1>15, <1>16, <1>17, OnStores

\* A step on a row by one that is not committing, which ends it.
LEMMA OnRow ==
    ASSUME IInv, NEW p \in Procs, NEW d \in Deployments, NEW r \in Row,
           row' = [row EXCEPT ![d] = r], d \notin OperationLocks(job[p]) => r.inputs = row[d].inputs,
           Finish(p), UNCHANGED <<marker, manifest, payloads, receipt, told, troubles>>,
           ~At(p, "claim")
    PROVE  IInv'
<1>1. TypeOK /\ row \in [Deployments -> Row] BY DEF IInv, TypeOK
<1>2. /\ job' \in [Procs -> Job] /\ job'[p] = Idle
      /\ \A q \in Procs : q # p => job'[q] = job[q]
  BY <1>1, Finished
<1>3. /\ row' \in [Deployments -> Row] /\ row'[d] = r
      /\ \A e \in Deployments : e # d => row'[e] = row[e]
  BY <1>1
<1>4. TypeOK' BY <1>1, <1>2, <1>3 DEF TypeOK
<1>5. JobFits(p)' /\ KeepsLocks(p) BY <1>2, IdleFits
<1>6. job'[p].at = "idle" BY <1>2 DEF Idle
<1> QED BY <1>2, <1>3, <1>4, <1>5, <1>6, OnStores

LEMMA Counted ==
    ASSUME TypeOK, NEW d \in Deployments
    PROVE  /\ [row[d] EXCEPT !.inputs = @ + 1] \in Row
           /\ [row[d] EXCEPT !.observed = @ + 1] \in Row
           /\ [row[d] EXCEPT !.observed = @ + 1].inputs = row[d].inputs
<1>1. row[d] \in Row BY DEF TypeOK
<1>2. row[d].inputs + 1 \in Nat /\ row[d].observed + 1 \in Nat BY <1>1 DEF Row
<1> QED BY <1>1, <1>2 DEF Row

LEMMA ChangeInputsKeeps ==
    ASSUME IInv, NEW p \in Procs, ChangeInputs(p)
    PROVE  IInv'
<1>1. TypeOK /\ At(p, "change") BY DEF IInv, ChangeInputs
<1>2. PICK d \in Deployments : d = job[p].on BY <1>1 DEF IInv, JobFits, At
<1>3. row' = [row EXCEPT ![d] = [row[d] EXCEPT !.inputs = @ + 1]]
  BY <1>1, <1>2 DEF ChangeInputs, TypeOK
<1>4. OperationLocks(job[p]) = {d}
  BY <1>1, <1>2 DEF OperationLocks, At, Committing, Reconciling
<1>5. ~At(p, "claim") BY <1>1 DEF At
<1> QED BY <1>1, <1>3, <1>4, <1>5, Counted, OnRow DEF ChangeInputs

LEMMA ObservedKeeps ==
    ASSUME IInv, NEW p \in Procs, At(p, "observe") \/ At(p, "record"),
           Observed(job[p].on), Finish(p),
           UNCHANGED <<marker, manifest, payloads, receipt, told, troubles>>
    PROVE  IInv'
<1>1. TypeOK BY DEF IInv
<1>2. PICK d \in Deployments : d = job[p].on BY DEF IInv, JobFits, At
<1>3. row' = [row EXCEPT ![d] = [row[d] EXCEPT !.observed = @ + 1]]
  BY <1>1, <1>2 DEF Observed, TypeOK
<1>4. ~At(p, "claim") BY DEF At
<1> QED BY <1>1, <1>3, <1>4, Counted, OnRow

LEMMA EditAssetKeeps ==
    ASSUME IInv, NEW p \in Procs, EditAsset(p)
    PROVE  IInv'
<1>1. TypeOK /\ At(p, "edit") BY DEF IInv, EditAsset
<1>2. PICK a \in Assets : a = job[p].on BY <1>1 DEF IInv, JobFits, At
<1> DEFINE m == [manifest[a] EXCEPT !.edits = @ + 1]
<1>3. manifest[a] \in Manifest /\ manifest \in [Assets -> Manifest] BY <1>1 DEF TypeOK
<1>4. manifest' = [manifest EXCEPT ![a] = m] BY <1>2, <1>3 DEF EditAsset
<1>5. m \in Manifest /\ m.versions = manifest[a].versions
  <2>1. manifest[a].edits + 1 \in Nat BY <1>3 DEF Manifest
  <2> QED BY <1>3, <2>1 DEF Manifest
<1> HIDE DEF m
<1>6. /\ manifest' \in [Assets -> Manifest]
      /\ \A b \in Assets : b # a => manifest'[b] = manifest[b]
      /\ \A b \in Assets : manifest'[b].versions = manifest[b].versions
  BY <1>3, <1>4, <1>5
<1>7. UNCHANGED <<marker, payloads, row, receipt, told, troubles>> /\ Finish(p) BY DEF EditAsset
<1>8. /\ job' \in [Procs -> Job] /\ job'[p] = Idle
      /\ \A q \in Procs : q # p => job'[q] = job[q]
  BY <1>1, <1>7, Finished
<1>9. TypeOK' BY <1>1, <1>6, <1>7, <1>8 DEF TypeOK
<1>10. JobFits(p)' /\ KeepsLocks(p) BY <1>8, IdleFits
<1>11. job'[p].at = "idle" /\ ~At(p, "claim") BY <1>1, <1>8 DEF Idle, At
<1>12. AssetLocks(job[p]) = {a} BY <1>1, <1>2 DEF AssetLocks, At, Committing, Reconciling
<1> QED BY <1>6, <1>7, <1>8, <1>9, <1>10, <1>11, <1>12, OnStores

-----------------------------------------------------------------------------
(* The steps that change only what an operation does.                        *)

LEMMA StopKeeps ==
    ASSUME IInv, NEW p \in Procs, Finish(p), UNCHANGED <<marker, stores, told>>,
           troubles' \in 0 .. MaxTroubles
    PROVE  IInv'
<1>1. TypeOK BY DEF IInv
<1>2. /\ job' \in [Procs -> Job] /\ job'[p] = Idle
      /\ \A q \in Procs : q # p => job'[q] = job[q]
  BY <1>1, Finished
<1>3. TypeOK' BY <1>1, <1>2 DEF TypeOK, stores
<1>4. JobFits(p)' /\ KeepsLocks(p) /\ \A i \in Preps : OutOf(p, i)' BY <1>2, IdleFits
<1>5. \A q \in Procs : q # p => Disjoint(q, p)' BY <1>2, <1>4, LocksKept
<1> QED BY <1>2, <1>3, <1>4, <1>5, OnlyJob

LEMMA DieKeeps ==
    ASSUME IInv, NEW p \in Procs, Die(p)
    PROVE  IInv'
BY StopKeeps, Troubled DEF Die, IInv

LEMMA RecordAttemptKeeps ==
    ASSUME IInv, NEW p \in Procs, RecordAttempt(p)
    PROVE  IInv'
<1>1. CASE row[job[p].on] = job[p].seen BY <1>1, ObservedKeeps DEF RecordAttempt
<1>2. CASE row[job[p].on] # job[p].seen
  <2>1. troubles' \in 0 .. MaxTroubles BY DEF RecordAttempt, IInv, TypeOK
  <2> QED BY <1>2, <2>1, StopKeeps DEF RecordAttempt, stores
<1> QED BY <1>1, <1>2

\* A step that takes no lock it had not, and has no more to fit.
LEMMA QuietKeeps ==
    ASSUME IInv, NEW p \in Procs, NEW x \in Job, job' = [job EXCEPT ![p] = x],
           x.at \in {"next", "lock", "record"}, x.completing = FALSE,
           x.at # "next" => x.on \in Deployments,
           UNCHANGED <<marker, stores, told>>, troubles' \in 0 .. MaxTroubles
    PROVE  IInv'
<1>1. TypeOK /\ job \in [Procs -> Job] BY DEF IInv, TypeOK
<1>2. job' \in [Procs -> Job] /\ job'[p] = x /\ \A q \in Procs : q # p => job'[q] = job[q]
  BY <1>1
<1>3. TypeOK' BY <1>1, <1>2 DEF TypeOK, stores
<1>4. JobFits(p)' BY <1>2 DEF JobFits, Concerned, Committing, Reconciling, At
<1>5. KeepsLocks(p) BY <1>2 DEF KeepsLocks, OperationLocks, AssetLocks, Committing, Reconciling
<1>6. \A i \in Preps : OutOf(p, i)' BY <1>2 DEF OutOf, At
<1>7. \A q \in Procs : q # p => Disjoint(q, p)' BY <1>2, <1>5, LocksKept
<1> QED BY <1>2, <1>3, <1>4, <1>6, <1>7, OnlyJob

LEMMA NotCompleting ==
    ASSUME IInv, NEW p \in Procs, job[p].at \notin Reconciling
    PROVE  job[p] \in Job /\ job[p].completing = FALSE
BY DEF IInv, TypeOK, JobFits, Job

LEMMA ObserveKeeps ==
    ASSUME IInv, NEW p \in Procs, Observe(p)
    PROVE  IInv'
<1>1. TypeOK /\ At(p, "observe") BY DEF IInv, Observe
<1>2. CASE Observed(job[p].on) /\ Finish(p) BY <1>1, <1>2, ObservedKeeps DEF Observe
<1>3. CASE Goto(p, "record") /\ UNCHANGED row
  <2> DEFINE x == [job[p] EXCEPT !.at = "record"]
  <2>1. job[p] \in Job /\ job[p].completing = FALSE
    BY <1>1, NotCompleting DEF At, Reconciling
  <2>2. x \in Job /\ x.at = "record" /\ x.completing = FALSE /\ x.on = job[p].on
    BY <2>1 DEF Job, Stages
  <2>3. job' = [job EXCEPT ![p] = x] BY <1>1, <1>3 DEF Goto, TypeOK
  <2>4. job[p].on \in Deployments BY <1>1 DEF IInv, JobFits, At
  <2>5. UNCHANGED <<marker, stores, told>> /\ troubles' \in 0 .. MaxTroubles
    BY <1>1, <1>3 DEF Observe, stores, TypeOK
  <2> HIDE DEF x
  <2> QED BY <2>2, <2>3, <2>4, <2>5, QuietKeeps
<1> QED BY <1>1, <1>2, <1>3 DEF Observe

LEMMA BeginScanKeeps ==
    ASSUME IInv, NEW p \in Procs, NEW d \in Deployments, BeginScan(p, d)
    PROVE  IInv'
<1>1. TypeOK /\ At(p, "idle") BY DEF IInv, BeginScan
<1> DEFINE stage == IF Blocked(AssetsOf[d]) THEN "record" ELSE "lock"
           x == [job[p] EXCEPT !.at = stage, !.on = d, !.seen = row[d]]
<1>2. job[p] \in Job /\ job[p].completing = FALSE BY <1>1, NotCompleting DEF At, Reconciling
<1>3. row[d] \in Row BY <1>1 DEF TypeOK
<1>4. stage \in {"lock", "record"} OBVIOUS
<1>5. job' = [job EXCEPT ![p] = x] BY <1>1 DEF BeginScan, TypeOK
<1> HIDE DEF stage
<1>6. x \in Job /\ x.at = stage /\ x.completing = FALSE /\ x.on = d
  BY <1>2, <1>3, <1>4 DEF Job, Stages
<1>7. UNCHANGED <<marker, stores, told>> /\ troubles' \in 0 .. MaxTroubles
  BY <1>1, Troubled DEF BeginScan
<1> HIDE DEF x
<1> QED BY <1>4, <1>5, <1>6, <1>7, QuietKeeps

LEMMA BeginRecoverKeeps ==
    ASSUME IInv, NEW p \in Procs, NEW d \in Deployments, BeginRecover(p, d)
    PROVE  IInv'
<1>1. TypeOK /\ At(p, "idle") BY DEF IInv, BeginRecover
<1> DEFINE x == [job[p] EXCEPT !.at = "next", !.left = ToReconcile(d)]
<1>2. job[p] \in Job /\ job[p].completing = FALSE BY <1>1, NotCompleting DEF At, Reconciling
<1>3. ToReconcile(d) \in SUBSET Preps BY DEF ToReconcile
<1>4. job' = [job EXCEPT ![p] = x] BY <1>1 DEF BeginRecover, TypeOK
<1>5. x \in Job /\ x.at = "next" /\ x.completing = FALSE BY <1>2, <1>3 DEF Job, Stages
<1>6. UNCHANGED <<marker, stores, told>> /\ troubles' \in 0 .. MaxTroubles
  BY <1>1 DEF BeginRecover, TypeOK
<1> HIDE DEF x
<1> QED BY <1>4, <1>5, <1>6, QuietKeeps

\* A step that takes the free locks of what it is about.
LEMMA TakesKeeps ==
    ASSUME IInv, NEW p \in Procs, NEW x \in Job, job' = [job EXCEPT ![p] = x],
           \A q \in Procs : /\ OperationLocks(x) \cap OperationLocks(job[q]) = {}
                            /\ AssetLocks(x) \cap AssetLocks(job[q]) = {},
           \A i \in Preps : OutOf(p, i)', JobFits(p)',
           UNCHANGED <<marker, stores, told>>, troubles' \in 0 .. MaxTroubles
    PROVE  IInv'
<1>1. TypeOK /\ job \in [Procs -> Job] BY DEF IInv, TypeOK
<1>2. job' \in [Procs -> Job] /\ job'[p] = x /\ \A q \in Procs : q # p => job'[q] = job[q]
  BY <1>1
<1>3. TypeOK' BY <1>1, <1>2 DEF TypeOK, stores
<1>4. \A q \in Procs : q # p => Disjoint(q, p)'
  <2> SUFFICES ASSUME NEW q \in Procs, q # p PROVE Disjoint(q, p)' OBVIOUS
  <2>1. /\ OperationLocks(job[q])' = OperationLocks(job[q]) /\ AssetLocks(job[q])' = AssetLocks(job[q])
        /\ OperationLocks(job[p])' = OperationLocks(x) /\ AssetLocks(job[p])' = AssetLocks(x)
    BY <1>2 DEF OperationLocks, AssetLocks
  <2> QED BY <2>1 DEF Disjoint
<1> QED BY <1>2, <1>3, <1>4, OnlyJob

LEMMA Free ==
    ASSUME NEW d \in Deployments, LocksFree(d)
    PROVE  \A q \in Procs : /\ {d} \cap OperationLocks(job[q]) = {}
                            /\ AssetsOf[d] \cap AssetLocks(job[q]) = {}
BY DEF LocksFree, OperationFree, AssetsFree

LEMMA LockScanKeeps ==
    ASSUME IInv, NEW p \in Procs, LockScan(p)
    PROVE  IInv'
<1>1. TypeOK /\ At(p, "lock") BY DEF IInv, LockScan
<1>2. PICK d \in Deployments : d = job[p].on BY <1>1 DEF IInv, JobFits, At
<1>3. job[p] \in Job /\ job[p].completing = FALSE BY <1>1, NotCompleting DEF At, Reconciling
<1>4. UNCHANGED <<marker, stores, told>> /\ troubles' \in 0 .. MaxTroubles
  BY <1>1 DEF LockScan, TypeOK
<1>5. CASE Goto(p, "record")
  <2> DEFINE x == [job[p] EXCEPT !.at = "record"]
  <2>1. x \in Job /\ x.at = "record" /\ x.completing = FALSE /\ x.on = d
    BY <1>2, <1>3 DEF Job, Stages
  <2>2. job' = [job EXCEPT ![p] = x] BY <1>1, <1>5 DEF Goto, TypeOK
  <2> HIDE DEF x
  <2> QED BY <1>4, <2>1, <2>2, QuietKeeps
<1>6. CASE Goto(p, "observe") /\ LocksFree(d)
  <2> DEFINE x == [job[p] EXCEPT !.at = "observe"]
  <2>1. x \in Job /\ x.at = "observe" /\ x.completing = FALSE /\ x.on = d
    BY <1>2, <1>3 DEF Job, Stages
  <2>2. job' = [job EXCEPT ![p] = x] /\ job \in [Procs -> Job] BY <1>1, <1>6 DEF Goto, TypeOK
  <2> HIDE DEF x
  <2>3. OperationLocks(x) = {d} /\ AssetLocks(x) = AssetsOf[d]
    BY <2>1 DEF OperationLocks, AssetLocks, Committing, Reconciling
  <2>4. job'[p] = x BY <2>2
  <2>5. JobFits(p)' BY <2>1, <2>4 DEF JobFits, Concerned, Committing, Reconciling, At
  <2>6. \A i \in Preps : OutOf(p, i)' BY <2>1, <2>4 DEF OutOf, At
  <2>7. \A q \in Procs : /\ OperationLocks(x) \cap OperationLocks(job[q]) = {}
                          /\ AssetLocks(x) \cap AssetLocks(job[q]) = {}
    BY <1>6, <2>3, Free
  <2> QED BY <1>4, <2>1, <2>2, <2>5, <2>6, <2>7, TakesKeeps
<1> QED BY <1>2, <1>5, <1>6 DEF LockScan

LEMMA BeginEditKeeps ==
    ASSUME IInv, NEW p \in Procs, NEW a \in Assets, BeginEdit(p, a)
    PROVE  IInv'
<1>1. TypeOK /\ At(p, "idle") BY DEF IInv, BeginEdit
<1> DEFINE x == [job[p] EXCEPT !.at = "edit", !.on = a]
<1>2. job[p] \in Job /\ job[p].completing = FALSE BY <1>1, NotCompleting DEF At, Reconciling
<1>3. job' = [job EXCEPT ![p] = x] /\ job \in [Procs -> Job] BY <1>1 DEF BeginEdit, TypeOK
<1>4. x \in Job /\ x.at = "edit" /\ x.completing = FALSE /\ x.on = a BY <1>2 DEF Job, Stages
<1>5. UNCHANGED <<marker, stores, told>> /\ troubles' \in 0 .. MaxTroubles
  BY <1>1, Troubled DEF BeginEdit
<1> HIDE DEF x
<1>6. OperationLocks(x) = {} /\ AssetLocks(x) = {a}
  BY <1>4 DEF OperationLocks, AssetLocks, Committing, Reconciling
<1>7. \A q \in Procs : {a} \cap AssetLocks(job[q]) = {} BY DEF BeginEdit, AssetsFree
<1>8. job'[p] = x BY <1>3
<1>9. JobFits(p)' BY <1>4, <1>8 DEF JobFits, Concerned, Committing, Reconciling, At
<1>10. \A i \in Preps : OutOf(p, i)'
  <2> TAKE i \in Preps
  <2>1. Active(i) => a \notin AssetsOf[DeploymentOf[i]] BY DEF BeginEdit, Blocked
  <2>2. Active(i)' = Active(i) BY <1>5 DEF Active, State
  <2> QED BY <1>4, <1>8, <2>1, <2>2 DEF OutOf, At
<1> QED BY <1>3, <1>4, <1>5, <1>6, <1>7, <1>9, <1>10, TakesKeeps

LEMMA BeginChangeKeeps ==
    ASSUME IInv, NEW p \in Procs, NEW d \in Deployments, BeginChange(p, d)
    PROVE  IInv'
<1>1. TypeOK /\ At(p, "idle") BY DEF IInv, BeginChange
<1> DEFINE x == [job[p] EXCEPT !.at = "change", !.on = d]
<1>2. job[p] \in Job /\ job[p].completing = FALSE BY <1>1, NotCompleting DEF At, Reconciling
<1>3. job' = [job EXCEPT ![p] = x] /\ job \in [Procs -> Job] BY <1>1 DEF BeginChange, TypeOK
<1>4. x \in Job /\ x.at = "change" /\ x.completing = FALSE /\ x.on = d BY <1>2 DEF Job, Stages
<1>5. UNCHANGED <<marker, stores, told>> /\ troubles' \in 0 .. MaxTroubles
  BY <1>1, Troubled DEF BeginChange
<1> HIDE DEF x
<1>6. OperationLocks(x) = {d} /\ AssetLocks(x) = AssetsOf[d]
  BY <1>4 DEF OperationLocks, AssetLocks, Committing, Reconciling
<1>7. LocksFree(d) BY DEF BeginChange
<1>8. job'[p] = x BY <1>3
<1>9. JobFits(p)' BY <1>4, <1>8 DEF JobFits, Concerned, Committing, Reconciling, At
<1>10. \A i \in Preps : OutOf(p, i)'
  <2> TAKE i \in Preps
  <2>1. Active(i) => AssetsOf[d] \cap AssetsOf[DeploymentOf[i]] = {} BY DEF BeginChange, Blocked
  <2>2. Active(i)' = Active(i) BY <1>5 DEF Active, State
  <2> QED BY <1>4, <1>8, <2>1, <2>2 DEF OutOf, At
<1>11. \A q \in Procs : /\ OperationLocks(x) \cap OperationLocks(job[q]) = {}
                         /\ AssetLocks(x) \cap AssetLocks(job[q]) = {}
  BY <1>6, <1>7, Free
<1> QED BY <1>3, <1>4, <1>5, <1>9, <1>10, <1>11, TakesKeeps

-----------------------------------------------------------------------------
(* The steps before a claim.                                                 *)

\* A step on the marker of a preparation that is not claimed, whose operation
\* lock nobody holds.
LEMMA FreeMarker ==
    ASSUME IInv, NEW i \in Preps, NEW state \in Unclaimed, SetState(i, state),
           State(i) \in Unclaimed, OperationFree(DeploymentOf[i]), UNCHANGED <<stores, told>>
    PROVE  /\ marker' \in [Preps -> Marker] /\ marker'[i].state = state
           /\ \A q \in Procs : Spared(q)
           /\ \A k \in Preps : PrepFits(k)' /\ Outcome(k)' /\ Active(k)' = Active(k)
<1>1. TypeOK /\ state \in States BY DEF IInv, Unclaimed, States
<1>2. /\ marker' \in [Preps -> Marker] /\ marker'[i].state = state
      /\ marker'[i].old = marker[i].old /\ marker'[i].proof = marker[i].proof
      /\ \A k \in Preps : k # i => marker'[k] = marker[k]
  BY <1>1, StateSet
<1>3. \A q \in Procs : Spared(q)
  <2> TAKE q \in Procs
  <2>1. CASE job[q].at \in Holding
    <3>1. Prep(q) \in Preps BY <2>1, Its
    <3>2. OperationLocks(job[q]) = {DeploymentOf[Prep(q)]} BY <2>1, Locks DEF Prep
    <3>3. Prep(q) # i BY <3>2 DEF OperationFree
    <3> QED BY <1>2, <2>1, <3>1, <3>3 DEF Spared, Holding, stores, Committing, Reconciling, At
  <2>2. CASE At(q, "finalize")
    <3>1. Prep(q) \in Preps /\ CompletesCommit(q) BY <2>2, Its DEF At, JobFits
    <3>2. marker[Prep(q)].state \in Settled /\ Prep(q) # i
      BY <3>1 DEF CompletesCommit, State, Settled, Unclaimed
    <3> QED BY <1>2, <2>2, <3>1, <3>2
            DEF Spared, stores, Committing, Reconciling, At, CompletesCommit, Committed
  <2>3. CASE job[q].at \notin Holding \cup {"finalize"}
    BY <2>3 DEF Spared, Holding, At, stores
  <2> QED BY <2>1, <2>2, <2>3 DEF At
<1>4. \A k \in Preps : PrepFits(k)' /\ Outcome(k)' /\ Active(k)' = Active(k)
  <2> TAKE k \in Preps
  <2>1. PrepFits(k) /\ Outcome(k) BY DEF IInv
  <2>2. /\ Committed(k)' = Committed(k)
        /\ Unpublished(k)' = Unpublished(k) /\ PublishedOnly(k)' = PublishedOnly(k)
    BY DEF stores, Committed, Unpublished, PublishedOnly
  <2>3. CASE k # i
    <3>1. marker'[k] = marker[k] BY <1>2, <2>3
    <3>2. PrepFits(k)' BY <2>1, <3>1 DEF PrepFits, Untouched, State, stores
    <3>3. Outcome(k)' BY <2>1, <2>2, <3>1 DEF Outcome, State
    <3> QED BY <3>1, <3>2, <3>3 DEF Active, State
  <2>4. CASE k = i
    <3>1. Untouched(i) BY <2>1, <2>4 DEF PrepFits
    <3>2. PrepFits(i)' BY <1>2, <2>1, <2>4, <3>1 DEF PrepFits, Untouched, State, stores
    <3>3. Outcome(i)' BY <1>2, <3>1 DEF Untouched, Outcome
    <3>4. ~Active(i) /\ ~Active(i)' BY <1>2 DEF Active, State, Unclaimed
    <3>5. Active(i) \in BOOLEAN /\ Active(i)' \in BOOLEAN BY DEF Active
    <3> QED BY <2>4, <3>2, <3>3, <3>4, <3>5
  <2> QED BY <2>3, <2>4
<1> QED BY <1>2, <1>3, <1>4

LEMMA FreeMarkerKeeps ==
    ASSUME IInv, NEW i \in Preps, NEW state \in Unclaimed, SetState(i, state),
           State(i) \in Unclaimed, OperationFree(DeploymentOf[i]),
           UNCHANGED <<stores, job, told, troubles>>
    PROVE  IInv'
<1>1. /\ marker' \in [Preps -> Marker] /\ \A q \in Procs : Spared(q)
      /\ \A k \in Preps : PrepFits(k)' /\ Outcome(k)' /\ Active(k)' = Active(k)
  BY FreeMarker
<1>2. TypeOK' BY <1>1 DEF IInv, TypeOK, stores
<1>3. \A q \in Procs : JobFits(q)' BY <1>1, Undisturbed
<1>4. \A q, r \in Procs : q # r => Disjoint(q, r)'
  BY DEF IInv, Disjoint, OperationLocks, AssetLocks
<1>5. \A q \in Procs, k \in Preps : OutOf(q, k)' BY <1>1 DEF IInv, OutOf, At
<1> QED BY <1>1, <1>2, <1>3, <1>4, <1>5 DEF IInv

LEMMA CancelKeeps ==
    ASSUME IInv, NEW i \in Preps, Cancel(i)
    PROVE  IInv'
<1>1. PICK state \in {"cancelled", "expired"} : SetState(i, state) BY DEF Cancel
<1>2. State(i) \in Unclaimed /\ state \in Unclaimed BY DEF Cancel, Unclaimed
<1> QED BY <1>1, <1>2, FreeMarkerKeeps DEF Cancel

LEMMA BeginPrepareKeeps ==
    ASSUME IInv, NEW p \in Procs, NEW i \in Preps, BeginPrepare(p, i)
    PROVE  IInv'
<1>1. TypeOK /\ At(p, "idle") /\ job \in [Procs -> Job] BY DEF IInv, BeginPrepare, TypeOK
<1> DEFINE x == [job[p] EXCEPT !.at = "mark", !.prep = i]
<1>2. job[p] \in Job /\ job[p].completing = FALSE BY <1>1, NotCompleting DEF At, Reconciling
<1>3. job' = [job EXCEPT ![p] = x] BY <1>1 DEF BeginPrepare
<1>4. x \in Job /\ x.at = "mark" /\ x.completing = FALSE /\ x.prep = i BY <1>2 DEF Job, Stages
<1> HIDE DEF x
<1>5. job' \in [Procs -> Job] /\ job'[p] = x /\ \A q \in Procs : q # p => job'[q] = job[q]
  BY <1>1, <1>3, <1>4
<1>6. "directory" \in Unclaimed /\ State(i) \in Unclaimed BY DEF BeginPrepare, Unclaimed
<1>7. /\ marker' \in [Preps -> Marker] /\ marker'[i].state = "directory"
      /\ \A q \in Procs : Spared(q)
      /\ \A k \in Preps : PrepFits(k)' /\ Outcome(k)' /\ Active(k)' = Active(k)
  BY <1>6, FreeMarker DEF BeginPrepare
<1>8. TypeOK' BY <1>1, <1>5, <1>7 DEF TypeOK, stores, BeginPrepare
<1>9. JobFits(p)'
  BY <1>4, <1>5, <1>7 DEF JobFits, Concerned, Committing, Reconciling, At, Prep, State
<1>10. \A q \in Procs : q # p => Disjoint(q, p)'
  <2> SUFFICES ASSUME NEW q \in Procs, q # p PROVE Disjoint(q, p)' OBVIOUS
  <2>1. DeploymentOf[i] \notin OperationLocks(job[q]) BY DEF BeginPrepare, OperationFree
  <2>2. /\ OperationLocks(job[q])' = OperationLocks(job[q]) /\ AssetLocks(job[q])' = AssetLocks(job[q])
        /\ OperationLocks(job[p])' = {DeploymentOf[i]} /\ AssetLocks(job[p])' = {}
    BY <1>4, <1>5 DEF OperationLocks, AssetLocks, Committing, Reconciling
  <2> QED BY <2>1, <2>2 DEF Disjoint
<1>11. \A k \in Preps : OutOf(p, k)' BY <1>4, <1>5 DEF OutOf, At
<1> QED BY <1>5, <1>7, <1>8, <1>9, <1>10, <1>11, Framework

LEMMA BeginCommitKeeps ==
    ASSUME IInv, NEW p \in Procs, NEW i \in Preps, BeginCommit(p, i)
    PROVE  IInv'
<1>1. TypeOK /\ At(p, "idle") /\ job \in [Procs -> Job] BY DEF IInv, BeginCommit, TypeOK
<1>2. CASE SetState(i, "expired") /\ UNCHANGED job
  <2>1. "expired" \in Unclaimed /\ State(i) \in Unclaimed BY DEF BeginCommit, Unclaimed
  <2>2. OperationFree(DeploymentOf[i]) /\ UNCHANGED <<stores, told, troubles>>
    BY DEF BeginCommit, LocksFree
  <2> QED BY <1>2, <2>1, <2>2, FreeMarkerKeeps
<1>3. CASE StillAsReviewed(i) /\ UNCHANGED marker
           /\ job' = [job EXCEPT ![p].at = "claim", ![p].prep = i, ![p].seen = row[DeploymentOf[i]]]
  <2> DEFINE d == DeploymentOf[i]
             x == [job[p] EXCEPT !.at = "claim", !.prep = i, !.seen = row[d]]
  <2>1. job[p] \in Job /\ job[p].completing = FALSE BY <1>1, NotCompleting DEF At, Reconciling
  <2>2. d \in Deployments /\ row[d] \in Row BY <1>1, AcceptAssumption DEF TypeOK
  <2>3. job' = [job EXCEPT ![p] = x] BY <1>1, <1>3
  <2>4. x \in Job /\ x.at = "claim" /\ x.completing = FALSE /\ x.prep = i /\ x.seen = row[d]
    BY <2>1, <2>2 DEF Job, Stages, Committing
  <2> HIDE DEF x
  <2>5. job'[p] = x BY <1>1, <2>3
  <2>6. LocksFree(d) BY DEF BeginCommit
  <2>7. OperationLocks(x) = {d} /\ AssetLocks(x) = AssetsOf[d]
    BY <2>4, Locks DEF Holding, Committing
  <2>8. \A q \in Procs : /\ OperationLocks(x) \cap OperationLocks(job[q]) = {}
                         /\ AssetLocks(x) \cap AssetLocks(job[q]) = {}
    BY <2>2, <2>6, <2>7, Free
  <2>9. UNCHANGED <<marker, stores, told>> /\ troubles' \in 0 .. MaxTroubles
    BY <1>1, <1>3 DEF BeginCommit, TypeOK
  <2>10. State(i) = "prepared" /\ Untouched(i) /\ ManifestsAreOld(i)
         /\ row[d].inputs = marker[i].inputs
    BY <1>3 DEF BeginCommit, IInv, PrepFits, Unclaimed, StillAsReviewed
  <2>11. CommitFits(p)'
    <3>1. Prep(p)' = i /\ job'[p].at = "claim" BY <2>4, <2>5 DEF Prep
    <3>2. ManifestsAreOld(i)' BY <2>9, <2>10 DEF ManifestsAreOld, stores
    <3> QED BY <2>9, <2>10, <3>1, <3>2 DEF CommitFits, Untouched, At, State, stores
  <2>12. JobFits(p)'
    BY <2>2, <2>4, <2>5, <2>11 DEF JobFits, Concerned, Committing, Reconciling, At, Prep
  <2>13. \A k \in Preps : OutOf(p, k)' BY <2>4, <2>5 DEF OutOf, At
  <2> QED BY <2>3, <2>4, <2>8, <2>9, <2>12, <2>13, TakesKeeps
<1> QED BY <1>2, <1>3 DEF BeginCommit

-----------------------------------------------------------------------------
(* The steps that examine a preparation.                                     *)

\* A verdict says what lies in the three stores.
LEMMA VerdictHolds ==
    ASSUME IInv, NEW i \in Preps
    PROVE  /\ Verdict(i) \in Verdicts \ {"none"}
           /\ Verdict(i) = "committed" => Committed(i)
           /\ Verdict(i) = "pre_authority" => Unpublished(i)
           /\ Verdict(i) = "staged_manifest_published" => PublishedOnly(i)
<1>1. Verdict(i) \in {"committed", "contradiction", "pre_authority", "staged_manifest_published"}
  BY DEF Verdict
<1>2. Verdict(i) = "committed" => receipt[i] # None /\ FilesystemIsPost(i) BY DEF Verdict
<1>3. Verdict(i) = "pre_authority" => receipt[i] = None /\ ManifestsAreOld(i) BY DEF Verdict
<1>4. Verdict(i) = "staged_manifest_published" => receipt[i] = None /\ FilesystemIsPost(i)
  BY DEF Verdict
<1>5. FilesystemIsPost(i) => i \in manifest[AssetOf[i]].versions /\ i \in payloads
  BY OldOrPost DEF FilesystemIsPost
<1>6. Verdict(i) \in Verdicts \ {"none"} BY <1>1 DEF Verdicts, Proofs
<1> QED BY <1>2, <1>3, <1>4, <1>5, <1>6, OldOrPost DEF Committed, Unpublished, PublishedOnly

\* What takes the locks of an active preparation and reads the facts.
LEMMA ExaminesKeeps ==
    ASSUME IInv, NEW p \in Procs, NEW i \in Preps, NEW x \in Job, job' = [job EXCEPT ![p] = x],
           x.at = "conclude", x.prep = i, x.verdict = Verdict(i),
           x.completing = TRUE => Committed(i) /\ State(i) \in Settled,
           LocksFree(DeploymentOf[i]), Active(i),
           UNCHANGED <<marker, stores, told, troubles>>
    PROVE  IInv'
<1> DEFINE d == DeploymentOf[i]
<1>1. TypeOK /\ job \in [Procs -> Job] /\ d \in Deployments
  BY AcceptAssumption DEF IInv, TypeOK
<1>2. job'[p] = x BY <1>1
<1>3. OperationLocks(x) = {d} /\ AssetLocks(x) = AssetsOf[d]
  BY Locks DEF Holding, Reconciling
<1>4. \A q \in Procs : /\ OperationLocks(x) \cap OperationLocks(job[q]) = {}
                       /\ AssetLocks(x) \cap AssetLocks(job[q]) = {}
  BY <1>1, <1>3, Free
<1>5. UNCHANGED <<marker, stores, told>> /\ troubles' \in 0 .. MaxTroubles BY <1>1 DEF TypeOK
<1>6. Prep(p)' = i BY <1>2 DEF Prep
<1>7. /\ Active(i)' = Active(i) /\ State(i)' = State(i)
      /\ Committed(i)' = Committed(i)
      /\ Unpublished(i)' = Unpublished(i) /\ PublishedOnly(i)' = PublishedOnly(i)
  BY <1>5 DEF Active, State, stores, Committed, Unpublished, PublishedOnly
<1>8. ReconcileFits(p)'
  <2>1. /\ x.verdict # "none"
        /\ x.verdict = "committed" => Committed(i)
        /\ x.verdict = "pre_authority" => Unpublished(i)
        /\ x.verdict = "staged_manifest_published" => PublishedOnly(i)
    BY VerdictHolds
  <2> QED BY <1>2, <1>6, <1>7, <2>1 DEF ReconcileFits
<1>9. JobFits(p)'
  <2>1. job'[p].completing => CompletesCommit(p)' BY <1>2, <1>6, <1>7 DEF CompletesCommit, Job
  <2> QED BY <1>2, <1>6, <1>8, <2>1 DEF JobFits, Concerned, Committing, Reconciling, At
<1>10. \A k \in Preps : OutOf(p, k)' BY <1>2 DEF OutOf, At
<1> QED BY <1>4, <1>5, <1>9, <1>10, TakesKeeps

LEMMA NextPreparationKeeps ==
    ASSUME IInv, NEW p \in Procs, NextPreparation(p)
    PROVE  IInv'
<1>1. TypeOK /\ At(p, "next") /\ job \in [Procs -> Job] BY DEF IInv, NextPreparation, TypeOK
<1>2. UNCHANGED <<marker, stores, told, troubles>> BY DEF NextPreparation
<1>3. troubles' \in 0 .. MaxTroubles BY <1>1, <1>2 DEF TypeOK
<1>4. job[p] \in Job /\ job[p].completing = FALSE BY <1>1, NotCompleting DEF At, Reconciling
<1>5. CASE Finish(p) BY <1>2, <1>3, <1>5, StopKeeps
<1>6. ASSUME NEW i \in job[p].left, Examine(p, i, job[p].left \ {i})
      PROVE  IInv'
  <2> DEFINE x == [job[p] EXCEPT !.at = "conclude", !.prep = i, !.verdict = Verdict(i),
                                 !.left = job[p].left \ {i}]
  <2>1. i \in Preps /\ job[p].left \ {i} \in SUBSET Preps BY <1>4 DEF Job
  <2>2. Verdict(i) \in Verdicts BY <2>1, VerdictHolds
  <2>3. job' = [job EXCEPT ![p] = x] BY <1>1, <1>6 DEF Examine
  <2>4. /\ x \in Job /\ x.at = "conclude" /\ x.prep = i /\ x.verdict = Verdict(i)
        /\ x.completing = FALSE
    BY <1>4, <2>1, <2>2 DEF Job, Stages, Reconciling
  <2> HIDE DEF x
  <2> QED BY <1>2, <1>6, <2>1, <2>3, <2>4, ExaminesKeeps DEF Examine
<1>7. ASSUME NEW i \in job[p].left, job' = [job EXCEPT ![p].left = @ \ {i}]
      PROVE  IInv'
  <2> DEFINE x == [job[p] EXCEPT !.left = job[p].left \ {i}]
  <2>1. job[p].left \ {i} \in SUBSET Preps BY <1>4 DEF Job
  <2>2. job' = [job EXCEPT ![p] = x] BY <1>1, <1>7
  <2>3. x \in Job /\ x.at = "next" /\ x.completing = FALSE BY <1>1, <1>4, <2>1 DEF Job, At
  <2> HIDE DEF x
  <2> QED BY <1>2, <1>3, <2>2, <2>3, QuietKeeps
<1> QED BY <1>5, <1>6, <1>7 DEF NextPreparation

LEMMA FinalizeKeeps ==
    ASSUME IInv, NEW p \in Procs, Finalize(p)
    PROVE  IInv'
<1>1. TypeOK /\ At(p, "finalize") /\ job \in [Procs -> Job] BY DEF IInv, Finalize, TypeOK
<1>2. UNCHANGED <<marker, stores, troubles>> /\ troubles' \in 0 .. MaxTroubles
  BY <1>1 DEF Finalize, TypeOK
<1>3. PICK i \in Preps : i = Prep(p) BY <1>1, Its DEF At
<1>4. Committed(i) /\ State(i) \in Settled BY <1>1, <1>3, Its DEF At, JobFits, CompletesCommit
<1>5. CASE /\ State(i) = "consumed" /\ LocksFree(DeploymentOf[i]) /\ UNCHANGED told
           /\ job' = [job EXCEPT ![p].at = "conclude", ![p].verdict = Verdict(i), ![p].completing = TRUE]
  <2> DEFINE x == [job[p] EXCEPT !.at = "conclude", !.verdict = Verdict(i), !.completing = TRUE]
  <2>1. job[p] \in Job /\ job[p].prep = i BY <1>1, <1>3, NotCompleting DEF At, Reconciling, Prep
  <2>2. Verdict(i) \in Verdicts BY VerdictHolds
  <2>3. job' = [job EXCEPT ![p] = x] BY <1>1, <1>5
  <2>4. x \in Job /\ x.at = "conclude" /\ x.prep = i /\ x.verdict = Verdict(i)
    BY <2>1, <2>2 DEF Job, Stages, Reconciling
  <2> HIDE DEF x
  <2>5. Active(i) BY <1>5 DEF Active
  <2> QED BY <1>2, <1>4, <1>5, <2>3, <2>4, <2>5, ExaminesKeeps
<1>6. CASE State(i) = "retired" /\ Tell(i, "committed") /\ Finish(p)
  BY <1>1, <1>2, <1>3, <1>6, AnswerKeeps
<1>7. CASE Tell(i, "pending") /\ Finish(p)
  BY <1>1, <1>2, <1>3, <1>7, AnswerKeeps
<1> QED BY <1>3, <1>5, <1>6, <1>7 DEF Finalize

-----------------------------------------------------------------------------
(* The invariant, and what follows from it.                                  *)

LEMMA InitIInv == Init => IInv
<1> SUFFICES ASSUME Init PROVE IInv OBVIOUS
<1> DEFINE m == [versions |-> {}, edits |-> 0]
<1>1. m \in Manifest BY DEF Manifest
<1>2. manifest \in [Assets -> Manifest] /\ \A a \in Assets : manifest[a].versions = {}
  BY <1>1 DEF Init
<1>3. marker \in [Preps -> Marker]
  BY <1>2 DEF Init, Marker, States, Proofs
<1>4. row \in [Deployments -> Row] BY DEF Init, Row
<1>5. job \in [Procs -> Job] /\ \A p \in Procs : job[p] = Idle BY IdleType DEF Init
<1>6. TypeOK BY <1>2, <1>3, <1>4, <1>5, AcceptAssumption DEF TypeOK, Init, Answers
<1>7. ASSUME NEW i \in Preps PROVE PrepFits(i) /\ Outcome(i)
  <2>1. marker[i].old = manifest /\ marker[i].proof = "none" /\ receipt[i] = None
        /\ told[i] = "nothing"
    BY DEF Init
  <2> QED BY <1>2, <2>1 DEF PrepFits, Untouched, Outcome
<1>8. ASSUME NEW p \in Procs
      PROVE  /\ JobFits(p) /\ \A i \in Preps : OutOf(p, i)
             /\ OperationLocks(job[p]) = {} /\ AssetLocks(job[p]) = {}
  <2>1. job[p].at = "idle" /\ job[p].completing = FALSE BY <1>5 DEF Idle
  <2> QED BY <2>1 DEF JobFits, Concerned, Committing, Reconciling, At, OutOf, OperationLocks, AssetLocks
<1> QED BY <1>6, <1>7, <1>8 DEF IInv, Disjoint

LEMMA StepKeeps ==
    ASSUME IInv, NEW p \in Procs, Step(p)
    PROVE  IInv'
BY PublishMarkerKeeps, ClaimKeeps, PublishVersionKeeps, PublishPayloadsKeeps, CommitRowKeeps,
   RefuseRowKeeps, ConsumeKeeps, FinalizeKeeps, ConcludeOpenKeeps, ConcludeTerminalKeeps,
   ContradictKeeps, RetireKeeps, NextPreparationKeeps, EditAssetKeeps, ChangeInputsKeeps,
   LockScanKeeps, ObserveKeeps, RecordAttemptKeeps DEF Step

LEMMA Inductive == IInv /\ [Next]_vars => IInv'
<1> SUFFICES ASSUME IInv, [Next]_vars PROVE IInv' OBVIOUS
<1>1. ASSUME NEW i \in Preps, Cancel(i) PROVE IInv' BY <1>1, CancelKeeps
<1>2. ASSUME NEW i \in Preps, NEW p \in Procs, BeginPrepare(p, i) \/ BeginCommit(p, i) PROVE IInv'
  BY <1>2, BeginPrepareKeeps, BeginCommitKeeps
<1>3. ASSUME NEW d \in Deployments, Recover(d) PROVE IInv' BY <1>3, BeginRecoverKeeps DEF Recover
<1>4. ASSUME NEW d \in Deployments, NEW p \in Procs, BeginChange(p, d) \/ BeginScan(p, d) PROVE IInv'
  BY <1>4, BeginChangeKeeps, BeginScanKeeps
<1>5. ASSUME NEW p \in Procs, NEW a \in Assets, BeginEdit(p, a) PROVE IInv' BY <1>5, BeginEditKeeps
<1>6. ASSUME NEW p \in Procs, Step(p) PROVE IInv' BY <1>6, StepKeeps
<1>7. ASSUME NEW p \in Procs, FailCommit(p) \/ FailReconcile(p) \/ Die(p) PROVE IInv'
  BY <1>7, FailCommitKeeps, FailReconcileKeeps, DieKeeps
<1>8. CASE UNCHANGED vars
  <2>1. UNCHANGED <<marker, manifest, payloads, row, receipt, job, told, troubles>> BY <1>8 DEF vars
  <2>2. TypeOK' BY <2>1 DEF IInv, TypeOK
  <2>3. \A i \in Preps : PrepFits(i)' /\ Outcome(i)'
    BY <2>1 DEF IInv, PrepFits, Untouched, Outcome, Committed, Unpublished, PublishedOnly, State
  <2>4. ASSUME NEW p \in Procs PROVE JobFits(p)'
    <3>1. At(p, "finalize") => CompletesCommit(p) BY DEF IInv, JobFits
    <3>2. Spared(p) BY <2>1, <3>1 DEF Spared, CompletesCommit, Committed, State
    <3> QED BY <2>1, <3>2, Undisturbed
  <2>5. \A p, q \in Procs : p # q => Disjoint(p, q)'
    BY <2>1 DEF IInv, Disjoint, OperationLocks, AssetLocks
  <2>6. \A p \in Procs, i \in Preps : OutOf(p, i)'
    BY <2>1 DEF IInv, OutOf, Active, State, At
  <2> QED BY <2>2, <2>3, <2>4, <2>5, <2>6 DEF IInv
<1> QED BY <1>1, <1>2, <1>3, <1>4, <1>5, <1>6, <1>7, <1>8 DEF Next

\* Every state of reverse accept beside edits, changes, scans and deaths fits:
\* the locks of operations are apart, what a commit or a reconciliation has
\* read still holds, and a reservation keeps other operations out.
THEOREM Invariance == Spec => []IInv
BY InitIInv, Inductive, PTL DEF Spec

\* Markers, manifests, rows, receipts and what operations hold are well typed.
THEOREM TypeCorrect == Spec => []TypeOK
<1>1. IInv => TypeOK BY DEF IInv
<1> QED BY <1>1, Invariance, PTL

\* What the user is told of a commit, and what a marker records as proved, is
\* true of the manifest, the payloads and the receipt (classifyFacts,
\* completionPending), whatever dies, throws or recovers in between.
THEOREM OutcomesAreTrue == Spec => []OutcomeIsTrue
<1>1. IInv => OutcomeIsTrue BY DEF IInv, Outcome, OutcomeIsTrue
<1> QED BY <1>1, Invariance, PTL

\* A commit writes its row only while the inputs and manifests are those the
\* user reviewed, but for the new Version (commitRenderedTargetAccept).
THEOREM CommitsReviewed == Spec => CommitsWhatWasReviewed
<1> DEFINE A == \A i \in Preps : receipt'[i] # receipt[i] =>
                   /\ row[DeploymentOf[i]].inputs = marker[i].inputs
                   /\ ManifestsArePost(i)
<1>1. IInv /\ [Next]_vars => [A]_vars
  <2> SUFFICES ASSUME IInv, [Next]_vars, UNCHANGED receipt \/ \E p \in Procs : CommitRow(p)
               PROVE  A
    BY ZenonT(60) DEF Next, Step, Recover, vars, stores, Cancel, BeginPrepare, BeginCommit, BeginRecover,
           BeginChange, BeginScan, BeginEdit, FailCommit, FailReconcile, Die, PublishMarker, Claim,
           PublishVersion, PublishPayloads, RefuseRow, Consume, Finalize, ConcludeOpen,
           ConcludeTerminal, Contradict, Retire, NextPreparation, EditAsset, ChangeInputs,
           LockScan, Observe, RecordAttempt
  <2>1. CASE UNCHANGED receipt BY <2>1
  <2>2. ASSUME NEW p \in Procs, CommitRow(p) PROVE A
    <3>1. At(p, "select") /\ job[p].at \in Committing BY <2>2 DEF CommitRow, At, Committing
    <3>2. CommitFits(p) BY <3>1 DEF IInv, JobFits
    <3>3. /\ row[DeploymentOf[Prep(p)]].inputs = marker[Prep(p)].inputs
          /\ ManifestsArePost(Prep(p))
      BY <3>1, <3>2 DEF CommitFits, At
    <3>4. \A i \in Preps : i # Prep(p) => receipt'[i] = receipt[i]
      BY <2>2 DEF CommitRow, IInv, TypeOK
    <3> QED BY <3>3, <3>4
  <2> QED BY <2>1, <2>2
<1> QED BY <1>1, Invariance, PTL DEF Spec, CommitsWhatWasReviewed

\* While a preparation reserves, its Assets are not edited and the inputs of
\* its Deployment change by commits only (assertMutationScope).
THEOREM FreezesHold == Spec => ReservationFreezes
<1> DEFINE A == \A i \in Preps : Active(i) =>
                   /\ \A a \in AssetsOf[DeploymentOf[i]] : manifest'[a].edits = manifest[a].edits
                   /\ row'[DeploymentOf[i]].inputs # row[DeploymentOf[i]].inputs => receipt' # receipt
<1>1. IInv /\ [Next]_vars => [A]_vars
  <2> SUFFICES ASSUME IInv, [Next]_vars,
                      \/ UNCHANGED <<manifest, row>>
                      \/ \E p \in Procs : \/ PublishVersion(p) \/ CommitRow(p) \/ EditAsset(p)
                                          \/ ChangeInputs(p) \/ Observe(p) \/ RecordAttempt(p)
               PROVE  A
    BY ZenonT(60) DEF Next, Step, Recover, vars, stores, Cancel, BeginPrepare, BeginCommit, BeginRecover,
           BeginChange, BeginScan, BeginEdit, FailCommit, FailReconcile, Die, PublishMarker, Claim,
           PublishPayloads, RefuseRow, Consume, Finalize, ConcludeOpen,
           ConcludeTerminal, Contradict, Retire, NextPreparation, LockScan
  <2> SUFFICES ASSUME NEW i \in Preps, Active(i)
               PROVE  /\ \A a \in AssetsOf[DeploymentOf[i]] : manifest'[a].edits = manifest[a].edits
                      /\ row'[DeploymentOf[i]].inputs # row[DeploymentOf[i]].inputs
                            => receipt' # receipt
    OBVIOUS
  <2>1. /\ manifest \in [Assets -> Manifest] /\ row \in [Deployments -> Row]
        /\ AssetsOf[DeploymentOf[i]] \subseteq Assets /\ DeploymentOf[i] \in Deployments
        /\ AssetOf[i] \in AssetsOf[DeploymentOf[i]]
    BY AcceptAssumption DEF IInv, TypeOK
  <2>2. CASE UNCHANGED <<manifest, row>> BY <2>2
  <2>3. ASSUME NEW p \in Procs, PublishVersion(p)
        PROVE  UNCHANGED row /\ \A a \in Assets : manifest'[a].edits = manifest[a].edits
    <3>1. PICK a \in Assets : a = AssetOf[Prep(p)]
      BY <2>3, Its DEF PublishVersion, Holding, Committing, At
    <3>2. manifest' = [manifest EXCEPT ![a] = Extended(manifest[a], Prep(p))] /\ UNCHANGED row
      BY <3>1 , <2>3 DEF PublishVersion
    <3>3. manifest[a] \in Manifest BY <2>1
    <3>4. Extended(manifest[a], Prep(p)).edits = manifest[a].edits BY <3>3 DEF Extended, Manifest
    <3> QED BY <2>1, <3>1, <3>2, <3>4
  <2>4. ASSUME NEW p \in Procs, CommitRow(p) PROVE UNCHANGED manifest /\ receipt' # receipt
    <3>1. At(p, "select") /\ job[p].at \in Committing /\ Prep(p) \in Preps
      BY <2>4, Its DEF CommitRow, At, Committing, Holding
    <3>2. receipt[Prep(p)] = None BY <3>1 DEF IInv, JobFits, CommitFits, At
    <3>3. PICK d \in Deployments : d = DeploymentOf[Prep(p)] BY <3>1, AcceptAssumption
    <3>4. row[d].inputs \in Nat /\ row[d].observed \in Nat BY <2>1 DEF Row
    <3>5. receipt'[Prep(p)] # None
      BY <2>4, <3>1, <3>3, <3>4, NoneAssumption DEF CommitRow, IInv, TypeOK, Row
    <3> QED BY <2>4, <3>2, <3>5 DEF CommitRow
  <2>5. ASSUME NEW p \in Procs, EditAsset(p)
        PROVE  UNCHANGED row /\ \A a \in AssetsOf[DeploymentOf[i]] : manifest'[a] = manifest[a]
    <3>1. At(p, "edit") /\ OutOf(p, i) BY <2>5 DEF EditAsset, IInv
    <3>2. job[p].on \notin AssetsOf[DeploymentOf[i]] BY <3>1 DEF OutOf
    <3> QED BY <2>1, <2>5, <3>2 DEF EditAsset
  <2>6. ASSUME NEW p \in Procs, ChangeInputs(p)
        PROVE  UNCHANGED manifest /\ row'[DeploymentOf[i]] = row[DeploymentOf[i]]
    <3>1. At(p, "change") /\ OutOf(p, i) BY <2>6 DEF ChangeInputs, IInv
    <3>2. job[p].on # DeploymentOf[i] BY <2>1, <3>1 DEF OutOf
    <3> QED BY <2>1, <2>6, <3>2 DEF ChangeInputs
  <2>7. ASSUME NEW p \in Procs, Observe(p) \/ RecordAttempt(p)
        PROVE  UNCHANGED manifest /\ row'[DeploymentOf[i]].inputs = row[DeploymentOf[i]].inputs
    <3>1. UNCHANGED manifest /\ (Observed(job[p].on) \/ UNCHANGED row)
      BY <2>7 DEF Observe, RecordAttempt
    <3>2. PICK d \in Deployments : d = job[p].on
      BY <2>7 DEF Observe, RecordAttempt, IInv, JobFits, At
    <3>3. [row[d] EXCEPT !.observed = @ + 1].inputs = row[d].inputs BY <3>2, Counted DEF IInv
    <3>4. CASE Observed(d)
      <4>1. row' = [row EXCEPT ![d] = [row[d] EXCEPT !.observed = @ + 1]] BY <2>1, <3>4 DEF Observed
      <4> QED BY <2>1, <3>1, <3>3, <4>1
    <3> QED BY <3>1, <3>2, <3>4
  <2> QED BY <2>1, <2>2, <2>3, <2>4, <2>5, <2>6, <2>7
<1> QED BY <1>1, Invariance, PTL DEF Spec, ReservationFreezes

=============================================================================
