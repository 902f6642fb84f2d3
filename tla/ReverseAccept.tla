--------------------------- MODULE ReverseAccept ---------------------------
(* Reverse accept: a file the user edited in a deployed location becomes a   *)
(* new Version of its Asset, selected by the Deployment. Its preparation     *)
(* (prepareRenderedTargetAccept), commit (commitRenderedTargetAccept and     *)
(* executeClaimedCommit), completion, cancellation and recovery              *)
(* (reconcileReverseAcceptPreparationCore), beside what else changes the     *)
(* same Assets and Deployments: gated edits, and scans.                      *)
(*                                                                           *)
(* Three stores take part and none commits with another: the marker of the   *)
(* preparation, the Asset manifests, and the row of the Deployment. Locks    *)
(* are kernel leases, all of an operation taken or refused at once.          *)
EXTENDS Naturals

CONSTANTS
    Procs,          \* operations under way, of one or several processes
    Preps,          \* preparation identifiers, in the order recovery takes them
    Assets, Deployments,
    AssetsOf,       \* the Assets a Deployment uses
    DeploymentOf, AssetOf,  \* what a preparation is made for: its Deployment, the Asset that gets the Version
    None,
    MaxTroubles     \* bound of a run: deaths, errors, edits, changes and scans together

ASSUME AcceptAssumption ==
    /\ Preps \subseteq Nat
    /\ AssetsOf \in [Deployments -> SUBSET Assets]
    /\ DeploymentOf \in [Preps -> Deployments]
    /\ AssetOf \in [Preps -> Assets]
    /\ \A i \in Preps : AssetOf[i] \in AssetsOf[DeploymentOf[i]]
    /\ MaxTroubles \in Nat

VARIABLES
    marker,     \* the durable marker of each preparation
    manifest,   \* the manifest of each Asset: its Versions, and other edits
    payloads,   \* preparations whose content lies in the Deployment's payload pool
    row,        \* the State row of each Deployment: writes of its inputs, of its observation
    receipt,    \* the row a preparation's commit wrote, kept with its commit receipt
    job,        \* what each operation does, and its locals
    told,       \* what the user was last told of a preparation's commit
    troubles    \* how much of the bound is used

vars == <<marker, manifest, payloads, row, receipt, job, told, troubles>>
stores == <<manifest, payloads, row, receipt>>

-----------------------------------------------------------------------------
Manifest == [versions : SUBSET Preps, edits : Nat]
Row == [inputs : Nat, observed : Nat]

ASSUME NoneAssumption == None \notin Row \cup Preps \cup Assets \cup Deployments

\* "directory" is a marker's directory without the marker.
States == {"none", "directory", "prepared", "cancelled", "expired", "claimed",
           "consumed", "failed", "recovery_required", "retired"}
Proofs == {"none", "committed", "pre_authority", "staged_manifest_published"}
\* old and inputs are what the user reviewed, pre the row of the claimed intent.
Marker == [state : States, old : [Assets -> Manifest], inputs : Nat,
           pre : Row \cup {None}, proof : Proofs]

Committing == {"claim", "publish", "payloads", "select", "consume"}
Reconciling == {"conclude", "retire"}
Stages == {"idle", "mark", "finalize", "edit", "change", "lock", "observe", "record", "next"}
              \cup Committing \cup Reconciling
Verdicts == {"none", "contradiction"} \cup (Proofs \ {"none"})
\* on is the Deployment or the Asset, seen the row as read, left what is still to reconcile.
Job == [at : Stages, prep : Preps \cup {None}, on : Assets \cup Deployments \cup {None},
        seen : Row \cup {None}, verdict : Verdicts, left : SUBSET Preps, completing : BOOLEAN]
Answers == {"nothing", "unknown", "not_published", "published_not_selected", "pending", "committed"}

TypeOK ==
    /\ marker \in [Preps -> Marker]
    /\ manifest \in [Assets -> Manifest]
    /\ payloads \subseteq Preps
    /\ row \in [Deployments -> Row]
    /\ receipt \in [Preps -> Row \cup {None}]
    /\ job \in [Procs -> Job]
    /\ told \in [Preps -> Answers]
    /\ troubles \in 0 .. MaxTroubles

Idle == [at |-> "idle", prep |-> None, on |-> None, seen |-> None,
         verdict |-> "none", left |-> {}, completing |-> FALSE]

Init ==
    /\ manifest = [a \in Assets |-> [versions |-> {}, edits |-> 0]]
    /\ marker = [i \in Preps |-> [state |-> "none", old |-> manifest, inputs |-> 0,
                                  pre |-> None, proof |-> "none"]]
    /\ payloads = {}
    /\ row = [d \in Deployments |-> [inputs |-> 0, observed |-> 0]]
    /\ receipt = [i \in Preps |-> None]
    /\ job = [p \in Procs |-> Idle]
    /\ told = [i \in Preps |-> "nothing"]
    /\ troubles = 0

-----------------------------------------------------------------------------
(* Locks, markers and what they block.                                       *)
At(p, stage) == job[p].at = stage
Prep(p) == job[p].prep
State(i) == marker[i].state

\* The operation locks and Asset locks of a job.
OperationLocks(j) ==
    IF j.at \in {"mark"} \cup Committing \cup Reconciling THEN {DeploymentOf[j.prep]}
    ELSE IF j.at \in {"change", "observe"} THEN {j.on} ELSE {}
AssetLocks(j) ==
    IF j.at \in Committing \cup Reconciling THEN AssetsOf[DeploymentOf[j.prep]]
    ELSE IF j.at \in {"change", "observe"} THEN AssetsOf[j.on]
    ELSE IF j.at = "edit" THEN {j.on} ELSE {}

OperationFree(d) == \A p \in Procs : d \notin OperationLocks(job[p])
AssetsFree(A) == \A p \in Procs : AssetLocks(job[p]) \cap A = {}
LocksFree(d) == OperationFree(d) /\ AssetsFree(AssetsOf[d])
\* Only a commit takes the settings lock here.
SettingsFree == \A p \in Procs : job[p].at \notin Committing

Active(i) == State(i) \in {"claimed", "consumed", "failed", "recovery_required"}
\* A directory without a marker hides whom it reserves for.
GlobalFreeze == \E i \in Preps : State(i) = "directory"
\* Mutant: only a claimed preparation reserves.
BlockedByClaims(A) ==
    GlobalFreeze \/ \E i \in Preps : State(i) = "claimed" /\ AssetsOf[DeploymentOf[i]] \cap A # {}

Blocked(A) ==
    GlobalFreeze \/ \E i \in Preps : Active(i) /\ AssetsOf[DeploymentOf[i]] \cap A # {}

SetState(i, state) == marker' = [marker EXCEPT ![i].state = state]
Goto(p, stage) == job' = [job EXCEPT ![p].at = stage]
Finish(p) == job' = [job EXCEPT ![p] = Idle]
Trouble == troubles < MaxTroubles /\ troubles' = troubles + 1
Tell(i, answer) == told' = [told EXCEPT ![i] = answer]

-----------------------------------------------------------------------------
(* Preparation and cancellation. The draft is read before the operation lock *)
(* is taken: what changes between is the same as a change after.             *)
BeginPrepare(p, i) ==
    /\ At(p, "idle") /\ State(i) = "none" /\ OperationFree(DeploymentOf[i])
    /\ SetState(i, "directory")
    /\ job' = [job EXCEPT ![p].at = "mark", ![p].prep = i]
    /\ UNCHANGED <<stores, told, troubles>>

PublishMarker(p) ==
    /\ At(p, "mark")
    /\ marker' = [marker EXCEPT ![Prep(p)].state = "prepared", ![Prep(p)].old = manifest,
                                ![Prep(p)].inputs = row[DeploymentOf[Prep(p)]].inputs]
    /\ Finish(p)
    /\ UNCHANGED <<stores, told, troubles>>

Cancel(i) ==
    /\ State(i) = "prepared" /\ OperationFree(DeploymentOf[i])
    /\ \E state \in {"cancelled", "expired"} : SetState(i, state)
    /\ UNCHANGED <<stores, job, told, troubles>>

-----------------------------------------------------------------------------
(* Commit.                                                                   *)
ManifestsAreOld(i) ==
    \A a \in AssetsOf[DeploymentOf[i]] : manifest[a] = marker[i].old[a]
Extended(m, i) == [m EXCEPT !.versions = @ \cup {i}]
ManifestsArePost(i) ==
    \A a \in AssetsOf[DeploymentOf[i]] :
        manifest[a] = IF a = AssetOf[i] THEN Extended(marker[i].old[a], i) ELSE marker[i].old[a]

\* Mutant: the inputs of the Deployment are not compared.
ManifestsAsReviewed(i) == ManifestsAreOld(i)

\* Nothing changed since the user reviewed the draft.
StillAsReviewed(i) ==
    ManifestsAreOld(i) /\ row[DeploymentOf[i]].inputs = marker[i].inputs

BeginCommit(p, i) ==
    /\ At(p, "idle") /\ State(i) = "prepared"
    /\ LocksFree(DeploymentOf[i]) /\ SettingsFree
    /\ \/ SetState(i, "expired") /\ UNCHANGED job
       \/ /\ StillAsReviewed(i)
          /\ job' = [job EXCEPT ![p].at = "claim", ![p].prep = i, ![p].seen = row[DeploymentOf[i]]]
          /\ UNCHANGED marker
    /\ UNCHANGED <<stores, told, troubles>>

Claim(p) ==
    /\ At(p, "claim")
    /\ marker' = [marker EXCEPT ![Prep(p)].state = "claimed", ![Prep(p)].pre = job[p].seen]
    /\ Goto(p, "publish")
    /\ UNCHANGED <<stores, told, troubles>>

PublishVersion(p) ==
    /\ At(p, "publish")
    /\ manifest' = [manifest EXCEPT ![AssetOf[Prep(p)]] = Extended(@, Prep(p))]
    /\ Goto(p, "payloads")
    /\ UNCHANGED <<marker, payloads, row, receipt, told, troubles>>

PublishPayloads(p) ==
    /\ At(p, "payloads")
    /\ payloads' = payloads \cup {Prep(p)}
    /\ Goto(p, "select")
    /\ UNCHANGED <<marker, manifest, row, receipt, told, troubles>>

\* One transaction: the selection, the applied state and the receipt.
CommitRow(p) ==
    LET i == Prep(p)
        d == DeploymentOf[i]
        post == [inputs |-> row[d].inputs + 1, observed |-> row[d].observed + 1] IN
    /\ At(p, "select") /\ row[d] = job[p].seen
    /\ row' = [row EXCEPT ![d] = post]
    /\ receipt' = [receipt EXCEPT ![i] = post]
    /\ Goto(p, "consume")
    /\ UNCHANGED <<marker, manifest, payloads, told, troubles>>

\* The comparison of the transaction fails: the outcome stays open.
RefuseRow(p) ==
    /\ At(p, "select") /\ row[DeploymentOf[Prep(p)]] # job[p].seen
    /\ Tell(Prep(p), "unknown") /\ Finish(p)
    /\ UNCHANGED <<marker, stores, troubles>>

Resolve(i, state, proof) ==
    marker' = [marker EXCEPT ![i].state = state, ![i].proof = proof]

Consume(p) ==
    /\ At(p, "consume")
    /\ Resolve(Prep(p), "consumed", "committed")
    /\ Goto(p, "finalize")
    /\ UNCHANGED <<stores, told, troubles>>

\* A step that throws while the commit holds its locks: what is left in the
\* three stores decides whether a failure can be proved.
FailCommit(p) ==
    LET i == Prep(p)
        fails(proof, answer) ==
            /\ row[DeploymentOf[i]] = job[p].seen /\ receipt[i] = None
            /\ Resolve(i, "failed", proof) /\ Tell(i, answer)
    IN
    /\ Trouble
    /\ Finish(p)
    /\ \/ job[p].at \in Committing /\ Tell(i, "unknown") /\ UNCHANGED marker
       \/ /\ job[p].at \in {"publish", "payloads"} /\ ManifestsAreOld(i)
          /\ fails("pre_authority", "not_published")
       \/ /\ job[p].at \in {"payloads", "select"} /\ ~ManifestsAreOld(i) /\ ManifestsArePost(i)
          /\ fails("staged_manifest_published", "published_not_selected")
    /\ UNCHANGED stores

-----------------------------------------------------------------------------
(* Reconciliation, by the commit itself once its locks are released or by a  *)
(* recovery of the Deployment.                                               *)
FilesystemIsPost(i) == ~ManifestsAreOld(i) /\ ManifestsArePost(i) /\ i \in payloads

Verdict(i) ==
    LET current == row[DeploymentOf[i]] IN
    IF receipt[i] # None
    THEN IF current = receipt[i] /\ FilesystemIsPost(i) THEN "committed" ELSE "contradiction"
    ELSE IF current # marker[i].pre THEN "contradiction"
    ELSE IF ManifestsAreOld(i) THEN "pre_authority"
    ELSE IF FilesystemIsPost(i) THEN "staged_manifest_published" ELSE "contradiction"

\* Mutant: the facts are read beside a running commit.
ExamineUnlocked(p, i, left) ==
    /\ Active(i)
    /\ job' = [job EXCEPT ![p].at = "conclude", ![p].prep = i, ![p].verdict = Verdict(i),
                          ![p].left = left]

\* Locks, the marker again, and the facts of the three stores.
Examine(p, i, left) ==
    /\ LocksFree(DeploymentOf[i]) /\ Active(i)
    /\ job' = [job EXCEPT ![p].at = "conclude", ![p].prep = i, ![p].verdict = Verdict(i),
                          ![p].left = left]

Reconciled(p) ==
    IF job[p].completing
    THEN Tell(Prep(p), "committed") /\ Finish(p)
    ELSE /\ job' = [job EXCEPT ![p] = [Idle EXCEPT !.at = "next", !.left = job[p].left]]
         /\ UNCHANGED told

Unreconciled(p) ==
    /\ Finish(p)
    /\ IF job[p].completing THEN Tell(Prep(p), "pending") ELSE UNCHANGED told

ConcludeOpen(p) ==
    LET i == Prep(p) IN
    /\ At(p, "conclude") /\ State(i) \in {"claimed", "recovery_required"}
    /\ job[p].verdict # "contradiction"
    /\ Resolve(i, IF job[p].verdict = "committed" THEN "consumed" ELSE "failed", job[p].verdict)
    /\ Goto(p, "retire")
    /\ UNCHANGED <<stores, told, troubles>>

ConcludeTerminal(p) ==
    LET i == Prep(p) IN
    /\ At(p, "conclude") /\ State(i) \in {"consumed", "failed"}
    /\ job[p].verdict = marker[i].proof
    /\ SetState(i, "retired") /\ Reconciled(p)
    /\ UNCHANGED <<stores, troubles>>

Contradict(p) ==
    LET i == Prep(p) IN
    /\ At(p, "conclude")
    /\ \/ job[p].verdict = "contradiction"
       \/ State(i) \in {"consumed", "failed"} /\ job[p].verdict # marker[i].proof
    /\ SetState(i, "recovery_required") /\ Unreconciled(p)
    /\ UNCHANGED <<stores, troubles>>

Retire(p) ==
    /\ At(p, "retire")
    /\ SetState(Prep(p), "retired") /\ Reconciled(p)
    /\ UNCHANGED <<stores, troubles>>

\* The marker cannot be written, or read again.
FailReconcile(p) ==
    /\ job[p].at \in Reconciling \cup {"finalize"}
    /\ Trouble
    /\ IF At(p, "finalize") THEN Tell(Prep(p), "pending") /\ Finish(p) ELSE Unreconciled(p)
    /\ UNCHANGED <<marker, stores>>

\* Completion: only of a commit still "consumed", or retired as one meanwhile.
Finalize(p) ==
    LET i == Prep(p) IN
    /\ At(p, "finalize")
    /\ \/ /\ State(i) = "consumed" /\ LocksFree(DeploymentOf[i])
          /\ job' = [job EXCEPT ![p].at = "conclude", ![p].verdict = Verdict(i), ![p].completing = TRUE]
          /\ UNCHANGED told
       \/ /\ State(i) = "retired" /\ marker[i].proof = "committed" /\ LocksFree(DeploymentOf[i])
          /\ Tell(i, "committed") /\ Finish(p)
       \/ /\ State(i) \notin {"consumed", "retired"} \/ ~LocksFree(DeploymentOf[i])
          /\ Tell(i, "pending") /\ Finish(p)
    /\ UNCHANGED <<marker, stores, troubles>>

\* Mutant: a recovery passes over what is consumed or failed.
ToReconcileOpen(d) ==
    {i \in Preps : State(i) \in {"claimed", "recovery_required"} /\ DeploymentOf[i] = d}

ToReconcile(d) == {i \in Preps : Active(i) /\ DeploymentOf[i] = d}

BeginRecover(p, d) ==
    /\ At(p, "idle") /\ ~GlobalFreeze /\ ToReconcile(d) # {}
    /\ job' = [job EXCEPT ![p].at = "next", ![p].left = ToReconcile(d)]
    /\ UNCHANGED <<marker, stores, told, troubles>>

\* In the order of the identifiers; what is busy or not resolved ends the recovery.
NextPreparation(p) ==
    /\ At(p, "next")
    /\ \/ job[p].left = {} /\ Finish(p)
       \/ \E i \in job[p].left :
             /\ \A k \in job[p].left : i <= k
             /\ \/ Examine(p, i, job[p].left \ {i})
                \/ LocksFree(DeploymentOf[i]) /\ ~Active(i) /\ job' = [job EXCEPT ![p].left = @ \ {i}]
                \/ ~LocksFree(DeploymentOf[i]) /\ Finish(p)
    /\ UNCHANGED <<marker, stores, told, troubles>>

-----------------------------------------------------------------------------
(* What else changes Assets and Deployments.                                 *)
BeginEdit(p, a) ==
    /\ At(p, "idle") /\ ~Blocked({a}) /\ AssetsFree({a})
    /\ Trouble
    /\ job' = [job EXCEPT ![p].at = "edit", ![p].on = a]
    /\ UNCHANGED <<marker, stores, told>>

EditAsset(p) ==
    /\ At(p, "edit")
    /\ manifest' = [manifest EXCEPT ![job[p].on].edits = @ + 1]
    /\ Finish(p)
    /\ UNCHANGED <<marker, payloads, row, receipt, told, troubles>>

BeginChange(p, d) ==
    /\ At(p, "idle") /\ LocksFree(d) /\ ~Blocked(AssetsOf[d])
    /\ Trouble
    /\ job' = [job EXCEPT ![p].at = "change", ![p].on = d]
    /\ UNCHANGED <<marker, stores, told>>

ChangeInputs(p) ==
    /\ At(p, "change")
    /\ row' = [row EXCEPT ![job[p].on].inputs = @ + 1]
    /\ Finish(p)
    /\ UNCHANGED <<marker, manifest, payloads, receipt, told, troubles>>

\* A scan remembers the row before it asks the gate, and asks only then.
BeginScan(p, d) ==
    /\ At(p, "idle")
    /\ Trouble
    /\ job' = [job EXCEPT ![p].at = IF Blocked(AssetsOf[d]) THEN "record" ELSE "lock",
                          ![p].on = d, ![p].seen = row[d]]
    /\ UNCHANGED <<marker, stores, told>>

LockScan(p) ==
    /\ At(p, "lock")
    /\ Goto(p, IF LocksFree(job[p].on) /\ row[job[p].on].inputs = job[p].seen.inputs
               THEN "observe" ELSE "record")
    /\ UNCHANGED <<marker, stores, told, troubles>>

Observed(d) == row' = [row EXCEPT ![d].observed = @ + 1]

Observe(p) ==
    /\ At(p, "observe")
    /\ \/ Observed(job[p].on) /\ Finish(p)
       \/ Goto(p, "record") /\ UNCHANGED row
    /\ UNCHANGED <<marker, manifest, payloads, receipt, told, troubles>>

\* An attempt that failed is recorded without a lock, if the row is still the one remembered.
RecordAttempt(p) ==
    /\ At(p, "record")
    /\ IF row[job[p].on] = job[p].seen THEN Observed(job[p].on) ELSE UNCHANGED row
    /\ Finish(p)
    /\ UNCHANGED <<marker, manifest, payloads, receipt, told, troubles>>

-----------------------------------------------------------------------------
\* A process dies, or an operation throws where nothing more is done about it.
Die(p) ==
    /\ ~At(p, "idle")
    /\ Trouble
    /\ Finish(p)
    /\ UNCHANGED <<marker, stores, told>>

Step(p) ==
    \/ PublishMarker(p)
    \/ Claim(p) \/ PublishVersion(p) \/ PublishPayloads(p) \/ CommitRow(p) \/ RefuseRow(p)
    \/ Consume(p) \/ Finalize(p)
    \/ ConcludeOpen(p) \/ ConcludeTerminal(p) \/ Contradict(p) \/ Retire(p)
    \/ NextPreparation(p)
    \/ EditAsset(p) \/ ChangeInputs(p)
    \/ LockScan(p) \/ Observe(p) \/ RecordAttempt(p)

Recover(d) == \E p \in Procs : BeginRecover(p, d)

Next ==
    \/ \E i \in Preps : Cancel(i) \/ \E p \in Procs : BeginPrepare(p, i) \/ BeginCommit(p, i)
    \/ \E d \in Deployments : Recover(d) \/ \E p \in Procs : BeginChange(p, d) \/ BeginScan(p, d)
    \/ \E p \in Procs, a \in Assets : BeginEdit(p, a)
    \/ \E p \in Procs : Step(p) \/ FailCommit(p) \/ FailReconcile(p) \/ Die(p)

Spec == Init /\ [][Next]_vars

\* An operation that began goes on; the user asks again for the recovery of a
\* Deployment that is not settled.
Fairness == (\A p \in Procs : WF_vars(Step(p))) /\ \A d \in Deployments : SF_vars(Recover(d))
FairSpec == Spec /\ Fairness

-----------------------------------------------------------------------------
(* Properties.                                                               *)

\* What the user is told of a commit, and what a marker records as proved, is
\* what happened: the Version is in its manifest, and the Deployment selected
\* it, or not (classifyClaimedBeforeDatabase, classifyClaimedAfterDatabaseAttempt,
\* classifyFacts, completionPending). A claimed outcome decided without the
\* locks, or from one store alone, breaks it.
Committed(i) == receipt[i] # None /\ i \in manifest[AssetOf[i]].versions /\ i \in payloads
Unpublished(i) == receipt[i] = None /\ i \notin manifest[AssetOf[i]].versions
PublishedOnly(i) == receipt[i] = None /\ i \in manifest[AssetOf[i]].versions

OutcomeIsTrue == \A i \in Preps :
    /\ told[i] \in {"pending", "committed"} \/ marker[i].proof = "committed" => Committed(i)
    /\ told[i] = "not_published" \/ marker[i].proof = "pre_authority" => Unpublished(i)
    /\ told[i] = "published_not_selected" \/ marker[i].proof = "staged_manifest_published"
          => PublishedOnly(i)
    /\ told[i] = "committed" => State(i) = "retired"

\* What is committed is what the user reviewed: the inputs of the Deployment
\* and the manifests of its Assets are those of the preparation, but for the
\* new Version, at the moment the row is written (commitRenderedTargetAccept).
CommitsWhatWasReviewed ==
    [][\A i \in Preps : receipt'[i] # receipt[i] =>
          /\ row[DeploymentOf[i]].inputs = marker[i].inputs
          /\ ManifestsArePost(i)]_vars

\* From the claim to the retirement of a preparation nobody edits its Assets,
\* and its Deployment's inputs change by commits only (assertMutationScope and
\* the locks of the gated mutations).
ReservationFreezes ==
    [][\A i \in Preps : Active(i) =>
          /\ \A a \in AssetsOf[DeploymentOf[i]] : manifest'[a].edits = manifest[a].edits
          /\ row'[DeploymentOf[i]].inputs # row[DeploymentOf[i]].inputs => receipt' # receipt]_vars

\* What recovery cannot get over: a directory a dead preparation left, and an
\* active preparation whose stores someone else has changed, or whose process
\* died between the manifest and the payloads.
Littered == \E i \in Preps :
    State(i) = "directory" /\ \A p \in Procs : ~(At(p, "mark") /\ Prep(p) = i)
Abandoned(i) == \A p \in Procs : ~(job[p].at \in Committing /\ Prep(p) = i)
Spoilt(i) ==
    /\ Active(i)
    /\ \/ row[DeploymentOf[i]] \notin {marker[i].pre, receipt[i]}
       \/ ~ManifestsAreOld(i) /\ ~ManifestsArePost(i)
       \/ Abandoned(i) /\ ~ManifestsAreOld(i) /\ i \notin payloads

\* Every reservation ends, unless it is spoilt, or one that recovery takes first.
ReservationEnds == \A i \in Preps :
    Active(i) ~> (\/ ~Active(i) \/ Littered
                  \/ \E k \in Preps : k <= i /\ DeploymentOf[k] = DeploymentOf[i] /\ Spoilt(k))

\* A commit that is told to be pending ("Recover this managed location to
\* finish updating its local state.") is retired by recovery in the end.
PendingIsFinished == \A i \in Preps : told[i] = "pending" ~> State(i) = "retired"
=============================================================================
