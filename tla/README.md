# A verification project for Open Agent Asset Manager

TLA+ models of the parts of Open Agent Asset Manager that can lose or corrupt a
user's work: the deployment transaction, the publication of prepared files and
trees, the way an edited file becomes a new Version, the replacement of the whole
state by a backup, the Host that carries all of this with its clients, and the
Desktop that keeps the Host running. TLC checks them on small instances; TLAPS
proves the safety of all six for every number of processes, Deployments,
publications, Assets, Hosts, restores and requests.

Paths below are relative to `src/packages/`; `deployment/`, `orchestration/` and
`reverse/` stand for `core/src/deployment/` and so on, `host/` for
`app-server/host/src/`, `main/` for `client/desktop/src/main/`.

## 1. Inventory

The program keeps a library of agent assets (skills, rules, MCP servers, ...) and
deploys versions of them into the directories of coding tools. A desktop or
headless client talks to an app server; its Host calls the core library; the core
reads the catalog, asks adapters to render a plan, and writes files in the user's
projects and home directory.

| component | state it keeps | operations | model |
|---|---|---|---|
| Deployment executor (`deployment-executor.ts`, `local-target-transaction.ts`, `deployment-target-*.ts`) | none of its own; leases, journal, files, row | `executeDeployment`: lock, check, journal, write, verify, commit, finalize | `DeploymentTransaction` |
| Target file I/O (`deployment-target-cas.ts`, `-io.ts`, `-verify.ts`) | target files | `casWriteAll`, `rollbackToOld`, `verifyAll` | same |
| Journal (`deployment-journal.ts`) | one marker file per transaction under `transactions/` | publish, scan, reservations, delete | same |
| State row (`deployment-state-ops.ts`) | tables `deployments`, `deployment_files` in SQLite | baseline, commit pointer, occupancy, commit | same |
| Recovery (`deployment-recovery.ts`, `deployment-file-recovery.ts`) | none | `recoverDeploymentProduction` | same |
| Deployment service and mutation gate (`core-deployment-service.ts`, `core-mutation-scope.ts`) | the row's inputs and assets | create, update inputs, soft delete | same, and `ReverseAccept` |
| Physical path locks (`physical-path-locks.ts`) | kernel leases on lock files | acquire a closure, release | all-or-nothing in `DeploymentTransaction` |
| Publication (`deployment-publication*.ts`) | staging root, private slots, receipts in a version 4 journal | `executePublications`, `recoverPublications`, `finalizePublications` | `DeploymentPublication` |
| Unix safe filesystem (`shared/src/paths/unix-like/`) | the file system | durable publish, move, remove | the steps of its callers |
| Reverse accept (`core/src/reverse/`, `reverse-accept-completion.ts`) | preparation markers, a new Version, the row it selects | prepare, cancel, commit, complete, recover | `ReverseAccept` |
| Inspection (`deployment-inspection-service.ts`) | the row's observation | scan, record an attempt | `ReverseAccept` |
| State backup and restore (`state-*.ts`) | the profile directory, transaction directories with a phase marker | back up, restore, reconcile at start, reopen | `StateRestore`, `StateProfile` |
| App server Host (`host-runtime.ts`, `protocol-connection.ts`, `operation-manager.ts`) | lifecycle, connections, operations, completed operations | requests, long operations, restore, drain, shutdown | `HostRuntime` |
| Client connection (`client/framework/src/client-connection.ts`) | pending requests, operation handles | request, observe, cancel, close | `ClientConnection`, `HostSession` |
| Desktop main process (`utility-host-supervisor.ts`, `desktop-quit-coordinator.ts`) and the Host process (`host-process-runtime.ts`) | the process, its timers and requests; the quit attempt | start, replace, drain, shut down, quit | `HostProcess`, `UtilityHostSupervisor`, `DesktopSession` |
| Managed directories of version 2 journals | created-directory receipts | create, roll back | no |
| Restricted and WSL target channel; pool of restricted processes; review records | child processes and pipes; expiring records | the same transaction at a distance | no |
| Catalog staging, version authority, payload store | immutable version directories | stage, commit, reindex | the commit of a Version in `ReverseAccept` |
| Lifecycle orchestration, render, source import, adapters, settings | plans (values) | compute what a Deployment should contain | constants |
| Headless client, Desktop views | presentation | | no |

**How they interact.** Processes share the target files, the `transactions/`
directory, the state database, the catalog's manifests and the markers of reverse
accepts. A deploy takes the lease of its
Deployment, then the leases of every physical key its files fall under, scans the
markers of all Deployments, publishes its own marker, writes, commits one database
transaction and deletes the marker. A marker that is still there after its process
is gone is a promise that recovery keeps: if the row's commit pointer names the
transaction, recovery goes forward, else it goes back. Version 4 journals hand the
file work to the publication engine, which moves whole files and trees in and out of
a private staging root and asks the journal's host to persist a receipt between its
calls. Nothing coordinates with the user's editor, nor with the coding tools that
read and sometimes write the same files.

A reverse accept goes the other way: it reserves the Assets of a Deployment with a
marker of its own, adds a Version to a manifest, and then selects it in the row; its
recovery decides from the three stores what happened. A restore renames the profile
directory away and another one into its place, so it needs the Host to itself: the
Host stops taking requests, waits for its operations and, in the end, asks the
Desktop to replace its process. Clients and Host exchange messages over ports that
lose what is under way when either end closes; the Desktop and the Host process
exchange commands and events, of which those of a process that was replaced may
still arrive.

**What is hard.** Every pair of calls can be separated by a crash, by another
process and by the user. The marker and the row are two stores with no common
commit. Leases die with their process, so the marker alone must keep others out.
The file system has no compare-and-swap: an identity is checked, then a rename
follows. Recovery is itself interrupted, and recovers its own remains. What makes
each component correct:

- executor, journal, locks: reservations of active journals are disjoint; every
  change of a file is announced by a marker and made under its leases;
- row: one owner per path; the row fits every active marker on the side its pointer
  selects; nothing edits a Deployment with an active marker;
- recovery: resolution is all or nothing; every journal is resolved in the end; what is
  written or removed is what was read there;
- publication: the tree to go back to exists somewhere until the marker is gone; no
  bytes of the user are lost; receipts are accepted in whatever order operations and
  recoveries produce them; nothing is left over when the marker goes;
- reverse accept: what the user is told and what a marker records as proved is what
  the stores hold; what is committed is what was reviewed; a reservation keeps others
  out, and ends;
- restore: the profile is replaced as a unit; no start finds directories its marker
  does not explain; a Host serves only a settled profile; the user's archives stay
  within reach;
- Host and clients: a client is told the truth, once; nothing uses Core after a
  drain, or beside a restore; every wait ends;
- Desktop: one Host process at a time; ready means booted; a clean quit leaves no
  Host and rests on the Host's own release of the state; every startup and quit
  concludes.

`PROJECT.json` lists the hazards behind these properties, each at its line.

## 2. Modules

| module | what it is |
|---|---|
| `DeploymentTransaction` | executor, file I/O, journal, row, recovery, gate; any number of processes |
| `TransactionReservation` | what the transaction promises to others: keys are reserved from opening to closing, by transactions that commit at most once |
| `DeploymentTransaction_proofs`, `_safety`, `_actions` | type correctness; the inductive invariant and the safety theorems; action properties and refinement |
| `DeploymentPublication`, `DeploymentPublication_proofs` | the publication engine on one journal, with its user and its deaths; proofs |
| `HostRuntime` | the Host: connections, requests, operations, restore, drain, shutdown |
| `ClientConnection` | the clients' ends: requests, handles, closing |
| `HostSession`, `HostSession_proofs` | both over their channels; the properties; proofs |
| `HostProcess` | the utility process that carries the Host, and its control protocol |
| `UtilityHostSupervisor` | the Desktop's owner of that process |
| `DesktopSession`, `DesktopSession_proofs` | both, and the quit; proofs |
| `StateProfile` | what a restore promises: one profile replaced by another, as a unit |
| `StateRestore`, `StateRestore_proofs` | restore, reconciliation and reopening by directories and a phase marker; proofs, among them that it implements `StateProfile` |
| `ReverseAccept`, `ReverseAccept_proofs` | preparation, commit, completion and recovery of reverse accepts, beside edits and scans; proofs |
| `MC*` | small instances |

### 2.1 DeploymentTransaction

State and its place in the code:

| variable | code |
|---|---|
| `disk` | target files: content and executable bit |
| `journal` | markers: `unused`, `active` (the file exists), `gone`; entries with baseline, rollback state and new state |
| `row` | commit pointer, baseline, inputs, assets ever used, deleted flag |
| `opLock`, `keyLock` | the leases; a dead process holds none |
| `pc`, `job`, `io` | the program counter and locals of each process |
| `faults`, `edits` | how much of the bounds is used |
| `past` | history: files when a journal was published, paths the user touched since |

Actions follow the calls of `executeDeploymentUnderOperationLock` and
`executeInner`: `BeginDeploy`, `AcquireKeys`, `CheckReservations`, `Prepare`,
`Probe`, `Publish`; per file `SkipFile`, `ReadFile`, `MeetThirdValue`, `DeleteFile`,
`WriteFile`, `ChmodFile`, `CheckFile`; then `FinishWriting`, `VerifyFile`,
`FinishVerifying`, `Commit`, `DeleteJournal`; `Refuse` is every early return.
Undoing (`rollbackToOld`) and recovering (`recoverTargetFiles`) run through the same
file steps with other wanted states. Recovery is `RecoverRead`, `RecoverOwn`,
`RecoverKeys`, `RecoverDecide`, the file steps, `FinishRecovering`. `UpdateInputs` and
`SoftDelete` are the service; `Abandon` is a crash or a call that throws; `UserEdit`
is the editor.

What is one step although the code makes several calls, and why nothing is lost:

- the checks under the operation lease (`BeginDeploy`): what they read is changed
  only by holders of the same lease, or refused again later;
- the gate and the database transaction of an edit: both run under the operation lease
  of the Deployment, so no marker of it appears between them;
- the leases of a closure: all or none; a partial acquisition only refuses others
  sooner. Releasing both kinds of lease is one step for the same reason;
- `Prepare` reads the files it records in one step; a change between two of its
  reads is the same as a change after all of them, up to the comparison with what the
  user reviewed, which may refuse in either case;
- the content and mode of one file are read together.

Bounds: the number of transactions (`TxnLeft`), faults, user edits. They end
behaviours, so deadlock is not checked.

### 2.2 DeploymentPublication

`place[u][l]` is the object (identity and content) at the public path or in one of
the four private slots of publication `u`; `jr` is the durable journal; `op` is the
running operation with its program counter and what it read. `op.mode` is `execute`,
`finalize` (the cleanup after a commit) or `recover`. Actions are named for the calls
of `executePublications` (`CreateStaging` ... `CompareTree`), `recoverFile`
(`StartFile` ... `Clean("fileClean", ...)`), `recoverDirectory` (`StartTree` ...
`Clean("treeClean", ...)`) and `recoverPublications` (`Begin`, `Unprepare`, `Unstage`,
`Resolve`). `movePublicationEntry` from the public path is two steps, `CheckIdentity`
and `Rename`, because the user can act in between; from a private slot it is one.
`Record` is a yield together with the host's `drivePublicationJournal`: the host
accepts exactly what `isPublicationJournalTransition` accepts.

Deaths come in two kinds. `Die` falls between calls. `DieCreating`, `DieRemoving` and
`DieCleaning` fall inside a call that is several system calls: a temporary file left
beside its slot (`litter`), a tree removed in part (`Torn`). A new object may carry
the identity of one that is gone (`NewIds`): an inode number is reused.

One process is enough: `DeploymentTransaction` shows that whoever works on a journal
holds its leases. What is left out: the temporary file of an overwrite in the target's
parent, the recycle bin of the Windows backend, attacks on the staging root itself, and
edits of private slots.

### 2.3 HostSession

`HostRuntime` is the Host's side, `ClientConnection` the client's, `HostSession` joins
them by channels `toHost` and `toClient` that keep order and lose what is under way
when an end closes.

| variable | code |
|---|---|
| `lifecycle`, `shutdownCall`, `drainCall` | `HostRuntime`: its state, the one memoized shutdown, the drain command |
| `queue`, `hostEnd`, `initialized` | `ProtocolConnection`: received requests, its end of the port, whether `initialize` was handled |
| `ops`, `retained` | `OperationManager`: operations by the request that started them; `completedOrder` |
| `requestWaiters`, `idleWaiters` | who awaits `waitForIdle` of connections and operations |
| `restoreLock`, `replacement` | Core's restore lock; the signal that the process must be replaced |
| `applied` | history: immediate mutations carried out |
| `clientState`, `call`, `handle` | `ClientConnection`: state, pending requests and their outcome, operation handles |

A step is one synchronous run of JavaScript: from a message or a resumed `await` to the
next `await`. `Receive` takes a message off the port; `HandleInitialize`, `Observation`,
`HandleImmediate`, `HandleLong` handle what was queued; `Begin`, `Progress`, `End` are an
operation; `StageRestore`, `QuiesceRestore`, `ActivateRestore`, `EndRestore` the one that
replaces the state; `Drain`, `Drained`, `Shutdown`, `CloseConnections`, `ReleaseCore` the
two commands. On the client, `Initialize`, `Request`, `ReceiveResponse`,
`ReceiveNotification`, `Close`, `NoticeHostGone`; `TransitionClosed` settles everything
that is pending, as not sent, interrupted or uncertain. A completed operation is
forgotten when `MaxCompleted` others ended after it (`Retain`), an operation over
`MaxActive` ends with a capacity outcome.

`TaskPerMessage` is the discipline of message ports: microtasks are drained before the
next message is delivered. It is an assumption about the carrier and matters: with
`FALSE` (a caller in the same process) `DrainedIdle` and `RestoreAlone` fail, because
`drain()` looks for active operations (`operation-manager.ts:126`,
`host-runtime.ts:287`) before a request that was queued is handled
(`protocol-connection.ts:216`). The headless runner is such a caller but awaits
`session.finish()` before it shuts the Host down (`run-headless.ts:84`), so it does not
meet this.

Left out: the individual methods and their results (`Method` tells what kind a request
is: immediate read or write, long operation, restore, observation, cancellation),
validation of envelopes, capabilities, review records. The Core behind an operation is
`StateRestore` and `ReverseAccept`. Two restores at once do not wait for each other: the
restore lock (`state-restore-service.ts:126`) makes the second fail before it quiesces.
A request that arrives while the Host drains closes its connection
(`protocol-connection.ts:211`), so the client that restores may get "uncertain" for its
own restore.

### 2.4 DesktopSession

| variable | code |
|---|---|
| `host[h]`, `alive`, `killed` | `HostProcessRuntime` of each process handle; whether the process runs, was killed |
| `toHost`, `toDesktop` | commands and events on their way, those of replaced processes included |
| `sup` | the fields of `UtilityHostSupervisor`: state, process, stop purpose, receipt, replacement used, timers, pending requests |
| `attempt`, `waitsFor`, `traced`, `exited` | `DesktopQuitCoordinator`: the quit attempt and what `finish()` awaits |
| `attempts` | history: starts since the user's last call or the last ready Host |

`HostProcess`: `Boot`, `BindConnection`, `Answer`, `Close`, `Drained`, `Released`,
`AcceptRestore`, `BeginRestore`, `EndRestore`, `Dies`. `UtilityHostSupervisor`: the public
calls `Start`, `Retry`, `Connect`, `Request`, `Drain`, `Shutdown`; the events
`ReceiveReady`, `ReceiveAnswer`, `ReceiveReplacement`, `ReceiveDrained`,
`ReceiveStopped`, `ReceiveFailure`, `ReceiveStale`, `HandleExit`; the timers
`StartupCheck`, `StartupDeadline`, `RequestTimeout`. `DesktopSession` adds `BeforeQuit`,
`PerformanceFinished` and `HostDeadline`, and lets the quit observe the state that a
step of the supervisor notifies (`Observes`).

Bounds: process handles are reused once a process is gone and nothing of it is under
way, so two are an old and a new process over any number of restarts; one connect is in
flight at a time, and one restore per process (a second one would fail on the lock of
the first); `Start` happens once. A restore that was accepted may begin in a Host that
drains meanwhile, and a drain or a shutdown waits for it either way. `drain()` is public but the Desktop's main
process does not call it; it is modelled. The exchange of preferences and the
diagnostics are left out.

### 2.5 StateRestore

| variable | code |
|---|---|
| `live` | the directory at the profile's path: which content, how many edits, database, archives |
| `txn[r]` | a transaction directory: the phase in its marker, `staged/`, `displaced/` |
| `lock` | the restore lock |
| `host[h]` | mode (down, booting, normal, recovery), program counter, restore in hand, why it last refused |

Every durable step is a step: `CreateTransaction`, `CreateMarker`, `Populate`,
`MarkReady`, `Quiesce`, `Displace`, `MarkDisplaced`, `CarryBackups`, `Publish`,
`MarkActivated`, `CheckActivated`
(`state-restore-service.ts`). A start is `Boot`, `Scan`,
`LockProfile`, `Reconcile`, then `Retain` (the restore is dropped), `Complete` (it is
finished) or `BeginReprojection`, then `StartCore`, `OpenProfile`, `LockReopen`,
`Reindex`: `state-restore-reconciliation.ts` and `core-service.ts`. `Crash` falls between
any two of them, `Fault` is a storage error before one (at `StartCore`, which scans the
transactions and then opens the database, it leads to a recovery Host or to none), `Exit`
ends a Host or replaces it.

One assumption is not enforced by the code: a Host restores only while no other Host
runs on the profile, and none boots meanwhile. The Desktop has a single-instance lock
(`main/single-instance.ts`); a headless Host takes any root with `--oaam-root`. Without
the assumption a second Host's `durableEnsureDirectory` and `getDb`
(`core-service.ts:186`) can recreate the profile between the two renames, or edit it
before the restored one is verified, and the restore is stranded.

Left out: restore into a missing profile, the creation of a first profile, validation of
archives and their catalog, the report of a reopening, desktop preferences.

### 2.6 ReverseAccept

| variable | code |
|---|---|
| `marker[i]` | the preparation's marker: state (from directory and prepared over claimed to consumed, failed, cancelled or retired), what was reviewed, which outcome is proved |
| `manifest[a]`, `payloads` | the manifest of an Asset: published Versions, other edits; the payload pool of the Deployment |
| `row[d]` | the Deployment's row: writes of its inputs, of its observation |
| `receipt[i]` | the row a commit wrote, kept with the receipt of the same database transaction |
| `job[p]` | an operation and its locals |
| `told[i]` | what the user was last told |

`BeginPrepare`, `PublishMarker`; `Cancel`; `BeginCommit`, `Claim`, `PublishVersion`,
`PublishPayloads`, `CommitRow` or `RefuseRow`, `Consume`, `FailCommit` are
`reverse-accept-service-commit.ts` and `-completion.ts`. `BeginRecover`, `ConcludeOpen`,
`ConcludeTerminal`, `Contradict`, `Retire`, `FailReconcile`, `NextPreparation` are the
recovery of a Deployment, which takes its preparations in order and stops at the first it
cannot settle; `Verdict` is the classification of what the three stores hold.
`BeginEdit`, `EditAsset`, `BeginChange`, `ChangeInputs` are the gated mutations of others
and `BeginScan`, `LockScan`, `Observe`, `RecordAttempt` the scan. `Die` is a death
between any two steps.

Merged: the locks of an operation are taken or refused at once; a cancellation is one
step; what was reviewed is recorded at `PublishMarker` (a change between the start of the
operation and it is the same as an earlier change); a database error after its effect is
`CommitRow` and then the same steps as a success or a death. Left out: locators, path
locks, failures of the durability confirmation, the deletion of the Deployment, settings,
refreshes of the index. `MaxTroubles` bounds deaths, errors, edits, changes and scans
together.

## 3. Runs

Each takes less than three minutes with two workers.

| run | instance | what it shows |
|---|---|---|
| `race` | 2 processes, 2 Deployments, 3 paths of which 2 share a boundary, 3 transactions, 2 faults | active journals never overlap, one owner per path, recovery is never refused, writes are announced, edits are frozen, the abstract reservation is implemented |
| `edit` | 2 processes, 1 Deployment, 3 transactions, 1 fault, 2 edits, with and without reviewed authority, one file that turns executable | resolution is all or nothing on the paths the user left alone; what is written or removed is what the process read there, but for an edit of an existing file in between |
| `progress` | 1 process, 2 Deployments, 2 transactions, reviewed authority, 2 faults | every journal is resolved |
| `publication` | a tree and a file: both replaced; a complete tree beside a removed file; a created tree beside a complete file; 2 deaths between calls, 1 inside a call, 2 edits | the wanted tree exists, the user's bytes survive, receipts are accepted, one side in the end, and an end, unless a death strands a file |
| `requests` | 1 connection, initialize, 2 operations where 1 may run and 1 is remembered, an observation, a mutation, a shutdown | no protocol fault, the client is told the truth and once |
| `restore` | 1 connection, initialize, 2 restores, drain and shutdown | a drain finds the Host idle, a restore is alone, every wait ends |
| `desktop` | 2 process handles, 1 control request, any number of restarts | one Host, ready means booted, a clean quit leaves none and needs the Host's release; startups and quits end |
| `restart` | 2 Hosts, 2 restores, 2 crashes, 1 storage error, 1 edit | no start is stranded, service is settled, archives stay reachable, the profile is replaced as a unit, starts end in service |
| `accept` | 2 operations, 2 preparations of one Deployment, 2 troubles | outcomes are true, commits are what was reviewed, reservations freeze, and end |
| `resurrect`, `recovery`, `pending` | the smallest instance that shows it | where the code does not do what it says (section 5) |

Why the bounds are enough. *Transaction*: two processes and two Deployments give every
pairwise conflict: the same Deployment, the same path, the same boundary, disjoint paths.
Three transactions allow an old commit, an unresolved journal and a newcomer; a second
fault interrupts a recovery, or leaves two journals. *Publication*: two deaths interrupt
the forward operation and a recovery; two edits let the user replace an object and then
touch what replaced it. *Host*: with one operation allowed and one remembered, the second
meets the capacity, or the eviction of the first while its client still asks for it; two
restores compete for the lock while a shutdown waits for both. *Desktop*: handles are
reused, so two stand for any history of an old and a new process. *Restore*: two crashes
interrupt a restore and the start that settles it; the second restore meets what is left
of the first. *Accept*: two operations on one Deployment conflict in everything they
share; two troubles are a death and an edit, a scan or a second death in the recovery.
The theorems of section 4 remove the bounds.

Symmetry: processes and transactions are interchangeable in `race`, `edit` and
`resurrect`, which check no liveness.

**Fairness.**
- Transaction and publication: an operation that started runs on, since nothing in the
  code waits for anything but a system call; recovery is started by a user, who asks again
  while a Deployment is blocked. Deploys, faults and the editor get none. `progress`
  assumes one process, since leases are try-locks and two processes can refuse each other
  for ever; reviewed authority, without which a conflict leaves a third value no recovery
  accepts; no mode changes and no edits, at which recovery stops by design.
  `EventuallyResolved` excepts edits, deaths inside a call, and a protected file that a
  death strands in one of the two ways of section 5 (`Stranded`): where recovery then
  stops, it must be in exactly such a state, and for good.
- Host: event loops turn, messages and close events arrive, every operation ends. Nothing
  obliges a client to ask or to close, nor an operation to report progress.
- Desktop: timers fire, events and exits are delivered, a killed or stopped process exits,
  a restore ends. Nothing makes the Host boot, answer or stop, or the user act.
- Restore: running code goes on; a Host that waits for its replacement ends. Nothing
  makes a user start, restore, edit or quit. `StartsServe` speaks of a Host that is
  started again and again and is alone in the end: two that start together can fail each
  other over the lock for ever.
- Reverse accept: an operation that began goes on; the user asks again for the recovery of
  a Deployment that is not settled. `ReservationEnds` excepts what recovery cannot get
  over by design or by section 5: a directory a dead preparation left, stores changed by
  someone else, a death between the manifest and the payloads.

Each property of a passing run has a mutant in `PROJECT.json`: a plausible bug,
defined in the module next to what it replaces, under which TLC finds the property
violated.

## 4. Proofs

The proofs hold for arbitrary constants under the `ASSUME`s of the modules, which say what
the constants are (markers are not members of what they mark, a path is in its own
closure, bounds are naturals, the Asset of a preparation is one of its Deployment's, what
a user writes to a published file differs from both sides of every publication and from
one edit to the next, so that the bytes show who wrote them). No bound of section 3 is
used. Process handles, control requests and restores are assumed
finite in number, for counting; everything else need not be.

| module | theorem | says |
|---|---|---|
| `DeploymentTransaction_proofs` | `TypeCorrect` | `Spec => []TypeOK` |
| `DeploymentTransaction_safety` | `Invariance` | `Spec => []Inv` |
| | `ReservationsNeverCollide`, `OwnersNeverCollide`, `AuthorityNeverLost` | `JournalsDisjoint`, `SingleOwner`, `RecoveryNeverRefused` |
| `DeploymentTransaction_actions` | `MutationsJournalled` | `WritesAreJournalled` |
| | `JournalsFreeze` | `FrozenWhileUnresolved` |
| | `ReservationRefined` | `Spec => ReservationSpec` |
| | `FilesFollow` | `Spec => [](InHand /\ AllReached)` |
| | `ResolvesAllOrNothing`, `WritesFollowReads` | `ResolutionIsAtomic`, `ReplacesWhatItRead` |
| `DeploymentPublication_proofs` | `Invariance`, `TypeCorrect` | `IInv`, `TypeOK` |
| | `TreesKept`, `ReceiptsHold`, `ResolvesToOneSide` | `WantedTreeKept`, `ReceiptsAccepted`, `ResolvedToOneSide` |
| | `WhatTheUserWroteStays` | `UserBytesKept`: but for files of a complete replacement, and its trees after the commit |
| `StateRestore_proofs` | `Invariance`, `TypeCorrect` | `Inv`, `TypeOK` |
| | `StartsAreExplained`, `ServiceIsSettled`, `ArchivesCarried` | `NeverStranded`, `ServesSettled`, `ArchivesReachable` |
| | `RestoreRefined` | `Spec => ReplacedAsAUnit` |
| `DesktopSession_proofs` | `Invariance`, `TypeCorrect` | `Inv`, `TypeOK` |
| | `OneHostRuns`, `ReadyIsBooted` | `OneHost`, `ReadyHasBooted` |
| | `QuitIsClean`, `StoppedOnReceipt` | `QuitLeavesNoHost`, `StoppedIsReceipt` |
| | `RequestsHaveOwners`, `ReplacedOnce` | `RequestsOwned`, `OneReplacement`, which no run checks |
| `HostSession_proofs` | `TypeCorrect` | `TypeOK` |
| | `WorkIsSettled`, `DrainFindsIdle`, `RestoresAlone` | `QuiesceInv`, `DrainedIdle`, `RestoreAlone`, if `TaskPerMessage` |
| | `RequestsInOrder` | `Spec => []RequestInv` |
| | `NeverAFault`, `ToldTheTruth`, `SettledOnce` | `NoProtocolFault`, `SettledTruthfully`, `SettledForGood` |
| `ReverseAccept_proofs` | `Invariance`, `TypeCorrect` | `IInv`, `TypeOK` |
| | `OutcomesAreTrue`, `CommitsReviewed`, `FreezesHold` | `OutcomeIsTrue`, `CommitsWhatWasReviewed`, `ReservationFreezes` |

TLC found no violation of any of these inductive invariants on the instances of section 3
before they were proved.

**DeploymentTransaction.** `JournalsDisjoint` is not inductive: a scan that found no
conflict must still be true at the publication, several steps later. It is, because the
process holds every key lease of its closure from before the scan (`KeysLeased`), a
journal is published only by a process that holds its closure, and leases exclude; so
`ScanHolds` is kept by everybody else's steps. `SingleOwner` needs the same of the
occupancy probe (`ProbeHolds`) and then that the probe's answer survives from publication
to commit: `RecoveryNeverRefused` says exactly that no other live Deployment owns a path
of an active journal, and disjoint journals keep it so when another one commits.
`RecoveryNeverRefused` in turn needs that the job of a writer is its marker
(`JobIsMarker`), that the baseline a deploy read is still the row's (`BaselineHolds`),
that a Deployment has one journal at a time (`OneJournal`) and that a commit pointer
never names an identifier still unused (`PointerPublished`). The conjunction is `Inv`.

The proofs are laid out by process: `InvSplit` divides `Inv` into a part about journals
and rows and a part about each process; `Bystander` shows once that a step of `p` that
leaves journals and rows alone keeps what other processes rely on; the few steps that do
change them (`Publish`, `Commit`, `DeleteJournal`, edits) have a lemma each.
`MutationsJournalled` adds that a process with a file in hand (`InHand`) has it in its
journal. `JournalsFreeze` adds that a row's assets include those of its inputs, so that
the gate, which compares assets, meets the journal of every Deployment whose inputs name
one; the property says nothing of the others, and section 5 what happens to them.
`ReservationRefined` maps each action to `Open`, `Commit`, `Close` or a stutter.

`ResolutionIsAtomic` is about the last step of a journal, but says what all the steps
before it did to its files. `AllReached` says for each phase of a process what an entry
holds that the user left alone since the publication (`Done`): while writing, what it
held at the publication until its turn; while undoing and recovering, the side wanted
once it is no longer to do; from the end of the verification on, the new state. It needs
the direction (`Direction`: a deploy is before its own commit until it finalizes, because
a published identifier was in no row before) and that the file in hand is one still to do
(`InTurn`). A recovery starts with everything to do, so nothing has to be known of what
the dead process left. That the other processes cannot disturb it rests on `Inv`: those
that work hold disjoint closures (`OthersSpare`), and only the holder of the Deployment
moves the commit pointer (`PointerKept`). For `ReplacesWhatItRead` the invariant has
what a process that is about to write has read (`InSight`): the side its journal comes
from, which is still there unless the user touched the path, since no other process
writes under these leases; and it was a file, if it is to be removed. Where it was
nothing, the new file is linked and not renamed.

**DeploymentPublication.** `WantedTreeKept` is about one tree, but whether a tree is safe
depends on what the operation is about to do. `ModeFits` says who may take which step: the
forward steps are the first operation's and come before its commit. `PhaseFits` says what
the journal has recorded by then, `IntentFits` that a file under way is recorded in the
direction of its operation: with them the host accepts every receipt. `TreeFits` says of a
tree the user left alone where it is for each step of the operation: at its public path
until its turn, aside while it is replaced, in its new version afterwards, and back at its
place when recovery cleans up. So at the commit every tree is replaced, and a cleanup
never takes the only copy (`Settles`). A step falls under one of a few lemmas about the
kind of work it belongs to (`PrepareStep`, `PublishStep`, `FileStep`, `TreeStep`,
`BetweenStep`), or ends a publication (`UnitEnds`), or stops (`Halts`).

`ResolvesToOneSide` needs a second invariant on top of the first, `Sided`. A recovery
leaves publications behind it with their private slots empty and on their side
(`DoneFits`); that a slot stays empty follows from what may fill it at all: only the slots
of the publication's kind, only prepared trees in a recorded root before the permission,
and a file's only under an intent (`PlacesFit`). The files are on their side because a
cleanup starts only when the public path holds the wanted bytes (`ReachedFits`), the trees
because of `TreeFits`. `Frame` says when a step keeps `PlacesFit`; the lemmas `SidedWork`,
`SidedEnds`, `SidedBetween` and `SidedStops` are about the kinds of work, as above.

`UserBytesKept` needs a third, `BytesFit`, about the bytes a user wrote. What one edit
wrote is at one place of one publication (`OneCopy`). Before the permission no private
slot holds such bytes, and a restoration slot holds them only while the intent names its
identity (`PrivateFits`), so a second move to that slot does not meet them. The copies
that a cleanup is about to remove are not theirs, and only a complete replacement
overwrites (`SpareFits`). Then a step that takes a user's bytes from a place carries them
to another (`Carries`), or they are of a publication the user has `GivenUp`. The lemmas again go by the kind of work (`ForwardBytes`, `FileBytes`,
`TreeBytes`, `AroundBytes`), and `MoveCarries` and `PutCarries` are about the two things a
step can do to a slot.

**StateRestore.** At most one restore is open (`OneOpen`). The lock belongs to the Host
at a step under it, and that Host works on the open restore (`LockHeld`). `Shape` ties
each phase of a marker to what the three directories hold, `Reached` ties the holder's
step to the phase, so every step of a restore or a start finds the directories it
expects, whoever made them. `PastAssertion` keeps what the assertion of a Core start saw
until that Host serves. For the refinement, the profile in force is the one at its path
and, between the two renames, the displaced one (`LiveOrBetween`); `Origins` makes the
guard of `Replace` hold: a profile comes from a restore only once its candidate was
published.

**DesktopSession.** The process the supervisor knows is the only one that may run
(`Owned`); what a process said still holds of it when it is heard, since events of other
processes are dropped (`Said`); the first command of a process is its boot (`Queues`); a
stop that was acknowledged is the process's own receipt (`Stopping`); starts are bounded
by the one replacement (`Replacements`).

**HostSession.** When the Host stops taking work nothing is queued or scheduled
(`NoMoreWork`, where `TaskPerMessage` is needed), so from then on operations only end; the
idle waiters are exactly those that still wait, and a wait that is over has seen all other
operations end (`WaitsEnd`); the restore lock names the only restore past its staging
(`LockHolders`).

That a client never meets a fault, and is told the truth, depends on everything between
the two ends: what the client believes of a request, what is on the wire in each
direction, what the Host has queued and what it did. `RequestInv` ties them together. A
request is at one place of its way at a time (`Apart`, `ComingApart`), and what the Host
did it was asked to (`WasSent`); an answer under way is one the client still waits for,
and true (`Answer`); an event under way is of an operation whose acknowledgement its
client has or receives before it (`Event`, `Known`); of two messages about one request at
most one is an answer, events are numbered in order, and none follows the terminal one
(`InOrder`). Both ends of a connection close together (`EndsAgree`), so nothing is asked
of the messages of a closed one. `SettledOnce` follows
step by step: a message for a call that is settled is not under way, or is dropped.

**ReverseAccept.** The locks of different operations are disjoint. An operation that
commits has manifests, inputs and receipt as its stage says; the verdict of a
reconciliation that has its locks still holds; a preparation nobody claimed has left no
trace; edits and changes under way are outside every active reservation. These are one
formula per preparation (`PrepFits`, `Outcome`), one per operation (`JobFits`) and the
locks. The lemmas `OnlyJob`, `OnMarker` and `OnStores` reduce a step to what it can
disturb.

Only model-checked: the liveness properties, which the provers cannot do
(`JournalEventuallyResolved`, `EventuallyResolved`, `StartsServe`, `ReservationEnds`, those
of the desktop and of the Host). Every safety and action property that a passing run
checks is a theorem.

## 5. Where the code and its documents differ

Three have a run:

- `resurrect`: the abort of a deploy takes care not to bring back a file the user had
  removed before (`deployment-target-cas.ts:121`), but the journal does not record that
  the removal was empty, and recovery after a crash brings it back.
- `recovery`: the guide says that a recovery interface can restore a backup when the
  database is missing. If that restore dies or fails, its transaction stays staged; no
  start can drop it, because dropping demands a current database first
  (`state-restore-reconciliation.ts:240`), and no further restore is accepted beside it.
- `pending`: after a commit whose completion failed the user is told to recover the
  location (`reverse-accept-completion.ts:68`). A scan that the reservation refuses still
  records its attempt in the row, without a lock (`deployment-inspection-service.ts:91`);
  the row is then neither side for the recovery, and stays so.

The models reach more, which is left without a run because no document contradicts it or
because a property excepts it:

- Bytes and mode are written in two calls (`deployment-target-io.ts:539`); a crash in
  between leaves a state that is neither side, and recovery stops.
- A recovery that a third value stops has already restored the entries before it, while
  the head of `deployment-recovery.ts` says "runtime untouched".
- The Unix backend removes a tree entry by entry. A death inside leaves a changed tree in
  its private slot; recovery takes it for a displaced tree of the user and returns it to
  the vacant public path, where it blocks every later recovery
  (`deployment-publication-io.ts:216`).
- Before the commit, between the removal of the quarantined old file and the end of the
  intent, a death strands a protected file although the old bytes are in the journal, in
  two ways. The intent still names the identity of the new file, and recovery, which finds
  no file of the old side, creates none (`deployment-publication.ts:333`). Or recovery has
  created it and dies before its receipt: the next one takes such a file only while the
  candidate is at the public path, from which it was moved and removed, and stops
  (`:261`-`:276`).
- An existing file the user edits between the read and the call is overwritten or removed
  (`deployment-target-cas.ts:164`), by an undo and a recovery as by a deploy;
  `ReplacesWhatItRead` excepts it.
- A Deployment whose inputs name no asset passes the mutation gate: it can be deleted, or
  given other inputs, while its journal is unresolved (`core-deployment-service.ts:241`).
- A death inside the creation of a restoration leaves its temporary file, and a staging
  root that is not empty is never removed (`safe-filesystem.ts:590`).
- A complete file is overwritten without a last comparison, so an edit during the
  operation is lost; `UserBytesKept` excepts these files.
- A crash between the creation of a restore's directory and its marker
  (`state-restore-service.ts:269`) makes every later start refuse, however healthy the
  profile.
- Desktop: a user who quits while the Host boots makes its ready event unexpected
  (`utility-host-supervisor.ts:505`), the Host is killed and the quit fails. A window that
  reloads while a restore quiesces makes the Host report a failure, for which it is killed
  in the middle of the restore (`host-process-runtime.ts:146`). An answer to a control
  request that comes after its 5 seconds is unexpected and kills a healthy Host
  (`:517`). A restore that asks for its replacement after the user asked to quit kills the
  Host during its shutdown (`:630`). A replacement after a ready Host was terminated has no
  30 second deadline, and a killed process that never exits leaves `starting`. A failed
  quit keeps the stop purpose "quit".
- Reverse accept: a preparation that dies after its directory was made freezes every
  mutation for ever (`reverse-accept-marker-store.ts:84`, `:215`), while a test of the
  marker store says that such a failure leaves no authority. A death between the manifest
  and the payloads makes recovery impossible for ever
  (`reverse-accept-service-commit.ts:60`). A commit does not look for other active
  preparations of its Deployment, and recovery stops at the first one it cannot settle, so
  later ones wait for ever. The check of a scan's scope is not repeated under its locks.

## 6. Not modelled

In the modelled components: managed directories of version 2 journals and their receipts
(an older journal format beside the one the modules follow), unmanaged removals, corrupt
markers (one freezes every Deployment by design), umask; and what sections 2.1 to 2.6
name.

Of the components without a module, two keep state that several actors share:

- the **pool of restricted processes** (`host/`): bounded reuse of child processes, a
  capacity, a shutdown that races launches. It is the largest concurrent part that is
  left, and is independent of the others: the operations it carries are those of the
  transaction modules, so it would be a module of its own below `HostRuntime`;
- **catalog staging**: immutable version directories, of which `ReverseAccept` has only the
  switch of the manifest.

The others have no behaviour over time that a model checker could add to: review records
and watched scan intents are single synchronous calls on one map or one row; lifecycle
orchestration, rendering, source import, adapters and specs compute values from values and
are constants of the models (`Plan`, `AssetsOf`, `Method`); schema migration runs once,
alone; the Desktop's views, their controllers and translations are presentation; the
Windows and WSL backends are native code. These make up most of the repository's lines,
which is why the modules cover only a small share of them.
