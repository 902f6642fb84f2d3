------------------------ MODULE DeploymentTransaction ------------------------
(***************************************************************************)
(* The deployment transaction of the local target: the executor            *)
(* (deployment-executor.ts), the target files it writes by compare-and-set *)
(* (deployment-target-cas.ts, -io.ts, -verify.ts), the journal marker that *)
(* announces the writes (deployment-journal.ts), the state database row    *)
(* that decides their direction (deployment-state-ops.ts), recovery        *)
(* (deployment-recovery.ts, deployment-file-recovery.ts) and the edits of  *)
(* a Deployment that race them (core-deployment-service.ts).               *)
(*                                                                         *)
(* A process is one host process running one of these operations. Every    *)
(* read, write, chmod, delete and database transaction is a step of its    *)
(* own, so another process, the user's editor or a crash can fall between  *)
(* any two. The journal is schema version 2 with no managed directory:     *)
(* files only, no staging.                                                 *)
(***************************************************************************)
EXTENDS Naturals, FiniteSets

CONSTANTS
    Procs,        \* processes that run core operations
    Deployments,  \* deployment identifiers
    Txns,         \* transaction identifiers, one per published journal
    Paths,        \* canonical absolute paths of target files
    Keys,         \* physical keys: the paths and the managed boundaries
    Bytes,        \* file contents
    Inputs,       \* a Deployment's inputs: assets, versions, consumers
    Assets,       \* asset identifiers
    NoBytes, NoProc, NoTxn, NoPath, NoDeployment, NoInputs,
    Closure,      \* Closure[x]: the keys that cover path x
    Plan,         \* Plan[d][i][x]: what compiling inputs i of d puts at x
    AssetsOf,     \* AssetsOf[i]: the assets among inputs i
    Authorities,  \* may a deploy carry a reviewed replacement authority?
    FirstInputs,  \* FirstInputs[d]: the inputs d is created with
    FirstDisk,    \* the files the user has before the first deploy
    UserFiles,    \* what a user may leave at a path
    MaxFaults,    \* bound: crashes and failed system calls
    MaxEdits      \* bound: edits of target files by the user

Files == [bytes : Bytes, exec : BOOLEAN]
Absent == [bytes |-> NoBytes, exec |-> FALSE]
FileState == Files \cup {Absent}
Contents == [Paths -> FileState]

ASSUME MarkersAssumption ==
    /\ NoBytes \notin Bytes
    /\ NoProc \notin Procs
    /\ NoTxn \notin Txns
    /\ NoPath \notin Paths
ASSUME ClosureAssumption ==
    /\ Closure \in [Paths -> SUBSET Keys]
    /\ \A x \in Paths : x \in Closure[x]
ASSUME PlanAssumption ==
    /\ Plan \in [Deployments -> [Inputs -> Contents]]
    /\ AssetsOf \in [Inputs -> SUBSET Assets]
    /\ FirstInputs \in [Deployments -> Inputs]
    /\ FirstDisk \in Contents
    /\ UserFiles \subseteq FileState
ASSUME BoundsAssumption ==
    /\ Authorities \subseteq BOOLEAN
    /\ MaxFaults \in Nat
    /\ MaxEdits \in Nat

VARIABLES
    disk,     \* the target files
    journal,  \* transactions/journals: one marker per transaction
    row,      \* the deployments and deployment_files tables
    opLock,   \* the operation lease of each Deployment
    keyLock,  \* the lease of each physical key
    pc,       \* where each process is
    job,      \* the operation each process runs
    io,       \* its progress through the target files
    faults, edits,  \* how much of the bounds is used
    past      \* history: the disk at publication, the paths edited since

vars == <<disk, journal, row, opLock, keyLock, pc, job, io, faults, edits, past>>

NoContents == [x \in Paths |-> Absent]
FileKeysOnly(S) == S  \* mutant: the containing boundaries are not leased
KeysOf(S) == UNION {Closure[x] : x \in S}
-----------------------------------------------------------------------------
(* Types and the initial state. *)

\* A journal entry set: the paths, and for each the baseline the database
\* held, the state a rollback restores, and the state the deploy wants.
Entries == [paths : SUBSET Paths, base : Contents, old : Contents, new : Contents]
NoEntries == [paths |-> {}, base |-> NoContents, old |-> NoContents, new |-> NoContents]

JournalPhases == {"unused", "active", "gone"}
Journals == [phase : JournalPhases, dep : Deployments \cup {NoDeployment}, ent : Entries]

Rows == [deleted : BOOLEAN, committed : Txns \cup {NoTxn}, baseline : Contents,
         inputs : Inputs, assets : SUBSET Assets]

PrepPhases == {"begun", "keyed", "scanned", "prepared", "probed"}
WritePhases == {"writing", "undoing", "undone", "verifying", "committing", "finalizing"}
RecoverPhases == {"found", "owned", "locked", "recovering", "resolving"}
Phases == {"idle"} \cup PrepPhases \cup WritePhases \cup RecoverPhases

Jobs == [dep : Deployments \cup {NoDeployment}, txn : Txns \cup {NoTxn},
         inputs : Inputs \cup {NoInputs}, reviewed : BOOLEAN, ent : Entries]
NoJob == [dep |-> NoDeployment, txn |-> NoTxn, inputs |-> NoInputs,
          reviewed |-> FALSE, ent |-> NoEntries]

IOs == [todo : SUBSET Paths, mutated : SUBSET Paths, failed : SUBSET Paths,
        at : {"read", "write", "chmod", "check"},
        cur : Paths \cup {NoPath}, seen : FileState]
StartIO(S) == [todo |-> S, mutated |-> {}, failed |-> {},
               at |-> "read", cur |-> NoPath, seen |-> Absent]

TypeOK ==
    /\ disk \in Contents
    /\ journal \in [Txns -> Journals]
    /\ row \in [Deployments -> Rows]
    /\ opLock \in [Deployments -> Procs \cup {NoProc}]
    /\ keyLock \in [Keys -> Procs \cup {NoProc}]
    /\ pc \in [Procs -> Phases]
    /\ job \in [Procs -> Jobs]
    /\ io \in [Procs -> IOs]
    /\ \A p \in Procs : io[p].at # "read" => io[p].cur \in Paths
    /\ faults \in 0 .. MaxFaults
    /\ edits \in 0 .. MaxEdits
    /\ past \in [start : Contents, touched : SUBSET Paths]

Init ==
    /\ disk = FirstDisk
    /\ journal = [t \in Txns |-> [phase |-> "unused", dep |-> NoDeployment, ent |-> NoEntries]]
    /\ row = [d \in Deployments |->
                [deleted |-> FALSE, committed |-> NoTxn, baseline |-> NoContents,
                 inputs |-> FirstInputs[d], assets |-> AssetsOf[FirstInputs[d]]]]
    /\ opLock = [d \in Deployments |-> NoProc]
    /\ keyLock = [k \in Keys |-> NoProc]
    /\ pc = [p \in Procs |-> "idle"]
    /\ job = [p \in Procs |-> NoJob]
    /\ io = [p \in Procs |-> StartIO({})]
    /\ faults = 0
    /\ edits = 0
    /\ past = [start |-> FirstDisk, touched |-> {}]
-----------------------------------------------------------------------------
(* What the operations read. *)

Active(t) == journal[t].phase = "active"
JournalsOf(d) == {t \in Txns : Active(t) /\ journal[t].dep = d}
Owned(d) == {x \in Paths : row[d].baseline[x] # Absent}
Live(d) == ~row[d].deleted

OccupiedByNobody(d, S) == FALSE  \* mutant: no occupancy probe

\* findActivePathOccupiers: another live Deployment owns one of the paths.
Occupied(d, S) == \E e \in Deployments \ {d} : Live(e) /\ Owned(e) \cap S # {}

\* mutants: only equal files collide; the scan is skipped
ReservedFiles(S) == \E t \in Txns : Active(t) /\ journal[t].ent.paths \cap S # {}
ReservedByNobody(S) == FALSE

\* scanActiveJournalReservations, and the overlap test on its result.
Reserved(S) == \E t \in Txns : Active(t) /\ KeysOf(journal[t].ent.paths) \cap KeysOf(S) # {}

\* journalMatchesDatabaseAuthority: the marker fits the row on the side the
\* row's commit pointer selects.
Committed(t) == row[journal[t].dep].committed = t
MatchesOldSide(t) ==  \* mutant: a committed journal is compared with its old side
    \A x \in journal[t].ent.paths : row[journal[t].dep].baseline[x] = journal[t].ent.base[x]
MatchesAuthority(t) ==
    LET b == row[journal[t].dep].baseline
        e == journal[t].ent
    IN  \A x \in e.paths : b[x] = IF Committed(t) THEN e.new[x] ELSE e.base[x]

GateAlwaysOpen(A) == TRUE  \* mutant: the edit does not ask the gate

\* createGate of core-mutation-scope.ts: a Deployment whose journal is active
\* freezes every edit that names one of the assets it has ever had.
MutationGateOpen(A) == \A t \in Txns : Active(t) => row[journal[t].dep].assets \cap A = {}

Goto(p, phase) == pc' = [pc EXCEPT ![p] = phase]

\* Leaving an operation: its `finally` blocks release what it holds. The
\* kernel does the same for a process that dies.
Leave(p) ==
    /\ Goto(p, "idle")
    /\ job' = [job EXCEPT ![p] = NoJob]
    /\ io' = [io EXCEPT ![p] = StartIO({})]
    /\ opLock' = [d \in Deployments |-> IF opLock[d] = p THEN NoProc ELSE opLock[d]]
    /\ keyLock' = [k \in Keys |-> IF keyLock[k] = p THEN NoProc ELSE keyLock[k]]
-----------------------------------------------------------------------------
(* The executor, up to the publication of its journal. *)

\* Bound: a deploy starts only when a transaction identifier is left for it.
TxnLeft ==
    Cardinality({q \in Procs : pc[q] \in PrepPhases})
        < Cardinality({t \in Txns : journal[t].phase = "unused"})

\* The operation lease, the deleted check, the freeze gate, the check of the
\* compiled inputs and the entries: plan paths and the baseline's removals.
BeginDeploy(p, d, reviewed) ==
    LET i == row[d].inputs
        b == row[d].baseline
        n == Plan[d][i]
    IN  /\ pc[p] = "idle"
        /\ opLock[d] = NoProc
        /\ Live(d)
        /\ JournalsOf(d) = {}
        /\ TxnLeft
        /\ opLock' = [opLock EXCEPT ![d] = p]
        /\ job' = [job EXCEPT ![p] =
                     [dep |-> d, txn |-> NoTxn, inputs |-> i, reviewed |-> reviewed,
                      ent |-> [paths |-> {x \in Paths : n[x] # Absent \/ b[x] # Absent},
                               base |-> b, old |-> b, new |-> n]]]
        /\ Goto(p, "begun")
        /\ UNCHANGED <<disk, journal, row, keyLock, io, faults, edits, past>>

\* acquireAllLocks on the closure of the entries: all of them or none.
TakeKeys(p, S) ==
    /\ \A k \in KeysOf(S) : keyLock[k] = NoProc
    /\ keyLock' = [k \in Keys |-> IF k \in KeysOf(S) THEN p ELSE keyLock[k]]

AcquireKeys(p) ==
    /\ pc[p] = "begun"
    /\ TakeKeys(p, job[p].ent.paths)
    /\ Goto(p, "keyed")
    /\ UNCHANGED <<disk, journal, row, opLock, job, io, faults, edits, past>>

CheckReservations(p) ==
    /\ pc[p] = "keyed"
    /\ ~Reserved(job[p].ent.paths)
    /\ Goto(p, "scanned")
    /\ UNCHANGED <<disk, journal, row, opLock, keyLock, job, io, faults, edits, past>>

\* prepare: without an authority the rollback state stays the baseline;
\* with one it becomes the live state, which was just compared with what the
\* user reviewed.
Prepare(p) ==
    /\ pc[p] = "scanned"
    /\ job' = IF job[p].reviewed
              THEN [job EXCEPT ![p].ent.old =
                      [x \in Paths |-> IF x \in job[p].ent.paths THEN disk[x] ELSE Absent]]
              ELSE job
    /\ Goto(p, "prepared")
    /\ UNCHANGED <<disk, journal, row, opLock, keyLock, io, faults, edits, past>>

Probe(p) ==
    /\ pc[p] = "prepared"
    /\ ~Occupied(job[p].dep, job[p].ent.paths)
    /\ Goto(p, "probed")
    /\ UNCHANGED <<disk, journal, row, opLock, keyLock, job, io, faults, edits, past>>

Publish(p, t) ==
    /\ pc[p] = "probed"
    /\ journal[t].phase = "unused"
    /\ journal' = [journal EXCEPT ![t] =
                     [phase |-> "active", dep |-> job[p].dep, ent |-> job[p].ent]]
    /\ job' = [job EXCEPT ![p].txn = t]
    /\ io' = [io EXCEPT ![p] = StartIO(job[p].ent.paths)]
    /\ past' = [start |-> [x \in Paths |-> IF x \in job[p].ent.paths THEN disk[x]
                                                                    ELSE past.start[x]],
                touched |-> past.touched \ job[p].ent.paths]
    /\ Goto(p, "writing")
    /\ UNCHANGED <<disk, row, opLock, keyLock, faults, edits>>

\* The early returns that depend on what is modelled: a key is leased, the
\* closure is reserved, another Deployment owns a path, or the target is no
\* longer what the user reviewed.
Refuse(p) ==
    /\ \/ pc[p] = "begun" /\ \E k \in KeysOf(job[p].ent.paths) : keyLock[k] # NoProc
       \/ pc[p] = "keyed" /\ Reserved(job[p].ent.paths)
       \/ pc[p] = "scanned" /\ job[p].reviewed
       \/ pc[p] = "prepared" /\ Occupied(job[p].dep, job[p].ent.paths)
    /\ Leave(p)
    /\ UNCHANGED <<disk, journal, row, faults, edits, past>>
-----------------------------------------------------------------------------
(* One target file at a time. Writing, undoing and recovering share the    *)
(* system calls; they differ in what they want and in what they accept.    *)

Moving == {"writing", "undoing", "recovering"}
AlwaysOldSide(p) == pc[p] \in {"undoing", "recovering"}  \* mutant: no commit proof
NoNewSide(p) == pc[p] = "undoing" \/ (pc[p] = "recovering" /\ ~Committed(job[p].txn))
Want(p, x) == IF NoNewSide(p) THEN job[p].ent.old[x] ELSE job[p].ent.new[x]
From(p, x) == IF NoNewSide(p) THEN job[p].ent.new[x] ELSE job[p].ent.old[x]

\* Deploy entries come before removal entries in every entry list.
NextEntry(p, x) ==
    /\ x \in io[p].todo
    /\ job[p].ent.new[x] = Absent => \A y \in io[p].todo : job[p].ent.new[y] = Absent

\* The file needs no call. casRemoveOne accepts a missing file as removed;
\* casDeployOne accepts the wanted state only where it is also the old one.
Settled(p, x) ==
    IF pc[p] = "writing"
    THEN \/ Want(p, x) = Absent /\ disk[x] = Absent
         \/ Want(p, x) # Absent /\ disk[x] = From(p, x) /\ disk[x] = Want(p, x)
    ELSE disk[x] = Want(p, x)

SkipFile(p, x) ==
    /\ pc[p] \in Moving /\ io[p].at = "read" /\ NextEntry(p, x)
    /\ Settled(p, x)
    /\ io' = [io EXCEPT ![p].todo = @ \ {x}]
    /\ UNCHANGED <<disk, journal, row, opLock, keyLock, pc, job, faults, edits, past>>

ReadFile(p, x) ==
    /\ pc[p] \in Moving /\ io[p].at = "read" /\ NextEntry(p, x)
    /\ ~Settled(p, x) /\ disk[x] = From(p, x)
    /\ io' = [io EXCEPT ![p].at = "write", ![p].cur = x, ![p].seen = disk[x]]
    /\ UNCHANGED <<disk, journal, row, opLock, keyLock, pc, job, faults, edits, past>>

\* A third value. A deploy turns to undoing what it mutated, an undo notes
\* the failure and goes on, recovery stops and keeps the journal.
MeetThirdValue(p, x) ==
    /\ pc[p] \in Moving /\ io[p].at = "read" /\ NextEntry(p, x)
    /\ ~Settled(p, x) /\ disk[x] # From(p, x)
    /\ \/ /\ pc[p] = "writing"
          /\ io' = [io EXCEPT ![p] = StartIO(io[p].mutated)]
          /\ Goto(p, "undoing")
          /\ UNCHANGED <<job, opLock, keyLock>>
       \/ /\ pc[p] = "undoing"
          /\ io' = [io EXCEPT ![p].todo = @ \ {x}, ![p].failed = @ \cup {x}]
          /\ UNCHANGED <<pc, job, opLock, keyLock>>
       \/ /\ pc[p] = "recovering"
          /\ Leave(p)
    /\ UNCHANGED <<disk, journal, row, faults, edits, past>>

\* The call on the current file is done: a deploy goes to the next entry, an
\* undo and a recovery read the file back.
AfterCall(p) ==
    IF pc[p] = "writing"
    THEN io' = [io EXCEPT ![p] = [io[p] EXCEPT !.todo = @ \ {io[p].cur}, !.at = "read",
                                               !.mutated = @ \cup {io[p].cur}]]
    ELSE io' = [io EXCEPT ![p].at = "check"]

\* The call on the current file threw: a deploy and a recovery stop with the
\* journal in place, an undo reads the file back.
FailCall(p) ==
    IF pc[p] = "undoing"
    THEN /\ io' = [io EXCEPT ![p].at = "check"]
         /\ UNCHANGED <<pc, job, opLock, keyLock>>
    ELSE Leave(p)

\* ioDelete throws on a file that is gone; recovery looks before it deletes.
DeleteFile(p) ==
    LET x == io[p].cur IN
    /\ pc[p] \in Moving /\ io[p].at = "write" /\ Want(p, x) = Absent
    /\ disk' = [disk EXCEPT ![x] = Absent]
    /\ IF disk[x] = Absent /\ pc[p] # "recovering"
       THEN FailCall(p)
       ELSE AfterCall(p) /\ UNCHANGED <<pc, job, opLock, keyLock>>
    /\ UNCHANGED <<journal, row, faults, edits, past>>

NeverBlocked(p, x) == FALSE  \* mutant: create is a rename too
CreateBlocked(p, x) == io[p].seen = Absent /\ disk[x] # Absent

\* durablePublishFileBytes: "create" links the file and fails when something
\* is there; "replace" renames over whatever is there and keeps its mode.
WriteFile(p) ==
    LET x == io[p].cur IN
    /\ pc[p] \in Moving /\ io[p].at = "write" /\ Want(p, x) # Absent
    /\ IF CreateBlocked(p, x)
       THEN FailCall(p) /\ UNCHANGED disk
       ELSE /\ disk' = [disk EXCEPT ![x] = [bytes |-> Want(p, x).bytes, exec |-> disk[x].exec]]
            /\ io' = [io EXCEPT ![p].at = "chmod"]
            /\ UNCHANGED <<pc, job, opLock, keyLock>>
    /\ UNCHANGED <<journal, row, faults, edits, past>>

\* chmodIfDifferent swallows its errors: a missing file or a refused chmod
\* looks like a file that needed none.
ChmodAnything(s, e) == [s EXCEPT !.exec = e]  \* mutant: a missing file gets a mode
Chmod(s, e) == IF s = Absent THEN s ELSE [s EXCEPT !.exec = e]

ChmodFile(p) ==
    LET x == io[p].cur IN
    /\ pc[p] \in Moving /\ io[p].at = "chmod"
    /\ \/ /\ disk' = [disk EXCEPT ![x] = Chmod(@, Want(p, x).exec)]
          /\ UNCHANGED faults
       \/ /\ faults < MaxFaults
          /\ disk[x].exec # Want(p, x).exec
          /\ faults' = faults + 1
          /\ UNCHANGED disk
    /\ AfterCall(p)
    /\ UNCHANGED <<journal, row, opLock, keyLock, pc, job, edits, past>>

\* The read-back of an undo (matchesOldState) or a recovery.
CheckFile(p) ==
    LET x == io[p].cur IN
    /\ pc[p] \in {"undoing", "recovering"} /\ io[p].at = "check"
    /\ IF disk[x] = Want(p, x) \/ pc[p] = "undoing"
       THEN /\ io' = [io EXCEPT ![p] = [io[p] EXCEPT !.at = "read", !.todo = @ \ {x},
                             !.failed = IF disk[x] = Want(p, x) THEN @ ELSE @ \cup {x}]]
            /\ UNCHANGED <<pc, job, opLock, keyLock>>
       ELSE Leave(p)
    /\ UNCHANGED <<disk, journal, row, faults, edits, past>>
-----------------------------------------------------------------------------
(* The executor, from the last write on. *)

FinishWriting(p) ==
    /\ pc[p] = "writing" /\ io[p].at = "read" /\ io[p].todo = {}
    /\ io' = [io EXCEPT ![p] = StartIO(job[p].ent.paths)]
    /\ Goto(p, "verifying")
    /\ UNCHANGED <<disk, journal, row, opLock, keyLock, job, faults, edits, past>>

\* rollbackToOld reports: a failure keeps the journal for recovery.
FinishUndoing(p) ==
    /\ pc[p] = "undoing" /\ io[p].at = "read" /\ io[p].todo = {}
    /\ IF io[p].failed # {}
       THEN Leave(p)
       ELSE Goto(p, "undone") /\ UNCHANGED <<job, io, opLock, keyLock>>
    /\ UNCHANGED <<disk, journal, row, faults, edits, past>>

\* verifyAll: every deploy entry holds the new state, every removed file is
\* missing; a file that is not keeps the journal for recovery.
VerifyFile(p, x) ==
    /\ pc[p] = "verifying" /\ x \in io[p].todo
    /\ IF disk[x] = job[p].ent.new[x]
       THEN io' = [io EXCEPT ![p].todo = @ \ {x}] /\ UNCHANGED <<pc, job, opLock, keyLock>>
       ELSE Leave(p)
    /\ UNCHANGED <<disk, journal, row, faults, edits, past>>

FinishVerifying(p) ==
    /\ pc[p] = "verifying" /\ io[p].todo = {}
    /\ Goto(p, "committing")
    /\ UNCHANGED <<disk, journal, row, opLock, keyLock, job, io, faults, edits, past>>

\* commitDeploymentSuccess: one transaction; a throw keeps the journal.
CommitAllowed(p) ==
    LET d == job[p].dep IN
    /\ Live(d)
    /\ row[d].inputs = job[p].inputs
    /\ Owned(d) \subseteq job[p].ent.paths

KeepsRemovedRows(p) ==  \* mutant: a removed path stays in the active baseline
    LET n == job[p].ent.new
        b == row[job[p].dep].baseline
    IN  [row[job[p].dep] EXCEPT !.committed = job[p].txn,
            !.baseline = [x \in Paths |-> IF n[x] = Absent THEN b[x] ELSE n[x]]]
CommittedRow(p) == [row[job[p].dep] EXCEPT !.committed = job[p].txn, !.baseline = job[p].ent.new]

Commit(p) ==
    /\ pc[p] = "committing"
    /\ IF CommitAllowed(p)
       THEN /\ row' = [row EXCEPT ![job[p].dep] = CommittedRow(p)]
            /\ Goto(p, "finalizing")
            /\ UNCHANGED <<job, io, opLock, keyLock>>
       ELSE Leave(p) /\ UNCHANGED row
    /\ UNCHANGED <<disk, journal, faults, edits, past>>

\* The marker is unlinked after a commit, after a verified undo, and after a
\* recovery that reached every file.
DeleteJournal(p) ==
    /\ pc[p] \in {"finalizing", "undone", "resolving"}
    /\ journal' = [journal EXCEPT ![job[p].txn].phase = "gone"]
    /\ Leave(p)
    /\ UNCHANGED <<disk, row, faults, edits, past>>
-----------------------------------------------------------------------------
(* Recovery, which a user asks for. *)

\* The first read of the marker and of the row, with no lock held.
RecoverRead(p, t) ==
    /\ pc[p] = "idle"
    /\ Active(t)
    /\ Live(journal[t].dep)
    /\ job' = [job EXCEPT ![p] = [NoJob EXCEPT !.dep = journal[t].dep, !.txn = t,
                                               !.ent = journal[t].ent]]
    /\ Goto(p, "found")
    /\ UNCHANGED <<disk, journal, row, opLock, keyLock, io, faults, edits, past>>

RecoverOwn(p) ==
    /\ pc[p] = "found"
    /\ IF opLock[job[p].dep] = NoProc
       THEN /\ opLock' = [opLock EXCEPT ![job[p].dep] = p]
            /\ Goto(p, "owned")
            /\ UNCHANGED <<job, io, keyLock>>
       ELSE Leave(p)
    /\ UNCHANGED <<disk, journal, row, faults, edits, past>>

RecoverKeys(p) ==
    /\ pc[p] = "owned"
    /\ \/ /\ TakeKeys(p, job[p].ent.paths)
          /\ Goto(p, "locked")
          /\ UNCHANGED <<job, io, opLock>>
       \/ /\ \E k \in KeysOf(job[p].ent.paths) : keyLock[k] # NoProc
          /\ Leave(p)
    /\ UNCHANGED <<disk, journal, row, faults, edits, past>>

\* The second read, under the locks: the marker must be the one found, the
\* Deployment alive, its paths free of other owners, and marker and row in
\* agreement. The row's commit pointer gives the direction.
RecoverDecide(p) ==
    LET t == job[p].txn IN
    /\ pc[p] = "locked"
    /\ IF /\ Active(t) /\ journal[t].ent = job[p].ent
          /\ Live(job[p].dep)
          /\ ~Occupied(job[p].dep, job[p].ent.paths)
          /\ MatchesAuthority(t)
       THEN /\ io' = [io EXCEPT ![p] = StartIO(job[p].ent.paths)]
            /\ Goto(p, "recovering")
            /\ UNCHANGED <<job, opLock, keyLock>>
       ELSE Leave(p)
    /\ UNCHANGED <<disk, journal, row, faults, edits, past>>

FinishRecovering(p) ==
    /\ pc[p] = "recovering" /\ io[p].at = "read" /\ io[p].todo = {}
    /\ Goto(p, "resolving")
    /\ UNCHANGED <<disk, journal, row, opLock, keyLock, job, io, faults, edits, past>>
-----------------------------------------------------------------------------
(* What happens around the operations. *)

\* mutateDeployment holds the operation lease across one database
\* transaction; the asset gate looks at the assets it touches.
UpdateInputs(d, i) ==
    /\ opLock[d] = NoProc
    /\ Live(d)
    /\ i # row[d].inputs
    /\ MutationGateOpen(AssetsOf[row[d].inputs] \cup AssetsOf[i])
    /\ row' = [row EXCEPT ![d] = [row[d] EXCEPT !.inputs = i, !.assets = @ \cup AssetsOf[i]]]
    /\ UNCHANGED <<disk, journal, opLock, keyLock, pc, job, io, faults, edits, past>>

SoftDelete(d) ==
    /\ opLock[d] = NoProc
    /\ Live(d)
    /\ MutationGateOpen(AssetsOf[row[d].inputs])
    /\ row' = [row EXCEPT ![d].deleted = TRUE]
    /\ UNCHANGED <<disk, journal, opLock, keyLock, pc, job, io, faults, edits, past>>

\* A process dies, or a system call it cannot do without fails: the handler
\* is left with the journal as it is, and the leases are released.
Abandon(p) ==
    /\ pc[p] # "idle"
    /\ faults < MaxFaults
    /\ faults' = faults + 1
    /\ Leave(p)
    /\ UNCHANGED <<disk, journal, row, edits, past>>

\* The user, or a consumer agent, changes a target file.
UserEdit(x, s) ==
    /\ edits < MaxEdits
    /\ s # disk[x]
    /\ edits' = edits + 1
    /\ disk' = [disk EXCEPT ![x] = s]
    /\ past' = [past EXCEPT !.touched = @ \cup {x}]
    /\ UNCHANGED <<journal, row, opLock, keyLock, pc, job, io, faults>>
-----------------------------------------------------------------------------
Request(p) ==
    \/ \E d \in Deployments, a \in Authorities : BeginDeploy(p, d, a)
    \/ \E t \in Txns : RecoverRead(p, t)

PrepareStep(p) ==
    \/ AcquireKeys(p)
    \/ CheckReservations(p)
    \/ Prepare(p)
    \/ Probe(p)
    \/ \E t \in Txns : Publish(p, t)
    \/ Refuse(p)

FileStep(p) ==
    \/ \E x \in Paths : SkipFile(p, x) \/ ReadFile(p, x) \/ MeetThirdValue(p, x)
    \/ DeleteFile(p)
    \/ WriteFile(p)
    \/ ChmodFile(p)
    \/ CheckFile(p)

FinishStep(p) ==
    \/ FinishWriting(p)
    \/ FinishUndoing(p)
    \/ \E x \in Paths : VerifyFile(p, x)
    \/ FinishVerifying(p)
    \/ Commit(p)
    \/ DeleteJournal(p)

RecoverStep(p) ==
    \/ RecoverOwn(p)
    \/ RecoverKeys(p)
    \/ RecoverDecide(p)
    \/ FinishRecovering(p)

Step(p) == PrepareStep(p) \/ FileStep(p) \/ FinishStep(p) \/ RecoverStep(p)

Mutation ==
    \E d \in Deployments : SoftDelete(d) \/ \E i \in Inputs : UpdateInputs(d, i)

Edit == \E x \in Paths, s \in UserFiles : UserEdit(x, s)

Next ==
    \/ \E p \in Procs : Request(p) \/ Step(p) \/ Abandon(p)
    \/ Mutation
    \/ Edit

Spec == Init /\ [][Next]_vars

\* An operation that started runs on unless its process dies, and a user who
\* finds a blocked Deployment asks for its recovery again.
FairSpec ==
    /\ Spec
    /\ \A p \in Procs : WF_vars(Step(p))
    /\ \A p \in Procs, t \in Txns : SF_vars(RecoverRead(p, t))
-----------------------------------------------------------------------------
(* Safety. *)

\* No two unresolved journals reserve a common physical key, whatever crashed
\* between the scan of the markers and the publication of one.
JournalsDisjoint ==
    \A t, u \in Txns : t # u /\ Active(t) /\ Active(u) =>
        KeysOf(journal[t].ent.paths) \cap KeysOf(journal[u].ent.paths) = {}

\* A target path is in the active baseline of at most one live Deployment:
\* the occupancy probe runs long before the commit it protects.
SingleOwner ==
    \A d, e \in Deployments : d # e /\ Live(d) /\ Live(e) => Owned(d) \cap Owned(e) = {}

\* Under its locks, recovery is never refused for want of authority: the row
\* agrees with an unresolved marker on the side its commit pointer selects,
\* and no other live Deployment has come to own one of the paths meanwhile.
RecoveryNeverRefused ==
    \A t \in Txns : Active(t) =>
        MatchesAuthority(t) /\ ~Occupied(journal[t].dep, journal[t].ent.paths)

\* "Journal publication precedes every mutation": a process changes a target
\* file only under an unresolved journal that names the file, with the leases
\* of the file's whole closure and of the Deployment.
WritesAreJournalled ==
    [][disk' # disk /\ edits' = edits =>
        \E p \in Procs, t \in Txns :
            /\ pc[p] \in Moving
            /\ Active(t) /\ journal[t].dep = job[p].dep
            /\ opLock[journal[t].dep] = p
            /\ \A x \in Paths : disk'[x] # disk[x] =>
                 x \in journal[t].ent.paths /\ \A k \in Closure[x] : keyLock[k] = p]_vars

\* A journal is resolved all or nothing: when its marker goes, every path the
\* user left alone since publication is new if the row committed the
\* transaction, and otherwise what it was at publication or the journal's old
\* state.
ResolutionIsAtomic ==
    [][\A t \in Txns : Active(t) /\ journal'[t].phase = "gone" =>
        \A x \in journal[t].ent.paths \ past.touched :
            IF Committed(t) THEN disk[x] = journal[t].ent.new[x]
                            ELSE disk[x] \in {past.start[x], journal[t].ent.old[x]}]_vars

\* Compare-and-set over whole procedures: the file a deploy, an undo or a
\* recovery writes or removes holds what that process read there, the side its
\* journal comes from, whatever other processes do between the read and the
\* call. Only the user can come between, and loses his edit, unless the read
\* found nothing: the file is then created, and one that appeared meanwhile
\* stays.
ReplacesWhatItRead ==
    [][\A p \in Procs, x \in Paths :
        /\ pc[p] \in Moving /\ io[p].at = "write" /\ io[p].cur = x
        /\ edits' = edits /\ disk'[x] # disk[x]
        => /\ io[p].seen = From(p, x)
           /\ disk[x] = io[p].seen \/ (x \in past.touched /\ io[p].seen # Absent)]_vars

\* While a journal is unresolved its Deployment is neither edited nor deleted,
\* as long as its inputs name an asset: the gate knows nothing of Deployments,
\* and freezes the assets each of them has or had. A Deployment whose inputs
\* name none may be deleted under its journal, or given assets it never had.
FrozenWhileUnresolved ==
    [][\A t \in Txns :
        LET d == journal[t].dep IN
        Active(t) /\ AssetsOf[row[d].inputs] # {} =>
            row'[d].inputs = row[d].inputs /\ row'[d].deleted = row[d].deleted]_vars

\* The protocol is a reservation of keys by transactions that open once,
\* commit at most once and hold their keys until they close.
Stage(t) ==
    CASE journal[t].phase = "unused" -> "unused"
      [] journal[t].phase = "gone" -> "closed"
      [] OTHER -> IF Committed(t) THEN "committed" ELSE "open"
Reservation == INSTANCE TransactionReservation WITH
    stage <- [t \in Txns |-> Stage(t)],
    held <- [t \in Txns |-> IF Active(t) THEN KeysOf(journal[t].ent.paths) ELSE {}]
ReservationSpec == Reservation!Spec
-----------------------------------------------------------------------------
(* Why the safety invariants hold.                                         *)

OwningPhases == PrepPhases \cup WritePhases \cup {"owned", "locked", "recovering", "resolving"}
LeasedPhases == (OwningPhases \ {"begun", "owned"})
ScannedPhases == {"scanned", "prepared", "probed"}

\* An operation past its first lock holds its Deployment's lease, and past its
\* second the leases of its whole closure.
OperationLeased == \A p \in Procs :
    pc[p] \in OwningPhases => job[p].dep \in Deployments /\ opLock[job[p].dep] = p
KeysLeased == \A p \in Procs :
    pc[p] \in LeasedPhases => \A k \in KeysOf(job[p].ent.paths) : keyLock[k] = p

\* What the scan and the probe found stays true until the publication.
ScanHolds == \A p \in Procs : pc[p] \in ScannedPhases => ~Reserved(job[p].ent.paths)
ProbeHolds == \A p \in Procs :
    pc[p] = "probed" => ~Occupied(job[p].dep, job[p].ent.paths)
BaselineHolds == \A p \in Procs : pc[p] \in PrepPhases =>
    /\ row[job[p].dep].baseline = job[p].ent.base
    /\ JournalsOf(job[p].dep) = {}

\* A deploy runs on the journal it published and covers what it wants; a
\* recovery has the content of the marker it found, and in the end the marker.
DeployCovers == \A p \in Procs : pc[p] \in PrepPhases \cup WritePhases =>
    \A x \in Paths : job[p].ent.new[x] # Absent => x \in job[p].ent.paths
JobIsMarker == \A p \in Procs : pc[p] \in WritePhases \cup RecoverPhases =>
    LET t == job[p].txn IN
    /\ t \in Txns
    /\ journal[t].phase # "unused"
    /\ journal[t].dep = job[p].dep
    /\ journal[t].ent = job[p].ent
    /\ pc[p] \notin {"found", "owned", "locked"} => Active(t)

\* A Deployment has one unresolved journal; a commit pointer names a journal
\* that was published.
OneJournal == \A t, u \in Txns :
    Active(t) /\ Active(u) /\ journal[t].dep = journal[u].dep => t = u
PointerPublished == \A d \in Deployments, t \in Txns :
    row[d].committed = t => journal[t].phase # "unused"
MarkersNamed == \A t \in Txns : journal[t].phase # "unused" => journal[t].dep \in Deployments

Inv ==
    /\ TypeOK
    /\ OperationLeased /\ KeysLeased
    /\ ScanHolds /\ ProbeHolds /\ BaselineHolds
    /\ DeployCovers /\ JobIsMarker
    /\ OneJournal /\ PointerPublished /\ MarkersNamed
    /\ JournalsDisjoint /\ SingleOwner /\ RecoveryNeverRefused
-----------------------------------------------------------------------------
(* Liveness. *)

\* A journal left by a crash is resolved once the user asks for recovery and
\* no more faults happen, if nobody edits the files and no mode changes.
JournalEventuallyResolved == \A t \in Txns : Active(t) ~> ~Active(t)
-----------------------------------------------------------------------------
(* What comments of the source say, and the code does not do.              *)

\* deployment-target-cas.ts: "Restoring the baseline here would resurrect a
\* file the user had already removed before this deploy." A journal that
\* closes uncommitted leaves no file at a path the user had emptied before.
NoResurrection ==
    [][\A t \in Txns : Active(t) /\ ~Committed(t) /\ journal'[t].phase = "gone" =>
        \A x \in journal[t].ent.paths \ past.touched :
            past.start[x] = Absent => disk[x] = Absent]_vars
=============================================================================
