-------------------- MODULE DeploymentTransaction_proofs --------------------
(* Proofs about DeploymentTransaction, for any number of processes,        *)
(* Deployments, journals and files, any plan, any bound on crashes and     *)
(* edits.                                                                  *)
EXTENDS DeploymentTransaction, TLAPS
-----------------------------------------------------------------------------
(* Type correctness. *)

IOTyped ==
    /\ io \in [Procs -> IOs]
    /\ \A p \in Procs : io[p].at # "read" => io[p].cur \in Paths

LEMMA AbsentIsState == Absent \in FileState /\ NoContents \in Contents
BY DEF Absent, FileState, NoContents, Contents

LEMMA StateTyped ==
    ASSUME NEW s \in FileState
    PROVE  s.exec \in BOOLEAN /\ (s # Absent => s \in Files)
<1>1. CASE s = Absent
  BY <1>1 DEF Absent
<1>2. CASE s \in Files
  BY <1>2 DEF Files
<1> QED
  BY <1>1, <1>2 DEF FileState

LEMMA EntriesTyped ==
    ASSUME NEW e \in Entries
    PROVE  /\ e.paths \in SUBSET Paths
           /\ e.base \in Contents /\ e.old \in Contents /\ e.new \in Contents
BY DEF Entries

LEMMA IdleTyped == NoJob \in Jobs /\ \A S \in SUBSET Paths : StartIO(S) \in IOs
<1>1. NoEntries \in Entries
  BY AbsentIsState DEF NoEntries, Entries
<1>2. NoJob \in Jobs
  BY <1>1 DEF NoJob, Jobs
<1>3. ASSUME NEW S \in SUBSET Paths PROVE StartIO(S) \in IOs
  BY AbsentIsState DEF StartIO, IOs
<1> QED
  BY <1>2, <1>3

LEMMA TypeInit == Init => TypeOK
<1> SUFFICES ASSUME Init PROVE TypeOK
  OBVIOUS
<1> USE DEF Init
<1>1. disk \in Contents
  BY PlanAssumption
<1>2. journal \in [Txns -> Journals]
  <2>1. NoEntries \in Entries
    BY AbsentIsState DEF NoEntries, Entries
  <2> QED
    BY <2>1 DEF Journals, JournalPhases
<1>3. row \in [Deployments -> Rows]
  BY AbsentIsState, PlanAssumption DEF Rows
<1>4. opLock \in [Deployments -> Procs \cup {NoProc}] /\ keyLock \in [Keys -> Procs \cup {NoProc}]
  OBVIOUS
<1>5. pc \in [Procs -> Phases]
  BY DEF Phases
<1>6. job \in [Procs -> Jobs] /\ IOTyped
  BY IdleTyped DEF IOTyped, StartIO
<1>7. faults \in 0 .. MaxFaults /\ edits \in 0 .. MaxEdits
  BY BoundsAssumption
<1>8. past \in [start : Contents, touched : SUBSET Paths]
  BY PlanAssumption
<1> QED
  BY <1>1, <1>2, <1>3, <1>4, <1>5, <1>6, <1>7, <1>8 DEF TypeOK, IOTyped

\* Leaving an operation keeps the types of what it resets.
LEMMA LeaveTyped ==
    ASSUME TypeOK, NEW p \in Procs, Leave(p)
    PROVE  /\ pc' \in [Procs -> Phases] /\ job' \in [Procs -> Jobs] /\ IOTyped'
           /\ opLock' \in [Deployments -> Procs \cup {NoProc}]
           /\ keyLock' \in [Keys -> Procs \cup {NoProc}]
<1>1. pc' \in [Procs -> Phases]
  BY DEF TypeOK, Leave, Goto, Phases
<1>2. job' \in [Procs -> Jobs] /\ IOTyped'
  BY IdleTyped DEF TypeOK, Leave, IOTyped, StartIO
<1>3. opLock' \in [Deployments -> Procs \cup {NoProc}] /\ keyLock' \in [Keys -> Procs \cup {NoProc}]
  BY DEF TypeOK, Leave
<1> QED
  BY <1>1, <1>2, <1>3
\* The phases and jobs an action moves a process to.
LEMMA GotoTyped ==
    ASSUME TypeOK, NEW p \in Procs, NEW q \in Phases, Goto(p, q)
    PROVE  pc' \in [Procs -> Phases]
BY DEF TypeOK, Goto

LEMMA SidesTyped ==
    ASSUME TypeOK, NEW p \in Procs, NEW x \in Paths
    PROVE  /\ job[p].ent \in Entries /\ job[p].ent.paths \in SUBSET Paths
           /\ Want(p, x) \in FileState /\ From(p, x) \in FileState
           /\ disk[x] \in FileState
<1>1. job[p].ent \in Entries
  BY DEF TypeOK, Jobs
<1> QED
  BY <1>1, EntriesTyped DEF TypeOK, Want, From, Contents

\* The progress records every call produces are progress records.
LEMMA ProgressTyped ==
    ASSUME NEW r \in IOs, NEW x \in Paths, NEW s \in FileState
    PROVE  /\ [r EXCEPT !.todo = @ \ {x}] \in IOs
           /\ [r EXCEPT !.at = "write", !.cur = x, !.seen = s] \in IOs
           /\ [r EXCEPT !.todo = @ \ {x}, !.failed = @ \cup {x}] \in IOs
           /\ [r EXCEPT !.at = "check"] \in IOs
           /\ [r EXCEPT !.at = "chmod"] \in IOs
           /\ r.mutated \in SUBSET Paths
BY DEF IOs

LEMMA SetIO ==
    ASSUME TypeOK, NEW p \in Procs, NEW r \in IOs,
           r.at # "read" => r.cur \in Paths, io' = [io EXCEPT ![p] = r]
    PROVE  IOTyped'
BY DEF TypeOK, IOTyped

\* Steps that leave all but the process's place, the files and the faults.
LEMMA FrameTyped ==
    ASSUME TypeOK, pc' \in [Procs -> Phases], job' \in [Procs -> Jobs], IOTyped',
           opLock' \in [Deployments -> Procs \cup {NoProc}],
           keyLock' \in [Keys -> Procs \cup {NoProc}],
           disk' \in Contents, faults' \in 0 .. MaxFaults,
           UNCHANGED <<journal, row, edits, past>>
    PROVE  TypeOK'
BY DEF TypeOK, IOTyped

LEMMA PrepareTyped ==
    ASSUME TypeOK, NEW p \in Procs, PrepareStep(p) PROVE TypeOK'
<1>1. CASE AcquireKeys(p)
  BY <1>1 DEF AcquireKeys, TakeKeys, TypeOK, Goto, Phases, PrepPhases
<1>2. CASE CheckReservations(p)
  BY <1>2 DEF CheckReservations, TypeOK, Goto, Phases, PrepPhases
<1>3. CASE Prepare(p)
  <2> DEFINE o == [x \in Paths |-> IF x \in job[p].ent.paths THEN disk[x] ELSE Absent]
  <2>1. o \in Contents
    BY AbsentIsState DEF TypeOK, Contents
  <2>2. [job[p].ent EXCEPT !.old = o] \in Entries
    BY ZenonT(60), <2>1, SidesTyped DEF Entries, TypeOK, Jobs
  <2>3. [job[p] EXCEPT !.ent = [@ EXCEPT !.old = o]] \in Jobs
    BY <2>2 DEF Jobs, TypeOK
  <2>4. job' \in [Procs -> Jobs]
    BY <1>3, <2>3 DEF Prepare, TypeOK
  <2>5. pc' \in [Procs -> Phases]
    BY <1>3, GotoTyped DEF Prepare, Phases, PrepPhases
  <2> QED
    BY <1>3, <2>4, <2>5 DEF Prepare, TypeOK
<1>4. CASE Probe(p)
  BY <1>4 DEF Probe, TypeOK, Goto, Phases, PrepPhases
<1>5. ASSUME NEW t \in Txns, Publish(p, t) PROVE TypeOK'
  <2> USE <1>5
  <2>1. job[p] \in Jobs /\ job[p].ent \in Entries /\ job[p].ent.paths \in SUBSET Paths
    BY EntriesTyped DEF TypeOK, Jobs
  <2>2. journal' \in [Txns -> Journals]
    BY <2>1 DEF Publish, TypeOK, Journals, JournalPhases, Jobs
  <2>3. job' \in [Procs -> Jobs]
    BY <2>1 DEF Publish, TypeOK, Jobs
  <2>4. IOTyped'
    BY <2>1, IdleTyped DEF Publish, TypeOK, IOTyped, StartIO
  <2>5. past' \in [start : Contents, touched : SUBSET Paths]
    BY <2>1 DEF Publish, TypeOK, Contents
  <2>6. pc' \in [Procs -> Phases]
    BY GotoTyped DEF Publish, Phases, WritePhases
  <2> QED
    BY <2>2, <2>3, <2>4, <2>5, <2>6 DEF Publish, TypeOK, IOTyped
<1>6. CASE Refuse(p)
  BY <1>6, LeaveTyped, FrameTyped DEF Refuse, TypeOK
<1> QED
  BY <1>1, <1>2, <1>3, <1>4, <1>5, <1>6 DEF PrepareStep

LEMMA FileTyped ==
    ASSUME TypeOK, NEW p \in Procs, FileStep(p)
    PROVE  TypeOK'
<1> DEFINE c == io[p].cur
<1> DEFINE Held == UNCHANGED <<pc, job, opLock, keyLock>>
<1> DEFINE Control == /\ pc' \in [Procs -> Phases] /\ job' \in [Procs -> Jobs] /\ IOTyped'
                      /\ opLock' \in [Deployments -> Procs \cup {NoProc}]
                      /\ keyLock' \in [Keys -> Procs \cup {NoProc}]
<1>0. io[p] \in IOs /\ (io[p].at # "read" => c \in Paths)
  BY DEF TypeOK
<1>1. ASSUME Held, IOTyped' PROVE Control
  BY <1>1 DEF TypeOK
<1>2. ASSUME Leave(p) PROVE Control
  BY <1>2, LeaveTyped
<1>3. disk \in Contents /\ faults \in 0 .. MaxFaults
  BY DEF TypeOK
<1>4. ASSUME NEW x \in Paths, SkipFile(p, x) PROVE TypeOK'
  <2>1. io' = [io EXCEPT ![p] = [io[p] EXCEPT !.todo = @ \ {x}]]
    BY <1>4 DEF SkipFile
  <2>2. [io[p] EXCEPT !.todo = @ \ {x}] \in IOs
    BY <1>0 DEF IOs
  <2>3. IOTyped'
    BY <1>0, <1>4, <2>1, <2>2, SetIO DEF SkipFile, IOs
  <2> QED
    BY <1>1, <1>3, <1>4, <2>3, FrameTyped DEF SkipFile
<1>5. ASSUME NEW x \in Paths, ReadFile(p, x) PROVE TypeOK'
  <2> DEFINE r == [io[p] EXCEPT !.at = "write", !.cur = x, !.seen = disk[x]]
  <2>1. io' = [io EXCEPT ![p] = r]
    BY <1>5 DEF ReadFile
  <2>2. r \in IOs /\ r.cur \in Paths
    BY <1>0, SidesTyped DEF IOs
  <2>3. IOTyped'
    BY <2>1, <2>2, SetIO
  <2> QED
    BY <1>1, <1>3, <1>5, <2>3, FrameTyped DEF ReadFile
<1>6. ASSUME NEW x \in Paths, MeetThirdValue(p, x) PROVE TypeOK'
  <2>1. CASE pc[p] = "writing"
    <3>1. IOTyped'
      <4>1. io' = [io EXCEPT ![p] = StartIO(io[p].mutated)]
        BY <1>6, <2>1 DEF MeetThirdValue
      <4>2. StartIO(io[p].mutated) \in IOs /\ StartIO(io[p].mutated).at = "read"
        BY <1>0, IdleTyped, ProgressTyped, AbsentIsState DEF StartIO, IOs
      <4> QED
        BY <4>1, <4>2, SetIO
    <3>2. pc' \in [Procs -> Phases]
      BY <1>6, <2>1, GotoTyped DEF MeetThirdValue, Phases, WritePhases
    <3> QED
      BY <1>3, <1>6, <2>1, <3>1, <3>2, FrameTyped DEF MeetThirdValue, TypeOK
  <2>2. CASE pc[p] = "undoing"
    <3> DEFINE r == [io[p] EXCEPT !.todo = @ \ {x}, !.failed = @ \cup {x}]
    <3>1. io' = [io EXCEPT ![p] = r]
      BY <1>6, <2>2 DEF MeetThirdValue
    <3>2. r \in IOs /\ r.at = "read"
      BY <1>0, <1>6 DEF IOs, MeetThirdValue
    <3>3. IOTyped'
      BY <3>1, <3>2, SetIO
    <3> QED
      BY <1>1, <1>3, <1>6, <2>2, <3>3, FrameTyped DEF MeetThirdValue
  <2>3. CASE pc[p] = "recovering"
    BY <1>2, <1>3, <1>6, <2>3, FrameTyped DEF MeetThirdValue
  <2> QED
    BY <1>6, <2>1, <2>2, <2>3 DEF MeetThirdValue, Moving
<1>7. ASSUME AfterCall(p), c \in Paths PROVE IOTyped'
  <2> DEFINE r == [io[p] EXCEPT !.todo = @ \ {c}, !.at = "read", !.mutated = @ \cup {c}]
             s == [io[p] EXCEPT !.at = "check"]
  <2>1. io' = [io EXCEPT ![p] = r] \/ io' = [io EXCEPT ![p] = s]
    <3>1. CASE pc[p] = "writing"
      BY <1>7, <3>1 DEF AfterCall
    <3>2. CASE pc[p] # "writing"
      BY <1>7, <3>2 DEF AfterCall
    <3> QED
      BY <3>1, <3>2
  <2>2. r \in IOs /\ r.at = "read" /\ s \in IOs /\ s.cur \in Paths
    BY <1>0, <1>7 DEF IOs
  <2> QED
    BY <2>1, <2>2, SetIO
<1>8. ASSUME FailCall(p), c \in Paths PROVE Control
  <2> DEFINE s == [io[p] EXCEPT !.at = "check"]
  <2>1. s \in IOs /\ s.cur \in Paths
    BY <1>0, <1>8 DEF IOs
  <2>2. CASE pc[p] = "undoing"
    <3>1. io' = [io EXCEPT ![p] = s] /\ Held
      BY <1>8, <2>2 DEF FailCall
    <3> QED
      BY <1>1, <2>1, <3>1, SetIO
  <2> QED
    BY <1>2, <1>8, <2>2 DEF FailCall
<1>9. CASE DeleteFile(p)
  <2>1. c \in Paths
    BY <1>0, <1>9 DEF DeleteFile
  <2>2. disk' \in Contents
    BY <1>3, <1>9, <2>1, AbsentIsState DEF DeleteFile, Contents
  <2>3. Control
    BY <1>1, <1>7, <1>8, <1>9, <2>1 DEF DeleteFile
  <2> QED
    BY <1>3, <1>9, <2>2, <2>3, FrameTyped DEF DeleteFile
<1>10. CASE WriteFile(p)
  <2>1. c \in Paths
    BY <1>0, <1>10 DEF WriteFile
  <2>2. CASE CreateBlocked(p, c)
    BY <1>3, <1>8, <1>10, <2>1, <2>2, FrameTyped DEF WriteFile
  <2>3. CASE ~CreateBlocked(p, c)
    <3> DEFINE s == [io[p] EXCEPT !.at = "chmod"]
    <3>1. Want(p, c) \in Files /\ disk[c].exec \in BOOLEAN
      BY <1>10, <2>1, SidesTyped, StateTyped DEF WriteFile
    <3>2. [bytes |-> Want(p, c).bytes, exec |-> disk[c].exec] \in FileState
      BY <3>1 DEF FileState, Files
    <3>3. disk' \in Contents
      BY <1>3, <1>10, <2>1, <2>3, <3>2 DEF WriteFile, Contents
    <3>4. io' = [io EXCEPT ![p] = s] /\ Held
      BY <1>10, <2>3 DEF WriteFile
    <3>5. s \in IOs /\ s.cur \in Paths
      BY <1>0, <2>1 DEF IOs
    <3>6. Control
      BY <1>1, <3>4, <3>5, SetIO
    <3> QED
      BY <1>3, <1>10, <2>3, <3>3, <3>6, FrameTyped DEF WriteFile
  <2> QED
    BY <2>2, <2>3
<1>11. CASE ChmodFile(p)
  <2>1. c \in Paths
    BY <1>0, <1>11 DEF ChmodFile
  <2>2. disk[c] \in FileState /\ Want(p, c).exec \in BOOLEAN
    BY <2>1, SidesTyped, StateTyped
  <2>3. Chmod(disk[c], Want(p, c).exec) \in FileState
    BY <2>2 DEF Chmod, FileState, Files
  <2>4. disk' \in Contents
    BY <1>3, <1>11, <2>1, <2>3 DEF ChmodFile, Contents
  <2>5. faults' \in 0 .. MaxFaults
    BY <1>3, <1>11, BoundsAssumption DEF ChmodFile
  <2>6. Control
    BY <1>1, <1>7, <1>11, <2>1 DEF ChmodFile
  <2> QED
    BY <1>11, <2>4, <2>5, <2>6, FrameTyped DEF ChmodFile
<1>12. CASE CheckFile(p)
  <2>1. c \in Paths
    BY <1>0, <1>12 DEF CheckFile
  <2>2. CASE disk[c] = Want(p, c) \/ pc[p] = "undoing"
    <3> DEFINE s == [io[p] EXCEPT !.at = "read", !.todo = @ \ {c}, 
                                        !.failed = IF disk[c] = Want(p, c) THEN @ ELSE @ \cup {c}]
    <3>1. io' = [io EXCEPT ![p] = s] /\ Held
      BY <1>12, <2>2 DEF CheckFile
    <3>2. s \in IOs /\ s.at = "read"
      BY <1>0, <2>1 DEF IOs
    <3> QED
      BY <1>1, <1>3, <1>12, <3>1, <3>2, SetIO, FrameTyped DEF CheckFile
  <2>3. CASE ~(disk[c] = Want(p, c) \/ pc[p] = "undoing")
    BY <1>2, <1>3, <1>12, <2>3, FrameTyped DEF CheckFile
  <2> QED
    BY <2>2, <2>3
<1> QED
  BY <1>4, <1>5, <1>6, <1>9, <1>10, <1>11, <1>12 DEF FileStep

\* A step that only moves its process on.
LEMMA MoveTyped ==
    ASSUME TypeOK, NEW p \in Procs, NEW q \in Phases, Goto(p, q),
           UNCHANGED <<disk, journal, row, opLock, keyLock, job, faults, edits, past>>,
           io' = io \/ \E S \in SUBSET Paths : io' = [io EXCEPT ![p] = StartIO(S)]
    PROVE  TypeOK'
<1>1. pc' \in [Procs -> Phases]
  BY GotoTyped
<1>2. IOTyped'
  BY IdleTyped DEF TypeOK, IOTyped, StartIO
<1> QED
  BY <1>1, <1>2 DEF TypeOK, IOTyped

\* A step that leaves an operation, and touches no file.
LEMMA LeftTyped ==
    ASSUME TypeOK, NEW p \in Procs, Leave(p), UNCHANGED <<disk, journal, row, faults, edits, past>>
    PROVE  TypeOK'
BY LeaveTyped DEF TypeOK, IOTyped

LEMMA FinishTyped ==
    ASSUME TypeOK, NEW p \in Procs, FinishStep(p) PROVE TypeOK'
<1>1. job[p].ent \in Entries /\ job[p].ent.paths \in SUBSET Paths /\ job[p] \in Jobs
  BY EntriesTyped DEF TypeOK, Jobs
<1>2. {"verifying", "undone", "committing", "finalizing"} \subseteq Phases
  BY DEF Phases, WritePhases
<1>3. CASE FinishWriting(p)
  BY <1>1, <1>2, <1>3, MoveTyped DEF FinishWriting
<1>4. CASE FinishUndoing(p)
  BY <1>2, <1>4, MoveTyped, LeftTyped DEF FinishUndoing
<1>5. ASSUME NEW x \in Paths, VerifyFile(p, x) PROVE TypeOK'
  <2>1. CASE disk[x] = job[p].ent.new[x]
    <3> DEFINE r == [io[p] EXCEPT !.todo = @ \ {x}]
    <3>1. io' = [io EXCEPT ![p] = r] /\ UNCHANGED <<pc, job, opLock, keyLock>>
      BY <1>5, <2>1 DEF VerifyFile
    <3>2. io[p] \in IOs /\ (io[p].at # "read" => io[p].cur \in Paths)
      BY DEF TypeOK
    <3>3. r \in IOs /\ r.at = io[p].at /\ r.cur = io[p].cur
      BY <3>2 DEF IOs
    <3>4. IOTyped'
      BY <3>1, <3>2, <3>3, SetIO
    <3> QED
      BY <1>5, <3>1, <3>4 DEF VerifyFile, TypeOK, IOTyped
  <2>2. CASE disk[x] # job[p].ent.new[x]
    BY <1>5, <2>2, LeftTyped DEF VerifyFile
  <2> QED
    BY <2>1, <2>2
<1>6. CASE FinishVerifying(p)
  BY <1>2, <1>6, MoveTyped DEF FinishVerifying
<1>7. CASE Commit(p)
  <2>1. CASE CommitAllowed(p) /\ job[p].dep \in Deployments /\ job[p].txn \in Txns \cup {NoTxn}
    <3>0. row[job[p].dep] \in Rows /\ job[p].ent.new \in Contents
      BY <1>1, <2>1, EntriesTyped DEF TypeOK
    <3>1. CommittedRow(p) \in Rows
      BY <2>1, <3>0 DEF CommittedRow, Rows
    <3>2. row' \in [Deployments -> Rows]
      BY <1>7, <2>1, <3>1 DEF Commit, TypeOK
    <3>3. pc' \in [Procs -> Phases]
      BY <1>2, <1>7, <2>1, GotoTyped DEF Commit
    <3> QED
      BY <1>7, <2>1, <3>2, <3>3 DEF Commit, TypeOK
  <2>2. CASE CommitAllowed(p) /\ job[p].dep \notin Deployments
    <3>1. row' = row
      BY <1>7, <2>2 DEF Commit, TypeOK
    <3>2. pc' \in [Procs -> Phases]
      BY <1>2, <1>7, <2>2, GotoTyped DEF Commit
    <3> QED
      BY <1>7, <2>2, <3>1, <3>2 DEF Commit, TypeOK
  <2>3. CASE ~CommitAllowed(p)
    BY <1>7, <2>3, LeftTyped DEF Commit
  <2> QED
    BY <1>1, <2>1, <2>2, <2>3 DEF Jobs
<1>8. CASE DeleteJournal(p)
  <2> DEFINE t == job[p].txn
             m == [journal[t] EXCEPT !.phase = "gone"]
  <2>1. journal' = [journal EXCEPT ![t] = m]
    BY <1>8 DEF DeleteJournal
  <2>2. journal \in [Txns -> Journals]
    BY DEF TypeOK
  <2>3. t \in Txns => m \in Journals
    BY <2>2 DEF Journals, JournalPhases
  <2>4. journal' \in [Txns -> Journals]
    BY <2>1, <2>2, <2>3
  <2> QED
    BY <1>8, <2>4, LeaveTyped DEF DeleteJournal, TypeOK, IOTyped
<1> QED
  BY <1>3, <1>4, <1>5, <1>6, <1>7, <1>8 DEF FinishStep

LEMMA RecoverTyped ==
    ASSUME TypeOK, NEW p \in Procs, RecoverStep(p) PROVE TypeOK'
<1>1. job[p].ent \in Entries /\ job[p].ent.paths \in SUBSET Paths
  BY EntriesTyped DEF TypeOK, Jobs
<1>2. {"owned", "locked", "recovering", "resolving"} \subseteq Phases
  BY DEF Phases, RecoverPhases
<1>3. CASE RecoverOwn(p)
  <2>1. CASE opLock[job[p].dep] = NoProc
    <3>1. pc' \in [Procs -> Phases]
      BY <1>2, <1>3, <2>1, GotoTyped DEF RecoverOwn
    <3> QED
      BY <1>3, <2>1, <3>1 DEF RecoverOwn, TypeOK
  <2>2. CASE opLock[job[p].dep] # NoProc
    BY <1>3, <2>2, LeftTyped DEF RecoverOwn
  <2> QED
    BY <2>1, <2>2
<1>4. CASE RecoverKeys(p)
  <2>1. CASE Leave(p)
    BY <1>4, <2>1, LeftTyped DEF RecoverKeys
  <2>2. CASE TakeKeys(p, job[p].ent.paths) /\ Goto(p, "locked") /\ UNCHANGED <<job, io, opLock>>
    <3>1. pc' \in [Procs -> Phases]
      BY <1>2, <2>2, GotoTyped
    <3> QED
      BY <1>4, <2>2, <3>1 DEF RecoverKeys, TakeKeys, TypeOK
  <2> QED
    BY <1>4, <2>1, <2>2 DEF RecoverKeys
<1>5. CASE RecoverDecide(p)
  <2>1. CASE Leave(p)
    BY <1>5, <2>1, LeftTyped DEF RecoverDecide
  <2>2. CASE ~Leave(p)
    BY <1>1, <1>2, <1>5, <2>2, MoveTyped DEF RecoverDecide
  <2> QED
    BY <2>1, <2>2
<1>6. CASE FinishRecovering(p)
  BY <1>2, <1>6, MoveTyped DEF FinishRecovering
<1> QED
  BY <1>3, <1>4, <1>5, <1>6 DEF RecoverStep

LEMMA RequestTyped ==
    ASSUME TypeOK, NEW p \in Procs, Request(p) PROVE TypeOK'
<1>1. "begun" \in Phases /\ "found" \in Phases
  BY DEF Phases, PrepPhases, RecoverPhases
<1>2. ASSUME NEW d \in Deployments, NEW a \in Authorities, BeginDeploy(p, d, a) PROVE TypeOK'
  <2> DEFINE n == Plan[d][row[d].inputs]
             e == [paths |-> {x \in Paths : n[x] # Absent \/ row[d].baseline[x] # Absent},
                   base |-> row[d].baseline, old |-> row[d].baseline, new |-> n]
             j == [dep |-> d, txn |-> NoTxn, inputs |-> row[d].inputs, reviewed |-> a, ent |-> e]
  <2>1. row[d].inputs \in Inputs /\ row[d].baseline \in Contents /\ n \in Contents
    BY PlanAssumption DEF TypeOK, Rows
  <2>2. e \in Entries
    BY <2>1 DEF Entries
  <2>3. a \in BOOLEAN
    BY BoundsAssumption
  <2>4. j \in Jobs
    BY <2>1, <2>2, <2>3 DEF Jobs
  <2>5. job' = [job EXCEPT ![p] = j]
    BY <1>2 DEF BeginDeploy
  <2>6. pc' \in [Procs -> Phases]
    BY <1>1, <1>2, GotoTyped DEF BeginDeploy
  <2> QED
    BY <1>2, <2>4, <2>5, <2>6 DEF BeginDeploy, TypeOK
<1>3. ASSUME NEW t \in Txns, RecoverRead(p, t) PROVE TypeOK'
  <2> DEFINE j == [NoJob EXCEPT !.dep = journal[t].dep, !.txn = t, !.ent = journal[t].ent]
  <2>1. j \in Jobs
    BY IdleTyped DEF Jobs, TypeOK, Journals
  <2>2. job' = [job EXCEPT ![p] = j]
    BY <1>3 DEF RecoverRead
  <2>3. pc' \in [Procs -> Phases]
    BY <1>1, <1>3, GotoTyped DEF RecoverRead
  <2> QED
    BY <1>3, <2>1, <2>2, <2>3 DEF RecoverRead, TypeOK
<1> QED
  BY <1>2, <1>3 DEF Request

LEMMA OutsideTyped ==
    ASSUME TypeOK, Mutation \/ Edit \/ \E p \in Procs : Abandon(p) PROVE TypeOK'
<1>1. ASSUME NEW d \in Deployments, SoftDelete(d) PROVE TypeOK'
  <2>1. [row[d] EXCEPT !.deleted = TRUE] \in Rows
    BY DEF TypeOK, Rows
  <2>2. row' = [row EXCEPT ![d] = [row[d] EXCEPT !.deleted = TRUE]]
    BY <1>1 DEF SoftDelete
  <2> QED
    BY <1>1, <2>1, <2>2 DEF SoftDelete, TypeOK
<1>2. ASSUME NEW d \in Deployments, NEW i \in Inputs, UpdateInputs(d, i) PROVE TypeOK'
  <2>1. [row[d] EXCEPT !.inputs = i, !.assets = @ \cup AssetsOf[i]] \in Rows
    BY ZenonT(60), PlanAssumption DEF TypeOK, Rows
  <2> QED
    BY <1>2, <2>1 DEF UpdateInputs, TypeOK
<1>3. ASSUME NEW x \in Paths, NEW s \in UserFiles, UserEdit(x, s) PROVE TypeOK'
  <2>1. s \in FileState
    BY PlanAssumption
  <2>2. disk' \in Contents
    BY <1>3, <2>1 DEF UserEdit, TypeOK, Contents
  <2>3. edits' \in 0 .. MaxEdits
    BY <1>3, BoundsAssumption DEF UserEdit, TypeOK
  <2>4. past' \in [start : Contents, touched : SUBSET Paths]
    BY <1>3 DEF UserEdit, TypeOK
  <2> QED
    BY <1>3, <2>2, <2>3, <2>4 DEF UserEdit, TypeOK
<1>4. ASSUME NEW p \in Procs, Abandon(p) PROVE TypeOK'
  <2>1. faults' \in 0 .. MaxFaults
    BY <1>4, BoundsAssumption DEF Abandon, TypeOK
  <2> QED
    BY <1>4, <2>1, LeaveTyped DEF Abandon, TypeOK, IOTyped
<1> QED
  BY <1>1, <1>2, <1>3, <1>4 DEF Mutation, Edit

LEMMA TypeStep == TypeOK /\ [Next]_vars => TypeOK'
<1> SUFFICES ASSUME TypeOK, [Next]_vars PROVE TypeOK'
  OBVIOUS
<1>1. CASE UNCHANGED vars
  BY <1>1 DEF vars, TypeOK
<1>2. ASSUME NEW p \in Procs, Step(p) PROVE TypeOK'
  BY <1>2, PrepareTyped, FileTyped, FinishTyped, RecoverTyped DEF Step
<1>3. CASE Next
  BY <1>2, <1>3, RequestTyped, OutsideTyped DEF Next
<1> QED
  BY <1>1, <1>3

\* Every variable keeps its type: in particular no file gets a mode without
\* content, and no process works on a file outside its entries' paths.
THEOREM TypeCorrect == Spec => []TypeOK
BY TypeInit, TypeStep, PTL DEF Spec
=============================================================================
