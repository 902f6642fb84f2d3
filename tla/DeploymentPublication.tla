------------------------ MODULE DeploymentPublication ------------------------
(***************************************************************************)
(* The publication of one version 4 journal on the local target            *)
(* (deployment-publication.ts, -io.ts, -journal.ts): files and directory   *)
(* trees are prepared in a private staging root, moved to their public     *)
(* paths with what was there kept aside, and moved back or cleaned up by   *)
(* recovery. DeploymentTransaction shows why nobody else runs on the same  *)
(* journal, so one process is enough here; what interleaves with it is the *)
(* user's editor and its own death between any two calls.                  *)
(*                                                                         *)
(* Every move checks an identity and the rename follows it; every receipt  *)
(* is durable before the next call. A generator that yields a journal and  *)
(* the driver that persists it are one step.                               *)
(***************************************************************************)
EXTENDS Naturals, FiniteSets

CONSTANTS
    N,          \* number of publications of the journal
    Kind,       \* Kind[u]: "file" or "directory"
    Plans,      \* the journals to run: the two sides of each publication, and
                \* whether it is a reviewed complete replacement
    Edited,     \* Edited[k]: what the k-th edit of the user writes
    Absent,     \* the content of a place that holds nothing
    Torn,       \* the content of a tree whose removal was interrupted
    Bytes,      \* all other contents
    MaxId,      \* bound: identities of file system objects
    MaxFaults,  \* bound: deaths between calls
    MaxTorn,    \* bound: deaths inside a call that is several system calls
    MaxEdits    \* bound: edits of public paths by the user

Units == 1 .. N
Ids == 1 .. MaxId
NoId == 0
Contents == Bytes \cup {Absent, Torn}

ASSUME PublicationAssumption ==
    /\ N \in Nat \ {0}
    /\ Kind \in [Units -> {"file", "directory"}]
    /\ Absent # Torn /\ Absent \notin Bytes /\ Torn \notin Bytes
    /\ Plans \subseteq [complete : [Units -> BOOLEAN],
                       old : [Units -> Bytes \cup {Absent}],
                       new : [Units -> Bytes \cup {Absent}]]
    \* isValidPublications: a complete file is not a removal.
    /\ \A p \in Plans, u \in Units : p.complete[u] /\ Kind[u] = "file" => p.new[u] # Absent
ASSUME LimitsAssumption ==
    /\ MaxId \in Nat /\ MaxId >= N
    /\ MaxFaults \in Nat /\ MaxTorn \in Nat /\ MaxEdits \in Nat
    /\ Edited \in [1 .. MaxEdits -> Bytes]
\* An edit is told from every other and from both sides of a publication; that
\* the user also writes one of the sides is in the action.
ASSUME EditsAssumption ==
    /\ \A j, k \in 1 .. MaxEdits : Edited[j] = Edited[k] => j = k
    /\ \A p \in Plans, u \in Units, k \in 1 .. MaxEdits : Edited[k] \notin {p.old[u], p.new[u]}

\* The public path of a publication and its private slots in the staging root.
Slots == {"original", "prepared", "quarantine", "restoration"}
Locations == {"target"} \cup Slots

VARIABLES
    plan,       \* what the journal publishes; it never changes
    place,      \* place[u][l]: the object at location l of publication u
    root,       \* does the staging root exist?
    litter,     \* does it hold a file no slot names?
    jr,         \* the durable journal: staging receipt, phase, publications
    marker,     \* is the journal active, or resolved and gone?
    committed,  \* does the database row point to this transaction?
    op,         \* the running operation, or the outcome of the last one
    faults, torn, edits,  \* how much of the bounds is used
    past        \* history: the first objects, the publications edited since

vars == <<plan, place, root, litter, jr, marker, committed, op, faults, torn, edits, past>>

Complete == plan.complete
Old == plan.old
New == plan.new
bounds == <<faults, torn, edits, past>>

Objects == [id : Ids, c : Contents]
Vacant == [id |-> NoId, c |-> Absent]
NoIntent == [side |-> "none", cand |-> NoId, restore |-> NoId]
Intents == [side : {"none", "old", "new"}, cand : Ids \cup {NoId}, restore : Ids \cup {NoId}]
Publications == [oldTree : Objects \cup {Vacant}, prepared : Ids \cup {NoId}, intent : Intents]
JournalStates == [staged : BOOLEAN, phase : {"preparing", "publishing"},
                  unit : [Units -> Publications]]

ForwardSteps == {"stage", "receive", "prepare", "identify", "fill", "permit", "overwrite",
                 "capture", "retained", "publish", "compare", "verify", "commit"}
FileSteps == {"fileStart", "scrub", "filePrivate", "inspect", "create", "receipt",
              "displace", "fileDisplaced", "filePlace", "confirm", "fileClean"}
TreeSteps == {"treeStart", "treePrivate", "treeMove", "treeDisplaced", "treePlace",
              "treeConfirm", "treeClean"}
Labels == {"idle", "check", "rename", "begin", "unprepare", "unstage", "resolve"}
              \cup ForwardSteps \cup FileSteps \cup TreeSteps
Outcomes == {"none", "third_value", "io_failed", "refused", "dead"}

\* cur: what the operation read at the public path; from, to, then: where it
\* moves an object, and what it does next.
Idle == [mode |-> "none", pc |-> "idle", at |-> 1, cur |-> Vacant, from |-> "target",
         to |-> "target", then |-> "idle", outcome |-> "none"]
Operations == [mode : {"none", "execute", "finalize", "recover"}, pc : Labels, at : Units,
               cur : Objects \cup {Vacant}, from : Locations, to : Locations,
               then : Labels, outcome : Outcomes]

TypeOK ==
    /\ plan \in Plans
    /\ place \in [Units -> [Locations -> Objects \cup {Vacant}]]
    /\ root \in BOOLEAN /\ litter \in BOOLEAN
    /\ jr \in JournalStates
    /\ marker \in {"active", "gone"} /\ committed \in BOOLEAN
    /\ op \in Operations
    /\ faults \in 0 .. MaxFaults /\ torn \in 0 .. MaxTorn /\ edits \in 0 .. MaxEdits
    /\ past \in [first : [Units -> Objects \cup {Vacant}], touched : SUBSET Units]

\* planPublications: the tree at each directory is captured under the locks;
\* the journal has just been published, and the target is as it was captured.
First(u) == IF Old[u] = Absent THEN Vacant ELSE [id |-> u, c |-> Old[u]]
Init ==
    /\ plan \in Plans
    /\ place = [u \in Units |-> [l \in Locations |-> IF l = "target" THEN First(u) ELSE Vacant]]
    /\ root = FALSE /\ litter = FALSE
    /\ jr = [staged |-> FALSE, phase |-> "preparing",
             unit |-> [u \in Units |->
                [oldTree |-> IF Kind[u] = "directory" THEN First(u) ELSE Vacant,
                 prepared |-> NoId, intent |-> NoIntent]]]
    /\ marker = "active" /\ committed = FALSE
    /\ op = [Idle EXCEPT !.mode = "execute", !.pc = "stage"]
    /\ faults = 0 /\ torn = 0 /\ edits = 0
    /\ past = [first |-> [u \in Units |-> First(u)], touched |-> {}]
-----------------------------------------------------------------------------
(* What an operation works with.                                           *)

At(l) == op.pc = l
To(l) == [op EXCEPT !.pc = l]
Stopped(o) == [Idle EXCEPT !.outcome = o]

u0 == op.at
Here(l) == place[op.at][l]
Unit == jr.unit[op.at]
Intent == Unit.intent

\* Recovery goes to the side the commit pointer selects; a forward operation
\* and the cleanup after its commit go to the new one.
ForwardSide == "new"  \* mutant: recovery does not read the commit pointer
Side == IF op.mode = "recover" /\ ~committed THEN "old" ELSE "new"

OldContent(u) == IF Kind[u] = "directory" THEN jr.unit[u].oldTree.c ELSE Old[u]
Wanted == IF Side = "old" THEN OldContent(u0) ELSE New[u0]
WantedId == IF Side = "old" THEN Unit.oldTree.id ELSE Unit.prepared

AnythingKnown(c) == TRUE  \* mutant: no comparison with the two sides
Known(c) == c \in {OldContent(u0), New[u0]}

\* The identity an object in a private slot must have.
ForgetsCandidate(l) ==  \* mutant: the quarantined object is not accepted
    CASE l = "original" -> Unit.oldTree.id
      [] l = "prepared" -> Unit.prepared
      [] l = "restoration" -> Intent.restore
      [] OTHER -> NoId
ExpectedId(l) ==
    CASE l = "original" -> Unit.oldTree.id
      [] l = "prepared" -> Unit.prepared
      [] l = "quarantine" -> Intent.cand
      [] l = "restoration" -> Intent.restore

\* A new object may get the identity of one that is gone, a recorded one
\* included: an inode number says nothing of its past.
Placed == {place[u][l].id : u \in Units, l \in Locations}
Recorded == UNION {{r.oldTree.id, r.prepared, r.intent.cand, r.intent.restore} :
                      r \in {jr.unit[u] : u \in Units}}
NewIds ==
    LET unused == Ids \ (Placed \cup Recorded)
    IN  ((Recorded \ Placed) \ {NoId}) \cup {i \in unused : \A j \in unused : i <= j}

Put(u, l, o) == place' = [place EXCEPT ![u][l] = o]
Move(u, l, m) == place' = [place EXCEPT ![u][l] = Vacant, ![u][m] = place[u][l]]

\* isPublicationJournalTransition: what a receipt may change.
Authority == IF op.mode = "execute" THEN "execute" ELSE Side
PermitAccepted(next) ==
    /\ Authority = "execute"
    /\ jr.phase = "preparing" /\ next.phase = "publishing" /\ next.staged
    /\ \A u \in Units : Kind[u] = "directory" => next.unit[u].prepared # NoId \/ New[u] = Absent
    /\ next = [jr EXCEPT !.phase = "publishing"]
StagingAccepted(next) ==
    /\ Authority = "execute"
    /\ ~jr.staged
    /\ next = [jr EXCEPT !.staged = TRUE]
IntentAccepted(old, new) ==
    /\ new.side = IF Authority = "execute" THEN "new" ELSE Authority
    /\ old # NoIntent =>
        /\ new.cand = old.cand
        /\ old.restore # NoId => new.restore = old.restore
UnitAccepted(u, old, new) ==
    /\ old.oldTree # new.oldTree => Authority = "execute" /\ Complete[u]
    /\ old.prepared # new.prepared => Authority = "execute" /\ old.prepared = NoId
    /\ old.intent # new.intent /\ new.intent # NoIntent => IntentAccepted(old.intent, new.intent)
isPublicationJournalTransition(next) ==
    IF jr.phase # next.phase THEN PermitAccepted(next)
    ELSE IF jr.staged # next.staged THEN StagingAccepted(next)
    ELSE \E u \in Units :
            /\ next.unit[u] # jr.unit[u]
            /\ next = [jr EXCEPT !.unit[u] = next.unit[u]]
            /\ UnitAccepted(u, jr.unit[u], next.unit[u])

\* A yield and its persistence. The cleanup after a commit takes no receipt:
\* a yield there is a failure.
Persist(next, continued) ==
    IF op.mode # "finalize" /\ isPublicationJournalTransition(next)
    THEN jr' = next /\ op' = continued
    ELSE /\ op' = Stopped(IF op.mode = "finalize" THEN "io_failed" ELSE "refused")
         /\ UNCHANGED jr
Record(unit, continued) == Persist([jr EXCEPT !.unit[u0] = unit], continued)

\* The next publication: forward in order, backward when recovering.
StartOf(u, mode) ==
    IF Kind[u] = "file"
    THEN IF mode = "execute" /\ Complete[u] THEN "overwrite" ELSE "fileStart"
    ELSE IF mode = "execute" THEN "capture" ELSE "treeStart"
StartAt(u) == [Idle EXCEPT !.mode = op.mode, !.pc = StartOf(u, op.mode), !.at = u]
UnitDone ==
    IF op.mode = "execute"
    THEN IF u0 < N THEN StartAt(u0 + 1) ELSE [Idle EXCEPT !.mode = "execute", !.pc = "verify"]
    ELSE IF u0 > 1 THEN StartAt(u0 - 1) ELSE [Idle EXCEPT !.mode = op.mode, !.pc = "unstage"]

\* returnDisplaced: an unexpected object goes back to its public path if that
\* is still vacant; the operation stops with everything kept.
ReturnDisplaced(l) ==
    /\ IF Here("target") = Vacant THEN Move(u0, l, "target") ELSE UNCHANGED place
    /\ op' = Stopped("third_value")

\* movePublicationEntry from a private slot, which nobody else touches: the
\* rename replaces nothing, so it fails if the public path is taken.
PublishFrom(l, id, next) ==
    IF id # NoId /\ Here(l).id = id /\ Here("target") = Vacant
    THEN Move(u0, l, "target") /\ op' = To(next)
    ELSE op' = Stopped("io_failed") /\ UNCHANGED place

\* movePublicationEntry from the public path, where the user may act between
\* the identity check and the rename.
TakeAside(o, l, next) ==
    [op EXCEPT !.pc = "check", !.cur = o, !.to = l, !.then = next]
CheckIdentity ==
    /\ At("check")
    /\ op' = IF Here("target").id = op.cur.id THEN To("rename") ELSE Stopped("io_failed")
    /\ UNCHANGED <<place, root, litter, jr, marker, committed, bounds>>
Rename ==
    /\ At("rename")
    /\ IF Here("target") = Vacant \/ Here(op.to) # Vacant
       THEN op' = Stopped("io_failed") /\ UNCHANGED place
       ELSE /\ Move(u0, "target", op.to)
            /\ op' = IF Here("target").id = op.cur.id THEN To(op.then) ELSE Stopped("io_failed")
    /\ UNCHANGED <<root, litter, jr, marker, committed, bounds>>
-----------------------------------------------------------------------------
(* executePublications                                                      *)

\* createPreparedDirectory of the staging root, then its receipt.
CreateStaging ==
    /\ At("stage")
    /\ IF root THEN op' = Stopped("io_failed") /\ UNCHANGED root
               ELSE root' = TRUE /\ op' = To("receive")
    /\ UNCHANGED <<place, litter, jr, marker, committed, bounds>>
ReceiveStaging ==
    /\ At("receive")
    /\ Persist([jr EXCEPT !.staged = TRUE], To("prepare"))
    /\ UNCHANGED <<place, root, litter, marker, committed, bounds>>

PreparesOneMore ==  \* mutant: one publication too many
    IF u0 <= N THEN [To("prepare") EXCEPT !.at = u0 + 1] ELSE [To("permit") EXCEPT !.at = 1]
NextPrepared ==
    IF u0 < N THEN [To("prepare") EXCEPT !.at = u0 + 1] ELSE [To("permit") EXCEPT !.at = 1]

\* Every tree is complete in its slot before the first public path changes.
CreatePrepared ==
    /\ At("prepare")
    /\ IF Kind[u0] = "file" \/ New[u0] = Absent
       THEN op' = NextPrepared /\ UNCHANGED place
       ELSE /\ \E i \in NewIds : Put(u0, "prepared", [id |-> i, c |-> Torn])
            /\ op' = To("identify")
    /\ UNCHANGED <<root, litter, jr, marker, committed, bounds>>
IdentifyPrepared ==
    /\ At("identify")
    /\ Record([Unit EXCEPT !.prepared = Here("prepared").id], To("fill"))
    /\ UNCHANGED <<place, root, litter, marker, committed, bounds>>
FillPrepared ==
    /\ At("fill")
    /\ Put(u0, "prepared", [Here("prepared") EXCEPT !.c = New[u0]])
    /\ op' = NextPrepared
    /\ UNCHANGED <<root, litter, jr, marker, committed, bounds>>
PermitPublishing ==
    /\ At("permit")
    /\ Persist([jr EXCEPT !.phase = "publishing"], StartAt(1))
    /\ UNCHANGED <<place, root, litter, marker, committed, bounds>>

\* A complete file: one atomic replacement of whatever is there.
OverwriteFile ==
    /\ At("overwrite")
    /\ \E i \in NewIds : Put(u0, "target", [id |-> i, c |-> New[u0]])
    /\ op' = UnitDone
    /\ UNCHANGED <<root, litter, jr, marker, committed, bounds>>

\* A complete tree records what it replaces, any other must be unchanged.
CaptureTree ==
    LET current == Here("target")
        next == IF current = Vacant THEN To("publish")
                                    ELSE TakeAside(current, "original", "retained")
    IN  /\ At("capture")
        /\ IF current = Unit.oldTree
           THEN op' = next /\ UNCHANGED jr
           ELSE IF Complete[u0]
                THEN Record([Unit EXCEPT !.oldTree = current], next)
                ELSE op' = Stopped("third_value") /\ UNCHANGED jr
        /\ UNCHANGED <<place, root, litter, marker, committed, bounds>>
CheckRetained ==
    /\ At("retained")
    /\ IF Here("original").c = Unit.oldTree.c
       THEN op' = To("publish") /\ UNCHANGED <<place, jr>>
       ELSE IF Complete[u0]
            THEN /\ Record([Unit EXCEPT !.oldTree = Here("original")], To("publish"))
                 /\ UNCHANGED place
            ELSE ReturnDisplaced("original") /\ UNCHANGED jr
    /\ UNCHANGED <<root, litter, marker, committed, bounds>>
PublishTree ==
    /\ At("publish")
    /\ IF New[u0] = Absent
       THEN op' = To("compare") /\ UNCHANGED place
       ELSE IF Here("prepared").c # New[u0]
            THEN op' = Stopped("io_failed") /\ UNCHANGED place
            ELSE PublishFrom("prepared", Unit.prepared, "compare")
    /\ UNCHANGED <<root, litter, jr, marker, committed, bounds>>
CompareTree ==
    /\ At("compare")
    /\ op' = IF Here("target").c = New[u0] THEN UnitDone ELSE Stopped("io_failed")
    /\ UNCHANGED <<place, root, litter, jr, marker, committed, bounds>>

\* verifyAll, the database commit and the start of finalizePublications.
Verify ==
    /\ At("verify")
    /\ op' = IF Here("target").c # New[u0] THEN Stopped("io_failed")
             ELSE IF u0 < N THEN [op EXCEPT !.at = u0 + 1] ELSE To("commit")
    /\ UNCHANGED <<place, root, litter, jr, marker, committed, bounds>>
Commit ==
    /\ At("commit")
    /\ committed' = TRUE
    /\ op' = [Idle EXCEPT !.mode = "finalize", !.pc = "begin"]
    /\ UNCHANGED <<place, root, litter, jr, marker, bounds>>
-----------------------------------------------------------------------------
(* recoverFile, which also publishes a file that is no complete replacement *)

KeepsDirection(intent) == intent  \* mutant: the recorded side stays
Redirected(intent) == [intent EXCEPT !.side = Side]

StartFile ==
    LET current == Here("target") IN
    /\ At("fileStart")
    /\ IF Intent = NoIntent
       THEN IF current.c = Wanted THEN op' = UnitDone /\ UNCHANGED jr
            ELSE IF ~Known(current.c) THEN op' = Stopped("third_value") /\ UNCHANGED jr
            ELSE Record([Unit EXCEPT !.intent =
                            [side |-> Side, cand |-> current.id, restore |-> NoId]], To("scrub"))
       ELSE IF Intent.side # Side
            THEN Record([Unit EXCEPT !.intent = Redirected(Intent)], To("scrub"))
            ELSE op' = To("scrub") /\ UNCHANGED jr
    /\ UNCHANGED <<place, root, litter, marker, committed, bounds>>

\* A restoration file whose receipt was lost is adopted or removed, but only
\* while the candidate is still at the public path.
ScrubRestoration ==
    LET spare == Here("restoration")
        current == Here("target")
    IN  /\ At("scrub")
        /\ IF Intent.restore # NoId \/ spare = Vacant
           THEN op' = To("filePrivate") /\ UNCHANGED <<place, jr>>
           ELSE IF \/ current.id # Intent.cand \/ ~Known(current.c)
                   \/ Here("quarantine") # Vacant
                THEN op' = Stopped("third_value") /\ UNCHANGED <<place, jr>>
                ELSE IF spare.c = Wanted
                     THEN /\ Record([Unit EXCEPT !.intent.restore = spare.id], To("filePrivate"))
                          /\ UNCHANGED place
                     ELSE Put(u0, "restoration", Vacant) /\ op' = To("filePrivate") /\ UNCHANGED jr
        /\ UNCHANGED <<root, litter, marker, committed, bounds>>

\* The objects in private slots must be the recorded ones; one whose content
\* is neither side is returned, unless it was never public. The first slot in
\* the code's order that is not as it must be decides.
Foreign(l) == Here(l) # Vacant /\ Here(l).id # ExpectedId(l)
Changed(l) == Here(l) # Vacant /\ ~Known(Here(l).c)
FileOrder == <<"quarantine", "restoration">>
TreeOrder == <<"original", "prepared", "quarantine">>
InspectPrivate(order, next) ==
    LET bad == {k \in DOMAIN order : Foreign(order[k]) \/ Changed(order[k])}
        l == order[CHOOSE k \in bad : \A j \in bad : k <= j]
    IN  IF bad = {} THEN op' = To(next) /\ UNCHANGED place
        ELSE IF Foreign(l) \/ l = "prepared" THEN op' = Stopped("third_value") /\ UNCHANGED place
        ELSE ReturnDisplaced(l)

InspectFileSlots ==
    /\ At("filePrivate")
    /\ InspectPrivate(FileOrder, "inspect")
    /\ UNCHANGED <<root, litter, jr, marker, committed, bounds>>

\* Where the wanted bytes are: the place the code looks at first.
Holds(l) == Here(l).c = Wanted
Supply == IF Holds("quarantine") THEN "quarantine" ELSE "restoration"
InspectFile ==
    LET current == Here("target") IN
    /\ At("inspect")
    /\ op' = IF /\ current # Vacant
                /\ ~Known(current.c) \/ current.id \notin {Intent.cand, Intent.restore}
             THEN Stopped("third_value")
             ELSE IF current.c = Wanted THEN To("fileClean")
             ELSE IF Wanted = Absent \/ Holds("quarantine") \/ Holds("restoration")
             THEN [op EXCEPT !.pc = "displace", !.cur = current, !.from = Supply]
             ELSE IF Here("restoration") # Vacant \/ Intent.restore # NoId
             THEN Stopped("third_value")
             ELSE [op EXCEPT !.pc = "create", !.cur = current, !.from = "restoration"]
    /\ UNCHANGED <<place, root, litter, jr, marker, committed, bounds>>

CreateRestoration ==
    /\ At("create")
    /\ \E i \in NewIds : Put(u0, "restoration", [id |-> i, c |-> Wanted])
    /\ op' = To("receipt")
    /\ UNCHANGED <<root, litter, jr, marker, committed, bounds>>
ReceiptRestoration ==
    /\ At("receipt")
    /\ Record([Unit EXCEPT !.intent.restore = Here("restoration").id], To("displace"))
    /\ UNCHANGED <<place, root, litter, marker, committed, bounds>>

\* The file at the public path goes to the vacant slot that names it.
SlotsFor(o) == {l \in {"quarantine", "restoration"} : ExpectedId(l) = o.id /\ Here(l) = Vacant}
Displace ==
    /\ At("displace")
    /\ IF op.cur = Vacant THEN op' = To("filePlace")
       ELSE IF SlotsFor(op.cur) = {} THEN op' = Stopped("third_value")
       ELSE op' = TakeAside(op.cur,
                      IF "quarantine" \in SlotsFor(op.cur) THEN "quarantine" ELSE "restoration",
                      "fileDisplaced")
    /\ UNCHANGED <<place, root, litter, jr, marker, committed, bounds>>
CheckDisplaced(here, next) ==
    /\ At(here)
    /\ IF Known(Here(op.to).c) THEN op' = To(next) /\ UNCHANGED place ELSE ReturnDisplaced(op.to)
    /\ UNCHANGED <<root, litter, jr, marker, committed, bounds>>

PlaceFile ==
    /\ At("filePlace")
    /\ IF Wanted = Absent THEN op' = To("confirm") /\ UNCHANGED place
       ELSE IF ExpectedId(op.from) = NoId THEN op' = Stopped("io_failed") /\ UNCHANGED place
       ELSE IF Here(op.from).c # Wanted THEN op' = Stopped("third_value") /\ UNCHANGED place
       ELSE PublishFrom(op.from, ExpectedId(op.from), "confirm")
    /\ UNCHANGED <<root, litter, jr, marker, committed, bounds>>
ConfirmFile ==
    /\ At("confirm")
    /\ op' = IF Here("target").c = Wanted THEN To("fileClean") ELSE Stopped("third_value")
    /\ UNCHANGED <<place, root, litter, jr, marker, committed, bounds>>

\* The cleanup of the private slots, one object at a time in the code's order,
\* then the end of the intent.
Clean(here, order) ==
    LET full == {k \in DOMAIN order : Here(order[k]) # Vacant}
        l == order[CHOOSE k \in full : \A j \in full : k <= j]
    IN  /\ At(here)
        /\ IF full = {}
           THEN /\ UNCHANGED place
                /\ IF Intent = NoIntent /\ Kind[u0] = "directory"
                   THEN op' = UnitDone /\ UNCHANGED jr
                   ELSE Record([Unit EXCEPT !.intent = NoIntent], UnitDone)
           ELSE /\ IF Foreign(l) \/ Changed(l)
                   THEN op' = Stopped("third_value") /\ UNCHANGED place
                   ELSE Put(u0, l, Vacant) /\ UNCHANGED op
                /\ UNCHANGED jr
        /\ UNCHANGED <<root, litter, marker, committed, bounds>>
-----------------------------------------------------------------------------
(* recoverDirectory                                                         *)

StartTree ==
    LET current == Here("target")
        next == [op EXCEPT !.pc = "treePrivate", !.cur = current]
    IN  /\ At("treeStart")
        /\ IF Intent # NoIntent \/ current.c = Wanted
           THEN op' = next /\ UNCHANGED jr
           ELSE IF /\ current # Vacant
                   /\ ~Known(current.c) \/ current.id \notin {Unit.oldTree.id, Unit.prepared}
                THEN op' = Stopped("third_value") /\ UNCHANGED jr
                ELSE Record([Unit EXCEPT !.intent =
                                [side |-> Side, cand |-> current.id, restore |-> NoId]], next)
        /\ UNCHANGED <<place, root, litter, marker, committed, bounds>>

InspectTreeSlots ==
    /\ At("treePrivate")
    /\ InspectPrivate(TreeOrder, "treeMove")
    /\ UNCHANGED <<root, litter, jr, marker, committed, bounds>>

MoveTree ==
    LET current == op.cur IN
    /\ At("treeMove")
    /\ op' = IF current.c = Wanted /\ current.id = WantedId THEN To("treeClean")
             ELSE IF current = Vacant THEN To("treePlace")
             ELSE IF ~Known(current.c) \/ current.id # Intent.cand THEN Stopped("third_value")
             ELSE TakeAside(current, "quarantine", "treeDisplaced")
    /\ UNCHANGED <<place, root, litter, jr, marker, committed, bounds>>

PlaceTree ==
    LET sources == {l \in {"original", "prepared", "quarantine"} :
                        Here(l).id = WantedId /\ Here(l).c = Wanted}
    IN  /\ At("treePlace")
        /\ IF Wanted = Absent THEN op' = To("treeConfirm") /\ UNCHANGED place
           ELSE IF sources = {} THEN op' = Stopped("io_failed") /\ UNCHANGED place
           ELSE \E l \in sources : PublishFrom(l, WantedId, "treeConfirm")
        /\ UNCHANGED <<root, litter, jr, marker, committed, bounds>>
ConfirmTree ==
    /\ At("treeConfirm")
    /\ op' = IF Here("target").c = Wanted /\ Here("target").id = WantedId
             THEN To("treeClean") ELSE Stopped("third_value")
    /\ UNCHANGED <<place, root, litter, jr, marker, committed, bounds>>
-----------------------------------------------------------------------------
(* recoverPublications and finalizePublications                             *)

\* A user asks for the recovery of an unresolved journal.
Recover ==
    /\ At("idle") /\ marker = "active"
    /\ op' = [Idle EXCEPT !.mode = "recover", !.pc = "begin"]
    /\ UNCHANGED <<place, root, litter, jr, marker, committed, bounds>>

Begin ==
    /\ At("begin")
    /\ op' = IF jr.phase = "publishing" THEN StartAt(N)
             ELSE IF Side # "old" THEN Stopped("io_failed")
             ELSE IF ~jr.staged \/ ~root THEN To("resolve") ELSE To("unprepare")
    /\ UNCHANGED <<place, root, litter, jr, marker, committed, bounds>>

\* No public path was changed: the prepared slots go, whatever they hold.
Unprepare ==
    LET full == {u \in Units : place[u]["prepared"] # Vacant}
        u == CHOOSE v \in full : \A w \in full : v <= w
        id == place[u]["prepared"].id
    IN  /\ At("unprepare")
        /\ IF full = {} THEN op' = To("unstage") /\ UNCHANGED place
           ELSE IF jr.unit[u].prepared \notin {NoId, id}
                THEN op' = Stopped("third_value") /\ UNCHANGED place
                ELSE Put(u, "prepared", Vacant) /\ UNCHANGED op
        /\ UNCHANGED <<root, litter, jr, marker, committed, bounds>>

\* removeEmptyPublicationStaging refuses a root that is not empty.
StagingEmpty == ~litter /\ \A u \in Units, l \in Slots : place[u][l] = Vacant
Unstage ==
    /\ At("unstage")
    /\ IF root /\ ~StagingEmpty
       THEN op' = Stopped("io_failed") /\ UNCHANGED root
       ELSE root' = FALSE /\ op' = To("resolve")
    /\ UNCHANGED <<place, litter, jr, marker, committed, bounds>>

Resolve ==
    /\ At("resolve")
    /\ marker' = "gone"
    /\ op' = Idle
    /\ UNCHANGED <<place, root, litter, jr, committed, bounds>>
-----------------------------------------------------------------------------
(* What happens around the operation                                        *)

\* The process dies between two calls, or a call throws before it acts.
Die ==
    /\ ~At("idle")
    /\ faults < MaxFaults
    /\ faults' = faults + 1
    /\ op' = Stopped("dead")
    /\ UNCHANGED <<place, root, litter, jr, marker, committed, torn, edits, past>>

\* durableCreateFile writes a temporary file beside the slot, links it and
\* unlinks it; a process that dies inside leaves the temporary file.
DieCreating ==
    /\ At("create") /\ torn < MaxTorn
    /\ torn' = torn + 1
    /\ litter' = TRUE
    /\ \/ UNCHANGED place
       \/ \E i \in NewIds : Put(u0, "restoration", [id |-> i, c |-> Wanted])
    /\ op' = Stopped("dead")
    /\ UNCHANGED <<root, jr, marker, committed, faults, edits, past>>

\* Without an identity-bound recycle bin a tree is removed entry by entry, and
\* in the end renamed inside the staging root before its rmdir.
DieRemoving(u, l) ==
    /\ torn < MaxTorn
    /\ torn' = torn + 1
    /\ \/ Put(u, l, [place[u][l] EXCEPT !.c = Torn]) /\ UNCHANGED litter
       \/ Put(u, l, Vacant) /\ litter' = TRUE
    /\ op' = Stopped("dead")
    /\ UNCHANGED <<root, jr, marker, committed, faults, edits, past>>
DieCleaning ==
    \/ \E l \in {"original", "prepared", "quarantine"} :
        /\ At("treeClean") /\ Here(l) # Vacant /\ ~Foreign(l) /\ ~Changed(l)
        /\ DieRemoving(u0, l)
    \/ \E u \in Units :
        /\ At("unprepare") /\ place[u]["prepared"] # Vacant
        /\ DieRemoving(u, "prepared")

\* The user writes, replaces, restores or removes what is at a public path.
UserEdit(u) ==
    LET current == place[u]["target"]
        contents == {Edited[edits + 1], Old[u], New[u]} \ {Absent}
    IN  /\ edits < MaxEdits
        /\ edits' = edits + 1
        /\ \/ current # Vacant /\ Put(u, "target", Vacant)
           \/ \E i \in (NewIds \cup {current.id}) \ {NoId}, c \in contents :
                [id |-> i, c |-> c] # current /\ Put(u, "target", [id |-> i, c |-> c])
        /\ past' = [past EXCEPT !.touched = @ \cup {u}]
        /\ UNCHANGED <<root, litter, jr, marker, committed, op, faults, torn>>
-----------------------------------------------------------------------------
Forward ==
    \/ CreateStaging \/ ReceiveStaging
    \/ CreatePrepared \/ IdentifyPrepared \/ FillPrepared \/ PermitPublishing
    \/ OverwriteFile \/ CaptureTree \/ CheckRetained \/ PublishTree \/ CompareTree
    \/ Verify \/ Commit

recoverFile ==
    \/ StartFile \/ ScrubRestoration \/ InspectFileSlots \/ InspectFile
    \/ CreateRestoration \/ ReceiptRestoration
    \/ Displace \/ CheckDisplaced("fileDisplaced", "filePlace") \/ PlaceFile \/ ConfirmFile
    \/ Clean("fileClean", FileOrder)

recoverDirectory ==
    \/ StartTree \/ InspectTreeSlots \/ MoveTree
    \/ CheckDisplaced("treeDisplaced", "treePlace") \/ PlaceTree \/ ConfirmTree
    \/ Clean("treeClean", TreeOrder)

Step ==
    \/ Forward \/ recoverFile \/ recoverDirectory
    \/ CheckIdentity \/ Rename
    \/ Begin \/ Unprepare \/ Unstage \/ Resolve

Next ==
    /\ \/ Step
       \/ Recover
       \/ Die \/ DieCreating \/ DieCleaning
       \/ \E u \in Units : UserEdit(u)
    /\ UNCHANGED plan

Spec == Init /\ [][Next]_vars

\* An operation that started runs on unless its process dies, and the user of
\* a blocked Deployment asks for recovery again.
FairSpec == Spec /\ WF_vars(Step /\ UNCHANGED plan) /\ WF_vars(Recover /\ UNCHANGED plan)
-----------------------------------------------------------------------------
(* Safety                                                                   *)

\* Bytes the user wrote are never lost: a step of the program that takes an
\* object with them away leaves it in another place of the publication. The
\* exceptions are what the user gave up: a complete file, and after the commit
\* a complete tree.
UserBytesKept ==
    [][edits' = edits =>
        \A u \in Units, l \in Locations, k \in 1 .. MaxEdits :
            /\ place[u][l].c = Edited[k]
            /\ \A m \in Locations : place'[u][m] # place[u][l]
            => Complete[u] /\ (Kind[u] = "file" \/ committed)]_vars

\* When the marker goes, every publication the user left alone is on the side
\* the commit selects, an old tree with its old identity, and nothing is left
\* of the staging root unless its receipt was lost.
ResolvedToOneSide ==
    [][marker = "active" /\ marker' = "gone" =>
        \A u \in Units :
            /\ \A l \in Slots : place[u][l] = Vacant
            /\ jr.staged => ~root
            /\ u \notin past.touched =>
                IF committed THEN place[u]["target"].c = New[u]
                ELSE /\ place[u]["target"].c = Old[u]
                     /\ Kind[u] = "directory" => place[u]["target"] = past.first[u]]_vars

\* Until the marker goes, the tree recovery would put back exists whole, with
\* the identity the journal knows: the original before the commit, the
\* prepared tree after it.
WantedTreeKept ==
    marker = "active" =>
        \A u \in Units \ past.touched : Kind[u] = "directory" =>
            IF committed
            THEN New[u] = Absent \/
                 \E l \in Locations : place[u][l] = [id |-> jr.unit[u].prepared, c |-> New[u]]
            ELSE Old[u] = Absent \/ \E l \in Locations : place[u][l] = past.first[u]

\* The journal's host accepts every receipt the operation asks it to persist,
\* in forward execution and in recoveries that take over at any point.
ReceiptsAccepted == op.outcome # "refused"

\* Recovery gives up on a protected file though nobody else touched it and the
\* journal's payload has its old bytes, because the operation that was to replace
\* or remove it died before the commit, between the removal of the quarantined
\* old file and the end of its intent: either the intent still names the new
\* file's identity, so that recovery creates no other; or recovery created the
\* file and died before its receipt, and the next one does not take it, because
\* the candidate is no longer at the public path (recoverFile).
Stranded(u) ==
    LET intent == jr.unit[u].intent IN
    /\ op.mode # "execute" /\ ~committed
    /\ Kind[u] = "file" /\ ~Complete[u] /\ intent # NoIntent
    /\ \/ intent.restore # NoId /\ \A l \in Locations : place[u][l].c # Old[u]
       \/ /\ intent.restore = NoId /\ place[u]["restoration"] # Vacant
          /\ place[u]["target"].id # intent.cand

\* Without edits, and without deaths inside a call, every journal is resolved,
\* forward or by the recovery of a user who goes on asking for it; unless a
\* death strands a protected file, and then for good.
EventuallyResolved ==
    \/ <>(marker = "gone" \/ edits > 0 \/ torn > 0)
    \/ \E u \in Units : <>[]Stranded(u)
=============================================================================
