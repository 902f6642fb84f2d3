--------------------- MODULE DeploymentPublication_proofs ---------------------
(***************************************************************************)
(* Proofs about the publication engine: its states are well typed, the     *)
(* journal's host accepts every receipt, the tree recovery would put back  *)
(* exists until the marker goes, then every publication is on one side, and*)
(* bytes a user wrote are kept but for complete replacements.              *)
(***************************************************************************)
EXTENDS DeploymentPublication, WellFoundedInduction, TLAPS

-----------------------------------------------------------------------------
(* The inductive invariant.                                                 *)

\* What the operation does next; a move from a public path is two steps on the
\* way to it.
Due == IF op.pc \in {"check", "rename"} THEN op.then ELSE op.pc

Preparing == {"prepare", "identify", "fill", "permit"}
PublishingTree == {"capture", "retained", "publish", "compare"}
Publishing == PublishingTree \cup {"overwrite", "verify", "commit"} \cup FileSteps \cup TreeSteps
FileWork == FileSteps \ {"fileStart"}

\* Who takes which step: the forward steps are the first operation's, before
\* its commit; trees are recovered after it died or committed.
ModeFits ==
    /\ op.pc \in {"check", "rename"} => op.then \in {"retained", "fileDisplaced", "treeDisplaced"}
    /\ Due \in ForwardSteps => op.mode = "execute"
    /\ Due \in TreeSteps => op.mode \in {"finalize", "recover"}
    /\ Due \in {"begin", "unprepare", "unstage", "resolve"} => op.mode \in {"finalize", "recover"}
    /\ Due \in TreeSteps \cup PublishingTree => Kind[op.at] = "directory"
    /\ Due \in FileSteps \cup {"overwrite"} => Kind[op.at] = "file"
    /\ op.mode = "none" => op.pc = "idle"
    /\ op.mode = "finalize" => committed
    /\ op.mode = "execute" => ~committed

\* What the journal has recorded by then.
Accounted(u) == Kind[u] = "directory" => jr.unit[u].prepared # NoId \/ New[u] = Absent
PhaseFits ==
    /\ committed => jr.phase = "publishing"
    /\ Due \in {"stage", "receive"} \cup Preparing \cup {"unprepare"} => jr.phase = "preparing"
    /\ Due \in Publishing => jr.phase = "publishing"
    /\ Due \in {"stage", "receive"} => ~jr.staged
    /\ Due \in Preparing => jr.staged
    /\ Due \in {"stage", "receive"} => op.at = 1
    /\ Due \in {"stage", "receive"} \cup Preparing => \A u \in Units :
          /\ u < op.at \/ Due = "permit" \/ (u = op.at /\ Due = "fill") => Accounted(u)
          /\ ~(u < op.at \/ Due = "permit" \/ (u = op.at /\ Due = "fill")) => jr.unit[u].prepared = NoId
    /\ Due \in {"identify", "fill"} => Here("prepared").id # NoId

\* A file under way is recorded in the direction of its operation.
IntentFits ==
    /\ Due \in FileWork => Intent.side = Side
    /\ Due \in {"create", "receipt"} => Intent.restore = NoId
    /\ Due = "receipt" => Here("restoration").id # NoId

\* A tree nobody but the program touched is where the operation believes it.
Replaced(u) ==
    /\ place[u]["target"].c = New[u]
    /\ New[u] = Absent \/ place[u]["target"].id = jr.unit[u].prepared
TreeFits(u) ==
    /\ jr.unit[u].oldTree = past.first[u]
    /\ jr.phase = "preparing" => place[u]["target"] = past.first[u]
    /\ op.mode = "execute" /\ jr.phase = "publishing" =>
          /\ u < op.at \/ Due = "commit" \/ (u = op.at /\ Due = "compare") => Replaced(u)
          /\ Due = "verify" => Replaced(u)
          /\ u > op.at /\ Due \notin {"verify", "commit"} => place[u]["target"] = past.first[u]
    /\ u = op.at =>
          /\ Due = "capture" => place[u]["target"] = past.first[u]
          /\ Due = "retained" =>
                IF op.pc = "retained"
                THEN place[u]["original"] = past.first[u] /\ place[u]["target"] = Vacant
                ELSE op.to = "original" /\ op.cur = past.first[u] /\ place[u]["target"] = past.first[u]
          /\ Due = "publish" => place[u]["target"] = Vacant
          /\ Due \in {"treePrivate", "treeMove"} => op.cur = place[u]["target"]
          /\ Due = "treeClean" =>
                place[u]["target"].c = Wanted /\ place[u]["target"].id = WantedId

Spared(u) == Kind[u] = "directory" /\ u \notin past.touched
IInv ==
    /\ TypeOK /\ ModeFits /\ PhaseFits /\ IntentFits
    /\ past.first = [u \in Units |-> First(u)]
    /\ \A u \in Units : Spared(u) => TreeFits(u)
    /\ WantedTreeKept /\ ReceiptsAccepted

-----------------------------------------------------------------------------
(* Types.                                                                   *)

LEMMA OpTo ==
    ASSUME TypeOK, NEW l \in Labels
    PROVE  /\ To(l) \in Operations
           /\ To(l).pc = l /\ To(l).mode = op.mode /\ To(l).at = op.at /\ To(l).cur = op.cur
           /\ To(l).from = op.from /\ To(l).to = op.to /\ To(l).then = op.then
           /\ To(l).outcome = op.outcome
BY DEF To, TypeOK, Operations

LEMMA OneUnit == 1 \in Units /\ N \in Units /\ N \in Nat
BY PublicationAssumption DEF Units

LEMMA IdleOp == Idle \in Operations
BY OneUnit DEF Idle, Operations, Outcomes, Labels, Vacant, Objects, Locations

LEMMA OpStopped ==
    ASSUME NEW o \in Outcomes
    PROVE  /\ Stopped(o) \in Operations
           /\ Stopped(o).pc = "idle" /\ Stopped(o).mode = "none" /\ Stopped(o).outcome = o
           /\ Stopped(o).then = "idle"
BY IdleOp DEF Stopped, Idle, Operations

LEMMA OpStart ==
    ASSUME TypeOK, NEW u \in Units
    PROVE  /\ StartAt(u) \in Operations
           /\ StartAt(u).pc = StartOf(u, op.mode) /\ StartAt(u).mode = op.mode /\ StartAt(u).at = u
           /\ StartAt(u).then = "idle" /\ StartAt(u).outcome = "none"
           /\ StartOf(u, op.mode) \in {"overwrite", "fileStart", "capture", "treeStart"}
<1>1. StartOf(u, op.mode) \in {"overwrite", "fileStart", "capture", "treeStart"} BY DEF StartOf
<1>2. StartOf(u, op.mode) \in Labels BY <1>1 DEF Labels, ForwardSteps, FileSteps, TreeSteps
<1> QED BY <1>1, <1>2, IdleOp DEF StartAt, Idle, Operations, TypeOK

LEMMA OpDone ==
    ASSUME TypeOK
    PROVE  /\ UnitDone \in Operations
           /\ UnitDone.mode = op.mode /\ UnitDone.then = "idle" /\ UnitDone.outcome = "none"
           /\ op.mode = "execute" /\ op.at < N => UnitDone = StartAt(op.at + 1) /\ op.at + 1 \in Units
           /\ op.mode = "execute" /\ ~(op.at < N) => UnitDone.pc = "verify" /\ UnitDone.at = 1 /\ op.at = N
           /\ op.mode # "execute" /\ op.at > 1 => UnitDone = StartAt(op.at - 1) /\ op.at - 1 \in Units
           /\ op.mode # "execute" /\ ~(op.at > 1) => UnitDone.pc = "unstage"
<1>1. op.at \in Units /\ op.at \in Nat /\ N \in Nat BY OneUnit DEF TypeOK, Operations, Units
<1>2. CASE op.mode = "execute" /\ op.at < N
  <2>1. op.at + 1 \in Units BY <1>1, <1>2 DEF Units
  <2> QED BY <1>2, <2>1, OpStart DEF UnitDone, u0
<1>3. CASE op.mode = "execute" /\ ~(op.at < N)
  <2>1. UnitDone = [Idle EXCEPT !.mode = "execute", !.pc = "verify"] BY <1>3 DEF UnitDone, u0
  <2>2. op.at = N BY <1>1, <1>3 DEF Units
  <2> QED BY <1>3, <2>1, <2>2, IdleOp DEF Idle, Operations, Labels, ForwardSteps
<1>4. CASE op.mode # "execute" /\ op.at > 1
  <2>1. op.at - 1 \in Units BY <1>1, <1>4 DEF Units
  <2> QED BY <1>4, <2>1, OpStart DEF UnitDone, u0
<1>5. CASE op.mode # "execute" /\ ~(op.at > 1)
  <2>1. UnitDone = [Idle EXCEPT !.mode = op.mode, !.pc = "unstage"] BY <1>5 DEF UnitDone, u0
  <2> QED BY <1>5, <2>1, IdleOp DEF Idle, Operations, Labels, TypeOK
<1> QED BY <1>2, <1>3, <1>4, <1>5

LEMMA OpAside ==
    ASSUME TypeOK, NEW o \in Objects \cup {Vacant}, NEW l \in Locations, NEW next \in Labels
    PROVE  /\ TakeAside(o, l, next) \in Operations
           /\ TakeAside(o, l, next).pc = "check" /\ TakeAside(o, l, next).then = next
           /\ TakeAside(o, l, next).cur = o /\ TakeAside(o, l, next).to = l
           /\ TakeAside(o, l, next).mode = op.mode /\ TakeAside(o, l, next).at = op.at
           /\ TakeAside(o, l, next).outcome = op.outcome
<1>1. op \in Operations /\ "check" \in Labels BY DEF TypeOK, Labels
<1> QED BY <1>1 DEF TakeAside, Operations

\* Places are [Units -> [Locations -> Objects \cup {Vacant}]].
LEMMA PlaceType ==
    ASSUME TypeOK, NEW u \in Units, NEW l \in Locations
    PROVE  /\ place[u][l] \in Objects \cup {Vacant}
           /\ place[u][l].id \in Ids \cup {NoId} /\ place[u][l].c \in Contents
           /\ place[u][l] = [id |-> place[u][l].id, c |-> place[u][l].c]
           /\ place[u][l] # Vacant => place[u][l].id \in Ids /\ place[u][l].id # NoId
<1>1. place[u][l] \in Objects \cup {Vacant} BY DEF TypeOK
<1>2. NoId \notin Ids BY LimitsAssumption DEF NoId, Ids
<1> QED BY <1>1, <1>2 DEF Objects, Vacant, Contents

LEMMA PutType ==
    ASSUME TypeOK, NEW u \in Units, NEW l \in Locations, NEW o \in Objects \cup {Vacant}, Put(u, l, o)
    PROVE  /\ place' \in [Units -> [Locations -> Objects \cup {Vacant}]]
           /\ place'[u][l] = o
           /\ \A m \in Locations : m # l => place'[u][m] = place[u][m]
           /\ \A v \in Units : v # u => place'[v] = place[v]
BY DEF Put, TypeOK

LEMMA MoveType ==
    ASSUME TypeOK, NEW u \in Units, NEW l \in Locations, NEW m \in Locations, Move(u, l, m)
    PROVE  /\ place' \in [Units -> [Locations -> Objects \cup {Vacant}]]
           /\ place'[u][m] = place[u][l]
           /\ l # m => place'[u][l] = Vacant
           /\ \A k \in Locations : k # l /\ k # m => place'[u][k] = place[u][k]
           /\ \A v \in Units : v # u => place'[v] = place[v]
BY DEF Move, TypeOK

LEMMA NewIdType == TypeOK => NewIds \subseteq Ids /\ NoId \notin NewIds
<1> SUFFICES ASSUME TypeOK PROVE NewIds \subseteq Ids /\ NoId \notin NewIds OBVIOUS
<1>1. NoId \notin Ids BY LimitsAssumption DEF NoId, Ids
<1>2. \A u \in Units : /\ jr.unit[u].oldTree.id \in Ids \cup {NoId} /\ jr.unit[u].prepared \in Ids \cup {NoId}
                       /\ jr.unit[u].intent.cand \in Ids \cup {NoId}
                       /\ jr.unit[u].intent.restore \in Ids \cup {NoId}
  BY DEF TypeOK, JournalStates, Publications, Intents, Objects, Vacant
<1>3. Recorded \subseteq Ids \cup {NoId} BY <1>2 DEF Recorded
<1> QED BY <1>1, <1>3 DEF NewIds

LEMMA UnitType ==
    ASSUME TypeOK
    PROVE  /\ op.at \in Units /\ Unit \in Publications /\ Intent \in Intents
           /\ Unit = jr.unit[op.at] /\ Intent = jr.unit[op.at].intent
           /\ Wanted \in Contents /\ WantedId \in Ids \cup {NoId}
           /\ \A l \in Slots : ExpectedId(l) \in Ids \cup {NoId}
           /\ \A u \in Units : New[u] \in Bytes \cup {Absent} /\ Old[u] \in Bytes \cup {Absent}
<1>1. op.at \in Units /\ jr.unit[op.at] \in Publications BY DEF TypeOK, Operations, JournalStates
<1>2. \A u \in Units : New[u] \in Bytes \cup {Absent} /\ Old[u] \in Bytes \cup {Absent}
  BY PublicationAssumption DEF TypeOK, New, Old
<1>3. jr.unit[op.at].oldTree.id \in Ids \cup {NoId} /\ jr.unit[op.at].oldTree.c \in Contents
  BY <1>1 DEF Publications, Objects, Vacant, Contents
<1>4. /\ jr.unit[op.at].prepared \in Ids \cup {NoId}
      /\ jr.unit[op.at].intent \in Intents
      /\ jr.unit[op.at].intent.cand \in Ids \cup {NoId} /\ jr.unit[op.at].intent.restore \in Ids \cup {NoId}
  BY <1>1 DEF Publications, Intents
<1>5. Wanted \in Contents BY <1>1, <1>2, <1>3 DEF Wanted, OldContent, u0, Contents
<1>6. WantedId \in Ids \cup {NoId} BY <1>3, <1>4 DEF WantedId, Unit
<1>7. \A l \in Slots : ExpectedId(l) \in Ids \cup {NoId} BY <1>3, <1>4 DEF ExpectedId, Slots, Unit, Intent
<1> QED BY <1>1, <1>2, <1>4, <1>5, <1>6, <1>7 DEF Unit, Intent

\* A persisted journal differs in the publication at hand.
LEMMA PersistType ==
    ASSUME TypeOK, NEW next \in JournalStates, NEW continued \in Operations, Persist(next, continued)
    PROVE  jr' \in JournalStates /\ op' \in Operations
BY OpStopped DEF Persist, TypeOK, Outcomes

LEMMA RecordType ==
    ASSUME TypeOK, NEW unit \in Publications, NEW continued \in Operations, Record(unit, continued)
    PROVE  jr' \in JournalStates /\ op' \in Operations
<1>1. [jr EXCEPT !.unit[u0] = unit] \in JournalStates BY DEF TypeOK, JournalStates
<1> QED BY <1>1, PersistType DEF Record

-----------------------------------------------------------------------------
\* Constants of the places an operation looks at.
LEMMA HereType ==
    ASSUME TypeOK, NEW l \in Locations
    PROVE  /\ Here(l) \in Objects \cup {Vacant} /\ Here(l) = place[op.at][l]
           /\ Here(l).id \in Ids \cup {NoId} /\ Here(l).c \in Contents
           /\ Here(l) # Vacant => Here(l).id \in Ids /\ Here(l).id # NoId
BY PlaceType, UnitType DEF Here

LEMMA ReturnType ==
    ASSUME TypeOK, NEW l \in Locations, ReturnDisplaced(l)
    PROVE  op' \in Operations /\ place' \in [Units -> [Locations -> Objects \cup {Vacant}]]
<1>1. op' \in Operations BY OpStopped DEF ReturnDisplaced, Outcomes
<1>2. place' \in [Units -> [Locations -> Objects \cup {Vacant}]]
  <2>1. "target" \in Locations BY DEF Locations
  <2>2. CASE Move(u0, l, "target") BY <2>1, <2>2, MoveType, UnitType DEF u0
  <2>3. CASE UNCHANGED place BY <2>3 DEF TypeOK
  <2> QED BY <2>2, <2>3 DEF ReturnDisplaced
<1> QED BY <1>1, <1>2

LEMMA PublishType ==
    ASSUME TypeOK, NEW l \in Locations, NEW id, NEW next \in Labels, PublishFrom(l, id, next)
    PROVE  op' \in Operations /\ place' \in [Units -> [Locations -> Objects \cup {Vacant}]]
<1>1. "target" \in Locations BY DEF Locations
<1>2. CASE Move(u0, l, "target") /\ op' = To(next) BY <1>1, <1>2, MoveType, UnitType, OpTo DEF u0
<1>3. CASE op' = Stopped("io_failed") /\ UNCHANGED place BY <1>3, OpStopped DEF Outcomes, TypeOK
<1> QED BY <1>2, <1>3 DEF PublishFrom

LEMMA InspectType ==
    ASSUME TypeOK, NEW order, order \in {FileOrder, TreeOrder}, NEW next \in Labels,
           InspectPrivate(order, next)
    PROVE  op' \in Operations /\ place' \in [Units -> [Locations -> Objects \cup {Vacant}]]
<1>1. \A k \in DOMAIN order : order[k] \in Locations BY DEF FileOrder, TreeOrder, Locations, Slots
<1> DEFINE bad == {k \in DOMAIN order : Foreign(order[k]) \/ Changed(order[k])}
           l == order[CHOOSE k \in bad : \A j \in bad : k <= j]
<1>2. CASE op' = To(next) /\ UNCHANGED place BY <1>2, OpTo DEF TypeOK
<1>3. CASE op' = Stopped("third_value") /\ UNCHANGED place BY <1>3, OpStopped DEF Outcomes, TypeOK
<1>4. CASE bad # {} /\ ReturnDisplaced(l)
  <2>1. DOMAIN order = 1 .. 2 \/ DOMAIN order = 1 .. 3 BY DEF FileOrder, TreeOrder
  <2>2. \E k \in bad : \A j \in bad : k <= j BY <1>4, <2>1
  <2>3. l \in Locations BY <1>1, <2>2
  <2> QED BY <1>4, <2>3, ReturnType
<1> QED BY <1>2, <1>3, <1>4 DEF InspectPrivate

PlaceTyped == place' \in [Units -> [Locations -> Objects \cup {Vacant}]]

\* The steps of executePublications keep the types.
LEMMA ForwardType ==
    ASSUME IInv, Forward, UNCHANGED plan
    PROVE  TypeOK'
<1> TypeOK BY DEF IInv
<1> USE UnitType DEF bounds, Labels, ForwardSteps, Outcomes
<1>0. NextPrepared \in Operations
  <2>1. To("prepare") \in Operations /\ To("permit") \in Operations BY OpTo
  <2>2. u0 < N => u0 + 1 \in Units BY OneUnit DEF Units, u0
  <2> QED BY <2>1, <2>2, OneUnit DEF NextPrepared, Operations
<1>1. CASE CreateStaging
  <2>1. op' \in Operations BY <1>1, OpTo, OpStopped DEF CreateStaging
  <2>2. root' \in BOOLEAN BY <1>1 DEF CreateStaging, TypeOK
  <2> QED BY <1>1, <2>1, <2>2 DEF CreateStaging, TypeOK
<1>2. CASE ReceiveStaging
  <2>1. [jr EXCEPT !.staged = TRUE] \in JournalStates BY DEF TypeOK, JournalStates
  <2>2. jr' \in JournalStates /\ op' \in Operations BY <1>2, <2>1, PersistType, OpTo DEF ReceiveStaging
  <2> QED BY <1>2, <2>2 DEF ReceiveStaging, TypeOK
<1>3. CASE CreatePrepared
  <2>1. place' \in [Units -> [Locations -> Objects \cup {Vacant}]]
    <3>1. CASE UNCHANGED place BY <3>1 DEF TypeOK
    <3>2. ASSUME NEW i \in NewIds, Put(u0, "prepared", [id |-> i, c |-> Torn]) PROVE PlaceTyped
      <4>1. [id |-> i, c |-> Torn] \in Objects /\ "prepared" \in Locations
        BY <3>2, NewIdType DEF Objects, Contents, Locations, Slots
      <4> QED BY <3>2, <4>1, PutType DEF u0, PlaceTyped
    <3> QED BY <1>3, <3>1, <3>2 DEF CreatePrepared, PlaceTyped
  <2>2. op' \in Operations BY <1>3, <1>0, OpTo DEF CreatePrepared
  <2> QED BY <1>3, <2>1, <2>2 DEF CreatePrepared, TypeOK
<1>4. CASE IdentifyPrepared
  <2>1. [Unit EXCEPT !.prepared = Here("prepared").id] \in Publications
    BY HereType DEF Publications, Locations, Slots
  <2>2. jr' \in JournalStates /\ op' \in Operations BY <1>4, <2>1, RecordType, OpTo DEF IdentifyPrepared
  <2> QED BY <1>4, <2>2 DEF IdentifyPrepared, TypeOK
<1>5. CASE FillPrepared
  <2>1. Here("prepared").id # NoId BY <1>5 DEF FillPrepared, At, IInv, PhaseFits, Due
  <2>2. "prepared" \in Locations /\ Here("prepared") \in Objects /\ New[u0] \in Contents
    BY <2>1, HereType DEF Locations, Slots, Vacant, u0, Contents
  <2>3. [Here("prepared") EXCEPT !.c = New[u0]] \in Objects BY <2>2 DEF Objects
  <2>4. PlaceTyped BY <1>5, <2>2, <2>3, PutType DEF FillPrepared, u0, PlaceTyped
  <2> QED BY <1>5, <1>0, <2>4 DEF FillPrepared, TypeOK, PlaceTyped
<1>6. CASE PermitPublishing
  <2>1. [jr EXCEPT !.phase = "publishing"] \in JournalStates BY DEF TypeOK, JournalStates
  <2>2. jr' \in JournalStates /\ op' \in Operations
    BY <1>6, <2>1, PersistType, OpStart, OneUnit DEF PermitPublishing
  <2> QED BY <1>6, <2>2 DEF PermitPublishing, TypeOK
<1>7. CASE OverwriteFile
  <2>1. "target" \in Locations /\ New[u0] \in Contents BY DEF Locations, Contents, u0
  <2>2. ASSUME NEW i \in NewIds, Put(u0, "target", [id |-> i, c |-> New[u0]]) PROVE PlaceTyped
    <3>1. [id |-> i, c |-> New[u0]] \in Objects BY <2>1, <2>2, NewIdType DEF Objects
    <3> QED BY <2>1, <2>2, <3>1, PutType DEF u0, PlaceTyped
  <2>3. PlaceTyped BY <1>7, <2>2 DEF OverwriteFile
  <2> QED BY <1>7, <2>3, OpDone DEF OverwriteFile, TypeOK, PlaceTyped
<1>8. CASE CaptureTree
  <2>1. Here("target") \in Objects \cup {Vacant} /\ {"target", "original"} \subseteq Locations
    BY HereType DEF Locations, Slots
  <2>2. [Unit EXCEPT !.oldTree = Here("target")] \in Publications BY <2>1 DEF Publications
  <2>3. /\ To("publish") \in Operations
        /\ TakeAside(Here("target"), "original", "retained") \in Operations
    BY <2>1, OpTo, OpAside
  <2>4. jr' \in JournalStates /\ op' \in Operations
    BY <1>8, <2>2, <2>3, RecordType, OpStopped DEF CaptureTree, TypeOK
  <2> QED BY <1>8, <2>4 DEF CaptureTree, TypeOK
<1>9. CASE CheckRetained
  <2>1. Here("original") \in Objects \cup {Vacant} BY HereType DEF Locations, Slots
  <2>2. [Unit EXCEPT !.oldTree = Here("original")] \in Publications BY <2>1 DEF Publications
  <2>3. CASE op' = To("publish") /\ UNCHANGED <<place, jr>>
    BY <1>9, <2>3, OpTo DEF CheckRetained, TypeOK
  <2>4. CASE Record([Unit EXCEPT !.oldTree = Here("original")], To("publish")) /\ UNCHANGED place
    BY <1>9, <2>2, <2>4, OpTo, RecordType DEF CheckRetained, TypeOK
  <2>5. CASE ReturnDisplaced("original") /\ UNCHANGED jr
    BY <1>9, <2>5, ReturnType DEF CheckRetained, TypeOK, Locations, Slots
  <2> QED BY <1>9, <2>3, <2>4, <2>5 DEF CheckRetained
<1>10. CASE PublishTree
  <2>1. op' \in Operations /\ PlaceTyped
    BY <1>10, OpTo, OpStopped, PublishType DEF PublishTree, TypeOK, PlaceTyped, Locations, Slots
  <2> QED BY <1>10, <2>1 DEF PublishTree, TypeOK, PlaceTyped
<1>11. CASE CompareTree BY <1>11, OpDone, OpStopped DEF CompareTree, TypeOK
<1>12. CASE Verify
  <2>1. u0 < N => [op EXCEPT !.at = u0 + 1] \in Operations
    <3>1. u0 < N => u0 + 1 \in Units BY OneUnit DEF Units, u0
    <3> QED BY <3>1 DEF TypeOK, Operations
  <2>2. To("commit") \in Operations /\ Stopped("io_failed") \in Operations BY OpTo, OpStopped
  <2>3. op' \in Operations BY <1>12, <2>1, <2>2 DEF Verify
  <2> QED BY <1>12, <2>3 DEF Verify, TypeOK
<1>13. CASE Commit
  <2>1. op' \in Operations BY <1>13, IdleOp DEF Commit, Idle, Operations
  <2> QED BY <1>13, <2>1 DEF Commit, TypeOK
<1> QED BY <1>1, <1>2, <1>3, <1>4, <1>5, <1>6, <1>7, <1>8, <1>9, <1>10, <1>11, <1>12, <1>13 DEF Forward

LEMMA DisplacedType ==
    ASSUME TypeOK, NEW here, NEW next \in Labels, CheckDisplaced(here, next), UNCHANGED plan
    PROVE  TypeOK'
<1>1. op.to \in Locations BY DEF TypeOK, Operations
<1>2. CASE op' = To(next) /\ UNCHANGED place BY <1>2, OpTo DEF CheckDisplaced, TypeOK, bounds
<1>3. CASE ReturnDisplaced(op.to) BY <1>1, <1>3, ReturnType DEF CheckDisplaced, TypeOK, bounds
<1> QED BY <1>2, <1>3 DEF CheckDisplaced

\* The slot Clean takes is one of its order.
LEMMA FirstFull ==
    ASSUME NEW order \in {FileOrder, TreeOrder}, NEW full \in SUBSET DOMAIN order, full # {}
    PROVE  /\ \A k \in DOMAIN order : order[k] \in Slots /\ order[k] \in Locations
           /\ (CHOOSE k \in full : \A j \in full : k <= j) \in full
<1>1. \A k \in DOMAIN order : order[k] \in Slots /\ order[k] \in Locations
  BY DEF FileOrder, TreeOrder, Locations, Slots
<1>2. DOMAIN order = 1 .. 2 \/ DOMAIN order = 1 .. 3 BY DEF FileOrder, TreeOrder
<1>3. \E k \in full : \A j \in full : k <= j BY <1>2
<1> QED BY <1>1, <1>3

LEMMA CleanType ==
    ASSUME TypeOK, NEW here, NEW order \in {FileOrder, TreeOrder}, Clean(here, order), UNCHANGED plan
    PROVE  TypeOK'
<1> DEFINE full == {k \in DOMAIN order : Here(order[k]) # Vacant}
           l == order[CHOOSE k \in full : \A j \in full : k <= j]
<1>1. CASE full = {}
  <2>1. [Unit EXCEPT !.intent = NoIntent] \in Publications
    BY UnitType DEF Publications, Intents, NoIntent
  <2>2. op' \in Operations /\ jr' \in JournalStates
    BY <1>1, <2>1, RecordType, OpDone DEF Clean, TypeOK
  <2> QED BY <1>1, <2>2 DEF Clean, TypeOK, bounds
<1>2. CASE full # {}
  <2>1. l \in Locations BY <1>2, FirstFull
  <2>2. CASE op' = Stopped("third_value") /\ UNCHANGED place
    BY <1>2, <2>2, OpStopped DEF Clean, TypeOK, bounds, Outcomes
  <2>3. CASE Put(u0, l, Vacant) /\ UNCHANGED op
    <3>1. PlaceTyped BY <2>1, <2>3, PutType, UnitType DEF u0, PlaceTyped
    <3> QED BY <1>2, <2>3, <3>1 DEF Clean, TypeOK, bounds, PlaceTyped
  <2> QED BY <1>2, <2>2, <2>3 DEF Clean
<1> QED BY <1>1, <1>2

\* The steps of recoverFile keep the types.
LEMMA FileType ==
    ASSUME IInv, recoverFile, UNCHANGED plan
    PROVE  TypeOK'
<1> TypeOK BY DEF IInv
<1> USE UnitType DEF bounds, Labels, FileSteps, Outcomes
<1>0. /\ "restoration" \in Locations /\ "restoration" \in Slots
      /\ \A l \in {"target", "quarantine", "restoration"} : l \in Locations
      /\ Vacant \in Objects \cup {Vacant} /\ Here("target") \in Objects \cup {Vacant}
  BY HereType DEF Locations, Slots
<1>1. CASE StartFile
  <2>1. /\ [Unit EXCEPT !.intent = [side |-> Side, cand |-> Here("target").id, restore |-> NoId]]
               \in Publications
        /\ [Unit EXCEPT !.intent = Redirected(Intent)] \in Publications
    BY HereType, <1>0 DEF Publications, Intents, Redirected, Side
  <2>2. op' \in Operations /\ jr' \in JournalStates
    BY <1>1, <2>1, RecordType, OpTo, OpDone, OpStopped DEF StartFile, TypeOK
  <2> QED BY <1>1, <2>2 DEF StartFile, TypeOK
<1>2. CASE ScrubRestoration
  <2>1. [Unit EXCEPT !.intent.restore = Here("restoration").id] \in Publications
    BY HereType, <1>0 DEF Publications, Intents
  <2>2. op' \in Operations /\ jr' \in JournalStates
    BY <1>2, <2>1, RecordType, OpTo, OpStopped DEF ScrubRestoration, TypeOK
  <2>3. PlaceTyped BY <1>0, <1>2, PutType DEF ScrubRestoration, TypeOK, PlaceTyped, u0
  <2> QED BY <1>2, <2>2, <2>3 DEF ScrubRestoration, TypeOK, PlaceTyped
<1>3. CASE InspectFileSlots
  BY <1>3, InspectType DEF InspectFileSlots, TypeOK
<1>4. CASE InspectFile
  <2>1. /\ [op EXCEPT !.pc = "displace", !.cur = Here("target"), !.from = Supply] \in Operations
        /\ [op EXCEPT !.pc = "create", !.cur = Here("target"), !.from = "restoration"] \in Operations
    <3>1. op \in Operations /\ {"displace", "create"} \subseteq Labels BY DEF TypeOK
    <3>2. Supply \in Locations BY <1>0 DEF Supply
    <3> HIDE DEF Labels, FileSteps
    <3> QED BY <1>0, <3>1, <3>2 DEF Operations
  <2>2. op' \in Operations BY <1>4, <2>1, OpTo, OpStopped DEF InspectFile
  <2> QED BY <1>4, <2>2 DEF InspectFile, TypeOK
<1>5. CASE CreateRestoration
  <2>1. ASSUME NEW i \in NewIds, Put(u0, "restoration", [id |-> i, c |-> Wanted]) PROVE PlaceTyped
    <3>1. [id |-> i, c |-> Wanted] \in Objects BY <2>1, NewIdType DEF Objects
    <3> QED BY <1>0, <2>1, <3>1, PutType DEF u0, PlaceTyped
  <2>2. PlaceTyped BY <1>5, <2>1 DEF CreateRestoration
  <2> QED BY <1>5, <2>2, OpTo DEF CreateRestoration, TypeOK, PlaceTyped
<1>6. CASE ReceiptRestoration
  <2>1. [Unit EXCEPT !.intent.restore = Here("restoration").id] \in Publications
    BY HereType, <1>0 DEF Publications, Intents
  <2>2. op' \in Operations /\ jr' \in JournalStates
    BY <1>6, <2>1, RecordType, OpTo DEF ReceiptRestoration, TypeOK
  <2> QED BY <1>6, <2>2 DEF ReceiptRestoration, TypeOK
<1>7. CASE Displace
  <2>1. /\ TakeAside(op.cur, "quarantine", "fileDisplaced") \in Operations
        /\ TakeAside(op.cur, "restoration", "fileDisplaced") \in Operations
    BY <1>0, OpAside DEF TypeOK, Operations
  <2>2. op' \in Operations BY <1>7, <2>1, OpTo, OpStopped DEF Displace
  <2> QED BY <1>7, <2>2 DEF Displace, TypeOK
<1>8. CASE CheckDisplaced("fileDisplaced", "filePlace")
  BY <1>8, DisplacedType DEF FileSteps
<1>9. CASE PlaceFile
  <2>1. op' \in Operations /\ PlaceTyped
    <3>1. CASE op' = To("confirm") /\ UNCHANGED place BY <3>1, OpTo DEF TypeOK, PlaceTyped
    <3>2. CASE \E o \in {"io_failed", "third_value"} : op' = Stopped(o) /\ UNCHANGED place
      BY <3>2, OpStopped DEF TypeOK, PlaceTyped
    <3>3. CASE PublishFrom(op.from, ExpectedId(op.from), "confirm")
      BY <3>3, PublishType DEF PlaceTyped, TypeOK, Operations
    <3> QED BY <1>9, <3>1, <3>2, <3>3 DEF PlaceFile
  <2> QED BY <1>9, <2>1 DEF PlaceFile, TypeOK, PlaceTyped
<1>10. CASE ConfirmFile BY <1>10, OpTo, OpStopped DEF ConfirmFile, TypeOK
<1>11. CASE Clean("fileClean", FileOrder) BY <1>11, CleanType
<1> QED BY <1>1, <1>2, <1>3, <1>4, <1>5, <1>6, <1>7, <1>8, <1>9, <1>10, <1>11 DEF recoverFile

\* So do those of recoverDirectory,
LEMMA TreeType ==
    ASSUME IInv, recoverDirectory, UNCHANGED plan
    PROVE  TypeOK'
<1> TypeOK BY DEF IInv
<1> USE UnitType DEF bounds, Labels, TreeSteps, Outcomes
<1>0. /\ \A l \in {"target", "original", "prepared", "quarantine"} : l \in Locations
      /\ Here("target") \in Objects \cup {Vacant}
  BY HereType DEF Locations, Slots
<1>1. CASE StartTree
  <2>1. [Unit EXCEPT !.intent = [side |-> Side, cand |-> Here("target").id, restore |-> NoId]]
               \in Publications
    BY HereType, <1>0 DEF Publications, Intents, Side
  <2>2. [op EXCEPT !.pc = "treePrivate", !.cur = Here("target")] \in Operations
    BY <1>0 DEF TypeOK, Operations
  <2>3. op' \in Operations /\ jr' \in JournalStates
    BY <1>1, <2>1, <2>2, RecordType, OpStopped DEF StartTree, TypeOK
  <2> QED BY <1>1, <2>3 DEF StartTree, TypeOK
<1>2. CASE InspectTreeSlots BY <1>2, InspectType DEF InspectTreeSlots, TypeOK
<1>3. CASE MoveTree
  <2>1. TakeAside(op.cur, "quarantine", "treeDisplaced") \in Operations
    BY <1>0, OpAside DEF TypeOK, Operations
  <2>2. op' \in Operations BY <1>3, <2>1, OpTo, OpStopped DEF MoveTree
  <2> QED BY <1>3, <2>2 DEF MoveTree, TypeOK
<1>4. CASE CheckDisplaced("treeDisplaced", "treePlace") BY <1>4, DisplacedType
<1>5. CASE PlaceTree
  <2>1. op' \in Operations /\ PlaceTyped
    BY <1>0, <1>5, OpTo, OpStopped, PublishType DEF PlaceTree, TypeOK, PlaceTyped
  <2> QED BY <1>5, <2>1 DEF PlaceTree, TypeOK, PlaceTyped
<1>6. CASE ConfirmTree BY <1>6, OpTo, OpStopped DEF ConfirmTree, TypeOK
<1>7. CASE Clean("treeClean", TreeOrder) BY <1>7, CleanType
<1> QED BY <1>1, <1>2, <1>3, <1>4, <1>5, <1>6, <1>7 DEF recoverDirectory

\* The prepared slot that goes first is one of those that are full.
LEMMA FirstUnit ==
    ASSUME NEW full \in SUBSET Units, full # {}
    PROVE  (CHOOSE v \in full : \A w \in full : v <= w) \in full
<1> DEFINE R == OpToRel(<, Nat)
<1>1. full \subseteq Nat BY OneUnit DEF Units
<1>2. IsWellFoundedOn(R, Nat) BY NatLessThanWellFounded
<1> HIDE DEF R
<1>3. \E x \in full : \A y \in full : <<y, x>> \notin R BY <1>1, <1>2, WFMin
<1>4. \A x, y \in Nat : <<y, x>> \notin R => x <= y BY DEF R, OpToRel
<1>5. \E x \in full : \A y \in full : x <= y BY <1>1, <1>3, <1>4
<1> QED BY <1>5

\* and everything else.
LEMMA BetweenType ==
    ASSUME IInv, UNCHANGED plan,
           CheckIdentity \/ Rename \/ Recover \/ Begin \/ Unprepare \/ Unstage \/ Resolve
    PROVE  TypeOK'
<1> TypeOK BY DEF IInv
<1> USE UnitType DEF bounds, Labels, Outcomes
<1>1. CASE CheckIdentity BY <1>1, OpTo, OpStopped DEF CheckIdentity, TypeOK
<1>2. CASE Rename
  <2>1. op.to \in Locations /\ op.then \in Labels /\ "target" \in Locations
    BY DEF TypeOK, Operations, Locations
  <2>2. op' \in Operations BY <1>2, <2>1, OpTo, OpStopped DEF Rename
  <2>3. CASE UNCHANGED place BY <1>2, <2>2, <2>3 DEF Rename, TypeOK
  <2>4. CASE Move(u0, "target", op.to)
    <3>1. PlaceTyped BY <2>1, <2>4, MoveType DEF u0, PlaceTyped
    <3> QED BY <1>2, <2>2, <3>1 DEF Rename, TypeOK, PlaceTyped
  <2> QED BY <1>2, <2>3, <2>4 DEF Rename
<1>3. CASE Recover
  <2>1. op' \in Operations BY <1>3, IdleOp DEF Recover, Operations
  <2> QED BY <1>3, <2>1 DEF Recover, TypeOK
<1>4. CASE Begin
  <2>1. op' \in Operations BY <1>4, OneUnit, OpStart, OpTo, OpStopped DEF Begin
  <2> QED BY <1>4, <2>1 DEF Begin, TypeOK
<1>5. CASE Unprepare
  <2> DEFINE full == {u \in Units : place[u]["prepared"] # Vacant}
             u == CHOOSE v \in full : \A w \in full : v <= w
  <2>1. CASE Put(u, "prepared", Vacant) /\ UNCHANGED op /\ full # {}
    <3>1. u \in Units BY <2>1, FirstUnit
    <3> HIDE DEF u
    <3>2. PlaceTyped BY <2>1, <3>1, PutType DEF PlaceTyped, Locations, Slots
    <3> QED BY <1>5, <2>1, <3>2 DEF Unprepare, TypeOK, PlaceTyped
  <2>2. CASE op' \in {To("unstage"), Stopped("third_value")} /\ UNCHANGED place
    <3>1. op' \in Operations BY <2>2, OpTo, OpStopped
    <3> QED BY <1>5, <2>2, <3>1 DEF Unprepare, TypeOK
  <2> QED BY <1>5, <2>1, <2>2 DEF Unprepare
<1>6. CASE Unstage
  <2>1. op' \in Operations BY <1>6, OpTo, OpStopped DEF Unstage
  <2>2. root' \in BOOLEAN BY <1>6 DEF Unstage, TypeOK
  <2> QED BY <1>6, <2>1, <2>2 DEF Unstage, TypeOK
<1>7. CASE Resolve BY <1>7, IdleOp DEF Resolve, TypeOK
<1> QED BY <1>1, <1>2, <1>3, <1>4, <1>5, <1>6, <1>7

LEMMA RemovingType ==
    ASSUME TypeOK, NEW u \in Units, NEW l \in Slots, place[u][l] # Vacant, DieRemoving(u, l), UNCHANGED plan
    PROVE  TypeOK'
<1>1. l \in Locations BY DEF Locations
<1>2. [place[u][l] EXCEPT !.c = Torn] \in Objects
  <2>1. place[u][l] \in Objects BY <1>1, PlaceType
  <2>2. Torn \in Contents BY DEF Contents
  <2> QED BY <2>1, <2>2 DEF Objects
<1>3. PlaceTyped BY <1>1, <1>2, PutType DEF DieRemoving, PlaceTyped
<1>4. op' \in Operations BY OpStopped DEF DieRemoving, Outcomes
<1>5. torn' \in 0 .. MaxTorn BY LimitsAssumption DEF DieRemoving, TypeOK
<1> QED BY <1>3, <1>4, <1>5 DEF DieRemoving, TypeOK, PlaceTyped

LEMMA AroundType ==
    ASSUME IInv, UNCHANGED plan,
           Die \/ DieCreating \/ DieCleaning \/ (\E u \in Units : UserEdit(u))
    PROVE  TypeOK'
<1> TypeOK BY DEF IInv
<1>1. CASE Die
  <2>1. faults' \in 0 .. MaxFaults BY <1>1, LimitsAssumption DEF Die, TypeOK
  <2> QED BY <1>1, <2>1, OpStopped DEF Die, TypeOK, Outcomes
<1>2. CASE DieCreating
  <2>1. torn' \in 0 .. MaxTorn BY <1>2, LimitsAssumption DEF DieCreating, TypeOK
  <2>2. ASSUME NEW i \in NewIds, Put(u0, "restoration", [id |-> i, c |-> Wanted]) PROVE PlaceTyped
    <3>1. [id |-> i, c |-> Wanted] \in Objects BY <2>2, NewIdType, UnitType DEF Objects
    <3> QED BY <2>2, <3>1, PutType, UnitType DEF u0, PlaceTyped, Locations, Slots
  <2>3. PlaceTyped BY <1>2, <2>2 DEF DieCreating, PlaceTyped, TypeOK
  <2> QED BY <1>2, <2>1, <2>3, OpStopped DEF DieCreating, TypeOK, Outcomes, PlaceTyped
<1>3. CASE DieCleaning
  <2>1. ASSUME NEW l \in {"original", "prepared", "quarantine"}, Here(l) # Vacant, DieRemoving(u0, l)
        PROVE  TypeOK'
    BY <2>1, RemovingType, UnitType DEF Slots, u0, Here
  <2>2. ASSUME NEW u \in Units, place[u]["prepared"] # Vacant, DieRemoving(u, "prepared")
        PROVE  TypeOK'
    BY <2>2, RemovingType DEF Slots
  <2> QED BY <1>3, <2>1, <2>2 DEF DieCleaning
<1>4. ASSUME NEW u \in Units, UserEdit(u) PROVE TypeOK'
  <2>1. edits' \in 0 .. MaxEdits /\ edits + 1 \in 1 .. MaxEdits
    BY <1>4, LimitsAssumption DEF UserEdit, TypeOK
  <2>2. past' \in [first : [Units -> Objects \cup {Vacant}], touched : SUBSET Units]
    BY <1>4 DEF UserEdit, TypeOK
  <2>3. {Edited[edits + 1], Old[u], New[u]} \subseteq Contents
    BY <2>1, UnitType, LimitsAssumption DEF Contents
  <2>4. "target" \in Locations /\ place[u]["target"].id \in Ids \cup {NoId} BY PlaceType DEF Locations
  <2>5. ASSUME NEW i \in (NewIds \cup {place[u]["target"].id}) \ {NoId},
               NEW c \in {Edited[edits + 1], Old[u], New[u]}, Put(u, "target", [id |-> i, c |-> c])
        PROVE  PlaceTyped
    <3>1. [id |-> i, c |-> c] \in Objects BY <2>3, <2>4, <2>5, NewIdType DEF Objects
    <3> QED BY <2>4, <2>5, <3>1, PutType DEF PlaceTyped
  <2>6. Put(u, "target", Vacant) => PlaceTyped BY <2>4, PutType DEF PlaceTyped
  <2>7. PlaceTyped BY <1>4, <2>5, <2>6 DEF UserEdit
  <2> QED BY <1>4, <2>1, <2>2, <2>7 DEF UserEdit, TypeOK, PlaceTyped
<1> QED BY <1>1, <1>2, <1>3, <1>4

LEMMA StepTyped == IInv /\ [Next]_vars => TypeOK'
<1> SUFFICES ASSUME IInv, [Next]_vars PROVE TypeOK' OBVIOUS
<1>1. CASE UNCHANGED vars BY <1>1 DEF vars, IInv, TypeOK
<1>2. CASE Next
  BY <1>2, ForwardType, FileType, TreeType, BetweenType, AroundType DEF Next, Step
<1> QED BY <1>1, <1>2

-----------------------------------------------------------------------------
(* What steps of one kind leave alone.                                      *)

Held(u, x) == \E l \in Locations : place[u][l] = x

\* A step that takes no object of a spared tree away keeps the wanted tree.
LEMMA Kept ==
    ASSUME IInv, UNCHANGED <<plan, committed>>, marker' = "active" => marker = "active",
           past'.first = past.first, past.touched \subseteq past'.touched,
           committed => \A u \in Units : jr'.unit[u].prepared = jr.unit[u].prepared,
           \A u \in Units : Kind[u] = "directory" /\ u \notin past'.touched =>
              \A x \in Objects : Held(u, x) => Held(u, x)'
    PROVE  WantedTreeKept'
<1> SUFFICES ASSUME marker' = "active", NEW u \in Units, u \notin past'.touched, Kind[u] = "directory"
             PROVE  IF committed THEN New[u] = Absent \/ Held(u, [id |-> jr.unit[u].prepared, c |-> New[u]])'
                                 ELSE Old[u] = Absent \/ Held(u, past.first[u])'
  BY DEF WantedTreeKept, Held, New, Old
<1>0. TypeOK /\ WantedTreeKept /\ u \notin past.touched BY DEF IInv
<1>1. CASE committed /\ New[u] # Absent
  <2>1. Held(u, [id |-> jr.unit[u].prepared, c |-> New[u]]) BY <1>0, <1>1 DEF WantedTreeKept, Held
  <2>2. [id |-> jr.unit[u].prepared, c |-> New[u]] \in Objects \cup {Vacant}
    BY <1>0, <2>1, PlaceType DEF Held
  <2>3. [id |-> jr.unit[u].prepared, c |-> New[u]] # Vacant
    <3>1. Vacant.c = Absent BY DEF Vacant
    <3>2. [id |-> jr.unit[u].prepared, c |-> New[u]].c = New[u] OBVIOUS
    <3> QED BY <1>1, <3>1, <3>2
  <2>4. Held(u, [id |-> jr.unit[u].prepared, c |-> New[u]])'
    <3>1. New[u]' = New[u] /\ jr'.unit[u].prepared = jr.unit[u].prepared BY <1>1 DEF New
    <3> QED BY <2>1, <2>2, <2>3, <3>1
  <2> QED BY <1>1, <2>4
<1>2. CASE ~committed /\ Old[u] # Absent
  <2>1. Held(u, past.first[u]) BY <1>0, <1>2 DEF WantedTreeKept, Held
  <2>2. past.first[u] \in Objects \cup {Vacant} BY <1>0 DEF TypeOK
  <2>3. past.first[u] # Vacant BY <1>2 DEF IInv, First, Vacant
  <2> QED BY <1>2, <2>1, <2>2, <2>3
<1> QED BY <1>1, <1>2

\* A move to a vacant place takes nothing away.
LEMMA MoveKeeps ==
    ASSUME TypeOK, NEW u \in Units, NEW l \in Locations, NEW m \in Locations, Move(u, l, m),
           place[u][m] = Vacant, NEW v \in Units, NEW x \in Objects, Held(v, x)
    PROVE  Held(v, x)'
<1>1. PICK k \in Locations : place[v][k] = x BY DEF Held
<1>2. x # Vacant BY LimitsAssumption DEF Objects, Vacant, Ids, NoId
<1>3. CASE v # u BY <1>1, <1>3, MoveType DEF Held
<1>4. CASE v = u /\ k = l BY <1>1, <1>4, MoveType DEF Held
<1>5. CASE v = u /\ k # l BY <1>1, <1>2, <1>5, MoveType DEF Held
<1> QED BY <1>3, <1>4, <1>5

\* Nor does a change of another publication.
LEMMA ElsewhereKept ==
    ASSUME NEW v \in Units, place'[v] = place[v], NEW x, Held(v, x)
    PROVE  Held(v, x)'
BY DEF Held

\* An operation that stops claims nothing any more.
LEMMA Stops ==
    ASSUME IInv, TypeOK', UNCHANGED <<plan, jr, committed>>,
           op'.pc = "idle", op'.mode = "none", op'.outcome # "refused",
           past'.first = past.first, past.touched \subseteq past'.touched, WantedTreeKept',
           jr.phase = "preparing" => \A u \in Units : Kind[u] = "directory" /\ u \notin past'.touched =>
                place'[u]["target"] = place[u]["target"]
    PROVE  IInv'
<1>0. Due' = "idle" BY DEF Due
<1>1. ModeFits' BY <1>0 DEF IInv, ModeFits, ForwardSteps, FileSteps, TreeSteps, PublishingTree
<1>2. PhaseFits' /\ IntentFits'
  BY <1>0 DEF IInv, PhaseFits, IntentFits, Preparing, Publishing, FileWork, FileSteps, TreeSteps, PublishingTree
<1>3. ASSUME NEW u \in Units, Spared(u)' PROVE TreeFits(u)'
  <2>1. TreeFits(u) BY <1>3 DEF IInv, Spared
  <2> QED BY <1>0, <1>3, <2>1 DEF TreeFits, Spared
<1> QED BY <1>1, <1>2, <1>3 DEF IInv, ReceiptsAccepted, First, Old

Stable == UNCHANGED <<plan, committed, past, marker>>
Elsewhere == \A v \in Units : v # op.at => place'[v] = place[v]
OnlyIntent ==
    /\ jr'.phase = jr.phase /\ jr'.staged = jr.staged
    /\ \A v \in Units : jr'.unit[v].oldTree = jr.unit[v].oldTree /\ jr'.unit[v].prepared = jr.unit[v].prepared

\* Work on a file leaves the trees alone.
LEMMA FileStep ==
    ASSUME IInv, TypeOK', Stable, Elsewhere, OnlyIntent, Due \in FileSteps, Due' \in FileSteps,
           op'.at = op.at, op'.mode = op.mode, op'.outcome # "refused",
           op'.pc \in {"check", "rename"} => op'.then = "fileDisplaced", IntentFits'
    PROVE  IInv'
<1>0. Kind[op.at] = "file" /\ jr.phase = "publishing" /\ op.mode # "none"
  BY DEF IInv, ModeFits, PhaseFits, Publishing, Due, FileSteps
<1>1. ModeFits'
  BY <1>0 DEF IInv, ModeFits, ForwardSteps, FileSteps, TreeSteps, PublishingTree, Stable
<1>2. PhaseFits' BY <1>0 DEF IInv, PhaseFits, Preparing, Publishing, FileSteps, Stable, OnlyIntent
<1>3. ASSUME NEW u \in Units, Spared(u)' PROVE TreeFits(u)'
  <2>1. TreeFits(u) /\ u # op.at BY <1>0, <1>3 DEF IInv, Spared, Stable
  <2>2. Replaced(u) => Replaced(u)' BY <2>1 DEF Replaced, Elsewhere, OnlyIntent, Stable, New
  <2> QED BY <2>1, <2>2 DEF TreeFits, Stable, Elsewhere, OnlyIntent, FileSteps
<1>4. WantedTreeKept' BY <1>0, Kept, ElsewhereKept DEF Stable, Elsewhere, OnlyIntent
<1> QED BY <1>1, <1>2, <1>3, <1>4 DEF IInv, ReceiptsAccepted, First, Old, Stable

\* Work on a tree in a recovery leaves the other trees alone.
LEMMA TreeStep ==
    ASSUME IInv, TypeOK', Stable, Elsewhere, OnlyIntent, Due \in TreeSteps, Due' \in TreeSteps,
           op'.at = op.at, op'.mode = op.mode, op'.outcome # "refused",
           op'.pc \in {"check", "rename"} => op'.then = "treeDisplaced", WantedTreeKept',
           Spared(op.at) =>
              /\ Due' \in {"treePrivate", "treeMove"} => op'.cur = place'[op.at]["target"]
              /\ Due' = "treeClean" =>
                    place'[op.at]["target"].c = Wanted' /\ place'[op.at]["target"].id = WantedId'
    PROVE  IInv'
<1>0. jr.phase = "publishing" /\ op.mode \in {"finalize", "recover"}
  BY DEF IInv, ModeFits, PhaseFits, Publishing, Due, TreeSteps
<1>1. ModeFits'
  BY <1>0 DEF IInv, ModeFits, ForwardSteps, FileSteps, TreeSteps, PublishingTree, Stable
<1>2. PhaseFits' BY <1>0 DEF IInv, PhaseFits, Preparing, Publishing, TreeSteps, Stable, OnlyIntent
<1>3. IntentFits' BY DEF IntentFits, TreeSteps, FileWork, FileSteps
<1>4. ASSUME NEW u \in Units, Spared(u)' PROVE TreeFits(u)'
  <2>1. TreeFits(u) /\ Spared(u) BY <1>4 DEF IInv, Spared, Stable
  <2> QED BY <1>0, <2>1 DEF TreeFits, Stable, OnlyIntent, TreeSteps
<1> QED BY <1>1, <1>2, <1>3, <1>4 DEF IInv, ReceiptsAccepted, First, Old, Stable

\* The end of a publication and the beginning of the next.
LEMMA UnitEnds ==
    ASSUME IInv, TypeOK', Stable, OnlyIntent, op' = UnitDone,
           Due \in FileSteps \cup TreeSteps \cup {"overwrite", "compare"},
           \A v \in Units : Spared(v) => place'[v]["target"] = place[v]["target"], WantedTreeKept'
    PROVE  IInv'
<1> TypeOK BY DEF IInv
<1>0. /\ jr.phase = "publishing" /\ op.mode # "none" /\ op.at \in Units /\ op.at \in Nat /\ N \in Nat
      /\ op.mode \in {"execute", "finalize", "recover"}
  BY OneUnit DEF IInv, ModeFits, PhaseFits, Publishing, Due, FileSteps, TreeSteps, PublishingTree,
                 TypeOK, Operations, Units
<1>1. ASSUME NEW u \in Units, Spared(u)'
      PROVE  /\ TreeFits(u) /\ Spared(u)
             /\ op.mode = "execute" =>
                  /\ u < op.at \/ u = op.at => Replaced(u)'
                  /\ u > op.at => place'[u]["target"] = past.first[u]
  <2>1. TreeFits(u) /\ Spared(u) BY <1>1 DEF IInv, Spared, Stable
  <2>2. Replaced(u) => Replaced(u)' BY <2>1 DEF Replaced, OnlyIntent, Stable, New
  <2>3. op.mode = "execute" /\ u = op.at => Due = "compare"
    BY <2>1 DEF IInv, ModeFits, Spared, TreeSteps
  <2> QED BY <1>0, <2>1, <2>2, <2>3 DEF TreeFits, FileSteps, TreeSteps
<1>2. CASE op.mode = "execute" /\ op.at < N
  <2>1. /\ op'.mode = "execute" /\ op'.at = op.at + 1 /\ op'.outcome = "none" /\ op'.at \in Units
        /\ op'.pc = StartOf(op.at + 1, "execute") /\ Due' = op'.pc
        /\ op'.pc \in {"overwrite", "fileStart", "capture"}
        /\ op'.pc = "capture" => Kind[op'.at] = "directory"
        /\ op'.pc \in {"overwrite", "fileStart"} => Kind[op'.at] = "file"
    BY <1>2, OpDone, OpStart, PublicationAssumption DEF StartOf, Due
  <2>2. ModeFits'
    BY <1>2, <2>1 DEF IInv, ModeFits, ForwardSteps, FileSteps, TreeSteps, PublishingTree, Stable
  <2>3. PhaseFits' /\ IntentFits'
    BY <1>0, <2>1 DEF IInv, PhaseFits, IntentFits, FileWork, FileSteps, Preparing, Publishing, PublishingTree, Stable, OnlyIntent
  <2>4. ASSUME NEW u \in Units, Spared(u)' PROVE TreeFits(u)'
    <3>1. u \in Nat BY DEF Units
    <3>2. u < op'.at => Replaced(u)' BY <1>0, <1>1, <1>2, <2>1, <2>4, <3>1
    <3>3. u = op'.at \/ u > op'.at => place'[u]["target"] = past.first[u]
      BY <1>0, <1>1, <1>2, <2>1, <2>4, <3>1
    <3>4. TreeFits(u) BY <1>1, <2>4
    <3> QED BY <1>0, <2>1, <3>2, <3>3, <3>4 DEF TreeFits, Stable, OnlyIntent
  <2> QED BY <2>1, <2>2, <2>3, <2>4 DEF IInv, ReceiptsAccepted, First, Old, Stable
<1>3. CASE op.mode = "execute" /\ ~(op.at < N)
  <2>1. /\ op'.mode = "execute" /\ op'.at = 1 /\ op'.outcome = "none" /\ op.at = N
        /\ op'.pc = "verify" /\ Due' = "verify"
    BY <1>3, OpDone DEF Due
  <2>2. ModeFits'
    BY <1>3, <2>1 DEF IInv, ModeFits, ForwardSteps, FileSteps, TreeSteps, PublishingTree, Stable
  <2>3. PhaseFits' /\ IntentFits'
    BY <1>0, <2>1 DEF IInv, PhaseFits, IntentFits, FileWork, FileSteps, Preparing, Publishing, Stable, OnlyIntent
  <2>4. ASSUME NEW u \in Units, Spared(u)' PROVE TreeFits(u)'
    <3>1. u \in Nat /\ u <= N BY OneUnit DEF Units
    <3>2. Replaced(u)' BY <1>0, <1>1, <1>3, <2>1, <2>4, <3>1
    <3> QED BY <1>0, <1>1, <2>1, <2>4, <3>1, <3>2 DEF TreeFits, Stable, OnlyIntent
  <2> QED BY <2>1, <2>2, <2>3, <2>4 DEF IInv, ReceiptsAccepted, First, Old, Stable
<1>4. CASE op.mode # "execute"
  <2>1. /\ op'.mode = op.mode /\ op'.outcome = "none" /\ Due' = op'.pc
        /\ op'.pc \in {"fileStart", "treeStart", "unstage"}
        /\ op'.pc = "treeStart" => Kind[op'.at] = "directory"
        /\ op'.pc = "fileStart" => Kind[op'.at] = "file"
    BY <1>4, OpDone, OpStart, PublicationAssumption DEF StartOf, Due
  <2>2. ModeFits'
    BY <1>0, <1>4, <2>1 DEF IInv, ModeFits, ForwardSteps, FileSteps, TreeSteps, PublishingTree, Stable
  <2>3. PhaseFits' /\ IntentFits'
    BY <1>0, <2>1 DEF IInv, PhaseFits, IntentFits, FileWork, FileSteps, Preparing, Publishing, Stable, OnlyIntent
  <2>4. ASSUME NEW u \in Units, Spared(u)' PROVE TreeFits(u)'
    BY <1>0, <1>1, <1>4, <2>1, <2>4 DEF TreeFits, Stable, OnlyIntent
  <2> QED BY <2>1, <2>2, <2>3, <2>4 DEF IInv, ReceiptsAccepted, First, Old, Stable
<1> QED BY <1>2, <1>3, <1>4

\* An operation stops without a refused receipt: nothing of the journal moved,
\* nor any tree but to a vacant place.
LEMMA Halts ==
    ASSUME IInv, TypeOK', Stable, UNCHANGED jr,
           NEW o \in Outcomes, o # "refused", op' = Stopped(o),
           \A v \in Units : Spared(v) =>
              /\ jr.phase = "preparing" => place'[v]["target"] = place[v]["target"]
              /\ \A x \in Objects : Held(v, x) => Held(v, x)'
    PROVE  IInv'
<1>1. op'.pc = "idle" /\ op'.mode = "none" /\ op'.outcome # "refused" BY OpStopped
<1>2. WantedTreeKept' BY Kept DEF Stable, Spared
<1> QED BY <1>1, <1>2, Stops DEF Stable, Spared

LEMMA HaltsHere ==
    ASSUME IInv, TypeOK', Stable, UNCHANGED <<jr, place>>,
           NEW o \in Outcomes, o # "refused", op' = Stopped(o)
    PROVE  IInv'
<1>1. \A v \in Units, x \in Objects : Held(v, x) => Held(v, x)' BY DEF Held
<1> QED BY <1>1, Halts

\* The journal's host accepts the end of an intent, and a new intent that goes
\* where the operation goes and keeps what the last one recorded.
Grows(intent) ==
    intent # NoIntent =>
        /\ intent.side = Side
        /\ Intent # NoIntent =>
              /\ intent.cand = Intent.cand
              /\ Intent.restore # NoId => intent.restore = Intent.restore
LEMMA IntentRecorded ==
    ASSUME IInv, NEW intent \in Intents, intent # Intent, Grows(intent), NEW continued,
           Record([Unit EXCEPT !.intent = intent], continued)
    PROVE  \/ op' = Stopped("io_failed") /\ UNCHANGED jr
           \/ /\ op.mode # "finalize" /\ op' = continued
              /\ OnlyIntent /\ jr'.unit[op.at].intent = intent
              /\ jr'.unit[op.at].oldTree = jr.unit[op.at].oldTree
<1> DEFINE unit == [Unit EXCEPT !.intent = intent]
           next == [jr EXCEPT !.unit[u0] = unit]
<1>0. TypeOK BY DEF IInv
<1>1. /\ u0 \in Units /\ u0 = op.at /\ Unit \in Publications /\ Unit = jr.unit[u0] /\ Intent = Unit.intent
      /\ jr.unit \in [Units -> Publications] /\ jr \in JournalStates
  BY <1>0, UnitType DEF u0, TypeOK, JournalStates, Intent
<1>2. /\ unit.intent = intent /\ unit.oldTree = Unit.oldTree /\ unit.prepared = Unit.prepared
      /\ unit # Unit
  BY <1>1 DEF Publications
<1> HIDE DEF unit
<1>3. /\ next.phase = jr.phase /\ next.staged = jr.staged
      /\ next.unit[u0] = unit /\ \A v \in Units : v # u0 => next.unit[v] = jr.unit[v]
  BY <1>1 DEF JournalStates
<1>4. UnitAccepted(u0, jr.unit[u0], next.unit[u0])
  BY <1>1, <1>2, <1>3 DEF UnitAccepted, IntentAccepted, Grows, Authority, Side
<1>5. next = [jr EXCEPT !.unit[u0] = next.unit[u0]] BY <1>3
<1>6. isPublicationJournalTransition(next)
  BY <1>1, <1>2, <1>3, <1>4, <1>5 DEF isPublicationJournalTransition
<1>7. Record(unit, continued) BY DEF unit
<1>8. CASE op.mode = "finalize" BY <1>7, <1>8 DEF Record, Persist
<1>9. CASE op.mode # "finalize"
  <2>1. jr' = next /\ op' = continued BY <1>6, <1>7, <1>9 DEF Record, Persist
  <2> QED BY <1>1, <1>2, <1>3, <1>9, <2>1 DEF OnlyIntent
<1> QED BY <1>8, <1>9

LEMMA FileHalts ==
    ASSUME IInv, TypeOK', Stable, UNCHANGED jr, Elsewhere, Due \in FileSteps,
           NEW o \in Outcomes, o # "refused", op' = Stopped(o)
    PROVE  IInv'
<1>1. Kind[op.at] = "file" BY DEF IInv, ModeFits
<1>2. \A v \in Units : Spared(v) => place'[v] = place[v] BY <1>1 DEF Elsewhere, Spared
<1> QED BY <1>2, ElsewhereKept, Halts

\* A step on a file that goes on with the next one.
LEMMA FileTo ==
    ASSUME IInv, TypeOK', Stable, Elsewhere, OnlyIntent, Due \in FileSteps, NEW l \in FileSteps,
           op'.pc = l, op'.at = op.at, op'.mode = op.mode, op'.outcome = op.outcome,
           l \in FileWork => jr'.unit[op.at].intent.side = Side,
           l \in {"create", "receipt"} => jr'.unit[op.at].intent.restore = NoId,
           l = "receipt" => place'[op.at]["restoration"].id # NoId
    PROVE  IInv'
<1>1. l \notin {"check", "rename"} BY DEF FileSteps
<1>2. Due' = l BY <1>1 DEF Due
<1>3. op.outcome # "refused" BY DEF IInv, ReceiptsAccepted
<1>4. Side' = Side BY DEF Side, Stable
<1>5. IntentFits' BY <1>2, <1>4 DEF IntentFits, Intent, Unit, Here, u0
<1> QED BY <1>1, <1>2, <1>3, <1>5, FileStep

\* Slots that are only emptied hold nothing new.
NothingStowed == \A u \in Units, l \in Slots : place[u][l] = Vacant => place'[u][l] = Vacant

LEMMA MoveStowsNothing ==
    ASSUME TypeOK, NEW u \in Units, NEW l \in Locations, Move(u, l, "target")
    PROVE  NothingStowed
<1>1. "target" \in Locations /\ "target" \notin Slots /\ Slots \subseteq Locations BY DEF Locations, Slots
<1> QED BY <1>1, MoveType DEF NothingStowed

LEMMA Returned ==
    ASSUME TypeOK, NEW l \in Locations, ReturnDisplaced(l)
    PROVE  /\ op' = Stopped("third_value") /\ Elsewhere /\ NothingStowed
           /\ \A v \in Units, x \in Objects : Held(v, x) => Held(v, x)'
<1>1. "target" \in Locations /\ op.at \in Units BY UnitType DEF Locations
<1>2. op' = Stopped("third_value") BY DEF ReturnDisplaced
<1>3. CASE UNCHANGED place BY <1>2, <1>3 DEF Elsewhere, Held, NothingStowed
<1>4. CASE Here("target") = Vacant /\ Move(op.at, l, "target")
  <2>1. Elsewhere BY <1>1, <1>4, MoveType DEF Elsewhere
  <2>2. place[op.at]["target"] = Vacant BY <1>4 DEF Here, u0
  <2> QED BY <1>1, <1>2, <1>4, <2>1, <2>2, MoveKeeps, MoveStowsNothing
<1> QED BY <1>3, <1>4 DEF ReturnDisplaced, u0

LEMMA InspectCases ==
    ASSUME TypeOK, NEW order \in {FileOrder, TreeOrder}, NEW next, InspectPrivate(order, next)
    PROVE  \/ op' = To(next) /\ UNCHANGED place
           \/ op' = Stopped("third_value") /\ UNCHANGED place
           \/ \E l \in Locations : ReturnDisplaced(l)
<1> DEFINE bad == {k \in DOMAIN order : Foreign(order[k]) \/ Changed(order[k])}
           l == order[CHOOSE k \in bad : \A j \in bad : k <= j]
<1>1. CASE bad = {} BY <1>1 DEF InspectPrivate
<1>2. CASE bad # {}
  <2>1. l \in Locations BY <1>2, FirstFull
  <2> QED BY <1>2, <2>1 DEF InspectPrivate
<1> QED BY <1>1, <1>2

\* An object moves from a private slot to the vacant public path, or nothing does.
LEMMA Published ==
    ASSUME TypeOK, NEW l \in Locations, NEW id, NEW next, PublishFrom(l, id, next)
    PROVE  /\ Elsewhere /\ \A v \in Units, x \in Objects : Held(v, x) => Held(v, x)'
           /\ NothingStowed
           /\ \/ op' = Stopped("io_failed") /\ UNCHANGED place
              \/ /\ op' = To(next) /\ place'[op.at]["target"] = place[op.at][l]
                 /\ place[op.at][l].id = id
<1>1. "target" \in Locations /\ op.at \in Units BY UnitType DEF Locations
<1>2. CASE op' = Stopped("io_failed") /\ UNCHANGED place BY <1>2 DEF Elsewhere, Held, NothingStowed
<1>3. CASE /\ Here("target") = Vacant /\ Move(op.at, l, "target") /\ op' = To(next)
           /\ Here(l).id = id
  <2>1. Elsewhere BY <1>1, <1>3, MoveType DEF Elsewhere
  <2>2. place[op.at]["target"] = Vacant /\ place[op.at][l].id = id BY <1>3 DEF Here, u0
  <2>3. place'[op.at]["target"] = place[op.at][l] BY <1>1, <1>3, MoveType
  <2> QED BY <1>1, <1>3, <2>1, <2>2, <2>3, MoveKeeps, MoveStowsNothing
<1> QED BY <1>2, <1>3 DEF PublishFrom, u0

\* A cleanup ends the intent when its slots are vacant, and takes the object of
\* one of them away before.
LEMMA CleanCases ==
    ASSUME TypeOK, NEW here, NEW order \in {FileOrder, TreeOrder}, Clean(here, order)
    PROVE  \/ /\ UNCHANGED place
              /\ \A k \in DOMAIN order : Here(order[k]) = Vacant
              /\ \/ Intent = NoIntent /\ Kind[u0] = "directory" /\ op' = UnitDone /\ UNCHANGED jr
                 \/ /\ ~(Intent = NoIntent /\ Kind[u0] = "directory")
                    /\ Record([Unit EXCEPT !.intent = NoIntent], UnitDone)
           \/ op' = Stopped("third_value") /\ UNCHANGED <<place, jr>>
           \/ \E l \in Slots : ~Changed(l) /\ Put(u0, l, Vacant) /\ UNCHANGED <<op, jr>>
<1> DEFINE full == {k \in DOMAIN order : Here(order[k]) # Vacant}
           l == order[CHOOSE k \in full : \A j \in full : k <= j]
<1>1. CASE full = {}
  <2>1. \A k \in DOMAIN order : Here(order[k]) = Vacant BY <1>1
  <2> QED BY <1>1, <2>1 DEF Clean
<1>2. CASE full # {}
  <2>1. l \in Slots BY <1>2, FirstFull
  <2>2. /\ IF Foreign(l) \/ Changed(l)
           THEN op' = Stopped("third_value") /\ UNCHANGED place
           ELSE ~Changed(l) /\ Put(u0, l, Vacant) /\ UNCHANGED op
        /\ UNCHANGED jr
    BY <1>2 DEF Clean
  <2> HIDE DEF l
  <2> QED BY <2>1, <2>2
<1> QED BY <1>1, <1>2

\* Every step of recoverFile keeps the invariant.
LEMMA FileKeeps ==
    ASSUME IInv, recoverFile, UNCHANGED plan
    PROVE  IInv'
<1>0. TypeOK /\ TypeOK' BY FileType DEF IInv
<1>a. op.at \in Units /\ u0 = op.at /\ Intent = jr.unit[op.at].intent
  BY <1>0, UnitType DEF u0
<1>b. \A l \in FileSteps : At(l) => Due = l BY DEF At, Due, FileSteps
<1>c. \A l \in FileWork : At(l) => Intent.side = Side BY <1>b DEF IInv, IntentFits, FileWork
<1>d. /\ \A l \in FileSteps : l \in Labels
      /\ \A l \in {"io_failed", "third_value"} : l \in Outcomes
      /\ "target" \in Locations /\ "restoration" \in Locations /\ "quarantine" \in Locations
  BY DEF Labels, Outcomes, Locations, Slots
<1> USE <1>0, <1>a, <1>d
<1>1. CASE StartFile
  <2>1. At("fileStart") /\ Stable /\ UNCHANGED place BY <1>1 DEF StartFile, Stable, bounds
  <2>2. Elsewhere /\ Due \in FileSteps /\ \A v \in Units : place'[v] = place[v]
    BY <1>b, <2>1 DEF Elsewhere, FileSteps
  <2> DEFINE begun == [side |-> Side, cand |-> Here("target").id, restore |-> NoId]
  <2>3. begun \in Intents /\ Redirected(Intent) \in Intents
        /\ begun.side = Side /\ Redirected(Intent).side = Side
        /\ Redirected(Intent).cand = Intent.cand /\ Redirected(Intent).restore = Intent.restore
    BY HereType, UnitType DEF Intents, Redirected, Side
  <2>4. begun # NoIntent BY DEF NoIntent, Side
  <2> HIDE DEF begun
  <2>5. CASE op' = UnitDone /\ UNCHANGED jr
    <3>1. WantedTreeKept' BY <2>1, <2>2, <2>5, ElsewhereKept, Kept DEF Stable
    <3> QED BY <2>1, <2>2, <2>5, <3>1, UnitEnds DEF OnlyIntent
  <2>6. CASE op' = Stopped("third_value") /\ UNCHANGED jr BY <2>1, <2>6, HaltsHere
  <2>7. ASSUME NEW intent \in {begun, Redirected(Intent)}, intent # Intent,
               Intent # NoIntent => intent = Redirected(Intent),
               Record([Unit EXCEPT !.intent = intent], To("scrub"))
        PROVE  IInv'
    <3>1. Grows(intent) BY <2>3, <2>7 DEF Grows
    <3>2. CASE op' = Stopped("io_failed") /\ UNCHANGED jr BY <2>1, <3>2, HaltsHere
    <3>3. CASE op' = To("scrub") /\ OnlyIntent /\ jr'.unit[op.at].intent = intent
      <4>1. "scrub" \in FileSteps BY DEF FileSteps
      <4>2. /\ op'.pc = "scrub" /\ op'.at = op.at /\ op'.mode = op.mode /\ op'.outcome = op.outcome
        BY <3>3, <4>1, OpTo
      <4> QED BY <2>1, <2>2, <2>3, <2>7, <3>3, <4>1, <4>2, FileTo
    <3> QED BY <2>3, <2>7, <3>1, <3>2, <3>3, IntentRecorded
  <2>8. CASE op' = To("scrub") /\ UNCHANGED jr /\ Intent.side = Side
    <3>1. "scrub" \in FileSteps BY DEF FileSteps
    <3>2. op'.pc = "scrub" /\ op'.at = op.at /\ op'.mode = op.mode /\ op'.outcome = op.outcome
      BY <2>8, <3>1, OpTo
    <3> QED BY <2>1, <2>2, <2>8, <3>1, <3>2, FileTo DEF OnlyIntent
  <2>9. Intent.side # Side => Redirected(Intent) # Intent BY <2>3
  <2>10. \/ op' = UnitDone /\ UNCHANGED jr
         \/ op' = Stopped("third_value") /\ UNCHANGED jr
         \/ Intent = NoIntent /\ Record([Unit EXCEPT !.intent = begun], To("scrub"))
         \/ Intent # NoIntent /\ Intent.side # Side
            /\ Record([Unit EXCEPT !.intent = Redirected(Intent)], To("scrub"))
         \/ op' = To("scrub") /\ UNCHANGED jr /\ Intent.side = Side
    BY <1>1 DEF StartFile, begun
  <2>11. CASE Intent = NoIntent /\ Record([Unit EXCEPT !.intent = begun], To("scrub"))
    BY <2>4, <2>7, <2>11
  <2>12. CASE /\ Intent # NoIntent /\ Intent.side # Side
              /\ Record([Unit EXCEPT !.intent = Redirected(Intent)], To("scrub"))
    BY <2>3, <2>7, <2>9, <2>12
  <2> QED BY <2>5, <2>6, <2>8, <2>10, <2>11, <2>12
<1>2. CASE ScrubRestoration
  <2>1. At("scrub") /\ Stable BY <1>2 DEF ScrubRestoration, Stable, bounds
  <2>2. Due \in FileSteps /\ Intent.side = Side /\ "filePrivate" \in FileSteps /\ "filePrivate" \in Labels
    BY <1>b, <1>c, <2>1 DEF FileSteps, FileWork
  <2>3. CASE op' = To("filePrivate") /\ UNCHANGED jr /\ Elsewhere
    BY <2>1, <2>2, <2>3, OpTo, FileTo DEF OnlyIntent
  <2>4. CASE op' = Stopped("third_value") /\ UNCHANGED <<jr, place>> BY <2>1, <2>4, HaltsHere
  <2> DEFINE intent == [Intent EXCEPT !.restore = Here("restoration").id]
  <2>5. CASE /\ Record([Unit EXCEPT !.intent = intent], To("filePrivate"))
             /\ UNCHANGED place /\ Intent.restore = NoId /\ Here("restoration") # Vacant
    <3>1. intent \in Intents /\ intent # Intent /\ intent.side = Side /\ intent.cand = Intent.cand
      BY <2>2, <2>5, HereType, UnitType DEF Intents
    <3>2. Grows(intent) BY <2>5, <3>1 DEF Grows
    <3> HIDE DEF intent
    <3>3. CASE op' = Stopped("io_failed") /\ UNCHANGED jr BY <2>1, <2>5, <3>3, HaltsHere
    <3>4. CASE op' = To("filePrivate") /\ OnlyIntent /\ jr'.unit[op.at].intent = intent
      <4>1. Elsewhere BY <2>5 DEF Elsewhere
      <4> QED BY <2>1, <2>2, <3>1, <3>4, <4>1, OpTo, FileTo
    <3> QED BY <2>5, <3>1, <3>2, <3>3, <3>4, IntentRecorded
  <2>6. [Unit EXCEPT !.intent.restore = Here("restoration").id] = [Unit EXCEPT !.intent = intent]
    BY DEF Intent
  <2>7. UNCHANGED place => Elsewhere BY DEF Elsewhere
  <2>8. Put(u0, "restoration", Vacant) => Elsewhere
    BY PutType DEF Elsewhere
  <2> QED BY <1>2, <2>3, <2>4, <2>5, <2>6, <2>7, <2>8 DEF ScrubRestoration
<1>3. CASE InspectFileSlots
  <2>1. At("filePrivate") /\ Stable /\ UNCHANGED jr BY <1>3 DEF InspectFileSlots, Stable, bounds
  <2>2. Due \in FileSteps /\ Intent.side = Side /\ "inspect" \in FileSteps
    BY <1>b, <1>c, <2>1 DEF FileSteps, FileWork
  <2>3. CASE op' = To("inspect") /\ UNCHANGED place
    BY <2>1, <2>2, <2>3, OpTo, FileTo DEF OnlyIntent, Elsewhere
  <2>4. CASE op' = Stopped("third_value") /\ UNCHANGED place BY <2>1, <2>4, HaltsHere
  <2>5. ASSUME NEW l \in Locations, ReturnDisplaced(l) PROVE IInv'
    BY <2>1, <2>2, <2>5, Returned, FileHalts
  <2> QED BY <1>3, <2>3, <2>4, <2>5, InspectCases DEF InspectFileSlots
<1>4. CASE InspectFile
  <2>1. At("inspect") /\ Stable /\ UNCHANGED <<jr, place>> BY <1>4 DEF InspectFile, Stable, bounds
  <2>2. /\ Due \in FileSteps /\ Intent.side = Side /\ OnlyIntent /\ Elsewhere
        /\ {"fileClean", "displace", "create"} \subseteq FileSteps
    BY <1>b, <1>c, <2>1 DEF FileSteps, FileWork, OnlyIntent, Elsewhere
  <2>3. CASE op' = Stopped("third_value") BY <2>1, <2>3, HaltsHere
  <2>4. CASE op' = To("fileClean") BY <2>1, <2>2, <2>4, OpTo, FileTo
  <2>5. CASE op' = [op EXCEPT !.pc = "displace", !.cur = Here("target"), !.from = Supply]
    <3>1. op'.pc = "displace" /\ op'.at = op.at /\ op'.mode = op.mode /\ op'.outcome = op.outcome
      BY <2>5 DEF TypeOK, Operations
    <3> QED BY <2>1, <2>2, <3>1, FileTo
  <2>6. CASE /\ op' = [op EXCEPT !.pc = "create", !.cur = Here("target"), !.from = "restoration"]
             /\ Intent.restore = NoId
    <3>1. op'.pc = "create" /\ op'.at = op.at /\ op'.mode = op.mode /\ op'.outcome = op.outcome
      BY <2>6 DEF TypeOK, Operations
    <3> QED BY <2>1, <2>2, <2>6, <3>1, FileTo
  <2> QED BY <1>4, <2>3, <2>4, <2>5, <2>6 DEF InspectFile
<1>5. CASE CreateRestoration
  <2>1. At("create") /\ Stable /\ UNCHANGED jr /\ op' = To("receipt")
    BY <1>5 DEF CreateRestoration, Stable, bounds
  <2>2. /\ Due = "create" /\ "create" \in FileSteps /\ "receipt" \in FileSteps
        /\ Intent.side = Side /\ Intent.restore = NoId
    BY <1>b, <1>c, <2>1 DEF FileSteps, FileWork, IInv, IntentFits
  <2>3. PICK i \in NewIds : Put(u0, "restoration", [id |-> i, c |-> Wanted])
    BY <1>5 DEF CreateRestoration
  <2>4. i # NoId /\ [id |-> i, c |-> Wanted] \in Objects
    BY NewIdType, UnitType DEF Objects
  <2>5. Elsewhere /\ place'[op.at]["restoration"].id # NoId
    BY <2>3, <2>4, PutType DEF Elsewhere
  <2> QED BY <2>1, <2>2, <2>5, OpTo, FileTo DEF OnlyIntent
<1>6. CASE ReceiptRestoration
  <2>1. At("receipt") /\ Stable /\ UNCHANGED place BY <1>6 DEF ReceiptRestoration, Stable, bounds
  <2>2. /\ Due = "receipt" /\ "receipt" \in FileSteps /\ "displace" \in FileSteps /\ "displace" \in Labels
        /\ Intent.side = Side /\ Intent.restore = NoId /\ Here("restoration").id # NoId /\ Elsewhere
    BY <1>b, <1>c, <2>1 DEF FileSteps, FileWork, IInv, IntentFits, Elsewhere
  <2> DEFINE intent == [Intent EXCEPT !.restore = Here("restoration").id]
  <2>3. intent \in Intents /\ intent # Intent /\ intent.side = Side /\ intent.cand = Intent.cand
    BY <2>2, HereType, UnitType DEF Intents
  <2>4. Grows(intent) BY <2>2, <2>3 DEF Grows
  <2>5. [Unit EXCEPT !.intent.restore = Here("restoration").id] = [Unit EXCEPT !.intent = intent]
    BY DEF Intent
  <2>6. Record([Unit EXCEPT !.intent = intent], To("displace")) BY <1>6, <2>5 DEF ReceiptRestoration
  <2> HIDE DEF intent
  <2>7. CASE op' = Stopped("io_failed") /\ UNCHANGED jr BY <2>1, <2>7, HaltsHere
  <2>8. CASE op' = To("displace") /\ OnlyIntent /\ jr'.unit[op.at].intent = intent
    BY <2>1, <2>2, <2>3, <2>8, OpTo, FileTo
  <2> QED BY <2>3, <2>4, <2>6, <2>7, <2>8, IntentRecorded
<1>7. CASE Displace
  <2>1. At("displace") /\ Stable /\ UNCHANGED <<jr, place>> BY <1>7 DEF Displace, Stable, bounds
  <2>2. /\ Due \in FileSteps /\ Intent.side = Side /\ OnlyIntent /\ Elsewhere
        /\ {"filePlace", "fileDisplaced"} \subseteq FileSteps
    BY <1>b, <1>c, <2>1 DEF FileSteps, FileWork, OnlyIntent, Elsewhere
  <2>3. CASE op' = Stopped("third_value") BY <2>1, <2>3, HaltsHere
  <2>4. CASE op' = To("filePlace") BY <2>1, <2>2, <2>4, OpTo, FileTo
  <2>5. ASSUME NEW l \in Locations, op' = TakeAside(op.cur, l, "fileDisplaced") PROVE IInv'
    <3>1. op.cur \in Objects \cup {Vacant} BY DEF TypeOK, Operations
    <3>2. /\ op'.pc = "check" /\ op'.then = "fileDisplaced" /\ op'.at = op.at /\ op'.mode = op.mode
          /\ op'.outcome = op.outcome
      BY <2>2, <2>5, <3>1, OpAside
    <3>3. Due' = "fileDisplaced" BY <3>2 DEF Due
    <3>4. op.outcome # "refused" BY DEF IInv, ReceiptsAccepted
    <3>5. Side' = Side BY <2>1, <3>2 DEF Side, Stable
    <3>6. IntentFits' BY <2>1, <2>2, <3>2, <3>3, <3>5 DEF IntentFits, Intent, Unit, u0
    <3> QED BY <2>1, <2>2, <3>2, <3>3, <3>4, <3>6, FileStep
  <2> QED BY <1>7, <2>3, <2>4, <2>5 DEF Displace
<1>8. CASE CheckDisplaced("fileDisplaced", "filePlace")
  <2>1. At("fileDisplaced") /\ Stable /\ UNCHANGED jr BY <1>8 DEF CheckDisplaced, Stable, bounds
  <2>2. Due \in FileSteps /\ Intent.side = Side /\ OnlyIntent /\ "filePlace" \in FileSteps
    BY <1>b, <1>c, <2>1 DEF FileSteps, FileWork, OnlyIntent
  <2>3. CASE op' = To("filePlace") /\ UNCHANGED place
    BY <2>1, <2>2, <2>3, OpTo, FileTo DEF Elsewhere
  <2>4. CASE ReturnDisplaced(op.to)
    <3>1. op.to \in Locations BY DEF TypeOK, Operations
    <3> QED BY <2>1, <2>2, <2>4, <3>1, Returned, FileHalts
  <2> QED BY <1>8, <2>3, <2>4 DEF CheckDisplaced
<1>9. CASE PlaceFile
  <2>1. At("filePlace") /\ Stable /\ UNCHANGED jr BY <1>9 DEF PlaceFile, Stable, bounds
  <2>2. Due \in FileSteps /\ Intent.side = Side /\ OnlyIntent /\ "confirm" \in FileSteps
    BY <1>b, <1>c, <2>1 DEF FileSteps, FileWork, OnlyIntent
  <2>3. CASE op' = To("confirm") /\ Elsewhere BY <2>1, <2>2, <2>3, OpTo, FileTo
  <2>4. ASSUME NEW o \in {"io_failed", "third_value"}, op' = Stopped(o), UNCHANGED place PROVE IInv'
    BY <2>1, <2>4, HaltsHere
  <2>5. CASE PublishFrom(op.from, ExpectedId(op.from), "confirm")
    <3>1. op.from \in Locations BY DEF TypeOK, Operations
    <3> QED BY <2>3, <2>4, <2>5, <3>1, Published
  <2>6. UNCHANGED place => Elsewhere BY DEF Elsewhere
  <2> QED BY <1>9, <2>3, <2>4, <2>5, <2>6 DEF PlaceFile
<1>10. CASE ConfirmFile
  <2>1. At("confirm") /\ Stable /\ UNCHANGED <<jr, place>> BY <1>10 DEF ConfirmFile, Stable, bounds
  <2>2. Due \in FileSteps /\ Intent.side = Side /\ OnlyIntent /\ Elsewhere /\ "fileClean" \in FileSteps
    BY <1>b, <1>c, <2>1 DEF FileSteps, FileWork, OnlyIntent, Elsewhere
  <2>3. CASE op' = Stopped("third_value") BY <2>1, <2>3, HaltsHere
  <2>4. CASE op' = To("fileClean") BY <2>1, <2>2, <2>4, OpTo, FileTo
  <2> QED BY <1>10, <2>3, <2>4 DEF ConfirmFile
<1>11. CASE Clean("fileClean", FileOrder)
  <2>1. At("fileClean") /\ Stable BY <1>11 DEF Clean, Stable, bounds
  <2>2. /\ Due \in FileSteps /\ Intent.side = Side /\ "fileClean" \in FileSteps
        /\ Kind[op.at] = "file"
    BY <1>b, <1>c, <2>1 DEF FileSteps, FileWork, IInv, ModeFits
  <2>3. CASE UNCHANGED place /\ Record([Unit EXCEPT !.intent = NoIntent], UnitDone)
    <3>1. NoIntent \in Intents /\ NoIntent # Intent /\ Grows(NoIntent)
      BY <2>2 DEF NoIntent, Intents, Side, Grows
    <3>2. CASE op' = Stopped("io_failed") /\ UNCHANGED jr BY <2>1, <2>3, <3>2, HaltsHere
    <3>3. CASE op' = UnitDone /\ OnlyIntent
      <4>1. WantedTreeKept'
        <5>1. \A v \in Units : jr'.unit[v].prepared = jr.unit[v].prepared BY <3>3 DEF OnlyIntent
        <5>2. \A v \in Units : place'[v] = place[v] BY <2>3
        <5> QED BY <2>1, <5>1, <5>2, ElsewhereKept, Kept DEF Stable
      <4> QED BY <2>1, <2>2, <2>3, <3>3, <4>1, UnitEnds
    <3> QED BY <2>3, <3>1, <3>2, <3>3, IntentRecorded
  <2>4. CASE op' = Stopped("third_value") /\ UNCHANGED <<place, jr>> BY <2>1, <2>4, HaltsHere
  <2>5. ASSUME NEW l \in Slots, Put(u0, l, Vacant), UNCHANGED <<op, jr>> PROVE IInv'
    <3>1. Elsewhere BY <2>5, PutType DEF Elsewhere, Locations
    <3>2. op'.pc = "fileClean" BY <2>1, <2>5 DEF At
    <3> QED BY <2>1, <2>2, <2>5, <3>1, <3>2, FileTo DEF OnlyIntent
  <2> QED BY <1>11, <2>2, <2>3, <2>4, <2>5, CleanCases
<1> QED BY <1>1, <1>2, <1>3, <1>4, <1>5, <1>6, <1>7, <1>8, <1>9, <1>10, <1>11 DEF recoverFile

\* The tree recovery would put back is at its public path already: before the
\* first public change, and when a recovery reached its cleanup.
Settled(u) ==
    IF committed
    THEN New[u] = Absent \/ place[u]["target"] = [id |-> jr.unit[u].prepared, c |-> New[u]]
    ELSE place[u]["target"] = past.first[u]

LEMMA Settles ==
    ASSUME IInv
    PROVE  /\ Spared(op.at) /\ Due = "treeClean" => Settled(op.at)
           /\ \A u \in Units : Spared(u) /\ jr.phase = "preparing" => Settled(u)
<1>0. TypeOK /\ op.at \in Units BY UnitType DEF IInv
<1>1. ASSUME NEW u \in Units, Spared(u), jr.phase = "preparing" PROVE Settled(u)
  BY <1>1 DEF IInv, PhaseFits, TreeFits, Settled
<1>2. ASSUME Spared(op.at), Due = "treeClean" PROVE Settled(op.at)
  <2>1. /\ op.mode \in {"finalize", "recover"}
        /\ op.mode = "finalize" => committed
        /\ Kind[op.at] = "directory" /\ Unit.oldTree = past.first[op.at]
        /\ place[op.at]["target"].c = Wanted /\ place[op.at]["target"].id = WantedId
    BY <1>0, <1>2 DEF IInv, ModeFits, TreeFits, TreeSteps, Unit, u0
  <2>2. /\ place[op.at]["target"] = [id |-> WantedId, c |-> Wanted]
        /\ past.first[op.at] = [id |-> past.first[op.at].id, c |-> past.first[op.at].c]
    <3>1. past.first[op.at] \in Objects \cup {Vacant} BY <1>0 DEF TypeOK
    <3>2. past.first[op.at] = [id |-> past.first[op.at].id, c |-> past.first[op.at].c]
      BY <3>1 DEF Objects, Vacant
    <3>3. place[op.at]["target"] = [id |-> place[op.at]["target"].id, c |-> place[op.at]["target"].c]
      BY <1>0, PlaceType DEF Locations
    <3> QED BY <2>1, <3>2, <3>3
  <2>3. CASE committed
    <3>1. Side = "new" BY <2>1, <2>3 DEF Side
    <3>2. Wanted = New[op.at] /\ WantedId = jr.unit[op.at].prepared
      BY <3>1 DEF Wanted, WantedId, Unit, u0
    <3> QED BY <2>2, <2>3, <3>2 DEF Settled
  <2>4. CASE ~committed
    <3>1. Side = "old" BY <2>1, <2>4 DEF Side
    <3>2. Wanted = Unit.oldTree.c /\ WantedId = Unit.oldTree.id
      BY <2>1, <3>1 DEF Wanted, WantedId, OldContent, Unit, u0
    <3> QED BY <2>1, <2>2, <2>4, <3>2 DEF Settled
  <2> QED BY <2>3, <2>4
<1> QED BY <1>1, <1>2

\* A step that leaves such a tree where it is keeps it.
LEMMA SettledKept ==
    ASSUME IInv, Stable, committed => UNCHANGED jr,
           \A v \in Units : Spared(v) =>
              \/ \A x \in Objects : Held(v, x) => Held(v, x)'
              \/ Settled(v) /\ place'[v]["target"] = place[v]["target"]
    PROVE  WantedTreeKept'
<1> SUFFICES ASSUME marker' = "active", NEW u \in Units, u \notin past'.touched, Kind[u] = "directory"
             PROVE  IF committed THEN New[u] = Absent \/ Held(u, [id |-> jr.unit[u].prepared, c |-> New[u]])'
                                 ELSE Old[u] = Absent \/ Held(u, past.first[u])'
  BY DEF WantedTreeKept, Held, New, Old, Stable
<1>0. TypeOK /\ WantedTreeKept /\ Spared(u) /\ marker = "active" BY DEF IInv, Spared, Stable
<1>1. CASE Settled(u) /\ place'[u]["target"] = place[u]["target"]
  <2>1. "target" \in Locations BY DEF Locations
  <2>2. CASE committed /\ New[u] # Absent
    <3>1. place'[u]["target"] = [id |-> jr.unit[u].prepared, c |-> New[u]]
      BY <1>1, <2>2 DEF Settled
    <3> QED BY <2>1, <2>2, <3>1 DEF Held, Stable, New
  <2>3. CASE ~committed BY <1>1, <2>1, <2>3 DEF Settled, Held, Stable
  <2> QED BY <2>2, <2>3
<1>2. CASE \A x \in Objects : Held(u, x) => Held(u, x)'
  <2>1. CASE committed /\ New[u] # Absent
    <3>1. Held(u, [id |-> jr.unit[u].prepared, c |-> New[u]]) BY <1>0, <2>1 DEF WantedTreeKept, Held, Spared
    <3>2. [id |-> jr.unit[u].prepared, c |-> New[u]] \in Objects \cup {Vacant}
      BY <1>0, <3>1, PlaceType DEF Held
    <3>3. [id |-> jr.unit[u].prepared, c |-> New[u]] # Vacant
      <4>1. Vacant.c = Absent BY DEF Vacant
      <4>2. [id |-> jr.unit[u].prepared, c |-> New[u]].c = New[u] OBVIOUS
      <4> QED BY <2>1, <4>1, <4>2
    <3>4. New[u]' = New[u] BY DEF New, Stable
    <3> QED BY <1>2, <2>1, <3>1, <3>2, <3>3, <3>4
  <2>2. CASE ~committed /\ Old[u] # Absent
    <3>1. Held(u, past.first[u]) BY <1>0, <2>2 DEF WantedTreeKept, Held, Spared
    <3>2. past.first[u] \in Objects \cup {Vacant} BY <1>0 DEF TypeOK
    <3>3. past.first[u] # Vacant BY <2>2 DEF IInv, First, Vacant
    <3>4. UNCHANGED past BY DEF Stable
    <3> QED BY <1>2, <2>2, <3>1, <3>2, <3>3, <3>4
  <2> QED BY <2>1, <2>2
<1> QED BY <1>0, <1>1, <1>2

\* A recovery step on a tree that goes on with the next one.
LEMMA TreeTo ==
    ASSUME IInv, TypeOK', Stable, Elsewhere, OnlyIntent, Due \in TreeSteps, NEW l \in TreeSteps,
           op'.pc = l, op'.at = op.at, op'.mode = op.mode, op'.outcome = op.outcome,
           \A v \in Units, x \in Objects : Held(v, x) => Held(v, x)',
           Spared(op.at) =>
              /\ l \in {"treePrivate", "treeMove"} => op'.cur = place'[op.at]["target"]
              /\ l = "treeClean" =>
                    place'[op.at]["target"].c = Wanted /\ place'[op.at]["target"].id = WantedId
    PROVE  IInv'
<1>0. TypeOK /\ op.at \in Units BY UnitType DEF IInv
<1>1. l \notin {"check", "rename"} BY DEF TreeSteps
<1>2. Due' = l BY <1>1 DEF Due
<1>3. op.outcome # "refused" BY DEF IInv, ReceiptsAccepted
<1>4. Side' = Side BY DEF Side, Stable
<1>5. Wanted' = Wanted /\ WantedId' = WantedId
  BY <1>0, <1>4 DEF Wanted, WantedId, OldContent, Unit, u0, New, Old, Stable, OnlyIntent
<1>6. WantedTreeKept' BY Kept DEF Stable, OnlyIntent
<1> QED BY <1>1, <1>2, <1>3, <1>5, <1>6, TreeStep

LEMMA TreeHalts ==
    ASSUME IInv, TypeOK', Stable, UNCHANGED jr, Due \in TreeSteps, NEW l \in Locations, ReturnDisplaced(l)
    PROVE  IInv'
<1>1. jr.phase = "publishing" BY DEF IInv, PhaseFits, Publishing
<1>2. TypeOK /\ "third_value" \in Outcomes BY DEF IInv, Outcomes
<1> QED BY <1>1, <1>2, Returned, Halts

\* Every step of recoverDirectory keeps the invariant.
LEMMA TreeKeeps ==
    ASSUME IInv, recoverDirectory, UNCHANGED plan
    PROVE  IInv'
<1>0. TypeOK /\ TypeOK' BY TreeType DEF IInv
<1>a. op.at \in Units /\ u0 = op.at /\ Intent = jr.unit[op.at].intent
  BY <1>0, UnitType DEF u0
<1>b. \A l \in TreeSteps : At(l) => Due = l BY DEF At, Due, TreeSteps
<1>c. Due \in TreeSteps => Kind[op.at] = "directory" BY DEF IInv, ModeFits
<1>d. /\ \A l \in TreeSteps : l \in Labels
      /\ \A l \in {"io_failed", "third_value"} : l \in Outcomes
      /\ \A l \in {"target", "original", "prepared", "quarantine"} : l \in Locations
  BY DEF Labels, Outcomes, Locations, Slots
<1>e. UNCHANGED place => /\ Elsewhere /\ \A v \in Units, x \in Objects : Held(v, x) => Held(v, x)'
  BY DEF Elsewhere, Held
<1>f. UNCHANGED jr => OnlyIntent BY DEF OnlyIntent
<1> USE <1>0, <1>a, <1>d
<1>1. CASE StartTree
  <2>1. At("treeStart") /\ Stable /\ UNCHANGED place BY <1>1 DEF StartTree, Stable, bounds
  <2>2. Due \in TreeSteps /\ "treePrivate" \in TreeSteps BY <1>b, <2>1 DEF TreeSteps
  <2> DEFINE begun == [side |-> Side, cand |-> Here("target").id, restore |-> NoId]
             next == [op EXCEPT !.pc = "treePrivate", !.cur = Here("target")]
  <2>3. /\ next.pc = "treePrivate" /\ next.at = op.at /\ next.mode = op.mode /\ next.outcome = op.outcome
        /\ next.cur = Here("target")
    BY DEF TypeOK, Operations
  <2>4. begun \in Intents /\ begun.side = Side BY HereType, UnitType DEF Intents, Side
  <2>5. begun # NoIntent BY DEF NoIntent, Side
  <2> HIDE DEF begun, next
  <2>6. CASE op' = next /\ OnlyIntent
    <3>1. op'.cur = place'[op.at]["target"] BY <2>1, <2>3, <2>6 DEF Here
    <3> QED BY <1>e, <2>1, <2>2, <2>3, <2>6, <3>1, TreeTo
  <2>7. CASE op' = Stopped("third_value") /\ UNCHANGED jr BY <2>1, <2>7, HaltsHere
  <2>8. CASE Intent = NoIntent /\ Record([Unit EXCEPT !.intent = begun], next)
    <3>1. Grows(begun) BY <2>4, <2>8 DEF Grows
    <3>2. CASE op' = Stopped("io_failed") /\ UNCHANGED jr BY <2>1, <3>2, HaltsHere
    <3> QED BY <2>4, <2>5, <2>6, <2>8, <3>1, <3>2, IntentRecorded
  <2>9. \/ op' = next /\ UNCHANGED jr
        \/ op' = Stopped("third_value") /\ UNCHANGED jr
        \/ Intent = NoIntent /\ Record([Unit EXCEPT !.intent = begun], next)
    BY <1>1 DEF StartTree, begun, next
  <2> QED BY <1>f, <2>6, <2>7, <2>8, <2>9
<1>2. CASE InspectTreeSlots
  <2>1. At("treePrivate") /\ Stable /\ UNCHANGED jr BY <1>2 DEF InspectTreeSlots, Stable, bounds
  <2>2. Due \in TreeSteps /\ Due = "treePrivate" /\ "treeMove" \in TreeSteps
    BY <1>b, <2>1 DEF TreeSteps
  <2>3. CASE op' = To("treeMove") /\ UNCHANGED place
    <3>1. /\ op'.pc = "treeMove" /\ op'.at = op.at /\ op'.mode = op.mode /\ op'.outcome = op.outcome
          /\ op'.cur = op.cur
      BY <2>2, <2>3, OpTo
    <3>2. Spared(op.at) => op.cur = place[op.at]["target"] BY <2>2 DEF IInv, TreeFits
    <3> QED BY <1>e, <1>f, <2>1, <2>2, <2>3, <3>1, <3>2, TreeTo
  <2>4. CASE op' = Stopped("third_value") /\ UNCHANGED place BY <2>1, <2>4, HaltsHere
  <2>5. ASSUME NEW l \in Locations, ReturnDisplaced(l) PROVE IInv'
    BY <2>1, <2>2, <2>5, TreeHalts
  <2> QED BY <1>2, <2>3, <2>4, <2>5, InspectCases DEF InspectTreeSlots
<1>3. CASE MoveTree
  <2>1. At("treeMove") /\ Stable /\ UNCHANGED <<jr, place>> BY <1>3 DEF MoveTree, Stable, bounds
  <2>2. /\ Due \in TreeSteps /\ Due = "treeMove" /\ OnlyIntent
        /\ {"treeClean", "treePlace", "treeDisplaced"} \subseteq TreeSteps
    BY <1>b, <1>f, <2>1 DEF TreeSteps
  <2>3. CASE op' = To("treeClean") /\ op.cur.c = Wanted /\ op.cur.id = WantedId
    <3>1. op'.pc = "treeClean" /\ op'.at = op.at /\ op'.mode = op.mode /\ op'.outcome = op.outcome
      BY <2>2, <2>3, OpTo
    <3>2. Spared(op.at) => op.cur = place[op.at]["target"] BY <2>2 DEF IInv, TreeFits
    <3> QED BY <1>e, <2>1, <2>2, <2>3, <3>1, <3>2, TreeTo
  <2>4. CASE op' = To("treePlace")
    BY <1>e, <2>1, <2>2, <2>4, OpTo, TreeTo
  <2>5. CASE op' = Stopped("third_value") BY <2>1, <2>5, HaltsHere
  <2>6. CASE op' = TakeAside(op.cur, "quarantine", "treeDisplaced")
    <3>1. op.cur \in Objects \cup {Vacant} BY DEF TypeOK, Operations
    <3>2. /\ op'.pc = "check" /\ op'.then = "treeDisplaced" /\ op'.at = op.at /\ op'.mode = op.mode
          /\ op'.outcome = op.outcome
      BY <2>2, <2>6, <3>1, OpAside
    <3>3. Due' = "treeDisplaced" BY <3>2 DEF Due
    <3>4. op.outcome # "refused" BY DEF IInv, ReceiptsAccepted
    <3>5. WantedTreeKept' BY <1>e, <2>1, SettledKept
    <3> QED BY <1>e, <2>1, <2>2, <3>2, <3>3, <3>4, <3>5, TreeStep
  <2> QED BY <1>3, <2>3, <2>4, <2>5, <2>6 DEF MoveTree
<1>4. CASE CheckDisplaced("treeDisplaced", "treePlace")
  <2>1. At("treeDisplaced") /\ Stable /\ UNCHANGED jr BY <1>4 DEF CheckDisplaced, Stable, bounds
  <2>2. Due \in TreeSteps /\ "treePlace" \in TreeSteps BY <1>b, <2>1 DEF TreeSteps
  <2>3. CASE op' = To("treePlace") /\ UNCHANGED place
    BY <1>e, <1>f, <2>1, <2>2, <2>3, OpTo, TreeTo
  <2>4. CASE ReturnDisplaced(op.to)
    <3>1. op.to \in Locations BY DEF TypeOK, Operations
    <3> QED BY <2>1, <2>2, <2>4, <3>1, TreeHalts
  <2> QED BY <1>4, <2>3, <2>4 DEF CheckDisplaced
<1>5. CASE PlaceTree
  <2>1. At("treePlace") /\ Stable /\ UNCHANGED jr BY <1>5 DEF PlaceTree, Stable, bounds
  <2>2. Due \in TreeSteps /\ "treeConfirm" \in TreeSteps BY <1>b, <2>1 DEF TreeSteps
  <2>3. ASSUME op' = To("treeConfirm"), Elsewhere,
               \A v \in Units, x \in Objects : Held(v, x) => Held(v, x)'
        PROVE  IInv'
    BY <1>f, <2>1, <2>2, <2>3, OpTo, TreeTo
  <2>4. CASE op' = Stopped("io_failed") /\ UNCHANGED place BY <2>1, <2>4, HaltsHere
  <2>5. ASSUME NEW l \in Locations, PublishFrom(l, WantedId, "treeConfirm") PROVE IInv'
    BY <2>3, <2>4, <2>5, Published
  <2> QED BY <1>5, <1>e, <2>3, <2>4, <2>5 DEF PlaceTree
<1>6. CASE ConfirmTree
  <2>1. At("treeConfirm") /\ Stable /\ UNCHANGED <<jr, place>> BY <1>6 DEF ConfirmTree, Stable, bounds
  <2>2. Due \in TreeSteps /\ "treeClean" \in TreeSteps BY <1>b, <2>1 DEF TreeSteps
  <2>3. CASE op' = Stopped("third_value") BY <2>1, <2>3, HaltsHere
  <2>4. CASE op' = To("treeClean") /\ Here("target").c = Wanted /\ Here("target").id = WantedId
    <3>1. op'.pc = "treeClean" /\ op'.at = op.at /\ op'.mode = op.mode /\ op'.outcome = op.outcome
      BY <2>2, <2>4, OpTo
    <3>2. place'[op.at]["target"].c = Wanted /\ place'[op.at]["target"].id = WantedId
      BY <2>1, <2>4 DEF Here
    <3> QED BY <1>e, <1>f, <2>1, <2>2, <3>1, <3>2, TreeTo
  <2> QED BY <1>6, <2>3, <2>4 DEF ConfirmTree
<1>7. CASE Clean("treeClean", TreeOrder)
  <2>1. At("treeClean") /\ Stable BY <1>7 DEF Clean, Stable, bounds
  <2>2. /\ Due \in TreeSteps /\ Due = "treeClean" /\ Kind[op.at] = "directory"
    BY <1>b, <1>c, <2>1 DEF TreeSteps
  <2>3. CASE UNCHANGED place /\ op' = UnitDone /\ OnlyIntent
    <3>1. WantedTreeKept' BY <1>e, <2>1, <2>3, Kept DEF Stable, OnlyIntent
    <3> QED BY <2>1, <2>2, <2>3, <3>1, UnitEnds
  <2>4. CASE UNCHANGED place /\ Intent # NoIntent /\ Record([Unit EXCEPT !.intent = NoIntent], UnitDone)
    <3>1. NoIntent \in Intents /\ Grows(NoIntent) BY DEF NoIntent, Intents, Grows
    <3>2. CASE op' = Stopped("io_failed") /\ UNCHANGED jr BY <2>1, <2>4, <3>2, HaltsHere
    <3> QED BY <2>3, <2>4, <3>1, <3>2, IntentRecorded
  <2>5. CASE op' = Stopped("third_value") /\ UNCHANGED <<place, jr>> BY <2>1, <2>5, HaltsHere
  <2>6. ASSUME NEW l \in Slots, Put(u0, l, Vacant), UNCHANGED <<op, jr>> PROVE IInv'
    <3>1. l \in Locations /\ l # "target" BY DEF Locations, Slots
    <3>2. Elsewhere /\ place'[op.at]["target"] = place[op.at]["target"]
      BY <2>6, <3>1, PutType DEF Elsewhere
    <3>3. WantedTreeKept'
      <4>1. Spared(op.at) => Settled(op.at) BY <2>2, Settles
      <4>2. \A v \in Units : v # op.at => \A x \in Objects : Held(v, x) => Held(v, x)'
        BY <3>2, ElsewhereKept DEF Elsewhere
      <4> QED BY <2>1, <2>6, <3>2, <4>1, <4>2, SettledKept
    <3>4. Due' = Due /\ op.outcome # "refused" /\ op.pc = "treeClean"
      BY <2>1, <2>6 DEF Due, IInv, ReceiptsAccepted, At
    <3>5. Wanted' = Wanted /\ WantedId' = WantedId
      BY <2>1, <2>6 DEF Wanted, WantedId, OldContent, Unit, u0, New, Old, Stable, Side
    <3>6. Spared(op.at) => place[op.at]["target"].c = Wanted /\ place[op.at]["target"].id = WantedId
      BY <2>2 DEF IInv, TreeFits
    <3> QED BY <1>f, <2>1, <2>2, <2>6, <3>2, <3>3, <3>4, <3>5, <3>6, TreeStep
  <2> QED BY <1>7, <1>f, <2>2, <2>3, <2>4, <2>5, <2>6, CleanCases
<1> QED BY <1>1, <1>2, <1>3, <1>4, <1>5, <1>6, <1>7 DEF recoverDirectory

-----------------------------------------------------------------------------
(* executePublications.                                                     *)

\* Before the first public change every target is as it was captured.
LEMMA PrepareStep ==
    ASSUME IInv, TypeOK', Stable, Due \in {"stage", "receive"} \cup Preparing,
           op'.pc \in {"receive"} \cup Preparing, op'.mode = op.mode, op'.outcome = op.outcome,
           jr'.phase = jr.phase, \A v \in Units : jr'.unit[v].oldTree = jr.unit[v].oldTree,
           \A v \in Units : place'[v]["target"] = place[v]["target"], PhaseFits'
    PROVE  IInv'
<1>1. /\ jr.phase = "preparing" /\ op.mode = "execute" /\ ~committed /\ op.outcome # "refused"
  BY DEF IInv, ModeFits, PhaseFits, ReceiptsAccepted, Preparing, ForwardSteps
<1>2. Due' = op'.pc /\ op'.pc \notin {"check", "rename"} BY DEF Due, Preparing
<1>3. ModeFits'
  BY <1>1, <1>2 DEF IInv, ModeFits, ForwardSteps, FileSteps, TreeSteps, PublishingTree, Preparing, Stable
<1>4. IntentFits' BY <1>2 DEF IntentFits, FileWork, FileSteps, Preparing
<1>5. ASSUME NEW u \in Units, Spared(u)' PROVE TreeFits(u)'
  <2>1. TreeFits(u) BY <1>5 DEF IInv, Spared, Stable
  <2> QED BY <1>1, <1>2, <2>1 DEF TreeFits, Stable, Preparing
<1>6. WantedTreeKept' BY <1>1, Settles, SettledKept
<1> QED BY <1>1, <1>3, <1>4, <1>5, <1>6 DEF IInv, ReceiptsAccepted, First, Old, Stable

\* The publications in order: when one is accounted for, so are all before it.
LEMMA PreparedNext ==
    ASSUME IInv, TypeOK', Stable, Due \in {"prepare", "fill"}, UNCHANGED jr, op' = NextPrepared,
           Accounted(op.at), \A v \in Units : place'[v]["target"] = place[v]["target"]
    PROVE  IInv'
<1>0. TypeOK /\ op.at \in Units /\ op.at \in Nat /\ N \in Nat /\ u0 = op.at
  BY UnitType, OneUnit DEF IInv, Units, u0
<1>1. /\ jr.phase = "preparing" /\ jr.staged /\ (committed => jr.phase = "publishing")
      /\ \A u \in Units : u < op.at => Accounted(u)
      /\ \A u \in Units : u > op.at => jr.unit[u].prepared = NoId
  <2>1. \A u \in Units : u > op.at => ~(u < op.at \/ Due = "permit" \/ (u = op.at /\ Due = "fill"))
    BY <1>0 DEF Units
  <2> QED BY <2>1 DEF IInv, PhaseFits, Preparing
<1>2. To("prepare").mode = op.mode /\ To("prepare").outcome = op.outcome
      /\ To("permit").mode = op.mode /\ To("permit").outcome = op.outcome
  BY <1>0, OpTo DEF Labels, ForwardSteps
<1>3. CASE op.at < N
  <2>1. op'.pc = "prepare" /\ op'.at = op.at + 1 /\ op'.mode = op.mode /\ op'.outcome = op.outcome
    <3>1. op' = [To("prepare") EXCEPT !.at = op.at + 1] BY <1>0, <1>3 DEF NextPrepared
    <3>2. To("prepare") \in Operations /\ To("prepare").pc = "prepare"
      BY <1>0, OpTo DEF Labels, ForwardSteps
    <3> QED BY <1>2, <3>1, <3>2 DEF Operations
  <2>2. Due' = "prepare" BY <2>1 DEF Due
  <2>3. ASSUME NEW u \in Units
        PROVE  /\ u < op.at + 1 => Accounted(u)'
               /\ ~(u < op.at + 1) => jr'.unit[u].prepared = NoId
    <3>1. u < op.at \/ u = op.at \/ u > op.at BY <1>0 DEF Units
    <3> QED BY <1>0, <1>1, <3>1 DEF Accounted, Stable, New, Units
  <2>4. PhaseFits' BY <1>1, <2>1, <2>2, <2>3 DEF PhaseFits, Preparing, Publishing, PublishingTree, FileSteps, TreeSteps, Stable
  <2> QED BY <2>1, <2>4, PrepareStep DEF Preparing
<1>4. CASE ~(op.at < N)
  <2>1. op'.pc = "permit" /\ op'.mode = op.mode /\ op'.outcome = op.outcome
    <3>1. op' = [To("permit") EXCEPT !.at = 1] BY <1>0, <1>4 DEF NextPrepared
    <3>2. To("permit") \in Operations /\ To("permit").pc = "permit"
      BY <1>0, OpTo DEF Labels, ForwardSteps
    <3> QED BY <1>2, <3>1, <3>2 DEF Operations
  <2>2. Due' = "permit" BY <2>1 DEF Due
  <2>3. ASSUME NEW u \in Units PROVE Accounted(u)'
    <3>1. u < op.at \/ u = op.at BY <1>0, <1>4 DEF Units
    <3> QED BY <1>1, <3>1 DEF Accounted, Stable, New
  <2>4. PhaseFits' BY <1>1, <2>1, <2>2, <2>3 DEF PhaseFits, Preparing, Publishing, PublishingTree, FileSteps, TreeSteps, Stable
  <2> QED BY <2>1, <2>4, PrepareStep DEF Preparing
<1> QED BY <1>3, <1>4

\* The steps up to the permission keep the invariant.
LEMMA PrepareKeeps ==
    ASSUME IInv, UNCHANGED plan,
           CreateStaging \/ ReceiveStaging \/ CreatePrepared \/ IdentifyPrepared \/ FillPrepared
    PROVE  IInv'
<1>0. TypeOK /\ TypeOK' BY ForwardType DEF IInv, Forward
<1>a. op.at \in Units /\ u0 = op.at /\ op.at \in Nat BY <1>0, UnitType DEF u0, Units
<1>b. \A l \in {"stage", "receive"} \cup Preparing : At(l) => /\ Due = l /\ Due \in Preparing \cup {"stage", "receive"}
                                                              /\ op.mode = "execute" /\ jr.phase = "preparing"
                                                              /\ ~committed
  BY DEF At, Due, Preparing, IInv, ModeFits, PhaseFits, ForwardSteps
<1>c. /\ {"receive", "prepare", "identify", "fill"} \subseteq Labels /\ "io_failed" \in Outcomes
      /\ "prepared" \in Locations /\ "target" \in Locations
  BY DEF Labels, ForwardSteps, Outcomes, Locations, Slots
<1> USE <1>0, <1>a, <1>c
<1>1. CASE CreateStaging
  <2>1. At("stage") /\ Stable /\ UNCHANGED <<jr, place>> BY <1>1 DEF CreateStaging, Stable, bounds
  <2>2. CASE op' = Stopped("io_failed") BY <2>1, <2>2, HaltsHere
  <2>3. CASE op' = To("receive")
    <3>1. op'.pc = "receive" /\ op'.at = op.at /\ op'.mode = op.mode /\ op'.outcome = op.outcome
      BY <2>3, OpTo
    <3>2. Due' = "receive" BY <3>1 DEF Due
    <3>3. Due = "stage" BY <1>b, <2>1
    <3>4. PhaseFits'
      BY <2>1, <3>1, <3>2, <3>3 DEF IInv, PhaseFits, Preparing, Publishing, PublishingTree, FileSteps,
                                    TreeSteps, Stable, Accounted, New
    <3> QED BY <1>b, <2>1, <3>1, <3>4, PrepareStep
  <2> QED BY <1>1, <2>2, <2>3 DEF CreateStaging
<1>2. CASE ReceiveStaging
  <2>1. At("receive") /\ Stable /\ UNCHANGED place BY <1>2 DEF ReceiveStaging, Stable, bounds
  <2>2. Due = "receive" /\ op.mode = "execute" /\ jr.phase = "preparing" /\ ~jr.staged
    BY <1>b, <2>1 DEF IInv, PhaseFits
  <2>3. jr' = [jr EXCEPT !.staged = TRUE] /\ op' = To("prepare")
    <3>1. jr \in JournalStates BY DEF TypeOK
    <3>2. [jr EXCEPT !.staged = TRUE].phase = jr.phase /\ [jr EXCEPT !.staged = TRUE].staged = TRUE
      BY <3>1 DEF JournalStates
    <3>3. isPublicationJournalTransition([jr EXCEPT !.staged = TRUE])
      BY <2>2, <3>2 DEF isPublicationJournalTransition, StagingAccepted, Authority
    <3> QED BY <1>2, <2>2, <3>3 DEF ReceiveStaging, Persist
  <2>4. jr'.phase = jr.phase /\ jr'.staged /\ jr'.unit = jr.unit BY <2>3 DEF TypeOK, JournalStates
  <2>5. op'.pc = "prepare" /\ op'.at = op.at /\ op'.mode = op.mode /\ op'.outcome = op.outcome
    BY <2>3, OpTo
  <2>6. Due' = "prepare" BY <2>5 DEF Due
  <2>7. op.at = 1 /\ \A u \in Units : ~(u < 1) /\ jr.unit[u].prepared = NoId
    <3>1. op.at = 1 BY <2>2 DEF IInv, PhaseFits
    <3>2. \A u \in Units : ~(u < 1) BY DEF Units
    <3> QED BY <2>2, <3>1, <3>2 DEF IInv, PhaseFits
  <2>8. PhaseFits'
    BY <2>1, <2>2, <2>4, <2>5, <2>6, <2>7 DEF IInv, PhaseFits, Preparing, Publishing, PublishingTree, FileSteps,
                                             TreeSteps, Stable
  <2> QED BY <2>1, <2>2, <2>4, <2>5, <2>8, PrepareStep DEF Preparing
<1>3. CASE CreatePrepared
  <2>1. At("prepare") /\ Stable /\ UNCHANGED jr BY <1>3 DEF CreatePrepared, Stable, bounds
  <2>2. Due = "prepare" BY <1>b, <2>1 DEF Preparing
  <2>3. CASE op' = NextPrepared /\ UNCHANGED place /\ (Kind[op.at] = "file" \/ New[op.at] = Absent)
    <3>1. Accounted(op.at) BY <2>3 DEF Accounted
    <3> QED BY <2>1, <2>2, <2>3, <3>1, PreparedNext
  <2>4. ASSUME NEW i \in NewIds, Put(u0, "prepared", [id |-> i, c |-> Torn]), op' = To("identify")
        PROVE  IInv'
    <3>1. [id |-> i, c |-> Torn] \in Objects /\ i # NoId BY NewIdType DEF Objects, Contents
    <3>2. /\ place'[op.at]["prepared"].id = i
          /\ \A v \in Units : place'[v]["target"] = place[v]["target"]
      BY <2>4, <3>1, PutType
    <3>3. op'.pc = "identify" /\ op'.at = op.at /\ op'.mode = op.mode /\ op'.outcome = op.outcome
      BY <2>4, OpTo
    <3>4. Due' = "identify" BY <3>3 DEF Due
    <3>5. Here("prepared")' = place'[op.at]["prepared"] BY <3>3 DEF Here, u0
    <3>6. PhaseFits'
      BY <2>1, <2>2, <3>1, <3>2, <3>3, <3>4, <3>5 DEF IInv, PhaseFits, Preparing, Publishing, PublishingTree,
                FileSteps, TreeSteps, Stable, Accounted, New
    <3> QED BY <1>b, <2>1, <3>2, <3>3, <3>6, PrepareStep DEF Preparing
  <2> QED BY <1>3, <2>3, <2>4 DEF CreatePrepared
<1>4. CASE IdentifyPrepared
  <2>1. At("identify") /\ Stable /\ UNCHANGED place BY <1>4 DEF IdentifyPrepared, Stable, bounds
  <2>2. /\ Due = "identify" /\ op.mode = "execute" /\ jr.phase = "preparing"
        /\ Here("prepared").id # NoId /\ jr.staged /\ Unit.prepared = NoId
    <3>1. Due = "identify" /\ op.mode = "execute" /\ jr.phase = "preparing" BY <1>b, <2>1 DEF Preparing
    <3>2. ~(op.at < op.at) OBVIOUS
    <3>3. Here("prepared").id # NoId /\ jr.staged BY <3>1 DEF IInv, PhaseFits, Preparing
    <3>4. jr.unit[op.at].prepared = NoId BY <3>1, <3>2 DEF IInv, PhaseFits, Preparing
    <3> QED BY <3>1, <3>3, <3>4 DEF Unit, u0
  <2> DEFINE unit == [Unit EXCEPT !.prepared = Here("prepared").id]
             next == [jr EXCEPT !.unit[u0] = unit]
  <2>3. /\ Unit = jr.unit[u0] /\ Unit \in Publications /\ jr \in JournalStates
        /\ jr.unit \in [Units -> Publications]
    BY UnitType DEF TypeOK, JournalStates
  <2>4. /\ unit.intent = Unit.intent /\ unit.oldTree = Unit.oldTree /\ unit # Unit
        /\ unit.prepared # NoId
    BY <2>2, <2>3 DEF Publications
  <2> HIDE DEF unit
  <2>5. /\ next.phase = jr.phase /\ next.staged = jr.staged
        /\ next.unit[u0] = unit /\ \A v \in Units : v # u0 => next.unit[v] = jr.unit[v]
    BY <2>3 DEF JournalStates
  <2>6. isPublicationJournalTransition(next)
    <3>1. UnitAccepted(u0, jr.unit[u0], next.unit[u0])
      BY <2>2, <2>3, <2>4, <2>5 DEF UnitAccepted, Authority
    <3> QED BY <2>3, <2>4, <2>5, <3>1 DEF isPublicationJournalTransition
  <2>7. Record(unit, To("fill")) BY <1>4 DEF IdentifyPrepared, unit
  <2>8. jr' = next /\ op' = To("fill") BY <2>2, <2>6, <2>7 DEF Record, Persist
  <2>9. op'.pc = "fill" /\ op'.at = op.at /\ op'.mode = op.mode /\ op'.outcome = op.outcome
    BY <2>8, OpTo
  <2>10. Due' = "fill" BY <2>9 DEF Due
  <2>11. ASSUME NEW u \in Units
         PROVE  /\ u < op.at \/ u = op.at => Accounted(u)'
                /\ ~(u < op.at \/ u = op.at) => jr'.unit[u].prepared = NoId
    <3>1. u = op.at => Accounted(u)' BY <2>4, <2>5, <2>8 DEF Accounted
    <3>2. u < op.at => Accounted(u) /\ u # op.at BY <2>2 DEF IInv, PhaseFits, Preparing, Units
    <3>3. ~(u < op.at \/ u = op.at) => jr.unit[u].prepared = NoId
      BY <2>2 DEF IInv, PhaseFits, Preparing
    <3> QED BY <2>1, <2>5, <2>8, <3>1, <3>2, <3>3 DEF Accounted, New, Stable
  <2>12. Here("prepared")' = Here("prepared") BY <2>1, <2>9 DEF Here, u0
  <2>13. PhaseFits'
    BY <2>1, <2>2, <2>5, <2>8, <2>9, <2>10, <2>11, <2>12 DEF IInv, PhaseFits, Preparing, Publishing, PublishingTree,
         FileSteps, TreeSteps, Stable
  <2>14. \A v \in Units : jr'.unit[v].oldTree = jr.unit[v].oldTree BY <2>3, <2>4, <2>5, <2>8
  <2> QED BY <1>b, <2>1, <2>5, <2>8, <2>9, <2>13, <2>14, PrepareStep DEF Preparing
<1>5. CASE FillPrepared
  <2>1. At("fill") /\ Stable /\ UNCHANGED jr /\ op' = NextPrepared
    BY <1>5 DEF FillPrepared, Stable, bounds
  <2>2. Due = "fill" BY <1>b, <2>1 DEF Preparing
  <2>3. Accounted(op.at) BY <2>2 DEF IInv, PhaseFits, Preparing
  <2>4. \A v \in Units : place'[v]["target"] = place[v]["target"]
    BY <1>5 DEF FillPrepared, Put, TypeOK
  <2> QED BY <2>1, <2>2, <2>3, <2>4, PreparedNext
<1> QED BY <1>1, <1>2, <1>3, <1>4, <1>5

\* A step that publishes a tree: what the user left alone is as the journal
\* recorded it, so only other trees get a new record.
LEMMA PublishStep ==
    ASSUME IInv, TypeOK', Stable, Elsewhere, Due \in PublishingTree, Due' \in PublishingTree,
           op'.at = op.at, op'.mode = op.mode, op'.outcome # "refused",
           op'.pc \in {"check", "rename"} => op'.then = "retained",
           jr'.phase = jr.phase, jr'.staged = jr.staged,
           \A v \in Units : jr'.unit[v].prepared = jr.unit[v].prepared,
           \A v \in Units : v # op.at => jr'.unit[v] = jr.unit[v],
           Spared(op.at) =>
              /\ UNCHANGED jr
              /\ \A x \in Objects : Held(op.at, x) => Held(op.at, x)'
              /\ Due' = "capture" => place'[op.at]["target"] = past.first[op.at]
              /\ Due' = "retained" =>
                    IF op'.pc = "retained"
                    THEN place'[op.at]["original"] = past.first[op.at] /\ place'[op.at]["target"] = Vacant
                    ELSE /\ op'.to = "original" /\ op'.cur = past.first[op.at]
                         /\ place'[op.at]["target"] = past.first[op.at]
              /\ Due' = "publish" => place'[op.at]["target"] = Vacant
              /\ Due' = "compare" =>
                    /\ place'[op.at]["target"].c = New[op.at]
                    /\ New[op.at] = Absent \/ place'[op.at]["target"].id = jr.unit[op.at].prepared
    PROVE  IInv'
<1>0. jr.phase = "publishing" /\ op.mode = "execute" /\ ~committed /\ Kind[op.at] = "directory"
  BY DEF IInv, ModeFits, PhaseFits, Publishing, PublishingTree, ForwardSteps
<1>1. ModeFits'
  BY <1>0 DEF IInv, ModeFits, ForwardSteps, FileSteps, TreeSteps, PublishingTree, Stable
<1>2. PhaseFits' BY <1>0 DEF IInv, PhaseFits, Preparing, Publishing, PublishingTree, Stable
<1>3. IntentFits' BY DEF IntentFits, PublishingTree, FileWork, FileSteps
<1>4. ASSUME NEW u \in Units, Spared(u)' PROVE TreeFits(u)'
  <2>1. TreeFits(u) /\ Spared(u) BY <1>4 DEF IInv, Spared, Stable
  <2>2. op.at \in Nat /\ u \in Nat BY DEF IInv, TypeOK, Operations, Units
  <2>3. CASE u # op.at
    <3>1. Replaced(u) => Replaced(u)' BY <2>3 DEF Replaced, Elsewhere, Stable, New
    <3> QED BY <1>0, <2>1, <2>3, <3>1 DEF TreeFits, Stable, Elsewhere, PublishingTree
  <2>4. CASE u = op.at
    <3>1. Due' = "compare" => Replaced(u)' BY <2>1, <2>4 DEF Replaced, Stable, New
    <3>2. UNCHANGED jr /\ jr.unit[u].oldTree = past.first[u] BY <2>1, <2>4 DEF TreeFits
    <3> QED BY <1>0, <2>1, <2>2, <2>4, <3>1, <3>2 DEF TreeFits, Stable, PublishingTree
  <2> QED BY <2>3, <2>4
<1>5. WantedTreeKept'
  <2>1. ASSUME NEW v \in Units, Kind[v] = "directory", v \notin past'.touched, NEW x \in Objects, Held(v, x)
        PROVE  Held(v, x)'
    <3>1. Spared(v) BY <2>1 DEF Spared, Stable
    <3>2. CASE v = op.at BY <2>1, <3>1, <3>2
    <3>3. CASE v # op.at BY <2>1, <3>3, ElsewhereKept DEF Elsewhere
    <3> QED BY <3>2, <3>3
  <2> QED BY <2>1, Kept DEF Stable
<1> QED BY <1>1, <1>2, <1>3, <1>4, <1>5 DEF IInv, ReceiptsAccepted, First, Old, Stable

\* A complete tree records the tree it replaces, in the first operation only.
LEMMA TreeRecorded ==
    ASSUME IInv, NEW old \in Objects \cup {Vacant}, Unit.oldTree # old, Complete[op.at],
           op.mode = "execute", NEW continued, Record([Unit EXCEPT !.oldTree = old], continued)
    PROVE  /\ op' = continued /\ jr'.phase = jr.phase /\ jr'.staged = jr.staged
           /\ \A v \in Units : jr'.unit[v].prepared = jr.unit[v].prepared
           /\ \A v \in Units : v # op.at => jr'.unit[v] = jr.unit[v]
<1> DEFINE unit == [Unit EXCEPT !.oldTree = old]
           next == [jr EXCEPT !.unit[u0] = unit]
<1>1. /\ u0 \in Units /\ u0 = op.at /\ Unit \in Publications /\ Unit = jr.unit[u0]
      /\ jr.unit \in [Units -> Publications] /\ jr \in JournalStates
  BY UnitType DEF u0, TypeOK, JournalStates, IInv
<1>2. unit.intent = Unit.intent /\ unit.prepared = Unit.prepared /\ unit # Unit
  BY <1>1 DEF Publications
<1> HIDE DEF unit
<1>3. /\ next.phase = jr.phase /\ next.staged = jr.staged
      /\ next.unit[u0] = unit /\ \A v \in Units : v # u0 => next.unit[v] = jr.unit[v]
  BY <1>1 DEF JournalStates
<1>4. UnitAccepted(u0, jr.unit[u0], next.unit[u0]) BY <1>1, <1>2, <1>3 DEF UnitAccepted, Authority
<1>5. isPublicationJournalTransition(next)
  BY <1>1, <1>2, <1>3, <1>4 DEF isPublicationJournalTransition
<1>6. Record(unit, continued) BY DEF unit
<1>7. jr' = next /\ op' = continued BY <1>5, <1>6 DEF Record, Persist
<1> QED BY <1>1, <1>2, <1>3, <1>7

\* The steps after the permission keep the invariant.
LEMMA PublishKeeps ==
    ASSUME IInv, UNCHANGED plan,
           CaptureTree \/ CheckRetained \/ PublishTree \/ CompareTree \/ OverwriteFile
    PROVE  IInv'
<1>0. TypeOK /\ TypeOK' BY ForwardType DEF IInv, Forward
<1>a. op.at \in Units /\ u0 = op.at /\ Unit = jr.unit[op.at] BY <1>0, UnitType DEF u0
<1>b. \A l \in PublishingTree : At(l) => /\ Due = l /\ op.mode = "execute" /\ ~committed
                                         /\ jr.phase = "publishing" /\ op.outcome # "refused"
                                         /\ Spared(op.at) => TreeFits(op.at)
  BY <1>a DEF At, Due, PublishingTree, IInv, ModeFits, PhaseFits, ForwardSteps, Publishing, ReceiptsAccepted
<1>c. /\ PublishingTree \subseteq Labels /\ {"io_failed", "third_value"} \subseteq Outcomes
      /\ {"target", "original", "prepared"} \subseteq Locations
  BY DEF Labels, PublishingTree, ForwardSteps, Outcomes, Locations, Slots
<1>e. UNCHANGED place => /\ Elsewhere /\ \A v \in Units, x \in Objects : Held(v, x) => Held(v, x)'
  BY DEF Elsewhere, Held
<1> USE <1>0, <1>a, <1>c
<1>1. CASE CaptureTree
  <2> DEFINE current == Here("target")
             next == IF current = Vacant THEN To("publish") ELSE TakeAside(current, "original", "retained")
  <2>1. At("capture") /\ Stable /\ UNCHANGED place BY <1>1 DEF CaptureTree, Stable, bounds
  <2>2. /\ Due = "capture" /\ op.mode = "execute" /\ op.outcome # "refused"
        /\ Spared(op.at) => Unit.oldTree = past.first[op.at] /\ current = past.first[op.at]
    BY <1>b, <2>1 DEF PublishingTree, TreeFits, Here
  <2>3. current \in Objects \cup {Vacant} BY HereType
  <2>4. /\ next.at = op.at /\ next.mode = op.mode /\ next.outcome = op.outcome
        /\ current = Vacant => next.pc = "publish"
        /\ current # Vacant => /\ next.pc = "check" /\ next.then = "retained"
                               /\ next.to = "original" /\ next.cur = current
    BY <2>3, OpTo, OpAside DEF PublishingTree
  <2> HIDE DEF next
  <2>5. ASSUME op' = next, jr'.phase = jr.phase, jr'.staged = jr.staged,
               \A v \in Units : jr'.unit[v].prepared = jr.unit[v].prepared,
               \A v \in Units : v # op.at => jr'.unit[v] = jr.unit[v],
               Spared(op.at) => UNCHANGED jr
        PROVE  IInv'
    <3>1. current = Vacant => Due' = "publish" BY <2>4, <2>5 DEF Due
    <3>2. current # Vacant => Due' = "retained" BY <2>4, <2>5 DEF Due
    <3>3. Due' \in PublishingTree /\ Due \in PublishingTree BY <2>2, <3>1, <3>2 DEF PublishingTree
    <3>4. Due' # "capture" /\ Due' # "compare" BY <3>1, <3>2
    <3>5. place'[op.at]["target"] = current BY <2>1 DEF Here
    <3> HIDE DEF current
    <3>6. Spared(op.at) =>
              /\ UNCHANGED jr
              /\ \A x \in Objects : Held(op.at, x) => Held(op.at, x)'
              /\ Due' = "capture" => place'[op.at]["target"] = past.first[op.at]
              /\ Due' = "retained" =>
                    IF op'.pc = "retained"
                    THEN place'[op.at]["original"] = past.first[op.at] /\ place'[op.at]["target"] = Vacant
                    ELSE /\ op'.to = "original" /\ op'.cur = past.first[op.at]
                         /\ place'[op.at]["target"] = past.first[op.at]
              /\ Due' = "publish" => place'[op.at]["target"] = Vacant
              /\ Due' = "compare" =>
                    /\ place'[op.at]["target"].c = New[op.at]
                    /\ New[op.at] = Absent \/ place'[op.at]["target"].id = jr.unit[op.at].prepared
      <4>1. CASE current = Vacant
        <5>1. Due' = "publish" /\ place'[op.at]["target"] = Vacant BY <3>1, <3>5, <4>1
        <5>2. \A x \in Objects : Held(op.at, x) => Held(op.at, x)' BY <1>e, <2>1, <2>4, <2>5
        <5> QED BY <2>5, <5>1, <5>2
      <4>2. CASE current # Vacant BY <1>e, <2>1, <2>2, <2>4, <2>5, <3>2, <3>5, <4>2
      <4> QED BY <4>1, <4>2
    <3>7. op'.pc \in {"check", "rename"} => op'.then = "retained" BY <2>4, <2>5
    <3> QED BY <1>e, <2>1, <2>2, <2>4, <2>5, <3>3, <3>6, <3>7, PublishStep
  <2>6. CASE current = Unit.oldTree /\ op' = next /\ UNCHANGED jr BY <2>5, <2>6
  <2>7. CASE current # Unit.oldTree /\ Complete[op.at] /\ Record([Unit EXCEPT !.oldTree = current], next)
    BY <2>2, <2>3, <2>5, <2>7, TreeRecorded
  <2>8. CASE op' = Stopped("third_value") /\ UNCHANGED jr BY <2>1, <2>8, HaltsHere
  <2> QED BY <1>1, <2>6, <2>7, <2>8 DEF CaptureTree, next
<1>2. CASE CheckRetained
  <2>1. At("retained") /\ Stable BY <1>2 DEF CheckRetained, Stable, bounds
  <2>2. /\ Due = "retained" /\ op.mode = "execute" /\ op.outcome # "refused" /\ jr.phase = "publishing"
        /\ Spared(op.at) => /\ Unit.oldTree = past.first[op.at] /\ Here("original") = past.first[op.at]
                            /\ Here("target") = Vacant
    BY <1>b, <2>1 DEF PublishingTree, TreeFits, Here, At
  <2>3. ASSUME op' = To("publish"), UNCHANGED place, jr'.phase = jr.phase, jr'.staged = jr.staged,
               \A v \in Units : jr'.unit[v].prepared = jr.unit[v].prepared,
               \A v \in Units : v # op.at => jr'.unit[v] = jr.unit[v],
               Spared(op.at) => UNCHANGED jr
        PROVE  IInv'
    <3>1. op'.pc = "publish" /\ op'.at = op.at /\ op'.mode = op.mode /\ op'.outcome = op.outcome
      BY <2>3, OpTo DEF PublishingTree
    <3>2. Due' = "publish" BY <3>1 DEF Due
    <3>3. Due \in PublishingTree /\ Due' \in PublishingTree BY <2>2, <3>2 DEF PublishingTree
    <3>4. Spared(op.at) => place'[op.at]["target"] = Vacant BY <2>2, <2>3 DEF Here
    <3> QED BY <1>e, <2>1, <2>2, <2>3, <3>1, <3>2, <3>3, <3>4, PublishStep
  <2>4. CASE op' = To("publish") /\ UNCHANGED <<place, jr>> BY <2>3, <2>4
  <2>5. CASE /\ Here("original").c # Unit.oldTree.c /\ Complete[op.at]
             /\ Record([Unit EXCEPT !.oldTree = Here("original")], To("publish")) /\ UNCHANGED place
    <3>1. ~Spared(op.at) BY <2>2, <2>5
    <3>2. Here("original") \in Objects \cup {Vacant} BY HereType
    <3>3. Unit.oldTree # Here("original") BY <2>5
    <3> QED BY <2>2, <2>3, <2>5, <3>1, <3>2, <3>3, TreeRecorded
  <2>6. CASE ReturnDisplaced("original") /\ UNCHANGED jr
    BY <2>1, <2>2, <2>6, Returned, Halts
  <2> QED BY <1>2, <2>4, <2>5, <2>6 DEF CheckRetained
<1>3. CASE PublishTree
  <2>1. At("publish") /\ Stable /\ UNCHANGED jr BY <1>3 DEF PublishTree, Stable, bounds
  <2>2. /\ Due = "publish" /\ op.mode = "execute" /\ op.outcome # "refused"
        /\ Spared(op.at) => Here("target") = Vacant
    BY <1>b, <2>1 DEF PublishingTree, TreeFits, Here
  <2>3. ASSUME op' = To("compare"), Elsewhere,
               \A v \in Units, x \in Objects : Held(v, x) => Held(v, x)',
               Spared(op.at) => /\ place'[op.at]["target"].c = New[op.at]
                                /\ \/ New[op.at] = Absent
                                   \/ place'[op.at]["target"].id = jr.unit[op.at].prepared
        PROVE  IInv'
    <3>1. op'.pc = "compare" /\ op'.at = op.at /\ op'.mode = op.mode /\ op'.outcome = op.outcome
      BY <2>3, OpTo DEF PublishingTree
    <3>2. Due' = "compare" BY <3>1 DEF Due
    <3>3. Due \in PublishingTree /\ Due' \in PublishingTree BY <2>2, <3>2 DEF PublishingTree
    <3> QED BY <2>1, <2>2, <2>3, <3>1, <3>2, <3>3, PublishStep
  <2>4. CASE New[op.at] = Absent /\ op' = To("compare") /\ UNCHANGED place
    <3>1. Spared(op.at) => place'[op.at]["target"].c = New[op.at]
      BY <2>2, <2>4 DEF Here, Vacant
    <3> QED BY <1>e, <2>3, <2>4, <3>1
  <2>5. CASE op' = Stopped("io_failed") /\ UNCHANGED place BY <2>1, <2>5, HaltsHere
  <2>6. CASE Here("prepared").c = New[op.at] /\ PublishFrom("prepared", Unit.prepared, "compare")
    <3>1. /\ Elsewhere /\ \A v \in Units, x \in Objects : Held(v, x) => Held(v, x)'
          /\ \/ op' = Stopped("io_failed") /\ UNCHANGED place
             \/ /\ op' = To("compare") /\ place'[op.at]["target"] = place[op.at]["prepared"]
                /\ place[op.at]["prepared"].id = Unit.prepared
      BY <2>6, Published
    <3>2. place[op.at]["prepared"].c = New[op.at] BY <2>6 DEF Here
    <3> QED BY <2>3, <2>5, <3>1, <3>2
  <2> QED BY <1>3, <2>4, <2>5, <2>6 DEF PublishTree
<1>4. CASE CompareTree
  <2>1. At("compare") /\ Stable /\ UNCHANGED <<jr, place>> BY <1>4 DEF CompareTree, Stable, bounds
  <2>2. Due = "compare" BY <1>b, <2>1 DEF PublishingTree
  <2>3. CASE op' = Stopped("io_failed") BY <2>1, <2>3, HaltsHere
  <2>4. CASE op' = UnitDone
    <3>1. WantedTreeKept' BY <1>e, <2>1, SettledKept
    <3> QED BY <2>1, <2>2, <2>4, <3>1, UnitEnds DEF OnlyIntent
  <2> QED BY <1>4, <2>3, <2>4 DEF CompareTree
<1>5. CASE OverwriteFile
  <2>1. At("overwrite") /\ Stable /\ UNCHANGED jr /\ op' = UnitDone
    BY <1>5 DEF OverwriteFile, Stable, bounds
  <2>2. Due = "overwrite" /\ Kind[op.at] = "file" BY <2>1 DEF At, Due, IInv, ModeFits
  <2>3. PICK i \in NewIds : Put(u0, "target", [id |-> i, c |-> New[u0]]) BY <1>5 DEF OverwriteFile
  <2>4. \A v \in Units : v # op.at => place'[v] = place[v] BY <2>3 DEF Put, TypeOK
  <2>5. \A v \in Units : Spared(v) => v # op.at BY <2>2 DEF Spared
  <2>6. WantedTreeKept' BY <2>1, <2>4, <2>5, ElsewhereKept, SettledKept
  <2> QED BY <2>1, <2>2, <2>4, <2>5, <2>6, UnitEnds DEF OnlyIntent
<1> QED BY <1>1, <1>2, <1>3, <1>4, <1>5

\* The permission, the final comparison and the commit keep the invariant: when
\* the commit pointer moves, every tree was replaced.
LEMMA CommitKeeps ==
    ASSUME IInv, UNCHANGED plan, PermitPublishing \/ Verify \/ Commit
    PROVE  IInv'
<1>0. TypeOK /\ TypeOK' BY ForwardType DEF IInv, Forward
<1>a. op.at \in Units /\ u0 = op.at /\ op.at \in Nat /\ N \in Nat /\ 1 \in Units
  BY <1>0, UnitType, OneUnit DEF u0, Units
<1>b. UNCHANGED place => /\ Elsewhere /\ \A v \in Units, x \in Objects : Held(v, x) => Held(v, x)'
  BY DEF Elsewhere, Held
<1> USE <1>0, <1>a
<1>1. CASE PermitPublishing
  <2>1. At("permit") /\ Stable /\ UNCHANGED place BY <1>1 DEF PermitPublishing, Stable, bounds
  <2>2. Due = "permit" BY <2>1 DEF At, Due
  <2>3. /\ op.mode = "execute" /\ jr.phase = "preparing" /\ jr.staged /\ ~committed
        /\ \A u \in Units : Accounted(u)
    BY <2>2 DEF IInv, ModeFits, PhaseFits, Preparing, ForwardSteps
  <2> DEFINE next == [jr EXCEPT !.phase = "publishing"]
  <2>4. next.phase = "publishing" /\ next.staged = jr.staged /\ next.unit = jr.unit
    BY DEF TypeOK, JournalStates
  <2>5. PermitAccepted(next)
    <3>1. \A u \in Units : Kind[u] = "directory" => next.unit[u].prepared # NoId \/ New[u] = Absent
      BY <2>3, <2>4 DEF Accounted
    <3>2. Authority = "execute" BY <2>3 DEF Authority
    <3>3. next = [jr EXCEPT !.phase = "publishing"] OBVIOUS
    <3> HIDE DEF next
    <3> QED BY <2>3, <2>4, <3>1, <3>2, <3>3 DEF PermitAccepted
  <2>6. jr' = next /\ op' = StartAt(1)
    BY <1>1, <2>3, <2>4, <2>5 DEF PermitPublishing, Persist, isPublicationJournalTransition
  <2> HIDE DEF next
  <2>7. /\ op'.mode = "execute" /\ op'.at = 1 /\ op'.outcome = "none"
        /\ op'.pc = StartOf(1, "execute") /\ Due' = op'.pc
        /\ op'.pc \in {"overwrite", "fileStart", "capture"}
        /\ op'.pc = "capture" => Kind[1] = "directory"
        /\ op'.pc \in {"overwrite", "fileStart"} => Kind[1] = "file"
    BY <2>3, <2>6, OpStart, PublicationAssumption DEF StartOf, Due
  <2>8. ModeFits'
    BY <2>1, <2>3, <2>7 DEF IInv, ModeFits, ForwardSteps, FileSteps, TreeSteps, PublishingTree, Stable
  <2>9. PhaseFits' /\ IntentFits'
    BY <2>1, <2>3, <2>4, <2>6, <2>7 DEF PhaseFits, IntentFits, FileWork, FileSteps, Preparing, Publishing,
                                       PublishingTree, Stable
  <2>10. ASSUME NEW u \in Units, Spared(u)' PROVE TreeFits(u)'
    <3>1. TreeFits(u) /\ place[u]["target"] = past.first[u]
      BY <2>1, <2>3, <2>10 DEF IInv, Spared, Stable, TreeFits
    <3>2. ~(u < 1) BY DEF Units
    <3> QED BY <2>1, <2>4, <2>6, <2>7, <3>1, <3>2 DEF TreeFits, Stable
  <2>11. WantedTreeKept' BY <1>b, <2>1, <2>3, SettledKept
  <2> QED BY <2>1, <2>7, <2>8, <2>9, <2>10, <2>11 DEF IInv, ReceiptsAccepted, First, Old, Stable
<1>2. CASE Verify
  <2>1. At("verify") /\ Stable /\ UNCHANGED <<place, jr>> BY <1>2 DEF Verify, Stable, bounds
  <2>2. Due = "verify" BY <2>1 DEF At, Due
  <2>3. op.mode = "execute" /\ jr.phase = "publishing" /\ ~committed /\ op.outcome # "refused"
    BY <2>2 DEF IInv, ModeFits, PhaseFits, Publishing, ForwardSteps, ReceiptsAccepted
  <2>4. CASE op' = Stopped("io_failed") BY <2>1, <2>4, HaltsHere DEF Outcomes
  <2>5. CASE op' = To("commit") \/ (op.at < N /\ op' = [op EXCEPT !.at = op.at + 1])
    <3>1. op'.pc \in {"verify", "commit"} /\ op'.mode = op.mode /\ op'.outcome = op.outcome
      <4>1. op.pc = "verify" BY <2>1 DEF At
      <4>2. CASE op' = To("commit") BY <4>2, OpTo DEF Labels, ForwardSteps
      <4>3. CASE op' = [op EXCEPT !.at = op.at + 1] BY <4>1, <4>3 DEF TypeOK, Operations
      <4> QED BY <2>5, <4>2, <4>3
    <3>2. Due' = op'.pc BY <3>1 DEF Due
    <3>3. ModeFits'
      BY <2>1, <2>3, <3>1, <3>2 DEF IInv, ModeFits, ForwardSteps, FileSteps, TreeSteps, PublishingTree, Stable
    <3>4. PhaseFits' /\ IntentFits'
      BY <2>1, <2>3, <3>1, <3>2 DEF PhaseFits, IntentFits, FileWork, FileSteps, Preparing, Publishing, Stable
    <3>5. ASSUME NEW u \in Units, Spared(u)' PROVE TreeFits(u)'
      <4>1. TreeFits(u) /\ Replaced(u) BY <2>1, <2>2, <2>3, <3>1, <3>5 DEF IInv, Spared, Stable, TreeFits
      <4>2. Replaced(u)' BY <2>1, <4>1 DEF Replaced, Stable, New
      <4> QED BY <2>1, <2>3, <3>1, <3>2, <4>1, <4>2 DEF TreeFits, Stable
    <3>6. WantedTreeKept' BY <1>b, <2>1, SettledKept
    <3> QED BY <2>1, <2>3, <3>1, <3>3, <3>4, <3>5, <3>6 DEF IInv, ReceiptsAccepted, First, Old, Stable
  <2> QED BY <1>2, <2>4, <2>5 DEF Verify
<1>3. CASE Commit
  <2>1. At("commit") /\ committed' = TRUE /\ UNCHANGED <<plan, place, jr, past, marker>>
        /\ op' = [Idle EXCEPT !.mode = "finalize", !.pc = "begin"]
    BY <1>3 DEF Commit, bounds
  <2>2. Due = "commit" BY <2>1 DEF At, Due
  <2>3. op.mode = "execute" /\ jr.phase = "publishing"
    BY <2>2 DEF IInv, ModeFits, PhaseFits, Publishing, ForwardSteps
  <2>4. op'.pc = "begin" /\ op'.mode = "finalize" /\ op'.outcome = "none" BY <2>1 DEF Idle
  <2>5. Due' = "begin" BY <2>4 DEF Due
  <2>6. ModeFits'
    BY <2>1, <2>4, <2>5 DEF ModeFits, ForwardSteps, FileSteps, TreeSteps, PublishingTree
  <2>7. PhaseFits' /\ IntentFits'
    BY <2>1, <2>3, <2>5 DEF PhaseFits, IntentFits, FileWork, FileSteps, TreeSteps, Preparing, Publishing, PublishingTree
  <2>8. ASSUME NEW u \in Units, Spared(u) PROVE TreeFits(u) /\ Replaced(u)
    BY <2>2, <2>3, <2>8 DEF IInv, TreeFits
  <2>9. ASSUME NEW u \in Units, Spared(u)' PROVE TreeFits(u)'
    BY <2>1, <2>3, <2>4, <2>5, <2>8, <2>9 DEF TreeFits, Spared
  <2>10. WantedTreeKept'
    <3> SUFFICES ASSUME NEW u \in Units, Kind[u] = "directory", u \notin past.touched, New[u] # Absent
                 PROVE  \E l \in Locations : place[u][l] = [id |-> jr.unit[u].prepared, c |-> New[u]]
      BY <2>1 DEF WantedTreeKept, New
    <3>1. place[u]["target"].c = New[u] /\ place[u]["target"].id = jr.unit[u].prepared
      BY <2>8 DEF Spared, Replaced
    <3>2. "target" \in Locations BY DEF Locations
    <3>3. place[u]["target"] = [id |-> jr.unit[u].prepared, c |-> New[u]] BY <3>1, <3>2, PlaceType
    <3> QED BY <3>2, <3>3
  <2> QED BY <2>1, <2>4, <2>6, <2>7, <2>9, <2>10 DEF IInv, ReceiptsAccepted, First, Old
<1> QED BY <1>1, <1>2, <1>3

\* Every step of executePublications keeps the invariant.
LEMMA ForwardKeeps ==
    ASSUME IInv, Forward, UNCHANGED plan
    PROVE  IInv'
BY PrepareKeeps, PublishKeeps, CommitKeeps DEF Forward

-----------------------------------------------------------------------------
(* What is common to both, and what happens around them.                    *)

\* The identity check and the rename of a move from a public path.
LEMMA AsideKeeps ==
    ASSUME IInv, UNCHANGED plan, CheckIdentity \/ Rename
    PROVE  IInv'
<1>0. TypeOK /\ TypeOK' BY BetweenType DEF IInv
<1>a. /\ op.at \in Units /\ u0 = op.at /\ op.to \in Locations /\ op.then \in Labels
      /\ "target" \in Locations /\ "io_failed" \in Outcomes /\ "rename" \in Labels
  BY <1>0, UnitType DEF u0, TypeOK, Operations, Locations, Outcomes, Labels
<1>b. Stable /\ UNCHANGED jr BY DEF CheckIdentity, Rename, Stable, bounds
<1>c. /\ op.pc \in {"check", "rename"} /\ Due = op.then
      /\ op.then \in {"retained", "fileDisplaced", "treeDisplaced"}
      /\ jr.phase = "publishing" /\ op.outcome # "refused"
  <2>1. op.pc \in {"check", "rename"} BY DEF CheckIdentity, Rename, At
  <2>2. Due = op.then /\ op.then \in {"retained", "fileDisplaced", "treeDisplaced"}
    BY <2>1 DEF Due, IInv, ModeFits
  <2> QED BY <2>1, <2>2 DEF IInv, PhaseFits, Publishing, FileSteps, TreeSteps, PublishingTree, ReceiptsAccepted
<1>d. UNCHANGED place => /\ Elsewhere /\ \A v \in Units, x \in Objects : Held(v, x) => Held(v, x)'
  BY DEF Elsewhere, Held
<1> USE <1>0, <1>a
<1>1. CASE CheckIdentity
  <2>1. UNCHANGED place BY <1>1 DEF CheckIdentity
  <2>2. CASE op' = Stopped("io_failed") BY <1>b, <2>1, <2>2, HaltsHere
  <2>3. CASE op' = To("rename")
    <3>1. /\ op'.pc = "rename" /\ op'.at = op.at /\ op'.mode = op.mode /\ op'.outcome = op.outcome
          /\ op'.then = op.then /\ op'.to = op.to /\ op'.cur = op.cur
      BY <2>3, OpTo
    <3>2. Due' = op.then BY <3>1 DEF Due
    <3>3. CASE op.then = "fileDisplaced"
      <4>1. Side' = Side BY <1>b, <3>1 DEF Side, Stable
      <4>2. Intent.side = Side BY <1>c, <3>3 DEF IInv, IntentFits, FileWork, FileSteps
      <4>3. IntentFits' BY <1>b, <3>1, <3>2, <3>3, <4>1, <4>2 DEF IntentFits, Intent, Unit, u0
      <4> QED BY <1>b, <1>c, <1>d, <2>1, <3>1, <3>2, <3>3, <4>3, FileStep DEF OnlyIntent, FileSteps
    <3>4. CASE op.then = "treeDisplaced"
      <4>1. WantedTreeKept' BY <1>b, <1>d, <2>1, SettledKept
      <4> QED BY <1>b, <1>c, <1>d, <2>1, <3>1, <3>2, <3>4, <4>1, TreeStep DEF OnlyIntent, TreeSteps
    <3>5. CASE op.then = "retained"
      <4>1. Due \in PublishingTree /\ Due' \in PublishingTree BY <1>c, <3>2, <3>5 DEF PublishingTree
      <4>2. op.pc # "retained" BY <1>c
      <4>3. Spared(op.at) => /\ op.to = "original" /\ op.cur = past.first[op.at]
                             /\ place[op.at]["target"] = past.first[op.at]
        BY <1>c, <3>5, <4>2 DEF IInv, TreeFits
      <4>4. Spared(op.at) => \A x \in Objects : Held(op.at, x) => Held(op.at, x)'
        BY <1>d, <2>1, <3>1
      <4> QED BY <1>b, <1>c, <1>d, <2>1, <3>1, <3>2, <3>5, <4>1, <4>3, <4>4, PublishStep
    <3> QED BY <1>c, <3>3, <3>4, <3>5
  <2> QED BY <1>1, <2>2, <2>3 DEF CheckIdentity
<1>2. CASE Rename
  <2>1. CASE op' = Stopped("io_failed") /\ UNCHANGED place BY <1>b, <2>1, HaltsHere
  <2>2. CASE /\ Here("target") # Vacant /\ Here(op.to) = Vacant /\ Move(u0, "target", op.to)
             /\ op' = IF Here("target").id = op.cur.id THEN To(op.then) ELSE Stopped("io_failed")
    <3>1. /\ op.to # "target" /\ Elsewhere
          /\ \A v \in Units, x \in Objects : Held(v, x) => Held(v, x)'
      <4>1. op.to # "target" BY <2>2 DEF Here
      <4>2. place[op.at][op.to] = Vacant BY <2>2 DEF Here
      <4>3. Elsewhere BY <2>2, MoveType DEF Elsewhere
      <4> QED BY <2>2, <4>1, <4>2, <4>3, MoveKeeps
    <3>2. place'[op.at]["target"] = Vacant /\ place'[op.at][op.to] = place[op.at]["target"]
      BY <2>2, <3>1, MoveType
    <3>3. CASE op' = Stopped("io_failed") BY <1>b, <1>c, <3>1, <3>3, Halts
    <3>4. CASE op' = To(op.then)
      <4>1. /\ op'.pc = op.then /\ op'.at = op.at /\ op'.mode = op.mode /\ op'.outcome = op.outcome
        BY <3>4, OpTo
      <4>2. CASE op.then = "fileDisplaced"
        <5>1. Intent.side = Side BY <1>c, <4>2 DEF IInv, IntentFits, FileWork, FileSteps
        <5>2. jr'.unit[op.at].intent.side = Side BY <1>b, <5>1 DEF Intent, Unit, u0
        <5> QED BY <1>b, <1>c, <3>1, <4>1, <4>2, <5>2, FileTo DEF OnlyIntent, FileSteps
      <4>3. CASE op.then = "treeDisplaced"
        BY <1>b, <1>c, <3>1, <4>1, <4>3, TreeTo DEF OnlyIntent, TreeSteps
      <4>4. CASE op.then = "retained"
        <5>1. Due' = "retained" BY <4>1, <4>4 DEF Due
        <5>2. Due \in PublishingTree /\ Due' \in PublishingTree BY <1>c, <4>4, <5>1 DEF PublishingTree
        <5>3. Spared(op.at) => place'[op.at]["original"] = past.first[op.at]
          BY <1>c, <3>2, <4>4 DEF IInv, TreeFits
        <5>4. Spared(op.at) => \A x \in Objects : Held(op.at, x) => Held(op.at, x)'
          BY <3>1, <4>1
        <5> QED BY <1>b, <1>c, <3>1, <3>2, <4>1, <4>4, <5>1, <5>2, <5>3, <5>4, PublishStep
      <4> QED BY <1>c, <4>2, <4>3, <4>4
    <3> QED BY <2>2, <3>3, <3>4
  <2> QED BY <1>2, <2>1, <2>2 DEF Rename
<1> QED BY <1>1, <1>2

\* A recovery between its publications: it claims nothing of a tree.
LEMMA BetweenStep ==
    ASSUME IInv, TypeOK', Stable, UNCHANGED jr,
           op'.pc \in {"begin", "unprepare", "unstage", "resolve", "fileStart", "treeStart"},
           op'.mode \in {"finalize", "recover"}, op'.mode = "finalize" => committed,
           op'.outcome # "refused",
           op'.pc = "unprepare" => jr.phase = "preparing",
           op'.pc \in {"fileStart", "treeStart"} => jr.phase = "publishing",
           op'.pc = "fileStart" => Kind[op'.at] = "file",
           op'.pc = "treeStart" => Kind[op'.at] = "directory",
           \A v \in Units : place'[v]["target"] = place[v]["target"],
           \A v \in Units, x \in Objects : Held(v, x) => Held(v, x)' \/ jr.phase = "preparing"
    PROVE  IInv'
<1>1. Due' = op'.pc BY DEF Due
<1>2. ModeFits'
  BY <1>1 DEF IInv, ModeFits, ForwardSteps, FileSteps, TreeSteps, PublishingTree, Stable
<1>3. PhaseFits' /\ IntentFits'
  BY <1>1 DEF IInv, PhaseFits, IntentFits, FileWork, FileSteps, TreeSteps, PublishingTree, Preparing,
              Publishing, Stable
<1>4. ASSUME NEW u \in Units, Spared(u)' PROVE TreeFits(u)'
  <2>1. TreeFits(u) BY <1>4 DEF IInv, Spared, Stable
  <2> QED BY <1>1, <2>1 DEF TreeFits, Stable
<1>5. WantedTreeKept' BY Settles, SettledKept
<1> QED BY <1>2, <1>3, <1>4, <1>5 DEF IInv, ReceiptsAccepted, First, Old, Stable

LEMMA BetweenKeeps ==
    ASSUME IInv, UNCHANGED plan, Recover \/ Begin \/ Unprepare \/ Unstage \/ Resolve
    PROVE  IInv'
<1>0. TypeOK /\ TypeOK' BY BetweenType DEF IInv
<1>a. UNCHANGED place => \A v \in Units, x \in Objects : Held(v, x) => Held(v, x)' BY DEF Held
<1>b. \A l \in {"begin", "unprepare", "unstage", "resolve"} : At(l) =>
          /\ Due = l /\ op.mode \in {"finalize", "recover"}
          /\ op.mode = "finalize" => committed
          /\ op.outcome # "refused"
  BY DEF At, Due, IInv, ModeFits, ReceiptsAccepted
<1>c. {"begin", "unprepare", "unstage", "resolve"} \subseteq Labels /\ {"io_failed", "third_value"} \subseteq Outcomes
  BY DEF Labels, Outcomes
<1> USE <1>0, <1>c
<1>1. CASE Recover
  <2>1. Stable /\ UNCHANGED <<jr, place>> BY <1>1 DEF Recover, Stable, bounds
  <2>2. op'.pc = "begin" /\ op'.mode = "recover" /\ op'.outcome = "none" BY <1>1 DEF Recover, Idle
  <2> QED BY <1>a, <2>1, <2>2, BetweenStep
<1>2. CASE Begin
  <2>1. At("begin") /\ Stable /\ UNCHANGED <<jr, place>> BY <1>2 DEF Begin, Stable, bounds
  <2>2. op.mode \in {"finalize", "recover"} /\ (op.mode = "finalize" => committed) /\ op.outcome # "refused"
    BY <1>b, <2>1
  <2>3. CASE op' = Stopped("io_failed") BY <2>1, <2>3, HaltsHere
  <2>4. CASE op' = StartAt(N) /\ jr.phase = "publishing"
    <3>1. /\ op'.pc = StartOf(N, op.mode) /\ op'.mode = op.mode /\ op'.at = N /\ op'.outcome = "none"
          /\ Kind[N] \in {"file", "directory"}
      BY <2>4, OneUnit, OpStart, PublicationAssumption
    <3>2. /\ op'.pc \in {"fileStart", "treeStart"}
          /\ op'.pc = "fileStart" => Kind[N] = "file"
          /\ op'.pc = "treeStart" => Kind[N] = "directory"
      BY <2>2, <3>1 DEF StartOf
    <3> QED BY <1>a, <2>1, <2>2, <2>4, <3>1, <3>2, BetweenStep
  <2>5. CASE (op' = To("resolve") \/ op' = To("unprepare")) /\ jr.phase = "preparing"
    <3>1. op'.pc \in {"resolve", "unprepare"} /\ op'.mode = op.mode /\ op'.outcome = op.outcome
      BY <2>5, OpTo
    <3> QED BY <1>a, <2>1, <2>2, <2>5, <3>1, BetweenStep
  <2>6. jr.phase \in {"preparing", "publishing"} BY DEF TypeOK, JournalStates
  <2> QED BY <1>2, <2>3, <2>4, <2>5, <2>6 DEF Begin
<1>3. CASE Unprepare
  <2> DEFINE full == {v \in Units : place[v]["prepared"] # Vacant}
             u == CHOOSE v \in full : \A w \in full : v <= w
  <2>1. At("unprepare") /\ Stable /\ UNCHANGED jr BY <1>3 DEF Unprepare, Stable, bounds
  <2>2. op.mode \in {"finalize", "recover"} /\ (op.mode = "finalize" => committed) /\ op.outcome # "refused"
        /\ jr.phase = "preparing"
    BY <1>b, <2>1 DEF IInv, PhaseFits
  <2>3. CASE op' = To("unstage") /\ UNCHANGED place
    <3>1. op'.pc = "unstage" /\ op'.mode = op.mode /\ op'.outcome = op.outcome BY <2>3, OpTo
    <3> QED BY <1>a, <2>1, <2>2, <2>3, <3>1, BetweenStep
  <2>4. CASE op' = Stopped("third_value") /\ UNCHANGED place BY <2>1, <2>4, HaltsHere
  <2>5. ASSUME NEW v \in Units, Put(v, "prepared", Vacant), UNCHANGED op PROVE IInv'
    <3>1. \A w \in Units : place'[w]["target"] = place[w]["target"]
      BY <2>5 DEF Put, TypeOK, Locations, Slots
    <3>2. op'.pc = "unprepare" BY <2>1, <2>5 DEF At
    <3> QED BY <2>1, <2>2, <2>5, <3>1, <3>2, BetweenStep
  <2>6. CASE full # {} /\ Put(u, "prepared", Vacant) /\ UNCHANGED op
    <3>1. u \in Units BY <2>6, FirstUnit
    <3> HIDE DEF u
    <3> QED BY <2>5, <2>6, <3>1
  <2> QED BY <1>3, <2>3, <2>4, <2>6 DEF Unprepare
<1>4. CASE Unstage
  <2>1. At("unstage") /\ Stable /\ UNCHANGED <<jr, place>> BY <1>4 DEF Unstage, Stable, bounds
  <2>2. op.mode \in {"finalize", "recover"} /\ (op.mode = "finalize" => committed) /\ op.outcome # "refused"
    BY <1>b, <2>1
  <2>3. CASE op' = Stopped("io_failed") BY <2>1, <2>3, HaltsHere
  <2>4. CASE op' = To("resolve")
    <3>1. op'.pc = "resolve" /\ op'.mode = op.mode /\ op'.outcome = op.outcome BY <2>4, OpTo
    <3> QED BY <1>a, <2>1, <2>2, <3>1, BetweenStep
  <2> QED BY <1>4, <2>3, <2>4 DEF Unstage
<1>5. CASE Resolve
  <2>1. marker' = "gone" /\ op' = Idle /\ UNCHANGED <<place, jr, committed, past>>
    BY <1>5 DEF Resolve, bounds
  <2>2. WantedTreeKept' BY <2>1 DEF WantedTreeKept
  <2>3. op'.pc = "idle" /\ op'.mode = "none" /\ op'.outcome # "refused" BY <2>1 DEF Idle
  <2> QED BY <2>1, <2>2, <2>3, Stops
<1> QED BY <1>1, <1>2, <1>3, <1>4, <1>5

\* A death claims nothing; a tree whose removal it interrupts is not the one
\* recovery would put back.
LEMMA DeathKeeps ==
    ASSUME IInv, UNCHANGED plan, Die \/ DieCreating \/ DieCleaning
    PROVE  IInv'
<1>0. TypeOK /\ TypeOK' BY AroundType DEF IInv
<1>a. op.at \in Units /\ u0 = op.at /\ "dead" \in Outcomes BY <1>0, UnitType DEF u0, Outcomes
<1> USE <1>0, <1>a
<1>1. CASE Die BY <1>1, HaltsHere DEF Die, Stable
<1>2. CASE DieCreating
  <2>1. At("create") /\ Stable /\ UNCHANGED jr /\ op' = Stopped("dead") BY <1>2 DEF DieCreating, Stable
  <2>2. Due \in FileSteps BY <2>1 DEF At, Due, FileSteps
  <2>3. Elsewhere BY <1>2 DEF DieCreating, Put, Elsewhere, TypeOK
  <2> QED BY <2>1, <2>2, <2>3, FileHalts
<1>3. CASE DieCleaning
  <2>1. ASSUME NEW u \in Units, NEW l \in Slots, DieRemoving(u, l), Spared(u) => Settled(u)
        PROVE  IInv'
    <3>1. Stable /\ UNCHANGED jr /\ op' = Stopped("dead") BY <2>1 DEF DieRemoving, Stable
    <3>2. l # "target" BY DEF Slots
    <3>3. /\ \A v \in Units : v # u => place'[v] = place[v]
          /\ \A v \in Units : place'[v]["target"] = place[v]["target"]
      BY <2>1, <3>2 DEF DieRemoving, Put, TypeOK, Locations
    <3>4. WantedTreeKept'
      <4>1. \A v \in Units : v # u => \A x \in Objects : Held(v, x) => Held(v, x)'
        BY <3>3, ElsewhereKept
      <4> QED BY <2>1, <3>1, <3>3, <4>1, SettledKept
    <3>5. op'.pc = "idle" /\ op'.mode = "none" /\ op'.outcome # "refused" BY <3>1, OpStopped
    <3> QED BY <3>1, <3>3, <3>4, <3>5, Stops DEF Stable
  <2>2. ASSUME NEW l \in {"original", "prepared", "quarantine"}, At("treeClean"), DieRemoving(u0, l)
        PROVE  IInv'
    <3>1. Due = "treeClean" BY <2>2 DEF At, Due
    <3> QED BY <2>1, <2>2, <3>1, Settles DEF Slots
  <2>3. ASSUME NEW u \in Units, At("unprepare"), DieRemoving(u, "prepared") PROVE IInv'
    <3>1. jr.phase = "preparing" BY <2>3 DEF At, Due, IInv, PhaseFits
    <3> QED BY <2>1, <2>3, <3>1, Settles DEF Slots
  <2> QED BY <1>3, <2>2, <2>3 DEF DieCleaning
<1> QED BY <1>1, <1>2, <1>3

\* What the user edits is spared no more.
LEMMA EditKeeps ==
    ASSUME IInv, UNCHANGED plan, NEW u \in Units, UserEdit(u)
    PROVE  IInv'
<1>0. TypeOK /\ TypeOK' BY AroundType DEF IInv
<1>1. /\ UNCHANGED <<jr, marker, committed, op>> /\ past'.first = past.first
      /\ past'.touched = past.touched \cup {u}
  BY <1>0 DEF UserEdit, TypeOK
<1>2. /\ \A v \in Units : v # u => place'[v] = place[v]
      /\ \A v \in Units, l \in Slots : place'[v][l] = place[v][l]
  <2>1. "target" \notin Slots BY DEF Slots
  <2>2. \E o : Put(u, "target", o) BY DEF UserEdit
  <2> QED BY <1>0, <2>1, <2>2 DEF Put, TypeOK, Locations
<1>3. ModeFits' BY <1>1 DEF IInv, ModeFits, Due
<1>4. op.at \in Units /\ {"prepared", "restoration"} \subseteq Slots BY <1>0, UnitType DEF Slots
<1>5. Here("prepared")' = Here("prepared") /\ Here("restoration")' = Here("restoration")
  BY <1>1, <1>2, <1>4 DEF Here, u0
<1>6. PhaseFits' BY <1>1, <1>5 DEF IInv, PhaseFits, Due, Accounted, New
<1>7. IntentFits' BY <1>1, <1>5 DEF IInv, IntentFits, Due, Intent, Unit, u0, Side
<1>8. ASSUME NEW v \in Units, Spared(v)' PROVE TreeFits(v)'
  <2>1. Spared(v) /\ v # u /\ TreeFits(v) BY <1>1, <1>8 DEF IInv, Spared
  <2>2. place'[v] = place[v] BY <1>2, <2>1
  <2>3. Due' = Due BY <1>1 DEF Due
  <2>4. Wanted' = Wanted /\ WantedId' = WantedId
    BY <1>1 DEF Wanted, WantedId, OldContent, Unit, u0, New, Old, Side
  <2>5. Replaced(v) => Replaced(v)' BY <1>1, <2>2 DEF Replaced, New
  <2> QED BY <1>1, <2>1, <2>2, <2>3, <2>4, <2>5 DEF TreeFits
<1>9. WantedTreeKept' BY <1>1, <1>2, ElsewhereKept, Kept
<1> QED BY <1>0, <1>1, <1>3, <1>6, <1>7, <1>8, <1>9 DEF IInv, ReceiptsAccepted, First, Old

-----------------------------------------------------------------------------
(* The theorems.                                                            *)

LEMMA Begins == Init => IInv
<1> SUFFICES ASSUME Init PROVE IInv OBVIOUS
<1>1. \A u \in Units : First(u) \in Objects \cup {Vacant}
  <2>1. \A u \in Units : u \in Ids BY PublicationAssumption, LimitsAssumption DEF Units, Ids
  <2>2. \A u \in Units : Old[u] \in Bytes \cup {Absent} BY PublicationAssumption DEF Init, Old
  <2>3. ASSUME NEW u \in Units PROVE First(u) \in Objects \cup {Vacant}
    <3>1. CASE Old[u] = Absent BY <3>1 DEF First
    <3>2. CASE Old[u] # Absent
      <4>1. [id |-> u, c |-> Old[u]] \in Objects BY <2>1, <2>2 DEF Objects, Contents
      <4> QED BY <3>2, <4>1 DEF First
    <3> QED BY <3>1, <3>2
  <2> QED BY <2>3
<1>2. TypeOK
  <2>1. /\ place \in [Units -> [Locations -> Objects \cup {Vacant}]]
        /\ past \in [first : [Units -> Objects \cup {Vacant}], touched : SUBSET Units]
    BY <1>1 DEF Init
  <2>2. jr \in JournalStates
    <3>1. \A u \in Units : [oldTree |-> IF Kind[u] = "directory" THEN First(u) ELSE Vacant,
                            prepared |-> NoId, intent |-> NoIntent] \in Publications
      BY <1>1 DEF Publications, Intents, NoIntent
    <3> QED BY <3>1 DEF Init, JournalStates
  <2>3. op \in Operations BY IdleOp DEF Init, Idle, Operations, Labels, ForwardSteps
  <2>4. faults \in 0 .. MaxFaults /\ torn \in 0 .. MaxTorn /\ edits \in 0 .. MaxEdits
    BY LimitsAssumption DEF Init
  <2> QED BY <2>1, <2>2, <2>3, <2>4 DEF Init, TypeOK
<1>3. op.pc = "stage" /\ op.mode = "execute" /\ op.at = 1 /\ op.outcome = "none" /\ Due = "stage"
  BY DEF Init, Idle, Due
<1>4. ModeFits BY <1>3 DEF Init, ModeFits, FileSteps, TreeSteps, PublishingTree
<1>5. PhaseFits
  <2>1. /\ jr.phase = "preparing" /\ ~jr.staged /\ ~committed
        /\ \A u \in Units : jr.unit[u].prepared = NoId /\ ~(u < 1)
    BY DEF Init, Units
  <2> QED BY <1>3, <2>1 DEF PhaseFits, Preparing, Publishing, FileSteps, TreeSteps, PublishingTree
<1>6. IntentFits BY <1>3 DEF IntentFits, FileWork, FileSteps
<1>7. past.first = [u \in Units |-> First(u)] BY DEF Init
<1>8. \A u \in Units : place[u]["target"] = First(u) BY DEF Init, Locations
<1>9. ASSUME NEW u \in Units, Spared(u) PROVE TreeFits(u)
  <2>1. jr.unit[u].oldTree = First(u) BY <1>9 DEF Init, Spared
  <2>2. jr.phase = "preparing" BY DEF Init
  <2> QED BY <1>3, <1>7, <1>8, <2>1, <2>2 DEF TreeFits
<1>10. WantedTreeKept
  <2>1. "target" \in Locations /\ ~committed BY DEF Locations, Init
  <2> QED BY <1>7, <1>8, <2>1 DEF WantedTreeKept
<1>11. ReceiptsAccepted BY <1>3 DEF ReceiptsAccepted
<1> QED BY <1>2, <1>4, <1>5, <1>6, <1>7, <1>9, <1>10, <1>11 DEF IInv

LEMMA Keeps == IInv /\ [Next]_vars => IInv'
<1> SUFFICES ASSUME IInv, [Next]_vars PROVE IInv' OBVIOUS
<1>1. CASE UNCHANGED vars
  <2>1. UNCHANGED <<plan, place, root, litter, jr, marker, committed, op, faults, torn, edits, past>>
    BY <1>1 DEF vars
  <2>2. TypeOK' BY StepTyped
  <2>3. Due' = Due /\ Side' = Side /\ Wanted' = Wanted /\ WantedId' = WantedId
    BY <2>1 DEF Due, Side, Wanted, WantedId, OldContent, Unit, u0, New, Old
  <2>4. ModeFits' BY <2>1, <2>3 DEF IInv, ModeFits
  <2>5. PhaseFits' BY <2>1, <2>3 DEF IInv, PhaseFits, Accounted, New, Here, u0
  <2>6. IntentFits' BY <2>1, <2>3 DEF IInv, IntentFits, Intent, Unit, Here, u0
  <2>7. \A u \in Units : Spared(u)' => TreeFits(u)'
    BY <2>1, <2>3 DEF IInv, Spared, TreeFits, Replaced, New
  <2>8. WantedTreeKept' BY <2>1 DEF IInv, WantedTreeKept, New, Old
  <2> QED BY <2>1, <2>2, <2>4, <2>5, <2>6, <2>7, <2>8 DEF IInv, ReceiptsAccepted, First, Old
<1>2. CASE Next
  BY <1>2, ForwardKeeps, FileKeeps, TreeKeeps, AsideKeeps, BetweenKeeps, DeathKeeps, EditKeeps DEF Next, Step
<1> QED BY <1>1, <1>2

\* Whatever dies, fails or is edited, the publication is in one of the states
\* the inductive invariant describes.
THEOREM Invariance == Spec => []IInv
BY Begins, Keeps, PTL DEF Spec

\* Every state of the journal, of the places and of the operation is well typed:
\* no receipt records what the journal's schema refuses.
THEOREM TypeCorrect == Spec => []TypeOK
<1>1. IInv => TypeOK BY DEF IInv
<1> QED BY <1>1, Invariance, PTL

\* Until the marker goes, the tree recovery would put back exists whole, with
\* the identity the journal knows, for every journal, every death between two
\* calls or inside one, and every edit of another publication.
THEOREM TreesKept == Spec => []WantedTreeKept
<1>1. IInv => WantedTreeKept BY DEF IInv
<1> QED BY <1>1, Invariance, PTL

\* isPublicationJournalTransition accepts every receipt that execution and the
\* recoveries that take over from it ask the journal's host to persist.
THEOREM ReceiptsHold == Spec => []ReceiptsAccepted
<1>1. IInv => ReceiptsAccepted BY DEF IInv
<1> QED BY <1>1, Invariance, PTL

-----------------------------------------------------------------------------
(* The side a journal is resolved to.                                       *)

\* The slots an object of a publication is ever put into.
OwnSlots(u) == IF Kind[u] = "file" THEN {"quarantine", "restoration"}
                                   ELSE {"original", "prepared", "quarantine"}
Emptied(u) == \A l \in Slots : place[u][l] = Vacant
Right(u) ==
    IF committed THEN place[u]["target"].c = New[u]
    ELSE /\ place[u]["target"].c = Old[u]
         /\ Kind[u] = "directory" => place[u]["target"] = past.first[u]

\* A recovery leaves publications behind it with their slots empty and, where
\* the user did not interfere, on their side.
Recovering == FileSteps \cup TreeSteps
Done(u) ==
    /\ op.mode \in {"finalize", "recover"}
    /\ Due \in {"unstage", "resolve"} \/ (Due \in Recovering /\ u > op.at)
DoneFits == \A u \in Units : Done(u) => Emptied(u) /\ (u \notin past.touched => Right(u))

\* Only the slots of a publication are filled, before the permission only the
\* prepared ones in a recorded root; a file without an intent has none.
SlotsByKind == \A u \in Units, l \in Slots : l \notin OwnSlots(u) => place[u][l] = Vacant
Untouched ==
    jr.phase = "preparing" => \A u \in Units :
        /\ \A l \in Slots : l # "prepared" => place[u][l] = Vacant
        /\ ~root \/ ~jr.staged => Emptied(u)
        /\ u \notin past.touched => place[u]["target"] = past.first[u]
IntentsEnd == \A u \in Units : Kind[u] = "file" /\ jr.unit[u].intent = NoIntent => Emptied(u)
PlacesFit ==
    /\ SlotsByKind /\ Untouched /\ IntentsEnd
    /\ jr.phase = "publishing" => jr.staged

RootFits ==
    /\ Due \in {"receive"} \cup Preparing => root
    /\ Due = "resolve" /\ jr.staged => ~root
ReachedFits ==
    Due = "fileClean" /\ op.at \notin past.touched => place[op.at]["target"].c = Wanted
AsideFits == op.pc \in {"check", "rename"} => op.to \in OwnSlots(op.at)
Sided == PlacesFit /\ DoneFits /\ RootFits /\ ReachedFits /\ AsideFits

\* What a step may put into a slot.
Stowed(u, l) ==
    /\ u = op.at /\ l \in OwnSlots(u)
    /\ IF jr.phase = "preparing" THEN l = "prepared" /\ root /\ jr.staged
                                 ELSE Kind[u] = "file" => jr'.unit[u].intent # NoIntent
SlotsFit ==
    \A u \in Units, l \in Slots : place[u][l] = Vacant => place'[u][l] = Vacant \/ Stowed(u, l)
IntentsFit ==
    \A u \in Units : Kind[u] = "file" /\ jr'.unit[u].intent = NoIntent =>
        jr.unit[u].intent = NoIntent \/ Emptied(u)'

LEMMA Frame ==
    ASSUME IInv, Sided, UNCHANGED <<plan, committed>>, past'.first = past.first,
           past.touched \subseteq past'.touched,
           jr'.phase = jr.phase \/ (jr'.phase = "publishing" /\ jr.staged), jr.staged => jr'.staged,
           (root => root') \/ \A u \in Units : Emptied(u)',
           SlotsFit, IntentsFit,
           jr.phase = "preparing" =>
              \A u \in Units : u \notin past'.touched => place'[u]["target"] = place[u]["target"]
    PROVE  PlacesFit'
<1>0. jr.phase \in {"preparing", "publishing"} BY DEF IInv, TypeOK, JournalStates
<1>1. SlotsByKind' BY DEF Sided, PlacesFit, SlotsByKind, SlotsFit, Stowed, OwnSlots
<1>2. ASSUME jr'.phase = "preparing", NEW u \in Units
      PROVE  /\ \A l \in Slots : l # "prepared" => place'[u][l] = Vacant
             /\ ~root' \/ ~jr'.staged => Emptied(u)'
             /\ u \notin past'.touched => place'[u]["target"] = past'.first[u]
  <2>1. jr.phase = "preparing" BY <1>2
  <2>2. /\ \A l \in Slots : l # "prepared" => place[u][l] = Vacant
        /\ ~root \/ ~jr.staged => Emptied(u)
        /\ u \notin past.touched => place[u]["target"] = past.first[u]
    BY <2>1 DEF Sided, PlacesFit, Untouched
  <2>3. \A l \in Slots : l # "prepared" => place'[u][l] = Vacant
    BY <2>1, <2>2 DEF SlotsFit, Stowed
  <2>4. ~root \/ ~jr.staged => Emptied(u)' BY <2>1, <2>2 DEF SlotsFit, Stowed, Emptied
  <2> QED BY <2>1, <2>2, <2>3, <2>4
<1>3. Untouched' BY <1>2 DEF Untouched
<1>4. ASSUME NEW u \in Units, Kind[u] = "file", jr'.unit[u].intent = NoIntent PROVE Emptied(u)'
  <2>1. CASE jr.unit[u].intent = NoIntent
    <3>1. Emptied(u) BY <1>4, <2>1 DEF Sided, PlacesFit, IntentsEnd
    <3>2. ASSUME NEW l \in Slots PROVE ~Stowed(u, l) BY <1>4 DEF Stowed, OwnSlots
    <3> QED BY <3>1, <3>2 DEF Emptied, SlotsFit
  <2> QED BY <1>4, <2>1 DEF IntentsFit
<1>5. IntentsEnd' BY <1>4 DEF IntentsEnd
<1>6. jr'.phase = "publishing" => jr'.staged BY <1>0 DEF Sided, PlacesFit
<1> QED BY <1>1, <1>3, <1>5, <1>6 DEF PlacesFit

\* The common cases: a step that moves nothing, and one after the permission.
LEMMA FrameHere ==
    ASSUME IInv, Sided, Stable, UNCHANGED <<root, place>>,
           jr'.phase = jr.phase, jr'.staged = jr.staged, IntentsFit
    PROVE  PlacesFit'
<1>1. SlotsFit BY DEF SlotsFit
<1> QED BY <1>1, Frame DEF Stable

LEMMA FramePublishing ==
    ASSUME IInv, Sided, Stable, UNCHANGED root, jr.phase = "publishing",
           jr'.phase = jr.phase, jr'.staged = jr.staged, IntentsFit, SlotsFit
    PROVE  PlacesFit'
BY Frame DEF Stable

\* A receipt about one publication, accepted or not.
LEMMA ReceiptRecorded ==
    ASSUME TypeOK, NEW unit \in Publications, NEW continued, Record(unit, continued)
    PROVE  /\ jr'.phase = jr.phase /\ jr'.staged = jr.staged
           /\ \A v \in Units : v # op.at => jr'.unit[v] = jr.unit[v]
           /\ \/ jr'.unit[op.at] = unit /\ op' = continued
              \/ UNCHANGED jr /\ \E o \in Outcomes : op' = Stopped(o)
<1>1. op.at \in Units /\ u0 = op.at /\ jr \in JournalStates BY UnitType DEF u0, TypeOK
<1> DEFINE next == [jr EXCEPT !.unit[u0] = unit]
<1>2. /\ next.phase = jr.phase /\ next.staged = jr.staged /\ next.unit[op.at] = unit
      /\ \A v \in Units : v # op.at => next.unit[v] = jr.unit[v]
  BY <1>1 DEF JournalStates
<1> HIDE DEF next
<1>3. \/ jr' = next /\ op' = continued
      \/ UNCHANGED jr /\ \E o \in Outcomes : op' = Stopped(o)
  BY DEF Record, Persist, next, Outcomes
<1> QED BY <1>2, <1>3

-----------------------------------------------------------------------------
LEMMA SidedStops ==
    ASSUME Sided, PlacesFit', NEW o \in Outcomes, op' = Stopped(o)
    PROVE  Sided'
<1>1. op'.pc = "idle" /\ op'.mode = "none" /\ Due' = "idle" BY OpStopped DEF Due
<1> QED BY <1>1 DEF Sided, DoneFits, Done, RootFits, ReachedFits, AsideFits, Preparing

\* Work on one publication leaves those behind it alone.
LEMMA SidedWork ==
    ASSUME IInv, Sided, PlacesFit', Stable, Elsewhere, Due \in Recovering, Due' \in Recovering,
           op'.at = op.at, op'.mode = op.mode,
           Due' = "fileClean" /\ op.at \notin past.touched => place'[op.at]["target"].c = Wanted',
           op'.pc \in {"check", "rename"} => op'.to \in OwnSlots(op.at)
    PROVE  Sided'
<1>0. op.at \in Nat BY DEF IInv, TypeOK, Operations, Units
<1>1. RootFits' BY DEF RootFits, Preparing, Recovering, FileSteps, TreeSteps
<1>2. ReachedFits' BY DEF ReachedFits, Stable
<1>3. AsideFits' BY DEF AsideFits, OwnSlots
<1>4. ASSUME NEW u \in Units, Done(u)' PROVE Emptied(u)' /\ (u \notin past'.touched => Right(u)')
  <2>1. u > op.at /\ u # op.at /\ Done(u)
    BY <1>0, <1>4 DEF Done, Recovering, FileSteps, TreeSteps, Units
  <2>2. Emptied(u) /\ (u \notin past.touched => Right(u)) BY <2>1 DEF Sided, DoneFits
  <2>3. place'[u] = place[u] BY <2>1 DEF Elsewhere
  <2> QED BY <2>2, <2>3 DEF Emptied, Right, Stable, New, Old
<1> QED BY <1>1, <1>2, <1>3, <1>4 DEF Sided, DoneFits

\* A publication is left behind with its slots empty and on its side.
LEMMA SidedEnds ==
    ASSUME IInv, Sided, PlacesFit', Stable, op' = UnitDone,
           op.mode # "execute" =>
              /\ Elsewhere /\ Due \in Recovering
              /\ \A l \in Slots : place'[op.at][l] = Vacant
              /\ op.at \notin past.touched =>
                    IF committed THEN place'[op.at]["target"].c = New[op.at]
                    ELSE /\ place'[op.at]["target"].c = Old[op.at]
                         /\ Kind[op.at] = "directory" => place'[op.at]["target"] = past.first[op.at]
    PROVE  Sided'
<1>0. TypeOK /\ op.at \in Units /\ op.at \in Nat /\ N \in Nat BY UnitType, OneUnit DEF IInv, Units
<1>1. CASE op.mode = "execute"
  <2>1. op'.mode = "execute" /\ op'.then = "idle" /\ op'.pc \notin {"check", "rename", "receive", "fileClean", "resolve"}
        /\ op'.pc \notin Preparing
    <3>1. op'.mode = op.mode /\ op'.then = "idle" BY <1>0, OpDone
    <3>2. CASE op.at < N
      <4>1. op' = StartAt(op.at + 1) /\ op.at + 1 \in Units BY <1>0, <1>1, <3>2, OpDone
      <4>2. op'.pc \in {"overwrite", "fileStart", "capture", "treeStart"} BY <1>0, <4>1, OpStart
      <4> QED BY <1>1, <3>1, <4>2 DEF Preparing
    <3>3. CASE ~(op.at < N)
      <4>1. op'.pc = "verify" BY <1>0, <1>1, <3>3, OpDone
      <4> QED BY <1>1, <3>1, <4>1 DEF Preparing
    <3> QED BY <3>2, <3>3
  <2>2. Due' = op'.pc BY <2>1 DEF Due
  <2> QED BY <2>1, <2>2 DEF Sided, DoneFits, Done, RootFits, ReachedFits, AsideFits
<1>2. CASE op.mode # "execute"
  <2>1. /\ op'.mode = op.mode
        /\ op'.pc \in {"fileStart", "treeStart", "unstage"}
        /\ op'.pc # "unstage" => op'.at = op.at - 1
    <3>1. op'.mode = op.mode BY <1>0, OpDone
    <3>2. CASE op.at > 1
      <4>1. op' = StartAt(op.at - 1) /\ op.at - 1 \in Units BY <1>0, <1>2, <3>2, OpDone
      <4>2. op'.pc = StartOf(op.at - 1, op.mode) /\ op'.at = op.at - 1 BY <1>0, <4>1, OpStart
      <4> QED BY <1>2, <3>1, <4>2 DEF StartOf
    <3>3. CASE ~(op.at > 1) BY <1>0, <1>2, <3>1, <3>3, OpDone
    <3> QED BY <3>2, <3>3
  <2>2. Due' = op'.pc BY <2>1 DEF Due
  <2>3. RootFits' /\ ReachedFits' /\ AsideFits'
    BY <2>1, <2>2 DEF RootFits, ReachedFits, AsideFits, Preparing
  <2>4. ASSUME NEW u \in Units, Done(u)' PROVE Emptied(u)' /\ (u \notin past'.touched => Right(u)')
    <3>1. u \in Nat BY DEF Units
    <3>2. CASE u = op.at BY <1>2, <3>2 DEF Emptied, Right, Stable, New, Old
    <3>3. CASE u # op.at
      <4>0. u > op.at => Done(u)
        <5>1. op.mode \in {"finalize", "recover"} BY <2>1, <2>4 DEF Done
        <5> QED BY <1>2, <5>1 DEF Done
      <4>1. place'[u] = place[u] BY <1>2, <3>3 DEF Elsewhere
      <4>2. CASE u > op.at
        <5>1. Emptied(u) /\ (u \notin past.touched => Right(u)) BY <4>0, <4>2 DEF Sided, DoneFits
        <5> QED BY <4>1, <5>1 DEF Emptied, Right, Stable, New, Old
      <4>3. CASE u < op.at
        <5>1. ~(op.at > 1) => FALSE BY <1>0, <4>3 DEF Units
        <5>2. op' = StartAt(op.at - 1) /\ op.at - 1 \in Units BY <1>0, <1>2, <5>1, OpDone
        <5>3. op'.pc \in {"fileStart", "treeStart"} /\ op'.at = op.at - 1
          BY <1>0, <1>2, <5>2, OpStart DEF StartOf
        <5>4. u > op.at - 1 BY <2>2, <2>4, <5>3 DEF Done
        <5> QED BY <1>0, <3>1, <4>3, <5>4
      <4> QED BY <1>0, <3>1, <3>3, <4>2, <4>3
    <3> QED BY <3>2, <3>3
  <2> QED BY <2>3, <2>4 DEF Sided, DoneFits
<1> QED BY <1>1, <1>2

\* The first operation leaves nothing behind.
LEMMA SidedForward ==
    ASSUME Sided, PlacesFit', op'.mode = "execute", Due' \notin {"fileClean", "resolve"},
           Due' \in {"receive"} \cup Preparing => root',
           op'.pc \in {"check", "rename"} => op'.to \in OwnSlots(op'.at)
    PROVE  Sided'
<1>1. AsideFits' BY DEF AsideFits, OwnSlots
<1> QED BY <1>1 DEF Sided, DoneFits, Done, RootFits, ReachedFits

\* Steps of recoverFile.
LEMMA FileSided ==
    ASSUME IInv, Sided, recoverFile, UNCHANGED plan
    PROVE  Sided'
<1>0. TypeOK /\ TypeOK' BY FileType DEF IInv
<1>a. /\ op.at \in Units /\ u0 = op.at /\ Intent = jr.unit[op.at].intent /\ Unit = jr.unit[op.at]
      /\ Unit \in Publications /\ Intent \in Intents
  BY <1>0, UnitType DEF u0
<1>b. \A l \in FileSteps : At(l) => /\ Due = l /\ Due \in Recovering /\ jr.phase = "publishing"
                                    /\ Kind[op.at] = "file"
  BY DEF At, Due, Recovering, FileSteps, IInv, PhaseFits, Publishing, ModeFits
<1>c. \A l \in FileWork : At(l) => Intent.side = Side /\ Intent # NoIntent
  <2>1. "none" # Side BY DEF Side
  <2> QED BY <2>1, <1>b DEF IInv, IntentFits, FileWork, NoIntent
<1>d. /\ FileSteps \subseteq Labels /\ {"io_failed", "third_value"} \subseteq Outcomes
      /\ {"target", "restoration", "quarantine"} \subseteq Locations
      /\ FileSteps \subseteq Recovering
      /\ \A l \in FileSteps : l \notin {"check", "rename"}
  BY DEF Labels, Outcomes, Locations, Slots, Recovering, FileSteps
<1>e. UNCHANGED place => Elsewhere /\ NothingStowed BY DEF Elsewhere, NothingStowed
<1>f. NothingStowed => SlotsFit BY DEF NothingStowed, SlotsFit
<1>h. UNCHANGED jr => IntentsFit BY DEF IntentsFit
<1>s. ASSUME NEW o \in Outcomes, op' = Stopped(o), PlacesFit' PROVE Sided'
  BY <1>s, SidedStops
<1>g. ASSUME NEW l \in FileSteps, op' = To(l), PlacesFit', Stable, Elsewhere, Due \in Recovering,
             l = "fileClean" => place'[op.at]["target"].c = Wanted'
      PROVE  Sided'
  <2>1. op'.pc = l /\ op'.at = op.at /\ op'.mode = op.mode BY <1>0, <1>d, <1>g, OpTo
  <2>2. Due' = l BY <1>d, <2>1 DEF Due
  <2> QED BY <1>d, <1>g, <2>1, <2>2, SidedWork
<1>w. UNCHANGED <<committed, plan, jr>> /\ op'.at = op.at /\ op'.mode = op.mode => Wanted' = Wanted
  BY DEF Wanted, OldContent, u0, Side, New, Old
<1>r. ASSUME NEW unit \in Publications, unit.intent # NoIntent, NEW l \in FileSteps, l # "fileClean",
             Record(unit, To(l)), Stable, UNCHANGED <<root, place>>, Due \in Recovering
      PROVE  Sided'
  <2>1. /\ jr'.phase = jr.phase /\ jr'.staged = jr.staged
        /\ \A v \in Units : v # op.at => jr'.unit[v] = jr.unit[v]
        /\ \/ jr'.unit[op.at] = unit /\ op' = To(l)
           \/ UNCHANGED jr /\ \E o \in Outcomes : op' = Stopped(o)
    BY <1>0, <1>r, ReceiptRecorded
  <2>2. IntentsFit BY <1>r, <2>1 DEF IntentsFit
  <2>3. PlacesFit' BY <1>r, <2>1, <2>2, FrameHere
  <2> QED BY <1>e, <1>g, <1>r, <1>s, <2>1, <2>3
<1> USE <1>0, <1>a, <1>d
<1>1. CASE StartFile
  <2>1. At("fileStart") /\ Stable /\ UNCHANGED <<place, root>> BY <1>1 DEF StartFile, Stable, bounds
  <2>2. Due \in Recovering /\ "fileStart" \in FileSteps /\ "scrub" \in FileSteps /\ Kind[op.at] = "file"
    BY <1>b, <2>1 DEF FileSteps
  <2>3. UNCHANGED jr => PlacesFit' BY <1>h, <2>1, FrameHere
  <2> DEFINE begun == [side |-> Side, cand |-> Here("target").id, restore |-> NoId]
  <2>4. CASE op' = UnitDone /\ UNCHANGED jr /\ Intent = NoIntent /\ Here("target").c = Wanted
    <3>1. Emptied(op.at) BY <2>2, <2>4 DEF Sided, PlacesFit, IntentsEnd
    <3>2. op.mode # "execute" /\ op.mode # "none" => (Side = "new" <=> committed)
      BY DEF Side, IInv, ModeFits, TypeOK, Operations
    <3>3. op.mode # "none" BY <2>1 DEF At, IInv, ModeFits
    <3>4. op.mode # "execute" => place[op.at]["target"].c = IF committed THEN New[op.at] ELSE Old[op.at]
      BY <2>2, <2>4, <3>2, <3>3 DEF Wanted, OldContent, Here, Side
    <3> QED BY <1>e, <2>1, <2>2, <2>3, <2>4, <3>1, <3>4, SidedEnds DEF Emptied
  <2>5. CASE op' = Stopped("third_value") /\ UNCHANGED jr BY <1>s, <2>3, <2>5
  <2>6. CASE Record([Unit EXCEPT !.intent = begun], To("scrub"))
    <3>1. [Unit EXCEPT !.intent = begun] \in Publications
      BY HereType, UnitType DEF Publications, Intents, Side
    <3>2. [Unit EXCEPT !.intent = begun].intent # NoIntent
      <4>1. begun # NoIntent BY DEF NoIntent, Side
      <4> QED BY <4>1 DEF Publications
    <3> QED BY <1>r, <2>1, <2>2, <2>6, <3>1, <3>2
  <2>7. CASE Record([Unit EXCEPT !.intent = Redirected(Intent)], To("scrub"))
    <3>1. [Unit EXCEPT !.intent = Redirected(Intent)] \in Publications
      BY DEF Publications, Intents, Side, Redirected
    <3>2. [Unit EXCEPT !.intent = Redirected(Intent)].intent # NoIntent
      <4>1. Redirected(Intent).side = Side BY DEF Redirected, Intents
      <4>2. Redirected(Intent) # NoIntent BY <4>1 DEF NoIntent, Side
      <4> QED BY <4>2 DEF Publications
    <3> QED BY <1>r, <2>1, <2>2, <2>7, <3>1, <3>2
  <2>8. CASE op' = To("scrub") /\ UNCHANGED jr BY <1>e, <1>g, <2>1, <2>2, <2>3, <2>8
  <2> QED BY <1>1, <2>4, <2>5, <2>6, <2>7, <2>8 DEF StartFile
<1>2. CASE ScrubRestoration
  <2>1. At("scrub") /\ Stable /\ UNCHANGED root BY <1>2 DEF ScrubRestoration, Stable, bounds
  <2>2. Due \in Recovering /\ jr.phase = "publishing" /\ "filePrivate" \in FileSteps /\ Intent # NoIntent
        /\ Intent.side = Side
    BY <1>b, <1>c, <2>1 DEF FileSteps, FileWork
  <2>3. UNCHANGED jr /\ NothingStowed => PlacesFit' BY <1>f, <1>h, <2>1, <2>2, FramePublishing
  <2>4. CASE op' = To("filePrivate") /\ UNCHANGED <<place, jr>> BY <1>e, <1>g, <2>1, <2>2, <2>3, <2>4
  <2>5. CASE op' = Stopped("third_value") /\ UNCHANGED <<place, jr>> BY <1>e, <1>s, <2>3, <2>5
  <2>6. CASE Record([Unit EXCEPT !.intent.restore = Here("restoration").id], To("filePrivate")) /\ UNCHANGED place
    <3>1. [Unit EXCEPT !.intent.restore = Here("restoration").id] \in Publications
      BY HereType DEF Publications, Intents
    <3>2. [Unit EXCEPT !.intent.restore = Here("restoration").id].intent.side = Side
      BY <2>2 DEF Publications, Intents
    <3>3. [Unit EXCEPT !.intent.restore = Here("restoration").id].intent # NoIntent
      BY <3>2 DEF NoIntent, Side
    <3> QED BY <1>r, <2>1, <2>2, <2>6, <3>1, <3>3
  <2>7. CASE Put(u0, "restoration", Vacant) /\ op' = To("filePrivate") /\ UNCHANGED jr
    <3>1. Elsewhere /\ NothingStowed BY <2>7 DEF Put, TypeOK, Elsewhere, NothingStowed, Locations
    <3> QED BY <1>g, <2>1, <2>2, <2>3, <2>7, <3>1
  <2> QED BY <1>2, <2>4, <2>5, <2>6, <2>7 DEF ScrubRestoration
<1>3. CASE InspectFileSlots
  <2>1. At("filePrivate") /\ Stable /\ UNCHANGED <<jr, root>> BY <1>3 DEF InspectFileSlots, Stable, bounds
  <2>2. Due \in Recovering /\ jr.phase = "publishing" /\ "inspect" \in FileSteps
    BY <1>b, <2>1 DEF FileSteps
  <2>3. NothingStowed => PlacesFit' BY <1>f, <1>h, <2>1, <2>2, FramePublishing
  <2>4. CASE op' = To("inspect") /\ UNCHANGED place BY <1>e, <1>g, <2>1, <2>2, <2>3, <2>4
  <2>5. CASE op' = Stopped("third_value") /\ UNCHANGED place BY <1>e, <1>s, <2>3, <2>5
  <2>6. ASSUME NEW l \in Locations, ReturnDisplaced(l) PROVE Sided'
    BY <1>s, <2>3, <2>6, Returned
  <2> QED BY <1>3, <2>4, <2>5, <2>6, InspectCases DEF InspectFileSlots
<1>4. CASE InspectFile
  <2>1. At("inspect") /\ Stable /\ UNCHANGED <<jr, root, place>> BY <1>4 DEF InspectFile, Stable, bounds
  <2>2. Due \in Recovering /\ {"fileClean", "displace", "create"} \subseteq FileSteps
    BY <1>b, <2>1 DEF FileSteps
  <2>3. PlacesFit' BY <1>h, <2>1, FrameHere
  <2>4. CASE op' = Stopped("third_value") BY <1>s, <2>3, <2>4
  <2>5. CASE op' = To("fileClean") /\ Here("target").c = Wanted
    <3>1. op'.at = op.at /\ op'.mode = op.mode BY <2>2, <2>5, OpTo
    <3>2. place'[op.at]["target"].c = Wanted' BY <1>w, <2>1, <2>5, <3>1 DEF Here, Stable
    <3> QED BY <1>e, <1>g, <2>1, <2>2, <2>3, <2>5, <3>2
  <2>6. CASE op' \in {[op EXCEPT !.pc = "displace", !.cur = Here("target"), !.from = Supply],
                      [op EXCEPT !.pc = "create", !.cur = Here("target"), !.from = "restoration"]}
    <3>1. op'.pc \in {"displace", "create"} /\ op'.at = op.at /\ op'.mode = op.mode
      BY <2>6 DEF TypeOK, Operations
    <3>2. Due' = op'.pc BY <3>1 DEF Due
    <3> QED BY <1>e, <2>1, <2>2, <2>3, <3>1, <3>2, SidedWork
  <2> QED BY <1>4, <2>4, <2>5, <2>6 DEF InspectFile
<1>5. CASE CreateRestoration
  <2>1. At("create") /\ Stable /\ UNCHANGED <<jr, root>> /\ op' = To("receipt")
    BY <1>5 DEF CreateRestoration, Stable, bounds
  <2>2. /\ Due \in Recovering /\ jr.phase = "publishing" /\ "receipt" \in FileSteps /\ Intent # NoIntent
        /\ "restoration" \in OwnSlots(op.at)
    BY <1>b, <1>c, <2>1 DEF FileSteps, FileWork, OwnSlots
  <2>3. PICK o : Put(u0, "restoration", o) BY <1>5 DEF CreateRestoration
  <2>4. Elsewhere /\ \A l \in Slots : l # "restoration" => place'[op.at][l] = place[op.at][l]
    BY <2>3 DEF Put, TypeOK, Elsewhere, Locations
  <2>5. SlotsFit BY <2>1, <2>2, <2>4 DEF SlotsFit, Stowed, Elsewhere
  <2>6. PlacesFit' BY <1>h, <2>1, <2>2, <2>5, FramePublishing
  <2> QED BY <1>g, <2>1, <2>2, <2>4, <2>6
<1>6. CASE ReceiptRestoration
  <2>1. At("receipt") /\ Stable /\ UNCHANGED <<place, root>> BY <1>6 DEF ReceiptRestoration, Stable, bounds
  <2>2. Due \in Recovering /\ "displace" \in FileSteps /\ Intent.side = Side
    BY <1>b, <1>c, <2>1 DEF FileSteps, FileWork
  <2>3. [Unit EXCEPT !.intent.restore = Here("restoration").id] \in Publications
    BY HereType DEF Publications, Intents
  <2>4. [Unit EXCEPT !.intent.restore = Here("restoration").id].intent.side = Side
    BY <2>2 DEF Publications, Intents
  <2>5. [Unit EXCEPT !.intent.restore = Here("restoration").id].intent # NoIntent
    BY <2>4 DEF NoIntent, Side
  <2> QED BY <1>6, <1>r, <2>1, <2>2, <2>3, <2>5 DEF ReceiptRestoration
<1>7. CASE Displace
  <2>1. At("displace") /\ Stable /\ UNCHANGED <<jr, root, place>> BY <1>7 DEF Displace, Stable, bounds
  <2>2. /\ Due \in Recovering /\ {"filePlace", "fileDisplaced"} \subseteq FileSteps
        /\ OwnSlots(op.at) = {"quarantine", "restoration"}
    BY <1>b, <2>1 DEF FileSteps, OwnSlots
  <2>3. PlacesFit' BY <1>h, <2>1, FrameHere
  <2>4. CASE op' = Stopped("third_value") BY <1>s, <2>3, <2>4
  <2>5. CASE op' = To("filePlace") BY <1>e, <1>g, <2>1, <2>2, <2>3, <2>5
  <2>6. ASSUME NEW l \in {"quarantine", "restoration"}, op' = TakeAside(op.cur, l, "fileDisplaced")
        PROVE  Sided'
    <3>1. op.cur \in Objects \cup {Vacant} BY DEF TypeOK, Operations
    <3>2. /\ op'.pc = "check" /\ op'.then = "fileDisplaced" /\ op'.at = op.at /\ op'.mode = op.mode
          /\ op'.to = l
      BY <2>2, <2>6, <3>1, OpAside
    <3>3. Due' = "fileDisplaced" BY <3>2 DEF Due
    <3> QED BY <1>e, <2>1, <2>2, <2>3, <3>2, <3>3, SidedWork
  <2> QED BY <1>7, <2>4, <2>5, <2>6 DEF Displace
<1>8. CASE CheckDisplaced("fileDisplaced", "filePlace")
  <2>1. At("fileDisplaced") /\ Stable /\ UNCHANGED <<jr, root>> BY <1>8 DEF CheckDisplaced, Stable, bounds
  <2>2. Due \in Recovering /\ jr.phase = "publishing" /\ "filePlace" \in FileSteps
    BY <1>b, <2>1 DEF FileSteps
  <2>3. NothingStowed => PlacesFit' BY <1>f, <1>h, <2>1, <2>2, FramePublishing
  <2>4. CASE op' = To("filePlace") /\ UNCHANGED place BY <1>e, <1>g, <2>1, <2>2, <2>3, <2>4
  <2>5. CASE ReturnDisplaced(op.to)
    <3>1. op.to \in Locations BY DEF TypeOK, Operations
    <3> QED BY <1>s, <2>3, <2>5, <3>1, Returned
  <2> QED BY <1>8, <2>4, <2>5 DEF CheckDisplaced
<1>9. CASE PlaceFile
  <2>1. At("filePlace") /\ Stable /\ UNCHANGED <<jr, root>> BY <1>9 DEF PlaceFile, Stable, bounds
  <2>2. Due \in Recovering /\ jr.phase = "publishing" /\ "confirm" \in FileSteps
    BY <1>b, <2>1 DEF FileSteps
  <2>3. NothingStowed => PlacesFit' BY <1>f, <1>h, <2>1, <2>2, FramePublishing
  <2>4. CASE op' = To("confirm") /\ Elsewhere /\ NothingStowed BY <1>g, <2>1, <2>2, <2>3, <2>4
  <2>5. CASE (\E o \in {"io_failed", "third_value"} : op' = Stopped(o)) /\ NothingStowed
    BY <1>s, <2>3, <2>5
  <2>6. CASE PublishFrom(op.from, ExpectedId(op.from), "confirm")
    <3>1. op.from \in Locations BY DEF TypeOK, Operations
    <3> QED BY <2>4, <2>5, <2>6, <3>1, Published
  <2> QED BY <1>9, <1>e, <2>4, <2>5, <2>6 DEF PlaceFile
<1>10. CASE ConfirmFile
  <2>1. At("confirm") /\ Stable /\ UNCHANGED <<jr, root, place>> BY <1>10 DEF ConfirmFile, Stable, bounds
  <2>2. Due \in Recovering /\ "fileClean" \in FileSteps BY <1>b, <2>1 DEF FileSteps
  <2>3. PlacesFit' BY <1>h, <2>1, FrameHere
  <2>4. CASE op' = Stopped("third_value") BY <1>s, <2>3, <2>4
  <2>5. CASE op' = To("fileClean") /\ Here("target").c = Wanted
    <3>1. op'.at = op.at /\ op'.mode = op.mode BY <2>2, <2>5, OpTo
    <3>2. place'[op.at]["target"].c = Wanted' BY <1>w, <2>1, <2>5, <3>1 DEF Here, Stable
    <3> QED BY <1>e, <1>g, <2>1, <2>2, <2>3, <2>5, <3>2
  <2> QED BY <1>10, <2>4, <2>5 DEF ConfirmFile
<1>11. CASE Clean("fileClean", FileOrder)
  <2>1. At("fileClean") /\ Stable /\ UNCHANGED root BY <1>11 DEF Clean, Stable, bounds
  <2>2. /\ Due \in Recovering /\ jr.phase = "publishing" /\ "fileClean" \in FileSteps /\ Due = "fileClean"
        /\ Kind[op.at] = "file" /\ OwnSlots(op.at) = {"quarantine", "restoration"}
    BY <1>b, <2>1 DEF FileSteps, OwnSlots
  <2>3. UNCHANGED jr /\ NothingStowed => PlacesFit' BY <1>f, <1>h, <2>1, <2>2, FramePublishing
  <2>4. CASE /\ UNCHANGED place /\ Here("quarantine") = Vacant /\ Here("restoration") = Vacant
             /\ Record([Unit EXCEPT !.intent = NoIntent], UnitDone)
    <3>1. [Unit EXCEPT !.intent = NoIntent] \in Publications BY DEF Publications, NoIntent, Intents
    <3>2. Emptied(op.at)
      <4>1. \A l \in Slots : l \notin OwnSlots(op.at) => place[op.at][l] = Vacant
        BY DEF Sided, PlacesFit, SlotsByKind
      <4> QED BY <2>2, <2>4, <4>1 DEF Emptied, Here
    <3>3. /\ jr'.phase = jr.phase /\ jr'.staged = jr.staged
          /\ \A v \in Units : v # op.at => jr'.unit[v] = jr.unit[v]
          /\ op' = UnitDone \/ \E o \in Outcomes : op' = Stopped(o)
      BY <2>4, <3>1, ReceiptRecorded
    <3>4. IntentsFit BY <2>4, <3>2, <3>3 DEF IntentsFit, Emptied
    <3>5. PlacesFit' BY <2>1, <2>4, <3>3, <3>4, FrameHere
    <3>6. op.mode # "none" /\ (op.mode # "execute" => (Side = "new" <=> committed))
      BY <2>1 DEF At, Side, IInv, ModeFits, TypeOK, Operations
    <3>7. op.mode # "execute" /\ op.at \notin past.touched =>
              place[op.at]["target"].c = IF committed THEN New[op.at] ELSE Old[op.at]
      BY <2>2, <3>6 DEF Sided, ReachedFits, Wanted, OldContent, Side
    <3>8. CASE op' = UnitDone BY <1>e, <2>1, <2>2, <2>4, <3>2, <3>5, <3>7, <3>8, SidedEnds DEF Emptied
    <3> QED BY <1>s, <3>3, <3>5, <3>8
  <2>5. CASE op' = Stopped("third_value") /\ UNCHANGED <<place, jr>> BY <1>e, <1>s, <2>3, <2>5
  <2>6. ASSUME NEW l \in Slots, Put(u0, l, Vacant), UNCHANGED <<op, jr>> PROVE Sided'
    <3>1. l # "target" BY DEF Slots
    <3>2. Elsewhere /\ NothingStowed /\ place'[op.at]["target"] = place[op.at]["target"]
      BY <2>6, <3>1 DEF Put, TypeOK, Elsewhere, NothingStowed, Locations
    <3>3. Due' = Due /\ Wanted' = Wanted BY <1>w, <2>1, <2>6 DEF Due, Stable
    <3>4. op'.pc = "fileClean" BY <2>1, <2>6 DEF At
    <3>5. op.at \notin past.touched => place[op.at]["target"].c = Wanted
      BY <2>2 DEF Sided, ReachedFits
    <3> QED BY <2>1, <2>2, <2>3, <2>6, <3>2, <3>3, <3>4, <3>5, SidedWork
  <2>7. (\A k \in DOMAIN FileOrder : Here(FileOrder[k]) = Vacant) =>
            Here("quarantine") = Vacant /\ Here("restoration") = Vacant
    <3>1. /\ 1 \in DOMAIN FileOrder /\ FileOrder[1] = "quarantine"
          /\ 2 \in DOMAIN FileOrder /\ FileOrder[2] = "restoration"
      BY DEF FileOrder
    <3> QED BY <3>1
  <2>8. CASE /\ UNCHANGED place /\ \A k \in DOMAIN FileOrder : Here(FileOrder[k]) = Vacant
             /\ \/ Kind[u0] = "directory"
                \/ Record([Unit EXCEPT !.intent = NoIntent], UnitDone)
    BY <2>2, <2>4, <2>7, <2>8
  <2> QED BY <1>11, <2>2, <2>5, <2>6, <2>8, CleanCases
<1> QED BY <1>1, <1>2, <1>3, <1>4, <1>5, <1>6, <1>7, <1>8, <1>9, <1>10, <1>11 DEF recoverFile

\* Steps of recoverDirectory.
LEMMA TreeSided ==
    ASSUME IInv, Sided, recoverDirectory, UNCHANGED plan
    PROVE  Sided'
<1>0. TypeOK /\ TypeOK' BY TreeType DEF IInv
<1>a. /\ op.at \in Units /\ u0 = op.at /\ Intent = jr.unit[op.at].intent /\ Unit = jr.unit[op.at]
      /\ Unit \in Publications /\ Intent \in Intents
  BY <1>0, UnitType DEF u0
<1>b. \A l \in TreeSteps : At(l) => /\ Due = l /\ Due \in Recovering /\ jr.phase = "publishing"
                                    /\ Kind[op.at] = "directory"
                                    /\ op.mode \in {"finalize", "recover"}
  BY DEF At, Due, Recovering, TreeSteps, IInv, PhaseFits, Publishing, ModeFits
<1>d. /\ TreeSteps \subseteq Labels /\ {"io_failed", "third_value"} \subseteq Outcomes
      /\ {"target", "original", "prepared", "quarantine"} \subseteq Locations
      /\ TreeSteps \subseteq Recovering
      /\ \A l \in TreeSteps : l \notin {"check", "rename", "fileClean"}
  BY DEF Labels, Outcomes, Locations, Slots, Recovering, TreeSteps
<1>e. UNCHANGED place => Elsewhere /\ NothingStowed BY DEF Elsewhere, NothingStowed
<1>f. NothingStowed => SlotsFit BY DEF NothingStowed, SlotsFit
<1>h. UNCHANGED jr => IntentsFit BY DEF IntentsFit
<1>s. ASSUME NEW o \in Outcomes, op' = Stopped(o), PlacesFit' PROVE Sided'
  BY <1>s, SidedStops
<1>g. ASSUME op'.pc \in TreeSteps, op'.at = op.at, op'.mode = op.mode, PlacesFit', Stable, Elsewhere,
             Due \in Recovering
      PROVE  Sided'
  <2>1. Due' = op'.pc BY <1>d, <1>g DEF Due
  <2> QED BY <1>d, <1>g, <2>1, SidedWork
<1>r. ASSUME NEW unit \in Publications, NEW continued, Record(unit, continued),
             Kind[op.at] = "directory", Stable, UNCHANGED <<root, place>>
      PROVE  /\ PlacesFit'
             /\ op' = continued \/ \E o \in Outcomes : op' = Stopped(o)
  <2>1. /\ jr'.phase = jr.phase /\ jr'.staged = jr.staged
        /\ \A v \in Units : v # op.at => jr'.unit[v] = jr.unit[v]
        /\ op' = continued \/ \E o \in Outcomes : op' = Stopped(o)
    BY <1>0, <1>r, ReceiptRecorded
  <2>2. "file" # "directory" OBVIOUS
  <2>3. IntentsFit BY <1>r, <2>1, <2>2 DEF IntentsFit
  <2> QED BY <1>r, <2>1, <2>3, FrameHere
<1> USE <1>0, <1>a, <1>d
<1>1. CASE StartTree
  <2>1. At("treeStart") /\ Stable /\ UNCHANGED <<place, root>> BY <1>1 DEF StartTree, Stable, bounds
  <2>2. Due \in Recovering /\ "treePrivate" \in TreeSteps /\ Kind[op.at] = "directory"
    BY <1>b, <2>1 DEF TreeSteps
  <2> DEFINE begun == [side |-> Side, cand |-> Here("target").id, restore |-> NoId]
             next == [op EXCEPT !.pc = "treePrivate", !.cur = Here("target")]
  <2>3. /\ next.pc = "treePrivate" /\ next.at = op.at /\ next.mode = op.mode
    BY DEF TypeOK, Operations
  <2>4. [Unit EXCEPT !.intent = begun] \in Publications
    BY HereType, UnitType DEF Publications, Intents, Side
  <2> HIDE DEF begun, next
  <2>5. UNCHANGED jr => PlacesFit' BY <1>h, <2>1, FrameHere
  <2>6. CASE op' = next /\ PlacesFit' BY <1>e, <1>g, <2>1, <2>2, <2>3, <2>6
  <2>7. CASE op' = Stopped("third_value") /\ UNCHANGED jr BY <1>s, <2>5, <2>7
  <2>8. CASE Record([Unit EXCEPT !.intent = begun], next)
    <3>1. PlacesFit' /\ (op' = next \/ \E o \in Outcomes : op' = Stopped(o))
      BY <1>r, <2>1, <2>2, <2>4, <2>8
    <3> QED BY <1>s, <2>6, <3>1
  <2>9. \/ op' = next /\ UNCHANGED jr
        \/ op' = Stopped("third_value") /\ UNCHANGED jr
        \/ Record([Unit EXCEPT !.intent = begun], next)
    BY <1>1 DEF StartTree, begun, next
  <2> QED BY <2>5, <2>6, <2>7, <2>8, <2>9
<1>2. CASE InspectTreeSlots
  <2>1. At("treePrivate") /\ Stable /\ UNCHANGED <<jr, root>> BY <1>2 DEF InspectTreeSlots, Stable, bounds
  <2>2. Due \in Recovering /\ jr.phase = "publishing" /\ "treeMove" \in TreeSteps
    BY <1>b, <2>1 DEF TreeSteps
  <2>3. NothingStowed => PlacesFit' BY <1>f, <1>h, <2>1, <2>2, FramePublishing
  <2>4. CASE op' = To("treeMove") /\ UNCHANGED place
    <3>1. op'.pc = "treeMove" /\ op'.at = op.at /\ op'.mode = op.mode BY <2>2, <2>4, OpTo
    <3> QED BY <1>e, <1>g, <2>1, <2>2, <2>3, <2>4, <3>1
  <2>5. CASE op' = Stopped("third_value") /\ UNCHANGED place BY <1>e, <1>s, <2>3, <2>5
  <2>6. ASSUME NEW l \in Locations, ReturnDisplaced(l) PROVE Sided'
    BY <1>s, <2>3, <2>6, Returned
  <2> QED BY <1>2, <2>4, <2>5, <2>6, InspectCases DEF InspectTreeSlots
<1>3. CASE MoveTree
  <2>1. At("treeMove") /\ Stable /\ UNCHANGED <<jr, root, place>> BY <1>3 DEF MoveTree, Stable, bounds
  <2>2. /\ Due \in Recovering /\ {"treeClean", "treePlace", "treeDisplaced"} \subseteq TreeSteps
        /\ OwnSlots(op.at) = {"original", "prepared", "quarantine"}
    BY <1>b, <2>1 DEF TreeSteps, OwnSlots
  <2>3. PlacesFit' BY <1>h, <2>1, FrameHere
  <2>4. CASE op' = Stopped("third_value") BY <1>s, <2>3, <2>4
  <2>5. CASE op' = To("treeClean") \/ op' = To("treePlace")
    <3>1. op'.pc \in {"treeClean", "treePlace"} /\ op'.at = op.at /\ op'.mode = op.mode
      BY <2>2, <2>5, OpTo
    <3> QED BY <1>e, <1>g, <2>1, <2>2, <2>3, <3>1
  <2>6. CASE op' = TakeAside(op.cur, "quarantine", "treeDisplaced")
    <3>1. op.cur \in Objects \cup {Vacant} BY DEF TypeOK, Operations
    <3>2. /\ op'.pc = "check" /\ op'.then = "treeDisplaced" /\ op'.at = op.at /\ op'.mode = op.mode
          /\ op'.to = "quarantine"
      BY <2>2, <2>6, <3>1, OpAside
    <3>3. Due' = "treeDisplaced" BY <3>2 DEF Due
    <3> QED BY <1>e, <2>1, <2>2, <2>3, <3>2, <3>3, SidedWork
  <2> QED BY <1>3, <2>4, <2>5, <2>6 DEF MoveTree
<1>4. CASE CheckDisplaced("treeDisplaced", "treePlace")
  <2>1. At("treeDisplaced") /\ Stable /\ UNCHANGED <<jr, root>> BY <1>4 DEF CheckDisplaced, Stable, bounds
  <2>2. Due \in Recovering /\ jr.phase = "publishing" /\ "treePlace" \in TreeSteps
    BY <1>b, <2>1 DEF TreeSteps
  <2>3. NothingStowed => PlacesFit' BY <1>f, <1>h, <2>1, <2>2, FramePublishing
  <2>4. CASE op' = To("treePlace") /\ UNCHANGED place
    <3>1. op'.pc = "treePlace" /\ op'.at = op.at /\ op'.mode = op.mode BY <2>2, <2>4, OpTo
    <3> QED BY <1>e, <1>g, <2>1, <2>2, <2>3, <2>4, <3>1
  <2>5. CASE ReturnDisplaced(op.to)
    <3>1. op.to \in Locations BY DEF TypeOK, Operations
    <3> QED BY <1>s, <2>3, <2>5, <3>1, Returned
  <2> QED BY <1>4, <2>4, <2>5 DEF CheckDisplaced
<1>5. CASE PlaceTree
  <2>1. At("treePlace") /\ Stable /\ UNCHANGED <<jr, root>> BY <1>5 DEF PlaceTree, Stable, bounds
  <2>2. Due \in Recovering /\ jr.phase = "publishing" /\ "treeConfirm" \in TreeSteps
    BY <1>b, <2>1 DEF TreeSteps
  <2>3. NothingStowed => PlacesFit' BY <1>f, <1>h, <2>1, <2>2, FramePublishing
  <2>4. CASE op' = To("treeConfirm") /\ Elsewhere /\ NothingStowed
    <3>1. op'.pc = "treeConfirm" /\ op'.at = op.at /\ op'.mode = op.mode BY <2>2, <2>4, OpTo
    <3> QED BY <1>g, <2>1, <2>2, <2>3, <2>4, <3>1
  <2>5. CASE op' = Stopped("io_failed") /\ NothingStowed BY <1>s, <2>3, <2>5
  <2>6. ASSUME NEW l \in Locations, PublishFrom(l, WantedId, "treeConfirm") PROVE Sided'
    BY <1>e, <2>4, <2>5, <2>6, Published
  <2> QED BY <1>5, <1>e, <2>4, <2>5, <2>6 DEF PlaceTree
<1>6. CASE ConfirmTree
  <2>1. At("treeConfirm") /\ Stable /\ UNCHANGED <<jr, root, place>> BY <1>6 DEF ConfirmTree, Stable, bounds
  <2>2. Due \in Recovering /\ "treeClean" \in TreeSteps BY <1>b, <2>1 DEF TreeSteps
  <2>3. PlacesFit' BY <1>h, <2>1, FrameHere
  <2>4. CASE op' = Stopped("third_value") BY <1>s, <2>3, <2>4
  <2>5. CASE op' = To("treeClean")
    <3>1. op'.pc = "treeClean" /\ op'.at = op.at /\ op'.mode = op.mode BY <2>2, <2>5, OpTo
    <3> QED BY <1>e, <1>g, <2>1, <2>2, <2>3, <3>1
  <2> QED BY <1>6, <2>4, <2>5 DEF ConfirmTree
<1>7. CASE Clean("treeClean", TreeOrder)
  <2>1. At("treeClean") /\ Stable /\ UNCHANGED root BY <1>7 DEF Clean, Stable, bounds
  <2>2. /\ Due \in Recovering /\ jr.phase = "publishing" /\ "treeClean" \in TreeSteps /\ Due = "treeClean"
        /\ Kind[op.at] = "directory" /\ OwnSlots(op.at) = {"original", "prepared", "quarantine"}
        /\ op.mode \in {"finalize", "recover"}
    BY <1>b, <2>1 DEF TreeSteps, OwnSlots
  <2>3. UNCHANGED jr /\ NothingStowed => PlacesFit' BY <1>f, <1>h, <2>1, <2>2, FramePublishing
  <2>4. op.at \notin past.touched =>
            IF committed THEN place[op.at]["target"].c = New[op.at]
            ELSE place[op.at]["target"].c = Old[op.at] /\ place[op.at]["target"] = past.first[op.at]
    <3>1. CASE op.at \notin past.touched /\ committed
      <4>1. Side = "new" BY <2>2, <3>1 DEF Side
      <4>2. place[op.at]["target"].c = Wanted BY <2>2, <3>1 DEF IInv, TreeFits, Spared
      <4> QED BY <3>1, <4>1, <4>2 DEF Wanted
    <3>2. CASE op.at \notin past.touched /\ ~committed
      <4>1. place[op.at]["target"] = past.first[op.at] BY <2>2, <3>2, Settles DEF Settled, Spared
      <4>2. past.first[op.at].c = Old[op.at] BY DEF IInv, First, Vacant
      <4> QED BY <3>2, <4>1, <4>2
    <3> QED BY <3>1, <3>2
  <2>5. CASE /\ UNCHANGED place /\ \A k \in DOMAIN TreeOrder : Here(TreeOrder[k]) = Vacant
             /\ \/ op' = UnitDone /\ UNCHANGED jr
                \/ Record([Unit EXCEPT !.intent = NoIntent], UnitDone)
    <3>1. [Unit EXCEPT !.intent = NoIntent] \in Publications BY DEF Publications, NoIntent, Intents
    <3>2. Emptied(op.at)
      <4>1. /\ 1 \in DOMAIN TreeOrder /\ TreeOrder[1] = "original"
            /\ 2 \in DOMAIN TreeOrder /\ TreeOrder[2] = "prepared"
            /\ 3 \in DOMAIN TreeOrder /\ TreeOrder[3] = "quarantine"
        BY DEF TreeOrder
      <4>2. Here("original") = Vacant /\ Here("prepared") = Vacant /\ Here("quarantine") = Vacant
        BY <2>5, <4>1
      <4>3. \A l \in Slots : l \notin OwnSlots(op.at) => place[op.at][l] = Vacant
        BY DEF Sided, PlacesFit, SlotsByKind
      <4> QED BY <2>2, <4>2, <4>3 DEF Emptied, Here
    <3>3. PlacesFit' /\ (op' = UnitDone \/ \E o \in Outcomes : op' = Stopped(o))
      <4>1. CASE op' = UnitDone /\ UNCHANGED jr BY <1>e, <2>3, <2>5, <4>1
      <4>2. CASE Record([Unit EXCEPT !.intent = NoIntent], UnitDone)
        BY <1>r, <2>1, <2>2, <2>5, <3>1, <4>2
      <4> QED BY <2>5, <4>1, <4>2
    <3>4. CASE op' = UnitDone
      BY <1>e, <2>1, <2>2, <2>4, <2>5, <3>2, <3>3, <3>4, SidedEnds DEF Emptied
    <3> QED BY <1>s, <3>3, <3>4
  <2>6. CASE op' = Stopped("third_value") /\ UNCHANGED <<place, jr>> BY <1>e, <1>s, <2>3, <2>6
  <2>7. ASSUME NEW l \in Slots, Put(u0, l, Vacant), UNCHANGED <<op, jr>> PROVE Sided'
    <3>1. Elsewhere /\ NothingStowed
      BY <2>7 DEF Put, TypeOK, Elsewhere, NothingStowed, Locations
    <3>2. op'.pc = "treeClean" /\ op'.at = op.at /\ op'.mode = op.mode BY <2>1, <2>7 DEF At
    <3> QED BY <1>g, <2>1, <2>2, <2>3, <2>7, <3>1, <3>2
  <2> QED BY <1>7, <2>5, <2>6, <2>7, CleanCases
<1> QED BY <1>1, <1>2, <1>3, <1>4, <1>5, <1>6, <1>7 DEF recoverDirectory

\* The two steps of a move from a public path.
LEMMA AsideSided ==
    ASSUME IInv, Sided, CheckIdentity \/ Rename, UNCHANGED plan
    PROVE  Sided'
<1>0. TypeOK /\ op.at \in Units /\ u0 = op.at /\ Intent = jr.unit[op.at].intent
  BY UnitType DEF IInv, u0
<1>1. /\ Stable /\ UNCHANGED <<jr, root>> /\ op.pc \in {"check", "rename"}
      /\ op.to \in OwnSlots(op.at) /\ IntentsFit
  BY DEF CheckIdentity, Rename, Stable, bounds, At, Sided, AsideFits, IntentsFit
<1>2. op.to \in Slots /\ "target" \notin Slots /\ Slots \subseteq Locations /\ "target" \in Locations
  BY <1>1 DEF OwnSlots, Slots, Locations
<1>3. /\ Due = op.then /\ op.then \in {"retained", "fileDisplaced", "treeDisplaced"}
      /\ Due = "retained" => op.mode = "execute"
      /\ Due # "fileDisplaced" => Kind[op.at] # "file"
      /\ jr.phase = "publishing"
  <2>1. Due = op.then /\ op.then \in {"retained", "fileDisplaced", "treeDisplaced"}
    BY <1>1 DEF Due, IInv, ModeFits
  <2>2. Due = "retained" => op.mode = "execute" /\ Kind[op.at] = "directory"
    BY DEF IInv, ModeFits, ForwardSteps, PublishingTree
  <2>3. Due = "treeDisplaced" => Kind[op.at] = "directory" BY DEF IInv, ModeFits, TreeSteps
  <2>4. Due \in Publishing BY <2>1 DEF Publishing, PublishingTree, FileSteps, TreeSteps
  <2> QED BY <2>1, <2>2, <2>3, <2>4 DEF IInv, PhaseFits
<1>4. Kind[op.at] = "file" => jr'.unit[op.at].intent # NoIntent
  <2>1. Due = "fileDisplaced" => Intent.side = Side
    BY DEF IInv, IntentFits, FileWork, FileSteps
  <2>2. "none" # Side BY DEF Side
  <2> QED BY <1>0, <1>1, <1>3, <2>1, <2>2 DEF NoIntent
<1>5. ASSUME PlacesFit', Elsewhere, NEW l \in {"rename", op.then}, op' = To(l) PROVE Sided'
  <2>0. l \in Labels BY <1>3, <1>5 DEF Labels, ForwardSteps, FileSteps, TreeSteps
  <2>1. op'.pc = l /\ op'.at = op.at /\ op'.mode = op.mode /\ op'.then = op.then /\ op'.to = op.to
    BY <1>0, <1>5, <2>0, OpTo
  <2>2. Due' = Due BY <1>3, <2>1 DEF Due
  <2>3. CASE Due = "retained" BY <1>1, <1>3, <1>5, <2>1, <2>2, <2>3, SidedForward DEF Preparing
  <2>4. CASE Due \in {"fileDisplaced", "treeDisplaced"}
    <3>1. Due \in Recovering BY <2>4 DEF Recovering, FileSteps, TreeSteps
    <3> QED BY <1>1, <1>5, <2>1, <2>2, <2>4, <3>1, SidedWork
  <2> QED BY <1>3, <2>3, <2>4
<1>6. CASE CheckIdentity
  <2>1. UNCHANGED place BY <1>6 DEF CheckIdentity
  <2>2. PlacesFit' BY <1>1, <2>1, FrameHere
  <2>3. CASE op' = To("rename") BY <1>5, <2>1, <2>2, <2>3 DEF Elsewhere
  <2>4. CASE op' = Stopped("io_failed") BY <2>2, <2>4, SidedStops DEF Outcomes
  <2> QED BY <1>6, <2>3, <2>4 DEF CheckIdentity
<1>7. CASE Rename
  <2>1. Elsewhere /\ SlotsFit
    <3>1. CASE UNCHANGED place BY <3>1 DEF Elsewhere, SlotsFit
    <3>2. CASE Move(op.at, "target", op.to)
      <4>1. /\ \A v \in Units : v # op.at => place'[v] = place[v]
            /\ \A l \in Slots : l # op.to => place'[op.at][l] = place[op.at][l]
        BY <1>0, <1>2, <3>2, MoveType
      <4>2. Stowed(op.at, op.to) BY <1>1, <1>3, <1>4 DEF Stowed
      <4> QED BY <4>1, <4>2 DEF Elsewhere, SlotsFit
    <3> QED BY <1>0, <1>7, <3>1, <3>2 DEF Rename
  <2>2. PlacesFit' BY <1>1, <1>3, <2>1, FramePublishing
  <2>3. CASE op' = To(op.then) BY <1>5, <2>1, <2>2, <2>3
  <2>4. CASE op' = Stopped("io_failed") BY <2>2, <2>4, SidedStops DEF Outcomes
  <2> QED BY <1>7, <2>3, <2>4 DEF Rename
<1> QED BY <1>6, <1>7

\* Steps of executePublications: the preparation fills prepared slots only.
LEMMA ForwardSided ==
    ASSUME IInv, Sided, Forward, UNCHANGED plan
    PROVE  Sided'
<1>0. TypeOK /\ TypeOK' BY ForwardType DEF IInv
<1>a. /\ op.at \in Units /\ u0 = op.at /\ Intent = jr.unit[op.at].intent /\ Unit = jr.unit[op.at]
      /\ Unit \in Publications
  BY <1>0, UnitType DEF u0
<1>b. \A l \in ForwardSteps : At(l) => Due = l /\ op.mode = "execute"
  BY DEF At, Due, ForwardSteps, IInv, ModeFits
<1>c. \A l \in Preparing : At(l) => root /\ jr.staged /\ jr.phase = "preparing"
  BY DEF At, Due, Preparing, IInv, PhaseFits, Sided, RootFits
<1>d. \A l \in PublishingTree \cup {"overwrite", "verify"} :
          At(l) => jr.phase = "publishing" /\ (l \in PublishingTree => Kind[op.at] = "directory")
  BY DEF At, Due, Publishing, PublishingTree, IInv, PhaseFits, ModeFits
<1>e. UNCHANGED place => NothingStowed BY DEF NothingStowed
<1>f. NothingStowed => SlotsFit BY DEF NothingStowed, SlotsFit
<1>h. UNCHANGED jr => IntentsFit BY DEF IntentsFit
<1>i. /\ ForwardSteps \subseteq Labels /\ {"io_failed", "third_value"} \subseteq Outcomes
      /\ {"target", "original", "prepared"} \subseteq Locations
      /\ PublishingTree \cup Preparing \cup {"receive", "verify", "commit"} \subseteq ForwardSteps
      /\ \A l \in ForwardSteps : l \notin {"check", "rename", "fileClean", "resolve"}
  BY DEF Labels, ForwardSteps, Outcomes, Locations, Slots, PublishingTree, Preparing
<1>s. ASSUME NEW o \in Outcomes, op' = Stopped(o), PlacesFit' PROVE Sided'
  BY <1>s, SidedStops
<1>g. ASSUME op'.pc \in ForwardSteps, op'.mode = "execute", PlacesFit',
             op'.pc \in {"receive"} \cup Preparing => root'
      PROVE  Sided'
  <2>1. Due' = op'.pc BY <1>i, <1>g DEF Due
  <2> QED BY <1>i, <1>g, <2>1, SidedForward
<1>r. ASSUME NEW unit \in Publications, unit.intent = Intent, NEW continued, Record(unit, continued),
             Stable, UNCHANGED <<root, place>>
      PROVE  /\ PlacesFit'
             /\ op' = continued \/ \E o \in Outcomes : op' = Stopped(o)
  <2>1. /\ jr'.phase = jr.phase /\ jr'.staged = jr.staged
        /\ \A v \in Units : v # op.at => jr'.unit[v] = jr.unit[v]
        /\ \/ jr'.unit[op.at] = unit /\ op' = continued
           \/ UNCHANGED jr /\ \E o \in Outcomes : op' = Stopped(o)
    BY <1>0, <1>r, ReceiptRecorded
  <2>2. \A v \in Units : jr'.unit[v].intent = jr.unit[v].intent BY <1>a, <1>r, <2>1
  <2>3. IntentsFit BY <2>2 DEF IntentsFit
  <2> QED BY <1>r, <2>1, <2>3, FrameHere
<1>p. op' = NextPrepared => /\ op'.pc \in {"prepare", "permit"} /\ op'.mode = op.mode
  <2>1. /\ To("prepare") \in Operations /\ To("prepare").pc = "prepare" /\ To("prepare").mode = op.mode
        /\ To("permit") \in Operations /\ To("permit").pc = "permit" /\ To("permit").mode = op.mode
    BY <1>0, OpTo DEF Labels, ForwardSteps
  <2> QED BY <2>1 DEF NextPrepared, Operations
<1> USE <1>0, <1>a, <1>i
<1>1. CASE CreateStaging
  <2>1. At("stage") /\ Stable /\ UNCHANGED <<jr, place>> BY <1>1 DEF CreateStaging, Stable, bounds
  <2>2. op.mode = "execute" BY <1>b, <2>1 DEF ForwardSteps
  <2>3. root => root' BY <1>1 DEF CreateStaging
  <2>4. PlacesFit' BY <1>e, <1>f, <1>h, <2>1, <2>3, Frame DEF Stable
  <2>5. CASE op' = To("receive") /\ root'
    <3>1. op'.pc = "receive" /\ op'.mode = op.mode BY <2>5, OpTo
    <3> QED BY <1>g, <2>2, <2>4, <2>5, <3>1
  <2>6. CASE op' = Stopped("io_failed") BY <1>s, <2>4, <2>6
  <2> QED BY <1>1, <2>5, <2>6 DEF CreateStaging
<1>2. CASE ReceiveStaging
  <2>1. At("receive") /\ Stable /\ UNCHANGED <<place, root>> BY <1>2 DEF ReceiveStaging, Stable, bounds
  <2>2. op.mode = "execute" /\ root
    BY <1>b, <2>1 DEF ForwardSteps, Sided, RootFits
  <2>3. /\ [jr EXCEPT !.staged = TRUE].phase = jr.phase /\ [jr EXCEPT !.staged = TRUE].unit = jr.unit
        /\ [jr EXCEPT !.staged = TRUE].staged = TRUE
    BY DEF TypeOK, JournalStates
  <2>4. /\ jr'.phase = jr.phase /\ jr'.unit = jr.unit /\ (jr.staged => jr'.staged)
        /\ op' = To("prepare") \/ \E o \in Outcomes : op' = Stopped(o)
    BY <1>2, <2>3 DEF ReceiveStaging, Persist, Outcomes
  <2>5. IntentsFit BY <2>4 DEF IntentsFit
  <2>6. PlacesFit' BY <1>e, <1>f, <2>1, <2>4, <2>5, Frame DEF Stable
  <2>7. CASE op' = To("prepare")
    <3>1. op'.pc = "prepare" /\ op'.mode = op.mode BY <2>7, OpTo DEF ForwardSteps
    <3> QED BY <1>g, <2>1, <2>2, <2>6, <3>1 DEF ForwardSteps
  <2> QED BY <1>s, <2>4, <2>6, <2>7
<1>3. CASE CreatePrepared
  <2>1. At("prepare") /\ Stable /\ UNCHANGED <<jr, root>> BY <1>3 DEF CreatePrepared, Stable, bounds
  <2>2. op.mode = "execute" /\ root /\ jr.staged /\ jr.phase = "preparing"
    BY <1>b, <1>c, <2>1 DEF ForwardSteps, Preparing
  <2>3. CASE op' = NextPrepared /\ UNCHANGED place
    <3>1. PlacesFit' BY <1>h, <2>1, <2>3, FrameHere
    <3> QED BY <1>g, <1>p, <2>1, <2>2, <2>3, <3>1 DEF ForwardSteps
  <2>4. ASSUME NEW o, Put(u0, "prepared", o), op' = To("identify"), Kind[u0] # "file" PROVE Sided'
    <3>1. /\ \A v \in Units : v # op.at => place'[v] = place[v]
          /\ \A l \in Locations : l # "prepared" => place'[op.at][l] = place[op.at][l]
      BY <2>4 DEF Put, TypeOK
    <3>2. Stowed(op.at, "prepared") BY <2>2, <2>4 DEF Stowed, OwnSlots
    <3>3. SlotsFit BY <3>1, <3>2 DEF SlotsFit, Locations
    <3>4. \A v \in Units : place'[v]["target"] = place[v]["target"] BY <3>1
    <3>5. PlacesFit' BY <1>h, <2>1, <3>3, <3>4, Frame DEF Stable
    <3>6. op'.pc = "identify" /\ op'.mode = op.mode BY <2>4, OpTo DEF ForwardSteps
    <3> QED BY <1>g, <2>1, <2>2, <3>5, <3>6 DEF ForwardSteps
  <2> QED BY <1>3, <2>3, <2>4 DEF CreatePrepared
<1>4. CASE IdentifyPrepared
  <2>1. At("identify") /\ Stable /\ UNCHANGED <<place, root>> BY <1>4 DEF IdentifyPrepared, Stable, bounds
  <2>2. op.mode = "execute" /\ root BY <1>b, <1>c, <2>1 DEF ForwardSteps, Preparing
  <2>3. /\ [Unit EXCEPT !.prepared = Here("prepared").id] \in Publications
        /\ [Unit EXCEPT !.prepared = Here("prepared").id].intent = Intent
    BY HereType DEF Publications
  <2>4. PlacesFit' /\ (op' = To("fill") \/ \E o \in Outcomes : op' = Stopped(o))
    BY <1>4, <1>r, <2>1, <2>3 DEF IdentifyPrepared
  <2>5. CASE op' = To("fill")
    <3>1. op'.pc = "fill" /\ op'.mode = op.mode BY <2>5, OpTo DEF ForwardSteps
    <3> QED BY <1>g, <2>1, <2>2, <2>4, <3>1 DEF ForwardSteps
  <2> QED BY <1>s, <2>4, <2>5
<1>5. CASE FillPrepared
  <2>1. At("fill") /\ Stable /\ UNCHANGED <<jr, root>> /\ op' = NextPrepared
    BY <1>5 DEF FillPrepared, Stable, bounds
  <2>2. op.mode = "execute" /\ root /\ Due = "fill" BY <1>b, <1>c, <2>1 DEF ForwardSteps, Preparing
  <2>3. place[op.at]["prepared"] # Vacant
    <3>1. Here("prepared").id # NoId BY <2>2 DEF IInv, PhaseFits
    <3> QED BY <3>1 DEF Here, Vacant
  <2>4. /\ \A v \in Units : v # op.at => place'[v] = place[v]
        /\ \A l \in Locations : l # "prepared" => place'[op.at][l] = place[op.at][l]
    BY <1>5 DEF FillPrepared, Put, TypeOK
  <2>5. SlotsFit BY <2>3, <2>4 DEF SlotsFit, Locations
  <2>6. \A v \in Units : place'[v]["target"] = place[v]["target"] BY <2>4
  <2>7. PlacesFit' BY <1>h, <2>1, <2>5, <2>6, Frame DEF Stable
  <2> QED BY <1>g, <1>p, <2>1, <2>2, <2>7 DEF ForwardSteps
<1>6. CASE PermitPublishing
  <2>1. At("permit") /\ Stable /\ UNCHANGED <<place, root>> BY <1>6 DEF PermitPublishing, Stable, bounds
  <2>2. op.mode = "execute" /\ jr.staged BY <1>b, <1>c, <2>1 DEF ForwardSteps, Preparing
  <2>3. /\ [jr EXCEPT !.phase = "publishing"].phase = "publishing"
        /\ [jr EXCEPT !.phase = "publishing"].staged = jr.staged
        /\ [jr EXCEPT !.phase = "publishing"].unit = jr.unit
    BY DEF TypeOK, JournalStates
  <2>4. /\ jr'.phase = jr.phase \/ jr'.phase = "publishing"
        /\ jr'.unit = jr.unit /\ jr'.staged = jr.staged
        /\ op' = StartAt(1) \/ \E o \in Outcomes : op' = Stopped(o)
    BY <1>6, <2>3 DEF PermitPublishing, Persist, Outcomes
  <2>5. IntentsFit BY <2>4 DEF IntentsFit
  <2>6. PlacesFit' BY <1>e, <1>f, <2>1, <2>2, <2>4, <2>5, Frame DEF Stable
  <2>7. CASE op' = StartAt(1)
    <3>1. 1 \in Units BY OneUnit
    <3>2. op'.pc \in {"overwrite", "fileStart", "capture", "treeStart"} /\ op'.mode = op.mode
      BY <2>7, <3>1, OpStart
    <3>3. Due' = op'.pc BY <3>2 DEF Due
    <3> QED BY <2>2, <2>6, <3>2, <3>3, SidedForward DEF Preparing
  <2> QED BY <1>s, <2>4, <2>6, <2>7
<1>7. CASE OverwriteFile
  <2>1. At("overwrite") /\ Stable /\ UNCHANGED <<jr, root>> /\ op' = UnitDone
    BY <1>7 DEF OverwriteFile, Stable, bounds
  <2>2. op.mode = "execute" /\ jr.phase = "publishing" BY <1>b, <1>d, <2>1 DEF ForwardSteps
  <2>3. NothingStowed
    BY <1>7 DEF OverwriteFile, Put, TypeOK, NothingStowed, Locations, Slots
  <2>4. PlacesFit' BY <1>f, <1>h, <2>1, <2>2, <2>3, FramePublishing
  <2> QED BY <2>1, <2>2, <2>4, SidedEnds
<1>8. CASE CaptureTree
  <2>1. At("capture") /\ Stable /\ UNCHANGED <<place, root>> BY <1>8 DEF CaptureTree, Stable, bounds
  <2>2. op.mode = "execute" /\ Kind[op.at] = "directory"
    BY <1>b, <1>d, <2>1 DEF ForwardSteps, PublishingTree
  <2> DEFINE current == Here("target")
             next == IF current = Vacant THEN To("publish")
                                         ELSE TakeAside(current, "original", "retained")
  <2>3. /\ [Unit EXCEPT !.oldTree = current] \in Publications
        /\ [Unit EXCEPT !.oldTree = current].intent = Intent
    BY HereType DEF Publications
  <2>4. /\ next.mode = "execute"
        /\ \/ next.pc = "publish"
           \/ next.pc = "check" /\ next.then = "retained" /\ next.to = "original" /\ next.at = op.at
    BY <2>2, HereType, OpTo, OpAside DEF ForwardSteps
  <2> HIDE DEF next
  <2>5. UNCHANGED jr => PlacesFit' BY <1>h, <2>1, FrameHere
  <2>6. CASE op' = next /\ PlacesFit'
    <3>1. "original" \in OwnSlots(op.at) BY <2>2 DEF OwnSlots
    <3>2. Due' \in {"publish", "retained"} BY <2>4, <2>6 DEF Due
    <3> QED BY <2>4, <2>6, <3>1, <3>2, SidedForward DEF Preparing
  <2>7. CASE op' = Stopped("third_value") /\ UNCHANGED jr BY <1>s, <2>5, <2>7
  <2>8. CASE Record([Unit EXCEPT !.oldTree = current], next)
    <3>1. PlacesFit' /\ (op' = next \/ \E o \in Outcomes : op' = Stopped(o))
      BY <1>r, <2>1, <2>3, <2>8
    <3> QED BY <1>s, <2>6, <3>1
  <2>9. \/ op' = next /\ UNCHANGED jr
        \/ op' = Stopped("third_value") /\ UNCHANGED jr
        \/ Record([Unit EXCEPT !.oldTree = current], next)
    BY <1>8 DEF CaptureTree, next
  <2> QED BY <2>5, <2>6, <2>7, <2>8, <2>9
<1>9. CASE CheckRetained
  <2>1. At("retained") /\ Stable /\ UNCHANGED root BY <1>9 DEF CheckRetained, Stable, bounds
  <2>2. op.mode = "execute" /\ jr.phase = "publishing"
    BY <1>b, <1>d, <2>1 DEF ForwardSteps, PublishingTree
  <2>3. UNCHANGED jr /\ NothingStowed => PlacesFit' BY <1>f, <1>h, <2>1, <2>2, FramePublishing
  <2>4. CASE op' = To("publish") /\ PlacesFit'
    <3>1. op'.pc = "publish" /\ op'.mode = op.mode BY <2>4, OpTo DEF ForwardSteps
    <3> QED BY <1>g, <2>2, <2>4, <3>1 DEF ForwardSteps, Preparing
  <2>5. CASE Record([Unit EXCEPT !.oldTree = Here("original")], To("publish")) /\ UNCHANGED place
    <3>1. /\ [Unit EXCEPT !.oldTree = Here("original")] \in Publications
          /\ [Unit EXCEPT !.oldTree = Here("original")].intent = Intent
      BY HereType DEF Publications
    <3>2. PlacesFit' /\ (op' = To("publish") \/ \E o \in Outcomes : op' = Stopped(o))
      BY <1>r, <2>1, <2>5, <3>1
    <3> QED BY <1>s, <2>4, <3>2
  <2>6. CASE ReturnDisplaced("original") /\ UNCHANGED jr BY <1>s, <2>3, <2>6, Returned
  <2> QED BY <1>9, <1>e, <2>3, <2>4, <2>5, <2>6 DEF CheckRetained
<1>10. CASE PublishTree
  <2>1. At("publish") /\ Stable /\ UNCHANGED <<jr, root>> BY <1>10 DEF PublishTree, Stable, bounds
  <2>2. op.mode = "execute" /\ jr.phase = "publishing"
    BY <1>b, <1>d, <2>1 DEF ForwardSteps, PublishingTree
  <2>3. NothingStowed => PlacesFit' BY <1>f, <1>h, <2>1, <2>2, FramePublishing
  <2>4. CASE op' = To("compare") /\ NothingStowed
    <3>1. op'.pc = "compare" /\ op'.mode = op.mode BY <2>4, OpTo DEF ForwardSteps
    <3> QED BY <1>g, <2>2, <2>3, <2>4, <3>1 DEF ForwardSteps, Preparing
  <2>5. CASE op' = Stopped("io_failed") /\ NothingStowed BY <1>s, <2>3, <2>5
  <2>6. CASE PublishFrom("prepared", Unit.prepared, "compare") BY <2>4, <2>5, <2>6, Published
  <2> QED BY <1>10, <1>e, <2>4, <2>5, <2>6 DEF PublishTree
<1>11. CASE CompareTree
  <2>1. At("compare") /\ Stable /\ UNCHANGED <<jr, root, place>> BY <1>11 DEF CompareTree, Stable, bounds
  <2>2. op.mode = "execute" BY <1>b, <2>1 DEF ForwardSteps
  <2>3. PlacesFit' BY <1>h, <2>1, FrameHere
  <2>4. CASE op' = UnitDone BY <2>1, <2>2, <2>3, <2>4, SidedEnds
  <2>5. CASE op' = Stopped("io_failed") BY <1>s, <2>3, <2>5
  <2> QED BY <1>11, <2>4, <2>5 DEF CompareTree
<1>12. CASE Verify
  <2>1. At("verify") /\ Stable /\ UNCHANGED <<jr, root, place>> BY <1>12 DEF Verify, Stable, bounds
  <2>2. op.mode = "execute" BY <1>b, <2>1 DEF ForwardSteps
  <2>3. PlacesFit' BY <1>h, <2>1, FrameHere
  <2>4. CASE op' = Stopped("io_failed") BY <1>s, <2>3, <2>4
  <2>5. CASE op' = To("commit")
    <3>1. op'.pc = "commit" /\ op'.mode = op.mode BY <2>5, OpTo DEF ForwardSteps
    <3> QED BY <1>g, <2>2, <2>3, <3>1 DEF ForwardSteps, Preparing
  <2>6. CASE op' = [op EXCEPT !.at = u0 + 1]
    <3>1. op'.pc = "verify" /\ op'.mode = op.mode BY <2>1, <2>6 DEF TypeOK, Operations, At
    <3> QED BY <1>g, <2>2, <2>3, <3>1 DEF ForwardSteps, Preparing
  <2> QED BY <1>12, <2>4, <2>5, <2>6 DEF Verify
<1>13. CASE Commit
  <2>1. UNCHANGED <<place, root, jr, past>> BY <1>13 DEF Commit, bounds
  <2>2. PlacesFit' BY <2>1 DEF Sided, PlacesFit, SlotsByKind, Untouched, IntentsEnd, Emptied
  <2>3. op'.pc = "begin" BY <1>13 DEF Commit, Idle
  <2>4. Due' = "begin" BY <2>3 DEF Due
  <2> QED BY <2>2, <2>3, <2>4 DEF Sided, DoneFits, Done, RootFits, ReachedFits, AsideFits,
                                  Preparing, Recovering, FileSteps, TreeSteps
<1> QED BY <1>1, <1>2, <1>3, <1>4, <1>5, <1>6, <1>7, <1>8, <1>9, <1>10, <1>11, <1>12, <1>13 DEF Forward

\* Before the permission the public paths are on the old side.
LEMMA PreparingRight ==
    ASSUME IInv, Sided, jr.phase = "preparing", NEW u \in Units, u \notin past.touched
    PROVE  Right(u)
<1>1. place[u]["target"] = past.first[u] BY DEF Sided, PlacesFit, Untouched
<1>2. past.first[u].c = Old[u] BY DEF IInv, First, Vacant
<1>3. ~committed BY DEF IInv, PhaseFits
<1> QED BY <1>1, <1>2, <1>3 DEF Right

\* A step of the program around the publications.
LEMMA SidedBetween ==
    ASSUME IInv, Sided, PlacesFit', Stable,
           op'.pc \in {"begin", "unprepare", "unstage", "resolve", "fileStart", "treeStart"},
           op'.pc \in {"fileStart", "treeStart"} => op'.at = N,
           \A v \in Units : place'[v]["target"] = place[v]["target"],
           op'.pc \in {"unstage", "resolve"} => \A v \in Units :
              Emptied(v)' /\ (v \notin past.touched => Right(v)),
           op'.pc = "resolve" /\ jr'.staged => ~root'
    PROVE  Sided'
<1>1. Due' = op'.pc BY DEF Due
<1>2. RootFits' /\ ReachedFits' /\ AsideFits'
  BY <1>1 DEF RootFits, ReachedFits, AsideFits, Preparing
<1>3. ASSUME NEW v \in Units, Done(v)' PROVE Emptied(v)' /\ (v \notin past'.touched => Right(v)')
  <2>1. op'.pc \in {"fileStart", "treeStart"} => ~(v > op'.at) BY OneUnit DEF Units
  <2>2. op'.pc \in {"unstage", "resolve"}
    BY <1>1, <1>3, <2>1 DEF Done, Recovering, FileSteps, TreeSteps
  <2> QED BY <2>2 DEF Right, Stable, New, Old
<1> QED BY <1>2, <1>3 DEF Sided, DoneFits

LEMMA BetweenSided ==
    ASSUME IInv, Sided, UNCHANGED plan, Recover \/ Begin \/ Unprepare \/ Unstage \/ Resolve
    PROVE  Sided'
<1>0. TypeOK /\ TypeOK' BY BetweenType DEF IInv
<1>e. UNCHANGED place => NothingStowed /\ \A v \in Units : place'[v]["target"] = place[v]["target"]
  BY DEF NothingStowed
<1>f. NothingStowed => SlotsFit BY DEF NothingStowed, SlotsFit
<1>h. UNCHANGED jr => IntentsFit BY DEF IntentsFit
<1>i. {"begin", "unprepare", "unstage", "resolve"} \subseteq Labels /\ {"io_failed", "third_value"} \subseteq Outcomes
  BY DEF Labels, Outcomes
<1>s. ASSUME NEW o \in Outcomes, op' = Stopped(o), PlacesFit' PROVE Sided'
  BY <1>s, SidedStops
<1> USE <1>0, <1>i
<1>1. CASE Recover
  <2>1. Stable /\ UNCHANGED <<jr, place, root>> BY <1>1 DEF Recover, Stable, bounds
  <2>2. PlacesFit' BY <1>h, <2>1, FrameHere
  <2>3. op'.pc = "begin" BY <1>1 DEF Recover, Idle
  <2> QED BY <1>e, <2>1, <2>2, <2>3, SidedBetween
<1>2. CASE Begin
  <2>1. At("begin") /\ Stable /\ UNCHANGED <<jr, place, root>> BY <1>2 DEF Begin, Stable, bounds
  <2>2. PlacesFit' BY <1>h, <2>1, FrameHere
  <2>3. CASE op' = Stopped("io_failed") BY <1>s, <2>2, <2>3
  <2>4. CASE op' = StartAt(N)
    <3>1. op'.pc = StartOf(N, op.mode) /\ op'.at = N BY <2>4, OneUnit, OpStart
    <3>2. op.mode \in {"finalize", "recover"} BY <2>1 DEF At, Due, IInv, ModeFits
    <3>3. op'.pc \in {"fileStart", "treeStart"} BY <3>1, <3>2 DEF StartOf
    <3> QED BY <1>e, <2>1, <2>2, <3>1, <3>3, SidedBetween
  <2>5. CASE op' = To("unprepare")
    <3>1. op'.pc = "unprepare" BY <2>5, OpTo
    <3> QED BY <1>e, <2>1, <2>2, <3>1, SidedBetween
  <2>6. CASE op' = To("resolve") /\ jr.phase = "preparing" /\ (~jr.staged \/ ~root)
    <3>1. op'.pc = "resolve" BY <2>6, OpTo
    <3>2. \A v \in Units : Emptied(v) BY <2>6 DEF Sided, PlacesFit, Untouched
    <3>3. \A v \in Units : Emptied(v)' BY <2>1, <3>2 DEF Emptied
    <3>4. \A v \in Units : v \notin past.touched => Right(v) BY <2>6, PreparingRight
    <3> QED BY <1>e, <2>1, <2>2, <2>6, <3>1, <3>3, <3>4, SidedBetween
  <2>7. jr.phase \in {"preparing", "publishing"} BY DEF TypeOK, JournalStates
  <2> QED BY <1>2, <2>3, <2>4, <2>5, <2>6, <2>7 DEF Begin
<1>3. CASE Unprepare
  <2> DEFINE full == {v \in Units : place[v]["prepared"] # Vacant}
             u == CHOOSE v \in full : \A w \in full : v <= w
  <2>1. At("unprepare") /\ Stable /\ UNCHANGED <<jr, root>> BY <1>3 DEF Unprepare, Stable, bounds
  <2>2. jr.phase = "preparing" BY <2>1 DEF At, Due, IInv, PhaseFits
  <2>3. UNCHANGED place => PlacesFit' BY <1>h, <2>1, FrameHere
  <2>4. CASE op' = To("unstage") /\ UNCHANGED place /\ full = {}
    <3>1. op'.pc = "unstage" BY <2>4, OpTo
    <3>2. ASSUME NEW v \in Units PROVE Emptied(v)
      <4>1. place[v]["prepared"] = Vacant BY <2>4
      <4>2. \A l \in Slots : l # "prepared" => place[v][l] = Vacant
        BY <2>2 DEF Sided, PlacesFit, Untouched
      <4> QED BY <4>1, <4>2 DEF Emptied
    <3>3. \A v \in Units : Emptied(v)' BY <2>4, <3>2 DEF Emptied
    <3>4. \A v \in Units : v \notin past.touched => Right(v) BY <2>2, PreparingRight
    <3> QED BY <1>e, <2>1, <2>3, <2>4, <3>1, <3>3, <3>4, SidedBetween
  <2>5. CASE op' = Stopped("third_value") /\ UNCHANGED place BY <1>s, <2>3, <2>5
  <2>6. ASSUME NEW v \in Units, Put(v, "prepared", Vacant), UNCHANGED op PROVE Sided'
    <3>1. NothingStowed /\ \A w \in Units : place'[w]["target"] = place[w]["target"]
      BY <2>6 DEF Put, TypeOK, NothingStowed, Locations, Slots
    <3>2. PlacesFit' BY <1>f, <1>h, <2>1, <3>1, Frame DEF Stable
    <3>3. op'.pc = "unprepare" BY <2>1, <2>6 DEF At
    <3> QED BY <2>1, <3>1, <3>2, <3>3, SidedBetween
  <2>7. CASE full # {} /\ Put(u, "prepared", Vacant) /\ UNCHANGED op
    <3>1. u \in Units BY <2>7, FirstUnit
    <3> HIDE DEF u
    <3> QED BY <2>6, <2>7, <3>1
  <2> QED BY <1>3, <2>4, <2>5, <2>7 DEF Unprepare
<1>4. CASE Unstage
  <2>1. At("unstage") /\ Stable /\ UNCHANGED <<jr, place>> BY <1>4 DEF Unstage, Stable, bounds
  <2>2. \A v \in Units : Emptied(v) /\ (v \notin past.touched => Right(v))
    <3>1. Due = "unstage" /\ op.mode \in {"finalize", "recover"} BY <2>1 DEF At, Due, IInv, ModeFits
    <3> QED BY <3>1 DEF Sided, DoneFits, Done
  <2>3. \A v \in Units : Emptied(v)' BY <2>1, <2>2 DEF Emptied
  <2>4. PlacesFit' BY <1>e, <1>f, <1>h, <2>1, <2>3, Frame DEF Stable
  <2>5. CASE op' = Stopped("io_failed") BY <1>s, <2>4, <2>5
  <2>6. CASE op' = To("resolve") /\ root' = FALSE
    <3>1. op'.pc = "resolve" BY <2>6, OpTo
    <3> QED BY <1>e, <2>1, <2>2, <2>3, <2>4, <2>6, <3>1, SidedBetween
  <2> QED BY <1>4, <2>5, <2>6 DEF Unstage
<1>5. CASE Resolve
  <2>1. op' = Idle /\ UNCHANGED <<place, root, jr, past>> BY <1>5 DEF Resolve, bounds
  <2>2. PlacesFit' BY <2>1 DEF Sided, PlacesFit, SlotsByKind, Untouched, IntentsEnd, Emptied
  <2>3. op' = Stopped("none") BY <2>1 DEF Stopped, Idle
  <2> QED BY <2>2, <2>3, SidedStops DEF Outcomes
<1> QED BY <1>1, <1>2, <1>3, <1>4, <1>5

-----------------------------------------------------------------------------
LEMMA DeathSided ==
    ASSUME IInv, Sided, UNCHANGED plan, Die \/ DieCreating \/ DieCleaning
    PROVE  Sided'
<1>0. TypeOK /\ op.at \in Units /\ u0 = op.at /\ "dead" \in Outcomes
  BY UnitType DEF IInv, u0, Outcomes
<1>1. Stable /\ UNCHANGED <<jr, root>> /\ op' = Stopped("dead") /\ IntentsFit
  BY DEF Die, DieCreating, DieCleaning, DieRemoving, Stable, IntentsFit
<1>2. CASE Die
  <2>1. UNCHANGED place BY <1>2 DEF Die
  <2>2. PlacesFit' BY <1>1, <2>1, FrameHere
  <2> QED BY <1>0, <1>1, <2>2, SidedStops
<1>3. CASE DieCreating
  <2>1. Due = "create" /\ jr.phase = "publishing" /\ Kind[op.at] = "file" /\ jr.unit[op.at].intent # NoIntent
    <3>1. Due = "create" BY <1>3 DEF DieCreating, At, Due
    <3>2. Due \in FileWork /\ Due \in FileSteps /\ Due \in Publishing
      BY <3>1 DEF FileWork, FileSteps, Publishing
    <3>3. Intent.side = Side BY <3>2 DEF IInv, IntentFits
    <3>4. "none" # Side BY DEF Side
    <3> QED BY <1>0, <3>1, <3>2, <3>3, <3>4, UnitType DEF IInv, PhaseFits, ModeFits, NoIntent
  <2>2. \/ UNCHANGED place
        \/ \E o : Put(op.at, "restoration", o)
    BY <1>0, <1>3 DEF DieCreating
  <2>3. /\ \A v \in Units : v # op.at => place'[v] = place[v]
        /\ \A l \in Locations : l # "restoration" => place'[op.at][l] = place[op.at][l]
    <3>1. ASSUME NEW o, Put(op.at, "restoration", o)
          PROVE  /\ \A v \in Units : v # op.at => place'[v] = place[v]
                 /\ \A l \in Locations : l # "restoration" => place'[op.at][l] = place[op.at][l]
      BY <1>0, <3>1 DEF Put, TypeOK
    <3> QED BY <2>2, <3>1
  <2>4. Stowed(op.at, "restoration") BY <1>1, <2>1 DEF Stowed, OwnSlots
  <2>5. SlotsFit BY <2>3, <2>4 DEF SlotsFit, Locations
  <2>6. PlacesFit' BY <1>1, <2>1, <2>5, FramePublishing
  <2> QED BY <1>0, <1>1, <2>6, SidedStops
<1>4. CASE DieCleaning
  <2>1. ASSUME NEW u \in Units, NEW l \in Slots, DieRemoving(u, l), place[u][l] # Vacant PROVE Sided'
    <3>1. l # "target" BY DEF Slots
    <3>2. /\ \A v \in Units : v # u => place'[v] = place[v]
          /\ \A m \in Locations : m # l => place'[u][m] = place[u][m]
      BY <1>0, <2>1 DEF DieRemoving, Put, TypeOK
    <3>3. SlotsFit BY <2>1, <3>2 DEF SlotsFit, Locations
    <3>4. \A v \in Units : place'[v]["target"] = place[v]["target"] BY <3>1, <3>2 DEF Locations
    <3>5. PlacesFit' BY <1>1, <3>3, <3>4, Frame DEF Stable
    <3> QED BY <1>0, <1>1, <3>5, SidedStops
  <2>2. {"original", "prepared", "quarantine"} \subseteq Slots BY DEF Slots
  <2> QED BY <1>0, <1>4, <2>1, <2>2 DEF DieCleaning, Here
<1> QED BY <1>2, <1>3, <1>4

LEMMA EditSided ==
    ASSUME IInv, Sided, UNCHANGED plan, NEW u \in Units, UserEdit(u)
    PROVE  Sided'
<1>0. TypeOK BY DEF IInv
<1>1. /\ UNCHANGED <<jr, marker, committed, op, root>> /\ past'.first = past.first
      /\ past'.touched = past.touched \cup {u}
  BY <1>0 DEF UserEdit, TypeOK
<1>2. /\ \A v \in Units : v # u => place'[v] = place[v]
      /\ \A v \in Units, l \in Slots : place'[v][l] = place[v][l]
  <2>1. "target" \notin Slots BY DEF Slots
  <2>2. \E o : Put(u, "target", o) BY DEF UserEdit
  <2> QED BY <1>0, <2>1, <2>2 DEF Put, TypeOK, Locations
<1>3. SlotsFit /\ IntentsFit BY <1>1, <1>2 DEF SlotsFit, IntentsFit
<1>4. \A v \in Units : v \notin past'.touched => v \notin past.touched /\ place'[v] = place[v]
  BY <1>1, <1>2
<1>5. PlacesFit' BY <1>1, <1>3, <1>4, Frame
<1>6. Due' = Due /\ Wanted' = Wanted
  BY <1>1 DEF Due, Wanted, OldContent, u0, New, Old, Side
<1>7. DoneFits'
  <2>1. ASSUME NEW v \in Units, Done(v)' PROVE Emptied(v)' /\ (v \notin past'.touched => Right(v)')
    <3>1. Done(v) BY <1>1, <1>6, <2>1 DEF Done
    <3>2. Emptied(v) /\ (v \notin past.touched => Right(v)) BY <3>1 DEF Sided, DoneFits
    <3>3. Emptied(v)' BY <1>2, <3>2 DEF Emptied
    <3> QED BY <1>1, <1>4, <3>2, <3>3 DEF Right, New, Old
  <2> QED BY <2>1 DEF DoneFits
<1>8. RootFits' /\ AsideFits' BY <1>1, <1>6 DEF Sided, RootFits, AsideFits, OwnSlots
<1>9. ReachedFits'
  <2>1. op.at \in Units BY <1>0, UnitType
  <2> QED BY <1>1, <1>4, <1>6, <2>1 DEF Sided, ReachedFits
<1> QED BY <1>5, <1>7, <1>8, <1>9 DEF Sided

LEMMA BeginsSided == Init => Sided
<1> SUFFICES ASSUME Init PROVE Sided OBVIOUS
<1>1. \A u \in Units : Emptied(u) /\ place[u]["target"] = past.first[u]
  <2>1. "target" \notin Slots /\ Slots \subseteq Locations /\ "target" \in Locations
    BY DEF Slots, Locations
  <2> QED BY <2>1 DEF Init, Emptied
<1>2. jr.phase = "preparing" BY DEF Init
<1>3. PlacesFit
  <2>1. SlotsByKind BY <1>1 DEF SlotsByKind, Emptied
  <2>2. Untouched BY <1>1 DEF Untouched, Emptied
  <2>3. IntentsEnd BY <1>1 DEF IntentsEnd
  <2> QED BY <1>2, <2>1, <2>2, <2>3 DEF PlacesFit
<1>4. op.pc = "stage" /\ op.mode = "execute" BY DEF Init, Idle
<1>5. Due = "stage" BY <1>4 DEF Due
<1> QED BY <1>3, <1>4, <1>5 DEF Sided, DoneFits, Done, RootFits, ReachedFits, AsideFits, Preparing

LEMMA KeepsSided == IInv /\ Sided /\ [Next]_vars => Sided'
<1> SUFFICES ASSUME IInv, Sided, [Next]_vars PROVE Sided' OBVIOUS
<1>1. CASE UNCHANGED vars
  <2>1. UNCHANGED <<plan, place, root, jr, committed, op, past>> BY <1>1 DEF vars
  <2>2. Due' = Due /\ Wanted' = Wanted
    BY <2>1 DEF Due, Side, Wanted, OldContent, u0, New, Old
  <2>3. PlacesFit' BY <2>1 DEF Sided, PlacesFit, SlotsByKind, Untouched, IntentsEnd, Emptied
  <2>4. \A u \in Units : /\ Done(u)' <=> Done(u)
                         /\ Emptied(u)' <=> Emptied(u)
                         /\ Right(u)' <=> Right(u)
    BY <2>1, <2>2 DEF Done, Emptied, Right, New, Old
  <2>5. DoneFits' BY <2>1, <2>4 DEF Sided, DoneFits
  <2>6. RootFits' /\ ReachedFits' /\ AsideFits'
    BY <2>1, <2>2 DEF Sided, RootFits, ReachedFits, AsideFits, OwnSlots
  <2> QED BY <2>3, <2>5, <2>6 DEF Sided
<1>2. CASE Next
  BY <1>2, ForwardSided, FileSided, TreeSided, AsideSided, BetweenSided, DeathSided, EditSided DEF Next, Step
<1> QED BY <1>1, <1>2

\* Only resolveJournal removes the marker, after the last publication and the
\* staging root.
LEMMA ResolvesRight ==
    ASSUME IInv, Sided, [Next]_vars, marker = "active", marker' = "gone"
    PROVE  \A u \in Units :
              /\ Emptied(u)
              /\ jr.staged => ~root
              /\ u \notin past.touched => Right(u)
<1>1. At("resolve")
  <2>1. ~(UNCHANGED marker) OBVIOUS
  <2>2. Next BY <2>1 DEF vars
  <2>3. CASE Forward
    BY <2>1, <2>3 DEF Forward, CreateStaging, ReceiveStaging, CreatePrepared, IdentifyPrepared, FillPrepared,
       PermitPublishing, OverwriteFile, CaptureTree, CheckRetained, PublishTree, CompareTree, Verify, Commit
  <2>4. CASE recoverFile
    BY <2>1, <2>4 DEF recoverFile, StartFile, ScrubRestoration, InspectFileSlots, InspectFile,
       CreateRestoration, ReceiptRestoration, Displace, CheckDisplaced, PlaceFile, ConfirmFile, Clean
  <2>5. CASE recoverDirectory
    BY <2>1, <2>5 DEF recoverDirectory, StartTree, InspectTreeSlots, MoveTree, CheckDisplaced, PlaceTree,
       ConfirmTree, Clean
  <2>6. CASE CheckIdentity \/ Rename \/ Begin \/ Unprepare \/ Unstage \/ Recover
    BY <2>1, <2>6 DEF CheckIdentity, Rename, Begin, Unprepare, Unstage, Recover
  <2>7. CASE Die \/ DieCreating \/ DieCleaning \/ \E u \in Units : UserEdit(u)
    BY <2>1, <2>7 DEF Die, DieCreating, DieCleaning, DieRemoving, UserEdit
  <2>8. CASE Resolve BY <2>8 DEF Resolve
  <2> QED BY <2>2, <2>3, <2>4, <2>5, <2>6, <2>7, <2>8 DEF Next, Step
<1>2. Due = "resolve" /\ op.mode \in {"finalize", "recover"} BY <1>1 DEF At, Due, IInv, ModeFits
<1>3. \A u \in Units : Done(u) BY <1>2 DEF Done
<1> QED BY <1>2, <1>3 DEF Sided, DoneFits, RootFits

\* When removeEmptyPublicationStaging and the resolution are through, whoever
\* ran them, after any deaths and edits, every publication the user left alone
\* is on the side of the commit pointer and the private slots are empty.
THEOREM ResolvesToOneSide == Spec => ResolvedToOneSide
<1>1. Spec => []Sided
  <2>1. IInv /\ Sided /\ [Next]_vars => Sided' BY KeepsSided
  <2> QED BY <2>1, BeginsSided, Invariance, PTL DEF Spec
<1>2. IInv /\ Sided /\ [Next]_vars =>
        (marker = "active" /\ marker' = "gone" =>
          \A u \in Units :
            /\ \A l \in Slots : place[u][l] = Vacant
            /\ jr.staged => ~root
            /\ u \notin past.touched =>
                IF committed THEN place[u]["target"].c = New[u]
                ELSE /\ place[u]["target"].c = Old[u]
                     /\ Kind[u] = "directory" => place[u]["target"] = past.first[u])
  BY ResolvesRight DEF Emptied, Right
<1> QED BY <1>1, <1>2, Invariance, PTL DEF Spec, ResolvedToOneSide

-----------------------------------------------------------------------------
(* The bytes the user wrote.                                                *)

UserBytes == {Edited[k] : k \in 1 .. MaxEdits}
Theirs(u, l) == place[u][l].c \in UserBytes

\* What an edit wrote is in one place: nothing in the program copies it.
OneCopy ==
    /\ \A u, v \in Units, l, m \in Locations :
          Theirs(u, l) /\ place[v][m].c = place[u][l].c => u = v /\ l = m
    /\ \A u \in Units, l \in Locations, k \in 1 .. MaxEdits : place[u][l].c = Edited[k] => k <= edits

\* Before the permission no private slot has any of it; a restoration slot has
\* only while the journal knows its identity; an old tree of which the user
\* wrote the bytes is one of a complete replacement.
PrivateFits ==
    /\ jr.phase = "preparing" => \A u \in Units, l \in Slots : ~Theirs(u, l)
    /\ \A u \in Units : Theirs(u, "restoration") => jr.unit[u].intent.restore # NoId
    /\ \A u \in Units : jr.unit[u].oldTree.c \in UserBytes => Complete[u]

\* What the operation is about to move or to remove.
Careful == {"check", "rename", "treePrivate", "treeMove", "treeClean", "overwrite"}
SpareFits ==
    /\ op.pc \in {"check", "rename"} /\ op.to = "restoration" => Intent.restore # NoId
    /\ op.pc \in {"treePrivate", "treeMove"} =>
          \A l \in Slots : place[op.at][l].c = op.cur.c => ~Theirs(op.at, l)
    /\ op.pc = "treeClean" /\ Side = "old" =>
          \A l \in Slots : place[op.at][l].c = Wanted => ~Theirs(op.at, l)
    /\ op.pc = "overwrite" => Complete[op.at]

BytesFit == OneCopy /\ PrivateFits /\ SpareFits

\* The exceptions of UserBytesKept; what a step may overwrite or remove.
GivenUp(u) == Complete[u] /\ (Kind[u] = "file" \/ committed)
BytesStay ==
    \A u \in Units, l \in Locations :
        Theirs(u, l) /\ (\A m \in Locations : place'[u][m] # place[u][l]) => GivenUp(u)

LEMMA BytesApart ==
    ASSUME TypeOK
    PROVE  /\ Absent \notin UserBytes /\ Torn \notin UserBytes /\ Vacant.c \notin UserBytes
           /\ \A u \in Units : Old[u] \notin UserBytes /\ New[u] \notin UserBytes
<1>1. UserBytes \subseteq Bytes BY LimitsAssumption DEF UserBytes
<1>2. \A u \in Units, k \in 1 .. MaxEdits : Edited[k] \notin {plan.old[u], plan.new[u]}
  BY EditsAssumption DEF TypeOK
<1> QED BY <1>1, <1>2, PublicationAssumption DEF UserBytes, Old, New, Vacant

\* A rename carries the bytes along.
LEMMA MoveCarries ==
    ASSUME TypeOK, OneCopy, edits' = edits, NEW a \in Locations, NEW b \in Locations, a # b,
           place[op.at][b] = Vacant, Move(op.at, a, b)
    PROVE  /\ OneCopy' /\ BytesStay
           /\ \A u \in Units, l \in Locations :
                 Theirs(u, l)' => place'[u][l] = place[u][l] \/ (u = op.at /\ l = b)
<1>0. op.at \in Units /\ Vacant.c \notin UserBytes BY UnitType, BytesApart
<1>1. /\ place'[op.at][b] = place[op.at][a] /\ place'[op.at][a] = Vacant
      /\ \A l \in Locations : l # a /\ l # b => place'[op.at][l] = place[op.at][l]
      /\ \A v \in Units : v # op.at => place'[v] = place[v]
  BY <1>0, MoveType
<1>2. ASSUME NEW u \in Units, NEW l \in Locations, Theirs(u, l)'
      PROVE  \/ l # a /\ place'[u][l] = place[u][l]
             \/ u # op.at /\ place'[u][l] = place[u][l]
             \/ u = op.at /\ l = b /\ place'[u][l] = place[u][a]
  BY <1>0, <1>1, <1>2 DEF Theirs
<1>3. OneCopy'
  <2>1. ASSUME NEW u \in Units, NEW v \in Units, NEW l \in Locations, NEW m \in Locations,
               Theirs(u, l)', place'[v][m].c = place'[u][l].c
        PROVE  u = v /\ l = m
    <3>1. Theirs(v, m)' BY <2>1 DEF Theirs
    <3>2. ASSUME NEW w \in Units, NEW n \in Locations, Theirs(w, n)'
          PROVE  \E k \in Locations :
                    /\ place'[w][n] = place[w][k]
                    /\ (k = n /\ (w # op.at \/ (n # a /\ n # b))) \/ (w = op.at /\ n = b /\ k = a)
      <4>1. w = op.at => n # a BY <1>0, <1>1, <3>2 DEF Theirs
      <4>2. w = op.at /\ n = b => place'[w][n] = place[w][a] BY <1>1
      <4>3. w # op.at \/ (n # a /\ n # b) => place'[w][n] = place[w][n] BY <1>1
      <4> QED BY <4>1, <4>2, <4>3
    <3>3. PICK k \in Locations :
             /\ place'[u][l] = place[u][k]
             /\ (k = l /\ (u # op.at \/ (l # a /\ l # b))) \/ (u = op.at /\ l = b /\ k = a)
      BY <2>1, <3>2
    <3>4. PICK j \in Locations :
             /\ place'[v][m] = place[v][j]
             /\ (j = m /\ (v # op.at \/ (m # a /\ m # b))) \/ (v = op.at /\ m = b /\ j = a)
      BY <3>1, <3>2
    <3>5. Theirs(u, k) /\ place[v][j].c = place[u][k].c BY <2>1, <3>3, <3>4 DEF Theirs
    <3>6. u = v /\ k = j BY <3>5 DEF OneCopy
    <3> QED BY <3>3, <3>4, <3>6
  <2>2. ASSUME NEW u \in Units, NEW l \in Locations, NEW k \in 1 .. MaxEdits, place'[u][l].c = Edited[k]
        PROVE  k <= edits'
    <3>1. Theirs(u, l)' BY <2>2 DEF Theirs, UserBytes
    <3>2. \E m \in Locations : place[u][m].c = Edited[k] BY <1>2, <2>2, <3>1
    <3> QED BY <3>2 DEF OneCopy
  <2> QED BY <2>1, <2>2 DEF OneCopy, Theirs
<1>4. BytesStay
  <2>1. ASSUME NEW u \in Units, NEW l \in Locations, Theirs(u, l)
        PROVE  \E m \in Locations : place'[u][m] = place[u][l]
    <3>1. CASE u # op.at \/ (l # a /\ l # b) BY <1>1, <3>1
    <3>2. CASE u = op.at /\ l = a BY <1>1, <3>2
    <3>3. ~(u = op.at /\ l = b) BY <1>0, <2>1 DEF Theirs
    <3> QED BY <3>1, <3>2, <3>3
  <2> QED BY <2>1 DEF BytesStay
<1> QED BY <1>2, <1>3, <1>4

\* A creation, an overwriting or a removal takes away what it replaces.
LEMMA PutCarries ==
    ASSUME TypeOK, OneCopy, edits' = edits, NEW u \in Units, NEW l \in Locations,
           NEW o \in Objects \cup {Vacant}, Put(u, l, o),
           o.c \notin UserBytes, Theirs(u, l) => GivenUp(u)
    PROVE  /\ OneCopy' /\ BytesStay
           /\ \A v \in Units, m \in Locations : Theirs(v, m)' => place'[v][m] = place[v][m]
<1>1. /\ place'[u][l] = o
      /\ \A m \in Locations : m # l => place'[u][m] = place[u][m]
      /\ \A v \in Units : v # u => place'[v] = place[v]
  BY PutType
<1>2. ASSUME NEW v \in Units, NEW m \in Locations, Theirs(v, m)'
      PROVE  place'[v][m] = place[v][m]
  BY <1>1, <1>2 DEF Theirs
<1>3. \A v, w \in Units, m, n \in Locations :
         Theirs(v, m)' /\ place'[w][n].c = place'[v][m].c => v = w /\ m = n
  <2> SUFFICES ASSUME NEW v \in Units, NEW w \in Units, NEW m \in Locations, NEW n \in Locations,
                      Theirs(v, m)', place'[w][n].c = place'[v][m].c
               PROVE  v = w /\ m = n
    OBVIOUS
  <2>1. Theirs(w, n)' BY DEF Theirs
  <2>2. place'[v][m] = place[v][m] /\ place'[w][n] = place[w][n] BY <1>2, <2>1
  <2>3. Theirs(v, m) /\ place[w][n].c = place[v][m].c BY <2>2 DEF Theirs
  <2> QED BY <2>3 DEF OneCopy
<1>4. ASSUME NEW v \in Units, NEW m \in Locations, NEW k \in 1 .. MaxEdits, place'[v][m].c = Edited[k]
      PROVE  k <= edits'
  <2>1. Theirs(v, m)' BY <1>4 DEF Theirs, UserBytes
  <2>2. place[v][m].c = Edited[k] BY <1>2, <1>4, <2>1
  <2> QED BY <2>2 DEF OneCopy
<1>5. OneCopy' BY <1>3, <1>4 DEF OneCopy, Theirs
<1>6. BytesStay BY <1>1 DEF BytesStay
<1> QED BY <1>2, <1>5, <1>6

\* What a step of the program may do to the places: nothing, a rename from a
\* private slot to the vacant public path, or one object written or removed.
Carries ==
    \/ UNCHANGED place
    \/ \E l \in Slots : place[op.at]["target"] = Vacant /\ Move(op.at, l, "target")
    \/ \E u \in Units, l \in Locations, o \in Objects \cup {Vacant} :
          Put(u, l, o) /\ o.c \notin UserBytes /\ (Theirs(u, l) => GivenUp(u))

LEMMA Carried ==
    ASSUME TypeOK, OneCopy, edits' = edits, Carries
    PROVE  /\ OneCopy' /\ BytesStay
           /\ \A u \in Units, l \in Slots : Theirs(u, l)' => place'[u][l] = place[u][l]
<1>0. "target" \in Locations /\ "target" \notin Slots /\ Slots \subseteq Locations BY DEF Locations, Slots
<1>1. CASE UNCHANGED place BY <1>1 DEF OneCopy, BytesStay, Theirs
<1>2. ASSUME NEW l \in Slots, place[op.at]["target"] = Vacant, Move(op.at, l, "target")
      PROVE  /\ OneCopy' /\ BytesStay
             /\ \A u \in Units, m \in Slots : Theirs(u, m)' => place'[u][m] = place[u][m]
  BY <1>0, <1>2, MoveCarries
<1>3. ASSUME NEW u \in Units, NEW l \in Locations, NEW o \in Objects \cup {Vacant},
             Put(u, l, o), o.c \notin UserBytes, Theirs(u, l) => GivenUp(u)
      PROVE  /\ OneCopy' /\ BytesStay
             /\ \A v \in Units, m \in Slots : Theirs(v, m)' => place'[v][m] = place[v][m]
  BY <1>0, <1>3, PutCarries
<1> QED BY <1>1, <1>2, <1>3 DEF Carries

\* A receipt keeps the old tree, but for a complete replacement, and the
\* identity of a restoration slot that holds anything of the user.
Keeping ==
    /\ jr'.phase = "preparing" => jr.phase = "preparing"
    /\ \A u \in Units :
          /\ jr'.unit[u].oldTree = jr.unit[u].oldTree \/ Complete[u]
          /\ jr.unit[u].intent.restore # NoId =>
                jr'.unit[u].intent.restore # NoId \/ ~Theirs(u, "restoration")'

LEMMA BytesKept ==
    ASSUME TypeOK, BytesFit, UNCHANGED <<plan, edits>>, Carries, Keeping, SpareFits'
    PROVE  BytesFit' /\ BytesStay
<1>0. "restoration" \in Slots /\ Slots \subseteq Locations BY DEF Locations, Slots
<1>1. /\ OneCopy' /\ BytesStay
      /\ \A u \in Units, l \in Slots : Theirs(u, l)' => place'[u][l] = place[u][l]
  BY Carried DEF BytesFit
<1>2. \A u \in Units, l \in Slots : Theirs(u, l)' => Theirs(u, l) BY <1>1 DEF Theirs
<1>3. PrivateFits'
  <2>1. jr'.phase = "preparing" => \A u \in Units, l \in Slots : ~Theirs(u, l)'
    BY <1>2 DEF Keeping, BytesFit, PrivateFits
  <2>2. \A u \in Units : Theirs(u, "restoration")' => jr'.unit[u].intent.restore # NoId
    BY <1>0, <1>2 DEF Keeping, BytesFit, PrivateFits
  <2>3. \A u \in Units : jr'.unit[u].oldTree.c \in UserBytes => Complete'[u]
    BY DEF Keeping, BytesFit, PrivateFits, Complete
  <2> QED BY <2>1, <2>2, <2>3 DEF PrivateFits, Theirs
<1> QED BY <1>1, <1>3 DEF BytesFit

\* The common cases of what the operation is about to do.
LEMMA NotCareful == op'.pc \notin Careful => SpareFits'
BY DEF Careful, SpareFits

LEMMA StopsCareless == ASSUME NEW o \in Outcomes, op' = Stopped(o) PROVE SpareFits'
BY OpStopped, NotCareful DEF Careful

LEMMA GoesCareless == ASSUME TypeOK, NEW l \in Labels \ Careful, op' = To(l) PROVE SpareFits'
BY OpTo, NotCareful

LEMMA StartsCareless ==
    ASSUME TypeOK, UNCHANGED plan, NEW u \in Units, op' = StartAt(u)
    PROVE  SpareFits'
<1>1. op'.pc = StartOf(u, op.mode) /\ op'.at = u BY OpStart
<1>2. op'.pc \in {"overwrite", "fileStart", "capture", "treeStart"} BY OpStart
<1>3. op'.pc = "overwrite" => Complete[u] BY <1>1 DEF StartOf
<1> QED BY <1>1, <1>2, <1>3 DEF SpareFits, Complete

LEMMA DoneCareless ==
    ASSUME TypeOK, UNCHANGED plan, op' = UnitDone
    PROVE  SpareFits'
<1>1. CASE op.mode = "execute" /\ op.at < N BY <1>1, OpDone, StartsCareless
<1>2. CASE op.mode = "execute" /\ ~(op.at < N) BY <1>2, OpDone, NotCareful DEF Careful
<1>3. CASE op.mode # "execute" /\ op.at > 1 BY <1>3, OpDone, StartsCareless
<1>4. CASE op.mode # "execute" /\ ~(op.at > 1) BY <1>4, OpDone, NotCareful DEF Careful
<1> QED BY <1>1, <1>2, <1>3, <1>4

\* A move from the public path is announced.
LEMMA AsideCareless ==
    ASSUME TypeOK, UNCHANGED jr, NEW o \in Objects \cup {Vacant}, NEW l \in Locations, NEW next \in Labels,
           op' = TakeAside(o, l, next), l = "restoration" => Intent.restore # NoId
    PROVE  SpareFits'
<1>1. op'.pc = "check" /\ op'.to = l /\ op'.at = op.at BY OpAside
<1>2. Intent' = Intent BY <1>1 DEF Intent, Unit
<1> QED BY <1>1, <1>2 DEF SpareFits

LEMMA SameJournal == TypeOK /\ UNCHANGED jr => Keeping
BY DEF Keeping

\* A receipt that keeps the old tree and an identity, as most do.
LEMMA ReceiptKeeps ==
    ASSUME TypeOK, NEW unit \in Publications, NEW continued, Record(unit, continued),
           unit.oldTree = Unit.oldTree \/ Complete[op.at],
           Intent.restore # NoId =>
              unit.intent.restore # NoId \/ place'[op.at]["restoration"].c \notin UserBytes
    PROVE  Keeping
<1>1. op.at \in Units /\ Unit = jr.unit[op.at] /\ Intent = jr.unit[op.at].intent BY UnitType
<1>2. /\ jr'.phase = jr.phase
      /\ \A v \in Units : v # op.at => jr'.unit[v] = jr.unit[v]
      /\ jr'.unit[op.at] = unit \/ UNCHANGED jr
  BY ReceiptRecorded
<1>3. ASSUME NEW u \in Units
      PROVE  /\ jr'.unit[u].oldTree = jr.unit[u].oldTree \/ Complete[u]
             /\ jr.unit[u].intent.restore # NoId =>
                   jr'.unit[u].intent.restore # NoId \/ ~Theirs(u, "restoration")'
  <2>1. CASE jr'.unit[u] = jr.unit[u] BY <2>1
  <2>2. CASE u = op.at /\ jr'.unit[op.at] = unit BY <1>1, <2>2 DEF Theirs
  <2> QED BY <1>2, <2>1, <2>2
<1> QED BY <1>2, <1>3 DEF Keeping

\* A journal persists, or the operation stops.
LEMMA RecordThen ==
    ASSUME TypeOK, NEW unit \in Publications, NEW continued, Record(unit, continued)
    PROVE  op' = continued \/ (UNCHANGED jr /\ \E o \in Outcomes : op' = Stopped(o))
BY ReceiptRecorded

\* A displaced object goes back, and one of a slot to its public path.
LEMMA ReturnCarries ==
    ASSUME TypeOK, NEW l \in Locations, ReturnDisplaced(l)
    PROVE  Carries /\ op' = Stopped("third_value") /\ SpareFits'
<1>1. UNCHANGED place \/ (place[op.at]["target"] = Vacant /\ Move(op.at, l, "target"))
  BY DEF ReturnDisplaced, Here, u0
<1>2. l = "target" /\ Move(op.at, l, "target") => UNCHANGED place BY UnitType DEF Move, TypeOK
<1>3. l \in Slots \/ l = "target" BY DEF Locations
<1>4. op' = Stopped("third_value") BY DEF ReturnDisplaced
<1> QED BY <1>1, <1>2, <1>3, <1>4, StopsCareless DEF Carries, Outcomes

LEMMA PublishCarries ==
    ASSUME TypeOK, NEW l \in Slots, NEW id, NEW next \in Labels \ Careful, PublishFrom(l, id, next)
    PROVE  Carries /\ SpareFits'
<1>1. UNCHANGED place \/ (place[op.at]["target"] = Vacant /\ Move(op.at, l, "target"))
  BY DEF PublishFrom, Here, u0
<1>2. op' = To(next) \/ op' = Stopped("io_failed") BY DEF PublishFrom
<1> QED BY <1>1, <1>2, GoesCareless, StopsCareless DEF Carries, Outcomes

LEMMA ForwardBytes ==
    ASSUME IInv, BytesFit, Forward, UNCHANGED plan
    PROVE  Carries /\ Keeping /\ SpareFits'
<1> TypeOK BY DEF IInv
<1> USE DEF Outcomes, Careful
<1>0. /\ op.at \in Units /\ u0 = op.at /\ Unit \in Publications /\ Unit = jr.unit[op.at]
      /\ Intent = Unit.intent
      /\ {"target", "prepared", "original"} \subseteq Locations
      /\ "prepared" \in Slots /\ "original" \in Slots
  BY UnitType DEF u0, Locations, Slots, Intent, Unit
<1>a. /\ {"receive", "prepare", "identify", "fill", "permit", "publish", "compare", "commit"}
           \subseteq Labels \ Careful
      /\ "retained" \in Labels
  BY DEF Labels, ForwardSteps
<1>b. UNCHANGED place => Carries BY DEF Carries
<1>c. ASSUME jr.phase = "preparing" PROVE \A u \in Units : ~Theirs(u, "prepared")
  BY <1>0, <1>c DEF BytesFit, PrivateFits
<1>d. ASSUME op' = NextPrepared PROVE SpareFits'
  <2>1. To("prepare").pc = "prepare" /\ To("permit").pc = "permit" BY <1>a, OpTo
  <2>2. op \in Operations BY DEF TypeOK
  <2>3. op'.pc \in {"prepare", "permit"} BY <1>d, <2>1, <2>2 DEF NextPrepared, To, Operations
  <2> QED BY <2>3, NotCareful
<1>1. CASE CreateStaging
  BY <1>1, <1>a, <1>b, SameJournal, GoesCareless, StopsCareless DEF CreateStaging
<1>2. CASE ReceiveStaging
  <2>1. Keeping BY <1>2 DEF ReceiveStaging, Persist, Keeping, TypeOK, JournalStates
  <2>2. op' = To("prepare") \/ \E o \in Outcomes : op' = Stopped(o)
    BY <1>2 DEF ReceiveStaging, Persist
  <2> QED BY <1>2, <1>a, <1>b, <2>1, <2>2, GoesCareless, StopsCareless DEF ReceiveStaging
<1>3. CASE CreatePrepared
  <2>1. jr.phase = "preparing" BY <1>3 DEF CreatePrepared, At, IInv, PhaseFits, Due, Preparing
  <2>2. Carries
    <3>1. ASSUME NEW i \in NewIds, Put(u0, "prepared", [id |-> i, c |-> Torn]) PROVE Carries
      <4>1. [id |-> i, c |-> Torn] \in Objects BY <3>1, NewIdType DEF Objects, Contents
      <4>2. ~Theirs(op.at, "prepared") BY <1>0, <1>c, <2>1
      <4> QED BY <1>0, <3>1, <4>1, <4>2, BytesApart DEF Carries
    <3> QED BY <1>3, <1>b, <3>1 DEF CreatePrepared
  <2>3. SpareFits' BY <1>3, <1>a, <1>d, GoesCareless DEF CreatePrepared
  <2> QED BY <1>3, <2>2, <2>3, SameJournal DEF CreatePrepared
<1>4. CASE IdentifyPrepared
  <2>1. [Unit EXCEPT !.prepared = Here("prepared").id] \in Publications
    BY <1>0, HereType DEF Publications
  <2>2. /\ [Unit EXCEPT !.prepared = Here("prepared").id].oldTree = Unit.oldTree
        /\ [Unit EXCEPT !.prepared = Here("prepared").id].intent = Intent
    BY <1>0 DEF Publications
  <2> QED BY <1>4, <1>a, <1>b, <2>1, <2>2, ReceiptKeeps, RecordThen, GoesCareless, StopsCareless
          DEF IdentifyPrepared
<1>5. CASE FillPrepared
  <2>1. jr.phase = "preparing" BY <1>5 DEF FillPrepared, At, IInv, PhaseFits, Due, Preparing
  <2>2. Here("prepared").id # NoId BY <1>5 DEF FillPrepared, At, IInv, PhaseFits, Due
  <2>3. Here("prepared") \in Objects /\ New[op.at] \in Contents
    BY <1>0, <2>2, HereType, UnitType DEF Vacant, Contents
  <2>4. [Here("prepared") EXCEPT !.c = New[u0]] \in Objects
        /\ [Here("prepared") EXCEPT !.c = New[u0]].c = New[op.at]
    BY <1>0, <2>3 DEF Objects
  <2>5. ~Theirs(op.at, "prepared") BY <1>0, <1>c, <2>1
  <2>6. Carries BY <1>0, <1>5, <2>4, <2>5, BytesApart DEF Carries, FillPrepared
  <2> QED BY <1>5, <1>d, <2>6, SameJournal DEF FillPrepared
<1>6. CASE PermitPublishing
  <2>1. Keeping BY <1>6 DEF PermitPublishing, Persist, Keeping, TypeOK, JournalStates
  <2>2. op' = StartAt(1) \/ \E o \in Outcomes : op' = Stopped(o)
    BY <1>6 DEF PermitPublishing, Persist
  <2> QED BY <1>6, <1>b, <2>1, <2>2, OneUnit, StartsCareless, StopsCareless DEF PermitPublishing
<1>7. CASE OverwriteFile
  <2>1. Complete[op.at] BY <1>7 DEF OverwriteFile, At, BytesFit, SpareFits
  <2>2. Kind[op.at] = "file" BY <1>7 DEF OverwriteFile, At, IInv, ModeFits, Due
  <2>3. PICK i \in NewIds : Put(u0, "target", [id |-> i, c |-> New[u0]]) BY <1>7 DEF OverwriteFile
  <2>4. [id |-> i, c |-> New[u0]] \in Objects BY <1>0, NewIdType, UnitType DEF Objects, Contents
  <2>5. New[op.at] \notin UserBytes BY <1>0, BytesApart
  <2>6. Carries BY <1>0, <2>1, <2>2, <2>3, <2>4, <2>5 DEF Carries, GivenUp
  <2> QED BY <1>7, <2>6, SameJournal, DoneCareless DEF OverwriteFile
<1>8. CASE CaptureTree
  <2> DEFINE next == IF Here("target") = Vacant THEN To("publish")
                     ELSE TakeAside(Here("target"), "original", "retained")
  <2>1. Here("target") \in Objects \cup {Vacant} BY <1>0, HereType
  <2>2. ASSUME op' = next, jr'.unit[op.at].intent = Intent PROVE SpareFits'
    <3>1. CASE op' = To("publish") BY <1>a, <3>1, GoesCareless
    <3>2. CASE op' = TakeAside(Here("target"), "original", "retained")
      <4>1. op'.pc = "check" /\ op'.to = "original" BY <1>0, <1>a, <2>1, <3>2, OpAside
      <4> QED BY <4>1 DEF SpareFits
    <3> QED BY <2>2, <3>1, <3>2
  <2>3. [Unit EXCEPT !.oldTree = Here("target")] \in Publications BY <1>0, <2>1 DEF Publications
  <2>4. [Unit EXCEPT !.oldTree = Here("target")].intent = Intent BY <1>0 DEF Publications
  <2>5. CASE op' = next /\ UNCHANGED jr BY <1>8, <1>0, <1>b, <2>2, <2>5, SameJournal DEF CaptureTree
  <2>6. CASE op' = Stopped("third_value") /\ UNCHANGED jr
    BY <1>8, <1>b, <2>6, SameJournal, StopsCareless DEF CaptureTree
  <2>7. CASE Complete[u0] /\ Record([Unit EXCEPT !.oldTree = Here("target")], next)
    <3>1. Keeping BY <1>0, <2>3, <2>4, <2>7, ReceiptKeeps
    <3>2. \/ jr'.unit[op.at] = [Unit EXCEPT !.oldTree = Here("target")] /\ op' = next
          \/ \E o \in Outcomes : op' = Stopped(o)
      BY <2>3, <2>7, ReceiptRecorded
    <3>3. SpareFits' BY <2>2, <2>4, <3>2, StopsCareless
    <3> QED BY <1>8, <1>b, <3>1, <3>3 DEF CaptureTree
  <2> QED BY <1>8, <2>5, <2>6, <2>7 DEF CaptureTree
<1>9. CASE CheckRetained
  <2>1. [Unit EXCEPT !.oldTree = Here("original")] \in Publications
    BY <1>0, HereType DEF Publications
  <2>2. [Unit EXCEPT !.oldTree = Here("original")].intent = Intent BY <1>0 DEF Publications
  <2>3. CASE op' = To("publish") /\ UNCHANGED <<place, jr>>
    BY <1>a, <1>b, <2>3, SameJournal, GoesCareless
  <2>4. CASE /\ Complete[u0] /\ UNCHANGED place
             /\ Record([Unit EXCEPT !.oldTree = Here("original")], To("publish"))
    BY <1>0, <1>a, <1>b, <2>1, <2>2, <2>4, ReceiptKeeps, RecordThen, GoesCareless, StopsCareless
  <2>5. CASE ReturnDisplaced("original") /\ UNCHANGED jr
    BY <1>0, <2>5, ReturnCarries, SameJournal
  <2> QED BY <1>9, <2>3, <2>4, <2>5 DEF CheckRetained
<1>10. CASE PublishTree
  <2>1. CASE UNCHANGED place /\ op' \in {To("compare"), Stopped("io_failed")}
    BY <1>10, <1>a, <1>b, <2>1, SameJournal, GoesCareless, StopsCareless DEF PublishTree
  <2>2. CASE PublishFrom("prepared", Unit.prepared, "compare")
    BY <1>10, <1>0, <1>a, <2>2, PublishCarries, SameJournal DEF PublishTree
  <2> QED BY <1>10, <2>1, <2>2 DEF PublishTree
<1>11. CASE CompareTree
  BY <1>11, <1>b, SameJournal, DoneCareless, StopsCareless DEF CompareTree
<1>12. CASE Verify
  <2>1. op \in Operations BY DEF TypeOK
  <2>2. op' = [op EXCEPT !.at = u0 + 1] => op'.pc = "verify" BY <1>12, <2>1 DEF Verify, At, Operations
  <2>3. SpareFits' BY <1>12, <1>a, <2>2, NotCareful, GoesCareless, StopsCareless DEF Verify
  <2> QED BY <1>12, <1>b, <2>3, SameJournal DEF Verify
<1>13. CASE Commit
  <2>1. op'.pc = "begin" BY <1>13 DEF Commit, Idle
  <2> QED BY <1>13, <1>b, <2>1, NotCareful, SameJournal DEF Commit
<1> QED
  BY <1>1, <1>2, <1>3, <1>4, <1>5, <1>6, <1>7, <1>8, <1>9, <1>10, <1>11, <1>12, <1>13 DEF Forward

LEMMA InspectBytes ==
    ASSUME TypeOK, NEW order \in {FileOrder, TreeOrder}, NEW next, InspectPrivate(order, next),
           op' = To(next) => SpareFits'
    PROVE  Carries /\ SpareFits'
<1>1. CASE op' = To(next) /\ UNCHANGED place BY <1>1 DEF Carries
<1>2. CASE op' = Stopped("third_value") /\ UNCHANGED place
  BY <1>2, StopsCareless DEF Carries, Outcomes
<1>3. CASE \E l \in Locations : ReturnDisplaced(l) BY <1>3, ReturnCarries
<1> QED BY <1>1, <1>2, <1>3, InspectCases

LEMMA DisplacedBytes ==
    ASSUME TypeOK, NEW here, NEW next \in Labels \ Careful, CheckDisplaced(here, next)
    PROVE  Carries /\ Keeping /\ SpareFits'
<1>1. op.to \in Locations BY DEF TypeOK, Operations
<1>2. Keeping BY SameJournal DEF CheckDisplaced
<1>3. ASSUME op' = To(next), UNCHANGED place PROVE Carries /\ SpareFits'
  BY <1>3, GoesCareless DEF Carries
<1>4. ReturnDisplaced(op.to) => Carries /\ SpareFits' BY <1>1, ReturnCarries
<1> QED BY <1>2, <1>3, <1>4 DEF CheckDisplaced

\* The end of an intent finds its slots empty.
LEMMA CleanBytes ==
    ASSUME IInv, Sided, BytesFit, NEW here, NEW order \in {FileOrder, TreeOrder}, Clean(here, order),
           UNCHANGED plan, order = FileOrder <=> Kind[op.at] = "file",
           \A l \in Slots : ~Changed(l) /\ Put(u0, l, Vacant) /\ UNCHANGED <<op, jr>> => Carries /\ SpareFits'
    PROVE  Carries /\ Keeping /\ SpareFits'
<1>0. TypeOK /\ op.at \in Units /\ u0 = op.at /\ Unit \in Publications /\ Intent = Unit.intent
  BY UnitType DEF IInv, u0, Intent
<1>1. CASE op' = Stopped("third_value") /\ UNCHANGED <<place, jr>>
  BY <1>0, <1>1, SameJournal, StopsCareless DEF Carries, Outcomes
<1>2. CASE \E l \in Slots : ~Changed(l) /\ Put(u0, l, Vacant) /\ UNCHANGED <<op, jr>>
  BY <1>0, <1>2, SameJournal
<1>3. CASE UNCHANGED place /\ op' = UnitDone /\ UNCHANGED jr
  BY <1>0, <1>3, SameJournal, DoneCareless DEF Carries
<1>4. CASE /\ UNCHANGED place /\ \A k \in DOMAIN order : Here(order[k]) = Vacant
           /\ Record([Unit EXCEPT !.intent = NoIntent], UnitDone)
  <2>1. [Unit EXCEPT !.intent = NoIntent] \in Publications
        /\ [Unit EXCEPT !.intent = NoIntent].oldTree = Unit.oldTree
    BY <1>0 DEF Publications, Intents, NoIntent
  <2>2. place[op.at]["restoration"] = Vacant
    <3>1. CASE Kind[op.at] = "file"
      <4>1. 2 \in DOMAIN order /\ order[2] = "restoration" BY <3>1 DEF FileOrder
      <4> QED BY <1>4, <4>1 DEF Here
    <3>2. CASE Kind[op.at] # "file"
      <4>1. "restoration" \in Slots /\ "restoration" \notin OwnSlots(op.at) BY <3>2 DEF Slots, OwnSlots
      <4> QED BY <1>0, <4>1 DEF Sided, PlacesFit, SlotsByKind
    <3> QED BY <3>1, <3>2
  <2>3. place'[op.at]["restoration"].c \notin UserBytes BY <1>0, <1>4, <2>2, BytesApart
  <2>4. Keeping BY <1>0, <1>4, <2>1, <2>3, ReceiptKeeps
  <2>5. op' = UnitDone \/ \E o \in Outcomes : op' = Stopped(o) BY <1>0, <1>4, <2>1, RecordThen
  <2> QED BY <1>0, <1>4, <2>4, <2>5, DoneCareless, StopsCareless DEF Carries
<1> QED BY <1>0, <1>1, <1>2, <1>3, <1>4, CleanCases

LEMMA FileBytes ==
    ASSUME IInv, Sided, BytesFit, recoverFile, UNCHANGED plan
    PROVE  Carries /\ Keeping /\ SpareFits'
<1> TypeOK BY DEF IInv
<1> USE DEF Outcomes, Careful
<1>0. /\ op.at \in Units /\ u0 = op.at /\ Unit \in Publications /\ Intent = Unit.intent
      /\ Intent \in Intents
      /\ {"target", "quarantine", "restoration"} \subseteq Locations
      /\ "quarantine" \in Slots /\ "restoration" \in Slots
  BY UnitType DEF u0, Locations, Slots, Intent
<1>a. {"scrub", "filePrivate", "inspect", "receipt", "displace", "filePlace", "confirm", "fileClean"}
        \subseteq Labels \ Careful
      /\ "fileDisplaced" \in Labels
  BY DEF Labels, FileSteps
<1>b. UNCHANGED place => Carries BY DEF Carries
<1>c. Intent.restore = NoId => ~Theirs(op.at, "restoration")
  BY <1>0 DEF BytesFit, PrivateFits, Intent, Unit
<1>d. ASSUME NEW intent \in Intents, NEW next \in Labels \ Careful, UNCHANGED place,
             Record([Unit EXCEPT !.intent = intent], To(next)),
             Intent.restore # NoId => intent.restore # NoId
      PROVE  Carries /\ Keeping /\ SpareFits'
  <2>1. /\ [Unit EXCEPT !.intent = intent] \in Publications
        /\ [Unit EXCEPT !.intent = intent].oldTree = Unit.oldTree
        /\ [Unit EXCEPT !.intent = intent].intent = intent
    BY <1>0 DEF Publications
  <2>2. Keeping BY <1>d, <2>1, ReceiptKeeps
  <2>3. op' = To(next) \/ \E o \in Outcomes : op' = Stopped(o) BY <1>d, <2>1, RecordThen
  <2> QED BY <1>b, <1>d, <2>2, <2>3, GoesCareless, StopsCareless
<1>1. CASE StartFile
  <2> DEFINE current == Here("target")
             fresh == [side |-> Side, cand |-> current.id, restore |-> NoId]
  <2>1. Side \in {"old", "new"} BY DEF Side
  <2>2. fresh \in Intents BY <1>0, <2>1, HereType DEF Intents
  <2>3. Redirected(Intent) \in Intents /\ Redirected(Intent).restore = Intent.restore
    BY <1>0, <2>1 DEF Redirected, Intents
  <2>4. CASE op' = UnitDone /\ UNCHANGED jr
    BY <1>1, <1>b, <2>4, SameJournal, DoneCareless DEF StartFile
  <2>5. CASE op' \in {Stopped("third_value"), To("scrub")} /\ UNCHANGED jr
    BY <1>1, <1>a, <1>b, <2>5, SameJournal, GoesCareless, StopsCareless DEF StartFile
  <2>6. CASE Intent = NoIntent /\ Record([Unit EXCEPT !.intent = fresh], To("scrub"))
    <3>1. Intent.restore = NoId BY <2>6 DEF NoIntent
    <3> QED BY <1>1, <1>a, <1>d, <2>2, <2>6, <3>1 DEF StartFile
  <2>7. CASE Record([Unit EXCEPT !.intent = Redirected(Intent)], To("scrub"))
    BY <1>1, <1>a, <1>d, <2>3, <2>7 DEF StartFile
  <2> QED BY <1>1, <2>4, <2>5, <2>6, <2>7 DEF StartFile
<1>2. CASE ScrubRestoration
  <2> DEFINE spare == Here("restoration")
             known == [Intent EXCEPT !.restore = spare.id]
  <2>1. CASE op' \in {To("filePrivate"), Stopped("third_value")} /\ UNCHANGED <<place, jr>>
    BY <1>a, <1>b, <2>1, SameJournal, GoesCareless, StopsCareless
  <2>2. CASE /\ Intent.restore = NoId /\ UNCHANGED place
             /\ Record([Unit EXCEPT !.intent.restore = spare.id], To("filePrivate"))
    <3>1. known \in Intents BY <1>0, HereType DEF Intents
    <3>2. [Unit EXCEPT !.intent.restore = spare.id] = [Unit EXCEPT !.intent = known]
      BY <1>0 DEF Publications, Intents
    <3> QED BY <1>a, <1>d, <2>2, <3>1, <3>2
  <2>3. CASE /\ Intent.restore = NoId /\ UNCHANGED jr
             /\ Put(u0, "restoration", Vacant) /\ op' = To("filePrivate")
    <3>1. Carries BY <1>0, <1>c, <2>3, BytesApart DEF Carries
    <3> QED BY <1>a, <2>3, <3>1, SameJournal, GoesCareless
  <2> QED BY <1>2, <2>1, <2>2, <2>3 DEF ScrubRestoration
<1>3. CASE InspectFileSlots
  <2>1. op' = To("inspect") => SpareFits' BY <1>a, GoesCareless
  <2> QED BY <1>3, <2>1, InspectBytes, SameJournal DEF InspectFileSlots
<1>4. CASE InspectFile
  <2>1. op \in Operations BY DEF TypeOK
  <2>2. op'.pc \in {"idle", "fileClean", "displace", "create"}
    BY <1>4, <2>1, <1>a, OpTo, OpStopped DEF InspectFile, Operations
  <2> QED BY <1>4, <1>b, <2>2, NotCareful, SameJournal DEF InspectFile
<1>5. CASE CreateRestoration
  <2>1. Intent.restore = NoId BY <1>5 DEF CreateRestoration, At, IInv, IntentFits, Due
  <2>2. Kind[op.at] = "file" BY <1>5 DEF CreateRestoration, At, IInv, ModeFits, Due, FileSteps
  <2>3. Wanted \in Contents /\ Wanted \notin UserBytes
    BY <1>0, <2>2, UnitType, BytesApart DEF Wanted, OldContent
  <2>4. PICK i \in NewIds : Put(u0, "restoration", [id |-> i, c |-> Wanted])
    BY <1>5 DEF CreateRestoration
  <2>5. [id |-> i, c |-> Wanted] \in Objects BY <2>3, NewIdType DEF Objects
  <2>6. Carries BY <1>0, <1>c, <2>1, <2>3, <2>4, <2>5 DEF Carries
  <2> QED BY <1>5, <1>a, <2>6, SameJournal, GoesCareless DEF CreateRestoration
<1>6. CASE ReceiptRestoration
  <2> DEFINE known == [Intent EXCEPT !.restore = Here("restoration").id]
  <2>1. Intent.restore = NoId BY <1>6 DEF ReceiptRestoration, At, IInv, IntentFits, Due
  <2>2. known \in Intents BY <1>0, HereType DEF Intents
  <2>3. [Unit EXCEPT !.intent.restore = Here("restoration").id] = [Unit EXCEPT !.intent = known]
    BY <1>0 DEF Publications, Intents
  <2> QED BY <1>6, <1>a, <1>d, <2>1, <2>2, <2>3 DEF ReceiptRestoration
<1>7. CASE Displace
  <2>1. CASE op' \in {To("filePlace"), Stopped("third_value")}
    BY <1>7, <1>a, <1>b, <2>1, SameJournal, GoesCareless, StopsCareless DEF Displace
  <2>2. ASSUME op.cur # Vacant, NEW l \in SlotsFor(op.cur), op' = TakeAside(op.cur, l, "fileDisplaced")
        PROVE  SpareFits'
    <3>1. op.cur \in Objects BY <2>2 DEF TypeOK, Operations
    <3>2. op.cur.id # NoId BY <3>1, LimitsAssumption DEF Objects, Ids, NoId
    <3>3. l \in Locations /\ (l = "restoration" => Intent.restore # NoId)
      BY <1>0, <2>2, <3>2 DEF SlotsFor, ExpectedId
    <3> QED BY <1>7, <1>a, <2>2, <3>1, <3>3, AsideCareless DEF Displace
  <2>3. CASE op.cur # Vacant /\ SlotsFor(op.cur) # {}
    <3> DEFINE l == IF "quarantine" \in SlotsFor(op.cur) THEN "quarantine" ELSE "restoration"
    <3>1. l \in SlotsFor(op.cur) BY <2>3 DEF SlotsFor
    <3>2. op' = TakeAside(op.cur, l, "fileDisplaced") BY <1>7, <2>3 DEF Displace
    <3> HIDE DEF l
    <3> QED BY <1>7, <1>b, <2>2, <2>3, <3>1, <3>2, SameJournal DEF Displace
  <2> QED BY <1>7, <2>1, <2>3 DEF Displace
<1>8. CASE CheckDisplaced("fileDisplaced", "filePlace") BY <1>8, <1>a, DisplacedBytes
<1>9. CASE PlaceFile
  <2>1. CASE UNCHANGED place /\ op' \in {To("confirm"), Stopped("io_failed"), Stopped("third_value")}
    BY <1>9, <1>a, <1>b, <2>1, SameJournal, GoesCareless, StopsCareless DEF PlaceFile
  <2>2. CASE PublishFrom(op.from, ExpectedId(op.from), "confirm") /\ op.from \in Slots
    BY <1>9, <1>a, <2>2, PublishCarries, SameJournal DEF PlaceFile
  <2>3. CASE PublishFrom(op.from, ExpectedId(op.from), "confirm") /\ op.from \notin Slots
    <3>1. op.from = "target" BY <2>3 DEF TypeOK, Operations, Locations
    <3>2. ~(/\ ExpectedId(op.from) # NoId /\ Here(op.from).id = ExpectedId(op.from)
            /\ Here("target") = Vacant)
      BY <3>1 DEF Vacant
    <3> QED BY <1>9, <1>b, <2>3, <3>2, SameJournal, StopsCareless DEF PlaceFile, PublishFrom
  <2> QED BY <1>9, <2>1, <2>2, <2>3 DEF PlaceFile
<1>10. CASE ConfirmFile
  BY <1>10, <1>a, <1>b, SameJournal, GoesCareless, StopsCareless DEF ConfirmFile
<1>11. CASE Clean("fileClean", FileOrder)
  <2>1. op.pc = "fileClean" BY <1>11 DEF Clean, At
  <2>2. Kind[op.at] = "file" BY <2>1 DEF IInv, ModeFits, Due, FileSteps
  <2>3. ASSUME NEW l \in Slots, ~Changed(l), Put(u0, l, Vacant), UNCHANGED <<op, jr>>
        PROVE  Carries /\ SpareFits'
    <3>0. OldContent(op.at) = Old[op.at] BY <2>2 DEF OldContent
    <3>1. ~Theirs(op.at, l)
      BY <1>0, <2>3, <3>0, BytesApart DEF Changed, Known, Here, Theirs
    <3>2. l \in Locations /\ Vacant.c \notin UserBytes BY BytesApart DEF Locations
    <3>3. Carries BY <1>0, <2>3, <3>1, <3>2 DEF Carries
    <3> QED BY <2>1, <2>3, <3>3, NotCareful
  <2> QED BY <1>11, <2>2, <2>3, CleanBytes
<1> QED
  BY <1>1, <1>2, <1>3, <1>4, <1>5, <1>6, <1>7, <1>8, <1>9, <1>10, <1>11 DEF recoverFile

\* What the cleanup of a tree removes of the user's is an old tree the user gave
\* up: it is wanted no more, since the wanted one is at the public path.
LEMMA TreeSpent ==
    ASSUME IInv, BytesFit, op.pc = "treeClean", NEW l \in Slots, ~Changed(l)
    PROVE  Theirs(op.at, l) => GivenUp(op.at)
<1> SUFFICES ASSUME Theirs(op.at, l) PROVE GivenUp(op.at) OBVIOUS
<1>0. TypeOK /\ op.at \in Units /\ u0 = op.at BY UnitType DEF IInv, u0
<1>1. Kind[op.at] = "directory" /\ op.mode \in {"finalize", "recover"}
      /\ (op.mode = "finalize" => committed)
  BY DEF IInv, ModeFits, Due, TreeSteps
<1>2. place[op.at][l].c \in {jr.unit[op.at].oldTree.c, New[op.at]}
  BY <1>0, <1>1, BytesApart DEF Changed, Known, OldContent, Here, Theirs
<1>3. place[op.at][l].c = jr.unit[op.at].oldTree.c BY <1>0, <1>2, BytesApart DEF Theirs
<1>4. Complete[op.at] BY <1>0, <1>3 DEF BytesFit, PrivateFits, Theirs
<1>5. CASE committed BY <1>4, <1>5 DEF GivenUp
<1>6. CASE ~committed
  <2>1. Side = "old" BY <1>1, <1>6 DEF Side
  <2>2. Wanted = jr.unit[op.at].oldTree.c BY <1>0, <1>1, <2>1 DEF Wanted, OldContent
  <2> QED BY <1>3, <2>1, <2>2 DEF BytesFit, SpareFits
<1> QED BY <1>5, <1>6

LEMMA TreeBytes ==
    ASSUME IInv, Sided, BytesFit, recoverDirectory, UNCHANGED plan
    PROVE  Carries /\ Keeping /\ SpareFits'
<1> TypeOK BY DEF IInv
<1> USE DEF Outcomes, Careful
<1>0. /\ op.at \in Units /\ u0 = op.at /\ Unit \in Publications /\ Intent = Unit.intent
      /\ Intent \in Intents /\ op \in Operations
      /\ {"target", "quarantine"} \subseteq Locations /\ "target" \notin Slots
      /\ Slots \subseteq Locations
  BY UnitType DEF u0, Locations, Slots, TypeOK
<1>a. /\ {"treePlace", "treeConfirm"} \subseteq Labels \ Careful
      /\ {"treePrivate", "treeMove", "treeDisplaced", "treeClean"} \subseteq Labels
  BY DEF Labels, TreeSteps
<1>b. UNCHANGED place => Carries BY DEF Carries
\* What is at the public path is in no slot, as far as the user wrote it.
<1>c. \A l \in Slots : place[op.at][l].c = place[op.at]["target"].c => ~Theirs(op.at, l)
  <2> SUFFICES ASSUME NEW l \in Slots, place[op.at][l].c = place[op.at]["target"].c, Theirs(op.at, l)
               PROVE  FALSE
    OBVIOUS
  <2>1. l = "target" BY <1>0 DEF BytesFit, OneCopy
  <2> QED BY <1>0, <2>1
\* Where the cleanup begins, the wanted tree is in no slot.
<1>d. ASSUME op' = To("treeClean"), UNCHANGED <<place, jr, committed>>,
             \A l \in Slots : place[op.at][l].c = Wanted => ~Theirs(op.at, l)
      PROVE  SpareFits'
  <2>1. op'.pc = "treeClean" /\ op'.at = op.at /\ op'.mode = op.mode BY <1>a, <1>d, OpTo
  <2>2. Wanted' = Wanted BY <1>d, <2>1 DEF Wanted, Side, OldContent, u0, Old, New
  <2> QED BY <1>d, <2>1, <2>2 DEF SpareFits, Theirs
<1>1. CASE StartTree
  <2> DEFINE current == Here("target")
             next == [op EXCEPT !.pc = "treePrivate", !.cur = current]
             fresh == [side |-> Side, cand |-> current.id, restore |-> NoId]
  <2>1. next.pc = "treePrivate" /\ next.at = op.at /\ next.cur = place[op.at]["target"]
    BY <1>0 DEF Here, Operations
  <2>2. UNCHANGED place BY <1>1 DEF StartTree
  <2>3. op' = next => SpareFits' BY <1>c, <2>1, <2>2 DEF SpareFits, Theirs
  <2>4. Side \in {"old", "new"} BY DEF Side
  <2>5. fresh \in Intents BY <1>0, <2>4, HereType DEF Intents
  <2>6. /\ [Unit EXCEPT !.intent = fresh] \in Publications
        /\ [Unit EXCEPT !.intent = fresh].oldTree = Unit.oldTree
        /\ [Unit EXCEPT !.intent = fresh].intent = fresh
    BY <1>0, <2>5 DEF Publications
  <2> HIDE DEF next
  <2>7. CASE op' \in {next, Stopped("third_value")} /\ UNCHANGED jr
    BY <1>b, <2>2, <2>3, <2>7, SameJournal, StopsCareless
  <2>8. CASE Intent = NoIntent /\ Record([Unit EXCEPT !.intent = fresh], next)
    <3>1. Intent.restore = NoId BY <2>8 DEF NoIntent
    <3>2. Keeping BY <2>6, <2>8, <3>1, ReceiptKeeps
    <3>3. op' = next \/ \E o \in Outcomes : op' = Stopped(o) BY <2>6, <2>8, RecordThen
    <3> QED BY <1>b, <2>2, <2>3, <3>2, <3>3, StopsCareless
  <2> QED BY <1>1, <2>7, <2>8 DEF StartTree, next
<1>2. CASE InspectTreeSlots
  <2>1. op.pc = "treePrivate" BY <1>2 DEF InspectTreeSlots, At
  <2>2. ASSUME op' = To("treeMove"), UNCHANGED place PROVE SpareFits'
    <3>1. op'.pc = "treeMove" /\ op'.at = op.at /\ op'.cur = op.cur BY <1>a, <2>2, OpTo
    <3>2. \A l \in Slots : place[op.at][l].c = op.cur.c => ~Theirs(op.at, l)
      BY <2>1 DEF BytesFit, SpareFits
    <3> QED BY <2>2, <3>1, <3>2 DEF SpareFits, Theirs
  <2>3. CASE op' = To("treeMove") /\ UNCHANGED place
    BY <1>2, <1>b, <2>2, <2>3, SameJournal DEF InspectTreeSlots
  <2>4. CASE op' = Stopped("third_value") /\ UNCHANGED place
    BY <1>2, <1>b, <2>4, SameJournal, StopsCareless DEF InspectTreeSlots
  <2>5. CASE \E l \in Locations : ReturnDisplaced(l)
    BY <1>2, <2>5, SameJournal, ReturnCarries DEF InspectTreeSlots
  <2> QED BY <1>2, <2>3, <2>4, <2>5, InspectCases DEF InspectTreeSlots
<1>3. CASE MoveTree
  <2>0. UNCHANGED <<place, jr, committed>> BY <1>3 DEF MoveTree
  <2>1. op.pc = "treeMove" BY <1>3 DEF MoveTree, At
  <2>2. \A l \in Slots : place[op.at][l].c = op.cur.c => ~Theirs(op.at, l)
    BY <2>1 DEF BytesFit, SpareFits
  <2>3. CASE op.cur.c = Wanted /\ op' = To("treeClean")
    BY <1>b, <1>d, <2>0, <2>2, <2>3, SameJournal
  <2>4. CASE op' \in {To("treePlace"), Stopped("third_value")}
    BY <1>a, <1>b, <2>0, <2>4, SameJournal, GoesCareless, StopsCareless
  <2>5. CASE op' = TakeAside(op.cur, "quarantine", "treeDisplaced")
    <3>1. op.cur \in Objects \cup {Vacant} BY <1>0 DEF Operations
    <3>2. op'.pc = "check" /\ op'.to = "quarantine" BY <1>0, <1>a, <2>5, <3>1, OpAside
    <3>3. SpareFits' BY <3>2 DEF SpareFits
    <3> QED BY <1>b, <2>0, <3>3, SameJournal
  <2> QED BY <1>3, <2>3, <2>4, <2>5 DEF MoveTree
<1>4. CASE CheckDisplaced("treeDisplaced", "treePlace") BY <1>4, <1>a, DisplacedBytes
<1>5. CASE PlaceTree
  <2>1. CASE UNCHANGED place /\ op' \in {To("treeConfirm"), Stopped("io_failed")}
    BY <1>5, <1>a, <1>b, <2>1, SameJournal, GoesCareless, StopsCareless DEF PlaceTree
  <2>2. ASSUME NEW l \in {"original", "prepared", "quarantine"}, PublishFrom(l, WantedId, "treeConfirm")
        PROVE  Carries /\ SpareFits'
    <3>1. l \in Slots BY DEF Slots
    <3> QED BY <1>a, <2>2, <3>1, PublishCarries
  <2> QED BY <1>5, <2>1, <2>2, SameJournal DEF PlaceTree
<1>6. CASE ConfirmTree
  <2>0. UNCHANGED <<place, jr, committed>> BY <1>6 DEF ConfirmTree
  <2>1. CASE op' = Stopped("third_value") BY <1>b, <2>0, <2>1, SameJournal, StopsCareless
  <2>2. CASE place[op.at]["target"].c = Wanted /\ op' = To("treeClean")
    BY <1>b, <1>c, <1>d, <2>0, <2>2, SameJournal
  <2> QED BY <1>6, <2>1, <2>2 DEF ConfirmTree, Here
<1>7. CASE Clean("treeClean", TreeOrder)
  <2>1. op.pc = "treeClean" /\ UNCHANGED committed BY <1>7 DEF Clean, At
  <2>2. Kind[op.at] = "directory" BY <2>1 DEF IInv, ModeFits, Due, TreeSteps
  <2>3. ASSUME NEW l \in Slots, ~Changed(l), Put(u0, l, Vacant), UNCHANGED <<op, jr>>
        PROVE  Carries /\ SpareFits'
    <3>1. l \in Locations /\ Vacant.c \notin UserBytes BY <1>0, BytesApart
    <3>2. Theirs(op.at, l) => GivenUp(op.at) BY <2>1, <2>3, TreeSpent
    <3>3. Carries BY <1>0, <2>3, <3>1, <3>2 DEF Carries
    <3>4. \A m \in Slots : Theirs(op.at, m)' => place'[op.at][m] = place[op.at][m]
      BY <1>0, <2>3, <3>1, PutType DEF Theirs
    <3>5. Side = "old" => \A m \in Slots : place[op.at][m].c = Wanted => ~Theirs(op.at, m)
      BY <2>1 DEF BytesFit, SpareFits
    <3>6. op' = op /\ Wanted' = Wanted /\ Side' = Side
      BY <2>1, <2>3 DEF Wanted, Side, OldContent, u0, Old, New
    <3>7. Side = "old" => \A m \in Slots : place'[op.at][m].c = Wanted' => ~Theirs(op.at, m)'
      BY <3>4, <3>5, <3>6 DEF Theirs
    <3>8. SpareFits' BY <2>1, <3>6, <3>7 DEF SpareFits, Theirs
    <3> QED BY <3>3, <3>8
  <2>4. TreeOrder # FileOrder
    <3>1. TreeOrder[1] = "original" /\ FileOrder[1] = "quarantine" BY DEF TreeOrder, FileOrder
    <3> QED BY <3>1
  <2> QED BY <1>7, <2>2, <2>3, <2>4, CleanBytes
<1> QED BY <1>1, <1>2, <1>3, <1>4, <1>5, <1>6, <1>7 DEF recoverDirectory

LEMMA AroundBytes ==
    ASSUME IInv, Sided, BytesFit, UNCHANGED plan,
           Begin \/ Unprepare \/ Unstage \/ Resolve \/ Recover \/ CheckIdentity \/ Die
    PROVE  Carries /\ Keeping /\ SpareFits'
<1> TypeOK BY DEF IInv
<1> USE DEF Outcomes, Careful
<1>a. {"resolve", "unprepare", "unstage"} \subseteq Labels \ Careful /\ "rename" \in Labels BY DEF Labels
<1>b. UNCHANGED place => Carries BY DEF Carries
<1>1. CASE Begin
  BY <1>1, <1>a, <1>b, OneUnit, SameJournal, GoesCareless, StopsCareless, StartsCareless DEF Begin
<1>2. CASE Unprepare
  <2>1. op.pc = "unprepare" /\ UNCHANGED jr BY <1>2 DEF Unprepare, At
  <2>2. jr.phase = "preparing" BY <2>1 DEF IInv, PhaseFits, Due
  <2>3. CASE op' \in {To("unstage"), Stopped("third_value")} /\ UNCHANGED place
    BY <1>a, <1>b, <2>1, <2>3, SameJournal, GoesCareless, StopsCareless
  <2>4. ASSUME NEW u \in Units, Put(u, "prepared", Vacant), UNCHANGED op
        PROVE  Carries /\ SpareFits'
    <3>1. "prepared" \in Slots /\ "prepared" \in Locations BY DEF Slots, Locations
    <3>2. ~Theirs(u, "prepared") BY <2>2, <3>1 DEF BytesFit, PrivateFits
    <3>3. Carries BY <2>4, <3>1, <3>2, BytesApart DEF Carries
    <3> QED BY <2>1, <2>4, <3>3, NotCareful
  <2>5. CASE {u \in Units : place[u]["prepared"] # Vacant} # {}
    <3> DEFINE full == {u \in Units : place[u]["prepared"] # Vacant}
               u == CHOOSE v \in full : \A w \in full : v <= w
    <3>1. u \in Units BY <2>5, FirstUnit
    <3>2. \/ op' = Stopped("third_value") /\ UNCHANGED place
          \/ Put(u, "prepared", Vacant) /\ UNCHANGED op
      BY <1>2, <2>5 DEF Unprepare
    <3> HIDE DEF u
    <3> QED BY <2>1, <2>3, <2>4, <3>1, <3>2, SameJournal
  <2> QED BY <1>2, <2>3, <2>5 DEF Unprepare
<1>3. CASE Unstage BY <1>3, <1>a, <1>b, SameJournal, GoesCareless, StopsCareless DEF Unstage
<1>4. CASE Resolve \/ Recover
  <2>0. op' = Idle \/ op' = [Idle EXCEPT !.mode = "recover", !.pc = "begin"]
    <3>1. CASE Resolve BY <3>1 DEF Resolve
    <3>2. CASE Recover BY <3>2 DEF Recover
    <3> QED BY <1>4, <3>1, <3>2
  <2>1. Idle.pc = "idle" /\ [Idle EXCEPT !.mode = "recover", !.pc = "begin"].pc = "begin"
    BY DEF Idle
  <2>2. op'.pc \in {"idle", "begin"} BY <2>0, <2>1
  <2> QED BY <1>4, <1>b, <2>2, NotCareful, SameJournal DEF Resolve, Recover
<1>5. CASE CheckIdentity
  <2>1. UNCHANGED <<place, jr>> /\ op.pc = "check" BY <1>5 DEF CheckIdentity, At
  <2>2. CASE op' = Stopped("io_failed") BY <1>b, <2>1, <2>2, SameJournal, StopsCareless
  <2>3. CASE op' = To("rename")
    <3>1. op'.pc = "rename" /\ op'.to = op.to /\ op'.at = op.at BY <1>a, <2>3, OpTo
    <3>2. Intent' = Intent BY <2>1, <3>1 DEF Intent, Unit
    <3>3. SpareFits' BY <2>1, <3>1, <3>2 DEF BytesFit, SpareFits
    <3> QED BY <1>b, <2>1, <3>3, SameJournal
  <2> QED BY <1>5, <2>2, <2>3 DEF CheckIdentity
<1>6. CASE Die BY <1>6, <1>b, SameJournal, StopsCareless DEF Die
<1> QED BY <1>1, <1>2, <1>3, <1>4, <1>5, <1>6

LEMMA TornBytes ==
    ASSUME IInv, Sided, BytesFit, UNCHANGED plan, DieCreating \/ DieCleaning
    PROVE  Carries /\ Keeping /\ SpareFits'
<1> TypeOK BY DEF IInv
<1> USE DEF Outcomes
<1>0. op.at \in Units /\ u0 = op.at /\ {"prepared", "restoration"} \subseteq Slots /\ Slots \subseteq Locations
  BY UnitType DEF u0, Slots, Locations
<1>1. CASE DieCreating
  <2>1. op.pc = "create" BY <1>1 DEF DieCreating, At
  <2>2. Intent.restore = NoId BY <2>1 DEF IInv, IntentFits, Due
  <2>3. ~Theirs(op.at, "restoration") BY <1>0, <2>2 DEF BytesFit, PrivateFits, Intent, Unit
  <2>4. Kind[op.at] = "file" BY <2>1 DEF IInv, ModeFits, Due, FileSteps
  <2>5. Wanted \in Contents /\ Wanted \notin UserBytes
    BY <1>0, <2>4, UnitType, BytesApart DEF Wanted, OldContent
  <2>6. ASSUME NEW i \in NewIds, Put(u0, "restoration", [id |-> i, c |-> Wanted]) PROVE Carries
    <3>1. [id |-> i, c |-> Wanted] \in Objects BY <2>5, NewIdType DEF Objects
    <3> QED BY <1>0, <2>3, <2>5, <2>6, <3>1 DEF Carries
  <2>7. Carries BY <1>1, <2>6 DEF DieCreating, Carries
  <2> QED BY <1>1, <2>7, SameJournal, StopsCareless DEF DieCreating
<1>2. ASSUME NEW u \in Units, NEW l \in Slots, place[u][l] # Vacant, DieRemoving(u, l),
             Theirs(u, l) => GivenUp(u)
      PROVE  Carries /\ Keeping /\ SpareFits'
  <2>1. place[u][l] \in Objects BY <1>0, <1>2, PlaceType
  <2>2. [place[u][l] EXCEPT !.c = Torn] \in Objects /\ [place[u][l] EXCEPT !.c = Torn].c = Torn
    BY <2>1 DEF Objects, Contents
  <2>3. Carries BY <1>0, <1>2, <2>2, BytesApart DEF DieRemoving, Carries
  <2> QED BY <1>2, <2>3, SameJournal, StopsCareless DEF DieRemoving
<1>3. ASSUME NEW l \in {"original", "prepared", "quarantine"}, At("treeClean"), Here(l) # Vacant,
             ~Changed(l), DieRemoving(u0, l)
      PROVE  Carries /\ Keeping /\ SpareFits'
  <2>1. l \in Slots BY DEF Slots
  <2>2. Theirs(op.at, l) => GivenUp(op.at) BY <1>3, <2>1, TreeSpent DEF At
  <2> QED BY <1>0, <1>2, <1>3, <2>1, <2>2 DEF Here
<1>4. ASSUME NEW u \in Units, At("unprepare"), place[u]["prepared"] # Vacant, DieRemoving(u, "prepared")
      PROVE  Carries /\ Keeping /\ SpareFits'
  <2>1. jr.phase = "preparing" BY <1>4 DEF IInv, PhaseFits, Due, At
  <2>2. ~Theirs(u, "prepared") BY <1>0, <2>1 DEF BytesFit, PrivateFits
  <2> QED BY <1>0, <1>2, <1>4, <2>2
<1> QED BY <1>1, <1>3, <1>4 DEF DieCleaning

\* The one step that fills a private slot from a public path.
LEMMA RenameBytes ==
    ASSUME IInv, Sided, BytesFit, UNCHANGED plan, Rename
    PROVE  BytesFit' /\ BytesStay
<1> TypeOK BY DEF IInv
<1>0. /\ op.at \in Units /\ u0 = op.at /\ "target" \in Locations /\ "target" \notin Slots
      /\ Slots \subseteq Locations /\ op.pc = "rename" /\ UNCHANGED <<jr, edits>>
      /\ Unit = jr.unit[op.at] /\ Intent = jr.unit[op.at].intent
  BY UnitType DEF u0, Slots, Locations, Rename, At, bounds
<1>1. op.to \in Slots BY <1>0 DEF Sided, AsideFits, OwnSlots, Slots
<1>2. op.then \in Labels \ Careful BY <1>0 DEF IInv, ModeFits, Labels, Careful, ForwardSteps, FileSteps, TreeSteps
<1>3. SpareFits'
  <2>1. op' = To(op.then) \/ op' = Stopped("io_failed") BY DEF Rename
  <2> QED BY <1>2, <2>1, GoesCareless, StopsCareless DEF Outcomes
<1>4. CASE UNCHANGED place
  <2>1. Carries BY <1>4 DEF Carries
  <2> QED BY <1>0, <1>3, <2>1, SameJournal, BytesKept
<1>5. CASE place[op.at][op.to] = Vacant /\ Move(op.at, "target", op.to)
  <2>1. /\ OneCopy' /\ BytesStay
        /\ \A u \in Units, l \in Locations :
              Theirs(u, l)' => place'[u][l] = place[u][l] \/ (u = op.at /\ l = op.to)
    BY <1>0, <1>1, <1>5, MoveCarries DEF BytesFit
  <2>2. \A u \in Units, l \in Locations : Theirs(u, l)' => Theirs(u, l) \/ (u = op.at /\ l = op.to)
    BY <2>1 DEF Theirs
  <2>3. jr.phase = "publishing"
    BY <1>0 DEF IInv, ModeFits, PhaseFits, Due, Publishing, PublishingTree, FileSteps, TreeSteps
  <2>4. op.to = "restoration" => jr.unit[op.at].intent.restore # NoId
    BY <1>0 DEF BytesFit, SpareFits
  <2>5. "restoration" \in Locations BY DEF Locations, Slots
  <2>6. \A u \in Units : Theirs(u, "restoration")' => jr'.unit[u].intent.restore # NoId
    BY <1>0, <2>2, <2>4, <2>5 DEF BytesFit, PrivateFits
  <2>7. \A u \in Units : jr'.unit[u].oldTree.c \in UserBytes => Complete'[u]
    BY <1>0 DEF BytesFit, PrivateFits, Complete
  <2>8. PrivateFits' BY <1>0, <2>3, <2>6, <2>7 DEF PrivateFits, Theirs
  <2> QED BY <1>3, <2>1, <2>8 DEF BytesFit
<1> QED BY <1>0, <1>4, <1>5 DEF Rename, Here

\* An edit puts new bytes to a public path.
LEMMA EditBytes ==
    ASSUME IInv, BytesFit, UNCHANGED plan, NEW u \in Units, UserEdit(u)
    PROVE  BytesFit'
<1> TypeOK BY DEF IInv
<1>0. /\ UNCHANGED <<jr, op, committed>> /\ edits' = edits + 1 /\ edits < MaxEdits
      /\ "target" \in Locations /\ "target" \notin Slots /\ Slots \subseteq Locations
      /\ edits \in Nat /\ MaxEdits \in Nat
  BY LimitsAssumption DEF UserEdit, TypeOK, Slots, Locations
<1>1. \E o : Put(u, "target", o) /\ o.c \in {Absent, Edited[edits + 1], Old[u], New[u]}
  <2>1. CASE Put(u, "target", Vacant) BY <2>1 DEF Vacant
  <2>2. ASSUME NEW i, NEW c \in {Edited[edits + 1], Old[u], New[u]}, Put(u, "target", [id |-> i, c |-> c])
        PROVE  \E o : Put(u, "target", o) /\ o.c \in {Absent, Edited[edits + 1], Old[u], New[u]}
    <3>1. [id |-> i, c |-> c].c = c OBVIOUS
    <3> QED BY <2>2, <3>1
  <2> QED BY <2>1, <2>2 DEF UserEdit
<1> PICK o : Put(u, "target", o) /\ o.c \in {Absent, Edited[edits + 1], Old[u], New[u]} BY <1>1
<1>2. /\ place'[u]["target"] = o
      /\ \A m \in Locations : m # "target" => place'[u][m] = place[u][m]
      /\ \A v \in Units : v # u => place'[v] = place[v]
  BY <1>0, <1>1 DEF Put, TypeOK
<1>3. \A v \in Units, l \in Slots : place'[v][l] = place[v][l] BY <1>0, <1>2
<1>4. o.c \in UserBytes => o.c = Edited[edits + 1] BY <1>1, BytesApart
<1>5. edits + 1 \in 1 .. MaxEdits BY <1>0
<1>6. ASSUME NEW v \in Units, NEW l \in Locations, place[v][l].c = Edited[edits + 1] PROVE FALSE
  <2>1. edits + 1 <= edits BY <1>5, <1>6 DEF BytesFit, OneCopy
  <2> QED BY <1>0, <2>1
<1>7. ASSUME NEW v \in Units, NEW w \in Units, NEW l \in Locations, NEW m \in Locations,
             Theirs(v, l)', place'[w][m].c = place'[v][l].c
      PROVE  v = w /\ l = m
  <2>1. Theirs(w, m)' BY <1>7 DEF Theirs
  <2>2. ASSUME NEW x \in Units, NEW n \in Locations, Theirs(x, n)'
        PROVE  \/ x = u /\ n = "target" /\ place'[x][n].c = Edited[edits + 1]
               \/ ~(x = u /\ n = "target") /\ place'[x][n] = place[x][n]
    BY <1>2, <1>4, <2>2 DEF Theirs
  <2>3. CASE place'[v][l].c = Edited[edits + 1] BY <1>6, <1>7, <2>1, <2>2, <2>3
  <2>4. CASE place'[v][l].c # Edited[edits + 1]
    <3>1. place'[v][l] = place[v][l] /\ place'[w][m] = place[w][m] BY <1>7, <2>1, <2>2, <2>4
    <3>2. Theirs(v, l) /\ place[w][m].c = place[v][l].c BY <1>7, <3>1 DEF Theirs
    <3> QED BY <3>2 DEF BytesFit, OneCopy
  <2> QED BY <2>3, <2>4
<1>8. ASSUME NEW v \in Units, NEW l \in Locations, NEW k \in 1 .. MaxEdits, place'[v][l].c = Edited[k]
      PROVE  k <= edits'
  <2>1. CASE v = u /\ l = "target"
    <3>1. Edited[k] \in UserBytes BY DEF UserBytes
    <3>2. Edited[k] = Edited[edits + 1] BY <1>2, <1>4, <1>8, <2>1, <3>1
    <3>3. k = edits + 1 BY <1>5, <3>2, EditsAssumption
    <3> QED BY <1>0, <3>3
  <2>2. CASE ~(v = u /\ l = "target")
    <3>1. place[v][l].c = Edited[k] BY <1>2, <1>8, <2>2
    <3>2. k <= edits BY <3>1 DEF BytesFit, OneCopy
    <3> QED BY <1>0, <3>2
  <2> QED BY <2>1, <2>2
<1>9. OneCopy' BY <1>7, <1>8 DEF OneCopy, Theirs
<1>10. PrivateFits'
  <2>1. "restoration" \in Slots BY DEF Slots
  <2>2. \A v \in Units : Theirs(v, "restoration")' => Theirs(v, "restoration")
    BY <1>3, <2>1 DEF Theirs
  <2> QED BY <1>0, <1>3, <2>2 DEF BytesFit, PrivateFits, Theirs, Complete
<1>11. SpareFits'
  <2>1. op.at \in Units BY UnitType
  <2>2. Wanted' = Wanted /\ Side' = Side /\ Intent' = Intent
    BY <1>0 DEF Wanted, Side, OldContent, u0, Old, New, Intent, Unit
  <2> QED BY <1>0, <1>3, <2>1, <2>2 DEF BytesFit, SpareFits, Theirs, Complete
<1> QED BY <1>9, <1>10, <1>11 DEF BytesFit

LEMMA BeginsBytes == Init => BytesFit
<1> SUFFICES ASSUME Init PROVE BytesFit OBVIOUS
<1>0. op.pc = "stage" /\ Slots \subseteq Locations /\ "restoration" \in Slots
  BY DEF Init, Idle, Slots, Locations
<1>1. TypeOK BY Begins DEF IInv
<1>2. \A u \in Units, l \in Locations : ~Theirs(u, l)
  <2>1. \A u \in Units, l \in Locations : place[u][l].c \in {Absent, Old[u]}
    BY DEF Init, First, Vacant
  <2> QED BY <1>1, <2>1, BytesApart DEF Theirs
<1>3. OneCopy BY <1>2 DEF OneCopy, Theirs, UserBytes
<1>4. \A u \in Units : jr.unit[u].oldTree.c \in {Absent, Old[u]} BY DEF Init, First, Vacant
<1>5. PrivateFits BY <1>0, <1>1, <1>2, <1>4, BytesApart DEF PrivateFits
<1>6. SpareFits BY <1>0 DEF SpareFits
<1> QED BY <1>3, <1>5, <1>6 DEF BytesFit

\* Every step but an edit keeps what the user wrote.
LEMMA KeepsBytes ==
    ASSUME IInv, Sided, BytesFit, [Next]_vars
    PROVE  BytesFit' /\ (edits' = edits => BytesStay)
<1> TypeOK BY DEF IInv
<1>1. CASE UNCHANGED vars
  <2>1. UNCHANGED <<plan, place, jr, committed, op, edits>> BY <1>1 DEF vars
  <2>2. Wanted' = Wanted /\ Side' = Side /\ Intent' = Intent
    BY <2>1 DEF Wanted, Side, OldContent, u0, Old, New, Intent, Unit
  <2>3. SpareFits' BY <2>1, <2>2 DEF BytesFit, SpareFits, Theirs, Complete
  <2>4. Carries BY <2>1 DEF Carries
  <2> QED BY <2>1, <2>3, <2>4, SameJournal, BytesKept
<1>2. CASE Next
  <2>0. UNCHANGED plan BY <1>2 DEF Next
  <2>1. ASSUME NEW u \in Units, UserEdit(u) PROVE BytesFit' /\ edits' # edits
    <3>1. edits' = edits + 1 /\ edits \in Nat BY <2>1, LimitsAssumption DEF UserEdit, TypeOK
    <3> QED BY <2>0, <2>1, <3>1, EditBytes
  <2>2. CASE Rename BY <2>0, <2>2, RenameBytes
  <2>3. CASE \/ Forward \/ recoverFile \/ recoverDirectory
             \/ Begin \/ Unprepare \/ Unstage \/ Resolve \/ Recover \/ CheckIdentity \/ Die
             \/ DieCreating \/ DieCleaning
    <3>1. Carries /\ Keeping /\ SpareFits'
      BY <2>0, <2>3, ForwardBytes, FileBytes, TreeBytes, AroundBytes, TornBytes
    <3>2. edits' = edits
      <4>1. CASE Forward
        BY <4>1 DEF bounds, Forward, CreateStaging, ReceiveStaging, CreatePrepared, IdentifyPrepared,
           FillPrepared, PermitPublishing, OverwriteFile, CaptureTree, CheckRetained, PublishTree,
           CompareTree, Verify, Commit
      <4>2. CASE recoverFile
        BY <4>2 DEF bounds, recoverFile, StartFile, ScrubRestoration, InspectFileSlots, InspectFile,
           CreateRestoration, ReceiptRestoration, Displace, CheckDisplaced, PlaceFile, ConfirmFile, Clean
      <4>3. CASE recoverDirectory
        BY <4>3 DEF bounds, recoverDirectory, StartTree, InspectTreeSlots, MoveTree, CheckDisplaced,
           PlaceTree, ConfirmTree, Clean
      <4>4. CASE Begin \/ Unprepare \/ Unstage \/ Resolve \/ Recover \/ CheckIdentity \/ Die
        BY <4>4 DEF bounds, Begin, Unprepare, Unstage, Resolve, Recover, CheckIdentity, Die
      <4>5. CASE DieCreating \/ DieCleaning BY <4>5 DEF DieCreating, DieCleaning, DieRemoving
      <4> QED BY <2>3, <4>1, <4>2, <4>3, <4>4, <4>5
    <3> QED BY <2>0, <3>1, <3>2, BytesKept
  <2> QED BY <1>2, <2>1, <2>2, <2>3 DEF Next, Step
<1> QED BY <1>1, <1>2

\* Whatever executes, recovers or dies, a step that takes bytes the user wrote
\* from a place leaves them in another place of the publication, except in what
\* the user gave up: files of a complete replacement, at any time, and trees of
\* one after the commit, may lose them.
THEOREM WhatTheUserWroteStays == Spec => UserBytesKept
<1>1. Spec => []Sided
  <2>1. IInv /\ Sided /\ [Next]_vars => Sided' BY KeepsSided
  <2> QED BY <2>1, BeginsSided, Invariance, PTL DEF Spec
<1>2. Spec => []BytesFit
  <2>1. IInv /\ Sided /\ BytesFit /\ [Next]_vars => BytesFit' BY KeepsBytes
  <2> QED BY <1>1, <2>1, BeginsBytes, Invariance, PTL DEF Spec
<1>3. IInv /\ Sided /\ BytesFit /\ [Next]_vars =>
        (edits' = edits =>
          \A u \in Units, l \in Locations, k \in 1 .. MaxEdits :
            /\ place[u][l].c = Edited[k]
            /\ \A m \in Locations : place'[u][m] # place[u][l]
            => Complete[u] /\ (Kind[u] = "file" \/ committed))
  <2>1. IInv /\ Sided /\ BytesFit /\ [Next]_vars => (edits' = edits => BytesStay) BY KeepsBytes
  <2> QED BY <2>1 DEF BytesStay, Theirs, UserBytes, GivenUp
<1> QED BY <1>1, <1>2, <1>3, Invariance, PTL DEF Spec, UserBytesKept
=============================================================================
