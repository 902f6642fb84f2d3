----------------------- MODULE MCDeploymentTransaction -----------------------
(* Small instances of DeploymentTransaction.                                *)
EXTENDS DeploymentTransaction, TLC

CONSTANTS file1, file2, file3, folder, dep1, first, changed, user, in1, asset1, asset2

Data(c) == [bytes |-> c, exec |-> FALSE]
Script(c) == [bytes |-> c, exec |-> TRUE]
Put(x, s) == [y \in Paths |-> IF y = x THEN s ELSE Absent]
PutAlso(t, x, s) == [t EXCEPT ![x] = s]

\* Each path locked alone; or the first two under one managed boundary.
ApartClosure == [x \in Paths |-> {x}]
SharedClosure == [x \in Paths |-> IF x \in {file1, file2} THEN {x, folder} ELSE {x}]

\* The first two paths collide in their boundary only, the third is wanted by
\* both Deployments with the same bytes, and each of them can also deploy beside the other. One
\* step of each plan is a removal.
CrossPlan == [d \in Deployments |-> [i \in Inputs |->
    CASE d = dep1 /\ i = in1 -> Put(file1, Data(first))
      [] d = dep1 /\ i # in1 -> PutAlso(Put(file1, Data(changed)), file3, Data(changed))
      [] d # dep1 /\ i = in1 -> Put(file2, Data(first))
      [] OTHER -> Put(file3, Data(changed))]]

\* Two paths: one file is created, then changed and a second one created.
GrowingPlan == [d \in Deployments |-> [i \in Inputs |->
    IF i = in1 THEN Put(file1, Data(first))
               ELSE PutAlso(Put(file1, Data(changed)), file2, Data(changed))]]
\* The same, and the mode of the first file changes with its content.
ScriptPlan == [d \in Deployments |-> [i \in Inputs |->
    IF i = in1 THEN Put(file1, Data(first))
               ELSE PutAlso(Put(file1, Script(changed)), file2, Data(changed))]]
\* Both Deployments want both paths.
SharedPlan == [d \in Deployments |-> [i \in Inputs |->
    CASE d = dep1 /\ i = in1 -> Put(file1, Data(first))
      [] d = dep1 /\ i # in1 -> PutAlso(Put(file1, Data(changed)), file2, Data(changed))
      [] d # dep1 /\ i = in1 -> Put(file2, Data(first))
      [] OTHER -> Put(file1, Data(first))]]

MCAssetsOf == [i \in Inputs |-> IF i = in1 THEN {asset1} ELSE {asset2}]
MCFirst == [d \in Deployments |-> in1]
NoFiles == NoContents
MCUserFiles == {Absent, Data(user)}
Interchangeable == Permutations(Procs) \cup Permutations(Txns)
==============================================================================
