----------------------- MODULE MCDeploymentPublication -----------------------
(* Small instances of DeploymentPublication.                                *)
EXTENDS DeploymentPublication

CONSTANTS old1, new1, old2, new2, user1, user2

\* Publication 1 is a tree, publication 2 a file.
TreeAndFile == <<"directory", "file">>

Plan(complete, old, new) == [complete |-> complete, old |-> old, new |-> new]
Nowhere == [u \in Units |-> FALSE]
Trees == [u \in Units |-> Kind[u] = "directory"]
RegularFiles == [u \in Units |-> Kind[u] = "file"]

OldSides == <<old1, old2>>
NewSides == <<new1, new2>>
NoTree == <<Absent, old2>>
NoFile == <<new1, Absent>>

\* A protected tree and file, both replaced; a complete tree beside a file that
\* is removed; a protected tree that appears, a complete file.
MCPlans == {Plan(Nowhere, OldSides, NewSides), Plan(Trees, OldSides, NoFile),
            Plan(RegularFiles, NoTree, NewSides)}
MCEdited == [k \in 1 .. MaxEdits |-> IF k = 1 THEN user1 ELSE user2]
==============================================================================
