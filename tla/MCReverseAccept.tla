--------------------------- MODULE MCReverseAccept --------------------------
(* Small instances of ReverseAccept.                                         *)
EXTENDS ReverseAccept

CONSTANTS p1, p2, a1, d1

OneAsset == [d \in Deployments |-> {a1}]
OneDeployment == [i \in Preps |-> d1]
SameAsset == [i \in Preps |-> a1]
=============================================================================
