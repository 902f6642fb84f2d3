----------------------- MODULE TransactionReservation -----------------------
(***************************************************************************)
(* What the deployment journal promises, without saying how: a             *)
(* transaction opens once, holding a set of physical keys nobody else      *)
(* holds; it is committed at most once, and only while open; and it keeps  *)
(* its keys, whatever process dies, until it is closed.                    *)
(*                                                                         *)
(* DeploymentTransaction implements this with marker files, kernel leases, *)
(* a scan of the markers and one pointer in the state database.            *)
(***************************************************************************)
CONSTANTS
    Txns,   \* transaction identifiers, each used for one transaction
    Keys    \* physical keys: a file, a directory

VARIABLES
    stage,  \* stage[t]: how far transaction t has come
    held    \* held[t]: the keys t reserves

vars == <<stage, held>>

Stages == {"unused", "open", "committed", "closed"}

TypeOK ==
    /\ stage \in [Txns -> Stages]
    /\ held \in [Txns -> SUBSET Keys]

Init ==
    /\ stage = [t \in Txns |-> "unused"]
    /\ held = [t \in Txns |-> {}]

Open(t) ==
    /\ stage[t] = "unused"
    /\ stage' = [stage EXCEPT ![t] = "open"]
    /\ \E S \in SUBSET Keys :
        /\ \A u \in Txns : held[u] \cap S = {}
        /\ held' = [held EXCEPT ![t] = S]

Commit(t) ==
    /\ stage[t] = "open"
    /\ stage' = [stage EXCEPT ![t] = "committed"]
    /\ UNCHANGED held

Close(t) ==
    /\ stage[t] \in {"open", "committed"}
    /\ stage' = [stage EXCEPT ![t] = "closed"]
    /\ held' = [held EXCEPT ![t] = {}]

Next == \E t \in Txns : Open(t) \/ Commit(t) \/ Close(t)

Spec == Init /\ [][Next]_vars
=============================================================================
