---------------------------- MODULE StateProfile ----------------------------
(***************************************************************************)
(* What a whole-state restore promises, without saying how: the profile    *)
(* that is in force is edited in place or replaced, as a unit, by the      *)
(* content of one backup; the profile it replaces is kept whole, its last  *)
(* edit included.                                                          *)
(*                                                                         *)
(* StateRestore implements this with directories, a phase marker and a     *)
(* reconciliation at every start of a Host.                                *)
(***************************************************************************)
EXTENDS Naturals

CONSTANTS
    Restores,   \* restore identifiers, each used for one backup
    Own         \* the profile the user started with

VARIABLES
    authority,  \* the profile in force: where it comes from, edits made to it
    kept        \* the profiles that were replaced

vars == <<authority, kept>>

Content == [of : Restores \cup {Own}, edits : Nat]

Init ==
    /\ authority = [of |-> Own, edits |-> 0]
    /\ kept = {}

Edit ==
    /\ authority' = [authority EXCEPT !.edits = @ + 1]
    /\ UNCHANGED kept

Replace(r) ==
    /\ \A c \in kept \cup {authority} : c.of # r
    /\ authority' = [of |-> r, edits |-> 0]
    /\ kept' = kept \cup {authority}

Next == Edit \/ \E r \in Restores : Replace(r)

Spec == Init /\ [][Next]_vars
=============================================================================
