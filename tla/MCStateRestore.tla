--------------------------- MODULE MCStateRestore ---------------------------
(* Small instances of StateRestore.                                         *)
EXTENDS StateRestore

CONSTANTS h1, h2, r1, r2
=============================================================================
