--------------------------- MODULE MCHostSession ---------------------------
(* Small instances of HostSession.                                          *)
EXTENDS HostSession

CONSTANTS i1, i2, w1, w2, r1, r2, o1, m1, x1

\* i: initialize, w: an operation, r: a restore, o: observe, m: a mutation,
\* x: the cancellation of a comparison.
MCMethod == [r \in Requests |->
    CASE r \in {i1, i2} -> "initialize"
      [] r = w1 -> "compare"
      [] r = w2 -> "work"
      [] r \in {r1, r2} -> "restore"
      [] r = o1 -> "observe"
      [] r = m1 -> "write"
      [] r = x1 -> "cancel"]
==============================================================================
