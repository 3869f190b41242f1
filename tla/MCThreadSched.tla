--------------------------- MODULE MCThreadSched ---------------------------
(* Small instances of ThreadSched: three TCBs, one wait queue. *)
EXTENDS ThreadSched

CONSTANTS t1, t2, t3, q1

Others == Permutations({t2, t3})
=============================================================================
