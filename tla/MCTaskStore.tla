---------------------------- MODULE MCTaskStore -----------------------------
(***************************************************************************)
(* Small instances of TaskStore.  The lifecycle instance makes every       *)
(* payload weightless, so that no limit is ever met and the interleavings  *)
(* are all that matters; the retention instance gives payloads weight and  *)
(* tight limits.                                                           *)
(***************************************************************************)
EXTENDS TaskStore, TLC

CONSTANTS t1, t2, k1, k2, c1, c2, w1, w2, q1, q2, a1

Weightless == {0}
SomeLoads  == {0, 2, 3}

IdSymmetry == Permutations({t1, t2})
=============================================================================
