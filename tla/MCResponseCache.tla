-------------------------- MODULE MCResponseCache ---------------------------
(***************************************************************************)
(* A small instance of ResponseCache: a list of one page and two resources *)
(* under a bound of one, two callers and two partitions.                   *)
(***************************************************************************)
EXTENDS ResponseCache, TLC

CONSTANTS m1, g1, r1, r2, p1, p2, c1, c2

Symmetry ==
  Permutations(Calls) \cup Permutations(Uris) \cup Permutations(Partitions)
=============================================================================
