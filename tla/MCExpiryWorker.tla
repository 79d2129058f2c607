--------------------------- MODULE MCExpiryWorker ---------------------------
(***************************************************************************)
(* A small instance of ExpiryWorker: two task slots and two writers, TTLs  *)
(* below and at the cleanup interval, and a maximal sleep between them.    *)
(***************************************************************************)
EXTENDS ExpiryWorker

CONSTANTS t1, t2, w1, w2

ShortAndLong == {0, 1, 3}
=============================================================================
