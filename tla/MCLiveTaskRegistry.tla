------------------------- MODULE MCLiveTaskRegistry -------------------------
(***************************************************************************)
(* A small instance of LiveTaskRegistry: two executions under two          *)
(* cancellers with different reasons and a drain, with uncaught panics.    *)
(***************************************************************************)
EXTENDS LiveTaskRegistry

CONSTANTS e1, e2, x1, x2, d1, r1, r2
=============================================================================
