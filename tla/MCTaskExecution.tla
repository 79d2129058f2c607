-------------------------- MODULE MCTaskExecution ---------------------------
(***************************************************************************)
(* Small instances of TaskExecution: live and ordinary tasks with two      *)
(* input request keys and two updates in flight.  Payloads weigh nothing.  *)
(***************************************************************************)
EXTENDS TaskExecution, TLC

CONSTANTS t1, t2, k1, k2, s1, s2, i1, i2, u1, u2, q1, a1

Weightless == {0}

\* One of the requests is made, so that every kind of task is checked in one
\* run; FinalUnlessLive holds throughout.
OneRequest == \A t, u \in Tasks : call[t] # "none" /\ call[u] # "none" => t = u

EitherSpec ==
  Init /\ [][Next /\ OneRequest' /\ FinalUnlessLive']_vars /\ Fairness
=============================================================================
