--------------------------- MODULE MCClientLoop ----------------------------
(***************************************************************************)
(* Small instances of ClientLoop: two callers, one of them a callback of a *)
(* server request, one subscription and one request of the server.         *)
(***************************************************************************)
EXTENDS ClientLoop, TLC

CONSTANTS c1, c2, s1, r1

\* The first caller shakes hands and calls, the second calls once.
HandshakeAndCall == c1 :> 2 @@ c2 :> 1

\* A client keeps to the lifecycle it started with, and one caller at a time
\* has it shake hands.
OneLifecycle ==
  LET shaking == { c \in Callers : caller[c].doing \in Handshakes }
  IN /\ Cardinality(shaking) =< 1
     /\ final \/ (\E c \in shaking : caller[c].doing = "discover") => opened = 0

\* A second future is dropped only after nothing is left of the first.
Tidy ==
  \A id \in Mentioned \ (Subscribers \cup Requests \cup {Nobody}) :
    \E c \in Callers : Awaiting(c) /\ Oneshot(c) = id

OneAtATime == \A c \in Callers : Abandon(c) => Tidy

OneLifecycleSpec ==
  Init /\ [][Next /\ OneLifecycle' /\ OneAtATime]_vars /\ Fairness
=============================================================================
