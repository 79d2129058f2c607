------------------------ MODULE MCSessionRegistry --------------------------
(***************************************************************************)
(* A small instance of SessionRegistry: the instance that gives the        *)
(* session to its client, with two requests at once, and a second one that *)
(* the client is routed to now and then.  The first request is the one     *)
(* that initializes, the second the one that deletes; both ask.            *)
(* auto_reinitialize_sessions is for an instance without an external store *)
(* and is checked on one.                                                  *)
(***************************************************************************)
EXTENDS SessionRegistry

CONSTANTS i1, i2, r1, r2

RoutedTo2 ==
  /\ transient[i2] = 0
  /\ At(r1) # i2 /\ (auto => At(r2) # i2)
  /\ request[r1].pc \notin {"deleting live", "loading to delete"}
  /\ request[r2].pc # "admitting"
  /\ At(r2) = i2 => request[r2].pc # "failing"

RoutedSpec == Init /\ [][Next /\ RoutedTo2']_vars /\ Fairness
=============================================================================
