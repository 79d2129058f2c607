-------------------------- MODULE MCTokenRefresh ---------------------------
(***************************************************************************)
(* A small instance of TokenRefresh: two flows that share a store, one     *)
(* with two callers.                                                       *)
(***************************************************************************)
EXTENDS TokenRefresh

CONSTANTS f1, f2, c1, c2

\* The first caller authorizes the first flow, also while it holds a token; the
\* second calls get_token in both flows, and contends for the authorization_lock
\* of the first until it fails.  One token of the first flow is rejected between
\* authorizations, token sets live equally long, and a grant is revoked as a
\* whole, while there is one to come.
Authorizations ==
  /\ call[c1].flow = f1 => call[c1].authorizes
  /\ Is(c1, "beginning") => call[c1].drives
  /\ call[c2].authorizes =>
       call[c2].flow = f1 /\ call[c2].pc \in {"waiting", "beginning"}

Stays ==
  /\ call[c1].flow # f2 /\ Authorizations
  /\ rejected[f1] \in {{}} \cup { {t} : t \in Tokens } /\ rejected[f2] = {}
  /\ expired \in { 1..n : n \in 0..MaxToken }
  /\ redeemable = {} => issued < MaxToken

WhenRevoked == redeemable' \in {{}, redeemable} \/ issued' # issued

SharedSpec == Init /\ [][Next /\ Stays' /\ WhenRevoked]_vars /\ Fairness
=============================================================================
