--------------------------- MODULE MCStdioServer ----------------------------
(***************************************************************************)
(* Small instances of StdioServer: an initialize and two calls, all of one *)
(* id, under a limit of one or two.                                        *)
(***************************************************************************)
EXTENDS StdioServer

CONSTANTS h, r1, r2, i1

SharedId == [r \in Requests |-> i1]
OneOrTwo == {1, 2}
=============================================================================
