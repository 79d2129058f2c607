--------------------------- MODULE TaskLifecycle ----------------------------
(***************************************************************************)
(* What a task store promises of each task, whoever calls it and in        *)
(* whatever order: a task is created once, asks and is answered while it   *)
(* is open, closes once, and after that can only disappear.  Storage,      *)
(* limits, locks and clocks are left to the store (TaskStore implements    *)
(* this specification).                                                    *)
(***************************************************************************)
CONSTANTS Ids, Keys

VARIABLES
  phase,   \* what get_task shows: a status, "unborn", or "gone" for absent
  asked,   \* input request keys outstanding on an open task
  spent,   \* keys an open task may not ask for again
  raised   \* the cancellation token of each task

vars == <<phase, asked, spent, raised>>

OpenPhase     == {"working", "input_required"}
TerminalPhase == {"completed", "failed", "cancelled"}

Init ==
  /\ phase = [t \in Ids |-> "unborn"]
  /\ asked = [t \in Ids |-> {}]
  /\ spent = [t \in Ids |-> {}]
  /\ raised = [t \in Ids |-> FALSE]

IsOpen(t) == phase[t] \in OpenPhase

Becomes(t, p, outstanding, used) ==
  /\ phase' = [phase EXCEPT ![t] = p]
  /\ asked' = [asked EXCEPT ![t] = outstanding]
  /\ spent' = [spent EXCEPT ![t] = used]

Create(t) ==
  /\ phase[t] = "unborn"
  /\ Becomes(t, "working", {}, {})
  /\ UNCHANGED raised

\* A new set of requests supersedes the outstanding ones.
Ask(t, requested) ==
  /\ IsOpen(t)
  /\ requested \cap spent[t] = {}
  /\ Becomes(t, "input_required", requested,
             spent[t] \cup (asked[t] \ requested))
  /\ UNCHANGED raised

\* The answer to the last outstanding request takes the task back to work.
Answer(t, answered) ==
  /\ IsOpen(t)
  /\ answered \subseteq asked[t]
  /\ Becomes(t, IF answered = asked[t] THEN "working" ELSE phase[t],
             asked[t] \ answered, spent[t] \cup answered)
  /\ UNCHANGED raised

Progress(t, p) ==
  /\ IsOpen(t) /\ p \in OpenPhase
  /\ Becomes(t, p, asked[t], spent[t])
  /\ UNCHANGED raised

\* Cancelling a task raises its token in the same step.
Close(t, p) ==
  /\ IsOpen(t) /\ p \in TerminalPhase
  /\ Becomes(t, p, {}, {})
  /\ raised' = IF p = "cancelled" THEN [raised EXCEPT ![t] = TRUE] ELSE raised

Vanish(t) ==
  /\ phase[t] # "gone" /\ phase[t] # "unborn"
  /\ Becomes(t, "gone", {}, {})
  /\ raised' \in {raised, [raised EXCEPT ![t] = TRUE]}

\* Expiry signals, cancellations of closed tasks, and holders of a token.
Raise ==
  /\ \A t \in Ids : raised[t] => raised'[t]
  /\ raised' \in [Ids -> BOOLEAN]
  /\ UNCHANGED <<phase, asked, spent>>

Next ==
  \/ Raise
  \/ \E t \in Ids :
       \/ Create(t) \/ Vanish(t)
       \/ \E S \in SUBSET Keys : Ask(t, S) \/ Answer(t, S)
       \/ \E p \in OpenPhase : Progress(t, p)
       \/ \E p \in TerminalPhase : Close(t, p)

Spec == Init /\ [][Next]_vars
=============================================================================
