-------------------------- MODULE LiveTaskRegistry --------------------------
(***************************************************************************)
(* task_execution.rs: admission, cancellation and drain of live task       *)
(* executions, driven by the live branch of tools/call in router.rs.       *)
(*                                                                         *)
(* The registry's mutex makes each of its methods one step.  cancel_all    *)
(* takes the lock only to collect its targets and then cancels them one    *)
(* by one, each in two steps (the reason, then the token); drained sleeps  *)
(* on a watch channel that carries the active count.                       *)
(***************************************************************************)
EXTENDS Integers, FiniteSets

CONSTANTS
  Executions,  \* tools/call requests for live tools
  Cancellers,  \* host calls of cancel_all and client calls of tasks/cancel
  Drainers,    \* host calls of drained
  Reasons,     \* cancellation reasons
  NoReason,    \* none given yet
  CatchPanics  \* whether the router has a panic policy

ASSUME RegistryAssumption ==
  /\ IsFiniteSet(Executions)
  /\ NoReason \notin Reasons
  /\ CatchPanics \in BOOLEAN

VARIABLES
  admissionOpen,  \* RegistryState.admission_open
  reservations,   \* RegistryState.reservations
  executions,     \* RegistryState.executions
  announced,      \* the value in the active_count watch channel
  stage,          \* where each tools/call and its spawned handler are
  reason,         \* CancellationState.reason, NoReason until requested
  raised,         \* LiveTaskCancellation.token
  canceller,      \* where each canceller is and whom it still has to cancel
  drainer         \* where each drained() call is

registry == <<admissionOpen, reservations, executions, announced>>
vars == <<registry, stage, reason, raised, canceller, drainer>>

\* `returned`: the handler future is over, its outcome not yet recorded.
\* `lost`: it panicked with no panic policy, so nothing records an outcome.
Stage == {"new", "refused", "preparing", "running", "returned", "recorded",
          "lost", "settled"}

Idle == [pc |-> "idle", why |-> NoReason, aim |-> {}, todo |-> {}, now |-> {}]

Init ==
  /\ admissionOpen = TRUE /\ reservations = {} /\ executions = {}
  /\ announced = 0
  /\ stage = [e \in Executions |-> "new"]
  /\ reason = [e \in Executions |-> NoReason]
  /\ raised = [e \in Executions |-> FALSE]
  /\ canceller = [c \in Cancellers |-> Idle]
  /\ drainer = [d \in Drainers |-> [pc |-> "idle", unseen |-> FALSE,
                                    sealed |-> FALSE]]

Active == reservations \cup executions

ActiveCount(reserved, running) == Cardinality(reserved) + Cardinality(running)

Moves(e, from, to) == stage[e] = from /\ stage' = [stage EXCEPT ![e] = to]

\* send_replace: the new count, and a version no receiver has seen.
Announce(count) ==
  /\ announced' = count
  /\ drainer' = [d \in Drainers |-> [drainer[d] EXCEPT !.unseen = TRUE]]
-----------------------------------------------------------------------------
\* admit, before the store allocates a record.
Admit(e) ==
  /\ admissionOpen
  /\ Moves(e, "new", "preparing")
  /\ reservations' = reservations \cup {e}
  /\ Announce(ActiveCount(reservations', executions))
  /\ UNCHANGED <<admissionOpen, executions, reason, raised, canceller>>

Refuse(e) ==
  /\ ~admissionOpen
  /\ Moves(e, "new", "refused")
  /\ UNCHANGED <<registry, reason, raised, canceller, drainer>>

\* Creation or preparation fails and the admission is dropped.
Release(e) ==
  /\ Moves(e, "preparing", "settled")
  /\ reservations' = reservations \ {e}
  /\ Announce(ActiveCount(reservations', executions))
  /\ UNCHANGED <<admissionOpen, executions, reason, raised, canceller>>

\* Mutated: the reservation is given back before the execution is inserted.
PromoteWithGap(e) ==
  /\ Moves(e, "preparing", "running")
  /\ reservations' = reservations \ {e}
  /\ executions' = executions \cup {e}
  /\ Announce(ActiveCount(reservations', executions))
  /\ UNCHANGED <<admissionOpen, reason, raised, canceller>>

\* promote: one lock, and the count does not change.
Promote(e) ==
  /\ Moves(e, "preparing", "running")
  /\ reservations' = reservations \ {e}
  /\ executions' = executions \cup {e}
  /\ UNCHANGED <<admissionOpen, announced, reason, raised, canceller, drainer>>

HandlerReturns(e) ==
  /\ Moves(e, "running", "returned")
  /\ UNCHANGED <<registry, reason, raised, canceller, drainer>>

HandlerPanics(e) ==
  /\ Moves(e, "running", IF CatchPanics THEN "returned" ELSE "lost")
  /\ UNCHANGED <<registry, reason, raised, canceller, drainer>>

\* The terminal write of the outcome, applied or refused by the store.
RecordOutcome(e) ==
  /\ Moves(e, "returned", "recorded")
  /\ UNCHANGED <<registry, reason, raised, canceller, drainer>>

\* Mutated: the drains are not told.
UnregisterSilently(e) ==
  /\ Moves(e, "recorded", "settled") \/ Moves(e, "lost", "settled")
  /\ executions' = executions \ {e}
  /\ UNCHANGED <<admissionOpen, reservations, announced, reason, raised,
                 canceller, drainer>>

\* Dropping the registration, explicitly or while a panic unwinds.
Unregister(e) ==
  /\ Moves(e, "recorded", "settled") \/ Moves(e, "lost", "settled")
  /\ executions' = executions \ {e}
  /\ Announce(ActiveCount(reservations, executions'))
  /\ UNCHANGED <<admissionOpen, reservations, reason, raised, canceller>>

CloseAdmission ==
  /\ admissionOpen /\ admissionOpen' = FALSE
  /\ UNCHANGED <<reservations, executions, announced, stage, reason, raised,
                 canceller, drainer>>
-----------------------------------------------------------------------------
Begin(c, why, aim, targets) ==
  /\ canceller[c].pc = "idle"
  /\ canceller' = [canceller EXCEPT ![c] =
       [pc |-> "collected", why |-> why, aim |-> aim, todo |-> targets,
        now |-> {}]]
  /\ UNCHANGED <<registry, stage, reason, raised, drainer>>

\* Mutated: executions still in preparation are not collected.
CancelAllPromoted(c, why) == Begin(c, why, Active, executions)

\* cancel_all collects its targets under the lock.
CancelAll(c, why) == Begin(c, why, Active, Active)

\* tasks/cancel of a live task, which finds it by id.
CancelOne(c, why, e) == e \in executions /\ Begin(c, why, {e}, {e})

Request(c, e) ==
  [canceller EXCEPT ![c].todo = @ \ {e}, ![c].now = {e}]

\* LiveTaskCancellation::cancel: the first reason is kept, then the token.
GiveReason(c, e) ==
  /\ canceller[c].pc = "collected" /\ canceller[c].now = {}
  /\ e \in canceller[c].todo
  /\ reason' = IF reason[e] = NoReason
               THEN [reason EXCEPT ![e] = canceller[c].why] ELSE reason
  /\ canceller' = Request(c, e)
  /\ UNCHANGED <<registry, stage, raised, drainer>>

RaiseToken(c) ==
  /\ canceller[c].now # {}
  /\ raised' = [e \in Executions |-> raised[e] \/ e \in canceller[c].now]
  /\ canceller' = [canceller EXCEPT ![c].now = {}]
  /\ UNCHANGED <<registry, stage, reason, drainer>>

FinishCancelling(c) ==
  /\ canceller[c].pc = "collected"
  /\ canceller[c].todo = {} /\ canceller[c].now = {}
  /\ canceller' = [canceller EXCEPT ![c].pc = "done"]
  /\ UNCHANGED <<registry, stage, reason, raised, drainer>>
-----------------------------------------------------------------------------
\* drained: subscribe, then read the count and sleep until it is replaced.
Subscribe(d) ==
  /\ drainer[d].pc = "idle"
  /\ drainer' = [drainer EXCEPT ![d] = [pc |-> "looking", unseen |-> FALSE,
                                        sealed |-> ~admissionOpen]]
  /\ UNCHANGED <<registry, stage, reason, raised, canceller>>

Look(d) ==
  /\ drainer[d].pc = "looking"
  /\ drainer' = [drainer EXCEPT
       ![d].pc = IF announced = 0 THEN "resolved" ELSE "sleeping",
       ![d].unseen = FALSE]
  /\ UNCHANGED <<registry, stage, reason, raised, canceller>>

Changed(d) ==
  /\ drainer[d].pc = "sleeping" /\ drainer[d].unseen
  /\ drainer' = [drainer EXCEPT ![d].pc = "looking"]
  /\ UNCHANGED <<registry, stage, reason, raised, canceller>>

ExecutionStep(e) ==
  \/ Release(e) \/ Promote(e) \/ HandlerReturns(e) \/ HandlerPanics(e)
  \/ RecordOutcome(e) \/ Unregister(e)

CancellerStep(c) ==
  \/ RaiseToken(c) \/ FinishCancelling(c)
  \/ \E e \in Executions : GiveReason(c, e)

DrainerStep(d) == Look(d) \/ Changed(d)

Next ==
  \/ CloseAdmission
  \/ \E e \in Executions : ExecutionStep(e) \/ Admit(e) \/ Refuse(e)
  \/ \E c \in Cancellers :
       \/ CancellerStep(c)
       \/ \E why \in Reasons :
            CancelAll(c, why) \/ \E e \in Executions : CancelOne(c, why, e)
  \/ \E d \in Drainers : DrainerStep(d) \/ Subscribe(d)

Spec == Init /\ [][Next]_vars

\* The runtime polls every future to its end; that handlers return is the
\* embedding application's part.
Fairness ==
  /\ \A e \in Executions : WF_vars(ExecutionStep(e))
  /\ \A c \in Cancellers : WF_vars(CancellerStep(c))
  /\ \A d \in Drainers : WF_vars(DrainerStep(d))

FairSpec == Spec /\ Fairness
-----------------------------------------------------------------------------
\* Every variable of the registry and its users has its type.
TypeOK ==
  /\ admissionOpen \in BOOLEAN
  /\ reservations \subseteq Executions /\ executions \subseteq Executions
  /\ announced \in Nat
  /\ stage \in [Executions -> Stage]
  /\ reason \in [Executions -> Reasons \cup {NoReason}]
  /\ raised \in [Executions -> BOOLEAN]
  /\ canceller \in [Cancellers ->
       [pc : {"idle", "collected", "done"}, why : Reasons \cup {NoReason},
        aim : SUBSET Executions, todo : SUBSET Executions,
        now : SUBSET Executions]]
  /\ drainer \in [Drainers ->
       [pc : {"idle", "looking", "sleeping", "resolved"}, unseen : BOOLEAN,
        sealed : BOOLEAN]]

\* The count drains sleep on is the count of unsettled executions, in the gap
\* between reservation and promotion too.
CountIsExact ==
  announced = Cardinality({ e \in Executions :
                stage[e] \in {"preparing", "running", "returned", "recorded",
                              "lost"} })

\* A drain begun after admission closed resolves only when every admitted
\* execution has left its handler and recorded what it could; none comes later.
DrainedIsFinal ==
  \A d \in Drainers :
    drainer[d].pc = "resolved" /\ drainer[d].sealed =>
      \A e \in Executions : stage[e] \in {"new", "refused", "settled"}

\* Whoever sees the token also sees the reason, and it never changes under it.
ReasonIsSettled ==
  [][\A e \in Executions :
       /\ raised'[e] => reason'[e] # NoReason
       /\ reason[e] # NoReason => reason'[e] = reason[e]]_vars

\* cancel_all reaches every execution that was active when it was called,
\* whether it was still being prepared or has been promoted meanwhile.
CancellationReachesAll ==
  \A c \in Cancellers :
    canceller[c].pc = "done" => \A e \in canceller[c].aim : raised[e]

\* When handlers return and no more executions come, every drain resolves.
DrainResolves ==
  \A d \in Drainers : drainer[d].pc = "looking" ~> drainer[d].pc = "resolved"
=============================================================================
