------------------------- MODULE TaskRuntimeProofs -------------------------
(***************************************************************************)
(* The safety of what runs beside the task store: admission, drain and     *)
(* cancellation of live executions, for any finite number of executions    *)
(* and any number of cancellers and drains, and the expiry worker, for any *)
(* number of tasks and writers, any lifetimes, any cleanup interval and    *)
(* any sleep limit.                                                        *)
(***************************************************************************)
EXTENDS LiveTaskRegistry, ExpiryWorker, FiniteSetTheorems, TLAPS

InHandler == {"running", "returned", "recorded", "lost"}

\* The registry's two maps are the executions at those two stages, and the
\* channel carries the sum of their sizes.
MapsFollowStages ==
  /\ reservations = { e \in Executions : stage[e] = "preparing" }
  /\ executions = { e \in Executions : stage[e] \in InHandler }

ChannelIsCurrent ==
  announced = Cardinality(reservations) + Cardinality(executions)

StageTyped == stage \in [Executions -> Stage]

Counting == StageTyped /\ MapsFollowStages /\ ChannelIsCurrent

LEMMA FiniteMaps ==
  ASSUME Counting
  PROVE  /\ IsFiniteSet(reservations) /\ IsFiniteSet(executions)
         /\ Cardinality(reservations) \in Nat /\ Cardinality(executions) \in Nat
<1>1. reservations \subseteq Executions /\ executions \subseteq Executions
  BY DEF Counting, MapsFollowStages
<1> QED
  BY <1>1, RegistryAssumption, FS_Subset, FS_CardinalityType

\* A step that does not touch the maps or the stages keeps the count.
LEMMA CountingKept ==
  ASSUME Counting, UNCHANGED <<reservations, executions, announced, stage>>
  PROVE  Counting'
  BY DEF Counting, StageTyped, MapsFollowStages, ChannelIsCurrent

\* Promotion moves one execution between the maps: the sum is the same.
LEMMA PromoteKeepsCounting ==
  ASSUME Counting, NEW e \in Executions, Promote(e)
  PROVE  Counting'
<1>1. e \in reservations /\ e \notin executions
  BY DEF Promote, Moves, Counting, MapsFollowStages, InHandler
<1>2. /\ Cardinality(reservations') = Cardinality(reservations) - 1
      /\ Cardinality(executions') = Cardinality(executions) + 1
  BY <1>1, FiniteMaps, FS_AddElement, FS_RemoveElement DEF Promote
<1>3. ChannelIsCurrent'
  BY <1>2, FiniteMaps DEF Promote, Counting, ChannelIsCurrent
<1>4. StageTyped'
  BY DEF Promote, Moves, Counting, StageTyped, Stage
<1>5. MapsFollowStages'
  BY DEF Promote, Moves, Counting, StageTyped, MapsFollowStages, InHandler
<1> QED
  BY <1>3, <1>4, <1>5 DEF Counting

LEMMA CountingIsInductive == Counting /\ [Next]_vars => Counting'
<1> SUFFICES ASSUME Counting, [Next]_vars PROVE Counting'
  OBVIOUS
<1> USE DEF Counting, StageTyped, MapsFollowStages, ChannelIsCurrent,
            InHandler, Stage
<1>1. ASSUME NEW e \in Executions,
             ExecutionStep(e) \/ Admit(e) \/ Refuse(e)
      PROVE Counting'
  <2>1. CASE Promote(e)
    BY <2>1, PromoteKeepsCounting
  <2>2. CASE Admit(e)
    BY <2>2 DEF Admit, Moves, Announce, ActiveCount
  <2>3. CASE Release(e)
    BY <2>3 DEF Release, Moves, Announce, ActiveCount
  <2>4. CASE Unregister(e)
    BY <2>4 DEF Unregister, Moves, Announce, ActiveCount
  <2>5. CASE HandlerReturns(e) \/ HandlerPanics(e) \/ RecordOutcome(e)
    BY <2>5 DEF HandlerReturns, HandlerPanics, RecordOutcome, Moves, registry
  <2>6. CASE Refuse(e)
    BY <2>6 DEF Refuse, Moves, registry
  <2> QED
    BY <1>1, <2>1, <2>2, <2>3, <2>4, <2>5, <2>6 DEF ExecutionStep
<1>2. CASE CloseAdmission
  BY <1>2, CountingKept DEF CloseAdmission
<1>3. ASSUME NEW c \in Cancellers,
             \/ CancellerStep(c)
             \/ \E why \in Reasons :
                  CancelAll(c, why) \/ \E e \in Executions : CancelOne(c, why, e)
      PROVE Counting'
  BY <1>3, CountingKept DEF CancellerStep, RaiseToken, FinishCancelling,
     GiveReason, CancelAll, CancelOne, Begin, registry
<1>4. ASSUME NEW d \in Drainers, DrainerStep(d) \/ Subscribe(d)
      PROVE Counting'
  BY <1>4, CountingKept DEF DrainerStep, Subscribe, Look, Changed, registry
<1>5. CASE UNCHANGED vars
  BY <1>5, CountingKept DEF vars, registry
<1> QED
  BY <1>1, <1>2, <1>3, <1>4, <1>5 DEF Next

LEMMA CountingInvariant == Spec => []Counting
<1>1. Init => Counting
  BY FS_EmptySet DEF Init, Counting, StageTyped, MapsFollowStages,
     ChannelIsCurrent, InHandler, Stage
<1> QED
  BY <1>1, CountingIsInductive, PTL DEF Spec

\* The count that drains sleep on is exact in every state, the instant between
\* reservation and promotion included.
THEOREM CountIsExactHolds == Spec => []CountIsExact
<1>1. Counting => CountIsExact
  <2> SUFFICES ASSUME Counting PROVE CountIsExact
    OBVIOUS
  <2>1. { e \in Executions : stage[e] \in {"preparing", "running", "returned",
                                          "recorded", "lost"} }
          = reservations \cup executions
    BY DEF Counting, MapsFollowStages, InHandler
  <2>2. reservations \cap executions = {}
    BY DEF Counting, MapsFollowStages, InHandler
  <2>3. Cardinality(reservations \cup executions)
          = Cardinality(reservations) + Cardinality(executions)
    <3>1. /\ IsFiniteSet(reservations)
          /\ IsFiniteSet(executions)
      BY FiniteMaps
    <3>2. Cardinality(reservations \cup executions)
            = Cardinality(reservations) + Cardinality(executions)
                - Cardinality(reservations \cap executions)
      BY <3>1, FS_Union
    <3>3. Cardinality(reservations \cap executions) = 0
      BY <2>2, FS_EmptySet
    <3>4. Cardinality(reservations) \in Nat /\ Cardinality(executions) \in Nat
      BY <3>1, FS_CardinalityType
    <3> QED
      BY <3>2, <3>3, <3>4
  <2> QED
    BY <2>1, <2>3 DEF Counting, ChannelIsCurrent, CountIsExact
<1> QED
  BY <1>1, CountingInvariant, PTL

\* A sealed drain was begun with admission closed, which is for good; once
\* resolved it has seen both maps empty, and nothing is admitted any more.
DrainTyped ==
  drainer \in [Drainers ->
    [pc : {"idle", "looking", "sleeping", "resolved"}, unseen : BOOLEAN,
     sealed : BOOLEAN]]

DrainFacts ==
  /\ DrainTyped
  /\ admissionOpen \in BOOLEAN
  /\ \A d \in Drainers : drainer[d].sealed =>
       /\ ~admissionOpen
       /\ drainer[d].pc = "resolved" => reservations \cup executions = {}

LEMMA DrainFactsAreInductive ==
  Counting /\ DrainFacts /\ [Next]_vars => DrainFacts'
<1> SUFFICES ASSUME Counting, DrainFacts, [Next]_vars PROVE DrainFacts'
  OBVIOUS
<1> USE DEF DrainFacts, DrainTyped
<1>1. ASSUME NEW e \in Executions,
             ExecutionStep(e) \/ Admit(e) \/ Refuse(e)
      PROVE DrainFacts'
  <2>1. CASE Admit(e)
    BY <2>1 DEF Admit, Announce
  <2>2. CASE Promote(e)
    BY <2>2 DEF Promote, Moves, Counting, MapsFollowStages
  <2>3. CASE Release(e)
    BY <2>3 DEF Release, Announce
  <2>4. CASE Unregister(e)
    BY <2>4 DEF Unregister, Announce
  <2>5. CASE Refuse(e) \/ HandlerReturns(e) \/ HandlerPanics(e)
               \/ RecordOutcome(e)
    BY <2>5 DEF Refuse, HandlerReturns, HandlerPanics, RecordOutcome, registry
  <2> QED
    BY <1>1, <2>1, <2>2, <2>3, <2>4, <2>5 DEF ExecutionStep
<1>2. CASE CloseAdmission
  BY <1>2 DEF CloseAdmission
<1>3. ASSUME NEW c \in Cancellers,
             \/ CancellerStep(c)
             \/ \E why \in Reasons :
                  CancelAll(c, why) \/ \E e \in Executions : CancelOne(c, why, e)
      PROVE DrainFacts'
  BY <1>3 DEF CancellerStep, RaiseToken, FinishCancelling, GiveReason,
     CancelAll, CancelOne, Begin, registry
<1>4. ASSUME NEW d \in Drainers, DrainerStep(d) \/ Subscribe(d)
      PROVE DrainFacts'
  <2>1. CASE Look(d)
    <3>1. announced = 0 => reservations \cup executions = {}
      BY FiniteMaps, FS_EmptySet DEF Counting, ChannelIsCurrent
    <3>2. /\ DrainTyped'
          /\ \A o \in Drainers :
               /\ drainer'[o].sealed = drainer[o].sealed
               /\ drainer'[o].pc = "resolved" =>
                    drainer[o].pc = "resolved" \/ announced = 0
      BY <2>1 DEF Look
    <3>3. UNCHANGED registry
      BY <2>1 DEF Look
    <3> QED
      BY <3>1, <3>2, <3>3 DEF registry
  <2>2. CASE Changed(d)
    <3>1. DrainTyped'
      BY <2>2 DEF Changed
    <3>2. \A o \in Drainers :
            /\ drainer'[o].sealed = drainer[o].sealed
            /\ drainer'[o].pc = "resolved" => drainer[o].pc = "resolved"
      BY <2>2 DEF Changed
    <3>3. UNCHANGED registry
      BY <2>2 DEF Changed
    <3> QED
      BY <3>1, <3>2, <3>3 DEF registry
  <2>3. CASE Subscribe(d)
    <3>1. DrainTyped'
      BY <2>3 DEF Subscribe
    <3>2. \A o \in Drainers :
            \/ drainer'[o] = drainer[o]
            \/ drainer'[o].pc = "looking" /\ drainer'[o].sealed = ~admissionOpen
      BY <2>3 DEF Subscribe
    <3>3. UNCHANGED registry
      BY <2>3 DEF Subscribe
    <3> QED
      BY <3>1, <3>2, <3>3 DEF registry
  <2> QED
    BY <1>4, <2>1, <2>2, <2>3 DEF DrainerStep
<1>5. CASE UNCHANGED vars
  BY <1>5 DEF vars, registry
<1> QED
  BY <1>1, <1>2, <1>3, <1>4, <1>5 DEF Next

\* Closing admission and then draining is a boundary: when the drain resolves
\* every admitted execution has settled, and none can be admitted later.
THEOREM DrainedIsFinalHolds == Spec => []DrainedIsFinal
<1>1. Init => DrainFacts
  BY DEF Init, DrainFacts, DrainTyped
<1>2. Counting /\ DrainFacts => DrainedIsFinal
  BY DEF Counting, StageTyped, Stage, MapsFollowStages, InHandler, DrainFacts,
     DrainedIsFinal
<1> QED
  BY <1>1, <1>2, DrainFactsAreInductive, CountingInvariant, PTL DEF Spec
-----------------------------------------------------------------------------
\* A canceller's targets are still to come, in hand with their reason given,
\* or raised already; a raised token has a reason behind it.
Canceller == [pc : {"idle", "collected", "done"}, why : Reasons \cup {NoReason},
              aim : SUBSET Executions, todo : SUBSET Executions,
              now : SUBSET Executions]

CancelTyped ==
  /\ reason \in [Executions -> Reasons \cup {NoReason}]
  /\ raised \in [Executions -> BOOLEAN]
  /\ canceller \in [Cancellers -> Canceller]

Pursued(c) ==
  /\ \A e \in canceller[c].now : reason[e] # NoReason
  /\ canceller[c].pc = "idle" => canceller[c].now = {}
  /\ canceller[c].pc = "collected" =>
       /\ canceller[c].why \in Reasons
       /\ \A e \in canceller[c].aim :
            e \in canceller[c].todo \cup canceller[c].now \/ raised[e]
  /\ canceller[c].pc = "done" =>
       canceller[c].now = {} /\ \A e \in canceller[c].aim : raised[e]

CancelFacts ==
  /\ CancelTyped
  /\ \A e \in Executions : raised[e] => reason[e] # NoReason
  /\ \A c \in Cancellers : Pursued(c)

\* Reasons given and tokens raised stay; then every canceller that does not
\* move is still right.
LEMMA OthersPursue ==
  ASSUME CancelFacts,
         \A e \in Executions : /\ reason[e] # NoReason => reason'[e] = reason[e]
                               /\ raised[e] => raised'[e],
         NEW c \in Cancellers, canceller'[c] = canceller[c]
  PROVE  Pursued(c)'
<1>1. canceller[c] \in Canceller /\ Pursued(c)
  BY DEF CancelFacts, CancelTyped
<1> QED
  BY <1>1 DEF Pursued, Canceller

LEMMA BeginKeepsFacts ==
  ASSUME CancelFacts, NEW c \in Cancellers, NEW why \in Reasons,
         NEW aim \in SUBSET Executions, Begin(c, why, aim, aim)
  PROVE  CancelFacts'
<1> DEFINE begun == [pc |-> "collected", why |-> why, aim |-> aim,
                     todo |-> aim, now |-> {}]
<1>1. begun \in Canceller
  BY DEF Canceller
<1>2. /\ canceller' \in [Cancellers -> Canceller] /\ canceller'[c] = begun
      /\ \A d \in Cancellers \ {c} : canceller'[d] = canceller[d]
      /\ UNCHANGED <<reason, raised>>
  BY <1>1 DEF Begin, CancelFacts, CancelTyped
<1>3. Pursued(c)'
  BY <1>2 DEF Pursued
<1>4. \A d \in Cancellers \ {c} : Pursued(d)'
  BY <1>2, OthersPursue
<1> QED
  BY <1>2, <1>3, <1>4 DEF CancelFacts, CancelTyped

LEMMA GiveReasonKeepsFacts ==
  ASSUME CancelFacts, NEW c \in Cancellers, NEW e \in Executions,
         GiveReason(c, e)
  PROVE  CancelFacts'
<1>1. PICK mine : mine = canceller[c]
  OBVIOUS
<1>2. /\ mine \in Canceller /\ mine.pc = "collected" /\ mine.now = {}
      /\ e \in mine.todo /\ mine.why \in Reasons
      /\ \A f \in mine.aim : f \in mine.todo \cup mine.now \/ raised[f]
  BY <1>1 DEF GiveReason, CancelFacts, CancelTyped, Pursued
<1>3. PICK next : next = [mine EXCEPT !.todo = mine.todo \ {e}, !.now = {e}]
  OBVIOUS
<1>4. /\ next \in Canceller /\ next.pc = "collected" /\ next.now = {e}
      /\ next.why = mine.why /\ next.aim = mine.aim
      /\ next.todo = mine.todo \ {e}
  BY <1>2, <1>3 DEF Canceller
<1>5. canceller' = [canceller EXCEPT ![c] = next]
  BY <1>1, <1>3 DEF GiveReason, Request, CancelFacts, CancelTyped
<1>6. /\ canceller' \in [Cancellers -> Canceller] /\ canceller'[c] = next
      /\ \A d \in Cancellers \ {c} : canceller'[d] = canceller[d]
  BY <1>4, <1>5 DEF CancelFacts, CancelTyped
<1>7. /\ reason' \in [Executions -> Reasons \cup {NoReason}]
      /\ reason'[e] # NoReason
      /\ \A f \in Executions : reason[f] # NoReason => reason'[f] = reason[f]
      /\ raised' = raised
  BY <1>1, <1>2, RegistryAssumption DEF GiveReason, CancelFacts, CancelTyped
<1>8. Pursued(c)'
  BY <1>2, <1>4, <1>6, <1>7 DEF Pursued
<1>9. \A d \in Cancellers \ {c} : Pursued(d)'
  BY <1>6, <1>7, OthersPursue
<1> QED
  BY <1>6, <1>7, <1>8, <1>9 DEF CancelFacts, CancelTyped

LEMMA RaiseTokenKeepsFacts ==
  ASSUME CancelFacts, NEW c \in Cancellers, RaiseToken(c)
  PROVE  CancelFacts'
<1>1. PICK mine : mine = canceller[c]
  OBVIOUS
<1>2. mine \in Canceller /\ Pursued(c) /\ mine.now # {}
  BY <1>1 DEF RaiseToken, CancelFacts, CancelTyped
<1>3. PICK next : next = [mine EXCEPT !.now = {}]
  OBVIOUS
<1>4. /\ next \in Canceller /\ next.pc = mine.pc /\ next.now = {}
      /\ next.why = mine.why /\ next.aim = mine.aim /\ next.todo = mine.todo
  BY <1>2, <1>3 DEF Canceller
<1>5. canceller' = [canceller EXCEPT ![c] = next]
  BY <1>1, <1>3 DEF RaiseToken
<1>6. /\ canceller' \in [Cancellers -> Canceller] /\ canceller'[c] = next
      /\ \A d \in Cancellers \ {c} : canceller'[d] = canceller[d]
  BY <1>4, <1>5 DEF CancelFacts, CancelTyped
<1>7. /\ raised' \in [Executions -> BOOLEAN]
      /\ \A e \in Executions : raised'[e] <=> raised[e] \/ e \in mine.now
      /\ reason' = reason
  BY <1>1 DEF RaiseToken, CancelFacts, CancelTyped
<1>8. Pursued(c)'
  BY <1>1, <1>2, <1>4, <1>6, <1>7 DEF Pursued, Canceller
<1>9. \A d \in Cancellers \ {c} : Pursued(d)'
  BY <1>6, <1>7, OthersPursue
<1>10. \A e \in Executions : raised'[e] => reason'[e] # NoReason
  BY <1>1, <1>2, <1>7 DEF Pursued, CancelFacts
<1> QED
  BY <1>6, <1>7, <1>8, <1>9, <1>10 DEF CancelFacts, CancelTyped

LEMMA FinishKeepsFacts ==
  ASSUME CancelFacts, NEW c \in Cancellers, FinishCancelling(c)
  PROVE  CancelFacts'
<1>1. PICK mine : mine = canceller[c]
  OBVIOUS
<1>2. /\ mine \in Canceller /\ Pursued(c) /\ mine.pc = "collected"
      /\ mine.todo = {} /\ mine.now = {}
  BY <1>1 DEF FinishCancelling, CancelFacts, CancelTyped
<1>3. PICK next : next = [mine EXCEPT !.pc = "done"]
  OBVIOUS
<1>4. /\ next \in Canceller /\ next.pc = "done" /\ next.now = {}
      /\ next.aim = mine.aim
  BY <1>2, <1>3 DEF Canceller
<1>5. canceller' = [canceller EXCEPT ![c] = next]
  BY <1>1, <1>3 DEF FinishCancelling
<1>6. /\ canceller' \in [Cancellers -> Canceller] /\ canceller'[c] = next
      /\ \A d \in Cancellers \ {c} : canceller'[d] = canceller[d]
      /\ UNCHANGED <<reason, raised>>
  BY <1>4, <1>5 DEF CancelFacts, CancelTyped, FinishCancelling
<1>7. Pursued(c)'
  BY <1>1, <1>2, <1>4, <1>6 DEF Pursued
<1>8. \A d \in Cancellers \ {c} : Pursued(d)'
  BY <1>6, OthersPursue
<1> QED
  BY <1>6, <1>7, <1>8 DEF CancelFacts, CancelTyped

LEMMA CancelFactsAreInductive ==
  Counting /\ CancelFacts /\ [Next]_vars => CancelFacts'
<1> SUFFICES ASSUME Counting, CancelFacts, [Next]_vars PROVE CancelFacts'
  OBVIOUS
<1>1. CASE UNCHANGED <<reason, raised, canceller>>
  BY <1>1 DEF CancelFacts, CancelTyped, Pursued
<1>2. ASSUME NEW c \in Cancellers, CancellerStep(c)
      PROVE  CancelFacts'
  BY <1>2, GiveReasonKeepsFacts, RaiseTokenKeepsFacts, FinishKeepsFacts
     DEF CancellerStep
<1>3. ASSUME NEW c \in Cancellers, NEW why \in Reasons,
             CancelAll(c, why) \/ \E e \in Executions : CancelOne(c, why, e)
      PROVE  CancelFacts'
  <2>1. CASE CancelAll(c, why)
    <3>1. Active \in SUBSET Executions
      BY DEF Active, Counting, MapsFollowStages
    <3> QED
      BY <2>1, <3>1, BeginKeepsFacts DEF CancelAll
  <2>2. ASSUME NEW e \in Executions, CancelOne(c, why, e)
        PROVE  CancelFacts'
    <3>1. {e} \in SUBSET Executions /\ Begin(c, why, {e}, {e})
      BY <2>2 DEF CancelOne
    <3> QED
      BY <3>1, BeginKeepsFacts
  <2> QED
    BY <1>3, <2>1, <2>2
<1>4. ASSUME NEW e \in Executions, ExecutionStep(e) \/ Admit(e) \/ Refuse(e)
      PROVE  UNCHANGED <<reason, raised, canceller>>
  BY <1>4 DEF ExecutionStep, Admit, Refuse, Release, Promote, HandlerReturns,
     HandlerPanics, RecordOutcome, Unregister
<1>5. ASSUME NEW d \in Drainers, DrainerStep(d) \/ Subscribe(d)
      PROVE  UNCHANGED <<reason, raised, canceller>>
  BY <1>5 DEF DrainerStep, Subscribe, Look, Changed
<1>6. CloseAdmission \/ UNCHANGED vars => UNCHANGED <<reason, raised, canceller>>
  BY DEF CloseAdmission, vars
<1> QED
  BY <1>1, <1>2, <1>3, <1>4, <1>5, <1>6 DEF Next

LEMMA CancelFactsHold == Spec => []CancelFacts
<1>1. Init => CancelFacts
  BY DEF Init, CancelFacts, CancelTyped, Canceller, Pursued, Idle
<1> QED
  BY <1>1, CancelFactsAreInductive, CountingInvariant, PTL DEF Spec

\* cancel_all that has returned has raised the token of every execution that
\* was prepared or running when it was called.
THEOREM CancellationReachesAllHolds == Spec => []CancellationReachesAll
<1>1. CancelFacts => CancellationReachesAll
  BY DEF CancelFacts, Pursued, CancellationReachesAll
<1> QED
  BY <1>1, CancelFactsHold, PTL

\* The first reason stays, and whoever sees the token finds it.
THEOREM ReasonIsSettledHolds == Spec => ReasonIsSettled
<1>1. CancelFacts /\ CancelFacts' /\ [Next]_vars =>
        [\A e \in Executions :
           /\ raised'[e] => reason'[e] # NoReason
           /\ reason[e] # NoReason => reason'[e] = reason[e]]_vars
  <2> SUFFICES ASSUME CancelFacts, CancelFacts', Next, NEW e \in Executions
               PROVE  /\ raised'[e] => reason'[e] # NoReason
                      /\ reason[e] # NoReason => reason'[e] = reason[e]
    OBVIOUS
  <2>1. raised'[e] => reason'[e] # NoReason
    BY DEF CancelFacts
  <2>2. reason[e] # NoReason => reason'[e] = reason[e]
    BY DEF CancelFacts, CancelTyped, Next, CloseAdmission, ExecutionStep, Admit,
       Refuse, Release, Promote, HandlerReturns, HandlerPanics, RecordOutcome,
       Unregister, CancellerStep, GiveReason, RaiseToken, FinishCancelling,
       CancelAll, CancelOne, Begin, DrainerStep, Subscribe, Look, Changed
  <2> QED
    BY <2>1, <2>2
<1> QED
  BY <1>1, CancelFactsHold, PTL DEF Spec, ReasonIsSettled
-----------------------------------------------------------------------------
\* The expiry worker.

\* The typing of the worker, its signal and its writers is kept by every step.
THEOREM WorkerTyping == WorkerSpec => []WorkerTypeOK
<1>1. WorkerInit => WorkerTypeOK
  <2> SUFFICES ASSUME WorkerInit PROVE WorkerTypeOK
    OBVIOUS
  <2>1. 0 \in 0 .. CleanupInterval /\ 0 \in Nat
    BY WorkerAssumption
  <2>2. signalled \in [Ids -> BOOLEAN] /\ left \in [Ids -> Nat \cup {Free}]
    BY DEF WorkerInit
  <2> QED
    BY <2>1, <2>2 DEF WorkerInit, WorkerTypeOK, WriterPC, WorkerPC
<1>2. WorkerTypeOK /\ [WorkerNext]_workerVars => WorkerTypeOK'
  <2> SUFFICES ASSUME WorkerTypeOK, [WorkerNext]_workerVars PROVE WorkerTypeOK'
    OBVIOUS
  <2> USE WorkerAssumption DEF WorkerTypeOK, Free, WriterPC, WorkerPC
  <2>1. CASE WorkerStep
    <3>1. CASE Start
      BY <3>1 DEF Start
    <3>2. CASE ReadGeneration
      BY <3>2 DEF ReadGeneration
    <3>3. CASE Pass
      <4>1. signalled' \in [Ids -> BOOLEAN]
        BY <3>3, Zenon DEF Pass, Retire
      <4> QED
        BY <3>3, <4>1 DEF Pass, Retire
    <3>4. CASE Plan
      <4>1. Deadlines \subseteq Nat
        BY DEF Deadlines, Owed, Stored
      <4> QED
        BY <3>4, <4>1 DEF Plan
    <3>5. CASE WaitForChange \/ TimeOut \/ Resume
      BY <3>5 DEF WaitForChange, TimeOut, Resume
    <3> QED
      BY <2>1, <3>1, <3>2, <3>3, <3>4, <3>5 DEF WorkerStep
  <2>2. CASE SpuriousWakeup \/ DropStore
    BY <2>2 DEF SpuriousWakeup, DropStore, Notify
  <2>3. CASE Tick
    BY <2>3 DEF Tick, Elapsed
  <2>4. ASSUME NEW w \in Writers,
               \/ WriterStep(w) \/ BeginCreate(w)
               \/ \E t \in Ids, ttl \in Ttls : SetTtl(w, t, ttl)
        PROVE WorkerTypeOK'
    <3>1. CASE RefuseCreate(w) \/ Wake(w)
      BY <3>1 DEF RefuseCreate, Wake, Goes, Notify
    <3>2. CASE RetireAfterSetTtl(w)
      BY <3>2 DEF RetireAfterSetTtl, Goes, Retire
    <3>3. CASE BeginCreate(w)
      BY <3>3 DEF BeginCreate, Goes, Retire
    <3>4. ASSUME NEW t \in Ids, NEW ttl \in Ttls, Insert(w, t, ttl)
          PROVE WorkerTypeOK'
      BY <3>4 DEF Insert, Goes
    <3>5. ASSUME NEW t \in Ids, NEW ttl \in Ttls, SetTtl(w, t, ttl)
          PROVE WorkerTypeOK'
      BY <3>5 DEF SetTtl, Goes
    <3> QED
      BY <2>4, <3>1, <3>2, <3>3, <3>4, <3>5 DEF WriterStep
  <2>5. ASSUME NEW remove \in BOOLEAN, RetireInPassing(remove)
        PROVE WorkerTypeOK'
    BY <2>5 DEF RetireInPassing, Retire
  <2>6. CASE UNCHANGED workerVars
    BY <2>6 DEF workerVars
  <2> QED
    BY <2>1, <2>2, <2>3, <2>4, <2>5, <2>6 DEF WorkerNext
<1> QED
  BY <1>1, <1>2, PTL DEF WorkerSpec

\* The shutdown flag and the end of the thread both follow the last clone.
THEOREM OutlivesNoStoreHolds == WorkerSpec => []OutlivesNoStore
<1>1. WorkerInit => OutlivesNoStore
  BY DEF WorkerInit, OutlivesNoStore
<1>2. OutlivesNoStore /\ [WorkerNext]_workerVars => OutlivesNoStore'
  <2> SUFFICES ASSUME OutlivesNoStore, [WorkerNext]_workerVars PROVE OutlivesNoStore'
    OBVIOUS
  <2> USE DEF OutlivesNoStore
  <2>1. CASE WorkerStep
    BY <2>1 DEF WorkerStep, Start, ReadGeneration, Pass, Plan, WaitForChange,
                TimeOut, Resume
  <2>2. CASE SpuriousWakeup \/ Tick \/ DropStore
    BY <2>2 DEF SpuriousWakeup, Tick, DropStore, Notify
  <2>3. ASSUME NEW w \in Writers,
               \/ WriterStep(w) \/ BeginCreate(w)
               \/ \E t \in Ids, ttl \in Ttls : SetTtl(w, t, ttl)
        PROVE OutlivesNoStore'
    BY <2>3 DEF WriterStep, RefuseCreate, RetireAfterSetTtl, Wake, Notify, Insert,
                BeginCreate, SetTtl
  <2>4. CASE \E remove \in BOOLEAN : RetireInPassing(remove)
    BY <2>4 DEF RetireInPassing
  <2>5. CASE UNCHANGED workerVars
    BY <2>5 DEF workerVars
  <2> QED
    BY <2>1, <2>2, <2>3, <2>4, <2>5 DEF WorkerNext
<1> QED
  BY <1>1, <1>2, PTL DEF WorkerSpec

\* NeverOversleeps strengthened to the gap between computing the sleep and
\* beginning it: there the generation guards what the condvar guards later.
Committed == pc = "asleep" \/ (pc = "waiting" /\ ~moved)

Rested ==
  Committed /\ ~Rescheduling =>
    timer =< cleanup /\ \A t \in Ids : Owed(t) => timer =< left[t]

\* A step that leaves the worker and its sleep alone keeps it rested as long
\* as no writer is done rescheduling and no deadline comes closer.
LEMMA RestedKept ==
  ASSUME Rested, UNCHANGED <<pc, moved, timer, cleanup>>,
         Rescheduling => Rescheduling',
         \/ Rescheduling'
         \/ \A t \in Ids : Owed(t)' => Owed(t) /\ left'[t] = left[t]
  PROVE  Rested'
  BY DEF Rested, Committed, Owed, Stored

LEMMA RetireKeepsOwed ==
  ASSUME WorkerTypeOK, NEW remove \in BOOLEAN, Retire(remove)
  PROVE  \A t \in Ids : Owed(t)' => Owed(t) /\ left'[t] = left[t]
  BY DEF WorkerTypeOK, Retire, Owed, Stored, Overdue, Free

LEMMA WorkerKeepsRested ==
  ASSUME WorkerTypeOK, Rested, WorkerStep PROVE Rested'
<1> USE DEF WorkerTypeOK, Rested, Committed
<1>1. CASE Start
  BY <1>1 DEF Start
<1>2. CASE ReadGeneration
  BY <1>2 DEF ReadGeneration
<1>3. CASE Pass
  BY <1>3 DEF Pass
<1>4. CASE Plan
  <2>1. timer' =< cleanup
    BY <1>4 DEF Plan, Deadlines
  <2>2. \A t \in Ids : Owed(t) => timer' =< left[t]
    BY <1>4 DEF Plan, Deadlines
  <2> QED
    BY <1>4, <2>1, <2>2 DEF Plan, Owed, Stored
<1>5. CASE WaitForChange
  BY <1>5 DEF WaitForChange, Rescheduling, Owed, Stored
<1>6. CASE TimeOut \/ Resume
  BY <1>6 DEF TimeOut, Resume
<1> QED
  BY <1>1, <1>2, <1>3, <1>4, <1>5, <1>6 DEF WorkerStep

LEMMA WriterKeepsRested ==
  ASSUME WorkerTypeOK, Rested, NEW w \in Writers,
         \/ WriterStep(w) \/ BeginCreate(w)
         \/ \E t \in Ids, ttl \in Ttls : SetTtl(w, t, ttl)
  PROVE  Rested'
<1> USE DEF WorkerTypeOK
<1>1. CASE RefuseCreate(w)
  BY <1>1, RestedKept DEF RefuseCreate, Goes, Rescheduling, Owed, Stored
<1>2. CASE RetireAfterSetTtl(w)
  <2>1. Retire(FALSE)
    BY <1>2 DEF RetireAfterSetTtl
  <2>2. Rescheduling => Rescheduling'
    BY <1>2 DEF RetireAfterSetTtl, Goes, Rescheduling
  <2> QED
    BY <1>2, <2>1, <2>2, RestedKept, RetireKeepsOwed DEF RetireAfterSetTtl
<1>3. CASE Wake(w)
  BY <1>3 DEF Wake, Notify, Rested, Committed
<1>4. CASE BeginCreate(w)
  <2>1. Retire(TRUE)
    BY <1>4 DEF BeginCreate
  <2>2. Rescheduling' = Rescheduling
    BY <1>4 DEF BeginCreate, Goes, Rescheduling
  <2>3. CASE pc = "unborn"
    BY <1>4, <2>3 DEF BeginCreate, Rested, Committed
  <2>4. CASE pc # "unborn"
    BY <1>4, <2>1, <2>2, <2>4, RestedKept, RetireKeepsOwed DEF BeginCreate
  <2> QED
    BY <2>3, <2>4
<1>5. ASSUME NEW t \in Ids, NEW ttl \in Ttls, Insert(w, t, ttl)
      PROVE Rested'
  <2>1. Rescheduling'
    BY <1>5 DEF Insert, Goes, Rescheduling
  <2> QED
    BY <2>1 DEF Rested
<1>6. ASSUME NEW t \in Ids, NEW ttl \in Ttls, SetTtl(w, t, ttl)
      PROVE Rested'
  <2>1. CASE Overdue(t)
    <3>1. Rescheduling => Rescheduling'
      BY <1>6, <2>1 DEF SetTtl, Goes, Rescheduling
    <3> QED
      BY <1>6, <2>1, <3>1, RestedKept DEF SetTtl, Owed, Stored
  <2>2. CASE ~Overdue(t)
    <3>1. Rescheduling'
      BY <1>6, <2>2 DEF SetTtl, Goes, Rescheduling
    <3> QED
      BY <3>1 DEF Rested
  <2> QED
    BY <2>1, <2>2
<1> QED
  BY <1>1, <1>2, <1>3, <1>4, <1>5, <1>6 DEF WriterStep

\* The worker never sleeps past a deadline it owes a signal for, whatever
\* create_task and set_ttl do between its computing the sleep and beginning it.
THEOREM NeverOversleepsHolds == WorkerSpec => []NeverOversleeps
<1>1. WorkerInit => Rested
  BY DEF WorkerInit, Rested, Committed
<1>2. WorkerTypeOK /\ Rested /\ [WorkerNext]_workerVars => Rested'
  <2> SUFFICES ASSUME WorkerTypeOK, Rested, [WorkerNext]_workerVars PROVE Rested'
    OBVIOUS
  <2>1. CASE WorkerStep
    BY <2>1, WorkerKeepsRested
  <2>2. CASE SpuriousWakeup
    BY <2>2 DEF SpuriousWakeup, Rested, Committed
  <2>3. CASE Tick
    BY <2>3 DEF Tick, Elapsed, Rested, Committed, Rescheduling, Owed, Stored,
                Free, WorkerTypeOK
  <2>4. CASE DropStore
    <3>1. Rescheduling' = Rescheduling
      BY <2>4 DEF DropStore, Rescheduling
    <3>2. CASE Upgraded
      BY <2>4, <3>1, <3>2, RestedKept DEF DropStore, Owed, Stored
    <3>3. CASE ~Upgraded
      BY <2>4, <3>3 DEF DropStore, Notify, Rested, Committed
    <3> QED
      BY <3>2, <3>3
  <2>5. ASSUME NEW w \in Writers,
               \/ WriterStep(w) \/ BeginCreate(w)
               \/ \E t \in Ids, ttl \in Ttls : SetTtl(w, t, ttl)
        PROVE Rested'
    BY <2>5, WriterKeepsRested
  <2>6. ASSUME NEW remove \in BOOLEAN, RetireInPassing(remove)
        PROVE Rested'
    <3>1. Retire(remove) /\ Rescheduling' = Rescheduling
      BY <2>6 DEF RetireInPassing, Rescheduling
    <3> QED
      BY <2>6, <3>1, RestedKept, RetireKeepsOwed DEF RetireInPassing
  <2>7. CASE UNCHANGED workerVars
    BY <2>7, RestedKept DEF workerVars, Rescheduling, Owed, Stored
  <2> QED
    BY <2>1, <2>2, <2>3, <2>4, <2>5, <2>6, <2>7 DEF WorkerNext
<1>3. Rested => NeverOversleeps
  BY DEF Rested, Committed, NeverOversleeps
<1> QED
  BY <1>1, <1>2, <1>3, WorkerTyping, PTL DEF WorkerSpec
=============================================================================
