--------------------------- MODULE TaskExecution ----------------------------
(***************************************************************************)
(* Tasks as the router runs them: tools/call, the live handler that parks  *)
(* inside its own future, the ordinary handler that is invoked again after *)
(* its input arrives, tasks/update and tasks/cancel, and expiry.           *)
(* Sources: router.rs, router/task_ops.rs, tool/task.rs.                   *)
(*                                                                         *)
(* Store calls are single steps on a TaskRecord (TaskStore has their       *)
(* interior) and admission is left to LiveTaskRegistry.  A live handler    *)
(* holds its parks (`PendingInput`) in slots; all of them share the one    *)
(* `input_ready` Notify of its LiveTask.                                   *)
(***************************************************************************)
EXTENDS TaskRecord, SequencesExt

CONSTANTS
  Tasks,        \* tools/call requests run as tasks, named by task id
  Live,         \* those whose tool has a live handler
  Fallbacks,    \* live tools that also kept an ordinary handler
  Slots,        \* parks one live handler can hold at a time
  Invocations,  \* ordinary invocations one task can have under way
  Updaters,     \* tasks/update requests being served
  Revisions,    \* protocol revisions the clients use
  NoTask        \* the store holds no such task

ASSUME ExecutionAssumption ==
  /\ Live \subseteq Tasks /\ Fallbacks \subseteq Live
  /\ Revisions \subseteq {"final", "legacy"}

VARIABLES
  record,     \* the task as the store keeps it
  overdue,    \* its TTL has run out
  token,      \* its store token
  call,       \* where its tools/call is
  hand,       \* where its live handler is
  cancelled,  \* LiveTaskCancellation.token of its live handler
  slot,       \* the parks its live handler holds
  permit,     \* the stored permit of input_ready
  queue,      \* the waits registered on input_ready, oldest first
  run,        \* where each ordinary invocation is
  updater     \* where each tasks/update is

store  == <<record, overdue, token>>
waits  == <<slot, permit, queue>>
vars   == <<store, call, hand, cancelled, waits, run, updater>>

CallPC == {"none", "preparing", "answered"}
HandPC == {"none", "running", "returned", "recorded", "over"}
SlotPC == {"free", "held", "reading", "polling", "sleeping", "woken",
           "collecting"}
RunPC  == {"none", "starting", "running"}
Got    == {"nothing", "everything", "superseded", "less", "error"}

Empty == [pc |-> "free", asked |-> {}, got |-> "nothing"]
AtRest == [pc |-> "idle", task |-> NoTask, revision |-> "final"]

Init ==
  /\ record = [t \in Tasks |-> NoTask]
  /\ overdue = [t \in Tasks |-> FALSE]
  /\ token = [t \in Tasks |-> FALSE]
  /\ call = [t \in Tasks |-> "none"]
  /\ hand = [t \in Tasks |-> "none"]
  /\ cancelled = [t \in Tasks |-> FALSE]
  /\ slot = [t \in Tasks |-> [s \in Slots |-> Empty]]
  /\ permit = [t \in Tasks |-> FALSE]
  /\ queue = [t \in Tasks |-> <<>>]
  /\ run = [t \in Tasks |-> [i \in Invocations |-> "none"]]
  /\ updater = [u \in Updaters |-> AtRest]

Visible(t)    == record[t] # NoTask /\ ~overdue[t]
Editable(t)   == Visible(t) /\ ~IsTerminal(record[t])
Registered(t) == hand[t] \in {"running", "returned", "recorded"}
Cancelled(t)  == cancelled[t] \/ token[t]

Write(t, r) == record' = [record EXCEPT ![t] = r]

\* complete_task and fail_task: a terminal record is left as it is.
Terminate(t, status) ==
  Write(t, IF Editable(t) THEN Finishing(record[t], status, 0, 0) ELSE record[t])

\* cancel_task, which raises the token of a terminal task too.
CancelInStore(t) ==
  /\ Write(t, IF Editable(t) THEN Cancelling(record[t], 0) ELSE record[t])
  /\ token' = [token EXCEPT ![t] = @ \/ Visible(t)]
-----------------------------------------------------------------------------
\* tools/call: the record, the preparation, then the spawn and the answer.
Create(t) ==
  /\ call[t] = "none"
  /\ call' = [call EXCEPT ![t] = "preparing"]
  /\ Write(t, NewRecord(0))
  /\ UNCHANGED <<overdue, token, hand, cancelled, waits, run, updater>>

Abandon(t) ==
  /\ call[t] = "preparing"
  /\ call' = [call EXCEPT ![t] = "answered"]
  /\ Write(t, NoTask)
  /\ UNCHANGED <<overdue, token, hand, cancelled, waits, run, updater>>

Spawn(t) ==
  /\ call[t] = "preparing"
  /\ call' = [call EXCEPT ![t] = "answered"]
  /\ IF t \in Live
     THEN hand' = [hand EXCEPT ![t] = "running"] /\ UNCHANGED run
     ELSE /\ \E i \in Invocations : run' = [run EXCEPT ![t][i] = "starting"]
          /\ UNCHANGED hand
  /\ UNCHANGED <<store, cancelled, waits, updater>>
-----------------------------------------------------------------------------
\* The live handler.  notify_one wakes the oldest registered wait, or leaves
\* a permit; a woken wait that is dropped passes its notification on.
NotifyOne(t, slots, line) ==
  IF line = <<>>
  THEN /\ permit' = [permit EXCEPT ![t] = TRUE]
       /\ slot' = [slot EXCEPT ![t] = slots]
       /\ queue' = [queue EXCEPT ![t] = line]
  ELSE /\ slot' = [slot EXCEPT ![t] = [slots EXCEPT ![Head(line)].pc = "woken"]]
       /\ queue' = [queue EXCEPT ![t] = Tail(line)]
       /\ UNCHANGED permit

\* The line without a slot, which stands in it once at most.
Without(line, s) ==
  IF \E i \in 1..Len(line) : line[i] = s
  THEN RemoveAt(line, CHOOSE i \in 1..Len(line) : line[i] = s) ELSE line

\* A wait ends, or its PendingInput is dropped.
Leave(t, s, got) ==
  LET slots == [slot[t] EXCEPT ![s] = [Empty EXCEPT !.got = got]]
      line == Without(queue[t], s)
  IN IF slot[t][s].pc = "woken"
     THEN NotifyOne(t, slots, line)
     ELSE /\ slot' = [slot EXCEPT ![t] = slots]
          /\ queue' = [queue EXCEPT ![t] = line]
          /\ UNCHANGED permit

GoesTo(t, s, pc) == slot' = [slot EXCEPT ![t][s].pc = pc]

\* TaskContext::park_input
Park(t, s, requests) ==
  /\ hand[t] = "running"
  /\ slot[t][s].pc = "free"
  /\ DOMAIN requests # {}
  /\ ~Cancelled(t)
  /\ Editable(t)
  /\ Reused(record[t], requests) = {}
  /\ Write(t, Asking(record[t], requests, 0))
  /\ slot' = [slot EXCEPT ![t][s] = [Empty EXCEPT !.pc = "held",
                                                  !.asked = DOMAIN requests]]
  /\ UNCHANGED <<overdue, token, call, hand, cancelled, permit, queue, run,
                 updater>>

\* TaskContext::working
Working(t) ==
  /\ hand[t] = "running"
  /\ Editable(t)
  /\ Write(t, Progressing(record[t], "working", 0))
  /\ UNCHANGED <<overdue, token, call, hand, cancelled, waits, run, updater>>

Waiting(t, s) == slot[t][s].pc \notin {"free", "held"}
Elsewhere == <<store, call, hand, cancelled, run, updater>>

\* PendingInput::wait
BeginWait(t, s) ==
  /\ slot[t][s].pc = "held"
  /\ IF Cancelled(t) THEN Leave(t, s, "error")
     ELSE GoesTo(t, s, "reading") /\ UNCHANGED <<permit, queue>>
  /\ UNCHANGED Elsewhere

\* Mutated: the first answer ends the wait.
ReadPartly(t, s) ==
  /\ slot[t][s].pc = "reading"
  /\ IF ~Visible(t) THEN Leave(t, s, "error")
     ELSE /\ GoesTo(t, s, IF slot[t][s].asked \ Outstanding(record[t]) # {}
                          THEN "collecting" ELSE "polling")
          /\ UNCHANGED <<permit, queue>>
  /\ UNCHANGED Elsewhere

ReadOutstanding(t, s) ==
  /\ slot[t][s].pc = "reading"
  /\ IF ~Visible(t) THEN Leave(t, s, "error")
     ELSE /\ GoesTo(t, s, IF slot[t][s].asked \cap Outstanding(record[t]) = {}
                          THEN "collecting" ELSE "polling")
          /\ UNCHANGED <<permit, queue>>
  /\ UNCHANGED Elsewhere

Poll(t, s) ==
  /\ slot[t][s].pc = "polling"
  /\ IF permit[t]
     THEN /\ GoesTo(t, s, "reading")
          /\ permit' = [permit EXCEPT ![t] = FALSE]
          /\ UNCHANGED queue
     ELSE /\ GoesTo(t, s, "sleeping")
          /\ queue' = [queue EXCEPT ![t] = Append(@, s)]
          /\ UNCHANGED permit
  /\ UNCHANGED Elsewhere

ReadAgain(t, s) ==
  /\ slot[t][s].pc = "woken"
  /\ GoesTo(t, s, "reading")
  /\ UNCHANGED <<permit, queue>> /\ UNCHANGED Elsewhere

ObserveCancellation(t, s) ==
  /\ slot[t][s].pc \in {"polling", "sleeping", "woken"}
  /\ Cancelled(t)
  /\ Leave(t, s, "error")
  /\ UNCHANGED Elsewhere

\* The answers to its keys: a key that a later park superseded has none.
Collect(t, s) ==
  /\ slot[t][s].pc = "collecting"
  /\ Leave(t, s, IF ~Visible(t) THEN "error"
                 ELSE IF slot[t][s].asked \subseteq Answered(record[t])
                 THEN "everything"
                 ELSE IF slot[t][s].asked \subseteq Spent(record[t])
                 THEN "superseded" ELSE "less")
  /\ UNCHANGED Elsewhere

DropPending(t, s) ==
  /\ slot[t][s].pc # "free"
  /\ Leave(t, s, "nothing")
  /\ UNCHANGED Elsewhere

\* The handler returns a TaskOutcome, which drops its parks; a panic policy
\* makes a failure of a panic (LiveTaskRegistry has the panics nobody catches).
\* The spawned task records the outcome and only then drops the registration.
Goes(t, from, to) == hand[t] = from /\ hand' = [hand EXCEPT ![t] = to]

HandlerEnds(t) ==
  /\ Goes(t, "running", "returned")
  /\ slot' = [slot EXCEPT ![t] = [s \in Slots |-> Empty]]
  /\ queue' = [queue EXCEPT ![t] = <<>>]
  /\ UNCHANGED <<store, call, cancelled, permit, run, updater>>

RecordOutcome(t) ==
  /\ Goes(t, "returned", "recorded")
  /\ \/ CancelInStore(t)
     \/ /\ \E status \in {"completed", "failed"} : Terminate(t, status)
        /\ UNCHANGED token
  /\ UNCHANGED <<overdue, call, cancelled, waits, run, updater>>

\* Mutated: the registration is dropped before the terminal write.
UnregisterFirst(t) ==
  /\ Goes(t, "returned", "over")
  /\ UNCHANGED <<store, call, cancelled, waits, run, updater>>

Unregister(t) ==
  /\ Goes(t, "recorded", "over")
  /\ UNCHANGED <<store, call, cancelled, waits, run, updater>>
-----------------------------------------------------------------------------
\* An ordinary invocation.  The store token is looked at first and drops it.
RunGoes(t, i, from, to) ==
  run[t][i] = from /\ run' = [run EXCEPT ![t][i] = to]

Invoke(t, i) ==
  /\ \/ RunGoes(t, i, "starting", "running") /\ ~token[t]
     \/ RunGoes(t, i, "starting", "none") /\ token[t]
     \/ RunGoes(t, i, "running", "none") /\ token[t]
  /\ t \in Live => t \in Fallbacks
  /\ UNCHANGED <<store, call, hand, cancelled, waits, updater>>

Complete(t, i) ==
  /\ RunGoes(t, i, "running", "none")
  /\ Terminate(t, "completed")
  /\ UNCHANGED <<overdue, token, call, hand, cancelled, waits, updater>>

\* A tool without an ordinary handler is not called: the error completes it.
CompleteUncalled(t, i) ==
  /\ RunGoes(t, i, "starting", "none")
  /\ t \in Live \ Fallbacks
  /\ Terminate(t, "completed")
  /\ UNCHANGED <<overdue, token, call, hand, cancelled, waits, updater>>

\* park_task_for_input: an empty or refused set of requests fails the task.
ParkTask(t, i, requests) ==
  /\ RunGoes(t, i, "running", "none")
  /\ IF DOMAIN requests = {} \/ (Editable(t) /\ Reused(record[t], requests) # {})
     THEN Terminate(t, "failed")
     ELSE Write(t, IF Editable(t) THEN Asking(record[t], requests, 0)
                   ELSE record[t])
  /\ UNCHANGED <<overdue, token, call, hand, cancelled, waits, updater>>
-----------------------------------------------------------------------------
\* Mutated: an update that answered nothing new still resumes the task.
ApplyAndResume(u, t, responses, revision) ==
  /\ updater[u].pc = "idle"
  /\ call[t] = "answered" /\ Editable(t)
  /\ Write(t, Answering(record[t], responses))
  /\ updater' = [updater EXCEPT ![u] =
       IF StillOutstanding(record[t], responses) = {}
       THEN [pc |-> "resuming", task |-> t, revision |-> revision] ELSE AtRest]
  /\ UNCHANGED <<overdue, token, call, hand, cancelled, waits, run>>

\* tasks/update commits the answers; only one that answered the last
\* outstanding request goes on to wake or resume.
Apply(u, t, responses, revision) ==
  /\ updater[u].pc = "idle"
  /\ call[t] = "answered" /\ Editable(t)
  /\ Write(t, Answering(record[t], responses))
  /\ updater' = [updater EXCEPT ![u] =
       IF /\ Accepted(record[t], responses) # {}
          /\ StillOutstanding(record[t], responses) = {}
       THEN [pc |-> "resuming", task |-> t, revision |-> revision] ELSE AtRest]
  /\ UNCHANGED <<overdue, token, call, hand, cancelled, waits, run>>

\* Mutated: notify_waiters, which leaves no permit for a wait not yet asleep.
WakeWaiters(u) ==
  LET t == updater[u].task
  IN /\ updater[u].pc = "resuming"
     /\ IF Registered(t)
        THEN /\ slot' = [slot EXCEPT ![t] = [s \in Slots |->
                  IF slot[t][s].pc = "sleeping"
                  THEN [slot[t][s] EXCEPT !.pc = "woken"] ELSE slot[t][s]]]
             /\ queue' = [queue EXCEPT ![t] = <<>>]
             /\ UNCHANGED permit
             /\ updater' = [updater EXCEPT ![u] = AtRest]
        ELSE /\ updater' = [updater EXCEPT ![u] =
                  IF @.revision = "final" THEN [@ EXCEPT !.pc = "replaying"]
                  ELSE AtRest]
             /\ UNCHANGED waits
     /\ UNCHANGED <<store, call, hand, cancelled, run>>

\* wake_live_task; only the final revision falls back to resume_task.
Wake(u) ==
  LET t == updater[u].task
  IN /\ updater[u].pc = "resuming"
     /\ IF Registered(t)
        THEN /\ NotifyOne(t, slot[t], queue[t])
             /\ updater' = [updater EXCEPT ![u] = AtRest]
        ELSE /\ updater' = [updater EXCEPT ![u] =
                  IF @.revision = "final" THEN [@ EXCEPT !.pc = "replaying"]
                  ELSE AtRest]
             /\ UNCHANGED waits
     /\ UNCHANGED <<store, call, hand, cancelled, run>>

\* resume_task: an expired task is failed, which the store refuses; any other
\* has its handler invoked again.
Replay(u) ==
  LET t == updater[u].task
  IN /\ updater[u].pc = "replaying"
     /\ updater' = [updater EXCEPT ![u] = AtRest]
     /\ IF Visible(t)
        THEN \E i \in Invocations :
               /\ run[t][i] = "none"
               /\ run' = [run EXCEPT ![t][i] = "starting"]
        ELSE UNCHANGED run
     /\ UNCHANGED <<store, call, hand, cancelled, waits>>

\* tasks/cancel signals a live handler and cancels any other task at once.
Cancel(t) ==
  /\ call[t] = "answered" /\ Visible(t)
  /\ IF Registered(t)
     THEN /\ cancelled' = [cancelled EXCEPT ![t] = TRUE]
          /\ UNCHANGED <<record, token>>
     ELSE CancelInStore(t) /\ UNCHANGED cancelled
  /\ UNCHANGED <<overdue, call, hand, waits, run, updater>>

\* LiveTaskExecutionHandle::cancel_all, which reaches preparations too.
CancelAll ==
  /\ cancelled' = [t \in Tasks |-> cancelled[t] \/ Registered(t)
                     \/ (t \in Live /\ call[t] = "preparing")]
  /\ UNCHANGED <<store, call, hand, waits, run, updater>>

\* The TTL runs out; the worker or the next store call raises the token.
Expire(t) ==
  /\ Visible(t)
  /\ overdue' = [overdue EXCEPT ![t] = TRUE]
  /\ UNCHANGED <<record, token, call, hand, cancelled, waits, run, updater>>

SignalExpiry(t) ==
  /\ overdue[t] /\ ~token[t]
  /\ token' = [token EXCEPT ![t] = TRUE]
  /\ UNCHANGED <<record, overdue, call, hand, cancelled, waits, run, updater>>

WaitStep(t, s) ==
  \/ ReadOutstanding(t, s) \/ Poll(t, s) \/ ReadAgain(t, s)
  \/ ObserveCancellation(t, s) \/ Collect(t, s)

LiveStep(t) ==
  \/ Working(t) \/ HandlerEnds(t) \/ RecordOutcome(t) \/ Unregister(t)
  \/ \E s \in Slots :
       \/ BeginWait(t, s) \/ WaitStep(t, s) \/ DropPending(t, s)
       \/ \E requests \in KeyMap(Questions) : Park(t, s, requests)

RunStep(t, i) ==
  \/ Invoke(t, i) \/ Complete(t, i) \/ CompleteUncalled(t, i)
  \/ \E requests \in KeyMap(Questions) : ParkTask(t, i, requests)

UpdaterStep(u) == Wake(u) \/ Replay(u)

Next ==
  \/ CancelAll
  \/ \E t \in Tasks :
       \/ Create(t) \/ Abandon(t) \/ Spawn(t) \/ LiveStep(t)
       \/ Cancel(t) \/ Expire(t) \/ SignalExpiry(t)
       \/ \E i \in Invocations : RunStep(t, i)
       \/ \E u \in Updaters, responses \in KeyMap(Answers),
            revision \in Revisions : Apply(u, t, responses, revision)
  \/ \E u \in Updaters : UpdaterStep(u)

Spec == Init /\ [][Next]_vars

\* A wait the handler has begun is polled, a request being served is served to
\* its end, and an expired task gets its signal (ExpiryWorker).  Handlers,
\* clients and the clock owe nothing.
Fairness ==
  /\ \A t \in Tasks : WF_vars(SignalExpiry(t))
  /\ \A t \in Tasks, s \in Slots : WF_vars(WaitStep(t, s))
  /\ \A u \in Updaters : WF_vars(UpdaterStep(u))

FairSpec == Spec /\ Fairness
-----------------------------------------------------------------------------
\* Every variable of the router, its handlers and its requests has its type.
TypeOK ==
  /\ record \in [Tasks -> Record \cup {NoTask}]
  /\ overdue \in [Tasks -> BOOLEAN] /\ token \in [Tasks -> BOOLEAN]
  /\ call \in [Tasks -> CallPC] /\ hand \in [Tasks -> HandPC]
  /\ cancelled \in [Tasks -> BOOLEAN]
  /\ slot \in [Tasks -> [Slots -> [pc : SlotPC, asked : SUBSET Keys, got : Got]]]
  /\ permit \in [Tasks -> BOOLEAN] /\ queue \in [Tasks -> Seq(Slots)]
  /\ run \in [Tasks -> [Invocations -> RunPC]]
  /\ updater \in [Updaters -> [pc : {"idle", "resuming", "replaying"},
                               task : Tasks \cup {NoTask},
                               revision : {"final", "legacy"}]]

Running(t) == { i \in Invocations : run[t][i] # "none" }
BeingResumed(t) ==
  \E u \in Updaters : updater[u].pc # "idle" /\ updater[u].task = t

\* The clients of ordinary tasks speak the final revision: an update of an
\* older one that finds no live handler resumes nothing.
FinalUnlessLive ==
  \A u \in Updaters : updater[u].revision = "legacy" => updater[u].task \in Live

\* A task that reads `working` has someone at work on it: its tools/call, its
\* live handler, an invocation, or an update about to resume it.  With nobody
\* left it would stay `working` until its TTL.
WorkingHasAnOwner ==
  \A t \in Tasks :
    Editable(t) /\ record[t].status = "working" =>
      \/ call[t] = "preparing" \/ Registered(t)
      \/ Running(t) # {} \/ BeingResumed(t)

\* A task without a live handler never has two invocations under way, or one
\* under way and another about to be: no update resumes what still runs.
OneInvocationAtATime ==
  \A t \in Tasks \ Live :
    /\ Cardinality(Running(t)) =< 1
    /\ Running(t) # {} => ~BeingResumed(t)

\* A wait that succeeds hands over an answer to each request of its park, save
\* those that a later park of the same handler superseded.
WaitDeliversEverything ==
  \A t \in Tasks, s \in Slots : slot[t][s].got # "less"

\* A wait comes back to the handler once its task is cancelled or expired, and,
\* as long as the handler never waits on another park beside it, once its
\* requests and all others of the task are answered: there is one notification.
WaitReturns ==
  \A t \in Tasks, s \in Slots :
    LET alone == \A other \in Slots \ {s} : ~Waiting(t, other)
        over == ~Visible(t) \/ Cancelled(t)
        answered == /\ slot[t][s].asked \subseteq Answered(record[t])
                    /\ Outstanding(record[t]) = {}
    IN /\ Waiting(t, s) /\ over ~> ~Waiting(t, s)
       /\ []alone => (Waiting(t, s) /\ answered ~> ~Waiting(t, s))

=============================================================================
