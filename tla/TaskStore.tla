----------------------------- MODULE TaskStore ------------------------------
(***************************************************************************)
(* MemoryTaskStore of async_task.rs: the task table behind one lock, its   *)
(* byte accounting, the TTL signals, and the callers, waiters and expiry   *)
(* worker that interleave on it.                                           *)
(*                                                                         *)
(* Most methods take the lock twice: retire_expired(false) first, then the *)
(* body.  A caller is between the two when it has `entered`; time and the  *)
(* other callers move in that gap.  Time is one bit per stored task:       *)
(* `overdue` is `Instant::now() >= created_at + ttl`, read by is_expired.  *)
(***************************************************************************)
EXTENDS TaskRecord, FiniteSetsExt

CONSTANTS
  Ids,          \* task ids generate_task_id can return
  NoTask,       \* the id is not in the table
  Callers,      \* tasks of the runtime that call the store
  Waiters,      \* callers of wait_for_completion
  MaxTasks, MaxPayload, MaxRetained   \* TaskRetentionLimits

VARIABLES
  tasks,      \* MemoryTaskStoreData.tasks
  usage,      \* its retained_bytes and reserved_bytes totals
  token,      \* the cancellation token handed out with each id
  issued,     \* ids create_task has returned
  published,  \* ids someone other than the creating call knows
  caller,     \* where each caller is in its store method
  waiter,     \* where each wait_for_completion call is
  poisoned    \* a panic unwound while holding the write lock

vars == <<tasks, usage, token, issued, published, caller, waiter, poisoned>>

StoredTask == [task : Record, overdue : BOOLEAN, signalled : BOOLEAN,
               retained : Nat, reserved : Nat]

\* The limits are arbitrary: a store too small for any task refuses them all.
ASSUME StoreAssumption ==
  /\ IsFiniteSet(Ids)
  /\ NoTask \notin Ids \cup StoredTask
  /\ {MaxTasks, MaxPayload, MaxRetained} \subseteq Nat

CallerPC == {"idle", "entered", "reclaimed", "trailing"}
WaiterPC == {"idle", "entered", "parked", "checking", "held", "rereading"}
Reply    == {"none", "outcome", "unfinished"}

Init ==
  /\ tasks = [t \in Ids |-> NoTask]
  /\ usage = [retained |-> 0, reserved |-> 0]
  /\ token = [t \in Ids |-> FALSE]
  /\ issued = {}
  /\ published = {}
  /\ caller = [c \in Callers |-> "idle"]
  /\ waiter = [w \in Waiters |->
                 [pc |-> "idle", id |-> NoTask, woken |-> FALSE,
                  last |-> "none"]]
  /\ poisoned = FALSE

Stored(t)   == tasks[t] # NoTask
Overdue(t)  == Stored(t) /\ tasks[t].overdue
Visible(t)  == Stored(t) /\ ~tasks[t].overdue
Editable(t) == Visible(t) /\ ~IsTerminal(tasks[t].task)

\* validate_payload
PayloadLimit == IF MaxPayload =< MaxRetained THEN MaxPayload ELSE MaxRetained
FitsPayload(n) == n =< PayloadLimit

\* prepare_stored_task
Prepared(r) == [task |-> r, overdue |-> FALSE, signalled |-> FALSE,
                retained |-> RetainedSize(r), reserved |-> Reserve(r)]
Storable(r) == RetainedSize(r) + Reserve(r) =< MaxRetained

\* replacement_totals: checked subtraction, addition and the aggregate limit.
Replacing(old, new) ==
  [retained |-> usage.retained - old.retained + new.retained,
   reserved |-> usage.reserved - old.reserved + new.reserved]
Within(u) == /\ u.retained \in Nat /\ u.reserved \in Nat
             /\ u.retained + u.reserved =< MaxRetained
Replaceable(old, new) ==
  /\ old.retained =< usage.retained /\ old.reserved =< usage.reserved
  /\ Within(Replacing(old, new))

\* The stored entry of t after a terminal write: no reservation is left.
Closed(t, r) == [tasks[t] EXCEPT !.task = r, !.retained = RetainedSize(r),
                                 !.reserved = 0]
Closable(t, r) == /\ RetainedSize(r) =< MaxRetained
                  /\ Replaceable(tasks[t], Closed(t, r))

\* Mutated: the reservation of the replaced record is not given back.
PutLeaking(t, new) ==
  /\ tasks' = [tasks EXCEPT ![t] = new]
  /\ usage' = [usage EXCEPT !.retained = @ - tasks[t].retained + new.retained]

Put(t, new) == /\ tasks' = [tasks EXCEPT ![t] = new]
               /\ usage' = Replacing(tasks[t], new)

\* Mutated: the registered notification is given up once the token fires first.
NotifiedWhenParked(ws, S) ==
  [w \in Waiters |->
     IF ws[w].id \in S /\ ws[w].pc = "parked"
     THEN [ws[w] EXCEPT !.woken = TRUE] ELSE ws[w]]

\* completion_notify.notify_waiters for the tasks in S.
Notified(ws, S) ==
  [w \in Waiters |->
     IF ws[w].id \in S /\ ws[w].pc \in {"parked", "checking", "held"}
     THEN [ws[w] EXCEPT !.woken = TRUE] ELSE ws[w]]
-----------------------------------------------------------------------------

\* retire_expired: signal and scrub what is newly overdue, then, when asked
\* to remove, drop everything overdue.  Its `expect`s poison the lock.
Expiring == { t \in Ids : Overdue(t) /\ ~tasks[t].signalled }

Signalled(s) ==
  [s EXCEPT !.task = Scrubbed(@), !.signalled = TRUE,
            !.retained = RetainedSize(Scrubbed(s.task)), !.reserved = 0]

RetainedIn(table, S) == SumFunction([t \in S |-> table[t].retained])
ReservedIn(table, S) == SumFunction([t \in S |-> table[t].reserved])

RetireExpired(remove, ws) ==
  LET scrubbed == [t \in Ids |-> IF t \in Expiring
                                 THEN Signalled(tasks[t]) ELSE tasks[t]]
      dropped == IF remove THEN { t \in Ids : Overdue(t) } ELSE {}
      signalled == [retained |-> usage.retained - RetainedIn(tasks, Expiring)
                                   + RetainedIn(scrubbed, Expiring),
                    reserved |-> usage.reserved - ReservedIn(tasks, Expiring)]
      final == [retained |-> signalled.retained - RetainedIn(scrubbed, dropped),
                reserved |-> signalled.reserved - ReservedIn(scrubbed, dropped)]
  IN /\ token' = [t \in Ids |-> token[t] \/ t \in Expiring]
     /\ waiter' = Notified(ws, Expiring)
     /\ IF Within(signalled) /\ Within(final)
        THEN /\ tasks' = [t \in Ids |-> IF t \in dropped
                                        THEN NoTask ELSE scrubbed[t]]
             /\ usage' = final
             /\ UNCHANGED poisoned
        ELSE /\ poisoned' = TRUE
             /\ tasks' = scrubbed
             /\ UNCHANGED usage

\* A caller runs retire_expired and moves from one place to the next; with
\* the lock poisoned the retirement is skipped.
Retiring(remove, ws) ==
  \/ ~poisoned /\ RetireExpired(remove, ws)
  \/ poisoned /\ waiter' = ws /\ UNCHANGED <<tasks, usage, token, poisoned>>

Step(c, from, to) == caller[c] = from /\ caller' = [caller EXCEPT ![c] = to]

\* The leading retirement of every method that has one, the one create_task
\* does with removal, and the one some bodies do after releasing the lock.
Enter(c) ==
  /\ Step(c, "idle", "entered")
  /\ Retiring(FALSE, waiter)
  /\ UNCHANGED <<issued, published>>

Reclaim(c) ==
  /\ Step(c, "idle", "reclaimed")
  /\ Retiring(TRUE, waiter)
  /\ UNCHANGED <<issued, published>>

RetireAgain(c) ==
  /\ Step(c, "trailing", "idle")
  /\ Retiring(FALSE, waiter)
  /\ UNCHANGED <<issued, published>>

\* A read, a refused call (Ok(false), Ok(None) or Err without a write), or any
\* call that finds the lock poisoned.
ReturnUnchanged(c) ==
  /\ \/ Step(c, "entered", "idle")
     \/ Step(c, "reclaimed", "idle")
  /\ UNCHANGED <<tasks, usage, token, issued, published, waiter, poisoned>>

\* complete, fail and cancel retire once more when the task expired in the
\* gap after the leading retirement.
FindExpired(c, t) ==
  /\ ~poisoned
  /\ Overdue(t)
  /\ Step(c, "entered", "trailing")
  /\ UNCHANGED <<tasks, usage, token, issued, published, waiter, poisoned>>

Body(c) == ~poisoned /\ Step(c, "entered", "idle")
-----------------------------------------------------------------------------
CreateTask(c, t, args) ==
  LET new == Prepared(NewRecord(args))
      total == [retained |-> usage.retained + new.retained,
                reserved |-> usage.reserved + new.reserved]
  IN /\ ~poisoned
     /\ Step(c, "reclaimed", "idle")
     /\ t \notin issued
     /\ FitsPayload(args)
     /\ Storable(NewRecord(args))
     /\ Cardinality({ u \in Ids : Stored(u) }) < MaxTasks
     /\ Within(total)
     /\ tasks' = [tasks EXCEPT ![t] = new]
     /\ usage' = total
     /\ issued' = issued \cup {t}
     /\ UNCHANGED <<token, published, waiter, poisoned>>

\* The creating call answers its client with the id.
Publish(t) ==
  /\ t \in issued
  /\ published' = published \cup {t}
  /\ UNCHANGED <<tasks, usage, token, issued, caller, waiter, poisoned>>

\* discard_task, which its contract reserves for ids not yet published.
DiscardTask(c, t) ==
  LET left == [retained |-> usage.retained - tasks[t].retained,
               reserved |-> usage.reserved - tasks[t].reserved]
  IN /\ ~poisoned
     /\ Step(c, "idle", "idle")
     /\ Stored(t) /\ t \notin published
     /\ tasks' = [tasks EXCEPT ![t] = NoTask]
     /\ IF Within(left)
        THEN usage' = left /\ UNCHANGED poisoned
        ELSE poisoned' = TRUE /\ UNCHANGED usage
     /\ UNCHANGED <<token, issued, published, waiter>>

\* replace_stored_task: an open record rewritten through prepare_stored_task,
\* refused when the new charge does not fit.
Rewrite(t, r) ==
  /\ Storable(r)
  /\ Replaceable(tasks[t], Prepared(r))
  /\ Put(t, Prepared(r))
  /\ UNCHANGED <<token, issued, published, waiter, poisoned>>

SetTaskMeta(c, t, meta) ==
  /\ Body(c)
  /\ Visible(t)
  /\ FitsPayload(meta)
  /\ Rewrite(t, Annotating(tasks[t].task, meta))

RequireInput(c, t, requests, text) ==
  /\ Body(c)
  /\ Editable(t)
  /\ FitsPayload(InputSize * Cardinality(DOMAIN requests))
  /\ FitsPayload(text)
  /\ Reused(tasks[t].task, requests) = {}
  /\ Rewrite(t, Asking(tasks[t].task, requests, text))

ApplyInputResponses(c, t, responses) ==
  /\ Body(c)
  /\ Editable(t)
  /\ LET r == tasks[t].task
         accepted == Accepted(r, responses)
     IN /\ accepted # {} => FitsPayload(InputSize * Cardinality(accepted))
        /\ Rewrite(t, Answering(r, responses))

\* A message is optional; without one the recorded text stays.
SetStatus(c, t, status) ==
  /\ Body(c)
  /\ Editable(t)
  /\ LET r == tasks[t].task
     IN \E text \in { n \in Loads : FitsPayload(n) } \cup {r.text} :
          Rewrite(t, Progressing(r, status, text))

\* set_ttl has no leading retirement.  The new deadline may already be past.
SetTtl(c, t, past) ==
  /\ ~poisoned
  /\ Step(c, "idle", "trailing")
  /\ Stored(t)
  /\ tasks' = IF Overdue(t) THEN tasks
              ELSE [tasks EXCEPT ![t].overdue = past]
  /\ UNCHANGED <<usage, token, issued, published, waiter, poisoned>>
-----------------------------------------------------------------------------
\* A terminal write: the record removed from the table is put back closed and
\* its waiters are woken.
Close(t, r) ==
  /\ Put(t, Closed(t, r))
  /\ waiter' = Notified(waiter, {t})
  /\ UNCHANGED poisoned

\* The removed record could not be put back: `expect` unwinds under the lock.
Panic(t) ==
  /\ poisoned' = TRUE
  /\ tasks' = [tasks EXCEPT ![t] = NoTask]
  /\ UNCHANGED <<usage, waiter>>

\* commit_retention_failure
CommitRetentionFailure(t) ==
  LET r == FailingRetention(tasks[t].task)
  IN IF Closable(t, r) THEN Close(t, r) ELSE Panic(t)

\* complete_task and fail_task share the shape: the payload that does not fit
\* is replaced by the fixed failure, and the caller is told with an Err.
Finish(c, t, status, text, outcome) ==
  LET r == Finishing(tasks[t].task, status, text, outcome)
  IN /\ Body(c)
     /\ Editable(t)
     /\ IF FitsPayload(outcome) /\ FitsPayload(text) /\ Closable(t, r)
        THEN Close(t, r) ELSE CommitRetentionFailure(t)
     /\ UNCHANGED <<token, issued, published>>

CompleteTask(c, t, result) == Finish(c, t, "completed", 0, result)
FailTask(c, t, error)      == Finish(c, t, "failed", error, error)

\* cancel_task raises the token even of a terminal task.
CancelTask(c, t, reason) ==
  LET r == tasks[t].task
      asked == IF FitsPayload(reason) THEN Cancelling(r, reason)
               ELSE CancellingBounded(r)
  IN /\ Body(c)
     /\ Visible(t)
     /\ token' = [token EXCEPT ![t] = TRUE]
     /\ IF IsTerminal(r)
        THEN UNCHANGED <<tasks, usage, waiter, poisoned>>
        ELSE IF Closable(t, asked) THEN Close(t, asked)
        ELSE IF Closable(t, CancellingBounded(r))
             THEN Close(t, CancellingBounded(r))
        ELSE Panic(t)
     /\ UNCHANGED <<issued, published>>
-----------------------------------------------------------------------------
\* wait_for_completion, whose reads of the table each follow a retirement.
BeginWait(w, t) ==
  /\ waiter[w].pc = "idle" /\ t \in published
  /\ Retiring(FALSE, [waiter EXCEPT ![w] = [pc |-> "entered", id |-> t,
                                           woken |-> FALSE, last |-> "none"]])
  /\ UNCHANGED <<issued, published, caller>>

\* What a snapshot read of the waiter's task gives, and the return with it.
Returned(w) ==
  LET t == waiter[w].id
  IN [waiter EXCEPT ![w] =
        [pc |-> "idle", id |-> NoTask, woken |-> FALSE,
         last |-> IF poisoned \/ ~Visible(t) THEN "none"
                  ELSE IF IsTerminal(tasks[t].task) THEN "outcome"
                  ELSE "unfinished"]]

\* The notification is registered under the read lock that saw the task open.
Register(w) ==
  /\ waiter[w].pc = "entered"
  /\ waiter' = IF ~poisoned /\ Editable(waiter[w].id)
               THEN [waiter EXCEPT ![w].pc = "parked"] ELSE Returned(w)
  /\ UNCHANGED <<tasks, usage, token, issued, published, caller, poisoned>>

\* The select between the notification and the token, then the wait on the
\* notification alone after a token that left the task open.
WakeNotified(w) ==
  /\ waiter[w].pc \in {"parked", "held"} /\ waiter[w].woken
  /\ Retiring(FALSE, [waiter EXCEPT ![w].pc = "rereading"])
  /\ UNCHANGED <<issued, published, caller>>

WakeCancelled(w) ==
  /\ waiter[w].pc = "parked" /\ token[waiter[w].id]
  /\ Retiring(FALSE, [waiter EXCEPT ![w].pc = "checking"])
  /\ UNCHANGED <<issued, published, caller>>

\* Mutated: the token is taken for the outcome.
RecheckOnce(w) ==
  /\ waiter[w].pc = "checking"
  /\ waiter' = Returned(w)
  /\ UNCHANGED <<tasks, usage, token, issued, published, caller, poisoned>>

Recheck(w) ==
  /\ waiter[w].pc = "checking"
  /\ waiter' = IF ~poisoned /\ Editable(waiter[w].id)
               THEN [waiter EXCEPT ![w].pc = "held"] ELSE Returned(w)
  /\ UNCHANGED <<tasks, usage, token, issued, published, caller, poisoned>>

Reread(w) ==
  /\ waiter[w].pc = "rereading"
  /\ waiter' = Returned(w)
  /\ UNCHANGED <<tasks, usage, token, issued, published, caller, poisoned>>
-----------------------------------------------------------------------------
\* The TTL of a stored task runs out.
Elapse(t) ==
  /\ Visible(t)
  /\ tasks' = [tasks EXCEPT ![t].overdue = TRUE]
  /\ UNCHANGED <<usage, token, issued, published, caller, waiter, poisoned>>

\* Whoever holds the token create_task returned can raise it directly.
RaiseToken(t) ==
  /\ t \in issued
  /\ token' = [token EXCEPT ![t] = TRUE]
  /\ UNCHANGED <<tasks, usage, issued, published, caller, waiter, poisoned>>

\* A pass of memory_task_store_worker or a call of cleanup_expired.
Sweep(remove) ==
  /\ Retiring(remove, waiter)
  /\ UNCHANGED <<issued, published, caller>>

CallerStep(c) ==
  \/ Enter(c) \/ Reclaim(c) \/ RetireAgain(c) \/ ReturnUnchanged(c)
  \/ \E t \in Ids :
       \/ FindExpired(c, t)
       \/ DiscardTask(c, t)
       \/ \E past \in BOOLEAN : SetTtl(c, t, past)
       \/ \E n \in Loads :
            \/ CreateTask(c, t, n) \/ SetTaskMeta(c, t, n)
            \/ CompleteTask(c, t, n) \/ FailTask(c, t, n)
            \/ CancelTask(c, t, n)
            \/ \E requests \in KeyMap(Questions) :
                 RequireInput(c, t, requests, n)
       \/ \E status \in Open : SetStatus(c, t, status)
       \/ \E responses \in KeyMap(Answers) :
            ApplyInputResponses(c, t, responses)

WaiterStep(w) ==
  \/ Register(w) \/ WakeNotified(w) \/ WakeCancelled(w)
  \/ Recheck(w) \/ Reread(w)

Next ==
  \/ \E c \in Callers : CallerStep(c)
  \/ \E w \in Waiters : WaiterStep(w) \/ \E t \in Ids : BeginWait(w, t)
  \/ \E t \in Ids : Publish(t) \/ Elapse(t) \/ RaiseToken(t)
  \/ \E remove \in BOOLEAN : Sweep(remove)

Spec == Init /\ [][Next]_vars

\* The runtime polls woken waiters and the worker thread wakes at deadlines.
Fairness ==
  /\ \A w \in Waiters : WF_vars(WaiterStep(w))
  /\ WF_vars(Sweep(FALSE))

FairSpec == Spec /\ Fairness
-----------------------------------------------------------------------------
\* Every variable of the store, its callers and its waiters has its type.
TypeOK ==
  /\ tasks \in [Ids -> StoredTask \cup {NoTask}]
  /\ usage \in [retained : Nat, reserved : Nat]
  /\ token \in [Ids -> BOOLEAN]
  /\ issued \subseteq Ids
  /\ published \subseteq issued
  /\ caller \in [Callers -> CallerPC]
  /\ waiter \in [Waiters -> [pc : WaiterPC, id : Ids \cup {NoTask},
                             woken : BOOLEAN, last : Reply]]
  /\ poisoned \in BOOLEAN

\* The two totals are the sums over the table after every interleaving of
\* admissions, rewrites, terminal writes, discards and retirements, within the
\* aggregate limit; so no `expect` on them ever unwinds under the lock.
ChargeIsExact ==
  LET stored == { t \in Ids : Stored(t) }
  IN /\ usage.retained = RetainedIn(tasks, stored)
     /\ usage.reserved = ReservedIn(tasks, stored)
     /\ usage.retained + usage.reserved =< MaxRetained
     /\ ~poisoned

\* An unfinished task always has enough charged to hold its fixed failure.
FailureAlwaysFits ==
  \A t \in Ids :
    Editable(t) => RetainedSize(FailingRetention(tasks[t].task))
                     =< tasks[t].retained + tasks[t].reserved

\* The expiry signal is raised only by a passed deadline, raises the token,
\* and leaves nothing of the payload behind.
ExpirySignalIsSound ==
  \A t \in Ids :
    Stored(t) /\ tasks[t].signalled =>
      /\ tasks[t].overdue /\ token[t]
      /\ tasks[t].retained = Skeleton /\ tasks[t].reserved = 0

\* A key names one request for the life of its task: no key is outstanding
\* and spent at once, and none is both answered and superseded.
KeysAreDisjoint ==
  \A t \in Ids :
    Stored(t) => LET r == tasks[t].task
                 IN /\ Outstanding(r) \cap Spent(r) = {}
                    /\ Answered(r) \cap r.superseded = {}

\* A registered waiter that has not been woken waits on a task that is still
\* open and still owes its expiry signal: no wakeup was missed.
NoMissedWakeup ==
  \A w \in Waiters :
    LET t == waiter[w].id
    IN /\ waiter[w].pc \in {"parked", "checking", "held"}
       /\ ~waiter[w].woken
       => /\ Stored(t)
          /\ ~IsTerminal(tasks[t].task)
          /\ ~tasks[t].signalled

\* wait_for_completion never hands back an unfinished snapshot.
WaitsForTheOutcome == \A w \in Waiters : waiter[w].last # "unfinished"

\* A recorded outcome is never rewritten: it stays until the TTL hides it.
OutcomeIsImmutable ==
  [][\A t \in Ids :
       Visible(t) /\ IsTerminal(tasks[t].task) =>
         \/ tasks'[t] = NoTask
         \/ tasks'[t].overdue
         \/ [tasks'[t].task EXCEPT !.meta = 0]
              = [tasks[t].task EXCEPT !.meta = 0]]_vars

\* While a task is open a spent key stays spent, an answer stays as given and
\* an outstanding key keeps its question.
KeysKeepTheirMeaning ==
  [][\A t \in Ids :
       Editable(t) /\ Editable(t)' =>
         LET r == tasks[t].task
             n == tasks'[t].task
         IN /\ Spent(r) \subseteq Spent(n)
            /\ Outstanding(r) \subseteq Outstanding(n) \cup Spent(n)
            /\ \A k \in Answered(r) : n.answers[k] = r.answers[k]
            /\ \A k \in Outstanding(r) \cap Outstanding(n) :
                 n.asked[k] = r.asked[k]]_vars

\* A waiter whose task has finished, expired or gone gets its answer.
WaiterReturns ==
  \A w \in Waiters :
    waiter[w].pc # "idle" /\ ~Editable(waiter[w].id) ~> waiter[w].pc = "idle"

\* What the store shows of each task: an overdue record reads as absent.
PhaseOf(t) == IF t \notin issued THEN "unborn"
              ELSE IF Visible(t) THEN tasks[t].task.status ELSE "gone"

AskedOf(t) == IF Editable(t) THEN Outstanding(tasks[t].task) ELSE {}
SpentOf(t) == IF Editable(t) THEN Spent(tasks[t].task) ELSE {}

Lifecycle == INSTANCE TaskLifecycle WITH
  phase  <- [t \in Ids |-> PhaseOf(t)],
  asked  <- [t \in Ids |-> AskedOf(t)],
  spent  <- [t \in Ids |-> SpentOf(t)],
  raised <- token

\* The table with its lock, limits, clock and retirement keeps the promises of
\* TaskLifecycle to every caller.
KeepsThePromises == Lifecycle!Spec

=============================================================================
