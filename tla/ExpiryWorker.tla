---------------------------- MODULE ExpiryWorker ----------------------------
(***************************************************************************)
(* memory_task_store_worker of async_task.rs: the thread that signals TTL  *)
(* expiry and reclaims expired records, its WorkerSignal, and the store    *)
(* calls that move a deadline and must reschedule it.                      *)
(*                                                                         *)
(* Every deadline is a countdown, zero once it has passed, so time has no  *)
(* horizon: Tick is one unit of it.  The sleep counts down from where the  *)
(* worker computed it; the code starts counting when the wait begins, and  *)
(* a condvar may also return early or late, so a wake at any moment from   *)
(* zero on is allowed.  `moved` says that the signal's generation differs  *)
(* from the one the worker read (2^64 wakes within one pass are left out). *)
(***************************************************************************)
EXTENDS Integers, FiniteSets

CONSTANTS
  Ids,              \* task slots; one is free again when its task is removed
  Writers,          \* callers of create_task and set_ttl
  Ttls,             \* lifetimes a caller can ask for
  CleanupInterval,  \* MemoryTaskStoreConfig.cleanup_interval
  MaxSleep          \* MAX_SLEEP

\* A zero interval is replaced by one millisecond in the code.
ASSUME WorkerAssumption ==
  /\ Ttls \subseteq Nat
  /\ CleanupInterval \in Nat \ {0}
  /\ MaxSleep \in Nat \ {0}

VARIABLES
  left,       \* time to each task's deadline; Free for an unused slot
  signalled,  \* StoredTask.expiry_signalled
  moved,      \* the generation moved since the worker read it
  shutdown,   \* WorkerSignalState.shutdown
  open,       \* a clone of the store is still held
  writer,     \* where each writer is in its call
  pc,         \* where the worker is in its loop
  timer,      \* what is left of the worker's sleep
  cleanup     \* what is left to cleanup_at

workerVars == <<left, signalled, moved, shutdown, open, writer, pc, timer,
                cleanup>>

Free == -1

WriterPC == {"idle", "admitted", "changed", "reset", "trailing"}
WorkerPC == {"unborn", "starting", "top", "retiring", "planning", "waiting",
             "asleep", "notified", "done"}

WorkerInit ==
  /\ left = [t \in Ids |-> Free]
  /\ signalled = [t \in Ids |-> FALSE]
  /\ moved = FALSE /\ shutdown = FALSE /\ open = TRUE
  /\ writer = [w \in Writers |-> "idle"]
  /\ pc = "unborn" /\ timer = 0 /\ cleanup = 0

Stored(t)  == left[t] # Free
Overdue(t) == left[t] = 0
Owed(t)    == Stored(t) /\ ~signalled[t]

\* retire_expired, seen as deadlines and signals.
Retire(remove) ==
  /\ left' = [t \in Ids |-> IF remove /\ Overdue(t) THEN Free ELSE left[t]]
  /\ signalled' = [t \in Ids |-> IF Overdue(t) THEN ~remove ELSE signalled[t]]

\* The worker holds the state strongly from its upgrade to its drop.
Upgraded == pc \in {"retiring", "planning"}

\* notify_one reaches the worker only if it is waiting on the condvar.
Notify == pc' = IF pc = "asleep" THEN "notified" ELSE pc
-----------------------------------------------------------------------------
Goes(w, from, to) == writer[w] = from /\ writer' = [writer EXCEPT ![w] = to]

\* create_task: ensure_worker and the reclaiming retirement, the insertion
\* under the lock, and after releasing it WorkerSignal::wake.
BeginCreate(w) ==
  /\ open /\ Goes(w, "idle", "admitted")
  /\ Retire(TRUE)
  /\ pc' = IF pc = "unborn" THEN "starting" ELSE pc
  /\ UNCHANGED <<moved, shutdown, open, timer, cleanup>>

Insert(w, t, ttl) ==
  /\ Goes(w, "admitted", "changed")
  /\ ~Stored(t)
  /\ left' = [left EXCEPT ![t] = ttl]
  /\ UNCHANGED <<signalled, moved, shutdown, open, pc, timer, cleanup>>

RefuseCreate(w) ==
  /\ Goes(w, "admitted", "idle")
  /\ UNCHANGED <<left, signalled, moved, shutdown, open, pc, timer, cleanup>>

\* set_ttl moves the deadline, retires, and wakes; on a task that is already
\* overdue it retires only.
SetTtl(w, t, ttl) ==
  /\ open /\ Stored(t)
  /\ IF Overdue(t)
     THEN Goes(w, "idle", "trailing") /\ UNCHANGED left
     ELSE Goes(w, "idle", "reset") /\ left' = [left EXCEPT ![t] = ttl]
  /\ UNCHANGED <<signalled, moved, shutdown, open, pc, timer, cleanup>>

RetireAfterSetTtl(w) ==
  /\ Goes(w, "reset", "changed") \/ Goes(w, "trailing", "idle")
  /\ Retire(FALSE)
  /\ UNCHANGED <<moved, shutdown, open, pc, timer, cleanup>>

Wake(w) ==
  /\ Goes(w, "changed", "idle")
  /\ moved' = TRUE
  /\ Notify
  /\ UNCHANGED <<left, signalled, shutdown, open, timer, cleanup>>

\* Every other store method, and cleanup_expired, retires in passing.
RetireInPassing(remove) ==
  /\ open
  /\ Retire(remove)
  /\ UNCHANGED <<moved, shutdown, open, writer, pc, timer, cleanup>>

\* The last clone is dropped.  Unless the worker keeps the state alive, its
\* Drop shuts the worker down.
DropStore ==
  /\ open /\ \A w \in Writers : writer[w] = "idle"
  /\ open' = FALSE
  /\ IF Upgraded
     THEN UNCHANGED <<moved, shutdown, pc>>
     ELSE moved' = TRUE /\ shutdown' = TRUE /\ Notify
  /\ UNCHANGED <<left, signalled, writer, timer, cleanup>>
-----------------------------------------------------------------------------
\* memory_task_store_worker, one action per lock it takes.
Start ==
  /\ pc = "starting"
  /\ IF open THEN pc' = "top" /\ cleanup' = CleanupInterval
     ELSE pc' = "done" /\ UNCHANGED cleanup
  /\ UNCHANGED <<left, signalled, moved, shutdown, open, writer, timer>>

\* Mutated: a failed upgrade retries instead of leaving the loop.
ReadGenerationRetrying ==
  /\ pc = "top"
  /\ IF open THEN pc' = "retiring" /\ moved' = FALSE
     ELSE UNCHANGED <<pc, moved>>
  /\ UNCHANGED <<left, signalled, shutdown, open, writer, timer, cleanup>>

ReadGeneration ==
  /\ pc = "top"
  /\ IF open THEN pc' = "retiring" /\ moved' = FALSE
     ELSE pc' = "done" /\ UNCHANGED moved
  /\ UNCHANGED <<left, signalled, shutdown, open, writer, timer, cleanup>>

\* Mutated: every pass puts off the next cleanup.
PassPuttingOff ==
  /\ pc = "retiring" /\ pc' = "planning"
  /\ Retire(cleanup = 0)
  /\ cleanup' = CleanupInterval
  /\ UNCHANGED <<moved, shutdown, open, writer, timer>>

Pass ==
  /\ pc = "retiring" /\ pc' = "planning"
  /\ Retire(cleanup = 0)
  /\ cleanup' = IF cleanup = 0 THEN CleanupInterval ELSE cleanup
  /\ UNCHANGED <<moved, shutdown, open, writer, timer>>

\* next_deadline(cleanup_at, next_expiry()), capped by MAX_SLEEP.
Deadlines == {cleanup, MaxSleep} \cup { left[t] : t \in { u \in Ids : Owed(u) } }

\* The state is dropped here; if it was the last reference, so is the store.
Plan ==
  /\ pc = "planning" /\ pc' = "waiting"
  /\ timer' \in Deadlines /\ \A d \in Deadlines : timer' =< d
  /\ IF open THEN UNCHANGED <<moved, shutdown>>
     ELSE moved' = TRUE /\ shutdown' = TRUE
  /\ UNCHANGED <<left, signalled, open, writer, cleanup>>

\* Mutated: the wait begins without comparing generations.
WaitWithoutComparing ==
  /\ pc = "waiting"
  /\ pc' = IF shutdown THEN "done" ELSE "asleep"
  /\ UNCHANGED <<left, signalled, moved, shutdown, open, writer, timer, cleanup>>

\* Mutated: a generation that moved is taken for a shutdown.
WaitMistakingChange ==
  /\ pc = "waiting"
  /\ pc' = IF shutdown \/ moved THEN "done" ELSE "asleep"
  /\ UNCHANGED <<left, signalled, moved, shutdown, open, writer, timer, cleanup>>

\* wait_for_change compares generations under the condvar's lock.
WaitForChange ==
  /\ pc = "waiting"
  /\ pc' = IF shutdown THEN "done" ELSE IF moved THEN "top" ELSE "asleep"
  /\ UNCHANGED <<left, signalled, moved, shutdown, open, writer, timer, cleanup>>

TimeOut ==
  /\ pc = "asleep" /\ timer = 0 /\ pc' = "notified"
  /\ UNCHANGED <<left, signalled, moved, shutdown, open, writer, timer, cleanup>>

SpuriousWakeup ==
  /\ pc = "asleep" /\ pc' = "notified"
  /\ UNCHANGED <<left, signalled, moved, shutdown, open, writer, timer, cleanup>>

Resume ==
  /\ pc = "notified"
  /\ pc' = IF shutdown THEN "done" ELSE "top"
  /\ UNCHANGED <<left, signalled, moved, shutdown, open, writer, timer, cleanup>>

Elapsed(n) == IF n > 0 THEN n - 1 ELSE n

Tick ==
  /\ left' = [t \in Ids |-> Elapsed(left[t])]
  /\ timer' = Elapsed(timer)
  /\ cleanup' = Elapsed(cleanup)
  /\ UNCHANGED <<signalled, moved, shutdown, open, writer, pc>>

WorkerStep ==
  Start \/ ReadGeneration \/ Pass \/ Plan \/ WaitForChange \/ TimeOut \/ Resume

WriterStep(w) == \/ RefuseCreate(w) \/ RetireAfterSetTtl(w) \/ Wake(w)
                 \/ \E t \in Ids, ttl \in Ttls : Insert(w, t, ttl)

WorkerNext ==
  \/ WorkerStep \/ SpuriousWakeup \/ Tick \/ DropStore
  \/ \E w \in Writers :
       \/ WriterStep(w) \/ BeginCreate(w)
       \/ \E t \in Ids, ttl \in Ttls : SetTtl(w, t, ttl)
  \/ \E remove \in BOOLEAN : RetireInPassing(remove)

\* The thread runs, time passes, and a call once begun is polled to its end.
WorkerFairness ==
  /\ WF_workerVars(WorkerStep) /\ WF_workerVars(Tick)
  /\ \A w \in Writers : WF_workerVars(WriterStep(w))

WorkerSpec == WorkerInit /\ [][WorkerNext]_workerVars

WorkerFairSpec == WorkerSpec /\ WorkerFairness
-----------------------------------------------------------------------------
\* Every variable of the worker, its signal and its writers has its type.
WorkerTypeOK ==
  /\ left \in [Ids -> Nat \cup {Free}]
  /\ signalled \in [Ids -> BOOLEAN]
  /\ moved \in BOOLEAN /\ shutdown \in BOOLEAN /\ open \in BOOLEAN
  /\ writer \in [Writers -> WriterPC]
  /\ pc \in WorkerPC
  /\ timer \in Nat /\ cleanup \in 0 .. CleanupInterval

Rescheduling == \E w \in Writers : writer[w] \in {"changed", "reset"}

\* The worker never oversleeps: asleep, with no create_task or set_ttl still
\* on its way to WorkerSignal::wake, it wakes by the first deadline it owes a
\* signal for, and by the next cleanup.
NeverOversleeps ==
  pc = "asleep" /\ ~Rescheduling =>
    /\ timer =< cleanup
    /\ \A t \in Ids : Owed(t) => timer =< left[t]

\* The worker thread ends only with its store: as long as a clone is held,
\* WorkerSignal never reads as shut down and no loop exit is taken.
OutlivesNoStore == open => pc # "done" /\ ~shutdown

\* The cleanup cadence reclaims what has expired.
ExpiredIsReclaimed == \A t \in Ids : Overdue(t) ~> ~open \/ ~Stored(t)

\* Dropping the last clone of the store stops the worker thread.
StopsWithTheStore == ~open ~> pc \in {"unborn", "done"}
=============================================================================
