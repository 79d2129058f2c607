# A verification of tower-mcp

tower-mcp is a Rust framework for Model Context Protocol servers and clients:
tower services for tools, resources and prompts, transports that carry
JSON-RPC, sessions, and *tasks* (SEP-2663), the long-running form of
`tools/call` that outlives the request that started it. These modules model
its concurrent parts, check them with TLC on small instances, and prove the
results that matter for every instance with TLAPS.

Paths below are under `src/crates/tower-mcp/src/`.

## 1. Inventory

| Component | State | Operations | What is hard |
|---|---|---|---|
| Task store (`async_task.rs`) | table of records, two byte totals, one completion token and one waiter list per task | `create_task`, `publish_task`, `discard_task`, `require_input`, `set_status`, `apply_input_responses`, `set_ttl`, `complete/fail/cancel_task`, `wait_for_completion`, retirement | one lock, but every method takes it two or three times; waiters sleep without it; expiry and removal at any moment; limits |
| Expiry worker (`async_task.rs`) | thread, generation counter, shutdown flag | sleep, wake, signal, clean up, stop | lost wake-ups; a thread holding its store weakly |
| Live task registry (`task_execution.rs`) | admission flag, reservations, executions, watch channel, cancellation per execution | `admit`, `promote`, unregister on drop, `cancel`, `cancel_all`, `close_admission`, `drained` | counts without a gap; cancellation that misses nobody; panics |
| Task execution (`router.rs`, `router/task_ops.rs`, `tool/task.rs`) | spawned handlers, parks and their shared `Notify`, invocations | `tools/call` as a task, `park_input`/`wait`, `tasks/update` (two revisions), `tasks/cancel`, resumption | handler, updates, cancellation and expiry race; exactly one handler at work |
| Sessions (`session.rs`) | phase word, handshake flag | `mark_initializing`, `mark_initialized` | two compare-and-swaps |
| HTTP session registry (`transport/http/session.rs`, `handlers.rs`, `session_store.rs`) | live map of each instance, records they share, limit | create, get, restore, make anew, save, remove, clean up | two stores updated one after the other, an await between; other instances; requests dropped at any await |
| SSE streams (`transport/http/handlers.rs`, `event_store.rs`) | event counter, buffered events, two-tier store | send, buffer, replay | ids drawn before an await |
| Router dispatch (`router.rs`, `jsonrpc.rs`) | in-flight table: id, token, mark | register, cancel, forget | ids used twice; a cancellation after the handler has returned |
| Stdio and other stream transports (`transport/stdio.rs`, `websocket.rs`) | permits, work queue, tasks, stop and connection tokens | read loop, dispatcher, drain | handlers that hold the last permit or never end; requests pipelined behind `initialize` |
| Client loop and its transport (`client/mod.rs`, `client/http.rs`) | command channel, pending requests, tasks of server requests, subscriptions, session, recovery lock | send, cancel, receive, server requests, reset | callbacks that call back; dropped futures; late responses; expired sessions |
| Client response cache (`client/response_cache.rs`, used by `client/mod.rs`) | entries by method, parameters and partition; generation slots; order of resources | capture, lookup, write, release, evict, clear, set partition | an answer written after the eviction that should have killed it |
| Client OAuth (`client/oauth_flow.rs`) | current token and mark of each flow, shared token store, refresh lock | get, refresh, invalidate, authorize | concurrent refresh of rotating tokens; rejections that race a refresh |
| Server OAuth (`oauth/token.rs`) | key cache | validate | refresh under load |
| Proxy (`proxy/`) | backends and their capabilities | forward, refresh | stale capabilities |
| Builders, extractors, middleware, framing, protocol types | none shared | | sequential |

How they interact. The router owns a task store and a live registry. A
`tools/call` that asks for a task creates a record, admits and promotes a live
execution or spawns an ordinary invocation, publishes the task and answers at
once. The spawned handler writes its outcome to the store. `tasks/update`
commits answers to the store first and then wakes the live handler through the
registry, or invokes the handler again. `tasks/cancel` raises a live
execution's cancellation, or writes the cancellation in the store. The store's
worker thread signals expiry through the same token that completion raises.
Sessions and transports carry the requests and know nothing of tasks. A
transport registers each request in the router's in-flight table as it starts
it and hands `notifications/cancelled` to the router, which looks the id up
there. The HTTP handlers ask the session registry for the session of each
request and save it as they go. On the other side the callers of a client talk
to its message loop over a channel; the loop owns the transport, and the
transport asks a token provider (an OAuth flow) before it sends. The client
consults its response cache around each call and evicts from it on change
notifications.

What makes each part correct is stated by the properties of section 4; the
hazards they answer to, and those no property covers yet, are listed with
their lines in `PROJECT.json`.

## 2. Modules

| Module | Models | Uses |
|---|---|---|
| `TaskRecord` | `Task` and its pure operations: status, keys, answers, retained size and reservation | |
| `TaskStore` | `MemoryTaskStore` with its lock, limits, retirement, waiters | `TaskRecord`, `TaskLifecycle` |
| `TaskLifecycle` | abstract: what the `TaskStore` trait promises about one task | |
| `ExpiryWorker` | the expiry thread and `WorkerSignal` | |
| `LiveTaskRegistry` | the registry and the live branch of `tools/call` | |
| `TaskExecution` | router, handlers, parks and updates over one record per task | `TaskRecord` |
| `ResponseCache` | the client's response cache with the calls and notifications that use it | |
| `ClientLoop` | callers of `McpClient`, the message loop, server requests, subscriptions, sessions of the HTTP transport | |
| `StdioServer` | one stdio connection with its dispatcher and the router's table of requests in flight | |
| `SessionRegistry` | one HTTP session over the instances that share its record | |
| `TokenRefresh` | OAuth flows that share a token store, against a server that rotates refresh tokens | |
| `MC...` | instances for TLC | the module named |
| `...Proofs` | theorems | the module named, `TLAPS` |

**TaskRecord** keeps a record's control state (status, outstanding, answered
and superseded keys) and the *weights* of its texts, never their contents.
`RetainedSize` and `Reserve` are the byte accounting as a function of those
weights.

**TaskStore.** A store method of `MemoryTaskStore` retires expired records,
signals, and takes the lock again. A caller is therefore `idle`, `entered`,
`reclaimed` or `trailing`, and each hold of the lock is one action; between
them every other caller, waiter and the worker may step. `wait_for_completion`
is cut at each read and each await. `token[t]` is the task's completion token;
`poisoned` records that an `expect` of the accounting fired under the lock,
which is proved never to happen. The clock is the flag `overdue`, raised by
`Elapse` at any time: the store compares deadlines
and never measures them. Retirement is `Sweep`, done by the worker or by any
method.

**TaskLifecycle** is what a caller may rely on: a task is open until one
outcome is recorded or its TTL hides it, keys are asked once, the token is
raised only when the task is over. `KeepsThePromises` is
`TaskStore => TaskLifecycle!Spec` under the mapping at the end of `TaskStore`.

**ExpiryWorker** has time: deadlines, the sleep and the next cleanup count down
in ticks. A tick can come at any moment, while a deadline is due or the worker
is late as well; fairness only says that time and the thread go on. Writers are
`create_task` and `set_ttl`, whose change of a deadline and wake of the worker
are two steps.

**LiveTaskRegistry.** Each method under the mutex is a step. `cancel_all`
collects under the lock and cancels one by one afterwards, each in two steps,
the reason and the token. A drain sleeps on the watch channel
(`announced`, and an unseen version per receiver).

**TaskExecution.** One record per task, whose single writes are atomic (that
the store behaves so is `TaskStore`'s part). Live handlers park, hold or drop
parks, wait in the steps of `PendingInput::wait` (cancelled? register, read,
await, read again, collect), return, record, unregister. `permit` and `queue`
are the `Notify`: a handler may wait on several parks at once, and an update
that leaves nothing outstanding wakes one of the waits. Updates commit, then
look up the live handle, then resume. The revision of the updating client is
part of the request. A panic policy is assumed here, as documented; without one
a panicking handler leaves its task `working` until the TTL, which
`LiveTaskRegistry` has as the stage `lost`.

**ResponseCache.** Each method of the cache is a step, a cached call is
several: capture the generation of its slot, look up, send, and write the
answer or release the capture. At any await its future may be dropped, which
nothing in the code notices: the capture then stays counted for good, so the
slot is never removed (harmless for what is served, a leak of one small record
per key). Answers are versions of a thing at the server; the server changes a
thing before it announces the change, and announcements are handled late,
twice or never. A list has one slot for all its pages, a resource one of its
own. The stale copy that a failed call may return (`serve_stale_on_error`)
never re-enters the cache and is left out.

**ClientLoop.** A caller puts a command in the bounded channel and awaits a
oneshot, so it is `sending` or `awaiting`; a oneshot is named by its caller
and the number of commands that caller has sent, and that name is also the id
of the request. The loop is `selecting` among channel and transport,
`handling` a command whose send it awaits (a POST of the HTTP transport), or
`stopped`. Each arm of its `select!` is an action: `TakeCommand` with what each
`LoopCommand` does, `ReceiveAnswer`, `ReceiveExpiry`, `ReceiveRequest`,
`ReceiveCancelled`, `ReceiveEvent` and the end of the transport. A server
request runs on a task of its own (`task[r]`), whose handler may call back into
the same client: callers in `Nested` start only while such a task runs, and its
response goes back through the loop's own queue (`relaying`). Until the loop has
taken it from there the request is `InHand` and its token can be cancelled,
which a response in the queue no longer heeds. `Abandon` drops a
caller's future, and `CancelOnDrop` then tries to put a cancellation in the
channel and gives up when it is full. An expired session fails the request
with 404; callers then recover one at a time under `recovery_lock`
(`LockRecovery`, a reset, a handshake, the call again, once). Two variables are
bookkeeping of the model, not of the code: `untold` holds the requests whose
cancellation did not fit in the channel, `stranded` those that were cut off
with their session.

**StdioServer.** `reader` is where `run_with_streams` is: reading, awaiting an
`initialize` that it runs inline (`shaking`), draining, giving up after the
drain timeout, returned; `behind` notes which requests were read after which
`initialize`. The dispatcher is a task that takes the next request of `queue`,
waits for a permit and spawns it. `stage[r]` follows a request to its answer:
the token registered in the table (`Register`), the handler at work, returned
with the registration gone (`Return`), and then `Settle`, which looks at the
mark to decide between answer and silence. `tracked`, `marked` and `fired` are
the table's entries, their `PeerCancelled` and their tokens; an entry belongs
to a dispatch and not to an id, so two requests of one id have two. A
`notifications/cancelled` runs on a task of its own (`notices`). Handlers in
`Patient` end when their token or the application's shutdown is raised, those
in `Deaf` may never end. `max_concurrent_requests` and the drain timeout are
chosen in `Init`.

**SessionRegistry.** The live map of each instance has the session or not
(`live`), besides sessions of other ids counted in `transient`; `stored` is
the record the instances share. A request goes through the awaits of
`handlers.rs` and `session.rs` one step at a time: `pc` names what it will do
next and `record` what it has read. A refresh holds the map's read lock
over its save (`locks`), which is what a removal waits for. Any operation of the
store may fail; the code logs that and goes on, and so does the model, with the
id handed out after a save that failed. `recorded` is history: the save that
precedes the handing out has reached the store. `Abandon` drops a
request at any await and `Restart` loses an instance's map and its requests.
Time is the age of a session or record: just used, used within the TTL, or
longer ago. `knows` is the part of a session that `initialize` fills in.

**TokenRefresh.** A token set is the number of its issue. A call takes the
fast path, or queues for `refresh_lock`, loads the store, adopts what another
flow has saved, or redeems its refresh token and saves the answer, or discards
a token whose refresh was refused. `Authorize` begins a second kind of call, at
any time and whatever the flow holds, as scope escalation does: `authorize` and
`reauthorize` wait for `authorization_lock` (`Drive`), the public `begin` does
without. Then `Begin` takes over the stored token or asks the user, and
`Exchange` redeems the code. `current` is written under `refresh_lock` by a
refresh (`Refreshes`) and without it by an authorization (`Authorizes`) and by
`Invalidate`, since that is how the code does it. Three things are history.
`rejected` holds the tokens a flow was told are rejected since it was
authorized. A call is `overtaken` when an authorization wrote its flow while it
held `refresh_lock`, or when the token it is about to authorize the flow with is
rejected at that moment. A flow is `raced` from the moment an overtaken call
writes it until an authorization that is not overtaken does. The server revokes
and expires as it likes and accepts a refresh token once; an error of the token
store ends a call where it is, as dropping it does.

## 3. Bounds

Every instance has one or two of each actor and tasks, keys and questions in
ones and twos. The races of this code are between two actors over one thing
(one lookup and one commit, one waiter and one notifier, one refresh and one
removal), so two of each is where they appear; two tasks are there only where
tasks share something (the byte totals, the worker's earliest deadline). What
is unbounded in the code and bounded in the models:

* ids are finite and never reused (`issued`): UUIDs in the code;
* payload weights: `Weightless` where limits are not the question, `{0,2,3}`
  under limits of a payload and a table (`MaxPayload = 2`, `MaxRetained = 11`)
  that two tasks exceed, so that every refusal and every retention failure
  happens;
* TTLs of 0, 1 and 3 ticks against a cleanup interval of 3 and a maximal sleep
  of 2, so that the sleep is cut now by a deadline, now by the cleanup, now by
  its maximum;
* in `TaskExecution`, one task per behaviour, live or replayed, with two
  updates; a live handler holds up to two parks and waits on both (`Slots`; the
  proofs are for any number); a client of an
  ordinary task speaks the final revision (`EitherSpec`), except in
  `TaskExecutionLegacy`, which is about the other;
* in `ResponseCache`, `MaxVersion` changes at the server and `MaxGeneration`
  evictions while a slot is held (the code's counter is 64 bits wide and a
  slot is removed when nobody holds it), both 1: one change tells an outdated
  answer from a current one, and one eviction a worthless capture from a valid
  one. The list has one page; the proofs are for any number;
* in `ClientLoop`, two callers, of which one runs in the handler of the one
  server request; two commands in the channel, so that one caller can fill it;
  one round of input; two sessions, so that one expires and another is opened
  for it; two starts of the first caller (shake hands, then call) and one of
  the second. `OneLifecycleSpec` keeps a client to the lifecycle it began
  with, has one caller shake hands at a time, and drops a second future only
  when nothing is left of the first;
* in `StdioServer`, an `initialize` and two calls, all of one id, the hardest
  case for the table; one call waits for its token and the other may never
  end; limits of 1, where the dispatcher waits, and 2; two frames in the pipe.
  The safety properties are proved for any requests, ids, limits and pipe;
* in `SessionRegistry`, one session, `MaxSessions = 1`, two requests. The
  second instance is one the client is routed to now and then: the first request
  stays with the first instance, the second instance has no transient sessions,
  and neither an `initialize` nor a `terminate_session` runs there. The first
  request is the one that initializes, the second the one that deletes, and both
  ask; `auto_reinitialize_sessions` is checked on one instance. The safety
  properties are proved without these restrictions;
* in `TokenRefresh`, two flows, two calls and three token sets. The first call
  stays with the first flow and authorizes it, over a token it holds as well as
  without one; the second calls `get_token` in both flows and contends for the
  first flow's `authorization_lock` until it fails. One token of the first flow
  is rejected between authorizations and none of the second, token sets live
  equally long, and a grant is revoked as a whole while a set is left to issue
  (`SharedSpec`). The safety properties are proved without these restrictions.

Deadlock is checked except where the system really stops:
`LiveTaskRegistry` and `TaskExecution`, whose executions, calls and updates
are finite; `ResponseCache`, when every caller's future was dropped and its
bounds are used up; `ClientLoop`, whose callers start a bounded number of
calls; `StdioServer`, when `run_with_streams` has returned.

## 4. Runs

| Run | Distinct states | Shows |
|---|---|---|
| `TaskStore` | 27 thousand | `KeysKeepTheirMeaning`: no interleaving of parks, answers and status writes lets an old answer meet a new question; `NoMissedWakeup`, `WaiterReturns`: a waiter is never asleep on a finished task and comes back; `WaitsForTheOutcome`: never with an unfinished snapshot, whoever raised the token; `KeepsThePromises`: the table implements `TaskLifecycle` |
| `TaskStoreRetention` | 846 thousand | `ChargeIsExact`: totals equal the sums over the table after every path, stay within the limit, and no `expect` of the accounting fires under the lock; `FailureAlwaysFits`: the terminal write that replaces a refused one always fits what was reserved |
| `ExpiryWorker` | 82 thousand | `NeverOversleeps`, `ExpiredIsReclaimed`: no writer moves a deadline past a sleeping worker; `OutlivesNoStore`, `StopsWithTheStore` |
| `LiveTaskRegistry` | 1.0 million | `CountIsExact`, `DrainedIsFinal`, `DrainResolves`, with panics nobody catches; `CancellationReachesAll`, with two cancellers that give different reasons |
| `TaskExecution` | 69 thousand | `WorkingHasAnOwner`: a `working` task always has someone at work on it; `WaitDeliversEverything`: a wait comes back with an answer to all its park asked, except keys a later park of the handler superseded; `WaitReturns`: it comes back once its task is over, however many waits there are, and once nothing of its task is outstanding as long as no other wait is beside it; `OneInvocationAtATime`: two updates, one resumption, and none while an invocation runs |
| `ResponseCache` | 680 thousand | `NothingOutdated`: once the client has handled the change notification of a version, no older answer is in the cache, whichever calls were in flight, even if a slot was removed and created again in between; `SlotsAreCounted`: every path out of a call gives its capture up once; `PrivateStaysPrivate`: a private answer is only ever there for the partition it was asked in; `OneAnswerPerQuery`: no private answer hides a later public one |
| `ClientLoop` | 75 thousand | `NoOrphans`: a request nobody awaits any more has been cancelled, or is about to be, or its cancellation found the channel full; `NothingIsLost`: a request that is pending is with the server or its answer is on the way, whatever is reset, answered or cancelled around it; `StreamIsAcknowledged`: no event reaches a subscription before its acknowledgment or after its end; `CallReturns`: every call comes back, callbacks of server requests and recoveries included, unless its session was ended under it |
| `StdioServer` | 136 thousand | `CancelledIsNotAnswered`: a request whose cancellation found it in flight stays unanswered even when its handler had returned; `TwinsStayWithinReach`: two requests of one id can both be cancelled until each is over; `HandshakeComesFirst`; `ReturnLeavesNothing`: after a drain nothing of the connection is at work or starts; `KeepsReading`: the loop reads on whatever the handlers do; `RunReturns`: and returns when the input ends |
| `SessionRegistry` | 462 thousand | `WithinTheLimit`, however a session came to be live; `RefreshedIsLive`: a refresh never brings back what a `DELETE` removed; `ClientIsKnown`: once the save before the id is handed out has reached the store, no restore serves a session that does not know its client, whatever the store fails to do later; `IdleIsReclaimed` |
| `TokenRefresh` | 414 thousand | `RefreshesTheCurrent`: until an authorization writes the flow, what a call redeems is what the flow holds, so no two refreshes of a flow spend one refresh token; `RejectedStaysRejected`: no adoption or refresh under way at the time makes a rejected token usable again, but for the two races of an authorization in section 6; `CallReturns`, `authorize` and its wait for `authorization_lock` included |
| `TaskExecutionLegacy`, `StdioServerFailing` | | disagreements between the code and what it says, section 6 |

Each property is also checked against a mutant of the code it is about
(`PROJECT.json`, `mutants`); the mutated operators stand beside the originals
and are marked. `TypeOK` of the modules without proofs and the invariants that
are proved but no longer run (`OutcomeIsImmutable`, `KeysAreDisjoint`,
`ExpirySignalIsSound`, `ReasonIsSettled`) are definitions that a `.cfg` can
name at any time.

### Fairness

* Waiters (`WaiterStep`, `WaitStep`, `DrainerStep`): the runtime polls a woken
  future.
* `UpdaterStep`, `CancellerStep`, `ExecutionStep`: a request being served is
  served to its end. That handlers return is assumed for `DrainResolves` only,
  where a handler that never returns makes a drain that never resolves, as
  documented.
* `Sweep`, `SignalExpiry`, `WorkerStep`, `Tick`: time passes and the worker
  thread runs. `TaskStore` and `TaskExecution` take the signal as given and
  `ExpiryWorker` shows it.
* `ClientLoop`: callers and tasks are polled; the arms of the loop are
  strongly fair, since `tokio::select!` picks among the ready ones at random;
  the recovery lock is strongly fair, since tokio's `Mutex` is a queue; the
  server answers what it was sent, or its session expires.
* `StdioServer`: loop, dispatcher, spawned tasks and timers run. A handler
  returns, if patient once it is told to, if deaf perhaps never. The peer owes
  nothing, not even the end of the input.
* `SessionRegistry`: requests end, time passes, and the cleanup task gets the
  write lock again and again when there is something to reclaim (strong
  fairness: tokio's `RwLock` is fair, and its interval never stops).
* `TokenRefresh`: a call is polled, its HTTP exchange ends one way or another,
  and a waiting call gets `refresh_lock` or `authorization_lock` (queues again).
  The user agrees, declines or lets the callback time out
  (`client/oauth_flow.rs:863`); a handler of the application's own is assumed to
  come back.
* Clients, callers of the store, peers and the host owe nothing else.

## 5. Proofs

Proved for all constants that meet the named assumptions (finite sets of ids
and executions, natural weights and limits, distinguished values outside the
sets they are distinguished from).

* `TaskStoreProofs`, also for `TaskRecord`: the reservation lemmas, that what
  is reserved for an open record covers its failure and its cancellation,
  whatever the weights; typing; and all that the two runs check but liveness,
  along three lines.
  - *Fates.* One lemma, `EveryFate`, says what any one step can do to one task
    (created, edited while open, closed, signalled, removed, nothing), and the
    properties of keys, outcomes, expiry and waiters follow from the list of
    fates and not from the list of actions. `NoMissedWakeup` rests on `Waits`:
    a registered waiter without a wake waits on an open, unsignalled task, and
    each step that ends a task notifies.
  - *Refinement.* `KeepsThePromises`: a caller sees of a task its phase, the
    keys asked and the keys spent, and every step of the store is one step of
    `TaskLifecycle` on one task or shows nothing. There is a lemma for each
    way to rewrite a record (`RewriteMaps`, `CloseMaps`, `FinishMaps`, ...),
    and then one for each hold of the lock. A task hidden by its TTL
    (`HidingMaps`) is over before anything removes its record, so removal is a
    stutter (`VanishMaps`).
  - *Accounting.* `ChargeIsExact`: the totals are sums over the table. That
    such a sum is unique, that taking an element out subtracts its weight and
    that a smaller weight gives a smaller sum are facts about every finite
    set. They are proved with a smallest counterexample: the strict subsets of
    a finite set are well founded, which the library states without an
    operator parameter. Each write then changes the sum by the weight of one
    task, retirement by the weights of those it removes, and a fallback fits
    since its weight was reserved, so no subtraction underflows, no `expect`
    fires and `poisoned` stays down. `NoMissedWakeup` needs that last part: a
    panic under the lock would be a step that ends a task and notifies nobody.
* `TaskExecutionProofs`: typing, `WaitDeliversEverything`,
  `OneInvocationAtATime` and `WorkingHasAnOwner`, for any tasks, keys, slots,
  invocations and updates. None of the three is inductive. `IInv` says, task by
  task, that nothing happens before its `tools/call` (`CallComesFirst`), that a
  live handler's task is open until the handler has recorded and settled before
  its registration goes (`HandlerOwnsItsTask`), that what a park asked is
  outstanding or spent, and all spent once the wait collects (`ParksAreKept`),
  and that an ordinary task has at most one invocation *or* one update that
  committed its last answer, and nothing outstanding meanwhile (`HasOneOwner`):
  only one of two updates can see the last answer committed.
  `WorkingHasAnOwner` is proved as
  `Spec /\ []FinalUnlessLive => []WorkingHasAnOwner`. The hypothesis says that
  an update of revision 2025-11-25 never meets a task that is not live; with
  one the property is false, which is the finding of `TaskExecutionLegacy`.
* `TaskRuntimeProofs`, for `LiveTaskRegistry`: `CountIsExact` and
  `DrainedIsFinal`, from an invariant that ties each stage to membership of
  `reservations` or `executions` and the announced count to their cardinality;
  a drain sealed after `close_admission` has seen no newer count than the one
  it resolved on. `CancellationReachesAll` and `ReasonIsSettled` from a second
  one: what a canceller still owes is in the list it collected, and an
  execution it has left behind has both its reason and its token. For
  `ExpiryWorker`: typing, `OutlivesNoStore` and `NeverOversleeps`. The last is
  not inductive: between computing its sleep and sleeping the worker holds a
  deadline that writers can overtake. The strengthening follows the timer from
  computation to sleep: it bounds every owed deadline *or* the generation has
  moved or a writer is about to move it.
* `ClientLoopProofs`: typing, `NoOrphans`, `NothingIsLost` and
  `StreamIsAcknowledged`, for any callers, requests, subscribers, budgets and
  bounds. `NoOrphans` speaks of the loop's table only and is strengthened along
  the way of a request: a oneshot is in one place, once in the channel, with
  the loop, or pending (`InOnePlace`); a caller that is not waiting has none in
  use, and one that waits has one of the kind it sent (`CallersKnow`); and what
  is still in the channel has a caller in wait, its cancellation behind it, or
  was given up (`QueuedIsAttended`). The order of the channel matters in the
  last one: a cancellation that overtook its request would find nothing to
  cancel. `NothingIsLost` is inductive as it stands (`KeepingWhatAnswers`): each
  step that takes an answer, or a request from the server, away takes the entry
  away that waited for it, or notes it in `stranded`.
* `ResponseCacheProofs`: `NothingOutdated`, `PrivateStaysPrivate`,
  `SlotsAreCounted`, `OneAnswerPerQuery`. The first says nothing of calls in
  flight, so it is strengthened: a capture that is still valid was made in the
  current partition, and its answer, if there is one, is no older than what
  the client has handled. That a valid capture is valid *for the slot it was
  made on* rests on `SlotsAreCounted`: a slot that somebody holds is never
  removed, so its numbers are never reused under him.
* `SessionRegistryProofs`: typing, `WithinTheLimit`, `RefreshedIsLive` and
  `ClientIsKnown`, for any instances, requests and limit. `Sound` types the
  maps and what each request carries and says that a request which saves a
  refreshed record still holds the read lock of a map with the session in it.
  `Acquainted` is the history behind `ClientIsKnown`: there is nothing of the
  session before it is created, and its `initialize` is alone with it until the
  id is handed out. If the save before that reached the store (`recorded`), then
  the session and its record know the client, so whatever copies one of them
  afterwards does too, and a store operation that fails only leaves an older
  copy, which knows it as well.
* `TokenRefreshProofs`: typing, `RefreshesTheCurrent` and
  `RejectedStaysRejected`, for any flows, callers and number of token sets.
  `Sound` is typing and what a call carries at each step; `Careful` says that at
  most one call of a flow is under its lock (`Alone`), that a token set issued
  and not yet saved is known to nobody else (`Fresh`), that what a refresh is
  about to give its flow was not rejected there (`Brought`), and that a rejected
  token still in the store is the flow's own (`StoredIsCurrent`), which is why a
  comparison with the current token is enough to tell it. The last two hold for
  refreshes no authorization has overtaken (`Steady`) and for flows that are not
  `raced`; nothing is assumed of when authorizations come.
* `StdioServerProofs`: typing, `CancelledIsNotAnswered`,
  `TwinsStayWithinReach`, `HandshakeComesFirst` and `ReturnLeavesNothing`, for
  any requests, ids, limits and pipe, connections that fail included. The
  invariant says where an `initialize` can be while the loop reads (`Shaken`),
  in which order dispatcher, token and abort come as the connection shuts down
  (`Dispatched`), that the table holds exactly the handlers at work
  (`Tracked`), and that nobody joins what is left after the return (`Over`).

Every safety property of every passing run is stated by a theorem. Only
model-checked is what TLAPS does not prove, liveness under fairness
(`WaiterReturns`, `ExpiredIsReclaimed`, `StopsWithTheStore`, `DrainResolves`,
`WaitReturns`, `CallReturns` of clients and of token providers, `KeepsReading`,
`RunReturns`, `IdleIsReclaimed`), and with it that the actions are enabled when
they should be. Some of the models are checked under a narrower specification
than they are proved under (`OneLifecycleSpec`, `SharedSpec` and the routing of
`SessionRegistry`, section 3), so for safety the proofs say more than the runs.

## 6. Findings

Two disagreements between the code and what it says of itself, each with a run
whose counterexample shows it:

* `TaskExecutionLegacy`: `tasks/update` of revision 2025-11-25 wakes live
  tasks and never resumes an ordinary one, which then stays `working` with
  nobody at work until its TTL (`router.rs:3202`).
* `StdioServerFailing`: when a read or write fails, `run_with_streams` returns
  without raising the connection's token, and requests still in the queue
  start (`transport/stdio.rs:1457`); only the drain timeout sees to what
  the comment at `:778` promises.

Observed while modelling, without a run of their own:

* tasks: a handler may park twice and wait on both, each wait on a park of its
  own. An update that answers the last request wakes one of them
  (`tool/task.rs:424`, `notify_one`), and the other sleeps on with every request
  of its park answered; nor does a wait wake whose own requests are all answered
  while those of another park are not. That is against "Suspend until every
  request in this park is answered" (`:393`), and `PendingInput` is not `Clone`
  since that "makes a second waiter unrepresentable" (`:360`). `WaitReturns`
  therefore promises a return on answers only to a wait without another beside
  it; without that condition TLC finds it violated. And a park that supersedes
  keys of an earlier one lets the earlier wait return without answers to them,
  against the same line; an update whose commit races the end of a live
  handler invokes the ordinary handler for a task that ran live
  (`router.rs:3144`); `set_status` reaches `working` with requests outstanding
  (`async_task.rs:2831`, against the table at `:33`);
* client: a server request cancelled while its response waits in the relay is
  answered all the same: the loop cancels the token (`client/mod.rs:3304-3311`)
  and then sends what the relay holds without another look (`:3102-3106`),
  against "JSON-RPC forbids answering a cancelled request, so the loop sends
  nothing for this id" (`:2889`); a caller that gets the recovery lock does not
  look again whether another has recovered the session meanwhile
  (`client/mod.rs:2499`); ending a session leaves its pending requests pending,
  whose callers then wait until they are dropped (`client/http.rs:2067`,
  `client/mod.rs:3058`); notification handlers run inline, so one that calls
  back into its client never ends (`client/mod.rs:3391`);
* tokens: an authorization of a flow that holds a token, which scope escalation
  is (`client/oauth_flow.rs:1333-1353`), writes `current` without `refresh_lock`
  (`:1035`, `:1170`). A refresh under way then overwrites the set just
  authorized, in the store and in memory (`:1303-1305`), or clears it from
  memory when it is refused (`:1276`). And `begin` may read the stored token
  (`:1031`), the same token be invalidated (`:1326`), and `begin` write it back
  as usable (`:1035`); since `invalidate` leaves the store alone, a `begin` that
  starts after it does so too. `invalidate` promises that the next `get_token`
  "refreshes instead of re-sending a token the server just rejected" and calls
  its races "one wasted refresh at worst, not correctness" (`:1308-1325`).
  `RefreshesTheCurrent` and `RejectedStaysRejected` except these (`overtaken`,
  `raced`), and TLC finds each of them violated without its exception. Further,
  whether the store still holds the token just refused is decided on
  an earlier read, so a token that another flow saves in between is removed
  (`client/oauth_flow.rs:1283-1293`); a stored token that has expired is not
  used for its refresh token (`:1217`); a call dropped between redeeming and
  saving loses the only refresh token that still works;
* sessions: the id is handed out after a save that failed, whose error is logged
  (`transport/http/session.rs:587-592`), so that the stored record, if there is
  one, has no client and another instance restores the session without it,
  although the save is there "so a restore from a peer instance sees the
  original client info instead of defaults" (`transport/http/handlers.rs:1320`);
  errors of the store are documented as non-fatal (`session.rs:570`). The limit
  is looked at before whether the session is already
  live, so the second of two concurrent restores is refused
  (`transport/http/session.rs:824-838`); a removal between the restore's read
  and its insertion leaves a live session without a record (`:983-996`);
  restoring does not count event 0 (`:865-869`); a cleanup deletes the shared
  record of a session that another instance is using.

## 7. Not modelled, and the plan

Builders, schemas, URI templates, header checks, tracing and protocol types
are sequential code over strings; what they compute is better tested. They,
with tests and documentation in the same files, are most of the repository's
lines; the modules cover the state that several actors share, which is a small
part of the text and the part where order matters.

One run per component is the rule (two where limits and interleavings need
different instances), so that each run has a question of its own.

Next, in this order, each with its instance, mutants and, where it says so,
proofs:

1. `EventStream`: event ids, buffering, replay and the two-tier store, with
   `SessionRegistry` for the restored counter. Abstract: a replay is the
   suffix of what was sent.
2. `TaskExecution` with `tasks/get` and its two reads.
3. `SessionPhase`: the handshake word under concurrent initialize and
   initialized.
4. `JwksCache`: key refresh under concurrent validation.
5. `StdioServer` with subscriptions and notifications on the same output; the
   websocket transport, which shares its multiplexing.
6. `Proxy`: backend table and capability cache.
7. Proofs: with each module above its own. For the modules there are, abstract
   specifications in the manner of `TaskLifecycle` and the refinements: a
   cached call as a read of some version at the server not older than what the
   client has handled (`ResponseCache`), and a provider as a register of one
   token set per flow (`TokenRefresh`).
