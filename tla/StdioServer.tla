---------------------------- MODULE StdioServer -----------------------------
(***************************************************************************)
(* One stdio connection of a server: the read loop, the dispatcher that    *)
(* starts requests in order under the concurrency limit, the tasks the     *)
(* requests and notifications run on, and the router's table of requests   *)
(* in flight, which notifications/cancelled looks its request up in.       *)
(* Sources: transport/stdio.rs, router.rs, jsonrpc.rs.                     *)
(***************************************************************************)
EXTENDS Naturals, Sequences, FiniteSets

CONSTANTS
  Requests,    \* request frames, each of them sent once
  Handshakes,  \* those that are `initialize`
  Ids,         \* JSON-RPC ids
  IdOf,        \* the id of each request: a client may use one twice
  Patient,     \* handlers that wait for their token or the server's shutdown
  Deaf,        \* handlers that may never come back
  Limits,      \* the values of max_concurrent_requests
  MaxWire,     \* frames in the input pipe
  Nobody

ASSUME StdioAssumption ==
  /\ Handshakes \subseteq Requests /\ Patient \subseteq Requests
  /\ Deaf \subseteq Requests
  /\ IdOf \in [Requests -> Ids] /\ Ids \cap Requests = {}
  /\ Nobody \notin Requests \cup Ids
  /\ Limits \subseteq Nat \ {0} /\ MaxWire \in Nat

VARIABLES
  limit,       \* permits of the semaphore
  timed,       \* a drain timeout is set
  wire,        \* the frames in the input pipe
  reader,      \* where run_with_streams is
  failed,      \* it came back with an error
  behind,      \* an initialize, and a request read after it
  queue,       \* the work channel
  held,        \* the request the dispatcher holds and wants a permit for
  dispatching, \* the dispatcher lives
  stage,       \* how far each request has come
  tracked,     \* the router's in_flight table: requests with a registration
  marked,      \* requests whose PeerCancelled is set
  fired,       \* requests whose own token is cancelled
  notices,     \* ids with a notifications/cancelled task under way
  scope,       \* the connection's token is cancelled
  stopping,    \* the stopping signal
  aborted      \* tasks told to abort

conn  == <<limit, timed, reader, failed, stopping>>
table == <<tracked, marked, fired>>
vars  == <<conn, wire, behind, queue, held, dispatching, stage, table, notices,
           scope, aborted>>

Stages == {"unsent", "sent", "queued", "held", "spawned", "handling",
           "returned", "framed", "written", "silent", "lost"}

Request(r) == [kind |-> "request", of |-> r]
Cancelled(i) == [kind |-> "cancelled", of |-> i]

Init ==
  /\ limit \in Limits /\ timed \in BOOLEAN
  /\ wire = <<>> /\ reader = "reading" /\ failed = FALSE /\ behind = {}
  /\ queue = <<>> /\ held = Nobody /\ dispatching = TRUE
  /\ stage = [r \in Requests |-> "unsent"]
  /\ tracked = {} /\ marked = {} /\ fired = {} /\ notices = {}
  /\ scope = FALSE /\ stopping = FALSE /\ aborted = {}

Running == { r \in Requests : stage[r] \in {"spawned", "handling", "returned"} }
Inline == { r \in Running : r \in Handshakes }

\* The entries of RequestTasks.
Live ==
  (Running \ Handshakes) \cup notices \cup IF dispatching THEN {Nobody} ELSE {}

Steps(r, from, to) == stage[r] = from /\ stage' = [stage EXCEPT ![r] = to]
-----------------------------------------------------------------------------
\* The peer.
SendRequest(r) ==
  /\ Len(wire) < MaxWire /\ Steps(r, "unsent", "sent")
  /\ wire' = Append(wire, Request(r))
  /\ UNCHANGED <<conn, behind, queue, held, dispatching, table, notices, scope,
                 aborted>>

SendCancelled(i) ==
  /\ Len(wire) < MaxWire
  /\ wire' = Append(wire, Cancelled(i))
  /\ \A n \in 1..Len(wire) : wire[n] # Cancelled(i)
  /\ \E r \in Requests : IdOf[r] = i /\ stage[r] # "unsent"
  /\ UNCHANGED <<conn, behind, queue, held, dispatching, stage, table, notices,
                 scope, aborted>>
-----------------------------------------------------------------------------
\* The read loop.
Reads(frame) ==
  /\ reader = "reading" /\ wire # <<>> /\ Head(wire) = frame
  /\ wire' = Tail(wire)

\* Mutated: the permit is acquired in the read loop.
ReadWhenFree(r) ==
  /\ Reads(Request(r)) /\ r \notin Handshakes
  /\ Cardinality(Running) < limit
  /\ Steps(r, "sent", "queued")
  /\ queue' = Append(queue, r)
  /\ behind' = behind
  /\ UNCHANGED <<conn, held, dispatching, table, notices, scope, aborted>>

ReadRequest(r) ==
  /\ Reads(Request(r)) /\ r \notin Handshakes
  /\ Steps(r, "sent", "queued")
  /\ queue' = Append(queue, r)
  /\ behind' = behind \cup
       ({ h \in Handshakes : stage[h] \notin {"unsent", "sent"} } \X {r})
  /\ UNCHANGED <<conn, held, dispatching, table, notices, scope, aborted>>

\* Mutated: initialize is an ordinary request.
QueueHandshake(h) ==
  /\ Reads(Request(h)) /\ h \in Handshakes
  /\ Steps(h, "sent", "queued")
  /\ queue' = Append(queue, h)
  /\ UNCHANGED <<conn, behind, held, dispatching, table, notices, scope,
                 aborted>>

\* An ordering barrier is awaited in the loop, and its answer written there.
ReadHandshake(h) ==
  /\ Reads(Request(h)) /\ h \in Handshakes
  /\ Steps(h, "sent", "handling")
  /\ reader' = "shaking"
  /\ UNCHANGED <<limit, timed, failed, stopping, behind, queue, held,
                 dispatching, table, notices, scope, aborted>>

FinishHandshake(h) ==
  /\ h \in Handshakes /\ Steps(h, "handling", "written")
  /\ reader' = "reading"
  /\ UNCHANGED <<limit, timed, failed, stopping, wire, behind, queue, held,
                 dispatching, table, notices, scope, aborted>>

\* A notification gets a task at once: no queue and no permit.
ReadCancelled(i) ==
  /\ Reads(Cancelled(i))
  /\ notices' = notices \cup {i}
  /\ UNCHANGED <<conn, behind, queue, held, dispatching, stage, table, scope,
                 aborted>>

Write(r) ==
  /\ reader \in {"reading", "draining"} /\ Steps(r, "framed", "written")
  /\ UNCHANGED <<conn, wire, behind, queue, held, dispatching, table, notices,
                 scope, aborted>>

\* Mutated: the application hears of the end of input only after the drain.
StopQuietly ==
  /\ reader = "reading" /\ reader' = "draining"
  /\ UNCHANGED <<limit, timed, failed, stopping, wire, behind, queue, held,
                 dispatching, stage, table, notices, scope, aborted>>

\* End of input, or StdioTransportHandle::shutdown.
Stop ==
  /\ reader = "reading" /\ reader' = "draining" /\ stopping' = TRUE
  /\ UNCHANGED <<limit, timed, failed, wire, behind, queue, held, dispatching,
                 stage, table, notices, scope, aborted>>

\* A read or a write fails: run comes back as it is.
Fail ==
  /\ reader \in {"reading", "draining"}
  /\ reader' = "returned" /\ failed' = TRUE
  /\ UNCHANGED <<limit, timed, stopping, wire, behind, queue, held, dispatching,
                 stage, table, notices, scope, aborted>>
-----------------------------------------------------------------------------
\* The dispatcher.  The queue closes with the loop, and is worked off first.
Take ==
  /\ dispatching /\ held = Nobody /\ queue # <<>>
  /\ Steps(Head(queue), "queued", "held")
  /\ held' = Head(queue) /\ queue' = Tail(queue)
  /\ UNCHANGED <<conn, wire, behind, dispatching, table, notices, scope, aborted>>

\* Mutated: what has a permit starts.
StartAnyway ==
  /\ dispatching /\ held # Nobody /\ Cardinality(Running \ Inline) < limit
  /\ stage' = [stage EXCEPT ![held] = "spawned"]
  /\ held' = Nobody
  /\ UNCHANGED <<conn, wire, behind, queue, dispatching, table, notices, scope,
                 aborted>>

\* With the permit in hand the scope is looked at and the task spawned, with
\* no await in between.
Start ==
  /\ dispatching /\ held # Nobody /\ Cardinality(Running \ Inline) < limit
  /\ ~scope
  /\ stage' = [stage EXCEPT ![held] = "spawned"]
  /\ held' = Nobody
  /\ UNCHANGED <<conn, wire, behind, queue, dispatching, table, notices, scope,
                 aborted>>

\* Everything still queued or held is dropped with the dispatcher.
DispatcherEnds ==
  /\ dispatching /\ dispatching' = FALSE
  /\ \/ held = Nobody /\ queue = <<>> /\ reader \notin {"reading", "shaking"}
     \/ scope /\ held # Nobody /\ Cardinality(Running \ Inline) < limit
     \/ Nobody \in aborted
  /\ stage' = [r \in Requests |->
                 IF stage[r] \in {"queued", "held"} THEN "lost" ELSE stage[r]]
  /\ queue' = <<>> /\ held' = Nobody /\ aborted' = aborted \ {Nobody}
  /\ UNCHANGED <<conn, wire, behind, table, notices, scope>>
-----------------------------------------------------------------------------
\* The task of a request.  A call is registered when its context is made; what
\* needs no handler is answered at once.
Register(r) ==
  /\ Steps(r, "spawned", "handling")
  /\ tracked' = tracked \cup {r}
  /\ UNCHANGED <<conn, wire, behind, queue, held, dispatching, marked, fired,
                 notices, scope, aborted>>

AnswerAtOnce(r) ==
  /\ Steps(r, "spawned", "returned")
  /\ UNCHANGED <<conn, wire, behind, queue, held, dispatching, table, notices,
                 scope, aborted>>

\* Mutated: the whole id is untracked.
ForgetId(r) == { s \in tracked : IdOf[s] # IdOf[r] }

\* complete_dispatch, run by the guard's drop.
Forget(r) == tracked \ {r}

Return(r) ==
  /\ r \notin Handshakes /\ Steps(r, "handling", "returned")
  /\ tracked' = Forget(r)
  /\ UNCHANGED <<conn, wire, behind, queue, held, dispatching, marked, fired,
                 notices, scope, aborted>>

\* The handler panics, and nothing catches it: the request is not answered.
Panic(r) ==
  /\ r \notin Handshakes /\ Steps(r, "handling", "lost")
  /\ tracked' = Forget(r) /\ aborted' = aborted \ {r}
  /\ UNCHANGED <<conn, wire, behind, queue, held, dispatching, marked, fired,
                 notices, scope>>

\* Mutated: an answer is an answer.
SettleAnyway(r) ==
  /\ Steps(r, "returned", "framed")
  /\ aborted' = aborted \ {r}
  /\ UNCHANGED <<conn, wire, behind, queue, held, dispatching, table, notices,
                 scope>>

\* A request that the peer cancelled in flight is left unanswered.  A frame
\* sent after the loop has gone, or gives up, reaches no one.
Settle(r) ==
  /\ Steps(r, "returned", IF r \in marked THEN "silent" ELSE "framed")
  /\ aborted' = aborted \ {r}
  /\ UNCHANGED <<conn, wire, behind, queue, held, dispatching, table, notices,
                 scope>>

\* A task that was told to abort ends at its next await.
Abort(r) ==
  /\ r \in aborted \cap Running
  /\ stage' = [stage EXCEPT ![r] = "lost"]
  /\ tracked' = Forget(r) /\ aborted' = aborted \ {r}
  /\ UNCHANGED <<conn, wire, behind, queue, held, dispatching, marked, fired,
                 notices, scope>>

\* cancel_request reaches every dispatch under the id.
Cancel(i) ==
  LET found == { r \in tracked : IdOf[r] = i }
  IN /\ i \in notices /\ notices' = notices \ {i}
     /\ fired' = fired \cup found /\ marked' = marked \cup found
     /\ aborted' = aborted \ {i}
     /\ UNCHANGED <<conn, wire, behind, queue, held, dispatching, stage,
                    tracked, scope>>
-----------------------------------------------------------------------------
\* The drain ends when nobody is left to send a frame.
Framed == { r \in Requests : stage[r] = "framed" }

Drained ==
  /\ reader = "draining" /\ Live = {} /\ Framed = {}
  /\ reader' = "returned"
  /\ UNCHANGED <<limit, timed, failed, stopping, wire, behind, queue, held,
                 dispatching, stage, table, notices, scope, aborted>>

\* cancel_and_abort: the scope's token, a grace, then the abort handles.
GiveUp ==
  /\ reader = "draining" /\ timed
  /\ reader' = "giving up" /\ scope' = TRUE
  /\ UNCHANGED <<limit, timed, failed, stopping, wire, behind, queue, held,
                 dispatching, stage, table, notices, aborted>>

GraceEnds ==
  /\ reader = "giving up" /\ reader' = "returned"
  /\ aborted' = Live
  /\ UNCHANGED <<limit, timed, failed, stopping, wire, behind, queue, held,
                 dispatching, stage, table, notices, scope>>

Loop ==
  \/ \E r \in Requests :
       ReadRequest(r) \/ ReadHandshake(r) \/ FinishHandshake(r) \/ Write(r)
  \/ \E i \in Ids : ReadCancelled(i)
  \/ Drained \/ GiveUp \/ GraceEnds

Dispatcher == Take \/ Start \/ DispatcherEnds

Next ==
  \/ \E r \in Requests : SendRequest(r) \/ Register(r) \/ AnswerAtOnce(r)
       \/ Return(r) \/ Panic(r) \/ Settle(r) \/ Abort(r)
  \/ \E i \in Ids : SendCancelled(i) \/ Cancel(i)
  \/ Loop \/ Stop \/ Fail \/ Dispatcher

Spec == Init /\ [][Next]_vars

\* Tasks are polled, timers fire and the output drains.  A patient handler is
\* back once its token fires or the server shuts down, the others on their own,
\* but for the deaf.
Released(r) ==
  /\ r \notin Deaf
  /\ r \in Patient => r \in fired \/ scope \/ stopping

Fairness ==
  /\ WF_vars(Loop) /\ WF_vars(Dispatcher)
  /\ \A i \in Ids : WF_vars(Cancel(i))
  /\ \A r \in Requests :
       /\ WF_vars(Register(r) \/ AnswerAtOnce(r)) /\ WF_vars(Settle(r))
       /\ WF_vars(Abort(r)) /\ WF_vars(Return(r) /\ Released(r))

FairSpec == Spec /\ Fairness
-----------------------------------------------------------------------------
\* Every variable of the connection and of the router's table has its type.
TypeOK ==
  /\ limit \in Limits /\ timed \in BOOLEAN /\ failed \in BOOLEAN
  /\ reader \in {"reading", "shaking", "draining", "giving up", "returned"}
  /\ Len(wire) =< MaxWire
  /\ queue \in Seq(Requests) /\ held \in Requests \cup {Nobody}
  /\ dispatching \in BOOLEAN /\ scope \in BOOLEAN /\ stopping \in BOOLEAN
  /\ stage \in [Requests -> Stages]
  /\ behind \subseteq Handshakes \X Requests /\ tracked \subseteq Requests
  /\ marked \subseteq Requests /\ fired \subseteq Requests
  /\ notices \subseteq Ids
  /\ aborted \subseteq Requests \cup Ids \cup {Nobody}

\* A request that its cancellation found in flight is never answered.
CancelledIsNotAnswered ==
  \A r \in marked : stage[r] \notin {"framed", "written"}

\* A handler stays within reach of a cancellation for as long as it runs, also
\* when a request of the same id ends before it.
TwinsStayWithinReach ==
  \A r \in Requests \ Handshakes : stage[r] = "handling" => r \in tracked

\* No request behind an initialize is started before that has been answered.
HandshakeComesFirst ==
  \A r \in Requests, h \in Handshakes :
    /\ <<h, r>> \in behind
    /\ stage[r] \in {"handling", "returned", "framed", "written"}
    => stage[h] \notin {"queued", "held", "spawned", "handling"}

\* When run returns without an error every request it has read is settled, or
\* the drain timed out and all that is left has been told to stop.
ReturnLeavesNothing ==
  reader = "returned" /\ ~failed =>
    IF scope THEN Live \subseteq aborted
    ELSE \A r \in Requests :
           stage[r] \in {"unsent", "sent", "written", "silent", "lost"}

\* A limit in use does not stop the loop from reading what may free it.
KeepsReading ==
  \A i \in Ids :
    (\E n \in 1..Len(wire) : wire[n] = Cancelled(i))
      ~> i \in notices \/ reader \notin {"reading", "shaking"}

\* Once told to stop, run returns: at the latest after the grace when a drain
\* timeout is set, and without one if every handler comes back.
RunReturns ==
  reader = "draining"
    ~> reader = "returned" \/ (~timed /\ \E r \in Deaf : stage[r] = "handling")

\* Requests still queued behind a saturated limit do not start once the
\* connection has given up.
QueuedStaysQueued ==
  [][reader = "returned" =>
       \A r \in Requests : stage[r] = "held" => stage'[r] # "spawned"]_vars
=============================================================================
