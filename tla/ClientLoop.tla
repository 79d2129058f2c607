---------------------------- MODULE ClientLoop -----------------------------
(***************************************************************************)
(* The client: callers of McpClient and the message loop that owns the     *)
(* transport.  Callers hand the loop commands over a bounded channel and   *)
(* wait on oneshots; the loop correlates requests and responses, runs      *)
(* server requests as tasks of their own, and is told by a guard when a    *)
(* caller's future is dropped.  One caller at a time recovers an expired   *)
(* session by resetting the transport and repeating the handshake.         *)
(* Sources: client/mod.rs, client/http.rs (the transport).                 *)
(*                                                                         *)
(* The server answers as it likes; frames from its several streams arrive  *)
(* in any order.  A oneshot is named by its caller and the count of        *)
(* commands that caller has sent; a request's id is its oneshot.           *)
(***************************************************************************)
EXTENDS Naturals, Sequences, FiniteSets

CONSTANTS
  Callers,      \* tasks that call methods of one McpClient
  Nested,       \* those that run inside the handler of a server request
  Subscribers,  \* subscriptions/listen streams, named by request id
  Requests,     \* requests the server makes, named by request id
  Capacity,     \* of the command channel
  MaxRounds,    \* max_mrtr_rounds
  MaxSessions,  \* sessions the server ever opens
  Budget,       \* how many calls and handshakes each caller starts
  Nobody

ASSUME ClientAssumption ==
  /\ Nested \subseteq Callers
  /\ Nobody \notin Callers \cup Subscribers \cup Requests
  /\ Subscribers \cap Requests = {}
  /\ (Subscribers \cup Requests \cup {Nobody}) \cap (Callers \X Nat) = {}
  /\ Budget \in [Callers -> Nat]
  /\ Capacity \in Nat \ {0} /\ MaxRounds \in Nat /\ MaxSessions \in Nat

VARIABLES
  final,        \* the 2026-07-28 lifecycle was discovered
  initialized,  \* McpClient.initialized
  caller,       \* what each caller does, and where it is in it
  lock,         \* who holds recovery_lock
  commands,     \* the command channel
  loop,         \* where the message loop is
  pending,      \* keys of pending_requests
  acked,        \* subscriptions whose acknowledgment_tx has been taken
  task,         \* the task of each server request
  told,         \* server requests whose token is cancelled
  session,      \* the transport's session, 0 for none
  alive,        \* the sessions the server knows
  opened,       \* how many it has opened
  sent,         \* requests with the server
  incoming,     \* frames on their way to the loop
  stream,       \* what the holder of each subscription does
  untold,       \* requests whose cancellation was skipped
  stranded      \* requests cut off with a session, their callers not told

client == <<final, initialized, lock>>
server == <<session, alive, opened>>
wire   == <<sent, incoming>>
peers  == <<task, told>>
vars   == <<client, caller, commands, loop, pending, acked, peers, server, wire,
            stream, untold, stranded>>

Handshakes == {"initialize", "discover"}
Commands == Handshakes \cup {"call", "notify", "reset", "end", "resolve"}
Replies == {"none", "ok", "error", "input", "expired", "closed"}

Resting == [doing |-> "nothing", at |-> "sending", n |-> 0, calls |-> 0,
            retried |-> FALSE, rounds |-> 0, reply |-> "none"]

Init ==
  /\ final = FALSE /\ initialized = FALSE /\ lock = Nobody
  /\ caller = [c \in Callers |-> Resting]
  /\ commands = <<>> /\ loop = [at |-> "selecting", for |-> Nobody]
  /\ pending = {} /\ acked = {}
  /\ task = [r \in Requests |-> "none"] /\ told = {}
  /\ session = 0 /\ alive = {} /\ opened = 0
  /\ sent = {} /\ incoming = {}
  /\ stream = [s \in Subscribers |-> "none"]
  /\ untold = {} /\ stranded = {}

Oneshot(c) == <<c, caller[c].n>>
Awaiting(c) == caller[c].doing # "nothing" /\ caller[c].at = "awaiting"
Stopped == loop.at = "stopped"
Room == ~Stopped /\ Len(commands) < Capacity
Running == { r \in Requests : task[r] = "running" }

\* Keys of pending_server_requests, until the loop has taken the outcome.
InHand == { r \in Requests : task[r] \in {"running", "relaying"} }
-----------------------------------------------------------------------------
\* next_request_id: the ids in use anywhere, and one that is not.
Mentioned ==
  pending \cup untold \cup stranded \cup { m.id : m \in sent \cup incoming }
    \cup { commands[i].id : i \in 1..Len(commands) } \cup {loop.for}

Fresh(c) ==
  CHOOSE n \in 1..(Cardinality(Mentioned) + 1) : <<c, n>> \notin Mentioned

\* Callers.  Begin sets out to send one command and wait for its oneshot.
Begin(c, doing) ==
  [caller EXCEPT ![c].doing = doing, ![c].at = "sending", ![c].n = Fresh(c),
                 ![c].reply = "none"]

Returned(c) == [caller EXCEPT ![c] = [Resting EXCEPT !.calls = caller[c].calls]]

Starts(c, doing) ==
  /\ caller[c].doing = "nothing" /\ caller[c].calls < Budget[c] /\ ~Stopped
  /\ c \in Nested => Running # {}
  /\ caller' = [Begin(c, doing) EXCEPT ![c].calls = @ + 1]
  /\ UNCHANGED <<client, commands, loop, pending, acked, peers, server, wire,
                 stream, untold, stranded>>

Call(c) == initialized /\ Starts(c, "call")
Initialize(c) == ~initialized /\ Starts(c, "initialize")
Discover(c) == ~initialized /\ Starts(c, "discover")

Send(c) ==
  /\ caller[c].doing \in Commands /\ caller[c].at = "sending" /\ Room
  /\ commands' = Append(commands, [kind |-> caller[c].doing, id |-> Oneshot(c)])
  /\ caller' = [caller EXCEPT ![c].at = "awaiting"]
  /\ UNCHANGED <<client, loop, pending, acked, peers, server, wire, stream,
                 untold, stranded>>

\* The loop is gone: every call and every recovery fails on its way.
Released(c) == IF lock = c THEN Nobody ELSE lock

SendFails(c) ==
  /\ caller[c].doing \in Commands /\ caller[c].at = "sending" /\ Stopped
  /\ caller' = Returned(c)
  /\ lock' = Released(c)
  /\ UNCHANGED <<final, initialized, commands, loop, pending, acked, peers,
                 server, wire, stream, untold, stranded>>

\* What a caller does with the reply to its command: send_request, then
\* recover_session, reinitialize and end_abandoned_session.
Took(c, doing) ==
  /\ Awaiting(c) /\ caller[c].doing = doing /\ caller[c].reply # "none"
  /\ UNCHANGED <<commands, loop, pending, acked, peers, server, wire, stream,
                 untold, stranded>>

Recoverable(c) ==
  caller[c].reply = "expired" /\ ~final /\ ~caller[c].retried

AsksForInput(c) == caller[c].reply = "input" /\ caller[c].rounds < MaxRounds

TakeAnswer(c) ==
  /\ Took(c, "call")
  /\ caller' = IF Recoverable(c)
               THEN [caller EXCEPT ![c].doing = "lock", ![c].retried = TRUE]
               ELSE IF AsksForInput(c)
               THEN [Begin(c, "resolve") EXCEPT ![c].rounds = @ + 1]
               ELSE Returned(c)
  /\ UNCHANGED client

TakeInputs(c) ==
  /\ Took(c, "resolve")
  /\ caller' = IF caller[c].reply = "ok" THEN Begin(c, "call") ELSE Returned(c)
  /\ UNCHANGED client

LockRecovery(c) ==
  /\ caller[c].doing = "lock" /\ lock = Nobody
  /\ lock' = c
  /\ caller' = Begin(c, "reset")
  /\ UNCHANGED <<final, initialized, commands, loop, pending, acked, peers,
                 server, wire, stream, untold, stranded>>

TakeReset(c) ==
  /\ Took(c, "reset")
  /\ IF caller[c].reply = "ok"
     THEN /\ initialized' = FALSE
          /\ caller' = Begin(c, "initialize")
          /\ UNCHANGED <<final, lock>>
     ELSE /\ caller' = Returned(c)
          /\ lock' = Released(c)
          /\ UNCHANGED <<final, initialized>>

TakeHandshake(c) ==
  \/ /\ Took(c, "initialize")
     /\ caller' = Begin(c, IF caller[c].reply = "ok" THEN "notify" ELSE "end")
     /\ UNCHANGED client
  \/ /\ Took(c, "discover")
     /\ caller' = Returned(c)
     /\ final' = (final \/ caller[c].reply = "ok")
     /\ initialized' = (initialized \/ caller[c].reply = "ok")
     /\ UNCHANGED lock

\* A handshake that fails after the server may have opened a session ends it.
TakeNotified(c) ==
  /\ Took(c, "notify")
  /\ IF caller[c].reply # "ok"
     THEN caller' = Begin(c, "end") /\ UNCHANGED client
     ELSE /\ initialized' = TRUE
          /\ lock' = Released(c)
          /\ caller' = IF caller[c].retried THEN Begin(c, "call") ELSE Returned(c)
          /\ UNCHANGED final

TakeEnded(c) ==
  /\ Took(c, "end")
  /\ caller' = Returned(c)
  /\ lock' = Released(c)
  /\ UNCHANGED <<final, initialized>>

\* try_send of a cancellation from a Drop: skipped when there is no room.
TryCancel(id) ==
  IF Room THEN /\ commands' = Append(commands, [kind |-> "cancel", id |-> id])
               /\ UNCHANGED untold
  ELSE untold' = untold \cup {id} /\ UNCHANGED commands

\* The future is dropped, by a timeout or a lost select!.  CancelOnDrop is
\* armed from the send of the request until its response is read.
Abandon(c) ==
  /\ caller[c].doing # "nothing"
  /\ caller' = Returned(c)
  /\ lock' = Released(c)
  /\ IF Awaiting(c) /\ caller[c].doing \in Handshakes \cup {"call"}
     THEN TryCancel(Oneshot(c)) ELSE UNCHANGED <<commands, untold>>
  /\ UNCHANGED <<final, initialized, loop, pending, acked, peers, server, wire,
                 stream, stranded>>
-----------------------------------------------------------------------------
\* The holder of a SubscriptionHandle.  The id comes back from the loop, so a
\* future dropped before that leaves a stream nobody can cancel.
Listen(s) ==
  /\ stream[s] = "none" /\ initialized /\ final /\ Room
  /\ commands' = Append(commands, [kind |-> "subscribe", id |-> s])
  /\ stream' = [stream EXCEPT ![s] = "opening"]
  /\ UNCHANGED <<client, caller, loop, pending, acked, peers, server, wire,
                 untold, stranded>>

StopListening(s) ==
  /\ stream[s] \in {"opening", "open"}
  /\ stream' = [stream EXCEPT ![s] = "left"]
  /\ IF stream[s] = "open" THEN TryCancel(s) ELSE UNCHANGED <<commands, untold>>
  /\ UNCHANGED <<client, caller, loop, pending, acked, peers, server, wire,
                 stranded>>
-----------------------------------------------------------------------------
\* The loop.  Told gives the callers in wait for a oneshot of ids their reply.
Told(ids, reply) ==
  [c \in Callers |->
     IF Awaiting(c) /\ Oneshot(c) \in ids /\ caller[c].reply = "none"
     THEN [caller[c] EXCEPT !.reply = reply] ELSE caller[c]]

\* The loop ends: everything pending fails, queued commands are dropped with
\* their oneshots, server requests are cancelled, the transport closes.
Stop ==
  /\ loop' = [at |-> "stopped", for |-> Nobody]
  /\ caller' = Told({ Oneshot(c) : c \in Callers }, "closed")
  /\ commands' = <<>> /\ pending' = {} /\ sent' = {} /\ incoming' = {}
  /\ told' = told \cup InHand
  /\ alive' = alive \ {session} /\ session' = 0
  /\ UNCHANGED <<client, acked, task, opened, stream, untold, stranded>>

Selecting == loop.at = "selecting"
Dequeue(kinds) ==
  /\ Selecting /\ commands # <<>> /\ Head(commands).kind \in kinds
  /\ commands' = Tail(commands)

Frame(kind, id) == [kind |-> kind, id |-> id]

\* transport.send of a request.  Before a session exists it is done inline, and
\* a refusal is an error of the send (SendRefused); afterwards on its own task.
Inline(m) == session = 0 /\ ~final /\ m.kind \in {"initialize", "call"}

Transmit(m) ==
  \/ /\ ~Inline(m)
     /\ sent' = sent \cup {[kind |-> m.kind, id |-> m.id, session |-> session]}
     /\ UNCHANGED <<server, incoming>>
  \/ /\ Inline(m) /\ m.kind = "initialize" /\ opened < MaxSessions
     /\ session' = opened + 1 /\ opened' = opened + 1
     /\ alive' = alive \cup {opened + 1}
     /\ \E reply \in {"ok", "error"} :
          incoming' = incoming \cup {Frame(reply, m.id)}
     /\ UNCHANGED sent
  \/ /\ Inline(m) /\ m.kind = "call"
     /\ incoming' = incoming \cup {Frame("ok", m.id)}
     /\ UNCHANGED <<server, sent>>

TakeRequest ==
  LET m == Head(commands)
  IN /\ Dequeue(Handshakes \cup {"call", "subscribe"})
     /\ pending' = pending \cup {m.id}
     /\ stream' = [s \in Subscribers |->
          IF s = m.id /\ stream[s] = "opening" THEN "open" ELSE stream[s]]
     /\ Transmit(m)
     /\ UNCHANGED <<client, caller, loop, acked, peers, untold, stranded>>

\* A server that wants a session, or has no room for one: the loop ends.
SendRefused ==
  /\ Selecting /\ commands # <<>>
  /\ Head(commands).kind \in {"initialize", "call"} /\ Inline(Head(commands))
  /\ Stop

\* Mutated: an abandoned subscription is cancelled, an abandoned call is not.
CancelStreams ==
  LET id == Head(commands).id
  IN /\ Dequeue({"cancel"})
     /\ IF id \in pending \cap Subscribers
        THEN /\ pending' = pending \ {id}
             /\ sent' = { m \in sent : m.id # id }
        ELSE UNCHANGED <<pending, sent>>
     /\ UNCHANGED <<client, caller, loop, acked, peers, server, incoming,
                    stream, untold, stranded>>

\* An id with nothing pending is a no-op; a refused cancellation puts it back.
CancelRequest ==
  LET id == Head(commands).id
  IN /\ Dequeue({"cancel"})
     /\ \/ /\ pending' = pending \ {id}
           /\ sent' \in {sent, { m \in sent : m.id # id }}
           /\ UNCHANGED untold
        \/ /\ id \in pending
           /\ untold' = untold \cup {id}
           /\ UNCHANGED <<pending, sent>>
     /\ UNCHANGED <<client, caller, loop, acked, peers, server, incoming,
                    stream, stranded>>

TakeNotify ==
  /\ Dequeue({"notify"})
  /\ \E reply \in {"ok", "error"} :
       /\ reply = "ok" => session \in alive \cup {0}
       /\ caller' = Told({Head(commands).id}, reply)
  /\ UNCHANGED <<client, loop, pending, acked, peers, server, wire, stream,
                 untold, stranded>>

\* The handler answers the input requests while the loop waits for it.
ResolveInputs ==
  /\ Dequeue({"resolve"})
  /\ loop' = [at |-> "handling", for |-> Head(commands).id]
  /\ UNCHANGED <<client, caller, pending, acked, peers, server, wire, stream,
                 untold, stranded>>

\* Mutated: the transport is reset, its pending requests are left waiting.
ResetTransport ==
  /\ Dequeue({"reset"})
  /\ session' = 0 /\ sent' = {} /\ incoming' = {}
  /\ caller' = Told({Head(commands).id}, "ok")
  /\ UNCHANGED <<client, loop, pending, acked, peers, alive, opened, stream,
                 untold, stranded>>

ResetSession ==
  LET done == Head(commands).id
  IN /\ Dequeue({"reset"})
     /\ session' = 0 /\ sent' = {} /\ incoming' = {} /\ pending' = {}
     /\ caller' = [c \in Callers |->
          IF Oneshot(c) = done THEN Told({done}, "ok")[c]
          ELSE Told(pending, "expired")[c]]
     /\ UNCHANGED <<client, loop, acked, peers, alive, opened, stream, untold,
                    stranded>>

\* end_session resets the transport but leaves pending_requests as it is.
EndSession ==
  /\ Dequeue({"end"})
  /\ session' = 0 /\ alive' = alive \ {session}
  /\ sent' = {} /\ incoming' = {}
  /\ stranded' = stranded \cup pending
  /\ caller' = Told({Head(commands).id}, "ok")
  /\ UNCHANGED <<client, loop, pending, acked, peers, opened, stream, untold>>
-----------------------------------------------------------------------------
\* Frames.  Answers fail or settle the request they name, if it is pending; an
\* expiry without an id fails everything pending.
Arrives(kinds, id) ==
  /\ Selecting
  /\ \E kind \in kinds :
       Frame(kind, id) \in incoming /\ incoming' = incoming \ {Frame(kind, id)}

ReceiveAnswer(id) ==
  /\ \E reply \in {"ok", "error", "input", "expired"} :
       /\ Arrives({reply}, id)
       /\ caller' = Told({id} \cap pending, reply)
  /\ pending' = pending \ {id}
  /\ UNCHANGED <<client, commands, loop, acked, peers, server, sent, stream,
                 untold, stranded>>

ReceiveExpiry ==
  /\ Arrives({"expired"}, Nobody)
  /\ caller' = Told(pending, "expired")
  /\ pending' = {}
  /\ UNCHANGED <<client, commands, loop, acked, peers, server, sent, stream,
                 untold, stranded>>

\* Mutated: the handler of a server request runs inside the loop.
DispatchInline(r) ==
  /\ Arrives({"asks"}, r)
  /\ task' = [task EXCEPT ![r] = "running"]
  /\ loop' = [at |-> "handling", for |-> r]
  /\ UNCHANGED <<client, caller, commands, pending, acked, told, server, sent,
                 stream, untold, stranded>>

ReceiveRequest(r) ==
  /\ Arrives({"asks"}, r)
  /\ task' = [task EXCEPT ![r] = "running"]
  /\ UNCHANGED <<client, caller, commands, loop, pending, acked, told, server,
                 sent, stream, untold, stranded>>

\* notifications/cancelled for a stream, or for a request of the server whose
\* outcome the loop has not taken: one that waits in the relay is sent anyway.
ReceiveCancelled(id) ==
  /\ Arrives({"cancelled"}, id)
  /\ IF id \in Requests
     THEN /\ told' = told \cup ({id} \cap InHand)
          /\ UNCHANGED <<pending, loop>>
     ELSE /\ pending' = pending \ {id}
          /\ loop' = IF id \in pending
                     THEN [at |-> "handling", for |-> Nobody] ELSE loop
          /\ UNCHANGED told
  /\ UNCHANGED <<client, caller, commands, acked, task, server, sent, stream,
                 untold, stranded>>

ReceiveAcknowledged(s) ==
  /\ Arrives({"acknowledged"}, s)
  /\ acked' = acked \cup ({s} \cap pending)
  /\ loop' = IF s \in pending \ acked
             THEN [at |-> "handling", for |-> s] ELSE loop
  /\ UNCHANGED <<client, caller, commands, pending, peers, server, sent, stream,
                 untold, stranded>>

\* Mutated: a notification ahead of the acknowledgment reaches the handler.
ReceiveAnyEvent(s) ==
  /\ Arrives({"event"}, s)
  /\ loop' = IF s \in pending THEN [at |-> "handling", for |-> s] ELSE loop
  /\ UNCHANGED <<client, caller, commands, pending, acked, peers, server, sent,
                 stream, untold, stranded>>

\* A notification of a stream; one ahead of the acknowledgment ends it.
ReceiveEvent(s) ==
  /\ Arrives({"event"}, s)
  /\ pending' = IF s \in acked THEN pending ELSE pending \ {s}
  /\ loop' = IF s \in pending \cap acked
             THEN [at |-> "handling", for |-> s] ELSE loop
  /\ UNCHANGED <<client, caller, commands, acked, peers, server, sent, stream,
                 untold, stranded>>

\* The handler comes back, from a notification or with the inputs.
HandlerReturns ==
  /\ loop.at = "handling"
  /\ loop.for \in Requests => \A c \in Nested : caller[c].doing = "nothing"
  /\ loop' = [at |-> "selecting", for |-> Nobody]
  /\ \E reply \in {"ok", "error"} : caller' = Told({loop.for}, reply)
  /\ UNCHANGED <<client, commands, pending, acked, peers, server, wire, stream,
                 untold, stranded>>
-----------------------------------------------------------------------------
\* A server request's handler returns and its task looks at the token; the
\* loop then sends what it was handed, without another look.
FinishTask(r) ==
  /\ task[r] = "running"
  /\ \A c \in Nested : caller[c].doing = "nothing"
  /\ task' = [task EXCEPT ![r] = IF r \in told THEN "silent" ELSE "relaying"]
  /\ UNCHANGED <<client, caller, commands, loop, pending, acked, told, server,
                 wire, stream, untold, stranded>>

Relay(r) ==
  /\ Selecting /\ task[r] = "relaying"
  /\ task' = [task EXCEPT ![r] = "answered"]
  /\ UNCHANGED <<client, caller, commands, loop, pending, acked, told, server,
                 wire, stream, untold, stranded>>

\* The transport fails or ends, a send is refused, or shutdown is called.
EndLoop == Selecting /\ Stop

\* The client itself is dropped, which its callers outlive by no step: the
\* loop is aborted where it is and nothing is cleaned up.
DropClient ==
  /\ ~Stopped /\ \A c \in Callers : caller[c].doing = "nothing"
  /\ loop' = [at |-> "stopped", for |-> Nobody]
  /\ commands' = <<>> /\ pending' = {} /\ sent' = {} /\ incoming' = {}
  /\ alive' = alive \ {session} /\ session' = 0
  /\ UNCHANGED <<client, caller, acked, peers, opened, stream, untold, stranded>>
-----------------------------------------------------------------------------
\* The server.
ServerActs ==
  UNCHANGED <<client, caller, commands, loop, pending, acked, told, session,
              opened, stream, untold, stranded>>

Answers(m) ==
  IF m.kind \in Handshakes THEN {"ok", "error"}
  ELSE IF m.kind = "subscribe" THEN {"ok"}
  ELSE IF final THEN {"ok", "input"}
  ELSE IF m.session \in alive THEN {"ok"} ELSE {"expired"}

\* The frames of one response stream arrive in order.
Quiet(id) == \A m \in incoming : m.id # id

Answer(m) ==
  /\ m \in sent /\ Quiet(m.id)
  /\ sent' = sent \ {m}
  /\ \E reply \in Answers(m) :
       \E id \in {m.id} \cup (IF reply = "expired" THEN {Nobody} ELSE {}) :
         incoming' = incoming \cup {Frame(reply, id)}
  /\ UNCHANGED <<task, alive>> /\ ServerActs

Expire(s) ==
  /\ s \in alive /\ opened < MaxSessions
  /\ alive' = alive \ {s}
  /\ UNCHANGED <<task, wire>> /\ ServerActs

Ask(r) ==
  /\ session \in alive /\ task[r] = "none"
  /\ task' = [task EXCEPT ![r] = "asked"]
  /\ incoming' = incoming \cup {Frame("asks", r)}
  /\ UNCHANGED <<alive, sent>> /\ ServerActs

Withdraw(r) ==
  /\ session \in alive /\ r \notin told
  /\ task[r] \in {"asked", "running", "relaying"}
  /\ incoming' = incoming \cup {Frame("cancelled", r)}
  /\ UNCHANGED <<task, alive, sent>> /\ ServerActs

Publish(s) ==
  /\ \E m \in sent : m.id = s
  /\ Quiet(s)
  /\ \E kind \in {"acknowledged", "event", "cancelled"} :
       incoming' = incoming \cup {Frame(kind, s)}
  /\ UNCHANGED <<task, alive, sent>> /\ ServerActs

CallerStep(c) ==
  \/ Send(c) \/ SendFails(c) \/ LockRecovery(c) \/ TakeReset(c)
  \/ TakeAnswer(c) \/ TakeInputs(c) \/ TakeHandshake(c) \/ TakeNotified(c)
  \/ TakeEnded(c)

TakeCommand ==
  \/ TakeRequest \/ SendRefused \/ CancelRequest \/ TakeNotify \/ ResolveInputs
  \/ ResetSession \/ EndSession

LoopStep ==
  \/ TakeCommand \/ HandlerReturns \/ ReceiveExpiry
  \/ \E id \in { m.id : m \in incoming } \ {Nobody} : ReceiveAnswer(id)
  \/ \E r \in Requests : ReceiveRequest(r) \/ ReceiveCancelled(r) \/ Relay(r)
  \/ \E s \in Subscribers :
       ReceiveAcknowledged(s) \/ ReceiveEvent(s) \/ ReceiveCancelled(s)

ServerStep ==
  \/ \E m \in sent : Answer(m)
  \/ \E s \in alive : Expire(s)
  \/ \E r \in Requests : Ask(r) \/ Withdraw(r)
  \/ \E s \in Subscribers : Publish(s)

Next ==
  \/ \E c \in Callers :
       Call(c) \/ Initialize(c) \/ Discover(c) \/ CallerStep(c) \/ Abandon(c)
  \/ \E s \in Subscribers : Listen(s) \/ StopListening(s)
  \/ LoopStep \/ EndLoop \/ DropClient
  \/ \E r \in Requests : FinishTask(r)
  \/ ServerStep

Spec == Init /\ [][Next]_vars

\* Woken tasks are polled, tokio::select! takes each ready branch in the end,
\* handlers return, and the server answers what it has received.  A mutex of
\* tokio is first come, first served.
Fairness ==
  /\ \A c \in Callers :
       WF_vars(CallerStep(c)) /\ SF_vars(LockRecovery(c))
  /\ SF_vars(TakeCommand) /\ WF_vars(HandlerReturns)
  /\ SF_vars(\E id \in { m.id : m \in incoming } \ {Nobody} : ReceiveAnswer(id))
  /\ SF_vars(ReceiveExpiry)
  /\ \A r \in Requests : WF_vars(FinishTask(r))
  /\ WF_vars(\E m \in sent : Answer(m))

FairSpec == Spec /\ Fairness
-----------------------------------------------------------------------------
\* Every variable of the client, its loop and its transport has its type.
TypeOK ==
  /\ final \in BOOLEAN /\ initialized \in BOOLEAN
  /\ lock \in Callers \cup {Nobody}
  /\ caller \in [Callers -> [doing : Commands \cup {"nothing", "lock"},
                             at : {"sending", "awaiting"}, n : Nat,
                             calls : Nat, retried : BOOLEAN,
                             rounds : 0..MaxRounds, reply : Replies]]
  /\ Len(commands) =< Capacity
  /\ loop.at \in {"selecting", "handling", "stopped"}
  /\ acked \subseteq Subscribers /\ told \subseteq Requests
  /\ task \in [Requests -> {"none", "asked", "running", "relaying", "silent",
                            "answered"}]
  /\ opened \in 0..MaxSessions /\ session \in 0..opened
  /\ alive \subseteq 1..opened
  /\ stream \in [Subscribers -> {"none", "opening", "open", "left"}]

\* A request nobody waits for is on its way out: its cancellation is queued
\* behind it, unless the guard found no room or the transport refused it.
NoOrphans ==
  \A id \in (pending \ Subscribers) \ untold :
    \/ \E c \in Callers : Awaiting(c) /\ Oneshot(c) = id
    \/ \E i \in 1..Len(commands) : commands[i] = [kind |-> "cancel", id |-> id]

\* A pending request is with the server, or its answer or an expiry is on its
\* way to the loop, unless its session was ended under it: no reset, answer,
\* cancellation or expiry takes the one away and leaves the other.
NothingIsLost ==
  \A id \in pending \ stranded :
    \/ \E m \in sent : m.id = id
    \/ \E m \in incoming : m.kind \in Replies /\ m.id \in {id, Nobody}

\* The handler hears of a stream only between its acknowledgment and its end.
StreamIsAcknowledged ==
  [][\A s \in Subscribers :
       loop'.for = s /\ loop.for # s => s \in pending /\ s \in acked']_vars

\* Every call comes back, recovery and handler callbacks included, unless its
\* session was ended under it.
CallReturns ==
  \A c \in Callers :
    caller[c].doing # "nothing"
      ~> caller[c].doing = "nothing" \/ Oneshot(c) \in stranded

=============================================================================
