-------------------------- MODULE ClientLoopProofs --------------------------
(***************************************************************************)
(* The safety of the client's message loop for any number of callers,      *)
(* subscriptions and server requests, any channel capacity and any number  *)
(* of sessions.                                                            *)
(***************************************************************************)
EXTENDS ClientLoop, FiniteSetTheorems, TLAPS

Oneshots == Callers \X Nat

\* What the loop keeps in pending_requests until it is answered.
Tracked == Handshakes \cup {"call"}

Command ==
  [kind : Commands, id : Oneshots] \cup [kind : {"subscribe"}, id : Subscribers]
    \cup [kind : {"cancel"}, id : Oneshots \cup Subscribers]

CommandsTyped == commands \in Seq(Command)

\* The ids in use are finitely many, so that a new one can be drawn.
IdsAreFinite ==
  /\ IsFiniteSet(pending) /\ IsFiniteSet(untold) /\ IsFiniteSet(stranded)
  /\ IsFiniteSet(sent) /\ IsFiniteSet(incoming)

Queued(id) ==
  \E i \in 1..Len(commands) : commands[i].id = id /\ commands[i].kind \in Commands

InUse(id) == Queued(id) \/ id \in pending \/ loop.for = id

\* A oneshot is in one place: in the channel once, with the loop, or pending.
InOnePlace ==
  /\ \A i, j \in 1..Len(commands) :
       /\ commands[i].kind \in Commands /\ commands[j].kind \in Commands
       /\ commands[i].id = commands[j].id
       => i = j
  /\ \A i \in 1..Len(commands) :
       commands[i].kind \in Commands =>
         commands[i].id \notin pending /\ loop.for # commands[i].id
  /\ loop.for \in Oneshots => loop.for \notin pending

\* The oneshot of a caller that has yet to send, or has its reply, is nowhere;
\* in the channel and among the pending it stands for what its caller does.
CallerKnows(c) ==
  /\ \/ caller[c].doing # "nothing" /\ caller[c].at = "sending"
     \/ Awaiting(c) /\ caller[c].reply # "none"
     => ~InUse(Oneshot(c))
  /\ Awaiting(c) =>
       /\ Oneshot(c) \in pending => caller[c].doing \in Tracked
       /\ \A i \in 1..Len(commands) :
            commands[i].id = Oneshot(c) /\ commands[i].kind \in Commands
              => caller[c].doing = commands[i].kind
  /\ caller[c].doing = "lock" => Awaiting(c) /\ caller[c].reply # "none"
  /\ caller[c].doing # "nothing" /\ caller[c].at = "sending"
       => caller[c].reply = "none"

CallersKnow == \A c \in Callers : CallerKnows(c)

\* A request still in the channel has a caller in wait for it, or its
\* cancellation behind it, or was given up without one.
Covered(i) ==
  commands[i].kind \in Tracked =>
    \/ commands[i].id \in untold
    \/ \E c \in Callers : Awaiting(c) /\ Oneshot(c) = commands[i].id
    \/ \E j \in (i + 1)..Len(commands) :
         commands[j] = [kind |-> "cancel", id |-> commands[i].id]

QueuedIsAttended == \A i \in 1..Len(commands) : Covered(i)

Base == TypeOK /\ CommandsTyped /\ IdsAreFinite

Caller ==
  [doing : Commands \cup {"nothing", "lock"}, at : {"sending", "awaiting"},
   n : Nat, calls : Nat, retried : BOOLEAN, rounds : 0..MaxRounds,
   reply : Replies]
-----------------------------------------------------------------------------
\* Only finitely many ids are in use, so the pigeonholes 1..(their number + 1)
\* hold one that is not.
LEMMA MentionedIsFinite == ASSUME Base PROVE IsFiniteSet(Mentioned)
<1> DEFINE W == sent \cup incoming
           I == 1..Len(commands)
           f == [m \in W |-> m.id]
           g == [i \in I |-> commands[i].id]
<1>1. IsFiniteSet(W)
  BY FS_Union DEF Base, IdsAreFinite
<1>2. f \in Surjection(W, { m.id : m \in W })
  BY DEF Surjection
<1>3. IsFiniteSet({ m.id : m \in W })
  <2> HIDE DEF W, f
  <2> QED
    BY <1>1, <1>2, FS_Surjection
<1>4. IsFiniteSet(I)
  BY FS_Interval DEF Base, CommandsTyped
<1>5. g \in Surjection(I, { commands[i].id : i \in I })
  BY DEF Surjection
<1>6. IsFiniteSet({ commands[i].id : i \in I })
  <2> HIDE DEF I, g
  <2> QED
    BY <1>4, <1>5, FS_Surjection
<1>7. IsFiniteSet(pending \cup untold \cup stranded)
  BY FS_Union DEF Base, IdsAreFinite
<1>8. IsFiniteSet({loop.for})
  BY FS_Singleton
<1> QED
  BY <1>3, <1>6, <1>7, <1>8, FS_Union DEF Mentioned

LEMMA FreshIsFresh ==
  ASSUME Base, NEW c \in Callers
  PROVE  Fresh(c) \in Nat /\ <<c, Fresh(c)>> \notin Mentioned
<1> DEFINE k == Cardinality(Mentioned)
           I == 1..(k + 1)
           f == [n \in I |-> <<c, n>>]
<1>1. IsFiniteSet(Mentioned) /\ k \in Nat
  BY MentionedIsFinite, FS_CardinalityType
<1>2. IsFiniteSet(I) /\ Cardinality(I) = k + 1
  BY <1>1, FS_Interval
<1>3. \E n \in I : <<c, n>> \notin Mentioned
  <2> SUFFICES ASSUME \A n \in I : <<c, n>> \in Mentioned PROVE FALSE
    OBVIOUS
  <2>1. f \in [I -> Mentioned]
    OBVIOUS
  <2>2. k < Cardinality(I)
    BY <1>1, <1>2
  <2>3. \E x, y \in I : x # y /\ f[x] = f[y]
    <3> HIDE DEF I, f
    <3> QED
      BY <1>1, <1>2, <2>1, <2>2, FS_PigeonHole
  <2> QED
    BY <2>3
<1> QED
  BY <1>1, <1>3 DEF Fresh
-----------------------------------------------------------------------------
\* What the steps of a caller have in common: it settles down, sets out to send
\* with a new oneshot, or queues for the recovery lock with its reply in hand,
\* and never while it still waits for a reply.
Moves(c) ==
  /\ \E x \in Caller :
       /\ caller' = [caller EXCEPT ![c] = x]
       /\ \/ x.doing = "nothing"
          \/ x.doing \in Commands /\ x.at = "sending" /\ x.n = Fresh(c)
             /\ x.reply = "none"
          \/ x.doing = "lock" /\ Awaiting(c) /\ caller[c].reply # "none"
             /\ x = [caller[c] EXCEPT !.doing = "lock", !.retried = TRUE]
  /\ ~(Awaiting(c) /\ caller[c].reply = "none" /\ caller[c].doing # "lock")
  /\ UNCHANGED <<commands, loop, pending, acked, peers, server, wire, stream,
                 untold, stranded>>
  /\ final' \in BOOLEAN /\ initialized' \in BOOLEAN
  /\ lock' \in Callers \cup {Nobody}

LEMMA Beginning ==
  ASSUME Base, NEW c \in Callers, NEW doing \in Commands
  PROVE  /\ Begin(c, doing) = [caller EXCEPT ![c] = Begin(c, doing)[c]]
         /\ Begin(c, doing)[c] \in Caller
         /\ Begin(c, doing)[c].doing = doing
         /\ Begin(c, doing)[c].at = "sending"
         /\ Begin(c, doing)[c].n = Fresh(c)
         /\ Begin(c, doing)[c].reply = "none"
         /\ Begin(c, doing)[c].calls = caller[c].calls
         /\ Begin(c, doing)[c].rounds = caller[c].rounds
<1> DEFINE x == [caller[c] EXCEPT !.doing = doing, !.at = "sending",
                                  !.n = Fresh(c), !.reply = "none"]
<1>1. Fresh(c) \in Nat
  BY FreshIsFresh
<1>2. caller \in [Callers -> Caller]
  BY DEF Base, TypeOK, Caller
<1> HIDE DEF Base
<1>3. /\ x \in Caller /\ x.doing = doing /\ x.at = "sending" /\ x.n = Fresh(c)
      /\ x.reply = "none" /\ x.calls = caller[c].calls
      /\ x.rounds = caller[c].rounds
  BY <1>1, <1>2 DEF Caller, Replies
<1>4. Begin(c, doing) = [caller EXCEPT ![c] = x]
  BY <1>2 DEF Begin
<1> HIDE DEF x
<1>5. Begin(c, doing)[c] = x
  BY <1>2, <1>4
<1> QED
  BY <1>3, <1>4, <1>5

LEMMA Returning ==
  ASSUME Base, NEW c \in Callers
  PROVE  /\ Returned(c) = [caller EXCEPT ![c] = Returned(c)[c]]
         /\ Returned(c)[c] \in Caller
         /\ Returned(c)[c].doing = "nothing"
<1> DEFINE x == [Resting EXCEPT !.calls = caller[c].calls]
<1>1. caller \in [Callers -> Caller]
  BY DEF Base, TypeOK, Caller
<1>2. 0 \in 0..MaxRounds
  BY ClientAssumption
<1>3. x \in Caller /\ x.doing = "nothing"
  BY <1>1, <1>2 DEF Resting, Caller, Replies
<1>4. Returned(c) = [caller EXCEPT ![c] = x]
  BY DEF Returned
<1> HIDE DEF x
<1> QED
  BY <1>1, <1>3, <1>4

LEMMA Telling ==
  ASSUME Base, NEW ids, NEW reply \in Replies
  PROVE  Told(ids, reply) \in [Callers -> Caller]
<1>1. caller \in [Callers -> Caller]
  BY DEF Base, TypeOK, Caller
<1> QED
  BY <1>1 DEF Told, Caller

CallerActs(c) ==
  \/ Call(c) \/ Initialize(c) \/ Discover(c) \/ SendFails(c) \/ LockRecovery(c)
  \/ TakeReset(c) \/ TakeAnswer(c) \/ TakeInputs(c) \/ TakeHandshake(c)
  \/ TakeNotified(c) \/ TakeEnded(c)

LEMMA CallerMoves ==
  ASSUME Base, NEW c \in Callers, CallerActs(c) PROVE Moves(c)
<1> DEFINE quiet == UNCHANGED <<commands, loop, pending, acked, peers, server,
                                wire, stream, untold, stranded>>
<1>1. caller \in [Callers -> Caller] /\ final \in BOOLEAN
      /\ initialized \in BOOLEAN /\ lock \in Callers \cup {Nobody}
  BY DEF Base, TypeOK, Caller
<1>2. Released(c) \in Callers \cup {Nobody}
  BY <1>1 DEF Released
<1>3. ASSUME NEW doing \in Commands, caller' = Begin(c, doing)
      PROVE  \E x \in Caller :
               /\ caller' = [caller EXCEPT ![c] = x]
               /\ x.doing \in Commands /\ x.at = "sending" /\ x.n = Fresh(c)
               /\ x.reply = "none"
  BY <1>3, Beginning
<1>4. ASSUME caller' = Returned(c)
      PROVE  \E x \in Caller :
               caller' = [caller EXCEPT ![c] = x] /\ x.doing = "nothing"
  BY <1>4, Returning
<1>5. /\ {"call", "resolve", "reset", "initialize", "notify", "end",
          "discover"} \subseteq Commands
  BY DEF Commands, Handshakes
<1>6. CASE Call(c) \/ Initialize(c) \/ Discover(c)
  <2>1. PICK doing \in Commands : Starts(c, doing)
    BY <1>5, <1>6 DEF Call, Initialize, Discover
  <2> DEFINE y == Begin(c, doing)[c]
             x == [y EXCEPT !.calls = @ + 1]
  <2>2. Begin(c, doing) = [caller EXCEPT ![c] = y] /\ y \in Caller
        /\ y.doing = doing /\ y.at = "sending" /\ y.n = Fresh(c)
        /\ y.reply = "none"
    BY <2>1, Beginning
  <2> HIDE DEF y
  <2>3. x \in Caller /\ x.doing = doing /\ x.at = "sending" /\ x.n = Fresh(c)
        /\ x.reply = "none"
    BY <2>2 DEF Caller
  <2>4. caller' = [caller EXCEPT ![c] = x]
    BY <1>1, <2>1, <2>2 DEF Starts
  <2> HIDE DEF x
  <2> QED
    BY <1>1, <2>1, <2>3, <2>4 DEF Starts, Moves, client, Awaiting
<1>7. CASE SendFails(c)
  BY <1>1, <1>2, <1>4, <1>7 DEF SendFails, Moves, Awaiting
<1>8. CASE LockRecovery(c)
  BY <1>1, <1>3, <1>5, <1>8 DEF LockRecovery, Moves
<1>9. CASE TakeReset(c)
  BY <1>1, <1>2, <1>3, <1>4, <1>5, <1>9 DEF TakeReset, Took, Moves
<1>10. CASE TakeAnswer(c)
  <2>1. UNCHANGED <<final, initialized, lock>> /\ quiet /\ Awaiting(c)
        /\ caller[c].reply # "none"
    BY <1>10 DEF TakeAnswer, Took, client
  <2>2. CASE Recoverable(c)
    <3> DEFINE x == [caller[c] EXCEPT !.doing = "lock", !.retried = TRUE]
    <3>1. caller' = [caller EXCEPT ![c] = x] /\ x \in Caller /\ x.doing = "lock"
      BY <1>1, <1>10, <2>2 DEF TakeAnswer, Caller
    <3> HIDE DEF x
    <3> QED
      BY <1>1, <2>1, <3>1 DEF Moves, x
  <2>3. CASE ~Recoverable(c) /\ AsksForInput(c)
    <3> DEFINE y == Begin(c, "resolve")[c]
               x == [y EXCEPT !.rounds = @ + 1]
    <3>1. caller[c].rounds + 1 \in 0..MaxRounds
      BY <1>1, <2>3, ClientAssumption DEF AsksForInput, Caller
    <3>2. Begin(c, "resolve") = [caller EXCEPT ![c] = y] /\ y \in Caller
          /\ y.doing = "resolve" /\ y.at = "sending" /\ y.n = Fresh(c)
          /\ y.reply = "none"
          /\ y.rounds = caller[c].rounds
      BY <1>5, Beginning
    <3>3. caller' = [Begin(c, "resolve") EXCEPT ![c].rounds = @ + 1]
      BY <1>10, <2>3 DEF TakeAnswer
    <3> HIDE DEF y
    <3>4. x \in Caller /\ x.doing = "resolve" /\ x.at = "sending"
          /\ x.n = Fresh(c) /\ x.reply = "none"
      BY <3>1, <3>2 DEF Caller
    <3>5. caller' = [caller EXCEPT ![c] = x]
      BY <1>1, <3>2, <3>3
    <3> HIDE DEF x
    <3> QED
      BY <1>1, <1>5, <2>1, <3>4, <3>5 DEF Moves
  <2>4. CASE ~Recoverable(c) /\ ~AsksForInput(c)
    BY <1>1, <1>4, <1>10, <2>1, <2>4 DEF TakeAnswer, Moves
  <2> QED
    BY <2>2, <2>3, <2>4
<1>11. CASE TakeInputs(c)
  BY <1>1, <1>3, <1>4, <1>5, <1>11 DEF TakeInputs, Took, client, Moves
<1>12. CASE TakeHandshake(c)
  <2>1. \/ \E doing \in Commands : caller' = Begin(c, doing)
        \/ caller' = Returned(c)
    BY <1>5, <1>12 DEF TakeHandshake
  <2>2. /\ final' \in BOOLEAN /\ initialized' \in BOOLEAN
        /\ lock' \in Callers \cup {Nobody} /\ quiet
        /\ caller[c].reply # "none"
    BY <1>1, <1>12 DEF TakeHandshake, Took, client
  <2> QED
    BY <1>3, <1>4, <2>1, <2>2 DEF Moves
<1>13. CASE TakeNotified(c)
  <2>1. \/ \E doing \in Commands : caller' = Begin(c, doing)
        \/ caller' = Returned(c)
    BY <1>5, <1>13 DEF TakeNotified
  <2>2. /\ final' \in BOOLEAN /\ initialized' \in BOOLEAN
        /\ lock' \in Callers \cup {Nobody} /\ quiet
        /\ caller[c].reply # "none"
    BY <1>1, <1>2, <1>13 DEF TakeNotified, Took, client
  <2> QED
    BY <1>3, <1>4, <2>1, <2>2 DEF Moves
<1>14. CASE TakeEnded(c)
  BY <1>1, <1>2, <1>4, <1>14 DEF TakeEnded, Took, Moves
<1> QED
  BY <1>6, <1>7, <1>8, <1>9, <1>10, <1>11, <1>12, <1>13, <1>14 DEF CallerActs
-----------------------------------------------------------------------------
\* A popped channel keeps the order of what stays in it.
LEMMA Popping ==
  ASSUME CommandsTyped, commands # <<>>, commands' = Tail(commands)
  PROVE  /\ CommandsTyped'
         /\ Len(commands') = Len(commands) - 1 /\ Len(commands) \in Nat \ {0}
         /\ \A i \in 1..Len(commands') : commands'[i] = commands[i + 1]
         /\ Head(commands) = commands[1] /\ Head(commands) \in Command
  BY DEF CommandsTyped

LEMMA Pushing ==
  ASSUME CommandsTyped, NEW m \in Command, commands' = Append(commands, m)
  PROVE  /\ CommandsTyped'
         /\ Len(commands') = Len(commands) + 1 /\ Len(commands) \in Nat
         /\ \A i \in 1..Len(commands) : commands'[i] = commands[i]
         /\ commands'[Len(commands) + 1] = m
<1> HIDE DEF Command
<1> QED
  BY DEF CommandsTyped

LEMMA CommandsSplit ==
  ASSUME NEW m \in Command
  PROVE  /\ m.kind \in Commands \cup {"subscribe", "cancel"}
         /\ m.kind \in Commands => m.id \in Oneshots
         /\ m.kind = "subscribe" => m.id \in Subscribers
         /\ m.kind = "cancel" => m.id \in Oneshots \cup Subscribers
  BY DEF Command, Commands, Handshakes

\* The kinds of the variables beside the callers, the channel and the ids.
Rest ==
  /\ final \in BOOLEAN /\ initialized \in BOOLEAN
  /\ lock \in Callers \cup {Nobody}
  /\ loop.at \in {"selecting", "handling", "stopped"}
  /\ acked \subseteq Subscribers /\ told \subseteq Requests
  /\ task \in [Requests -> {"none", "asked", "running", "relaying", "silent",
                            "answered"}]
  /\ opened \in 0..MaxSessions /\ session \in 0..opened
  /\ alive \subseteq 1..opened
  /\ stream \in [Subscribers -> {"none", "opening", "open", "left"}]

LEMMA BaseParts ==
  Base <=> /\ caller \in [Callers -> Caller]
           /\ CommandsTyped /\ Len(commands) =< Capacity
           /\ IdsAreFinite /\ Rest
  BY DEF Base, TypeOK, Caller, Rest

LEMMA BasePartsNext ==
  ASSUME caller' \in [Callers -> Caller],
         CommandsTyped', (Len(commands) =< Capacity)', IdsAreFinite', Rest'
  PROVE  Base'
  BY DEF Base, TypeOK, Caller, Rest

\* What is taken out of a finite set leaves a finite set.
LEMMA Shrinking ==
  ASSUME NEW S, IsFiniteSet(S), NEW T, T \subseteq S PROVE IsFiniteSet(T)
  BY FS_Subset

LEMMA BaseInit == ASSUME Init PROVE Base
<1>1. caller \in [Callers -> Caller]
  BY ClientAssumption DEF Init, Resting, Caller, Commands, Handshakes, Replies
<1>2. CommandsTyped /\ Len(commands) =< Capacity
  BY ClientAssumption DEF Init, CommandsTyped
<1>3. IdsAreFinite
  BY FS_EmptySet DEF Init, IdsAreFinite
<1>4. Rest
  <2>1. task \in [Requests -> {"none"}] /\ stream \in [Subscribers -> {"none"}]
    BY DEF Init
  <2>2. 0 \in 0..MaxSessions /\ 0 \in 0..0
    BY ClientAssumption
  <2> QED
    BY <2>1, <2>2 DEF Init, Rest
<1> QED
  BY <1>1, <1>2, <1>3, <1>4, BaseParts

LEMMA StoppingKeepsBase == ASSUME Base, Stop PROVE Base'
<1> USE BaseParts
<1>1. caller' \in [Callers -> Caller]
  BY Telling DEF Stop, Replies
<1>2. CommandsTyped' /\ (Len(commands) =< Capacity)'
  BY ClientAssumption DEF Stop, CommandsTyped
<1>3. IdsAreFinite'
  BY FS_EmptySet DEF Stop, IdsAreFinite
<1>4. Rest'
  BY ClientAssumption DEF Stop, Rest, InHand, client
<1> QED
  BY <1>1, <1>2, <1>3, <1>4, BasePartsNext

LEMMA CallersKeepBase ==
  ASSUME Base, NEW c \in Callers, CallerActs(c) \/ Send(c) \/ Abandon(c)
  PROVE  Base'
<1> USE BaseParts
<1>1. CASE CallerActs(c)
  <2>1. Moves(c)
    BY <1>1, CallerMoves
  <2> QED
    BY <2>1, BasePartsNext DEF Moves, CommandsTyped, IdsAreFinite, Rest, peers,
       server, wire
<1>2. CASE Send(c)
  <2>1. caller' \in [Callers -> Caller]
    BY <1>2 DEF Send, Caller
  <2>2. [kind |-> caller[c].doing, id |-> Oneshot(c)] \in Command
    BY <1>2 DEF Send, Command, Oneshot, Oneshots, Caller
  <2>3. CommandsTyped' /\ (Len(commands) =< Capacity)'
    BY <1>2, <2>2, Pushing, ClientAssumption DEF Send, Room
  <2> QED
    BY <1>2, <2>1, <2>3, BasePartsNext DEF Send, IdsAreFinite, Rest, peers,
       server, wire, client
<1>3. CASE Abandon(c)
  <2>1. caller' \in [Callers -> Caller]
    BY <1>3, Returning DEF Abandon
  <2>2. Released(c) \in Callers \cup {Nobody}
    BY DEF Released, Rest
  <2>3. [kind |-> "cancel", id |-> Oneshot(c)] \in Command
    BY DEF Command, Oneshot, Oneshots, Caller
  <2>4. CommandsTyped' /\ (Len(commands) =< Capacity)'
    BY <1>3, <2>3, Pushing, ClientAssumption DEF Abandon, TryCancel, Room,
       CommandsTyped
  <2>5. IsFiniteSet(untold')
    BY <1>3, FS_AddElement DEF Abandon, TryCancel, IdsAreFinite
  <2> QED
    BY <1>3, <2>1, <2>2, <2>4, <2>5, BasePartsNext DEF Abandon, IdsAreFinite,
       Rest, peers, server, wire
<1> QED
  BY <1>1, <1>2, <1>3

LEMMA StreamsKeepBase ==
  ASSUME Base, NEW s \in Subscribers, Listen(s) \/ StopListening(s)
  PROVE  Base'
<1> USE BaseParts
<1>1. CASE Listen(s)
  <2>1. [kind |-> "subscribe", id |-> s] \in Command
    BY DEF Command
  <2>2. CommandsTyped' /\ (Len(commands) =< Capacity)'
    BY <1>1, <2>1, Pushing, ClientAssumption DEF Listen, Room
  <2> QED
    BY <1>1, <2>2, BasePartsNext DEF Listen, IdsAreFinite, Rest, peers, server,
       wire, client
<1>2. CASE StopListening(s)
  <2>1. [kind |-> "cancel", id |-> s] \in Command
    BY DEF Command
  <2>2. CommandsTyped' /\ (Len(commands) =< Capacity)'
    BY <1>2, <2>1, Pushing, ClientAssumption DEF StopListening, TryCancel, Room,
       CommandsTyped
  <2>3. IsFiniteSet(untold')
    BY <1>2, FS_AddElement DEF StopListening, TryCancel, IdsAreFinite
  <2> QED
    BY <1>2, <2>2, <2>3, BasePartsNext DEF StopListening, IdsAreFinite, Rest,
       peers, server, wire, client
<1> QED
  BY <1>1, <1>2

LEMMA CommandsKeepBase == ASSUME Base, TakeCommand PROVE Base'
<1> USE BaseParts
<1>1. ASSUME NEW kinds, Dequeue(kinds)
      PROVE  CommandsTyped' /\ (Len(commands) =< Capacity)'
  BY <1>1, Popping, ClientAssumption DEF Dequeue
<1>2. CASE TakeRequest
  <2> DEFINE m == Head(commands)
  <2>1. IsFiniteSet(pending')
    BY <1>2, FS_AddElement DEF TakeRequest, IdsAreFinite
  <2>2. Transmit(m)
    BY <1>2 DEF TakeRequest
  <2>3. IsFiniteSet(sent') /\ IsFiniteSet(incoming')
    <3>1. \A x : IsFiniteSet(sent \cup {x}) /\ IsFiniteSet(incoming \cup {x})
      BY FS_AddElement DEF IdsAreFinite
    <3> QED
      BY <2>2, <3>1 DEF Transmit, IdsAreFinite, server
  <2>4. /\ opened' \in 0..MaxSessions /\ session' \in 0..opened'
        /\ alive' \subseteq 1..opened'
    BY <2>2, ClientAssumption DEF Transmit, Rest, server
  <2> QED
    BY <1>1, <1>2, <2>1, <2>3, <2>4, BasePartsNext
    DEF TakeRequest, IdsAreFinite, Rest, peers, client
<1>3. CASE SendRefused
  BY <1>3, StoppingKeepsBase DEF SendRefused
<1>4. CASE CancelRequest
  <2>1. IsFiniteSet(pending') /\ IsFiniteSet(sent') /\ IsFiniteSet(untold')
    BY <1>4, FS_AddElement, Shrinking DEF CancelRequest, IdsAreFinite
  <2> QED
    BY <1>1, <1>4, <2>1, BasePartsNext
    DEF CancelRequest, IdsAreFinite, Rest, peers, client, server
<1>5. CASE TakeNotify
  <2>1. caller' \in [Callers -> Caller]
    BY <1>5, Telling DEF TakeNotify, Replies
  <2> QED
    BY <1>1, <1>5, <2>1, BasePartsNext
    DEF TakeNotify, IdsAreFinite, Rest, peers, client, server, wire
<1>6. CASE ResolveInputs
  BY <1>1, <1>6, BasePartsNext
  DEF ResolveInputs, IdsAreFinite, Rest, peers, client, server, wire
<1>7. CASE ResetSession
  <2>1. /\ Told({Head(commands).id}, "ok") \in [Callers -> Caller]
        /\ Told(pending, "expired") \in [Callers -> Caller]
    BY Telling DEF Replies
  <2>2. caller' \in [Callers -> Caller]
    BY <1>7, <2>1 DEF ResetSession
  <2>3. IdsAreFinite'
    BY <1>7, FS_EmptySet DEF ResetSession, IdsAreFinite
  <2>4. Rest'
    <3>1. 0 \in 0..opened
      BY ClientAssumption DEF Rest
    <3> QED
      BY <1>7, <3>1 DEF ResetSession, Rest, peers, client
  <2> QED
    BY <1>1, <1>7, <2>2, <2>3, <2>4, BasePartsNext DEF ResetSession
<1>8. CASE EndSession
  <2>1. caller' \in [Callers -> Caller]
    BY <1>8, Telling DEF EndSession, Replies
  <2>2. IdsAreFinite'
    BY <1>8, FS_EmptySet, FS_Union DEF EndSession, IdsAreFinite
  <2>3. Rest'
    <3>1. 0 \in 0..opened
      BY ClientAssumption DEF Rest
    <3> QED
      BY <1>8, <3>1 DEF EndSession, Rest, peers, client
  <2> QED
    BY <1>1, <1>8, <2>1, <2>2, <2>3, BasePartsNext DEF EndSession
<1> QED
  BY <1>2, <1>3, <1>4, <1>5, <1>6, <1>7, <1>8 DEF TakeCommand

LEMMA FramesKeepBase ==
  ASSUME Base,
         \/ HandlerReturns \/ ReceiveExpiry
         \/ \E id : ReceiveAnswer(id)
         \/ \E r \in Requests : ReceiveRequest(r) \/ ReceiveCancelled(r) \/ Relay(r)
         \/ \E s \in Subscribers :
              ReceiveAcknowledged(s) \/ ReceiveEvent(s) \/ ReceiveCancelled(s)
  PROVE  Base'
<1> USE BaseParts
<1>1. ASSUME NEW kinds, NEW id, Arrives(kinds, id) PROVE IsFiniteSet(incoming')
  BY <1>1, Shrinking DEF Arrives, IdsAreFinite
<1>2. ASSUME UNCHANGED commands
      PROVE  CommandsTyped' /\ (Len(commands) =< Capacity)'
  BY <1>2 DEF CommandsTyped
<1>3. CASE HandlerReturns
  <2>1. caller' \in [Callers -> Caller]
    BY <1>3, Telling DEF HandlerReturns, Replies
  <2> QED
    BY <1>2, <1>3, <2>1, BasePartsNext
    DEF HandlerReturns, IdsAreFinite, Rest, peers, client, server, wire
<1>4. CASE ReceiveExpiry
  <2>1. caller' \in [Callers -> Caller]
    BY <1>4, Telling DEF ReceiveExpiry, Replies
  <2> QED
    BY <1>1, <1>2, <1>4, <2>1, BasePartsNext, FS_EmptySet
    DEF ReceiveExpiry, IdsAreFinite, Rest, peers, client, server
<1>5. ASSUME NEW id, ReceiveAnswer(id) PROVE Base'
  <2>1. caller' \in [Callers -> Caller]
    BY <1>5, Telling DEF ReceiveAnswer, Replies
  <2>2. IsFiniteSet(incoming') /\ IsFiniteSet(pending')
    BY <1>1, <1>5, Shrinking DEF ReceiveAnswer, IdsAreFinite
  <2> QED
    BY <1>2, <1>5, <2>1, <2>2, BasePartsNext
    DEF ReceiveAnswer, IdsAreFinite, Rest, peers, client, server
<1>6. ASSUME NEW r \in Requests, ReceiveRequest(r) PROVE Base'
  BY <1>1, <1>2, <1>6, BasePartsNext
  DEF ReceiveRequest, IdsAreFinite, Rest, client, server
<1>7. ASSUME NEW r \in Requests, Relay(r) PROVE Base'
  BY <1>2, <1>7, BasePartsNext
  DEF Relay, IdsAreFinite, Rest, client, server, wire
<1>8. ASSUME NEW id \in Requests \cup Subscribers, ReceiveCancelled(id) PROVE Base'
  <2>1. IsFiniteSet(incoming') /\ IsFiniteSet(pending')
    BY <1>1, <1>8, Shrinking DEF ReceiveCancelled, IdsAreFinite
  <2> QED
    BY <1>2, <1>8, <2>1, BasePartsNext
    DEF ReceiveCancelled, IdsAreFinite, Rest, client, server
<1>9. ASSUME NEW s \in Subscribers, ReceiveAcknowledged(s) PROVE Base'
  BY <1>1, <1>2, <1>9, BasePartsNext
  DEF ReceiveAcknowledged, IdsAreFinite, Rest, client, server, peers
<1>10. ASSUME NEW s \in Subscribers, ReceiveEvent(s) PROVE Base'
  <2>1. IsFiniteSet(incoming') /\ IsFiniteSet(pending')
    BY <1>1, <1>10, Shrinking DEF ReceiveEvent, IdsAreFinite
  <2> QED
    BY <1>2, <1>10, <2>1, BasePartsNext
    DEF ReceiveEvent, IdsAreFinite, Rest, client, server, peers
<1> QED
  BY <1>3, <1>4, <1>5, <1>6, <1>7, <1>8, <1>9, <1>10

LEMMA OthersKeepBase ==
  ASSUME Base,
         DropClient \/ ServerStep \/ \E r \in Requests : FinishTask(r)
  PROVE  Base'
<1> USE BaseParts
<1>1. CASE DropClient
  <2>1. CommandsTyped' /\ (Len(commands) =< Capacity)'
    BY <1>1, ClientAssumption DEF DropClient, CommandsTyped
  <2>2. IdsAreFinite'
    BY <1>1, FS_EmptySet DEF DropClient, IdsAreFinite
  <2> QED
    BY <1>1, <2>1, <2>2, BasePartsNext, ClientAssumption
    DEF DropClient, Rest, peers, client
<1>2. ASSUME NEW r \in Requests, FinishTask(r) PROVE Base'
  BY <1>2, BasePartsNext
  DEF FinishTask, CommandsTyped, IdsAreFinite, Rest, client, server, wire
<1>3. ASSUME ServerActs, IsFiniteSet(sent'), IsFiniteSet(incoming'),
             alive' \subseteq alive,
             task' \in [Requests -> {"none", "asked", "running", "relaying",
                                     "silent", "answered"}]
      PROVE  Base'
  BY <1>3, BasePartsNext
  DEF ServerActs, CommandsTyped, IdsAreFinite, Rest, client
<1>4. ASSUME NEW m \in sent, Answer(m) PROVE Base'
  <2>1. IsFiniteSet(sent') /\ IsFiniteSet(incoming')
    BY <1>4, Shrinking, FS_AddElement DEF Answer, IdsAreFinite
  <2> QED
    BY <1>3, <1>4, <2>1 DEF Answer, Rest
<1>5. ASSUME NEW s \in alive, Expire(s) PROVE Base'
  BY <1>3, <1>5 DEF Expire, wire, IdsAreFinite, Rest
<1>6. ASSUME NEW r \in Requests, Ask(r) \/ Withdraw(r) PROVE Base'
  BY <1>3, <1>6, FS_AddElement DEF Ask, Withdraw, IdsAreFinite, Rest
<1>7. ASSUME NEW s \in Subscribers, Publish(s) PROVE Base'
  BY <1>3, <1>7, FS_AddElement DEF Publish, IdsAreFinite, Rest
<1> QED
  BY <1>1, <1>2, <1>4, <1>5, <1>6, <1>7 DEF ServerStep

\* Whoever takes a step.
LEMMA Steps ==
  ASSUME Next
  PROVE  \/ \E c \in Callers : CallerActs(c) \/ Send(c) \/ Abandon(c)
         \/ \E s \in Subscribers : Listen(s) \/ StopListening(s)
         \/ TakeCommand \/ (Selecting /\ Stop)
         \/ HandlerReturns \/ ReceiveExpiry
         \/ \E id : id # Nobody /\ ReceiveAnswer(id)
         \/ \E r \in Requests : ReceiveRequest(r) \/ ReceiveCancelled(r) \/ Relay(r)
         \/ \E s \in Subscribers :
              ReceiveAcknowledged(s) \/ ReceiveEvent(s) \/ ReceiveCancelled(s)
         \/ DropClient \/ ServerStep \/ \E r \in Requests : FinishTask(r)
  BY DEF Next, CallerActs, CallerStep, LoopStep, EndLoop

\* The typing of the callers, the loop, the channel and the transport is kept
\* by every step, and only finitely many ids are ever in use.
LEMMA BaseInvariant == Spec => []Base
<1>1. Base /\ [Next]_vars => Base'
  <2> SUFFICES ASSUME Base, [Next]_vars PROVE Base'
    OBVIOUS
  <2>1. CASE Next
    BY <2>1, Steps, CallersKeepBase, StreamsKeepBase, CommandsKeepBase,
       StoppingKeepsBase, FramesKeepBase, OthersKeepBase
  <2>2. CASE UNCHANGED vars
    BY <2>2, BaseParts, BasePartsNext
    DEF vars, client, peers, server, wire, CommandsTyped, IdsAreFinite, Rest
  <2> QED
    BY <2>1, <2>2
<1> QED
  BY <1>1, BaseInit, PTL DEF Spec

\* The caller, loop, channel and session state of client/mod.rs is well typed.
THEOREM Typing == Spec => []TypeOK
<1>1. Base => TypeOK
  BY DEF Base
<1> QED
  BY <1>1, BaseInvariant, PTL
-----------------------------------------------------------------------------
\* What the loop does to the callers: some of those in wait get their reply,
\* and the oneshot it came through is then in no use.
Replying ==
  \A c \in Callers :
    \/ caller'[c] = caller[c]
    \/ /\ Awaiting(c) /\ caller[c].reply = "none" /\ ~InUse(Oneshot(c))'
       /\ \E reply \in Replies \ {"none"} :
            caller'[c] = [caller[c] EXCEPT !.reply = reply]

Inv == InOnePlace /\ CallersKnow /\ QueuedIsAttended /\ NoOrphans

LEMMA OneshotsOfCallers ==
  ASSUME Base
  PROVE  /\ \A c \in Callers : Oneshot(c) \in Oneshots
         /\ \A c, d \in Callers : Oneshot(c) = Oneshot(d) => c = d
  BY BaseParts DEF Oneshot, Oneshots, Caller

LEMMA ToldReplies ==
  ASSUME Base, NEW ids, NEW reply \in Replies \ {"none"},
         caller' = Told(ids, reply),
         \A id \in ids \cap Oneshots : ~InUse(id)'
  PROVE  Replying
  BY OneshotsOfCallers DEF Replying, Told, Awaiting, Oneshot

LEMMA UntouchedReplies ==
  ASSUME UNCHANGED caller PROVE Replying
  BY DEF Replying

\* A caller that gets its reply goes on waiting until it is polled.
LEMMA RepliedCaller ==
  ASSUME Base, Replying, NEW c \in Callers
  PROVE  /\ Oneshot(c)' = Oneshot(c) /\ (Awaiting(c)' <=> Awaiting(c))
         /\ caller'[c].doing = caller[c].doing /\ caller'[c].at = caller[c].at
         /\ caller'[c].reply = caller[c].reply \/ ~InUse(Oneshot(c))'
         /\ caller'[c].reply = caller[c].reply \/ Awaiting(c)
         /\ caller[c].reply # "none" => caller'[c].reply # "none"
<1>1. \/ caller'[c] = caller[c]
      \/ /\ Awaiting(c) /\ caller[c].reply = "none" /\ ~InUse(Oneshot(c))'
         /\ \E reply \in Replies \ {"none"} :
              caller'[c] = [caller[c] EXCEPT !.reply = reply]
  BY DEF Replying
<1> QED
  BY <1>1, BaseParts DEF Oneshot, Awaiting, Caller

LEMMA RepliesKeepCallersKnow ==
  ASSUME Base, CallersKnow, Replying,
         \A id \in Oneshots : InUse(id)' => InUse(id),
         \A id \in Oneshots \cap pending' :
           \/ id \in pending
           \/ \E i \in 1..Len(commands) :
                commands[i].id = id /\ commands[i].kind \in Tracked,
         \A i \in 1..Len(commands') :
           \E j \in 1..Len(commands) : commands'[i] = commands[j]
  PROVE  CallersKnow'
<1> SUFFICES ASSUME NEW c \in Callers PROVE CallerKnows(c)'
  BY DEF CallersKnow
<1>0. Tracked \subseteq Commands
  BY DEF Tracked, Commands
<1>1. Oneshot(c) \in Oneshots
  BY OneshotsOfCallers
<1>3. /\ Oneshot(c)' = Oneshot(c) /\ (Awaiting(c)' <=> Awaiting(c))
      /\ caller'[c].doing = caller[c].doing /\ caller'[c].at = caller[c].at
      /\ caller'[c].reply = caller[c].reply \/ ~InUse(Oneshot(c))'
      /\ caller'[c].reply = caller[c].reply \/ Awaiting(c)
      /\ caller[c].reply # "none" => caller'[c].reply # "none"
  BY RepliedCaller
<1>4. CallerKnows(c)
  BY DEF CallersKnow
<1>5. /\ \/ caller'[c].doing # "nothing" /\ caller'[c].at = "sending"
         \/ Awaiting(c)' /\ caller'[c].reply # "none"
         => ~InUse(Oneshot(c))'
      /\ caller'[c].doing = "lock" => Awaiting(c)' /\ caller'[c].reply # "none"
      /\ caller'[c].doing # "nothing" /\ caller'[c].at = "sending"
           => caller'[c].reply = "none"
  BY <1>1, <1>3, <1>4 DEF CallerKnows, InUse, Awaiting
<1>6. Awaiting(c)' /\ Oneshot(c)' \in pending' => caller'[c].doing \in Tracked
  BY <1>0, <1>1, <1>3, <1>4 DEF CallerKnows
<1>7. Awaiting(c)' =>
        \A i \in 1..Len(commands') :
          commands'[i].id = Oneshot(c)' /\ commands'[i].kind \in Commands
            => caller'[c].doing = commands'[i].kind
  BY <1>3, <1>4 DEF CallerKnows
<1> QED
  BY <1>5, <1>6, <1>7 DEF CallerKnows

\* The loop takes a command off the channel, drops them all, or leaves them.
Shorter ==
  \/ commands' = commands
  \/ commands # <<>> /\ commands' = Tail(commands)
  \/ commands' = <<>>

LEMMA EntriesKept ==
  ASSUME Base, Shorter
  PROVE  /\ \A i \in 1..Len(commands') :
              \E j \in 1..Len(commands) : commands'[i] = commands[j]
         /\ \A i, k \in 1..Len(commands') :
              \E j, l \in 1..Len(commands) :
                /\ commands'[i] = commands[j] /\ commands'[k] = commands[l]
                /\ i # k => j # l
<1>1. Len(commands) \in Nat
  BY BaseParts DEF CommandsTyped
<1>2. CASE commands' = commands
  BY <1>2
<1>3. CASE commands # <<>> /\ commands' = Tail(commands)
  <2>1. /\ Len(commands') = Len(commands) - 1
        /\ \A i \in 1..Len(commands') : commands'[i] = commands[i + 1]
    BY <1>3, BaseParts, Popping
  <2>2. ASSUME NEW i \in 1..Len(commands')
        PROVE  i + 1 \in 1..Len(commands) /\ commands'[i] = commands[i + 1]
    BY <1>1, <2>1
  <2>3. \A i, k \in 1..Len(commands') : i # k => i + 1 # k + 1
    OBVIOUS
  <2> QED
    BY <2>2, <2>3
<1>4. CASE commands' = <<>>
  BY <1>4
<1> QED
  BY <1>2, <1>3, <1>4 DEF Shorter

LEMMA ShorterQueued ==
  ASSUME Base, Shorter PROVE \A id : Queued(id)' => Queued(id)
  BY EntriesKept DEF Queued

LEMMA ShorterKeepsAttended ==
  ASSUME Base, Replying, QueuedIsAttended, Shorter, untold \subseteq untold'
  PROVE  QueuedIsAttended'
<1> SUFFICES ASSUME NEW i \in 1..Len(commands') PROVE Covered(i)'
  BY DEF QueuedIsAttended
<1>0. \A c \in Callers : Awaiting(c) => Awaiting(c)' /\ Oneshot(c)' = Oneshot(c)
  BY RepliedCaller
<1>1. CASE commands' = commands
  <2>1. Covered(i)
    BY <1>1 DEF QueuedIsAttended
  <2> QED
    BY <1>0, <1>1, <2>1 DEF Covered
<1>2. CASE commands # <<>> /\ commands' = Tail(commands)
  <2>1. /\ Len(commands') = Len(commands) - 1 /\ Len(commands) \in Nat
        /\ \A k \in 1..Len(commands') : commands'[k] = commands[k + 1]
    BY <1>2, BaseParts, Popping
  <2>2. i + 1 \in 1..Len(commands) /\ commands[i + 1] = commands'[i]
    BY <2>1
  <2>3. ASSUME NEW j \in (i + 1 + 1)..Len(commands)
        PROVE  j - 1 \in (i + 1)..Len(commands') /\ commands'[j - 1] = commands[j]
    BY <2>1
  <2>4. Covered(i + 1)
    BY <2>2 DEF QueuedIsAttended
  <2> QED
    BY <1>0, <2>2, <2>3, <2>4 DEF Covered
<1>3. CASE commands' = <<>>
  BY <1>3
<1> QED
  BY <1>1, <1>2, <1>3 DEF Shorter

\* A step of the loop that takes nothing new into its hands keeps the
\* invariant, unless it drops the cancellation of a request it keeps.
LEMMA QuietStep ==
  ASSUME Base, Inv, Replying, Shorter, untold \subseteq untold',
         pending' \subseteq pending,
         loop'.for = loop.for \/ loop'.for \notin Oneshots,
         \A id \in (pending' \ Subscribers) \ untold' :
           \A i \in 1..Len(commands) :
             commands[i] = [kind |-> "cancel", id |-> id] =>
               \E j \in 1..Len(commands') : commands'[j] = commands[i]
  PROVE  Inv'
<1>1. InOnePlace'
  <2>1. ASSUME NEW i \in 1..Len(commands'), commands'[i].kind \in Commands
        PROVE  commands'[i].id \notin pending' /\ loop'.for # commands'[i].id
    <3>1. PICK j \in 1..Len(commands) : commands'[i] = commands[j]
      BY EntriesKept
    <3>2. commands[j].id \in Oneshots
      <4>1. commands[j] \in Command
        BY BaseParts DEF CommandsTyped
      <4> QED
        BY <2>1, <3>1, <4>1, CommandsSplit
    <3> QED
      BY <2>1, <3>1, <3>2 DEF Inv, InOnePlace
  <2>2. ASSUME NEW i \in 1..Len(commands'), NEW k \in 1..Len(commands'),
               commands'[i].kind \in Commands, commands'[k].kind \in Commands,
               commands'[i].id = commands'[k].id, i # k
        PROVE  FALSE
    <3>1. PICK j, l \in 1..Len(commands) :
            commands'[i] = commands[j] /\ commands'[k] = commands[l] /\ j # l
      BY <2>2, EntriesKept
    <3> QED
      BY <2>2, <3>1 DEF Inv, InOnePlace
  <2> QED
    BY <2>1, <2>2 DEF Inv, InOnePlace
<1>2. CallersKnow'
  <2>1. \A id \in Oneshots : InUse(id)' => InUse(id)
    BY ShorterQueued DEF InUse
  <2> QED
    BY <2>1, EntriesKept, RepliesKeepCallersKnow DEF Inv
<1>3. QueuedIsAttended'
  BY ShorterKeepsAttended DEF Inv
<1>4. NoOrphans'
  <2> SUFFICES ASSUME NEW id \in (pending' \ Subscribers) \ untold',
                      ~\E c \in Callers : Awaiting(c)' /\ Oneshot(c)' = id
               PROVE  \E i \in 1..Len(commands') :
                        commands'[i] = [kind |-> "cancel", id |-> id]
    BY DEF NoOrphans
  <2>1. ~\E c \in Callers : Awaiting(c) /\ Oneshot(c) = id
    BY RepliedCaller
  <2>2. PICK i \in 1..Len(commands) :
          commands[i] = [kind |-> "cancel", id |-> id]
    BY <2>1 DEF Inv, NoOrphans
  <2> QED
    BY <2>2
<1> QED
  BY <1>1, <1>2, <1>3, <1>4 DEF Inv

LEMMA NamesApart ==
  /\ Nobody \notin Oneshots
  /\ \A r \in Requests : r \notin Oneshots
  /\ \A s \in Subscribers : s \notin Oneshots
  BY ClientAssumption DEF Oneshots

\* With the channel as it was, no cancellation is dropped.
LEMMA QuietFrame ==
  ASSUME Base, Inv, Replying, UNCHANGED <<commands, untold>>,
         pending' \subseteq pending,
         loop'.for = loop.for \/ loop'.for \notin Oneshots
  PROVE  Inv'
  BY QuietStep DEF Shorter

LEMMA FramesKeepInv ==
  ASSUME Base, Inv,
         \/ HandlerReturns \/ ReceiveExpiry
         \/ \E id : ReceiveAnswer(id)
         \/ \E r \in Requests : ReceiveRequest(r) \/ ReceiveCancelled(r) \/ Relay(r)
         \/ \E s \in Subscribers :
              ReceiveAcknowledged(s) \/ ReceiveEvent(s) \/ ReceiveCancelled(s)
  PROVE  Inv'
<1>0. /\ \A i \in 1..Len(commands) :
           commands[i].kind \in Commands =>
             commands[i].id \notin pending /\ loop.for # commands[i].id
      /\ loop.for \in Oneshots => loop.for \notin pending
  BY DEF Inv, InOnePlace
<1>1. CASE HandlerReturns
  <2>1. UNCHANGED <<commands, pending, untold>> /\ loop'.for = Nobody
    BY <1>1 DEF HandlerReturns
  <2>2. \A id \in {loop.for} \cap Oneshots : ~InUse(id)'
    BY <1>0, <2>1, NamesApart DEF InUse, Queued
  <2>3. \E reply \in Replies \ {"none"} : caller' = Told({loop.for}, reply)
    BY <1>1 DEF HandlerReturns, Replies
  <2>4. Replying
    BY <2>2, <2>3, ToldReplies
  <2> QED
    BY <2>1, <2>4, NamesApart, QuietFrame
<1>2. CASE ReceiveExpiry
  <2>1. UNCHANGED <<commands, loop, untold>> /\ pending' = {}
    BY <1>2 DEF ReceiveExpiry
  <2>2. \A id \in pending \cap Oneshots : ~InUse(id)'
    BY <1>0, <2>1 DEF InUse, Queued
  <2>3. Replying
    BY <1>2, <2>2, ToldReplies DEF ReceiveExpiry, Replies
  <2> QED
    BY <2>1, <2>3, QuietFrame
<1>3. ASSUME NEW id, ReceiveAnswer(id) PROVE Inv'
  <2>1. UNCHANGED <<commands, loop, untold>> /\ pending' = pending \ {id}
    BY <1>3 DEF ReceiveAnswer
  <2>2. \A i \in ({id} \cap pending) \cap Oneshots : ~InUse(i)'
    BY <1>0, <2>1 DEF InUse, Queued
  <2>3. \E reply \in Replies \ {"none"} : caller' = Told({id} \cap pending, reply)
    BY <1>3 DEF ReceiveAnswer, Replies
  <2>4. Replying
    BY <2>2, <2>3, ToldReplies
  <2> QED
    BY <2>1, <2>4, QuietFrame
<1>4. ASSUME NEW r \in Requests, ReceiveRequest(r) \/ Relay(r) PROVE Inv'
  BY <1>4, QuietFrame, UntouchedReplies DEF ReceiveRequest, Relay
<1>5. ASSUME NEW id \in Requests \cup Subscribers, ReceiveCancelled(id) PROVE Inv'
  BY <1>5, QuietFrame, UntouchedReplies, NamesApart DEF ReceiveCancelled
<1>6. ASSUME NEW s \in Subscribers, ReceiveAcknowledged(s) \/ ReceiveEvent(s)
      PROVE  Inv'
  BY <1>6, QuietFrame, UntouchedReplies, NamesApart
  DEF ReceiveAcknowledged, ReceiveEvent
<1> QED
  BY <1>1, <1>2, <1>3, <1>4, <1>5, <1>6

LEMMA StopKeepsInv == ASSUME Base, Inv, Stop PROVE Inv'
<1>1. /\ commands' = <<>> /\ pending' = {} /\ loop'.for = Nobody
      /\ UNCHANGED untold
  BY DEF Stop
<1>2. \A id \in Oneshots : ~InUse(id)'
  BY <1>1, NamesApart DEF InUse, Queued
<1>3. Replying
  BY <1>2, ToldReplies DEF Stop, Replies
<1> QED
  BY <1>1, <1>3, NamesApart, QuietStep DEF Shorter

LEMMA CommandsKeepInv == ASSUME Base, Inv, TakeCommand PROVE Inv'
<1> DEFINE m == Head(commands)
<1>0. /\ \A i \in 1..Len(commands) :
           commands[i].kind \in Commands =>
             commands[i].id \notin pending /\ loop.for # commands[i].id
      /\ loop.for \in Oneshots => loop.for \notin pending
      /\ \A i, j \in 1..Len(commands) :
           /\ commands[i].kind \in Commands /\ commands[j].kind \in Commands
           /\ commands[i].id = commands[j].id
           => i = j
  BY DEF Inv, InOnePlace
<1>1. ASSUME NEW kinds, Dequeue(kinds)
      PROVE  /\ m.kind \in kinds /\ m = commands[1] /\ 1 \in 1..Len(commands)
             /\ m \in Command /\ Shorter
             /\ Len(commands') = Len(commands) - 1 /\ Len(commands) \in Nat
             /\ \A i \in 1..Len(commands') :
                  commands'[i] = commands[i + 1] /\ i + 1 \in 1..Len(commands)
             /\ \A i \in 1..Len(commands) :
                  i # 1 => i - 1 \in 1..Len(commands')
                             /\ commands'[i - 1] = commands[i]
  <2>1. m.kind \in kinds /\ commands # <<>> /\ commands' = Tail(commands)
    BY <1>1 DEF Dequeue
  <2>2. /\ Len(commands') = Len(commands) - 1 /\ Len(commands) \in Nat \ {0}
        /\ \A i \in 1..Len(commands') : commands'[i] = commands[i + 1]
        /\ m = commands[1] /\ m \in Command
    BY <2>1, BaseParts, Popping
  <2> HIDE DEF m
  <2>3. 1 \in 1..Len(commands)
    BY <2>2
  <2>4. \A i \in 1..Len(commands') : i + 1 \in 1..Len(commands)
    BY <2>2
  <2>5. ASSUME NEW i \in 1..Len(commands), i # 1
        PROVE  i - 1 \in 1..Len(commands') /\ commands'[i - 1] = commands[i]
    BY <2>2, <2>5
  <2> QED
    BY <2>1, <2>2, <2>3, <2>4, <2>5 DEF Shorter
\* What is taken off the channel is in it no longer, nor anywhere else.
<1>2. ASSUME NEW kinds, Dequeue(kinds), m.kind \in Commands,
             NEW id, id = m.id
      PROVE  /\ id \in Oneshots /\ ~Queued(id)'
             /\ id \notin pending /\ loop.for # id
  <2>1. id \in Oneshots
    BY <1>1, <1>2, CommandsSplit
  <2>2. ASSUME NEW i \in 1..Len(commands'), commands'[i].id = id,
               commands'[i].kind \in Commands
        PROVE  FALSE
    <3>1. /\ i + 1 \in 1..Len(commands) /\ commands'[i] = commands[i + 1]
          /\ m = commands[1] /\ 1 \in 1..Len(commands) /\ i + 1 # 1
      BY <1>1, <1>2
    <3> QED
      BY <1>0, <1>2, <2>2, <3>1
  <2>3. ~Queued(id)'
    BY <2>2 DEF Queued
  <2> QED
    BY <1>0, <1>1, <1>2, <2>1, <2>3
<1>10. ASSUME NEW kinds, Dequeue(kinds)
       PROVE  \A i, j \in 1..Len(commands') :
                /\ commands'[i].kind \in Commands
                /\ commands'[j].kind \in Commands
                /\ commands'[i].id = commands'[j].id
                => i = j
  <2> SUFFICES ASSUME NEW i \in 1..Len(commands'), NEW j \in 1..Len(commands'),
                      commands'[i].kind \in Commands,
                      commands'[j].kind \in Commands,
                      commands'[i].id = commands'[j].id
               PROVE  i = j
    OBVIOUS
  <2>1. /\ i + 1 \in 1..Len(commands) /\ commands'[i] = commands[i + 1]
        /\ j + 1 \in 1..Len(commands) /\ commands'[j] = commands[j + 1]
    BY <1>1, <1>10
  <2>2. i + 1 = j + 1
    BY <1>0, <2>1
  <2> QED
    BY <2>2
\* A cancellation is only dropped for the request it is about.
<1>3. ASSUME NEW kinds, Dequeue(kinds), NEW id, NEW i \in 1..Len(commands),
             commands[i] = [kind |-> "cancel", id |-> id],
             m.kind # "cancel" \/ m.id # id
      PROVE  \E j \in 1..Len(commands') : commands'[j] = commands[i]
  BY <1>1, <1>3
<1>4. CASE SendRefused
  BY <1>4, StopKeepsInv DEF SendRefused
<1>5. CASE CancelRequest
  <2>1. /\ Dequeue({"cancel"}) /\ pending' \subseteq pending
        /\ untold \subseteq untold' /\ UNCHANGED <<caller, loop>>
        /\ m.id \notin pending' \/ m.id \in untold'
    BY <1>5 DEF CancelRequest
  <2> QED
    BY <1>1, <1>3, <2>1, QuietStep, UntouchedReplies
<1>6. CASE TakeNotify \/ EndSession
  <2>1. PICK kind \in {"notify", "end"} : Dequeue({kind})
    BY <1>6 DEF TakeNotify, EndSession
  <2>2. UNCHANGED <<pending, loop, untold>>
    BY <1>6 DEF TakeNotify, EndSession
  <2>3. m.kind = kind /\ m.kind \in Commands
    BY <1>1, <2>1 DEF Commands
  <2>4. \A id \in {m.id} \cap Oneshots : ~InUse(id)'
    BY <1>2, <2>1, <2>2, <2>3 DEF InUse
  <2>5. \E reply \in Replies \ {"none"} : caller' = Told({m.id}, reply)
    BY <1>6 DEF TakeNotify, EndSession, Replies
  <2>6. Replying
    BY <2>4, <2>5, ToldReplies
  <2> QED
    BY <1>1, <1>3, <2>1, <2>2, <2>3, <2>6, QuietStep
<1>7. CASE ResetSession
  <2>1. Dequeue({"reset"}) /\ pending' = {} /\ UNCHANGED <<loop, untold>>
    BY <1>7 DEF ResetSession
  <2>2. m.kind = "reset" /\ m.kind \in Commands
    BY <1>1, <2>1 DEF Commands
  <2>3. \A id \in {m.id} : ~InUse(id)'
    BY <1>2, <2>1, <2>2 DEF InUse
  <2>4. \A id \in pending \cap Oneshots : ~InUse(id)'
    <3>1. \A id : Queued(id)' => Queued(id)
      BY <1>1, <2>1, ShorterQueued
    <3> QED
      BY <1>0, <2>1, <3>1 DEF InUse, Queued
  <2>5. ASSUME NEW c \in Callers
        PROVE  \/ caller'[c] = caller[c]
               \/ /\ Awaiting(c) /\ caller[c].reply = "none"
                  /\ Oneshot(c) \in {m.id} \cup pending
                  /\ \E reply \in {"ok", "expired"} :
                       caller'[c] = [caller[c] EXCEPT !.reply = reply]
    BY <1>7 DEF ResetSession, Told
  <2>6. ASSUME NEW c \in Callers, Oneshot(c) \in {m.id} \cup pending,
               caller'[c].n = caller[c].n
        PROVE  ~InUse(Oneshot(c))'
    <3>1. Oneshot(c) \in Oneshots /\ Oneshot(c)' = Oneshot(c)
      BY <2>6, OneshotsOfCallers DEF Oneshot
    <3>2. \A id \in {m.id} \cup (pending \cap Oneshots) : ~InUse(id)'
      BY <2>3, <2>4
    <3> QED
      BY <2>6, <3>1, <3>2 DEF InUse, Queued
  <2>7. Replying
    BY <2>5, <2>6, BaseParts DEF Replying, Replies, Caller
  <2> QED
    BY <1>1, <2>1, <2>7, QuietStep
<1>8. CASE ResolveInputs
  <2>1. /\ Dequeue({"resolve"}) /\ loop'.for = m.id
        /\ UNCHANGED <<caller, pending, untold>>
    BY <1>8 DEF ResolveInputs
  <2>2. m.kind \in Commands /\ m.kind # "cancel"
    BY <1>1, <2>1 DEF Commands
  <2>3. Shorter /\ Replying
    BY <1>1, <2>1, UntouchedReplies
  <2>4. InOnePlace'
    <3>1. \A i \in 1..Len(commands') :
            commands'[i].kind \in Commands =>
              commands'[i].id \notin pending' /\ loop'.for # commands'[i].id
      BY <1>0, <1>1, <1>2, <2>1, <2>2 DEF Queued
    <3> QED
      BY <1>2, <1>10, <2>1, <2>2, <3>1 DEF InOnePlace
  <2>5. \A id \in Oneshots : InUse(id)' => InUse(id)
    BY <1>1, <2>1, <2>2, <2>3, ShorterQueued DEF InUse, Queued
  <2>6. CallersKnow'
    BY <1>1, <2>1, <2>3, <2>5, RepliesKeepCallersKnow DEF Inv
  <2>7. QueuedIsAttended'
    BY <2>1, <2>3, ShorterKeepsAttended DEF Inv
  <2>8. NoOrphans'
    BY <1>3, <2>1, <2>2 DEF Inv, NoOrphans, Awaiting, Oneshot
  <2> QED
    BY <2>4, <2>6, <2>7, <2>8 DEF Inv
<1>9. CASE TakeRequest
  <2>1. /\ Dequeue(Tracked \cup {"subscribe"}) /\ pending' = pending \cup {m.id}
        /\ UNCHANGED <<caller, loop, untold>>
    BY <1>9 DEF TakeRequest, Tracked
  <2>2. /\ m.kind \in Tracked \cup {"subscribe"} /\ Tracked \subseteq Commands
        /\ m.kind # "cancel" /\ "subscribe" \notin Commands
    BY <1>1, <2>1 DEF Commands, Tracked, Handshakes
  <2>3. Shorter /\ Replying
    BY <1>1, <2>1, UntouchedReplies
  <2>4. m.kind \notin Commands => m.id \in Subscribers /\ m.id \notin Oneshots
    BY <1>1, <2>1, <2>2, CommandsSplit, NamesApart
  <2>5. InOnePlace'
    <3>1. ASSUME NEW i \in 1..Len(commands'), commands'[i].kind \in Commands
          PROVE  commands'[i].id \notin pending' /\ loop'.for # commands'[i].id
      <4>1. commands[i + 1] \in Command
        BY <1>1, <2>1, BaseParts DEF CommandsTyped
      <4>2. commands'[i].id \in Oneshots
        BY <1>1, <2>1, <3>1, <4>1, CommandsSplit
      <4>3. commands'[i].id # m.id
        <5>1. CASE m.kind \in Commands
          BY <1>2, <2>1, <3>1, <5>1 DEF Queued
        <5>2. CASE m.kind \notin Commands
          BY <2>4, <4>2, <5>2
        <5> QED
          BY <5>1, <5>2
      <4> QED
        BY <1>0, <1>1, <2>1, <3>1, <4>3
    <3>2. loop'.for \in Oneshots => loop'.for \notin pending'
      BY <1>0, <1>2, <2>1, <2>4
    <3> QED
      BY <1>10, <2>1, <3>1, <3>2 DEF InOnePlace
  <2>6. CallersKnow'
    <3>1. \A id \in Oneshots : InUse(id)' => InUse(id)
      BY <1>1, <2>1, <2>2, <2>3, <2>4, ShorterQueued DEF InUse, Queued
    <3>2. \A id \in Oneshots \cap pending' :
            \/ id \in pending
            \/ \E i \in 1..Len(commands) :
                 commands[i].id = id /\ commands[i].kind \in Tracked
      BY <1>1, <2>1, <2>2, <2>4
    <3>3. \A i \in 1..Len(commands') :
            \E j \in 1..Len(commands) : commands'[i] = commands[j]
      BY <1>1, <2>1
    <3> QED
      BY <2>3, <3>1, <3>2, <3>3, RepliesKeepCallersKnow DEF Inv
  <2>7. QueuedIsAttended'
    BY <2>1, <2>3, ShorterKeepsAttended DEF Inv
  <2>8. NoOrphans'
    <3> SUFFICES ASSUME NEW id \in (pending' \ Subscribers) \ untold',
                        ~\E c \in Callers : Awaiting(c)' /\ Oneshot(c)' = id
                 PROVE  \E i \in 1..Len(commands') :
                          commands'[i] = [kind |-> "cancel", id |-> id]
      BY DEF NoOrphans
    <3>1. ~\E c \in Callers : Awaiting(c) /\ Oneshot(c) = id
      BY <2>1 DEF Awaiting, Oneshot
    <3>2. CASE id \in pending
      BY <1>3, <2>1, <2>2, <3>1, <3>2 DEF Inv, NoOrphans
    <3>3. CASE id = m.id
      <4>1. Covered(1) /\ m.kind \in Tracked /\ m = commands[1]
        BY <1>1, <2>1, <2>2, <2>4, <3>3 DEF Inv, QueuedIsAttended
      <4>2. PICK j \in (1 + 1)..Len(commands) :
              commands[j] = [kind |-> "cancel", id |-> id]
        BY <2>1, <3>1, <3>3, <4>1 DEF Covered
      <4>3. j \in 1..Len(commands)
        BY <4>2
      <4> QED
        BY <1>3, <2>1, <2>2, <4>2, <4>3
    <3> QED
      BY <2>1, <3>2, <3>3
  <2> QED
    BY <2>5, <2>6, <2>7, <2>8 DEF Inv
<1> QED
  BY <1>4, <1>5, <1>6, <1>7, <1>8, <1>9 DEF TakeCommand

\* What the channel holds stays where it is in it, with at most one more entry
\* behind; whoever stops waiting has its cancellation queued or given up, or
\* has nothing with the loop to cancel.
LEMMA Attending ==
  ASSUME Base, Inv, untold \subseteq untold', pending' = pending,
         NEW n \in {Len(commands), Len(commands) + 1}, Len(commands') = n,
         \A i \in 1..Len(commands) : commands'[i] = commands[i],
         n = Len(commands) + 1 => Covered(n)',
         \A c \in Callers :
           Awaiting(c) =>
             \/ Awaiting(c)' /\ Oneshot(c)' = Oneshot(c)
             \/ Oneshot(c) \in untold'
             \/ n = Len(commands) + 1
                /\ commands'[n] = [kind |-> "cancel", id |-> Oneshot(c)]
             \/ Oneshot(c) \notin pending
                /\ \A i \in 1..Len(commands) :
                     commands[i].kind \in Tracked => commands[i].id # Oneshot(c)
  PROVE  QueuedIsAttended' /\ NoOrphans'
<1>1. Len(commands) \in Nat
  BY BaseParts DEF CommandsTyped
<1>2. QueuedIsAttended'
  <2> SUFFICES ASSUME NEW i \in 1..Len(commands'), commands'[i].kind \in Tracked
               PROVE  Covered(i)'
    BY DEF QueuedIsAttended, Covered
  <2>1. CASE i \in 1..Len(commands)
    <3>1. Covered(i) /\ commands[i].kind \in Tracked /\ commands'[i] = commands[i]
      BY <2>1 DEF Inv, QueuedIsAttended
    <3>2. CASE commands[i].id \in untold
      BY <3>1, <3>2 DEF Covered
    <3>3. ASSUME NEW j \in (i + 1)..Len(commands),
                 commands[j] = [kind |-> "cancel", id |-> commands[i].id]
          PROVE  Covered(i)'
      <4>1. j \in 1..Len(commands) /\ j \in (i + 1)..n
        BY <1>1, <2>1
      <4> QED
        BY <3>1, <3>3, <4>1 DEF Covered
    <3>4. ASSUME NEW c \in Callers, Awaiting(c), Oneshot(c) = commands[i].id
          PROVE  Covered(i)'
      <4>1. n = Len(commands) + 1 => n \in (i + 1)..n
        BY <1>1, <2>1
      <4> QED
        BY <2>1, <3>1, <3>4, <4>1 DEF Covered
    <3> QED
      BY <3>1, <3>2, <3>3, <3>4 DEF Covered
  <2>2. CASE i \notin 1..Len(commands)
    <3>1. i = n /\ n = Len(commands) + 1
      BY <1>1, <2>2
    <3> QED
      BY <3>1
  <2> QED
    BY <2>1, <2>2
<1>3. NoOrphans'
  <2> SUFFICES ASSUME NEW id \in (pending \ Subscribers) \ untold',
                      ~\E c \in Callers : Awaiting(c)' /\ Oneshot(c)' = id
               PROVE  \E i \in 1..n : commands'[i] = [kind |-> "cancel", id |-> id]
    BY DEF NoOrphans
  <2>1. CASE \E c \in Callers : Awaiting(c) /\ Oneshot(c) = id
    <3>1. n = Len(commands) + 1 => n \in 1..n
      BY <1>1
    <3> QED
      BY <2>1, <3>1
  <2>2. CASE \E i \in 1..Len(commands) :
               commands[i] = [kind |-> "cancel", id |-> id]
    <3>1. \A i \in 1..Len(commands) : i \in 1..n
      BY <1>1
    <3> QED
      BY <2>2, <3>1
  <2> QED
    BY <2>1, <2>2 DEF Inv, NoOrphans
<1> QED
  BY <1>2, <1>3

\* What a caller takes up next has a new oneshot, and what it lets go of was
\* no longer with the loop.
LEMMA MovesKeepInv == ASSUME Base, Inv, NEW c \in Callers, Moves(c) PROVE Inv'
<1>1. PICK x \in Caller :
        /\ caller' = [caller EXCEPT ![c] = x]
        /\ \/ x.doing = "nothing"
           \/ x.doing \in Commands /\ x.at = "sending" /\ x.n = Fresh(c)
              /\ x.reply = "none"
           \/ x.doing = "lock" /\ Awaiting(c) /\ caller[c].reply # "none"
              /\ x = [caller[c] EXCEPT !.doing = "lock", !.retried = TRUE]
  BY DEF Moves
<1>2. UNCHANGED <<commands, loop, pending, untold>>
  BY DEF Moves
<1>3. caller \in [Callers -> Caller]
  BY BaseParts
<1>4. caller'[c] = x /\ \A d \in Callers \ {c} : caller'[d] = caller[d]
  BY <1>1, <1>3
<1>5. InOnePlace'
  BY <1>2 DEF Inv, InOnePlace
<1>6. CallersKnow'
  <2> SUFFICES ASSUME NEW d \in Callers PROVE CallerKnows(d)'
    BY DEF CallersKnow
  <2>1. CallerKnows(d)
    BY DEF Inv, CallersKnow
  <2>2. CASE d # c
    BY <1>2, <1>4, <2>1, <2>2
    DEF CallerKnows, Awaiting, Oneshot, InUse, Queued
  <2>3. CASE d = c /\ x.doing = "nothing"
    BY <1>4, <2>3 DEF CallerKnows, Awaiting
  <2>4. CASE d = c /\ x.at = "sending" /\ x.n = Fresh(c) /\ x.reply = "none"
             /\ x.doing \in Commands
    <3>1. <<c, Fresh(c)>> \notin Mentioned
      BY FreshIsFresh
    <3>2. Oneshot(c)' = <<c, Fresh(c)>>
      BY <1>4, <2>4 DEF Oneshot
    <3>3. ~InUse(Oneshot(c))'
      <4>1. ASSUME NEW id, id \notin Mentioned PROVE ~InUse(id)'
        BY <1>2, <4>1 DEF Mentioned, InUse, Queued
      <4> QED
        BY <3>1, <3>2, <4>1 DEF InUse, Queued
    <3>4. x.doing # "lock"
      BY <2>4 DEF Commands, Handshakes
    <3> QED
      BY <1>4, <2>4, <3>3, <3>4 DEF CallerKnows, Awaiting
  <2>5. CASE d = c /\ x.doing = "lock" /\ Awaiting(c) /\ caller[c].reply # "none"
             /\ x = [caller[c] EXCEPT !.doing = "lock", !.retried = TRUE]
    <3>1. x.n = caller[c].n /\ x.at = caller[c].at /\ x.reply = caller[c].reply
      BY <1>3, <2>5 DEF Caller
    <3>2. /\ Awaiting(c)' /\ caller'[c].at = "awaiting"
          /\ caller'[c].reply # "none"
          /\ Oneshot(c)' = Oneshot(c)
      BY <1>4, <2>5, <3>1 DEF Awaiting, Oneshot
    <3>3. ~InUse(Oneshot(c))'
      BY <1>2, <2>1, <2>5, <3>2 DEF CallerKnows, InUse, Queued
    <3> QED
      BY <2>5, <3>2, <3>3 DEF CallerKnows, InUse, Queued
  <2> QED
    BY <1>1, <2>2, <2>3, <2>4, <2>5
<1>7. Awaiting(c) => ~InUse(Oneshot(c))
  BY DEF Moves, Inv, CallersKnow, CallerKnows
<1>8. QueuedIsAttended' /\ NoOrphans'
  <2>1. \A i \in 1..Len(commands) :
          Awaiting(c) /\ commands[i].kind \in Tracked
            => commands[i].id # Oneshot(c)
    BY <1>7 DEF InUse, Queued, Tracked, Commands
  <2>2. \A d \in Callers \ {c} :
          Awaiting(d) => Awaiting(d)' /\ Oneshot(d)' = Oneshot(d)
    BY <1>4 DEF Awaiting, Oneshot
  <2>3. Awaiting(c) => Oneshot(c) \notin pending
    BY <1>7 DEF InUse
  <2>4. Len(commands) # Len(commands) + 1
    BY BaseParts DEF CommandsTyped
  <2> QED
    BY <1>2, <2>1, <2>2, <2>3, <2>4, Attending
<1> QED
  BY <1>5, <1>6, <1>8 DEF Inv

\* Sending puts the oneshot in the channel, where it was not, nor elsewhere.
LEMMA SendKeepsInv == ASSUME Base, Inv, NEW c \in Callers, Send(c) PROVE Inv'
<1> DEFINE m == [kind |-> caller[c].doing, id |-> Oneshot(c)]
<1>0. PICK n : n = Len(commands) + 1
  OBVIOUS
<1>1. caller \in [Callers -> Caller]
  BY BaseParts
<1>2. /\ caller'[c] = [caller[c] EXCEPT !.at = "awaiting"]
      /\ \A d \in Callers \ {c} : caller'[d] = caller[d]
      /\ caller[c].doing \in Commands /\ caller[c].at = "sending"
      /\ UNCHANGED <<loop, pending, untold>>
  BY <1>1 DEF Send
<1>3. caller[c].doing # "nothing" /\ caller[c].doing # "lock" /\ ~Awaiting(c)
  BY <1>2 DEF Commands, Handshakes, Awaiting
<1>4. ~InUse(Oneshot(c)) /\ caller[c].reply = "none"
  BY <1>2, <1>3 DEF Inv, CallersKnow, CallerKnows
<1>5. /\ Oneshot(c)' = Oneshot(c) /\ Awaiting(c)'
      /\ caller'[c].doing = caller[c].doing /\ caller'[c].reply = "none"
      /\ caller'[c].at = "awaiting"
  BY <1>1, <1>2, <1>3, <1>4 DEF Oneshot, Awaiting, Caller
<1>6. m \in Command /\ m.kind = caller[c].doing /\ m.id = Oneshot(c)
  BY <1>1, <1>2, OneshotsOfCallers DEF Command
<1>7. /\ Len(commands') = n /\ Len(commands) \in Nat /\ commands'[n] = m
      /\ \A i \in 1..Len(commands) : commands'[i] = commands[i]
  <2>1. commands' = Append(commands, m)
    BY DEF Send
  <2> HIDE DEF m
  <2> QED
    BY <1>0, <1>6, <2>1, BaseParts, Pushing
<1>8. \A i \in 1..n : i = n \/ i \in 1..Len(commands)
  BY <1>0, <1>7
<1>9. n \in 1..n /\ \A i \in 1..Len(commands) : i \in 1..n
  BY <1>0, <1>7
<1>10. \A id : Queued(id)' <=> Queued(id) \/ id = Oneshot(c)
  BY <1>2, <1>6, <1>7, <1>8, <1>9 DEF Queued
<1> HIDE DEF m
<1>11. InOnePlace'
  <2>1. \A i \in 1..Len(commands) :
          commands[i].kind \in Commands => commands[i].id # Oneshot(c)
    BY <1>4 DEF InUse, Queued
  <2>2. Oneshot(c) \notin pending /\ loop.for # Oneshot(c)
    BY <1>4 DEF InUse
  <2>3. \A i \in 1..n : commands'[i].kind \in Commands =>
             commands'[i].id \notin pending' /\ loop'.for # commands'[i].id
    BY <1>2, <1>6, <1>7, <1>8, <2>2 DEF Inv, InOnePlace
  <2>4. \A i, j \in 1..n :
          /\ commands'[i].kind \in Commands /\ commands'[j].kind \in Commands
          /\ commands'[i].id = commands'[j].id
          => i = j
    BY <1>6, <1>7, <1>8, <2>1 DEF Inv, InOnePlace
  <2>5. loop'.for \in Oneshots => loop'.for \notin pending'
    BY <1>2 DEF Inv, InOnePlace
  <2> QED
    BY <1>7, <2>3, <2>4, <2>5 DEF InOnePlace
<1>12. CallersKnow'
  <2> SUFFICES ASSUME NEW d \in Callers PROVE CallerKnows(d)'
    BY DEF CallersKnow
  <2>1. CallerKnows(d)
    BY DEF Inv, CallersKnow
  <2>2. CASE d = c
    <3>1. \A i \in 1..Len(commands') :
            commands'[i].id = Oneshot(c) /\ commands'[i].kind \in Commands
              => commands'[i].kind = caller[c].doing
      BY <1>4, <1>6, <1>7, <1>8 DEF InUse, Queued
    <3>2. Oneshot(c) \notin pending'
      BY <1>2, <1>4 DEF InUse
    <3> QED
      BY <1>3, <1>5, <2>2, <3>1, <3>2 DEF CallerKnows
  <2>3. CASE d # c
    <3>1. /\ Oneshot(d) # Oneshot(c) /\ Oneshot(d)' = Oneshot(d)
          /\ caller'[d] = caller[d] /\ (Awaiting(d)' <=> Awaiting(d))
      BY <1>2, <2>3, OneshotsOfCallers DEF Oneshot, Awaiting
    <3>2. InUse(Oneshot(d))' => InUse(Oneshot(d))
      <4>1. ASSUME NEW id, id # Oneshot(c) PROVE InUse(id)' => InUse(id)
        BY <1>2, <1>10, <4>1 DEF InUse
      <4> QED
        BY <3>1, <4>1 DEF InUse, Queued
    <3>3. \A i \in 1..Len(commands') :
            commands'[i].id = Oneshot(d) => i \in 1..Len(commands)
                                            /\ commands'[i] = commands[i]
      BY <1>6, <1>7, <1>8, <3>1
    <3> QED
      BY <1>2, <2>1, <3>1, <3>2, <3>3 DEF CallerKnows
  <2> QED
    BY <2>2, <2>3
<1>13. QueuedIsAttended' /\ NoOrphans'
  <2>1. Covered(n)'
    BY <1>5, <1>6, <1>7 DEF Covered
  <2>2. \A d \in Callers : Awaiting(d) => Awaiting(d)' /\ Oneshot(d)' = Oneshot(d)
    BY <1>2, <1>3 DEF Awaiting, Oneshot
  <2> QED
    BY <1>0, <1>2, <1>7, <2>1, <2>2, Attending
<1> QED
  BY <1>11, <1>12, <1>13 DEF Inv

\* A subscription or a cancellation queued, and callers that drop their future,
\* bring no oneshot anywhere.
LEMMA LettingGo ==
  ASSUME Base, Inv, UNCHANGED <<loop, pending>>,
         \/ UNCHANGED commands
         \/ \E m \in Command :
              m.kind \notin Commands /\ commands' = Append(commands, m),
         \A c \in Callers :
           caller'[c] = caller[c] \/ caller'[c].doing = "nothing"
  PROVE  InOnePlace' /\ CallersKnow'
<1>1. /\ \A i \in 1..Len(commands') :
           commands'[i].kind \in Commands =>
             i \in 1..Len(commands) /\ commands'[i] = commands[i]
  <2>1. CASE UNCHANGED commands
    BY <2>1
  <2>2. ASSUME NEW m \in Command, m.kind \notin Commands,
               commands' = Append(commands, m)
        PROVE  \A i \in 1..Len(commands') :
                 commands'[i].kind \in Commands =>
                   i \in 1..Len(commands) /\ commands'[i] = commands[i]
    <3>1. /\ Len(commands') = Len(commands) + 1 /\ Len(commands) \in Nat
          /\ \A i \in 1..Len(commands) : commands'[i] = commands[i]
          /\ commands'[Len(commands) + 1] = m
      BY <2>2, BaseParts, Pushing
    <3> QED
      BY <2>2, <3>1
  <2> QED
    BY <2>1, <2>2
<1>2. \A id : Queued(id)' => Queued(id)
  BY <1>1 DEF Queued
<1>3. InOnePlace'
  BY <1>1 DEF Inv, InOnePlace
<1>4. CallersKnow'
  <2> SUFFICES ASSUME NEW c \in Callers, caller'[c].doing # "nothing"
               PROVE  CallerKnows(c)'
    BY DEF CallersKnow, CallerKnows, Awaiting
  <2>1. caller'[c] = caller[c] /\ Oneshot(c)' = Oneshot(c) /\ CallerKnows(c)
    BY DEF Oneshot, Inv, CallersKnow
  <2>2. InUse(Oneshot(c))' => InUse(Oneshot(c))
    BY <1>2, <2>1 DEF InUse, Queued
  <2> QED
    BY <1>1, <2>1, <2>2 DEF CallerKnows, Awaiting
<1> QED
  BY <1>3, <1>4

LEMMA Cancelling ==
  ASSUME Base, NEW id \in Oneshots \cup Subscribers, TryCancel(id)
  PROVE  /\ \/ UNCHANGED commands /\ id \in untold'
            \/ /\ commands' = Append(commands, [kind |-> "cancel", id |-> id])
               /\ Len(commands') = Len(commands) + 1
               /\ \A i \in 1..Len(commands) : commands'[i] = commands[i]
               /\ commands'[Len(commands')] = [kind |-> "cancel", id |-> id]
         /\ untold \subseteq untold'
         /\ [kind |-> "cancel", id |-> id] \in Command
         /\ [kind |-> "cancel", id |-> id].kind \notin Commands \cup Tracked
<1>1. [kind |-> "cancel", id |-> id] \in Command
  BY DEF Command
<1> QED
  BY <1>1, BaseParts, Pushing DEF TryCancel, Commands, Tracked, Handshakes

\* The guard of a dropped future tells the loop of what it still tracks.
LEMMA AbandonKeepsInv ==
  ASSUME Base, Inv, NEW c \in Callers, Abandon(c) PROVE Inv'
<1> DEFINE armed == Awaiting(c) /\ caller[c].doing \in Tracked
<1>1. /\ UNCHANGED <<loop, pending>>
      /\ caller' = [caller EXCEPT ![c] = Returned(c)[c]]
      /\ Returned(c)[c].doing = "nothing"
      /\ armed => TryCancel(Oneshot(c))
      /\ ~armed => UNCHANGED <<commands, untold>>
  BY Returning DEF Abandon, Tracked
<1>2. caller'[c].doing = "nothing"
      /\ \A d \in Callers \ {c} : caller'[d] = caller[d]
  BY <1>1, BaseParts
<1>3. Oneshot(c) \in Oneshots
  BY OneshotsOfCallers
<1>4. InOnePlace' /\ CallersKnow'
  <2>1. \/ UNCHANGED commands
        \/ \E m \in Command :
             m.kind \notin Commands /\ commands' = Append(commands, m)
    BY <1>1, <1>3, Cancelling
  <2> QED
    BY <1>1, <1>2, <2>1, LettingGo
<1>5. QueuedIsAttended' /\ NoOrphans'
  <2>1. \A d \in Callers \ {c} :
          Awaiting(d) => Awaiting(d)' /\ Oneshot(d)' = Oneshot(d)
    BY <1>2 DEF Awaiting, Oneshot
  <2>2. untold \subseteq untold' /\ pending' = pending
    BY <1>1, <1>3, Cancelling
  <2>3. Awaiting(c) /\ ~armed =>
          /\ Oneshot(c) \notin pending
          /\ \A i \in 1..Len(commands) :
               commands[i].kind \in Tracked => commands[i].id # Oneshot(c)
    <3>1. CallerKnows(c)
      BY DEF Inv, CallersKnow
    <3> QED
      BY <3>1 DEF CallerKnows, Tracked, Commands
  <2>4. CASE UNCHANGED commands
    <3>1. armed => Oneshot(c) \in untold'
      <4>1. armed =>
              \/ Oneshot(c) \in untold'
              \/ Len(commands') = Len(commands) + 1
        BY <1>1, <1>3, Cancelling
      <4>2. Len(commands) \in Nat
        BY BaseParts DEF CommandsTyped
      <4> QED
        BY <2>4, <4>1, <4>2
    <3>2. PICK n : n = Len(commands)
      OBVIOUS
    <3>3. n # Len(commands) + 1 /\ Len(commands') = n
      BY <2>4, <3>2, BaseParts DEF CommandsTyped
    <3> HIDE DEF armed
    <3>4. \A d \in Callers :
            Awaiting(d) =>
              \/ Awaiting(d)' /\ Oneshot(d)' = Oneshot(d)
              \/ Oneshot(d) \in untold'
              \/ Oneshot(d) \notin pending
                 /\ \A i \in 1..Len(commands) :
                      commands[i].kind \in Tracked => commands[i].id # Oneshot(d)
      BY <2>1, <2>3, <3>1
    <3> QED
      BY <2>2, <2>4, <3>2, <3>3, <3>4, Attending
  <2>5. CASE commands' # commands
    <3>1. armed
      BY <1>1, <2>5
    <3>2. /\ Len(commands') = Len(commands) + 1
          /\ \A i \in 1..Len(commands) : commands'[i] = commands[i]
          /\ commands'[Len(commands')] = [kind |-> "cancel", id |-> Oneshot(c)]
      BY <1>1, <1>3, <2>5, <3>1, Cancelling
    <3>3. PICK n : n = Len(commands) + 1
      OBVIOUS
    <3>4. commands'[n] = [kind |-> "cancel", id |-> Oneshot(c)]
          /\ Len(commands') = n
      BY <3>2, <3>3
    <3>5. Covered(n)'
      BY <3>4 DEF Covered, Tracked, Handshakes
    <3>6. \A d \in Callers :
            Awaiting(d) =>
              \/ Awaiting(d)' /\ Oneshot(d)' = Oneshot(d)
              \/ commands'[n] = [kind |-> "cancel", id |-> Oneshot(d)]
      BY <2>1, <3>4
    <3> QED
      BY <2>2, <3>2, <3>3, <3>4, <3>5, <3>6, Attending
  <2> QED
    BY <2>4, <2>5
<1> QED
  BY <1>4, <1>5 DEF Inv

LEMMA StreamsKeepInv ==
  ASSUME Base, Inv, NEW s \in Subscribers, Listen(s) \/ StopListening(s)
  PROVE  Inv'
<1>1. /\ UNCHANGED <<caller, loop, pending>> /\ untold \subseteq untold'
      /\ \/ UNCHANGED commands
         \/ \E m \in Command : /\ m.kind \notin Commands \cup Tracked
                               /\ commands' = Append(commands, m)
  <2>1. CASE Listen(s)
    <3> DEFINE m == [kind |-> "subscribe", id |-> s]
    <3>1. m \in Command /\ m.kind \notin Commands \cup Tracked
      BY DEF Command, Commands, Tracked, Handshakes
    <3>2. commands' = Append(commands, m) /\ UNCHANGED <<caller, loop, pending, untold>>
      BY <2>1 DEF Listen
    <3> HIDE DEF m
    <3> QED
      BY <3>1, <3>2
  <2>2. CASE StopListening(s)
    <3>1. UNCHANGED <<caller, loop, pending>>
          /\ (TryCancel(s) \/ UNCHANGED <<commands, untold>>)
      BY <2>2 DEF StopListening
    <3> QED
      BY <3>1, Cancelling
  <2> QED
    BY <2>1, <2>2
<1>2. InOnePlace' /\ CallersKnow'
  BY <1>1, LettingGo
<1>3. \A c \in Callers : (Awaiting(c)' <=> Awaiting(c)) /\ Oneshot(c)' = Oneshot(c)
  BY <1>1 DEF Awaiting, Oneshot
<1>4. QueuedIsAttended' /\ NoOrphans'
  <2>1. CASE UNCHANGED commands
    <3>1. PICK n : n = Len(commands)
      OBVIOUS
    <3>2. n # Len(commands) + 1 /\ Len(commands') = n
      BY <2>1, <3>1, BaseParts DEF CommandsTyped
    <3> QED
      BY <1>1, <1>3, <2>1, <3>1, <3>2, Attending
  <2>2. ASSUME NEW m \in Command, m.kind \notin Commands \cup Tracked,
               commands' = Append(commands, m)
        PROVE  QueuedIsAttended' /\ NoOrphans'
    <3>1. PICK n : n = Len(commands) + 1
      OBVIOUS
    <3>2. /\ Len(commands') = n /\ commands'[n] = m
          /\ \A i \in 1..Len(commands) : commands'[i] = commands[i]
      BY <2>2, <3>1, BaseParts, Pushing
    <3>3. Covered(n)'
      BY <2>2, <3>2 DEF Covered
    <3> QED
      BY <1>1, <1>3, <3>1, <3>2, <3>3, Attending
  <2> QED
    BY <1>1, <2>1, <2>2
<1> QED
  BY <1>2, <1>4 DEF Inv

LEMMA OthersKeepInv ==
  ASSUME Base, Inv,
         \/ DropClient \/ ServerStep \/ \E r \in Requests : FinishTask(r)
         \/ UNCHANGED vars
  PROVE  Inv'
<1>1. CASE DropClient
  <2>1. /\ commands' = <<>> /\ pending' = {} /\ loop'.for = Nobody
        /\ UNCHANGED <<caller, untold>>
    BY <1>1 DEF DropClient
  <2> QED
    BY <2>1, UntouchedReplies, NamesApart, QuietStep DEF Shorter
<1>2. CASE ServerStep
  <2>1. UNCHANGED <<caller, commands, loop, pending, untold>>
    BY <1>2 DEF ServerStep, Answer, Expire, Ask, Withdraw, Publish, ServerActs
  <2> QED
    BY <2>1, UntouchedReplies, QuietFrame
<1>3. ASSUME NEW r \in Requests, FinishTask(r) PROVE Inv'
  BY <1>3, UntouchedReplies, QuietFrame DEF FinishTask
<1>4. CASE UNCHANGED vars
  BY <1>4, UntouchedReplies, QuietFrame DEF vars
<1> QED
  BY <1>1, <1>2, <1>3, <1>4

LEMMA InvInit == ASSUME Init PROVE Inv
<1>1. commands = <<>> /\ pending = {} /\ loop.for = Nobody
      /\ \A c \in Callers : caller[c].doing = "nothing"
  BY DEF Init, Resting
<1> QED
  BY <1>1, NamesApart DEF Inv, InOnePlace, CallersKnow, CallerKnows, Awaiting,
     QueuedIsAttended, NoOrphans

LEMMA InvInvariant == Spec => []Inv
<1>1. Base /\ Inv /\ [Next]_vars => Inv'
  <2> SUFFICES ASSUME Base, Inv, [Next]_vars PROVE Inv'
    OBVIOUS
  <2>1. CASE Next
    <3>1. \A c \in Callers : CallerActs(c) => Inv'
      BY CallerMoves, MovesKeepInv
    <3> QED
      BY <2>1, <3>1, Steps, SendKeepsInv, AbandonKeepsInv, StreamsKeepInv,
         CommandsKeepInv, StopKeepsInv, FramesKeepInv, OthersKeepInv
  <2>2. CASE UNCHANGED vars
    BY <2>2, OthersKeepInv
  <2> QED
    BY <2>1, <2>2
<1> QED
  BY <1>1, InvInit, BaseInvariant, PTL DEF Spec

\* A request with the loop that nobody waits for has its cancellation queued,
\* or was given up by a guard that found no room or a transport that refused.
THEOREM NoOrphansHolds == Spec => []NoOrphans
<1>1. Inv => NoOrphans
  BY DEF Inv
<1> QED
  BY <1>1, InvInvariant, PTL
-----------------------------------------------------------------------------
\* What takes nothing away that answers a pending request.
LEMMA KeepingWhatAnswers ==
  ASSUME NothingIsLost, stranded \subseteq stranded',
         pending' \subseteq pending, sent \subseteq sent',
         \A m \in incoming \ incoming' : m.kind \notin Replies
  PROVE  NothingIsLost'
  BY DEF NothingIsLost

LEMMA CommandsLoseNothing ==
  ASSUME Base, NothingIsLost, TakeCommand PROVE NothingIsLost'
<1>1. CASE TakeRequest
  <2> DEFINE m == Head(commands)
  <2>1. /\ pending' = pending \cup {m.id} /\ Transmit(m) /\ UNCHANGED stranded
    BY <1>1 DEF TakeRequest
  <2>2. /\ sent \subseteq sent' /\ incoming \subseteq incoming'
        /\ \/ \E x \in sent' : x.id = m.id
           \/ \E x \in incoming' : x.kind \in Replies /\ x.id = m.id
    <3>1. CASE ~Inline(m)
      <4>1. /\ sent' = sent \cup {[kind |-> m.kind, id |-> m.id,
                                   session |-> session]}
            /\ UNCHANGED incoming
        BY <2>1, <3>1 DEF Transmit
      <4> DEFINE x == [kind |-> m.kind, id |-> m.id, session |-> session]
      <4>2. x \in sent' /\ x.id = m.id
        BY <4>1
      <4> QED
        BY <4>1, <4>2
    <3>2. CASE Inline(m)
      <4>1. PICK reply \in {"ok", "error"} :
              incoming' = incoming \cup {Frame(reply, m.id)} /\ UNCHANGED sent
        BY <2>1, <3>2 DEF Transmit
      <4> DEFINE x == Frame(reply, m.id)
      <4>2. x \in incoming' /\ x.kind \in Replies /\ x.id = m.id
        BY <4>1 DEF Frame, Replies
      <4> QED
        BY <4>1, <4>2
    <3> QED
      BY <3>1, <3>2
  <2> HIDE DEF m
  <2> QED
    BY <2>1, <2>2 DEF NothingIsLost
<1>2. CASE SendRefused \/ ResetSession
  BY <1>2 DEF SendRefused, ResetSession, Stop, NothingIsLost
<1>3. CASE CancelRequest
  BY <1>3 DEF CancelRequest, NothingIsLost
<1>4. CASE TakeNotify \/ ResolveInputs
  BY <1>4, KeepingWhatAnswers DEF TakeNotify, ResolveInputs, wire
<1>5. CASE EndSession
  BY <1>5 DEF EndSession, NothingIsLost
<1> QED
  BY <1>1, <1>2, <1>3, <1>4, <1>5 DEF TakeCommand

LEMMA FramesLoseNothing ==
  ASSUME NothingIsLost,
         \/ HandlerReturns \/ ReceiveExpiry
         \/ \E id : id # Nobody /\ ReceiveAnswer(id)
         \/ \E r \in Requests : ReceiveRequest(r) \/ ReceiveCancelled(r) \/ Relay(r)
         \/ \E s \in Subscribers :
              ReceiveAcknowledged(s) \/ ReceiveEvent(s) \/ ReceiveCancelled(s)
  PROVE  NothingIsLost'
<1>1. ASSUME NEW id, NEW kinds, Arrives(kinds, id), kinds \cap Replies = {}
      PROVE  \A m \in incoming \ incoming' : m.kind \notin Replies
  BY <1>1 DEF Arrives, Frame
<1>2. CASE HandlerReturns
  BY <1>2, KeepingWhatAnswers DEF HandlerReturns, wire
<1>3. CASE ReceiveExpiry
  BY <1>3 DEF ReceiveExpiry, NothingIsLost
<1>4. ASSUME NEW id, id # Nobody, ReceiveAnswer(id) PROVE NothingIsLost'
  <2>1. /\ pending' = pending \ {id} /\ UNCHANGED <<sent, stranded>>
        /\ \A m \in incoming \ incoming' : m.id = id
    BY <1>4 DEF ReceiveAnswer, Arrives, Frame
  <2> QED
    BY <1>4, <2>1 DEF NothingIsLost
<1>5. ASSUME NEW r \in Requests, ReceiveRequest(r) PROVE NothingIsLost'
  BY <1>1, <1>5, KeepingWhatAnswers DEF ReceiveRequest, Replies
<1>6. ASSUME NEW r \in Requests, Relay(r) PROVE NothingIsLost'
  BY <1>6, KeepingWhatAnswers DEF Relay, wire
<1>7. ASSUME NEW id \in Requests \cup Subscribers, ReceiveCancelled(id)
      PROVE  NothingIsLost'
  <2>1. pending' \subseteq pending /\ UNCHANGED <<sent, stranded>>
    BY <1>7 DEF ReceiveCancelled
  <2> QED
    BY <1>1, <1>7, <2>1, KeepingWhatAnswers DEF ReceiveCancelled, Replies
<1>8. ASSUME NEW s \in Subscribers, ReceiveAcknowledged(s) \/ ReceiveEvent(s)
      PROVE  NothingIsLost'
  <2>1. pending' \subseteq pending /\ UNCHANGED <<sent, stranded>>
    BY <1>8 DEF ReceiveAcknowledged, ReceiveEvent
  <2> QED
    BY <1>1, <1>8, <2>1, KeepingWhatAnswers
    DEF ReceiveAcknowledged, ReceiveEvent, Replies
<1> QED
  BY <1>2, <1>3, <1>4, <1>5, <1>6, <1>7, <1>8

LEMMA ServerLosesNothing ==
  ASSUME NothingIsLost, ServerStep PROVE NothingIsLost'
<1>1. ASSUME NEW m \in sent, Answer(m) PROVE NothingIsLost'
  <2>1. PICK reply \in Answers(m), id \in {m.id, Nobody} :
          incoming' = incoming \cup {Frame(reply, id)}
    BY <1>1 DEF Answer
  <2>2. reply \in Replies
    BY <2>1 DEF Answers, Replies
  <2>3. sent' = sent \ {m} /\ UNCHANGED <<pending, stranded>>
    BY <1>1 DEF Answer, ServerActs
  <2>4. Frame(reply, id).kind = reply /\ Frame(reply, id).id = id
    BY DEF Frame
  <2> QED
    BY <2>1, <2>2, <2>3, <2>4 DEF NothingIsLost
<1>2. CASE \/ \E s \in alive : Expire(s)
           \/ \E r \in Requests : Ask(r) \/ Withdraw(r)
           \/ \E s \in Subscribers : Publish(s)
  BY <1>2, KeepingWhatAnswers
  DEF Expire, Ask, Withdraw, Publish, ServerActs, wire
<1> QED
  BY <1>1, <1>2 DEF ServerStep

\* Whatever is reset, cancelled, ended or expired, a request stays in
\* pending_requests only while something that settles it is on its way.
THEOREM NothingIsLostHolds == Spec => []NothingIsLost
<1>1. Init => NothingIsLost
  BY DEF Init, NothingIsLost
<1>2. Base /\ NothingIsLost /\ [Next]_vars => NothingIsLost'
  <2> SUFFICES ASSUME Base, NothingIsLost, [Next]_vars PROVE NothingIsLost'
    OBVIOUS
  <2>1. CASE Next
    <3>1. ASSUME NEW c \in Callers, CallerActs(c) \/ Send(c) \/ Abandon(c)
          PROVE  NothingIsLost'
      BY <3>1, CallerMoves, KeepingWhatAnswers DEF Moves, Send, Abandon, wire
    <3>2. ASSUME NEW s \in Subscribers, Listen(s) \/ StopListening(s)
          PROVE  NothingIsLost'
      BY <3>2, KeepingWhatAnswers DEF Listen, StopListening, wire
    <3>3. CASE Stop \/ DropClient
      BY <3>3 DEF Stop, DropClient, NothingIsLost
    <3>4. ASSUME NEW r \in Requests, FinishTask(r) PROVE NothingIsLost'
      BY <3>4, KeepingWhatAnswers DEF FinishTask, wire
    <3> QED
      BY <2>1, <3>1, <3>2, <3>3, <3>4, Steps, CommandsLoseNothing,
         FramesLoseNothing, ServerLosesNothing
  <2>2. CASE UNCHANGED vars
    BY <2>2, KeepingWhatAnswers DEF vars, wire
  <2> QED
    BY <2>1, <2>2
<1> QED
  BY <1>1, <1>2, BaseInvariant, PTL DEF Spec

\* The handler is handed what a stream brings only while the subscription is
\* pending and its acknowledgment has come.
THEOREM StreamIsAcknowledgedHolds == Spec => StreamIsAcknowledged
<1>1. Base /\ [Next]_vars =>
        \A s \in Subscribers :
          loop'.for = s /\ loop.for # s => s \in pending /\ s \in acked'
  <2> SUFFICES ASSUME Base, [Next]_vars, NEW s \in Subscribers,
                      loop'.for = s, loop.for # s
               PROVE  s \in pending /\ s \in acked'
    OBVIOUS
  <2>0. s # Nobody /\ s \notin Oneshots /\ s \notin Requests
    BY NamesApart, ClientAssumption
  <2>1. loop' # loop
    OBVIOUS
  <2>2. Next
    BY <2>1 DEF vars
  <2>3. ASSUME NEW c \in Callers, CallerActs(c) \/ Send(c) \/ Abandon(c) PROVE FALSE
    BY <2>1, <2>3, CallerMoves DEF Moves, Send, Abandon
  <2>4. ASSUME NEW t \in Subscribers, Listen(t) \/ StopListening(t) PROVE FALSE
    BY <2>1, <2>4 DEF Listen, StopListening
  <2>5. CASE Stop \/ DropClient \/ HandlerReturns
    BY <2>0, <2>5 DEF Stop, DropClient, HandlerReturns
  <2>6. CASE TakeCommand
    <3>1. CASE SendRefused
      BY <2>5, <3>1 DEF SendRefused
    <3>2. CASE ResolveInputs
      <4>1. /\ commands # <<>> /\ commands' = Tail(commands)
            /\ Head(commands).kind = "resolve" /\ s = Head(commands).id
        BY <3>2 DEF ResolveInputs, Dequeue
      <4>2. Head(commands) \in Command
        BY <4>1, BaseParts, Popping
      <4> QED
        BY <2>0, <4>1, <4>2, CommandsSplit DEF Commands
    <3> QED
      BY <2>1, <2>6, <3>1, <3>2
      DEF TakeCommand, TakeRequest, CancelRequest, TakeNotify, ResetSession,
          EndSession
  <2>7. CASE ReceiveExpiry \/ \E id : ReceiveAnswer(id)
    BY <2>1, <2>7 DEF ReceiveExpiry, ReceiveAnswer
  <2>8. ASSUME NEW r \in Requests, ReceiveRequest(r) \/ Relay(r) \/ FinishTask(r)
        PROVE  FALSE
    BY <2>1, <2>8 DEF ReceiveRequest, Relay, FinishTask
  <2>9. ASSUME NEW id \in Requests \cup Subscribers, ReceiveCancelled(id)
        PROVE  FALSE
    BY <2>0, <2>1, <2>9 DEF ReceiveCancelled
  <2>10. ASSUME NEW t \in Subscribers, ReceiveAcknowledged(t) \/ ReceiveEvent(t)
         PROVE  s \in pending /\ s \in acked'
    BY <2>1, <2>10 DEF ReceiveAcknowledged, ReceiveEvent
  <2>11. CASE ServerStep
    BY <2>1, <2>11
    DEF ServerStep, Answer, Expire, Ask, Withdraw, Publish, ServerActs
  <2> QED
    BY <2>2, <2>3, <2>4, <2>5, <2>6, <2>7, <2>8, <2>9, <2>10, <2>11, Steps
<1> QED
  BY <1>1, BaseInvariant, PTL DEF Spec, StreamIsAcknowledged
=============================================================================
