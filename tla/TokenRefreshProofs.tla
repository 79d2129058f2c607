------------------------- MODULE TokenRefreshProofs -------------------------
(***************************************************************************)
(* The safety of token refresh for any number of flows and callers, with   *)
(* authorizations of a flow at any time: what a call works on stays what   *)
(* its flow holds until an authorization writes the flow, and a token a    *)
(* flow was told is rejected comes back as a usable one only through the   *)
(* two races `raced` records.  The inductive invariant has two halves:     *)
(* Sound is about what a call carries at each step, Careful about how the  *)
(* calls, the flows and the store relate.                                  *)
(***************************************************************************)
EXTENDS TokenRefresh, TLAPS

Places == {"idle", "queued", "loading", "adopting", "sending", "issued",
           "saved", "refused", "discarding", "removing", "waiting",
           "beginning", "starting", "exchanging"}

CallState ==
  [pc : Places,
   flow : Flows \cup {NoFlow}, active : 0..MaxToken, got : 0..MaxToken,
   authorizes : BOOLEAN, drives : BOOLEAN, locked : BOOLEAN,
   overtaken : BOOLEAN]

\* A call refreshes under refresh_lock, and authorizes without it but while it
\* refreshes; a new token set comes from either.
Good(q) ==
  /\ q.pc # "idle" => q.flow \in Flows
  /\ q.pc \in {"idle", "queued"} => ~q.locked
  /\ q.pc \in {"loading", "adopting", "sending", "refused", "discarding",
               "removing"} => q.locked
  /\ q.pc \in {"waiting", "beginning", "starting", "exchanging"} =>
       q.authorizes /\ ~q.locked
  /\ q.pc \in {"issued", "saved"} => q.locked \/ q.authorizes
  /\ q.locked => q.active # NoToken

Placed == \A c \in Callers : Good(call[c])

\* Every token set anybody has was issued.
Bounded ==
  /\ \A f \in Flows : current[f].token =< issued /\ rejected[f] \subseteq 1..issued
  /\ \A c \in Callers : call[c].got =< issued

Sound == TypeOK /\ Placed /\ Bounded

\* No two calls of a flow refresh at once.
Alone ==
  \A c, d \in Callers :
    c # d /\ Flow(c) = Flow(d) => ~(call[c].locked /\ call[d].locked)

\* A refresh that is not overtaken, in a flow no overtaken call has written.
Steady(c) == call[c].locked /\ ~call[c].overtaken /\ Flow(c) \notin raced

\* A token set that was issued and not saved is known to nobody else.
Fresh ==
  \A c \in Callers : Is(c, "issued") =>
    /\ call[c].got \in Tokens /\ call[c].got # store
    /\ \A f \in Flows :
         call[c].got # current[f].token /\ call[c].got \notin rejected[f]
    /\ \A d \in Callers :
         /\ d # c
         /\ call[d].pc \in {"adopting", "issued", "saved", "starting"}
         => call[d].got # call[c].got

\* What such a refresh is about to give its flow was not rejected there, and
\* neither was what the store holds meanwhile.
Brought ==
  \A c \in Callers : Steady(c) /\ call[c].pc \in {"adopting", "saved"} =>
    /\ call[c].got # NoToken /\ call[c].got # current[Flow(c)].token
    /\ call[c].got \notin rejected[Flow(c)] /\ store \notin rejected[Flow(c)]
    /\ store # NoToken => store # current[Flow(c)].token

\* The stored token, if it was rejected, is still the flow's own.
StoredIsCurrent ==
  \A f \in Flows \ raced :
    store \in rejected[f] => current[f].token \in {store, NoToken}

Careful ==
  /\ Alone /\ Fresh /\ Brought /\ StoredIsCurrent
  /\ RefreshesTheCurrent /\ RejectedStaysRejected
-----------------------------------------------------------------------------
\* A call that is over carries nothing.
LEMMA IdleCall ==
  /\ Idle \in CallState /\ Good(Idle) /\ Idle.pc = "idle" /\ Idle.got = 0
  /\ ~Idle.locked
<1>1. 0 \in 0..MaxToken
  BY TokenAssumption
<1>2. Idle \in CallState /\ Idle.got = 0
  BY <1>1 DEF Idle, CallState, Places, NoToken
<1>3. Idle.pc = "idle" /\ ~Idle.locked
  BY DEF Idle
<1> QED
  BY <1>2, <1>3 DEF Good

\* At the start there is one token set, in the store, and no call.
LEMMA InitSound == Init => Sound /\ Careful
<1> SUFFICES ASSUME Init PROVE Sound /\ Careful
  OBVIOUS
<1>1. /\ Idle \in CallState /\ Good(Idle) /\ Idle.pc = "idle" /\ Idle.got = 0
      /\ ~Idle.locked
  BY IdleCall
<1>2. \A c \in Callers : call[c] = Idle
  BY DEF Init
<1>3. TypeOK
  <2>1. call \in [Callers -> CallState]
    BY <1>1, <1>2 DEF Init
  <2>2. current \in [Flows -> [token : 0..MaxToken, marked : BOOLEAN]]
    <3>1. {NoToken, 1} \subseteq 0..MaxToken
      BY TokenAssumption DEF NoToken
    <3>2. [token : {NoToken, 1}, marked : {FALSE}]
             \subseteq [token : 0..MaxToken, marked : BOOLEAN]
      BY <3>1
    <3> QED
      BY <3>2 DEF Init
  <2> QED
    BY <2>1, <2>2, TokenAssumption DEF Init, TypeOK, CallState, Places, Tokens
<1>4. \A f \in Flows : current[f].token \in {0, 1} /\ rejected[f] = {}
  BY DEF Init, NoToken
<1>5. Placed /\ Bounded
  BY <1>1, <1>2, <1>4 DEF Placed, Bounded, Init
<1>6. Careful
  BY <1>1, <1>2, <1>4
     DEF Careful, Alone, Fresh, Brought, Steady, StoredIsCurrent,
         RefreshesTheCurrent, RejectedStaysRejected, Is
<1> QED
  BY <1>3, <1>5, <1>6 DEF Sound

\* What a call carries.
LEMMA Carries ==
  ASSUME Sound, NEW c \in Callers
  PROVE  /\ call[c] \in CallState /\ Good(call[c]) /\ call[c].got =< issued
         /\ store \in Nat /\ store =< issued /\ store \in 0..MaxToken
         /\ issued \in Nat /\ MaxToken \in Nat /\ issued =< MaxToken
  BY TokenAssumption DEF Sound, TypeOK, CallState, Places, Placed, Bounded, Tokens

\* The other calls keep what they carry.
LEMMA BecomesMoves ==
  ASSUME Sound, NEW c \in Callers, NEW q, Becomes(c, q)
  PROVE  /\ call'[c] = q /\ Becomes(c, call'[c])
         /\ \A d \in Callers : d = c \/ call'[d] = call[d]
  BY DEF Becomes, Sound, TypeOK

\* A call that goes on with what it has.
LEMMA GoesMoves ==
  ASSUME Sound, NEW c \in Callers, NEW pc \in Places, Goes(c, pc)
  PROVE  /\ call'[c] \in CallState /\ call'[c].pc = pc /\ call'[c].flow = Flow(c)
         /\ call'[c].active = Active(c) /\ call'[c].got = call[c].got
         /\ call'[c].authorizes = call[c].authorizes
         /\ call'[c].locked = call[c].locked
         /\ call'[c].overtaken = call[c].overtaken
         /\ Becomes(c, call'[c])
         /\ \A d \in Callers : d = c \/ call'[d] = call[d]
<1> DEFINE q == [call[c] EXCEPT !.pc = pc]
<1>1. call[c] \in CallState
  BY Carries
<1>2. /\ q \in CallState
      /\ q.pc = pc /\ q.flow = Flow(c) /\ q.active = Active(c)
      /\ q.got = call[c].got /\ q.authorizes = call[c].authorizes
      /\ q.locked = call[c].locked /\ q.overtaken = call[c].overtaken
  BY <1>1 DEF CallState, Places, Flow, Active
<1>3. Becomes(c, q)
  BY DEF Goes
<1> HIDE DEF q
<1> QED
  BY <1>2, <1>3, BecomesMoves

\* A call that goes on with a token it has got.
LEMMA TakesMoves ==
  ASSUME Sound, NEW c \in Callers, NEW pc \in Places, NEW t \in 0..MaxToken,
         Takes(c, pc, t)
  PROVE  /\ call'[c] \in CallState /\ call'[c].pc = pc /\ call'[c].flow = Flow(c)
         /\ call'[c].active = Active(c) /\ call'[c].got = t
         /\ call'[c].authorizes = call[c].authorizes
         /\ call'[c].locked = call[c].locked
         /\ call'[c].overtaken = call[c].overtaken
         /\ Becomes(c, call'[c])
         /\ \A d \in Callers : d = c \/ call'[d] = call[d]
<1> DEFINE q == [call[c] EXCEPT !.pc = pc, !.got = t]
<1>1. call[c] \in CallState
  BY Carries
<1>2. /\ q \in CallState
      /\ q.pc = pc /\ q.flow = Flow(c) /\ q.active = Active(c)
      /\ q.got = t /\ q.authorizes = call[c].authorizes
      /\ q.locked = call[c].locked /\ q.overtaken = call[c].overtaken
  BY <1>1 DEF CallState, Places, Flow, Active
<1>3. Becomes(c, q)
  BY DEF Takes
<1> HIDE DEF q
<1> QED
  BY <1>2, <1>3, BecomesMoves

\* A call that is over.
LEMMA EndsMoves ==
  ASSUME Sound, NEW c \in Callers, Ends(c)
  PROVE  /\ call'[c] = Idle /\ call'[c].pc = "idle" /\ ~call'[c].locked
         /\ Becomes(c, call'[c])
         /\ \A d \in Callers : d = c \/ call'[d] = call[d]
<1>1. Idle.pc = "idle" /\ ~Idle.locked
  BY DEF Idle
<1> QED
  BY <1>1, BecomesMoves DEF Ends

\* A rejected refresh ends or goes on to ask the user.
LEMMA RejectedMoves ==
  ASSUME Sound, NEW c \in Callers, Rejected(c), ~Is(c, "idle")
  PROVE  /\ ~call'[c].locked /\ call'[c].pc \in {"idle", "exchanging"}
         /\ call'[c] \in CallState /\ Good(call'[c]) /\ call'[c].got = 0
         /\ Becomes(c, call'[c])
         /\ \A d \in Callers : d = c \/ call'[d] = call[d]
<1>1. CASE ~call[c].authorizes
  <2>1. Ends(c)
    BY <1>1 DEF Rejected
  <2> QED
    BY <2>1, IdleCall, BecomesMoves DEF Ends
<1>2. CASE call[c].authorizes
  <2> DEFINE q == [Idle EXCEPT !.pc = "exchanging", !.flow = Flow(c),
                               !.authorizes = TRUE, !.drives = call[c].drives]
  <2>1. Flow(c) \in Flows /\ call[c].drives \in BOOLEAN
    BY Carries DEF Good, Is, Flow, CallState
  <2>2. /\ ~q.locked /\ q.pc = "exchanging" /\ q.flow = Flow(c) /\ q.got = 0
        /\ q.authorizes /\ q \in CallState
    <3>1. q \in CallState /\ q.got = Idle.got /\ q.locked = Idle.locked
      BY <2>1, IdleCall DEF CallState, Places
    <3> QED
      BY <3>1, IdleCall DEF CallState
  <2>3. Good(q)
    BY <2>1, <2>2 DEF Good
  <2>4. Becomes(c, q)
    BY <1>2 DEF Rejected
  <2> HIDE DEF q
  <2> QED
    BY <1>2, <2>2, <2>3, <2>4, BecomesMoves
<1> QED
  BY <1>1, <1>2
-----------------------------------------------------------------------------
\* What the first half of the invariant asks of a step.
LEMMA CallsSound ==
  ASSUME Sound, call' \in [Callers -> CallState],
         \A d \in Callers : Good(call'[d]) /\ call'[d].got =< issued',
         issued' \in Tokens, store' \in 0..issued',
         redeemable' \subseteq 1..issued', expired' \subseteq 1..issued',
         current' \in [Flows -> [token : 0..MaxToken, marked : BOOLEAN]],
         rejected' \in [Flows -> SUBSET Tokens], raced' \subseteq Flows,
         \A f \in Flows : current'[f].token =< issued'
                          /\ rejected'[f] \subseteq 1..issued'
  PROVE  Sound'
<1>1. TypeOK'
  BY DEF TypeOK, CallState, Places
<1> QED
  BY <1>1 DEF Sound, Placed, Bounded

\* Wherever a call's step takes it, it carries what it should there, and the
\* store and the server keep their types.
Lands(c) ==
  /\ call'[c] \in CallState /\ Good(call'[c]) /\ call'[c].got =< issued'
  /\ Becomes(c, call'[c])
  /\ \A d \in Callers : d = c \/ call'[d] = call[d]
  /\ issued' \in Tokens /\ issued =< issued' /\ store' \in 0..issued'
  /\ redeemable' \subseteq 1..issued' /\ expired' \subseteq 1..issued'

\* With the flows, that is the first half of the invariant.
LEMMA LandsSound ==
  ASSUME Sound, NEW c \in Callers, Lands(c),
         current' \in [Flows -> [token : 0..MaxToken, marked : BOOLEAN]],
         raced' \subseteq Flows, UNCHANGED rejected,
         \A f \in Flows : current'[f].token =< issued'
  PROVE  Sound'
<1>1. call \in [Callers -> CallState] /\ issued \in Nat /\ issued' \in Nat
  BY TokenAssumption DEF Sound, TypeOK, CallState, Places, Lands, Tokens
<1>2. call' \in [Callers -> CallState]
  BY <1>1 DEF Lands, Becomes
<1>3. \A d \in Callers : Good(call'[d]) /\ call'[d].got =< issued'
  <2>1. \A d \in Callers : call[d].got \in Nat /\ call[d].got =< issued
                           /\ Good(call[d])
    BY <1>1 DEF CallState, Sound, Bounded, Placed
  <2> QED
    BY <1>1, <2>1 DEF Lands
<1>4. \A f \in Flows : rejected'[f] \subseteq 1..issued'
  BY <1>1 DEF Lands, Sound, Bounded
<1>5. rejected' \in [Flows -> SUBSET Tokens]
  BY DEF Sound, TypeOK
<1> QED
  BY <1>2, <1>3, <1>4, <1>5, CallsSound DEF Lands

\* A call that begins.
LEMMA StartsMoves ==
  ASSUME Sound, NEW c \in Callers, NEW f \in Flows,
         NEW pc \in {"queued", "waiting", "beginning"}, NEW a \in BOOLEAN,
         Becomes(c, [Idle EXCEPT !.pc = pc, !.flow = f, !.authorizes = a])
  PROVE  /\ call'[c] \in CallState /\ call'[c].got = 0 /\ call'[c].pc = pc
         /\ call'[c].flow = f /\ ~call'[c].locked /\ call'[c].authorizes = a
         /\ Becomes(c, call'[c])
         /\ \A d \in Callers : d = c \/ call'[d] = call[d]
<1> DEFINE q == [Idle EXCEPT !.pc = pc, !.flow = f, !.authorizes = a]
<1>1. /\ q \in CallState /\ q.got = Idle.got /\ q.locked = Idle.locked
      /\ q.pc = pc /\ q.flow = f /\ q.authorizes = a
  BY IdleCall DEF CallState, Places
<1>2. Becomes(c, q)
  OBVIOUS
<1> HIDE DEF q
<1> QED
  BY <1>1, <1>2, IdleCall, BecomesMoves

\* A call's step that leaves the server and the store alone.
LEMMA QuietLands ==
  ASSUME Sound, NEW c \in Callers, UNCHANGED <<store, server>>,
         call'[c] \in CallState, Good(call'[c]), call'[c].got =< issued,
         Becomes(c, call'[c]),
         \A d \in Callers : d = c \/ call'[d] = call[d]
  PROVE  Lands(c)
<1>1. issued \in Nat /\ issued' = issued /\ store' = store
      /\ redeemable' = redeemable /\ expired' = expired
  BY Carries DEF server
<1> QED
  BY <1>1 DEF Lands, Sound, TypeOK

\* A step that leaves the flows alone.
LEMMA FlowsUnchanged ==
  ASSUME Sound, NEW c \in Callers, Lands(c), UNCHANGED <<current, history>>
  PROVE  Sound'
<1>1. \A f \in Flows : current[f].token \in 0..MaxToken /\ current[f].token =< issued
  BY DEF Sound, TypeOK, Bounded
<1>2. issued \in Nat /\ issued' \in Nat /\ issued =< issued' /\ MaxToken \in Nat
  BY Carries DEF Lands, Tokens
<1>3. \A f \in Flows : current'[f].token =< issued'
  BY <1>1, <1>2
<1>4. /\ current' \in [Flows -> [token : 0..MaxToken, marked : BOOLEAN]]
      /\ raced' \subseteq Flows /\ rejected' = rejected
  BY DEF Sound, TypeOK, history
<1> QED
  BY <1>3, <1>4, LandsSound

\* A step that gives a flow a token, or takes it away.
LEMMA FlowHolds ==
  ASSUME Sound, NEW c \in Callers, Lands(c), NEW t \in 0..MaxToken,
         t =< issued', Refreshes(c, t), Flow(c) \in Flows
  PROVE  Sound'
<1>1. \A g \in Flows : current[g].token \in 0..MaxToken /\ current[g].token =< issued
  BY DEF Sound, TypeOK, Bounded
<1>2. issued \in Nat /\ issued' \in Nat /\ issued =< issued' /\ MaxToken \in Nat
  BY Carries DEF Lands, Tokens
<1>3. /\ current \in [Flows -> [token : 0..MaxToken, marked : BOOLEAN]]
      /\ raced' \subseteq Flows /\ rejected' = rejected
  BY DEF Sound, TypeOK, Refreshes
<1>4. /\ \A g \in Flows : current'[g].token \in {t, current[g].token}
      /\ current' \in [Flows -> [token : 0..MaxToken, marked : BOOLEAN]]
  BY <1>3 DEF Refreshes, Holds
<1>5. \A g \in Flows : current'[g].token =< issued'
  BY <1>1, <1>2, <1>4
<1> QED
  BY <1>3, <1>4, <1>5, LandsSound

\* A new token set is the server's next.
LEMMA IssueMoves ==
  ASSUME Sound, NEW c \in Callers, Issue(c), ~Is(c, "idle"),
         call[c].locked \/ call[c].authorizes
  PROVE  /\ issued' = issued + 1 /\ issued' \in Tokens /\ issued =< issued'
         /\ call'[c] \in CallState /\ Good(call'[c]) /\ call'[c].pc = "issued"
         /\ call'[c].flow = Flow(c) /\ call'[c].active = Active(c)
         /\ call'[c].got = issued'
         /\ call'[c].authorizes = call[c].authorizes
         /\ call'[c].locked = call[c].locked
         /\ call'[c].overtaken = call[c].overtaken
         /\ Becomes(c, call'[c])
         /\ \A d \in Callers : d = c \/ call'[d] = call[d]
<1>1. /\ issued' = issued + 1 /\ issued' \in Tokens /\ issued =< issued'
      /\ issued' \in 0..MaxToken
  BY Carries DEF Issue, Tokens
<1>2. Takes(c, "issued", issued')
  BY DEF Issue
<1>3. /\ call'[c] \in CallState /\ call'[c].pc = "issued"
      /\ call'[c].flow = Flow(c) /\ call'[c].active = Active(c)
      /\ call'[c].got = issued'
      /\ call'[c].authorizes = call[c].authorizes
      /\ call'[c].locked = call[c].locked
      /\ call'[c].overtaken = call[c].overtaken
      /\ Becomes(c, call'[c])
      /\ \A d \in Callers : d = c \/ call'[d] = call[d]
  BY <1>1, <1>2, TakesMoves DEF Places
<1>4. Good(call'[c])
  BY <1>3, Carries DEF Good, Is, Flow, Active
<1> QED
  BY <1>1, <1>3, <1>4

\* A call that is overtaken goes on as it was.
Alike(d) ==
  /\ call'[d].pc = call[d].pc /\ call'[d].flow = call[d].flow
  /\ call'[d].active = call[d].active /\ call'[d].got = call[d].got
  /\ call'[d].locked = call[d].locked

LEMMA OvertakenAlike ==
  ASSUME Sound, NEW d \in Callers, NEW b \in BOOLEAN,
         call'[d] = [call[d] EXCEPT !.overtaken = @ \/ b]
  PROVE  /\ Alike(d) /\ call'[d] \in CallState /\ Good(call'[d])
         /\ call'[d].got =< issued
         /\ call'[d].overtaken = (call[d].overtaken \/ b)
<1>1. call[d] \in CallState /\ Good(call[d]) /\ call[d].got =< issued
  BY Carries
<1>2. (call[d].overtaken \/ b) \in BOOLEAN
  BY <1>1 DEF CallState
<1>3. /\ Alike(d) /\ call'[d] \in CallState
      /\ call'[d].authorizes = call[d].authorizes
      /\ call'[d].overtaken = (call[d].overtaken \/ b)
  BY <1>1, <1>2 DEF Alike, CallState
<1>4. Good(call'[d])
  BY <1>1, <1>3 DEF Good, Alike
<1> QED
  BY <1>1, <1>3, <1>4 DEF Alike

\* A step that authorizes a flow.
LEMMA AuthorizesMoves ==
  ASSUME Sound, NEW c \in Callers, NEW state \in CallState, Good(state),
         state.got =< issued, Flow(c) \in Flows,
         Authorizes(c, call[c].got, state), UNCHANGED <<store, server>>
  PROVE  /\ Sound' /\ call'[c] = state
         /\ \A d \in Callers : d # c =>
              /\ Alike(d)
              /\ call'[d].overtaken
                   = (call[d].overtaken \/ d \in LockedBy(Flow(c)))
<1>1. /\ call' = [d \in Callers |->
                    IF d = c THEN state
                    ELSE [call[d] EXCEPT !.overtaken =
                                           @ \/ d \in LockedBy(Flow(c))]]
      /\ Holds(Flow(c), call[c].got)
  BY DEF Authorizes, Overtakes
<1>2. call'[c] = state
  BY <1>1
<1>3. ASSUME NEW d \in Callers, d # c
      PROVE  /\ Alike(d) /\ call'[d] \in CallState /\ Good(call'[d])
             /\ call'[d].got =< issued
             /\ call'[d].overtaken
                  = (call[d].overtaken \/ d \in LockedBy(Flow(c)))
  <2> DEFINE b == d \in LockedBy(Flow(c))
  <2>1. call'[d] = [call[d] EXCEPT !.overtaken = @ \/ b] /\ b \in BOOLEAN
    BY <1>1, <1>3
  <2> HIDE DEF b
  <2>2. /\ Alike(d) /\ call'[d] \in CallState /\ Good(call'[d])
        /\ call'[d].got =< issued
        /\ call'[d].overtaken = (call[d].overtaken \/ b)
    BY <2>1, OvertakenAlike
  <2> QED
    BY <2>2 DEF b
<1>4. call' \in [Callers -> CallState]
  <2>1. \A d \in Callers : call'[d] \in CallState
    BY <1>2, <1>3
  <2>2. DOMAIN call' = Callers /\ call' = [d \in DOMAIN call' |-> call'[d]]
    BY <1>1
  <2> QED
    BY <2>1, <2>2
<1>5. /\ current \in [Flows -> [token : 0..MaxToken, marked : BOOLEAN]]
      /\ rejected \in [Flows -> SUBSET Tokens] /\ raced \subseteq Flows
      /\ \A f \in Flows : current[f].token =< issued
                           /\ rejected[f] \subseteq 1..issued
      /\ call[c].got \in 0..MaxToken /\ call[c].got =< issued
  BY Carries DEF Sound, TypeOK, Bounded, CallState
<1>6. /\ current' \in [Flows -> [token : 0..MaxToken, marked : BOOLEAN]]
      /\ \A f \in Flows : current'[f].token =< issued
  BY <1>1, <1>5 DEF Holds
<1>7. /\ rejected' \in [Flows -> SUBSET Tokens] /\ raced' \subseteq Flows
      /\ \A f \in Flows : rejected'[f] \subseteq 1..issued
  BY <1>5 DEF Authorizes
<1>8. Sound'
  BY <1>2, <1>3, <1>4, <1>6, <1>7, CallsSound DEF Sound, TypeOK, server
<1> QED
  BY <1>2, <1>3, <1>8
-----------------------------------------------------------------------------
\* A step of a call that touches no flow and not the store: it takes the lock
\* only when it is free, and adopts only what differs from what it works on.
LEMMA QuietCareful ==
  ASSUME Sound, Careful, Sound', NEW c \in Callers,
         UNCHANGED <<current, store, history>>,
         \A d \in Callers : d = c \/ call'[d] = call[d],
         call'[c].locked =>
           \/ call[c].locked /\ call'[c].flow = Flow(c)
           \/ LockedBy(call'[c].flow) = {},
         call'[c].locked /\ call'[c].pc # "removing" /\ ~call'[c].overtaken =>
           call'[c].active = current[call'[c].flow].token,
         call'[c].pc \notin {"issued", "saved"},
         call'[c].pc = "adopting" =>
           /\ call'[c].got = store /\ store # NoToken
           /\ store # call'[c].active,
         call'[c].pc = "starting" => call'[c].got = store
  PROVE  Careful'
<1>1. Good(call'[c]) /\ UNCHANGED <<current, store, rejected, raced>>
  BY DEF Sound, Placed, history
<1>2. Alone'
  <2> SUFFICES ASSUME NEW d \in Callers, d # c, call[d].flow = call'[c].flow
               PROVE  ~(call'[c].locked /\ call[d].locked)
    BY DEF Careful, Alone, Flow
  <2> QED
    BY DEF Careful, Alone, Flow, LockedBy
<1>3. Fresh'
  BY <1>1 DEF Careful, Fresh, Is
<1>4. Brought'
  <2>1. ASSUME call'[c].pc = "adopting", ~call'[c].overtaken,
               call'[c].flow \notin raced
        PROVE  /\ store \notin rejected[call'[c].flow]
               /\ store # current[call'[c].flow].token
    <3>1. call'[c].flow \in Flows /\ call'[c].locked
          /\ call'[c].active # NoToken
      BY <1>1, <2>1 DEF Good
    <3>2. current[call'[c].flow].token = call'[c].active
      BY <2>1, <3>1
    <3> QED
      BY <2>1, <3>1, <3>2 DEF Careful, StoredIsCurrent
  <2> QED
    BY <1>1, <2>1 DEF Careful, Brought, Steady, Flow
<1>5. StoredIsCurrent' /\ RejectedStaysRejected'
  BY <1>1 DEF Careful, StoredIsCurrent, RejectedStaysRejected
<1>6. RefreshesTheCurrent'
  BY <1>1 DEF Careful, RefreshesTheCurrent, Flow, Active, Is
<1> QED
  BY <1>2, <1>3, <1>4, <1>5, <1>6 DEF Careful

\* A write under refresh_lock: no other call of the flow refreshes, and what an
\* authorization under way carries does not matter before it writes.
LEMMA RefreshesCareful ==
  ASSUME Sound, Careful, Sound', NEW c \in Callers, NEW t,
         call[c].locked, call[c].pc \in {"adopting", "saved", "discarding"},
         Refreshes(c, t),
         t = NoToken \/ (t = call[c].got /\ ~Is(c, "discarding")),
         UNCHANGED store,
         \A d \in Callers : d = c \/ call'[d] = call[d],
         call'[c].locked =>
           call'[c].flow = Flow(c) /\ call'[c].pc = "removing",
         call'[c].pc \in {"idle", "removing", "exchanging"}
  PROVE  Careful'
<1> DEFINE f == Flow(c)
<1>1. /\ f \in Flows /\ store' = store /\ rejected' = rejected
      /\ current'[f].token = t /\ ~current'[f].marked
      /\ \A g \in Flows : g = f \/ current'[g] = current[g]
      /\ raced \subseteq raced' /\ raced' \subseteq raced \cup {f}
      /\ call[c].overtaken => f \in raced'
  BY Carries DEF Good, Flow, Refreshes, Holds, Sound, TypeOK
<1>2. ASSUME NEW d \in Callers, call'[d].locked, call'[d].pc # "removing"
      PROVE  /\ d # c /\ call'[d] = call[d] /\ Flow(d) \in Flows /\ Flow(d) # f
             /\ current'[Flow(d)] = current[Flow(d)]
  <2>1. d # c /\ call'[d] = call[d]
    BY <1>2
  <2>2. Flow(d) # f
    BY <1>2, <2>1 DEF Careful, Alone
  <2>3. Flow(d) \in Flows
    BY <1>2, <2>1, Carries DEF Good, Flow
  <2> QED
    BY <1>1, <2>1, <2>2, <2>3
<1>3. ~call[c].overtaken /\ f \notin raced =>
        /\ NoToken \notin rejected[f] /\ t \notin rejected[f]
        /\ t # NoToken => store \notin rejected[f]
  <2>1. NoToken \notin rejected[f]
    BY <1>1, Carries DEF Sound, Bounded, NoToken
  <2> QED
    BY <2>1 DEF Careful, Brought, Steady, Is
<1>4. Alone'
  BY DEF Careful, Alone, Flow
<1>5. Fresh'
  <2> SUFFICES ASSUME NEW d \in Callers, call'[d].pc = "issued"
               PROVE  /\ call'[d].got \in Tokens /\ call'[d].got # store
                      /\ \A g \in Flows : call'[d].got # current'[g].token
                                          /\ call'[d].got \notin rejected[g]
                      /\ \A e \in Callers :
                           /\ e # d
                           /\ call'[e].pc \in {"adopting", "issued", "saved",
                                               "starting"}
                           => call'[e].got # call'[d].got
    BY <1>1 DEF Fresh, Is
  <2>1. d # c /\ call'[d] = call[d] /\ Is(d, "issued")
    BY DEF Is
  <2>2. call[d].got # t
    BY <2>1 DEF Careful, Fresh, Tokens, NoToken, Is
  <2> QED
    BY <1>1, <2>1, <2>2 DEF Careful, Fresh
<1>6. Brought'
  <2> SUFFICES ASSUME NEW d \in Callers, call'[d].pc \in {"adopting", "saved"},
                      Steady(d)'
               PROVE  /\ call'[d].got # NoToken
                      /\ call'[d].got # current'[call'[d].flow].token
                      /\ call'[d].got \notin rejected[call'[d].flow]
                      /\ store \notin rejected[call'[d].flow]
                      /\ store # NoToken =>
                           store # current'[call'[d].flow].token
    BY <1>1 DEF Brought, Flow
  <2>1. /\ call'[d] = call[d] /\ Flow(d) \in Flows
        /\ current'[Flow(d)] = current[Flow(d)]
    BY <1>2 DEF Steady
  <2>2. Steady(d)
    BY <1>1, <2>1 DEF Steady, Flow
  <2> QED
    BY <2>1, <2>2 DEF Careful, Brought, Flow
<1>7. StoredIsCurrent'
  BY <1>1, <1>3 DEF Careful, StoredIsCurrent
<1>8. RefreshesTheCurrent'
  <2> SUFFICES ASSUME NEW d \in Callers, call'[d].locked,
                      call'[d].pc # "removing", ~call'[d].overtaken
               PROVE  call'[d].active = current'[call'[d].flow].token
    BY DEF RefreshesTheCurrent, Active, Flow, Is
  <2> QED
    BY <1>2 DEF Careful, RefreshesTheCurrent, Active, Flow, Is
<1>9. RejectedStaysRejected'
  BY <1>1, <1>3 DEF Careful, RejectedStaysRejected
<1> QED
  BY <1>4, <1>5, <1>6, <1>7, <1>8, <1>9 DEF Careful

\* A write without refresh_lock: who refreshes the flow is overtaken, and unless
\* the token was rejected meanwhile nothing is held against the flow any more.
LEMMA AuthorizesCareful ==
  ASSUME Sound, Careful, Sound', NEW c \in Callers, NEW state,
         Flow(c) \in Flows, ~call[c].locked,
         call[c].pc \in {"starting", "saved"},
         Authorizes(c, call[c].got, state), UNCHANGED store,
         call'[c] = state, ~state.locked, state.pc \in {"idle", "queued"},
         \A d \in Callers : d # c =>
           /\ Alike(d)
           /\ call'[d].overtaken = (call[d].overtaken \/ d \in LockedBy(Flow(c)))
  PROVE  Careful'
<1> DEFINE f == Flow(c)
           t == call[c].got
<1>1. /\ store' = store /\ current'[f].token = t
      /\ \A g \in Flows : g = f \/ (current'[g] = current[g]
                                    /\ rejected'[g] = rejected[g])
      /\ \A g \in Flows : rejected'[g] \subseteq rejected[g]
      /\ raced \ {f} \subseteq raced' /\ raced' \subseteq raced \cup {f}
      /\ f \in raced' \/ rejected'[f] = {}
  BY DEF Authorizes, Holds, Sound, TypeOK
<1>2. ASSUME NEW d \in Callers, call'[d].locked, ~call'[d].overtaken
      PROVE  /\ d # c /\ Alike(d) /\ Flow(d) \in Flows /\ Flow(d) # f
             /\ ~call[d].overtaken /\ call[d].locked
  <2>1. d # c /\ Alike(d) /\ call[d].locked
    BY <1>2 DEF Alike
  <2>2. ~call[d].overtaken /\ d \notin LockedBy(f)
    BY <1>2, <2>1
  <2>3. Flow(d) \in Flows
    BY <2>1, Carries DEF Good, Flow
  <2> QED
    BY <2>1, <2>2, <2>3 DEF LockedBy
<1>3. Alone'
  BY DEF Careful, Alone, Flow, Alike
<1>4. Fresh'
  <2> SUFFICES ASSUME NEW d \in Callers, call'[d].pc = "issued"
               PROVE  /\ call'[d].got \in Tokens /\ call'[d].got # store
                      /\ \A g \in Flows : call'[d].got # current'[g].token
                                          /\ call'[d].got \notin rejected'[g]
                      /\ \A e \in Callers :
                           /\ e # d
                           /\ call'[e].pc \in {"adopting", "issued", "saved",
                                               "starting"}
                           => call'[e].got # call'[d].got
    BY <1>1 DEF Fresh, Is
  <2>1. d # c /\ Is(d, "issued") /\ call'[d].got = call[d].got
    BY DEF Is, Alike
  <2>2. /\ call[d].got \in Tokens /\ call[d].got # store
        /\ \A g \in Flows : call[d].got # current[g].token
                            /\ call[d].got \notin rejected[g]
        /\ \A e \in Callers :
             e # d /\ call[e].pc \in {"adopting", "issued", "saved", "starting"}
               => call[e].got # call[d].got
    BY <2>1 DEF Careful, Fresh
  <2>3. call[d].got # t
    BY <2>1, <2>2
  <2>4. ASSUME NEW e \in Callers, e # d,
               call'[e].pc \in {"adopting", "issued", "saved", "starting"}
        PROVE  call'[e].got # call'[d].got
    BY <2>1, <2>2, <2>4 DEF Alike
  <2> QED
    BY <1>1, <2>1, <2>2, <2>3, <2>4
<1>5. Brought'
  <2> SUFFICES ASSUME NEW d \in Callers, call'[d].pc \in {"adopting", "saved"},
                      Steady(d)'
               PROVE  /\ call'[d].got # NoToken
                      /\ call'[d].got # current'[call'[d].flow].token
                      /\ call'[d].got \notin rejected'[call'[d].flow]
                      /\ store \notin rejected'[call'[d].flow]
                      /\ store # NoToken =>
                           store # current'[call'[d].flow].token
    BY <1>1 DEF Brought, Flow
  <2>1. /\ Alike(d) /\ Flow(d) \in Flows /\ Flow(d) # f
        /\ ~call[d].overtaken /\ call[d].locked
    BY <1>2 DEF Steady
  <2>2. Steady(d)
    BY <1>1, <2>1 DEF Steady, Flow, Alike
  <2> QED
    BY <1>1, <2>1, <2>2 DEF Careful, Brought, Flow, Alike
<1>6. StoredIsCurrent'
  BY <1>1 DEF Careful, StoredIsCurrent
<1>7. RefreshesTheCurrent'
  <2> SUFFICES ASSUME NEW d \in Callers, call'[d].locked,
                      call'[d].pc # "removing", ~call'[d].overtaken
               PROVE  call'[d].active = current'[call'[d].flow].token
    BY DEF RefreshesTheCurrent, Active, Flow, Is
  <2> QED
    BY <1>1, <1>2 DEF Careful, RefreshesTheCurrent, Active, Flow, Is, Alike
<1>8. RejectedStaysRejected'
  BY <1>1 DEF Careful, RejectedStaysRejected
<1> QED
  BY <1>3, <1>4, <1>5, <1>6, <1>7, <1>8 DEF Careful

\* A step that changes what the store holds, to what nobody has or to nothing.
LEMMA StoreCareful ==
  ASSUME Sound, Careful, Sound', NEW c \in Callers,
         UNCHANGED <<current, history>>,
         \A d \in Callers : d = c \/ call'[d] = call[d],
         \/ /\ Is(c, "issued") /\ store' = call[c].got
            /\ call'[c].pc = "saved" /\ call'[c].got = call[c].got
            /\ call'[c].flow = Flow(c) /\ call'[c].active = Active(c)
            /\ call'[c].locked = call[c].locked
            /\ call'[c].overtaken = call[c].overtaken
         \/ /\ Is(c, "removing") /\ store' = NoToken /\ ~call'[c].locked
            /\ call'[c].pc \in {"idle", "exchanging"}
  PROVE  Careful'
<1>1. /\ UNCHANGED <<current, rejected, raced>>
      /\ \A f \in Flows : NoToken \notin rejected[f]
  BY Carries DEF Sound, Bounded, NoToken, history
<1>2. \A f \in Flows : store' \notin rejected[f]
                       /\ (store' # NoToken => store' # current[f].token)
  BY <1>1 DEF Careful, Fresh, Is
<1>3. Alone'
  BY DEF Careful, Alone, Flow
<1>4. Fresh'
  <2> SUFFICES ASSUME NEW d \in Callers, call'[d].pc = "issued"
               PROVE  /\ call'[d].got \in Tokens /\ call'[d].got # store'
                      /\ \A g \in Flows : call'[d].got # current[g].token
                                          /\ call'[d].got \notin rejected[g]
                      /\ \A e \in Callers :
                           /\ e # d
                           /\ call'[e].pc \in {"adopting", "issued", "saved",
                                               "starting"}
                           => call'[e].got # call'[d].got
    BY <1>1 DEF Fresh, Is
  <2>1. d # c /\ call'[d] = call[d] /\ Is(d, "issued")
    BY DEF Is
  <2>2. call[d].got # store'
    BY <2>1 DEF Careful, Fresh, Is, Tokens, NoToken
  <2>3. \A e \in Callers :
          e # d /\ call'[e].pc \in {"adopting", "issued", "saved", "starting"}
            => call'[e].got = call[e].got
               /\ call[e].pc \in {"adopting", "issued", "saved", "starting"}
    BY DEF Is
  <2> QED
    BY <2>1, <2>2, <2>3 DEF Careful, Fresh
<1>5. Brought'
  <2> SUFFICES ASSUME NEW d \in Callers, call'[d].pc \in {"adopting", "saved"},
                      Steady(d)'
               PROVE  /\ call'[d].got # NoToken
                      /\ call'[d].got # current[call'[d].flow].token
                      /\ call'[d].got \notin rejected[call'[d].flow]
                      /\ store' \notin rejected[call'[d].flow]
                      /\ store' # NoToken =>
                           store' # current[call'[d].flow].token
    BY <1>1 DEF Brought, Flow
  <2>1. call'[d].flow \in Flows
    BY DEF Sound, Placed, Good
  <2>2. CASE d = c
    BY <1>2, <2>1, <2>2 DEF Careful, Fresh, Tokens, NoToken, Is
  <2>3. CASE d # c
    <3>1. call'[d] = call[d] /\ Steady(d)
      BY <1>1, <2>3 DEF Steady, Flow
    <3> QED
      BY <1>2, <2>1, <3>1 DEF Careful, Brought, Flow
  <2> QED
    BY <2>2, <2>3
<1>6. StoredIsCurrent' /\ RejectedStaysRejected'
  BY <1>1, <1>2 DEF Careful, StoredIsCurrent, RejectedStaysRejected
<1>7. RefreshesTheCurrent'
  BY <1>1 DEF Careful, RefreshesTheCurrent, Flow, Active, Is
<1> QED
  BY <1>3, <1>4, <1>5, <1>6, <1>7 DEF Careful

\* A new token set: nobody has seen its number.
LEMMA IssueCareful ==
  ASSUME Sound, Careful, Sound', NEW c \in Callers, Issue(c),
         call[c].pc \in {"sending", "exchanging"},
         UNCHANGED <<current, store, history>>
  PROVE  Careful'
<1>1. /\ Good(call[c]) /\ ~Is(c, "idle")
      /\ call[c].locked \/ call[c].authorizes
      /\ UNCHANGED <<rejected, raced>>
  BY Carries DEF Good, Is, history
<1>2. /\ issued' = issued + 1 /\ issued' \in Tokens
      /\ call'[c].pc = "issued" /\ call'[c].got = issued'
      /\ call'[c].flow = Flow(c) /\ call'[c].active = Active(c)
      /\ call'[c].locked = call[c].locked
      /\ call'[c].overtaken = call[c].overtaken
      /\ \A d \in Callers : d = c \/ call'[d] = call[d]
  BY <1>1, IssueMoves
<1>3. /\ \A f \in Flows : issued' # current[f].token /\ issued' \notin rejected[f]
      /\ \A d \in Callers : issued' # call[d].got
      /\ issued' # store
  <2>1. issued \in Nat /\ store =< issued /\ store \in Nat
    BY Carries
  <2>2. \A f \in Flows : current[f].token \in Nat /\ current[f].token =< issued
                         /\ rejected[f] \subseteq 1..issued
    BY DEF Sound, TypeOK, Bounded
  <2>3. \A d \in Callers : call[d].got \in Nat /\ call[d].got =< issued
    BY Carries DEF CallState
  <2> QED
    BY <1>2, <2>1, <2>2, <2>3
<1>4. Alone'
  BY <1>2 DEF Careful, Alone, Flow
<1>5. Fresh'
  <2> SUFFICES ASSUME NEW d \in Callers, call'[d].pc = "issued"
               PROVE  /\ call'[d].got \in Tokens /\ call'[d].got # store
                      /\ \A g \in Flows : call'[d].got # current[g].token
                                          /\ call'[d].got \notin rejected[g]
                      /\ \A e \in Callers :
                           /\ e # d
                           /\ call'[e].pc \in {"adopting", "issued", "saved",
                                               "starting"}
                           => call'[e].got # call'[d].got
    BY <1>1 DEF Fresh, Is
  <2>1. CASE d = c
    BY <1>2, <1>3, <2>1
  <2>2. CASE d # c
    BY <1>2, <1>3, <2>2 DEF Careful, Fresh, Is
  <2> QED
    BY <2>1, <2>2
<1>6. Brought'
  BY <1>1, <1>2 DEF Careful, Brought, Steady, Flow
<1>7. StoredIsCurrent' /\ RejectedStaysRejected'
  BY <1>1 DEF Careful, StoredIsCurrent, RejectedStaysRejected
<1>8. RefreshesTheCurrent'
  BY <1>1, <1>2 DEF Careful, RefreshesTheCurrent, Flow, Active, Is
<1> QED
  BY <1>4, <1>5, <1>6, <1>7, <1>8 DEF Careful

\* A call's own step.
LEMMA CallPreserves ==
  ASSUME Sound, Careful, NEW c \in Callers, CallStep(c)
  PROVE  Sound' /\ Careful'
<1> DEFINE new == call'[c]
           others == \A d \in Callers : d = c \/ call'[d] = call[d]
<1>0. ~Is(c, "idle")
  BY DEF CallStep, Lock, Load, Adopt, Redeem, Refuse, FailToSend, Save, Install,
         Reload, Discard, Remove, Drive, Begin, Start, Exchange, Is
<1>1. /\ Good(call[c]) /\ Flow(c) \in Flows /\ call[c].got =< issued
      /\ call[c] \in CallState /\ call[c].got \in 0..MaxToken
      /\ store \in Nat /\ store =< issued /\ store \in 0..MaxToken
      /\ issued \in Nat
  BY <1>0, Carries DEF Good, Is, Flow, CallState
\* Steps that only move the call.
<1>2. ASSUME Becomes(c, new), others, new \in CallState, Good(new),
             new.got =< issued, UNCHANGED <<current, store, server, history>>
      PROVE  Sound'
  BY <1>2, QuietLands, FlowsUnchanged
<1>3. ASSUME Ends(c), UNCHANGED <<current, store, server, history>>
      PROVE  Sound' /\ Careful'
  <2>1. /\ new = Idle /\ new.pc = "idle" /\ ~new.locked
        /\ Becomes(c, new) /\ others
    BY <1>3, EndsMoves
  <2>2. Sound'
    BY <1>1, <1>2, <1>3, <2>1, IdleCall
  <2> QED
    BY <1>3, <2>1, <2>2, QuietCareful
<1>4. CASE Lock(c)
  <2>1. /\ Is(c, "queued") /\ LockedBy(Flow(c)) = {}
        /\ UNCHANGED <<current, store, server, history>>
    BY <1>4 DEF Lock
  <2>2. CASE current[Flow(c)].token = NoToken \/ Usable(Flow(c))
    BY <1>3, <1>4, <2>1, <2>2 DEF Lock
  <2>3. CASE ~(current[Flow(c)].token = NoToken \/ Usable(Flow(c)))
    <3> DEFINE q == [call[c] EXCEPT !.pc = "loading", !.locked = TRUE,
                                    !.active = current[Flow(c)].token,
                                    !.overtaken = FALSE]
    <3>1. Becomes(c, q)
      BY <1>4, <2>3 DEF Lock
    <3>2. current[Flow(c)].token \in 0..MaxToken
      BY <1>1 DEF Sound, TypeOK
    <3>3. /\ q \in CallState /\ q.pc = "loading" /\ q.locked
          /\ q.active = current[Flow(c)].token /\ q.flow = Flow(c)
          /\ q.got = call[c].got
      BY <1>1, <3>2 DEF CallState, Places, Flow
    <3> HIDE DEF q
    <3>4. new = q /\ Becomes(c, new) /\ others
      BY <3>1, BecomesMoves
    <3>5. Good(new)
      BY <1>1, <2>3, <3>3, <3>4 DEF Good
    <3>6. Sound'
      BY <1>1, <1>2, <2>1, <3>3, <3>4, <3>5
    <3> QED
      BY <1>1, <2>1, <3>3, <3>4, <3>6, QuietCareful DEF Flow
  <2> QED
    BY <2>2, <2>3
\* Taking the store's token, or going on without it.
<1>5. ASSUME call[c].locked, call[c].pc # "removing",
             NEW pc \in {"adopting", "sending", "refused", "discarding"},
             \/ Takes(c, pc, store) /\ (pc = "adopting" => Adoptable(c))
             \/ Goes(c, pc) /\ pc # "adopting",
             UNCHANGED <<current, store, server, history>>
      PROVE  Sound' /\ Careful'
  <2>1. /\ new \in CallState /\ new.pc = pc /\ new.flow = Flow(c)
        /\ new.active = Active(c) /\ new.got \in {store, call[c].got}
        /\ new.locked /\ new.overtaken = call[c].overtaken
        /\ pc = "adopting" => new.got = store /\ Adoptable(c)
        /\ Becomes(c, new) /\ others
    BY <1>1, <1>5, TakesMoves, GoesMoves DEF Places
  <2>2. Good(new)
    BY <1>1, <1>5, <2>1 DEF Good, Active
  <2>3. Sound'
    BY <1>1, <1>2, <1>5, <2>1, <2>2
  <2>4. Adoptable(c) => store # NoToken /\ store # Active(c)
    BY DEF Adoptable, TokensDiffer, Valid, Tokens, NoToken
  <2>5. ~new.overtaken => new.active = current[new.flow].token
    BY <1>5, <2>1 DEF Careful, RefreshesTheCurrent, Is
  <2> QED
    BY <1>5, <2>1, <2>3, <2>4, <2>5, QuietCareful
<1>6. call[c].pc \in {"loading", "sending", "refused"} => call[c].locked
  BY <1>1 DEF Good
<1>7. CASE Load(c) \/ Reload(c) \/ Refuse(c)
  <2>1. /\ call[c].pc \in {"loading", "sending", "refused"}
        /\ UNCHANGED <<current, store, server, history>>
        /\ \/ Takes(c, "adopting", store) /\ Adoptable(c)
           \/ Takes(c, "discarding", store)
           \/ Goes(c, "sending") \/ Goes(c, "refused")
    BY <1>7 DEF Load, Reload, Refuse, Is
  <2> QED
    BY <1>5, <1>6, <2>1
<1>8. CASE FailToSend(c)
  BY <1>3, <1>8 DEF FailToSend
<1>9. CASE Begin(c)
  <2>1. /\ Is(c, "beginning") /\ UNCHANGED <<current, store, server, history>>
        /\ \/ Goes(c, "exchanging")
           \/ Takes(c, "starting", store)
    BY <1>9 DEF Begin
  <2>2. /\ new \in CallState /\ new.pc \in {"exchanging", "starting"}
        /\ new.flow = Flow(c) /\ new.got \in {store, call[c].got}
        /\ new.pc = "starting" => new.got = store
        /\ new.authorizes = call[c].authorizes /\ new.locked = call[c].locked
        /\ Becomes(c, new) /\ others
    BY <1>1, <2>1, TakesMoves, GoesMoves DEF Places
  <2>3. call[c].authorizes /\ ~call[c].locked
    BY <1>1, <2>1 DEF Good, Is
  <2>4. Good(new)
    BY <1>1, <2>2, <2>3 DEF Good
  <2>5. Sound'
    BY <1>1, <1>2, <2>1, <2>2, <2>4
  <2> QED
    BY <2>1, <2>2, <2>3, <2>5, QuietCareful
<1>10. CASE Drive(c)
  <2> DEFINE q == [call[c] EXCEPT !.pc = "beginning", !.drives = TRUE]
  <2>1. /\ Is(c, "waiting") /\ Becomes(c, q)
        /\ UNCHANGED <<current, store, server, history>>
    BY <1>10 DEF Drive
  <2>2. /\ q \in CallState /\ q.pc = "beginning" /\ q.flow = Flow(c)
        /\ q.got = call[c].got /\ q.authorizes = call[c].authorizes
        /\ q.locked = call[c].locked
    BY <1>1 DEF CallState, Places, Flow
  <2>3. call[c].authorizes /\ ~call[c].locked
    BY <1>1, <2>1 DEF Good, Is
  <2>4. Good(q)
    BY <1>1, <2>2, <2>3 DEF Good
  <2> HIDE DEF q
  <2>5. new = q /\ Becomes(c, new) /\ others
    BY <2>1, BecomesMoves
  <2>6. Sound'
    BY <1>1, <1>2, <2>1, <2>2, <2>4, <2>5
  <2> QED
    BY <2>1, <2>2, <2>3, <2>5, <2>6, QuietCareful
\* Steps that change what the flow holds.
<1>11. ASSUME NEW t \in 0..MaxToken, t =< issued, Refreshes(c, t),
              UNCHANGED <<store, server>>, Becomes(c, new), others,
              new \in CallState, Good(new), new.got =< issued
       PROVE  Sound'
  BY <1>1, <1>11, QuietLands, FlowHolds DEF server
<1>12. CASE Adopt(c) \/ (Install(c) /\ call[c].locked)
  <2>1. /\ Is(c, "adopting") \/ Is(c, "saved")
        /\ Refreshes(c, call[c].got) /\ UNCHANGED <<store, server>>
        /\ Ends(c)
    BY <1>12 DEF Adopt, Install
  <2>2. call[c].locked
    BY <1>1, <1>12 DEF Good, Adopt, Is
  <2>3. /\ new = Idle /\ new.pc = "idle" /\ ~new.locked
        /\ Becomes(c, new) /\ others
    BY <2>1, EndsMoves
  <2>4. Sound'
    BY <1>1, <1>11, <2>1, <2>3, IdleCall
  <2> QED
    BY <2>1, <2>2, <2>3, <2>4, RefreshesCareful DEF Is
<1>13. ASSUME NEW state \in CallState, Good(state), state.got =< issued,
              ~state.locked, state.pc \in {"idle", "queued"}, ~call[c].locked,
              call[c].pc \in {"starting", "saved"},
              Authorizes(c, call[c].got, state), UNCHANGED <<store, server>>
       PROVE  Sound' /\ Careful'
  <2>1. /\ Sound' /\ call'[c] = state
        /\ \A d \in Callers : d # c =>
             /\ Alike(d)
             /\ call'[d].overtaken
                  = (call[d].overtaken \/ d \in LockedBy(Flow(c)))
    BY <1>1, <1>13, AuthorizesMoves
  <2> QED
    BY <1>1, <1>13, <2>1, AuthorizesCareful
<1>14. CASE Install(c) /\ ~call[c].locked
  <2>1. /\ Is(c, "saved") /\ Authorizes(c, call[c].got, Idle)
        /\ UNCHANGED <<store, server>>
    BY <1>14 DEF Install
  <2> QED
    BY <1>1, <1>13, <1>14, <2>1, IdleCall DEF Is
<1>15. CASE Start(c)
  <2> DEFINE q == [call[c] EXCEPT !.pc = "queued"]
  <2>1. /\ Is(c, "starting") /\ UNCHANGED <<store, server>>
        /\ \/ Authorizes(c, call[c].got, Idle)
           \/ Authorizes(c, call[c].got, q)
    BY <1>15 DEF Start
  <2>2. ~call[c].locked
    BY <1>1, <2>1 DEF Good, Is
  <2>3. /\ q \in CallState /\ q.pc = "queued" /\ q.flow = Flow(c)
        /\ q.got = call[c].got /\ q.locked = call[c].locked
    BY <1>1 DEF CallState, Places, Flow
  <2>4. Good(q)
    BY <1>1, <2>2, <2>3 DEF Good
  <2> HIDE DEF q
  <2> QED
    BY <1>1, <1>13, <2>1, <2>2, <2>3, <2>4, IdleCall DEF Is
<1>16. CASE Discard(c)
  <2>1. /\ Is(c, "discarding") /\ Refreshes(c, NoToken)
        /\ UNCHANGED <<store, server>>
        /\ Rejected(c) \/ Goes(c, "removing")
    BY <1>16 DEF Discard
  <2>2. call[c].locked
    BY <1>1, <2>1 DEF Good, Is
  <2>3. NoToken \in 0..MaxToken /\ NoToken =< issued
    BY <1>1, TokenAssumption DEF NoToken
  <2>4. CASE Rejected(c)
    <3>1. /\ ~new.locked /\ new \in CallState /\ Good(new) /\ new.got =< issued
          /\ new.pc \in {"idle", "exchanging"} /\ Becomes(c, new) /\ others
      BY <1>0, <1>1, <2>4, RejectedMoves
    <3>2. Sound'
      BY <1>1, <1>11, <2>1, <2>3, <3>1
    <3> QED
      BY <2>1, <2>2, <3>1, <3>2, RefreshesCareful DEF Is
  <2>5. CASE Goes(c, "removing")
    <3>1. /\ new.locked /\ new \in CallState /\ new.got =< issued
          /\ new.pc = "removing" /\ new.flow = Flow(c)
          /\ new.active = Active(c) /\ Becomes(c, new) /\ others
      BY <1>1, <2>2, <2>5, GoesMoves DEF Places
    <3>2. Good(new)
      BY <1>1, <2>2, <3>1 DEF Good, Active
    <3>3. Sound'
      BY <1>1, <1>11, <2>1, <2>3, <3>1, <3>2
    <3> QED
      BY <2>1, <2>2, <3>1, <3>3, RefreshesCareful DEF Is
  <2> QED
    BY <2>1, <2>4, <2>5
\* Steps that change the store.
<1>17. CASE Save(c)
  <2>1. /\ new \in CallState /\ new.pc = "saved" /\ new.flow = Flow(c)
        /\ new.active = Active(c) /\ new.got = call[c].got
        /\ new.authorizes = call[c].authorizes /\ new.locked = call[c].locked
        /\ new.overtaken = call[c].overtaken
        /\ Becomes(c, new) /\ others
    BY <1>17, GoesMoves DEF Save, Places
  <2>2. /\ Is(c, "issued") /\ store' = call[c].got
        /\ UNCHANGED <<current, history>>
        /\ issued' = issued /\ redeemable' = redeemable /\ expired' = expired
    BY <1>17 DEF Save, server
  <2>3. Good(new)
    BY <1>1, <2>1, <2>2 DEF Good, Is, Flow, Active
  <2>4. Lands(c)
    <3>1. /\ issued \in Tokens /\ redeemable \subseteq 1..issued
          /\ expired \subseteq 1..issued
      BY DEF Sound, TypeOK
    <3>2. call[c].got \in 0..issued
      BY <1>1
    <3> QED
      BY <1>1, <2>1, <2>2, <2>3, <3>1, <3>2 DEF Lands
  <2>5. Sound'
    BY <2>2, <2>4, FlowsUnchanged
  <2> QED
    BY <2>1, <2>2, <2>5, StoreCareful
<1>18. CASE Remove(c)
  <2>1. /\ ~new.locked /\ new \in CallState /\ Good(new) /\ new.got =< issued
        /\ new.pc \in {"idle", "exchanging"} /\ Becomes(c, new) /\ others
    BY <1>0, <1>1, <1>18, RejectedMoves DEF Remove
  <2>2. /\ Is(c, "removing") /\ store' = NoToken
        /\ UNCHANGED <<current, history>>
        /\ issued' = issued /\ redeemable' = redeemable /\ expired' = expired
    BY <1>18 DEF Remove, server
  <2>3. Lands(c)
    <3>1. /\ issued \in Tokens /\ redeemable \subseteq 1..issued
          /\ expired \subseteq 1..issued
      BY DEF Sound, TypeOK
    <3>2. NoToken \in 0..issued
      BY <1>1 DEF NoToken
    <3> QED
      BY <1>1, <2>1, <2>2, <3>1, <3>2 DEF Lands
  <2>4. Sound'
    BY <2>2, <2>3, FlowsUnchanged
  <2> QED
    BY <2>1, <2>2, <2>4, StoreCareful
\* Steps of the authorization server.
<1>19. CASE Redeem(c) \/ Exchange(c)
  <2>1. /\ Issue(c) /\ call[c].pc \in {"sending", "exchanging"}
        /\ UNCHANGED <<current, store, history>> /\ expired' = expired
        /\ redeemable' \subseteq redeemable \cup {issued'}
    BY <1>19 DEF Redeem, Exchange, Is
  <2>2. call[c].locked \/ call[c].authorizes
    BY <1>1, <2>1 DEF Good
  <2>3. /\ issued' = issued + 1 /\ issued' \in Tokens /\ issued =< issued'
        /\ new \in CallState /\ Good(new) /\ new.got = issued'
        /\ Becomes(c, new) /\ others
    BY <1>0, <2>1, <2>2, IssueMoves
  <2>4. redeemable \subseteq 1..issued /\ expired \subseteq 1..issued
        /\ store \in 0..issued
    BY DEF Sound, TypeOK
  <2>5. redeemable' \subseteq 1..issued' /\ expired' \subseteq 1..issued'
        /\ store' \in 0..issued'
    <3> DEFINE next == issued'
    <3>1. next = issued + 1 /\ issued \in Nat
      BY <1>1, <2>3
    <3>2. /\ redeemable' \subseteq redeemable \cup {next}
          /\ expired' = expired /\ store' = store
      BY <2>1
    <3> HIDE DEF next
    <3>3. 1..issued \subseteq 1..next /\ next \in 1..next
          /\ 0..issued \subseteq 0..next
      BY <3>1
    <3> QED
      BY <2>4, <3>2, <3>3 DEF next
  <2>6. Lands(c)
    BY <1>1, <2>3, <2>5 DEF Lands, Tokens
  <2>7. Sound'
    BY <2>1, <2>6, FlowsUnchanged
  <2> QED
    BY <2>1, <2>7, IssueCareful
<1> QED
  BY <1>4, <1>7, <1>8, <1>9, <1>10, <1>12, <1>14, <1>15, <1>16, <1>17, <1>18,
     <1>19
     DEF CallStep

\* Calls that begin or are dropped, tokens that expire, are revoked or are
\* rejected by the MCP server.
LEMMA SurroundingsPreserve ==
  ASSUME Sound, Careful, [Next]_vars, \A c \in Callers : ~CallStep(c)
  PROVE  Sound' /\ Careful'
<1>1. ASSUME NEW c \in Callers, NEW f \in Flows,
             NEW pc \in {"queued", "waiting", "beginning"}, NEW a \in BOOLEAN,
             pc = "queued" \/ a,
             Becomes(c, [Idle EXCEPT !.pc = pc, !.flow = f, !.authorizes = a]),
             UNCHANGED <<current, store, server, history>>
      PROVE  Sound' /\ Careful'
  <2>1. /\ call'[c] \in CallState /\ call'[c].got = 0 /\ call'[c].pc = pc
        /\ call'[c].flow = f /\ ~call'[c].locked /\ call'[c].authorizes = a
        /\ Becomes(c, call'[c])
        /\ \A d \in Callers : d = c \/ call'[d] = call[d]
    BY <1>1, StartsMoves
  <2>2. Good(call'[c]) /\ call'[c].got =< issued
    BY <1>1, <2>1, Carries DEF Good
  <2>3. Sound'
    BY <1>1, <2>1, <2>2, QuietLands, FlowsUnchanged
  <2> QED
    BY <1>1, <2>1, <2>3, QuietCareful
<1>2. ASSUME NEW c \in Callers, NEW f \in Flows, GetToken(c, f)
      PROVE  Sound' /\ Careful'
  <2>1. /\ Becomes(c, [Idle EXCEPT !.pc = "queued", !.flow = f])
        /\ UNCHANGED <<current, store, server, history>>
    BY <1>2 DEF GetToken
  <2>2. [Idle EXCEPT !.pc = "queued", !.flow = f]
          = [Idle EXCEPT !.pc = "queued", !.flow = f, !.authorizes = FALSE]
    <3>1. Idle.authorizes = FALSE
      BY DEF Idle
    <3> QED
      BY <3>1 DEF Idle
  <2> QED
    BY <1>1, <2>1, <2>2
<1>3. ASSUME NEW c \in Callers, NEW f \in Flows, Authorize(c, f)
      PROVE  Sound' /\ Careful'
  <2>1. PICK pc \in {"waiting", "beginning"} :
          Becomes(c, [Idle EXCEPT !.pc = pc, !.flow = f, !.authorizes = TRUE])
    BY <1>3 DEF Authorize
  <2> QED
    BY <1>1, <1>3, <2>1 DEF Authorize
<1>4. ASSUME NEW c \in Callers, Drop(c)
      PROVE  Sound' /\ Careful'
  <2>1. /\ call'[c] = Idle /\ call'[c].pc = "idle" /\ ~call'[c].locked
        /\ Becomes(c, call'[c])
        /\ \A d \in Callers : d = c \/ call'[d] = call[d]
    BY <1>4, EndsMoves DEF Drop
  <2>2. UNCHANGED <<current, store, server, history>>
    BY <1>4 DEF Drop
  <2>3. Sound'
    BY <2>1, <2>2, IdleCall, Carries, QuietLands, FlowsUnchanged
  <2> QED
    BY <2>1, <2>2, <2>3, QuietCareful
<1>5. ASSUME NEW f \in Flows, Invalidate(f)
      PROVE  Sound' /\ Careful'
  <2> DEFINE t == current[f].token
  <2>1. /\ t # NoToken /\ t \in Tokens /\ t =< issued /\ t \in 1..issued
        /\ issued \in Nat
    BY <1>5, TokenAssumption
       DEF Invalidate, Sound, TypeOK, Bounded, Tokens, NoToken
  <2>2. /\ rejected' \in [Flows -> SUBSET Tokens]
        /\ \A g \in Flows :
             rejected'[g] = IF g = f THEN rejected[g] \cup {t} ELSE rejected[g]
    BY <1>5, <2>1 DEF Invalidate, Sound, TypeOK
  <2>3. /\ current' \in [Flows -> [token : 0..MaxToken, marked : BOOLEAN]]
        /\ \A g \in Flows : current'[g].token = current[g].token
        /\ \A g \in Flows : current'[g].marked = (g = f \/ current[g].marked)
    BY <1>5 DEF Invalidate, Sound, TypeOK
  <2>4. UNCHANGED <<store, server, raced>>
    BY <1>5 DEF Invalidate
  <2>5. ASSUME NEW d \in Callers
        PROVE  /\ Alike(d) /\ call'[d] \in CallState /\ Good(call'[d])
               /\ call'[d].got =< issued
               /\ call[d].overtaken => call'[d].overtaken
    <3> DEFINE b == Repeats(d, f)
    <3>1. call'[d] = [call[d] EXCEPT !.overtaken = @ \/ b] /\ b \in BOOLEAN
      BY <1>5 DEF Invalidate, Repeats
    <3> HIDE DEF b
    <3> QED
      BY <3>1, OvertakenAlike
  <2>6. call' \in [Callers -> CallState]
    <3>1. DOMAIN call' = Callers /\ call' = [d \in DOMAIN call' |-> call'[d]]
      BY <1>5 DEF Invalidate
    <3> QED
      BY <2>5, <3>1
  <2> HIDE DEF t
  <2>7. Sound'
    <3>1. \A g \in Flows : current'[g].token =< issued
                           /\ rejected'[g] \subseteq 1..issued
      BY <2>1, <2>2, <2>3 DEF Sound, Bounded
    <3> QED
      BY <2>2, <2>3, <2>4, <2>5, <2>6, <3>1, CallsSound
         DEF Sound, TypeOK, server
  <2>8. \A c \in Callers : call[c].locked => Flow(c) \in Flows
    BY Carries DEF Good, Flow
  <2>9. Alone'
    BY <2>5 DEF Careful, Alone, Flow, Alike
  <2>10. Fresh'
    <3> SUFFICES ASSUME NEW d \in Callers, call'[d].pc = "issued"
                 PROVE  /\ call'[d].got \in Tokens /\ call'[d].got # store
                        /\ \A g \in Flows : call'[d].got # current[g].token
                                            /\ call'[d].got \notin rejected'[g]
                        /\ \A e \in Callers :
                             /\ e # d
                             /\ call'[e].pc \in {"adopting", "issued", "saved",
                                                 "starting"}
                             => call'[e].got # call'[d].got
      BY <2>3, <2>4 DEF Fresh, Is
    <3>1. Is(d, "issued") /\ call'[d].got = call[d].got
      BY <2>5 DEF Is, Alike
    <3>2. call[d].got # t /\ (\A g \in Flows : call[d].got \notin rejected[g])
      BY <1>5, <3>1 DEF Careful, Fresh, t
    <3> QED
      BY <2>2, <2>5, <3>1, <3>2 DEF Careful, Fresh, Alike
  <2>11. Brought'
    <3> SUFFICES ASSUME NEW d \in Callers, Steady(d)',
                        call'[d].pc \in {"adopting", "saved"}
                 PROVE  /\ call'[d].got # NoToken
                        /\ call'[d].got # current'[call'[d].flow].token
                        /\ call'[d].got \notin rejected'[call'[d].flow]
                        /\ store \notin rejected'[call'[d].flow]
                        /\ store # NoToken =>
                             store # current'[call'[d].flow].token
      BY <2>4 DEF Brought, Flow
    <3>1. Steady(d) /\ Alike(d) /\ Flow(d) \in Flows
      BY <2>4, <2>5, <2>8 DEF Steady, Flow, Alike
    <3>2. /\ call[d].got # NoToken /\ call[d].got # current[Flow(d)].token
          /\ call[d].got \notin rejected[Flow(d)]
          /\ store \notin rejected[Flow(d)]
          /\ store # NoToken => store # current[Flow(d)].token
      BY <3>1 DEF Careful, Brought, Alike
    <3> QED
      BY <2>1, <2>2, <2>3, <3>1, <3>2 DEF Alike, Flow, t
  <2>12. StoredIsCurrent' /\ RejectedStaysRejected'
    BY <2>2, <2>3, <2>4 DEF Careful, StoredIsCurrent, RejectedStaysRejected, t
  <2>13. RefreshesTheCurrent'
    BY <2>3, <2>5, <2>8
       DEF Careful, RefreshesTheCurrent, Flow, Active, Is, Alike
  <2> QED
    BY <2>7, <2>9, <2>10, <2>11, <2>12, <2>13 DEF Careful
<1>6. ASSUME NEW t \in Tokens, Expire(t) \/ Revoke(t)
      PROVE  Sound' /\ Careful'
  <2>1. UNCHANGED <<current, store, issued, rejected, raced, call>>
    BY <1>6 DEF Expire, Revoke, history
  <2>2. redeemable' \subseteq 1..issued /\ expired' \subseteq 1..issued
    <3>1. /\ redeemable \subseteq 1..issued /\ expired \subseteq 1..issued
          /\ t \in 1..MaxToken /\ issued \in 1..MaxToken /\ MaxToken \in Nat
      BY TokenAssumption DEF Sound, TypeOK, Tokens
    <3>2. CASE Expire(t)
      BY <3>1, <3>2 DEF Expire
    <3>3. CASE Revoke(t)
      BY <3>1, <3>3 DEF Revoke
    <3> QED
      BY <1>6, <3>2, <3>3
  <2> QED
    BY <2>1, <2>2
       DEF Sound, TypeOK, Placed, Bounded, Careful, Alone, Fresh, Brought,
           Steady, StoredIsCurrent, RefreshesTheCurrent, RejectedStaysRejected,
           Is, Flow, Active
<1>7. CASE UNCHANGED vars
  BY <1>7
     DEF vars, Sound, TypeOK, Placed, Bounded, Careful, Alone, Fresh, Brought,
         Steady, StoredIsCurrent, RefreshesTheCurrent, RejectedStaysRejected,
         Is, Flow, Active
<1> QED
  BY <1>2, <1>3, <1>4, <1>5, <1>6, <1>7 DEF Next

\* The inductive invariant.
THEOREM Invariant == Spec => [](Sound /\ Careful)
<1>1. Sound /\ Careful /\ [Next]_vars => (Sound /\ Careful)'
  <2> SUFFICES ASSUME Sound, Careful, [Next]_vars
               PROVE  (Sound /\ Careful)'
    OBVIOUS
  <2>1. CASE \E c \in Callers : CallStep(c)
    BY <2>1, CallPreserves
  <2>2. CASE \A c \in Callers : ~CallStep(c)
    BY <2>2, SurroundingsPreserve
  <2> QED
    BY <2>1, <2>2
<1> QED
  BY InitSound, <1>1, PTL DEF Spec

\* The flows, the store, the server and the calls keep their types, however
\* calls interleave, fail and are dropped.
THEOREM Typing == Spec => []TypeOK
<1>1. Sound => TypeOK
  BY DEF Sound
<1> QED
  BY Invariant, <1>1, PTL

\* refresh_lock and the second look at the token under it: a call never spends
\* the refresh token of a set that another refresh replaced, only of one that an
\* authorization has replaced while it was at work.
THEOREM RefreshesTheCurrentHolds == Spec => []RefreshesTheCurrent
<1>1. Careful => RefreshesTheCurrent
  BY DEF Careful
<1> QED
  BY Invariant, <1>1, PTL

\* Neither a refresh nor an adoption from the shared store undoes invalidate
\* before the flow is authorized again, but for the two races with authorizing.
THEOREM RejectedStaysRejectedHolds == Spec => []RejectedStaysRejected
<1>1. Careful => RejectedStaysRejected
  BY DEF Careful
<1> QED
  BY Invariant, <1>1, PTL
=============================================================================
