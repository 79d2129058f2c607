---------------------------- MODULE TokenRefresh ----------------------------
(***************************************************************************)
(* OAuthAuthorizationFlow of client/oauth_flow.rs as a token provider:     *)
(* flows that share a token store and an authorization server which        *)
(* rotates refresh tokens, accepting each once.  A call may be dropped at  *)
(* any await, and the MCP server may reject a token before it expires.     *)
(*                                                                         *)
(* A token set is the number of its issue: access and refresh token are    *)
(* new in each, and every set has a refresh token.  A flow is authorized   *)
(* at any time, through authorize, reauthorize or begin, for scopes the    *)
(* stored token may not cover.  An error of the token store ends a call    *)
(* where it is, as dropping it does.                                       *)
(***************************************************************************)
EXTENDS Naturals

CONSTANTS
  Flows,    \* flows bound to one resource, issuer and client
  NoFlow,
  Callers,  \* calls of get_token, authorize and begin under way
  MaxToken  \* bound on the tokens the server issues

ASSUME TokenAssumption == NoFlow \notin Flows /\ MaxToken \in Nat \ {0}

VARIABLES
  current,   \* FlowInner.current of each flow; `marked` by invalidate
  store,     \* what the token store holds for the binding
  issued,    \* how many token sets the authorization server has issued
  redeemable,\* refresh tokens it would accept
  expired,   \* access tokens whose lifetime is over
  rejected,  \* tokens each flow was told are rejected, since it was authorized
  raced,     \* flows that an overtaken call has written since then
  call       \* where each caller is

vars == <<current, store, issued, redeemable, expired, rejected, raced, call>>
server == <<issued, redeemable, expired>>
history == <<rejected, raced>>

NoToken == 0
Tokens == 1..MaxToken

\* A call has read `active` and, later, `got`; `drives` is authorization_lock
\* and `locked` refresh_lock.  `overtaken` is history: an authorization wrote
\* the flow while the call held refresh_lock, or the token the call is about to
\* authorize it with was rejected.
Idle == [pc |-> "idle", flow |-> NoFlow, active |-> NoToken, got |-> NoToken,
         authorizes |-> FALSE, drives |-> FALSE, locked |-> FALSE,
         overtaken |-> FALSE]

Init ==
  /\ store = 1 /\ issued = 1 /\ redeemable = {1} /\ expired = {}
  /\ current \in [Flows -> [token : {NoToken, 1}, marked : {FALSE}]]
  /\ rejected = [f \in Flows |-> {}] /\ raced = {}
  /\ call = [c \in Callers |-> Idle]

Is(c, pc) == call[c].pc = pc
Flow(c) == call[c].flow
Active(c) == call[c].active
LockedBy(f) == { c \in Callers : Flow(c) = f /\ call[c].locked }
DrivenBy(f) == { c \in Callers : Flow(c) = f /\ call[c].drives }

\* token_is_valid
Valid(t) == t \in Tokens \ expired
Usable(f) == Valid(current[f].token) /\ ~current[f].marked

\* Mutated: the token sets are compared whole, and expires_at with them.
DifferWhole(c, t) == t # Active(c) \/ current[Flow(c)].marked

\* tokens_differ: the access token identifies an issue.
TokensDiffer(c, t) == t # Active(c)

\* A stored token that another flow, or a dropped call, has put there.
Adoptable(c) == TokensDiffer(c, store) /\ Valid(store)

Becomes(c, state) == call' = [call EXCEPT ![c] = state]
Goes(c, pc) == Becomes(c, [call[c] EXCEPT !.pc = pc])
Takes(c, pc, t) == Becomes(c, [call[c] EXCEPT !.pc = pc, !.got = t])
Ends(c) == Becomes(c, Idle)
Holds(f, t) ==
  current' = [current EXCEPT ![f] = [token |-> t, marked |-> FALSE]]

\* `current` is written under refresh_lock,
Refreshes(c, t) ==
  /\ Holds(Flow(c), t)
  /\ raced' = raced \cup (IF call[c].overtaken THEN {Flow(c)} ELSE {})
  /\ UNCHANGED rejected

\* or by an authorization, which does not hold it.
Overtakes(c, state) ==
  call' = [d \in Callers |->
             IF d = c THEN state
             ELSE [call[d] EXCEPT !.overtaken = @ \/ d \in LockedBy(Flow(c))]]

Authorizes(c, t, state) ==
  /\ Holds(Flow(c), t) /\ Overtakes(c, state)
  /\ IF call[c].overtaken
     THEN raced' = raced \cup {Flow(c)} /\ UNCHANGED rejected
     ELSE /\ raced' = raced \ {Flow(c)}
          /\ rejected' = [rejected EXCEPT ![Flow(c)] = {}]
-----------------------------------------------------------------------------
\* get_token: the fast path returns a usable token and changes nothing.
GetToken(c, f) ==
  /\ Is(c, "idle") /\ ~Usable(f)
  /\ Becomes(c, [Idle EXCEPT !.pc = "queued", !.flow = f])
  /\ UNCHANGED <<current, store, server, history>>

\* Mutated: the token to refresh is the one the call saw before it waited.
LockLate(c) ==
  LET f == Flow(c)
  IN /\ Is(c, "queued") /\ LockedBy(f) = {}
     /\ \E seen \in 1..current[f].token :
          Becomes(c, [call[c] EXCEPT !.pc = "loading", !.locked = TRUE,
                                     !.active = seen, !.overtaken = FALSE])
     /\ UNCHANGED <<current, store, server, history>>

\* Under refresh_lock the token is looked at again.
Lock(c) ==
  LET f == Flow(c)
  IN /\ Is(c, "queued") /\ LockedBy(f) = {}
     /\ IF current[f].token = NoToken \/ Usable(f) THEN Ends(c)
        ELSE Becomes(c, [call[c] EXCEPT !.pc = "loading", !.locked = TRUE,
                                        !.active = current[f].token,
                                        !.overtaken = FALSE])
     /\ UNCHANGED <<current, store, server, history>>

Load(c) ==
  /\ Is(c, "loading")
  /\ IF Adoptable(c) THEN Takes(c, "adopting", store) ELSE Goes(c, "sending")
  /\ UNCHANGED <<current, store, server, history>>

Adopt(c) ==
  /\ Is(c, "adopting")
  /\ Refreshes(c, call[c].got) /\ Ends(c)
  /\ UNCHANGED <<store, server>>

\* The authorization server: the refresh token is used up and a new set issued.
Issue(c) ==
  /\ issued < MaxToken
  /\ issued' = issued + 1
  /\ Takes(c, "issued", issued')

Redeem(c) ==
  /\ Is(c, "sending") /\ Active(c) \in redeemable /\ Issue(c)
  /\ redeemable' = (redeemable \ {Active(c)}) \cup {issued'}
  /\ UNCHANGED <<current, store, expired, history>>

Refuse(c) ==
  /\ Is(c, "sending") /\ Active(c) \notin redeemable /\ Goes(c, "refused")
  /\ UNCHANGED <<current, store, server, history>>

\* A network error, a 5xx or a user who declines: the call fails and everything
\* stays.
FailToSend(c) ==
  /\ call[c].pc \in {"beginning", "sending", "exchanging"} /\ Ends(c)
  /\ UNCHANGED <<current, store, server, history>>

\* The new set goes to the store first, then into the flow.
Save(c) ==
  /\ Is(c, "issued")
  /\ store' = call[c].got
  /\ Goes(c, "saved")
  /\ UNCHANGED <<current, server, history>>

Install(c) ==
  /\ Is(c, "saved")
  /\ IF call[c].locked THEN Refreshes(c, call[c].got) /\ Ends(c)
                       ELSE Authorizes(c, call[c].got, Idle)
  /\ UNCHANGED <<store, server>>

\* Mutated: a refused refresh is tried again.
ReloadAndRetry(c) ==
  /\ Is(c, "refused")
  /\ IF Adoptable(c) THEN Takes(c, "adopting", store) ELSE Goes(c, "sending")
  /\ UNCHANGED <<current, store, server, history>>

\* TokenRefreshRejected: another flow may have used the refresh token, so the
\* store is read again; `got` is what it held.
Reload(c) ==
  /\ Is(c, "refused")
  /\ Takes(c, IF Adoptable(c) THEN "adopting" ELSE "discarding", store)
  /\ UNCHANGED <<current, store, server, history>>

\* A rejected refresh ends get_token; begin goes on to ask the user.
Rejected(c) ==
  IF call[c].authorizes
  THEN Becomes(c, [Idle EXCEPT !.pc = "exchanging", !.flow = Flow(c),
                               !.authorizes = TRUE, !.drives = call[c].drives])
  ELSE Ends(c)

Discard(c) ==
  /\ Is(c, "discarding")
  /\ Refreshes(c, NoToken)
  /\ IF call[c].got # NoToken /\ TokensDiffer(c, call[c].got)
     THEN Rejected(c) ELSE Goes(c, "removing")
  /\ UNCHANGED <<store, server>>

Remove(c) ==
  /\ Is(c, "removing")
  /\ store' = NoToken
  /\ Rejected(c)
  /\ UNCHANGED <<current, server, history>>

\* A call that is about to write, without refresh_lock, what a flow holds.
Repeats(c, f) ==
  /\ Flow(c) = f /\ ~call[c].locked
  /\ call[c].pc \in {"starting", "saved"} /\ call[c].got = current[f].token

\* invalidate, which takes no lock: the MCP server has rejected the token.
Invalidate(f) ==
  /\ current[f].token # NoToken
  /\ current' = [current EXCEPT ![f].marked = TRUE]
  /\ rejected' = [rejected EXCEPT ![f] = @ \cup {current[f].token}]
  /\ call' = [c \in Callers |->
               [call[c] EXCEPT !.overtaken = @ \/ Repeats(c, f)]]
  /\ UNCHANGED <<store, server, raced>>
-----------------------------------------------------------------------------
\* authorize and reauthorize wait for authorization_lock; begin does without.
Authorize(c, f) ==
  /\ Is(c, "idle")
  /\ \E pc \in {"waiting", "beginning"} :
       Becomes(c, [Idle EXCEPT !.pc = pc, !.flow = f, !.authorizes = TRUE])
  /\ UNCHANGED <<current, store, server, history>>

Drive(c) ==
  /\ Is(c, "waiting") /\ DrivenBy(Flow(c)) = {}
  /\ Becomes(c, [call[c] EXCEPT !.pc = "beginning", !.drives = TRUE])
  /\ UNCHANGED <<current, store, server, history>>

\* begin takes over a stored token that covers the scopes asked for, and
\* refreshes it through get_token when it is no longer valid.
Begin(c) ==
  /\ Is(c, "beginning")
  /\ \/ Goes(c, "exchanging")
     \/ store # NoToken /\ Takes(c, "starting", store)
  /\ UNCHANGED <<current, store, server, history>>

Start(c) ==
  /\ Is(c, "starting")
  /\ Authorizes(c, call[c].got, IF Valid(call[c].got) THEN Idle
                                ELSE [call[c] EXCEPT !.pc = "queued"])
  /\ UNCHANGED <<store, server>>

\* The user agrees and the code is exchanged: a grant of its own.
Exchange(c) ==
  /\ Is(c, "exchanging") /\ Issue(c)
  /\ redeemable' = redeemable \cup {issued'}
  /\ UNCHANGED <<current, store, expired, history>>

Expire(t) ==
  /\ t =< issued /\ t \notin expired
  /\ expired' = expired \cup {t}
  /\ UNCHANGED <<current, store, issued, redeemable, history, call>>

Revoke(t) ==
  /\ t \in redeemable
  /\ redeemable' = redeemable \ {t}
  /\ UNCHANGED <<current, store, issued, expired, history, call>>

\* The future of a call is dropped; its guards are released.
Drop(c) ==
  /\ ~Is(c, "idle") /\ Ends(c)
  /\ UNCHANGED <<current, store, server, history>>

CallStep(c) ==
  \/ Lock(c) \/ Load(c) \/ Adopt(c) \/ Redeem(c) \/ Refuse(c) \/ FailToSend(c)
  \/ Save(c) \/ Install(c) \/ Reload(c) \/ Discard(c) \/ Remove(c)
  \/ Drive(c) \/ Begin(c) \/ Start(c) \/ Exchange(c)

Next ==
  \/ \E c \in Callers, f \in Flows : GetToken(c, f) \/ Authorize(c, f)
  \/ \E c \in Callers : CallStep(c) \/ Drop(c)
  \/ \E f \in Flows : Invalidate(f)
  \/ \E t \in Tokens : Expire(t) \/ Revoke(t)

Spec == Init /\ [][Next]_vars

\* Requests and the user's answer come to an end and tokio's Mutex is fair.
Fairness ==
  \A c \in Callers : SF_vars(Lock(c) \/ Drive(c)) /\ WF_vars(CallStep(c))

FairSpec == Spec /\ Fairness
-----------------------------------------------------------------------------
\* Every flow, the store, the server and every call has its type.
TypeOK ==
  /\ current \in [Flows -> [token : 0..MaxToken, marked : BOOLEAN]]
  /\ store \in 0..issued /\ issued \in Tokens
  /\ redeemable \subseteq 1..issued /\ expired \subseteq 1..issued
  /\ rejected \in [Flows -> SUBSET Tokens] /\ raced \subseteq Flows
  /\ call \in [Callers ->
       [pc : {"idle", "queued", "loading", "adopting", "sending", "issued",
              "saved", "refused", "discarding", "removing", "waiting",
              "beginning", "starting", "exchanging"},
        flow : Flows \cup {NoFlow}, active : 0..MaxToken, got : 0..MaxToken,
        authorizes : BOOLEAN, drives : BOOLEAN, locked : BOOLEAN,
        overtaken : BOOLEAN]]

\* A call that refreshes works on the token its flow holds all the way, unless
\* an authorization has written the flow meanwhile: callers of get_token and
\* the refresh inside begin never spend the refresh token of a set another
\* refresh replaced, whatever authorizations begin and fail around them.
RefreshesTheCurrent ==
  \A c \in Callers :
    call[c].locked /\ ~Is(c, "removing") /\ ~call[c].overtaken
      => Active(c) = current[Flow(c)].token

\* invalidate is not undone: until the flow is authorized again it does not
\* hold a token it was told is rejected as a usable one, whatever refresh or
\* adoption was under way at the time.  Two races of an authorization are
\* excepted, since they do put one back: a refresh it overtook that writes
\* afterwards, and an authorization under way when the token was rejected.
RejectedStaysRejected ==
  \A f \in Flows \ raced : current[f].token \in rejected[f] => current[f].marked

\* Every call of get_token, authorize and begin comes back.
CallReturns == \A c \in Callers : ~Is(c, "idle") ~> Is(c, "idle")
=============================================================================
