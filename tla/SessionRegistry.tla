--------------------------- MODULE SessionRegistry --------------------------
(***************************************************************************)
(* One HTTP session across the instances of a server: the live map of each *)
(* instance, the record in the store they share, and the requests that     *)
(* create, use, restore and delete the session.  A request may be dropped  *)
(* at any await (the client went away), an instance may restart, and any   *)
(* operation of the store may fail, which is logged and gone past.         *)
(* Sources: transport/http/session.rs, transport/http/handlers.rs,         *)
(* session_store.rs.                                                       *)
(*                                                                         *)
(* Time is an age: 0 just used, 2 longer ago than the TTL.  A lookup by a  *)
(* principal the session is not bound to changes nothing and is left out,  *)
(* and so is the event log, which restoring reads and removal purges.      *)
(***************************************************************************)
EXTENDS Naturals, FiniteSets

CONSTANTS
  Instances,   \* processes that share the store
  Requests,    \* requests under way at once
  MaxSessions, \* SessionConfig.max_sessions of each instance
  None

ASSUME SessionAssumption ==
  /\ IsFiniteSet(Instances) /\ IsFiniteSet(Requests)
  /\ None \notin Instances /\ MaxSessions \in Nat \ {0}

VARIABLES
  auto,       \* auto_reinitialize_sessions
  live,       \* the Session each instance has under the id, or None: its last
              \* use, and whom it knows
  transient,  \* sessions under other ids in each live map
  stored,     \* the record in the store, or None
  request,    \* where each request is
  cleaner,    \* the cleanup task of each instance
  created,    \* the id has been given to a session
  handedOut,  \* the client has been told the id
  recorded    \* history: the save before that reached the store

vars == <<auto, live, transient, stored, request, cleaner, created, handedOut,
          recorded>>

\* What most steps of a request leave alone.
rest == <<auto, transient, cleaner, created, recorded>>

Records == [age : 0..2, knows : {"nobody", "client", "auto-recovered"}]
ASSUME NoneIsNoRecord == None \notin Records

Fresh(client) == [age |-> 0, knows |-> client]
Touched(record) == [record EXCEPT !.age = 0]
Older(record) == [record EXCEPT !.age = IF @ = 2 THEN 2 ELSE @ + 1]
Expired(record) == record.age = 2

Steps == {"idle", "get", "saving", "loading", "creating", "restoring",
          "rebuilding", "refreshing", "served", "admitting", "persisting",
          "initializing", "saving init", "failing", "deleting live",
          "loading to delete", "dropping", "deleting"}

\* `record` is the session or record a request works on, `own` whether that is
\* the session of the id, `locks` whether it reads the map under the lock.
Idle == [at |-> None, pc |-> "idle", record |-> None, own |-> TRUE,
         locks |-> FALSE]

Init ==
  /\ auto \in BOOLEAN
  /\ live = [i \in Instances |-> None]
  /\ transient = [i \in Instances |-> 0]
  /\ stored = None /\ created = FALSE
  /\ handedOut = FALSE /\ recorded = FALSE
  /\ request = [r \in Requests |-> Idle]
  /\ cleaner = [i \in Instances |-> "sleeping"]

At(r) == request[r].at
Is(r, pc) == request[r].pc = pc
Live(i) == live[i] # None
Full(i) == transient[i] + (IF Live(i) THEN 1 ELSE 0) >= MaxSessions
Found == IF stored = None THEN FALSE ELSE ~Expired(stored)

\* The write lock of the map waits for a refresh that holds the read lock.
Unlocked(i) == \A r \in Requests : ~(At(r) = i /\ request[r].locks)

Becomes(r, state) == request' = [request EXCEPT ![r] = state]
Goes(r, pc) == Becomes(r, [request[r] EXCEPT !.pc = pc])
GoesWith(r, pc, record) ==
  Becomes(r, [request[r] EXCEPT !.pc = pc, !.record = record])
Ends(r) == Becomes(r, Idle)
Serves(r) == Becomes(r, [Idle EXCEPT !.at = At(r), !.pc = "served"])

Begin(r, i, pc) ==
  /\ Is(r, "idle")
  /\ Becomes(r, [Idle EXCEPT !.at = i, !.pc = pc])
  /\ UNCHANGED <<live, stored, handedOut, rest>>
-----------------------------------------------------------------------------
\* get: a request for the id.
Ask(r, i) == handedOut /\ Begin(r, i, "get")

\* Mutated: the read lock is given up before the save.
RefreshUnlocked(r) ==
  /\ Is(r, "get") /\ Live(At(r))
  /\ live' = [live EXCEPT ![At(r)] = Touched(@)]
  /\ GoesWith(r, "saving", live'[At(r)])
  /\ UNCHANGED <<stored, handedOut, rest>>

\* The fast path: touch, and save with the read lock held.
Refresh(r) ==
  /\ Is(r, "get") /\ Live(At(r))
  /\ live' = [live EXCEPT ![At(r)] = Touched(@)]
  /\ Becomes(r, [request[r] EXCEPT !.pc = "saving", !.locks = TRUE,
                                   !.record = live'[At(r)]])
  /\ UNCHANGED <<stored, handedOut, rest>>

Miss(r) ==
  /\ Is(r, "get") /\ ~Live(At(r))
  /\ Goes(r, "loading")
  /\ UNCHANGED <<live, stored, handedOut, rest>>

\* The save after a refresh, a restore or a successful initialize.  Only the
\* last hands out the id, and does so whether or not the record was saved.
Save(r) ==
  /\ request[r].pc \in {"saving", "refreshing", "saving init"}
  /\ \E done \in BOOLEAN :
       /\ stored' = IF done /\ request[r].own THEN request[r].record ELSE stored
       /\ recorded' = (recorded \/ (done /\ Is(r, "saving init")))
  /\ handedOut' = (handedOut \/ Is(r, "saving init"))
  /\ Serves(r)
  /\ UNCHANGED <<auto, live, transient, cleaner, created>>

\* Nothing was found, or there is no room for it.
Unknown(r) ==
  IF auto THEN GoesWith(r, "creating", None) ELSE Ends(r)

Load(r) ==
  /\ Is(r, "loading")
  /\ (Found /\ GoesWith(r, "restoring", stored)) \/ Unknown(r)
  /\ UNCHANGED <<live, stored, handedOut, rest>>

\* auto_reinitialize: the store gives a colliding record a new id, and the
\* session made of it has that id; a record it fails to create keeps its own.
Synthetic == Fresh("auto-recovered")

Recreate(r) ==
  /\ Is(r, "creating")
  /\ \E done \in BOOLEAN :
       /\ stored' = IF done /\ stored = None THEN Synthetic ELSE stored
       /\ Becomes(r, [request[r] EXCEPT !.pc = "rebuilding",
                                        !.record = Synthetic,
                                        !.own = done => stored = None])
  /\ UNCHANGED <<live, handedOut, rest>>

\* restore_from_record, under the write lock: the limit, then a session that is
\* already there, then the new one.  It is recorded as just used.
Restoring(r) ==
  request[r].pc \in {"restoring", "rebuilding"} /\ Unlocked(At(r))

\* Mutated: the limit holds for initialize alone.
RestoreAnyway(r) ==
  /\ Restoring(r) /\ ~Live(At(r)) /\ request[r].own
  /\ live' = [live EXCEPT ![At(r)] = Touched(request[r].record)]
  /\ GoesWith(r, "refreshing", live'[At(r)])
  /\ UNCHANGED <<stored, handedOut, rest>>

Restore(r) ==
  /\ Restoring(r) /\ ~Full(At(r)) /\ ~Live(At(r)) /\ request[r].own
  /\ live' = [live EXCEPT ![At(r)] = Touched(request[r].record)]
  /\ GoesWith(r, "refreshing", live'[At(r)])
  /\ UNCHANGED <<stored, handedOut, rest>>

RestoreElsewhere(r) ==
  /\ Restoring(r) /\ ~Full(At(r)) /\ ~request[r].own
  /\ transient' = [transient EXCEPT ![At(r)] = @ + 1]
  /\ Goes(r, "refreshing")
  /\ UNCHANGED <<auto, live, stored, cleaner, created, handedOut, recorded>>

RestoreFinds(r) ==
  /\ Restoring(r) /\ ~Full(At(r)) /\ Live(At(r)) /\ request[r].own
  /\ live' = [live EXCEPT ![At(r)] = Touched(@)]
  /\ Serves(r)
  /\ UNCHANGED <<stored, handedOut, rest>>

RestoreRefused(r) ==
  /\ Restoring(r) /\ Full(At(r))
  /\ IF Is(r, "rebuilding") THEN Ends(r) ELSE Unknown(r)
  /\ UNCHANGED <<live, stored, handedOut, rest>>

\* The handler of the request has its answer.
Answer(r) ==
  /\ Is(r, "served") /\ Ends(r)
  /\ UNCHANGED <<live, stored, handedOut, rest>>
-----------------------------------------------------------------------------
\* initialize: the session is created, recorded, and only then asked.
Initialize(r, i) == ~created /\ Begin(r, i, "admitting")

Admit(r) ==
  /\ Is(r, "admitting") /\ ~created /\ Unlocked(At(r)) /\ ~Full(At(r))
  /\ created' = TRUE
  /\ live' = [live EXCEPT ![At(r)] = Fresh("nobody")]
  /\ GoesWith(r, "persisting", Fresh("nobody"))
  /\ UNCHANGED <<auto, transient, stored, cleaner, handedOut, recorded>>

NotAdmitted(r) ==
  /\ Is(r, "admitting") /\ (created \/ Full(At(r))) /\ Ends(r)
  /\ UNCHANGED <<live, stored, handedOut, rest>>

Persist(r) ==
  /\ Is(r, "persisting")
  /\ stored' \in {stored, request[r].record}
  /\ Goes(r, "initializing")
  /\ UNCHANGED <<live, handedOut, rest>>

Knowing(session) == [session EXCEPT !.knows = "client"]

\* Mutated: the record is made before the client's metadata is stored.
SucceedEarly(r) ==
  /\ Is(r, "initializing")
  /\ live' = [live EXCEPT ![At(r)] = IF Live(At(r)) THEN Knowing(@) ELSE None]
  /\ Goes(r, "saving init")
  /\ UNCHANGED <<stored, handedOut, rest>>

\* The client's metadata goes into the session, then into the record.
Succeed(r) ==
  /\ Is(r, "initializing")
  /\ live' = [live EXCEPT ![At(r)] = IF Live(At(r)) THEN Knowing(@) ELSE None]
  /\ GoesWith(r, "saving init", Knowing(request[r].record))
  /\ UNCHANGED <<stored, handedOut, rest>>

\* A failed initialize, and terminate_session of a SessionHandle: remove.
FailInit(r) ==
  /\ Is(r, "initializing") /\ Goes(r, "failing")
  /\ UNCHANGED <<live, stored, handedOut, rest>>

Terminate(r, i) == handedOut /\ Begin(r, i, "failing")

Remove(r) ==
  /\ Is(r, "failing") /\ Unlocked(At(r))
  /\ live' = [live EXCEPT ![At(r)] = None]
  /\ IF Live(At(r)) THEN GoesWith(r, "deleting", None) ELSE Ends(r)
  /\ UNCHANGED <<stored, handedOut, rest>>

\* DELETE: remove_for, and remove_stored for a session that is not live here.
Delete(r, i) == handedOut /\ Begin(r, i, "deleting live")

DeleteLive(r) ==
  /\ Is(r, "deleting live") /\ Unlocked(At(r))
  /\ live' = [live EXCEPT ![At(r)] = None]
  /\ Goes(r, IF Live(At(r)) THEN "deleting" ELSE "loading to delete")
  /\ UNCHANGED <<stored, handedOut, rest>>

LoadToDelete(r) ==
  /\ Is(r, "loading to delete")
  /\ (Found /\ Goes(r, "dropping")) \/ Ends(r)
  /\ UNCHANGED <<live, stored, handedOut, rest>>

DropLive(r) ==
  /\ Is(r, "dropping") /\ Unlocked(At(r))
  /\ live' = [live EXCEPT ![At(r)] = None]
  /\ Goes(r, "deleting")
  /\ UNCHANGED <<stored, handedOut, rest>>

DeleteRecord(r) ==
  /\ Is(r, "deleting") /\ Ends(r)
  /\ stored' \in {stored, None}
  /\ UNCHANGED <<live, handedOut, rest>>
-----------------------------------------------------------------------------
\* optional_sessions: a request without an id gets a session of its own, which
\* stays until it idles out.
AdmitTransient(i) ==
  /\ Unlocked(i) /\ ~Full(i)
  /\ transient' = [transient EXCEPT ![i] = @ + 1]
  /\ UNCHANGED <<auto, live, stored, request, cleaner, created, handedOut,
                 recorded>>

IdledOut(i) == IF Live(i) THEN Expired(live[i]) ELSE FALSE

\* Some of the other sessions in the map have idled out too.
SweepTransient(i) ==
  \E n \in 0..transient[i] : transient' = [transient EXCEPT ![i] = n]

\* Mutated: the sweep leaves the session it finds expired.
SweepOthers(i) ==
  /\ cleaner[i] = "sleeping" /\ Unlocked(i) /\ SweepTransient(i)
  /\ UNCHANGED <<auto, live, stored, request, cleaner, created, handedOut,
                 recorded>>

\* cleanup_expired: out of the map under the write lock, then out of the store.
Sweep(i) ==
  /\ cleaner[i] = "sleeping" /\ Unlocked(i) /\ SweepTransient(i)
  /\ IF IdledOut(i)
     THEN /\ live' = [live EXCEPT ![i] = None]
          /\ cleaner' = [cleaner EXCEPT ![i] = "deleting"]
     ELSE UNCHANGED <<live, cleaner>>
  /\ UNCHANGED <<auto, stored, request, created, handedOut, recorded>>

DeleteExpired(i) ==
  /\ cleaner[i] = "deleting"
  /\ stored' \in {stored, None}
  /\ cleaner' = [cleaner EXCEPT ![i] = "sleeping"]
  /\ UNCHANGED <<auto, live, transient, request, created, handedOut, recorded>>

\* A handler's future is dropped at an await.
Abandon(r) ==
  /\ ~Is(r, "idle") /\ Ends(r)
  /\ UNCHANGED <<live, stored, handedOut, rest>>

Restart(i) ==
  /\ live' = [live EXCEPT ![i] = None]
  /\ transient' = [transient EXCEPT ![i] = 0]
  /\ cleaner' = [cleaner EXCEPT ![i] = "sleeping"]
  /\ request' = [r \in Requests |-> IF At(r) = i THEN Idle ELSE request[r]]
  /\ UNCHANGED <<auto, stored, created, handedOut, recorded>>

\* Time passes for the sessions, the record and what a request has read of them.
Aged(record) == IF record = None THEN None ELSE Older(record)

Tick ==
  /\ live' = [i \in Instances |-> Aged(live[i])]
  /\ stored' = Aged(stored)
  /\ request' = [r \in Requests |-> [request[r] EXCEPT !.record = Aged(@)]]
  /\ UNCHANGED <<handedOut, rest>>

RequestStep(r) ==
  \/ Refresh(r) \/ Miss(r) \/ Save(r) \/ Load(r) \/ Recreate(r)
  \/ Restore(r) \/ RestoreElsewhere(r) \/ RestoreFinds(r)
  \/ RestoreRefused(r) \/ Answer(r)
  \/ Admit(r) \/ NotAdmitted(r) \/ Persist(r) \/ Succeed(r) \/ FailInit(r)
  \/ Remove(r) \/ DeleteLive(r) \/ LoadToDelete(r) \/ DropLive(r)
  \/ DeleteRecord(r)

Next ==
  \/ \E r \in Requests, i \in Instances :
       Ask(r, i) \/ Initialize(r, i) \/ Terminate(r, i) \/ Delete(r, i)
  \/ \E r \in Requests : RequestStep(r) \/ Abandon(r)
  \/ \E i \in Instances :
       AdmitTransient(i) \/ Sweep(i) \/ DeleteExpired(i) \/ Restart(i)
  \/ Tick

Spec == Init /\ [][Next]_vars

\* The cleanup task wakes up again and again, requests come to an end, tokio's
\* RwLock is fair and time goes on.
Fairness ==
  /\ \A i \in Instances :
       SF_vars(Sweep(i) /\ IdledOut(i)) /\ WF_vars(DeleteExpired(i))
  /\ \A r \in Requests : WF_vars(RequestStep(r))
  /\ WF_vars(Tick)

FairSpec == Spec /\ Fairness
-----------------------------------------------------------------------------
\* Every live map, record and request has its type.
TypeOK ==
  /\ auto \in BOOLEAN /\ created \in BOOLEAN
  /\ handedOut \in BOOLEAN /\ recorded \in BOOLEAN
  /\ live \in [Instances -> Records \cup {None}]
  /\ transient \in [Instances -> 0..MaxSessions]
  /\ stored \in Records \cup {None}
  /\ request \in [Requests -> [at : Instances \cup {None}, pc : Steps,
                               record : Records \cup {None}, own : BOOLEAN,
                               locks : BOOLEAN]]
  /\ cleaner \in [Instances -> {"sleeping", "deleting"}]

\* A session counts towards max_sessions however it came to be live: created,
\* restored, made anew or transient.
WithinTheLimit ==
  \A i \in Instances : Live(i) => transient[i] < MaxSessions

\* A request that refreshes the record of a live session does so before anyone
\* takes that session out of the map: no delete is undone by it (get).
RefreshedIsLive ==
  \A r \in Requests : Is(r, "saving") => Live(At(r))

\* Once the save that precedes the handing out of the id has reached the store,
\* the record describes that client, and so does every session restored from
\* it, on whichever instance and whatever the store fails to do later.
ClientIsKnown ==
  recorded /\ ~auto =>
    /\ stored # None => stored.knows = "client"
    /\ \A i \in Instances : Live(i) => live[i].knows = "client"

\* A session no request comes for any more does not hold its place in the map:
\* not one whose initialize was given up, nor one restored after a DELETE.
IdleIsReclaimed ==
  \A i \in Instances : []<>(IF Live(i) THEN live[i].age = 0 ELSE TRUE)
=============================================================================
