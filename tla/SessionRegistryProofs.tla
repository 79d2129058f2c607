----------------------- MODULE SessionRegistryProofs ------------------------
(***************************************************************************)
(* The safety of the session registry for any number of instances and      *)
(* requests, any limit, and every interleaving of requests, sweeps, drops  *)
(* and restarts.  The inductive invariant has two halves: Sound is about   *)
(* the maps and what each request works on, Acquainted about whom the      *)
(* sessions know, from before the id is made until after it is handed out. *)
(***************************************************************************)
EXTENDS SessionRegistry, TLAPS

\* A request at a step where it works on a session or a record has one, and
\* one that saves a live session holds the read lock.
Carrying == {"saving", "restoring", "rebuilding", "refreshing", "persisting",
             "initializing", "saving init"}

RequestState == [at : Instances \cup {None}, pc : Steps,
                 record : Records \cup {None}, own : BOOLEAN, locks : BOOLEAN]

Good(q) ==
  /\ q.pc # "idle" => q.at \in Instances
  /\ q.pc \in Carrying => q.record \in Records
  /\ q.pc = "saving" => q.locks

Placed == \A r \in Requests : Good(request[r])

Sound == TypeOK /\ Placed /\ WithinTheLimit /\ RefreshedIsLive

\* The operations on records keep their type and, but for Knowing, whom the
\* session knows.
LEMMA RecordOperations ==
  /\ \A c \in {"nobody", "client", "auto-recovered"} :
       Fresh(c) \in Records /\ Fresh(c).knows = c
  /\ \A s \in Records :
       /\ Touched(s) \in Records /\ Touched(s).knows = s.knows
       /\ Older(s) \in Records /\ Older(s).knows = s.knows
       /\ Knowing(s) \in Records /\ Knowing(s).knows = "client"
  BY DEF Records, Fresh, Touched, Older, Knowing

\* Growing older neither loses a record nor changes whom it knows.
LEMMA AgedRecord ==
  ASSUME NEW s \in Records \cup {None}
  PROVE  /\ Aged(s) \in Records \cup {None}
         /\ Aged(s) = None <=> s = None
         /\ s \in Records => Aged(s) \in Records /\ Aged(s).knows = s.knows
  BY RecordOperations, NoneIsNoRecord DEF Aged

\* There is no session and no request at the start.
LEMMA InitSound == Init => Sound
<1> SUFFICES ASSUME Init PROVE Sound
  OBVIOUS
<1>1. Idle \in RequestState /\ Good(Idle) /\ Idle.pc = "idle"
  BY DEF Idle, RequestState, Good, Steps, Carrying
<1>2. request \in [Requests -> RequestState]
      /\ \A r \in Requests : request[r] = Idle
  BY <1>1 DEF Init
<1>3. transient \in [Instances -> 0..MaxSessions]
  BY SessionAssumption DEF Init
<1>4. live \in [Instances -> Records \cup {None}]
      /\ \A i \in Instances : ~Live(i)
  BY DEF Init, Live
<1>5. TypeOK
  BY <1>2, <1>3, <1>4 DEF Init, TypeOK, RequestState
<1>6. Placed
  BY <1>1, <1>2 DEF Placed
<1>7. RefreshedIsLive
  BY <1>1, <1>2 DEF RefreshedIsLive, Is
<1>8. WithinTheLimit
  BY <1>4 DEF WithinTheLimit
<1> QED
  BY <1>5, <1>6, <1>7, <1>8 DEF Sound

\* Where a request is, and what it works on.
LEMMA Somewhere ==
  ASSUME Sound, NEW r \in Requests
  PROVE  /\ request[r] \in RequestState
         /\ Good(request[r])
         /\ ~Is(r, "idle") => At(r) \in Instances
         /\ request[r].pc \in Carrying => request[r].record \in Records
         /\ At(r) \in Instances => live[At(r)] \in Records \cup {None}
  BY DEF Sound, TypeOK, Placed, Good, Is, At, RequestState

\* The states a request can come to.
Lands(r) ==
  \E q \in RequestState :
    /\ Good(q) /\ Becomes(r, q)
    /\ q.pc = "saving" => Refresh(r) /\ q.at = At(r)

\* A request that goes on with the record it has.
LEMMA GoesLands ==
  ASSUME Sound, NEW r \in Requests, ~Is(r, "idle"),
         NEW pc \in Steps \ {"idle", "saving"},
         \/ GoesWith(r, pc, request[r].record)
         \/ Goes(r, pc),
         pc \in Carrying => request[r].record \in Records
  PROVE  Lands(r)
<1> DEFINE q == [request[r] EXCEPT !.pc = pc]
<1>1. request[r] \in RequestState /\ At(r) \in Instances
  BY Somewhere
<1>2. q \in RequestState /\ Good(q)
  BY <1>1 DEF RequestState, Good, At
<1>3. Becomes(r, q) /\ q.pc = pc
  BY <1>1 DEF Goes, GoesWith, RequestState
<1> QED
  BY <1>2, <1>3 DEF Lands

\* A request that goes on with another record.
LEMMA GoesWithLands ==
  ASSUME Sound, NEW r \in Requests, ~Is(r, "idle"),
         NEW pc \in Steps \ {"idle", "saving"},
         NEW s \in Records \cup {None}, GoesWith(r, pc, s),
         pc \in Carrying => s \in Records
  PROVE  Lands(r)
<1> DEFINE q == [request[r] EXCEPT !.pc = pc, !.record = s]
<1>1. request[r] \in RequestState /\ At(r) \in Instances
  BY Somewhere
<1>2. q \in RequestState /\ Good(q)
  BY <1>1 DEF RequestState, Good, At
<1>3. Becomes(r, q) /\ q.pc = pc
  BY <1>1 DEF GoesWith, RequestState
<1> QED
  BY <1>2, <1>3 DEF Lands

\* A request that has its answer, or has been served.
LEMMA EndsLands ==
  ASSUME Sound, NEW r \in Requests,
         Ends(r) \/ (Serves(r) /\ ~Is(r, "idle"))
  PROVE  Lands(r)
<1>1. CASE Ends(r)
  <2>1. Idle \in RequestState /\ Good(Idle) /\ Idle.pc = "idle"
    BY DEF Idle, RequestState, Good, Steps, Carrying
  <2> QED
    BY <1>1, <2>1 DEF Lands, Ends
<1>2. CASE Serves(r) /\ ~Is(r, "idle")
  <2> DEFINE q == [Idle EXCEPT !.at = At(r), !.pc = "served"]
  <2>1. At(r) \in Instances
    BY <1>2, Somewhere
  <2>2. q \in RequestState /\ Good(q) /\ q.pc = "served"
    BY <2>1 DEF Idle, RequestState, Good, Steps, Carrying
  <2> QED
    BY <1>2, <2>2 DEF Lands, Serves
<1> QED
  BY <1>1, <1>2

\* Wherever a request's step takes it, it has what it needs there.
LEMMA RequestLands ==
  ASSUME Sound, NEW r \in Requests, RequestStep(r)
  PROVE  Lands(r)
<1>0. ~Is(r, "idle")
  BY DEF RequestStep, Refresh, Miss, Save, Load, Recreate, Restore,
         RestoreElsewhere, RestoreFinds, RestoreRefused, Restoring, Answer,
         Admit, NotAdmitted, Persist, Succeed, FailInit, Remove, DeleteLive,
         LoadToDelete, DropLive, DeleteRecord, Is
<1>1. /\ request[r] \in RequestState /\ Good(request[r]) /\ At(r) \in Instances
      /\ live[At(r)] \in Records \cup {None} /\ stored \in Records \cup {None}
      /\ request[r].pc \in Carrying => request[r].record \in Records
  BY <1>0, Somewhere DEF Sound, TypeOK
<1>2. CASE Refresh(r)
  <2> DEFINE q == [request[r] EXCEPT !.pc = "saving", !.locks = TRUE,
                                     !.record = live'[At(r)]]
  <2>1. live'[At(r)] \in Records
    BY <1>1, <1>2, RecordOperations DEF Refresh, Live, Sound, TypeOK
  <2>2. q \in RequestState /\ q.at = At(r) /\ q.locks /\ q.record \in Records
    BY <1>1, <2>1 DEF RequestState, Steps, At
  <2>3. Good(q)
    BY <1>1, <2>2 DEF Good
  <2> QED
    BY <1>2, <2>2, <2>3 DEF Lands, Refresh
<1>3. CASE Miss(r)
  BY <1>0, <1>3, GoesLands DEF Miss, Steps, Carrying
<1>4. CASE Save(r) \/ RestoreFinds(r)
  BY <1>0, <1>4, EndsLands DEF Save, RestoreFinds
<1>5. CASE Answer(r) \/ NotAdmitted(r) \/ DeleteRecord(r)
  BY <1>5, EndsLands DEF Answer, NotAdmitted, DeleteRecord
<1>6. ASSUME Unknown(r)
      PROVE Lands(r)
  BY <1>0, <1>6, EndsLands, GoesWithLands DEF Unknown, Steps, Carrying
<1>7. CASE Load(r)
  <2>1. Found => stored \in Records
    BY <1>1 DEF Found
  <2> QED
    BY <1>0, <1>1, <1>6, <1>7, <2>1, GoesWithLands
       DEF Load, Steps, Carrying
<1>8. CASE Recreate(r)
  <2>0. PICK done \in BOOLEAN :
          Becomes(r, [request[r] EXCEPT !.pc = "rebuilding",
                        !.record = Synthetic, !.own = done => stored = None])
    BY <1>8 DEF Recreate
  <2> DEFINE q == [request[r] EXCEPT !.pc = "rebuilding",
                     !.record = Synthetic, !.own = done => stored = None]
  <2>1. Synthetic \in Records
    BY RecordOperations DEF Synthetic
  <2>2. q \in RequestState /\ q.at = At(r) /\ q.record \in Records
        /\ q.pc = "rebuilding"
    BY <1>1, <2>1 DEF RequestState, Steps, At
  <2>3. Good(q)
    BY <1>1, <2>2 DEF Good
  <2> QED
    BY <2>0, <2>2, <2>3 DEF Lands
<1>9. CASE Restore(r)
  <2>1. request[r].record \in Records
    BY <1>1, <1>9 DEF Restore, Restoring, Carrying
  <2>2. live'[At(r)] \in Records
    BY <1>1, <1>9, <2>1, RecordOperations DEF Restore, Sound, TypeOK
  <2> QED
    BY <1>0, <1>9, <2>2, GoesWithLands DEF Restore, Steps
<1>10. CASE RestoreElsewhere(r)
  <2>1. request[r].record \in Records
    BY <1>1, <1>10 DEF RestoreElsewhere, Restoring, Carrying
  <2> QED
    BY <1>0, <1>10, <2>1, GoesLands DEF RestoreElsewhere, Steps
<1>11. CASE RestoreRefused(r)
  BY <1>6, <1>11, EndsLands DEF RestoreRefused
<1>12. CASE Admit(r)
  BY <1>0, <1>12, GoesWithLands, RecordOperations DEF Admit, Steps
<1>13. CASE Persist(r)
  <2>1. request[r].record \in Records
    BY <1>1, <1>13 DEF Persist, Is, Carrying
  <2> QED
    BY <1>0, <1>13, <2>1, GoesLands DEF Persist, Steps
<1>14. CASE Succeed(r)
  <2>1. Knowing(request[r].record) \in Records
    BY <1>1, <1>14, RecordOperations DEF Succeed, Is, Carrying
  <2> QED
    BY <1>0, <1>14, <2>1, GoesWithLands DEF Succeed, Steps
<1>15. CASE FailInit(r) \/ DropLive(r)
  BY <1>0, <1>15, GoesLands DEF FailInit, DropLive, Steps, Carrying
<1>16. CASE Remove(r)
  BY <1>0, <1>16, GoesWithLands, EndsLands DEF Remove, Steps, Carrying
<1>17. CASE DeleteLive(r)
  BY <1>0, <1>17, GoesLands DEF DeleteLive, Steps, Carrying
<1>18. CASE LoadToDelete(r)
  BY <1>0, <1>18, GoesLands, EndsLands DEF LoadToDelete, Steps, Carrying
<1> QED
  BY <1>2, <1>3, <1>4, <1>5, <1>7, <1>8, <1>9, <1>10, <1>11, <1>12, <1>13,
     <1>14, <1>15, <1>16, <1>17, <1>18 DEF RequestStep

\* What a step may do to the maps: keep them within the limit, and take out no
\* session that a request is saving.
Holds ==
  /\ live' \in [Instances -> Records \cup {None}]
  /\ transient' \in [Instances -> 0..MaxSessions]
  /\ WithinTheLimit'
  /\ \A i \in Instances : Live(i) /\ live'[i] = None => Unlocked(i)

\* A step that leaves the maps alone.
LEMMA MapUnchanged ==
  ASSUME Sound, UNCHANGED <<live, transient>>
  PROVE  Holds
  BY DEF Sound, TypeOK, WithinTheLimit, Holds, Live

\* A session is taken out under the write lock.
LEMMA MapLoses ==
  ASSUME Sound, NEW i \in Instances, Unlocked(i),
         live' = [live EXCEPT ![i] = None], transient' = transient
  PROVE  Holds
  BY DEF Sound, TypeOK, WithinTheLimit, Holds, Live

\* A session that is there changes, or one comes in where there is room.
LEMMA MapGains ==
  ASSUME Sound, NEW i \in Instances, NEW s \in Records,
         Live(i) \/ ~Full(i),
         live' = [live EXCEPT ![i] = s], transient' = transient
  PROVE  Holds
<1>1. transient[i] \in Nat /\ transient[i] < MaxSessions
  BY SessionAssumption DEF Sound, TypeOK, WithinTheLimit, Full
<1> QED
  BY <1>1, NoneIsNoRecord DEF Sound, TypeOK, WithinTheLimit, Holds, Live

\* A session under another id comes in where there is room.
LEMMA MapGainsTransient ==
  ASSUME Sound, NEW i \in Instances, ~Full(i),
         transient' = [transient EXCEPT ![i] = @ + 1], live' = live
  PROVE  Holds
<1> DEFINE n == transient[i]
<1>1. transient \in [Instances -> 0..MaxSessions] /\ MaxSessions \in Nat
  BY SessionAssumption DEF Sound, TypeOK
<1>2. n \in Nat /\ n + 1 \in 0..MaxSessions /\ (Live(i) => n + 1 < MaxSessions)
  <2>1. n \in 0..MaxSessions
    BY <1>1
  <2>2. CASE Live(i)
    BY <1>1, <2>1, <2>2 DEF Full
  <2>3. CASE ~Live(i)
    BY <1>1, <2>1, <2>3 DEF Full
  <2> QED
    BY <1>1, <2>1, <2>2, <2>3
<1>3. transient' = [transient EXCEPT ![i] = n + 1]
  OBVIOUS
<1> HIDE DEF n
<1>4. transient' \in [Instances -> 0..MaxSessions]
  BY <1>1, <1>2, <1>3
<1>5. ASSUME NEW j \in Instances, live'[j] # None
      PROVE transient'[j] < MaxSessions
  <2>1. CASE j = i
    BY <1>1, <1>2, <1>3, <1>5, <2>1 DEF Live
  <2>2. CASE j # i
    BY <1>1, <1>3, <1>5, <2>2 DEF Sound, WithinTheLimit, Live
  <2> QED
    BY <2>1, <2>2
<1>6. \A j \in Instances : Live(j) => live'[j] # None
  BY DEF Live
<1>7. live' \in [Instances -> Records \cup {None}]
  BY DEF Sound, TypeOK
<1> QED
  BY <1>4, <1>5, <1>6, <1>7 DEF WithinTheLimit, Holds, Live

\* No step of a request breaks the maps.
LEMMA RequestHolds ==
  ASSUME Sound, NEW r \in Requests, RequestStep(r)
  PROVE  Holds
<1> DEFINE i == At(r)
<1>0. ~Is(r, "idle")
  BY DEF RequestStep, Refresh, Miss, Save, Load, Recreate, Restore,
         RestoreElsewhere, RestoreFinds, RestoreRefused, Restoring, Answer,
         Admit, NotAdmitted, Persist, Succeed, FailInit, Remove, DeleteLive,
         LoadToDelete, DropLive, DeleteRecord, Is
<1>1. /\ i \in Instances /\ live[i] \in Records \cup {None}
      /\ request[r].pc \in Carrying => request[r].record \in Records
  BY <1>0, Somewhere
<1> HIDE DEF i
<1>2. CASE \/ Miss(r) \/ Save(r) \/ Load(r) \/ Recreate(r) \/ RestoreRefused(r)
           \/ Answer(r) \/ NotAdmitted(r) \/ Persist(r) \/ FailInit(r)
           \/ LoadToDelete(r) \/ DeleteRecord(r)
  BY <1>2, MapUnchanged
     DEF Miss, Save, Load, Recreate, RestoreRefused, Answer, NotAdmitted,
         Persist, FailInit, LoadToDelete, DeleteRecord, rest
<1>3. CASE Refresh(r) \/ RestoreFinds(r)
  <2>1. Touched(live[i]) \in Records /\ Live(i)
    BY <1>1, <1>3, RecordOperations DEF Refresh, RestoreFinds, Live, i
  <2> QED
    BY <1>1, <1>3, <2>1, MapGains DEF Refresh, RestoreFinds, rest, i
<1>4. CASE Restore(r)
  <2>1. Touched(request[r].record) \in Records
    BY <1>1, <1>4, RecordOperations DEF Restore, Restoring, Carrying
  <2> QED
    BY <1>1, <1>4, <2>1, MapGains DEF Restore, rest, i
<1>5. CASE RestoreElsewhere(r)
  BY <1>1, <1>5, MapGainsTransient DEF RestoreElsewhere, i
<1>6. CASE Admit(r)
  BY <1>1, <1>6, MapGains, RecordOperations DEF Admit, i
<1>7. CASE Succeed(r)
  <2>1. CASE Live(i)
    <3>1. Knowing(live[i]) \in Records
      BY <1>1, <2>1, RecordOperations DEF Live
    <3>2. live' = [live EXCEPT ![i] = Knowing(live[i])]
      BY <1>7, <2>1 DEF Succeed, i
    <3> QED
      BY <1>1, <1>7, <2>1, <3>1, <3>2, MapGains DEF Succeed, rest
  <2>2. CASE ~Live(i)
    <3>1. live' = live
      BY <1>1, <1>7, <2>2 DEF Succeed, i, Live, Sound, TypeOK
    <3> QED
      BY <1>7, <3>1, MapUnchanged DEF Succeed, rest
  <2> QED
    BY <2>1, <2>2
<1>8. CASE Remove(r) \/ DeleteLive(r) \/ DropLive(r)
  BY <1>1, <1>8, MapLoses DEF Remove, DeleteLive, DropLive, rest, i
<1> QED
  BY <1>2, <1>3, <1>4, <1>5, <1>6, <1>7, <1>8 DEF RequestStep

\* The steps of requests preserve the first half of the invariant.
LEMMA RequestSound ==
  ASSUME Sound, NEW r \in Requests, RequestStep(r)
  PROVE  Sound'
<1>1. PICK q \in RequestState :
        /\ Good(q) /\ Becomes(r, q)
        /\ q.pc = "saving" => Refresh(r) /\ q.at = At(r)
  BY RequestLands DEF Lands
<1>2. Holds
  BY RequestHolds
<1>3. request' \in [Requests -> RequestState]
  BY <1>1 DEF Becomes, Sound, TypeOK, RequestState
<1>4. /\ auto' \in BOOLEAN /\ created' \in BOOLEAN
      /\ handedOut' \in BOOLEAN /\ recorded' \in BOOLEAN
      /\ stored' \in Records \cup {None}
      /\ cleaner' \in [Instances -> {"sleeping", "deleting"}]
  <2>1. stored' \in Records \cup {None}
    <3>1. CASE Save(r) \/ Persist(r)
      <4>1. ~Is(r, "idle") /\ request[r].pc \in Carrying
        BY <3>1 DEF Save, Persist, Is, Carrying
      <4> QED
        BY <3>1, <4>1, Somewhere DEF Save, Persist, Sound, TypeOK
    <3>2. CASE Recreate(r)
      BY <3>2, RecordOperations DEF Recreate, Synthetic, Sound, TypeOK
    <3>3. CASE ~Save(r) /\ ~Persist(r) /\ ~Recreate(r)
      BY <3>3
         DEF RequestStep, Refresh, Miss, Load, Restore, RestoreElsewhere,
             RestoreFinds, RestoreRefused, Answer, Admit, NotAdmitted, Succeed,
             FailInit, Remove, DeleteLive, LoadToDelete, DropLive,
             DeleteRecord, Sound, TypeOK
    <3> QED
      BY <3>1, <3>2, <3>3
  <2>2. /\ auto' = auto /\ cleaner' = cleaner
        /\ created' \in {created, TRUE} /\ handedOut' \in BOOLEAN
        /\ recorded' \in BOOLEAN
    BY DEF RequestStep, Refresh, Miss, Save, Load, Recreate, Restore,
           RestoreElsewhere, RestoreFinds, RestoreRefused, Answer, Admit,
           NotAdmitted, Persist, Succeed, FailInit, Remove, DeleteLive,
           LoadToDelete, DropLive, DeleteRecord, rest, Sound, TypeOK
  <2> QED
    BY <2>1, <2>2 DEF Sound, TypeOK
<1>5. TypeOK'
  BY <1>2, <1>3, <1>4 DEF TypeOK, Holds, RequestState
<1>6. Placed'
  BY <1>1 DEF Becomes, Placed, Sound, TypeOK
<1>7. RefreshedIsLive'
  <2> SUFFICES ASSUME NEW o \in Requests, request'[o].pc = "saving"
               PROVE  live'[request'[o].at] # None
    BY DEF RefreshedIsLive, Is, Live, At
  <2>1. CASE o = r
    <3>1. request'[o] = q
      BY <1>1, <2>1 DEF Becomes, Sound, TypeOK
    <3>2. Refresh(r) /\ q.at = At(r)
      BY <1>1, <3>1
    <3>3. At(r) \in Instances /\ live[At(r)] \in Records
      BY <3>2, Somewhere DEF Refresh, Is, Live
    <3> QED
      BY <3>1, <3>2, <3>3, RecordOperations, NoneIsNoRecord
         DEF Refresh, Sound, TypeOK
  <2>2. CASE o # r
    <3>1. request'[o] = request[o]
      BY <1>1, <2>2 DEF Becomes, Sound, TypeOK
    <3>2. Is(o, "saving") /\ At(o) \in Instances /\ Live(At(o))
          /\ request[o].locks
      BY <3>1, Somewhere DEF Is, Sound, RefreshedIsLive, Good
    <3>3. ~Unlocked(At(o))
      BY <3>2 DEF Unlocked
    <3> QED
      BY <1>2, <3>1, <3>2, <3>3 DEF Holds, At
  <2> QED
    BY <2>1, <2>2
<1> QED
  BY <1>2, <1>5, <1>6, <1>7 DEF Sound, Holds

\* A request that begins holds nothing yet.
LEMMA BeginSound ==
  ASSUME Sound, NEW r \in Requests, NEW i \in Instances,
         NEW pc \in Steps \ (Carrying \cup {"idle"}), Begin(r, i, pc)
  PROVE  Sound'
<1> DEFINE q == [Idle EXCEPT !.at = i, !.pc = pc]
<1>1. q \in RequestState /\ Good(q) /\ q.pc = pc
  BY DEF Idle, RequestState, Good, Carrying
<1>2. Becomes(r, q)
  BY DEF Begin
<1> HIDE DEF q
<1>3. request' \in [Requests -> RequestState]
  BY <1>1, <1>2 DEF Becomes, Sound, TypeOK, RequestState
<1>4. TypeOK'
  BY <1>3 DEF Begin, rest, Sound, TypeOK, RequestState
<1>5. Placed'
  BY <1>1, <1>2 DEF Becomes, Placed, Sound, TypeOK
<1>6. WithinTheLimit'
  BY DEF Begin, rest, Sound, WithinTheLimit, Live
<1>7. RefreshedIsLive'
  BY <1>1, <1>2
     DEF Becomes, Begin, Carrying, Sound, TypeOK, RefreshedIsLive, Is, Live, At
<1> QED
  BY <1>4, <1>5, <1>6, <1>7 DEF Sound

\* Requests that come to an end or stay where they are.
LEMMA EndedSound ==
  ASSUME Sound, Holds,
         request' \in [Requests -> RequestState],
         \A r \in Requests : request'[r] = Idle \/ request'[r] = request[r],
         stored' \in Records \cup {None},
         cleaner' \in [Instances -> {"sleeping", "deleting"}],
         UNCHANGED <<auto, created, handedOut, recorded>>,
         \A r \in Requests : 
           Is(r, "saving") /\ request'[r] = request[r] => live'[At(r)] # None
  PROVE  Sound'
<1>1. Idle.pc = "idle" /\ Good(Idle)
  BY DEF Idle, Good, Carrying
<1>2. TypeOK'
  BY DEF Sound, TypeOK, Holds, RequestState
<1>3. Placed'
  BY <1>1 DEF Sound, Placed
<1>4. RefreshedIsLive'
  BY <1>1 DEF RefreshedIsLive, Is, Live, At
<1> QED
  BY <1>2, <1>3, <1>4 DEF Sound, Holds

\* Every other step preserves it: requests begin and are dropped, instances
\* sweep and restart, time passes.
LEMMA SurroundingsSound ==
  ASSUME Sound, [Next]_vars, \A r \in Requests : ~RequestStep(r)
  PROVE  Sound'
<1>0. /\ \A r \in Requests : Is(r, "saving") =>
           At(r) \in Instances /\ Live(At(r)) /\ ~Unlocked(At(r))
      /\ request \in [Requests -> RequestState] /\ Idle \in RequestState
  <2>1. Idle \in RequestState
    BY DEF Idle, RequestState, Steps
  <2>2. request \in [Requests -> RequestState]
    BY DEF Sound, TypeOK, RequestState
  <2>3. ASSUME NEW r \in Requests, Is(r, "saving")
        PROVE  At(r) \in Instances /\ Live(At(r)) /\ ~Unlocked(At(r))
    BY <2>3, Somewhere DEF Is, Sound, RefreshedIsLive, Good, Unlocked
  <2> QED
    BY <2>1, <2>2, <2>3
<1>1. ASSUME NEW r \in Requests, NEW i \in Instances,
             Ask(r, i) \/ Initialize(r, i) \/ Terminate(r, i) \/ Delete(r, i)
      PROVE Sound'
  BY <1>1, BeginSound
     DEF Ask, Initialize, Terminate, Delete, Steps, Carrying
<1>2. ASSUME NEW r \in Requests, Abandon(r)
      PROVE Sound'
  <2>1. Holds
    BY <1>2, MapUnchanged DEF Abandon, rest
  <2>2. \A o \in Requests : request'[o] = Idle \/ request'[o] = request[o]
    BY <1>0, <1>2 DEF Abandon, Ends, Becomes
  <2>3. request' \in [Requests -> RequestState]
    BY <1>0, <1>2 DEF Abandon, Ends, Becomes
  <2> QED
    BY <1>0, <1>2, <2>1, <2>2, <2>3, EndedSound
       DEF Abandon, rest, Sound, TypeOK, Live
<1>3. ASSUME NEW i \in Instances, AdmitTransient(i)
      PROVE Sound'
  <2>1. Holds
    BY <1>3, MapGainsTransient DEF AdmitTransient
  <2> QED
    BY <1>0, <1>3, <2>1, EndedSound DEF AdmitTransient, Sound, TypeOK, Live
<1>4. ASSUME NEW i \in Instances, Sweep(i)
      PROVE Sound'
  <2>1. /\ \/ live' = live
           \/ live' = [live EXCEPT ![i] = None]
        /\ cleaner' \in [Instances -> {"sleeping", "deleting"}]
        /\ Unlocked(i)
    BY <1>4 DEF Sweep, Sound, TypeOK
  <2>2. PICK n \in 0..transient[i] : transient' = [transient EXCEPT ![i] = n]
    BY <1>4 DEF Sweep, SweepTransient
  <2>3. Holds
    <3>1. transient \in [Instances -> 0..MaxSessions] /\ MaxSessions \in Nat
          /\ live \in [Instances -> Records \cup {None}]
      BY SessionAssumption DEF Sound, TypeOK
    <3>2. n \in 0..MaxSessions /\ n <= transient[i] /\ transient[i] \in Nat
      BY <2>2, <3>1
    <3>3. ASSUME NEW j \in Instances, live'[j] # None
          PROVE  transient'[j] < MaxSessions
      <4>1. live[j] # None
        BY <2>1, <3>1, <3>3
      <4>2. transient[j] < MaxSessions
        BY <4>1 DEF Sound, WithinTheLimit, Live
      <4>3. transient'[j] = IF j = i THEN n ELSE transient[j]
        BY <2>2, <3>1
      <4> QED
        BY <3>1, <3>2, <4>2, <4>3
    <3>4. transient' \in [Instances -> 0..MaxSessions]
      BY <2>2, <3>1, <3>2
    <3>5. live' \in [Instances -> Records \cup {None}]
      BY <2>1, <3>1
    <3>6. \A j \in Instances : Live(j) /\ live'[j] = None => Unlocked(j)
      BY <2>1, <3>1 DEF Live
    <3> QED
      BY <3>3, <3>4, <3>5, <3>6 DEF Holds, WithinTheLimit, Live
  <2>4. \A r \in Requests : Is(r, "saving") => live'[At(r)] # None
    BY <1>0, <2>3 DEF Holds
  <2> QED
    BY <1>0, <1>4, <2>1, <2>3, <2>4, EndedSound DEF Sweep, Sound, TypeOK
<1>5. ASSUME NEW i \in Instances, DeleteExpired(i)
      PROVE Sound'
  <2>1. Holds
    BY <1>5, MapUnchanged DEF DeleteExpired
  <2> QED
    BY <1>0, <1>5, <2>1, EndedSound DEF DeleteExpired, Sound, TypeOK, Live
<1>6. ASSUME NEW i \in Instances, Restart(i)
      PROVE Sound'
  <2>1. /\ live' \in [Instances -> Records \cup {None}]
        /\ transient' \in [Instances -> 0..MaxSessions]
        /\ cleaner' \in [Instances -> {"sleeping", "deleting"}]
    BY <1>6, SessionAssumption DEF Restart, Sound, TypeOK
  <2>2. request' \in [Requests -> RequestState]
        /\ \A r \in Requests : request'[r] = IF At(r) = i THEN Idle ELSE request[r]
    BY <1>0, <1>6 DEF Restart
  <2>3. Idle.pc = "idle" /\ Good(Idle)
    BY DEF Idle, Good, Carrying
  <2>4. TypeOK'
    BY <1>6, <2>1, <2>2 DEF Restart, Sound, TypeOK, RequestState
  <2>5. Placed'
    BY <2>2, <2>3 DEF Sound, Placed
  <2>6. WithinTheLimit'
    BY <1>6 DEF Restart, Sound, TypeOK, WithinTheLimit, Live
  <2>7. RefreshedIsLive'
    <3> SUFFICES ASSUME NEW r \in Requests, request'[r].pc = "saving"
                 PROVE  live'[request'[r].at] # None
      BY DEF RefreshedIsLive, Is, Live, At
    <3>1. request'[r] = request[r] /\ At(r) # i
      BY <2>2, <2>3
    <3>2. At(r) \in Instances /\ live[At(r)] # None
      BY <1>0, <3>1 DEF Is, Live
    <3> QED
      BY <1>6, <3>1, <3>2 DEF Restart, Sound, TypeOK, At
  <2> QED
    BY <2>4, <2>5, <2>6, <2>7 DEF Sound
<1>7. CASE Tick
  <2>1. \A i \in Instances : live'[i] \in Records \cup {None}
                             /\ (live'[i] = None <=> live[i] = None)
    BY <1>7, AgedRecord DEF Tick, Sound, TypeOK
  <2>2. stored' \in Records \cup {None}
    BY <1>7, AgedRecord DEF Tick, Sound, TypeOK
  <2>3. ASSUME NEW r \in Requests
        PROVE  /\ request'[r] \in RequestState /\ Good(request'[r])
               /\ request'[r].pc = request[r].pc
               /\ request'[r].at = request[r].at
    <3>1. request[r] \in RequestState /\ Good(request[r])
      BY Somewhere
    <3>2. request'[r] = [request[r] EXCEPT !.record = Aged(request[r].record)]
      BY <1>7 DEF Tick
    <3>3. /\ Aged(request[r].record) \in Records \cup {None}
          /\ request[r].record \in Records => Aged(request[r].record) \in Records
      BY <3>1, AgedRecord DEF RequestState
    <3> QED
      BY <3>1, <3>2, <3>3 DEF RequestState, Good
  <2>4. request' \in [Requests -> RequestState]
    BY <1>7, <2>3 DEF Tick
  <2>5. TypeOK'
    BY <1>7, <2>1, <2>2, <2>4 DEF Tick, rest, Sound, TypeOK, RequestState
  <2>6. Placed'
    BY <2>3 DEF Placed
  <2>7. WithinTheLimit'
    BY <1>7, <2>1 DEF Tick, rest, Sound, WithinTheLimit, Live
  <2>8. RefreshedIsLive'
    BY <1>0, <2>1, <2>3 DEF Sound, RefreshedIsLive, Is, Live, At
  <2> QED
    BY <2>5, <2>6, <2>7, <2>8 DEF Sound
<1>8. CASE UNCHANGED vars
  BY <1>8 DEF vars, Sound, TypeOK, Placed, WithinTheLimit, RefreshedIsLive, Is,
              Live, At
<1> QED
  BY <1>1, <1>2, <1>3, <1>4, <1>5, <1>6, <1>7, <1>8 DEF Next

-----------------------------------------------------------------------------
\* Whom the sessions know.  An initialize is alone with its session until it
\* hands out the id.  By then the session knows the client, and so does its
\* record if the store took it.
Asking == {"persisting", "initializing", "saving init"}
Serving == {"saving", "restoring", "refreshing"}
Waiting == {"idle", "admitting"}

KnownTo(session) == session # None => session.knows = "client"

NothingYet ==
  ~created => /\ ~handedOut /\ \A i \in Instances : ~Live(i)
              /\ \A r \in Requests : request[r].pc \in Waiting

\* Nobody but the request that created the session knows of it yet.
Unheard ==
  ~handedOut =>
    \A r \in Requests :
      request[r].pc \in Waiting \cup Asking \cup {"failing", "deleting"}

Alone ==
  \A r \in Requests : request[r].pc \in Asking =>
    /\ ~handedOut
    /\ \A o \in Requests \ {r} : request[o].pc \in Waiting
    /\ \A i \in Instances : Live(i) => i = At(r)

Introduced ==
  \A r \in Requests :
    /\ request[r].pc \in {"admitting"} \cup Asking => request[r].own
    /\ Is(r, "saving init") =>
         KnownTo(request[r].record) /\ KnownTo(live[At(r)])

Known ==
  recorded => handedOut /\ (~auto =>
    /\ KnownTo(stored)
    /\ \A i \in Instances : KnownTo(live[i])
    /\ \A r \in Requests :
         /\ request[r].pc \notin {"creating", "rebuilding"}
         /\ request[r].pc \in Serving => KnownTo(request[r].record))

Acquainted == NothingYet /\ Unheard /\ Alone /\ Introduced /\ Known

\* Nobody has been told anything at the start.
LEMMA InitAcquainted == Init => Acquainted
<1> SUFFICES ASSUME Init PROVE Acquainted
  OBVIOUS
<1>1. \A r \in Requests : request[r].pc = "idle"
  BY DEF Init, Idle
<1>2. ~created /\ ~handedOut /\ ~recorded /\ \A i \in Instances : ~Live(i)
  BY DEF Init, Live
<1> QED
  BY <1>1, <1>2
     DEF Acquainted, NothingYet, Unheard, Alone, Introduced, Known, Waiting,
         Asking, Serving, Is

\* What becomes of a request's own state; the others keep theirs.
LEMMA BecomesMoves ==
  ASSUME Sound, NEW r \in Requests, NEW q, Becomes(r, q)
  PROVE  request'[r] = q /\ \A o \in Requests : o = r \/ request'[o] = request[o]
  BY DEF Becomes, Sound, TypeOK

\* A request that goes on with another record.
LEMMA GoesWithMoves ==
  ASSUME Sound, NEW r \in Requests, NEW pc, NEW s, GoesWith(r, pc, s)
  PROVE  /\ request'[r].pc = pc /\ request'[r].record = s
         /\ request'[r].at = At(r) /\ request'[r].own = request[r].own
         /\ \A o \in Requests : o = r \/ request'[o] = request[o]
<1> DEFINE q == [request[r] EXCEPT !.pc = pc, !.record = s]
<1>1. request[r] \in RequestState
  BY Somewhere
<1>2. q.pc = pc /\ q.record = s /\ q.at = At(r) /\ q.own = request[r].own
  BY <1>1 DEF RequestState, At
<1>3. Becomes(r, q)
  BY DEF GoesWith
<1> HIDE DEF q
<1> QED
  BY <1>2, <1>3, BecomesMoves

\* A request that goes on with the record it has.
LEMMA GoesMoves ==
  ASSUME Sound, NEW r \in Requests, NEW pc, Goes(r, pc)
  PROVE  /\ request'[r].pc = pc /\ request'[r].record = request[r].record
         /\ request'[r].at = At(r) /\ request'[r].own = request[r].own
         /\ \A o \in Requests : o = r \/ request'[o] = request[o]
<1> DEFINE q == [request[r] EXCEPT !.pc = pc]
<1>1. request[r] \in RequestState
  BY Somewhere
<1>2. /\ q.pc = pc /\ q.record = request[r].record
      /\ q.at = At(r) /\ q.own = request[r].own
  BY <1>1 DEF RequestState, At
<1>3. Becomes(r, q)
  BY DEF Goes
<1> HIDE DEF q
<1> QED
  BY <1>2, <1>3, BecomesMoves

\* A request that is over, or has been served.
LEMMA EndsMoves ==
  ASSUME Sound, NEW r \in Requests, Ends(r) \/ Serves(r)
  PROVE  /\ request'[r].pc = IF Ends(r) THEN "idle" ELSE "served"
         /\ \A o \in Requests : o = r \/ request'[o] = request[o]
<1>1. CASE Ends(r)
  <2>1. Idle.pc = "idle"
    BY DEF Idle
  <2> QED
    BY <1>1, <2>1, BecomesMoves DEF Ends
<1>2. CASE ~Ends(r)
  <2> DEFINE q == [Idle EXCEPT !.at = At(r), !.pc = "served"]
  <2>1. q.pc = "served" /\ Becomes(r, q)
    BY <1>2 DEF Idle, Serves
  <2> HIDE DEF q
  <2> QED
    BY <1>2, <2>1, BecomesMoves
<1> QED
  BY <1>1, <1>2

\* The steps that a request at one of these places may take.
LEMMA EarlySteps ==
  ASSUME NEW r \in Requests, RequestStep(r),
         request[r].pc \in Waiting \cup Asking \cup {"failing", "deleting"}
  PROVE  \/ Admit(r) \/ NotAdmitted(r) \/ Persist(r) \/ Succeed(r)
         \/ FailInit(r) \/ (Is(r, "saving init") /\ Save(r)) \/ Remove(r)
         \/ DeleteRecord(r)
  BY DEF RequestStep, Refresh, Miss, Save, Load, Recreate, Restore,
         RestoreElsewhere, RestoreFinds, RestoreRefused, Restoring, Answer,
         Admit, NotAdmitted, Persist, Succeed, FailInit, Remove, DeleteLive,
         LoadToDelete, DropLive, DeleteRecord, Is, Waiting, Asking

\* Until the id is handed out.
LEMMA EarlyAcquainted ==
  ASSUME Sound, Acquainted, NEW r \in Requests, RequestStep(r), ~handedOut
  PROVE  Acquainted'
<1> DEFINE pc == request[r].pc
           i == At(r)
           others == \A o \in Requests : o = r \/ request'[o] = request[o]
<1>1. pc \in Waiting \cup Asking \cup {"failing", "deleting"}
  BY DEF Acquainted, Unheard
<1>2. ~Is(r, "idle")
  BY DEF RequestStep, Refresh, Miss, Save, Load, Recreate, Restore,
         RestoreElsewhere, RestoreFinds, RestoreRefused, Restoring, Answer,
         Admit, NotAdmitted, Persist, Succeed, FailInit, Remove, DeleteLive,
         LoadToDelete, DropLive, DeleteRecord, Is
<1>3. i \in Instances /\ live \in [Instances -> Records \cup {None}]
  BY <1>2, Somewhere DEF Sound, TypeOK
<1>4. CASE Admit(r)
  <2>1. /\ request'[r].pc = "persisting" /\ request'[r].at = i
        /\ request'[r].own = request[r].own /\ others
    BY <1>4, GoesWithMoves DEF Admit
  <2>2. request[r].own /\ \A o \in Requests : request[o].pc \in Waiting
    BY <1>4 DEF Admit, Is, Acquainted, Introduced, NothingYet
  <2>3. \A j \in Instances : live'[j] # None => j = i
    BY <1>3, <1>4 DEF Admit, Acquainted, NothingYet, Live
  <2>4. created' /\ ~handedOut' /\ ~recorded'
    BY <1>4 DEF Admit, Acquainted, Known
  <2>5. \A o \in Requests : o = r \/ (/\ request'[o].pc \in Waiting
                                     /\ request'[o] = request[o])
    BY <2>1, <2>2
  <2>6. NothingYet' /\ Unheard' /\ Known'
    BY <2>1, <2>4, <2>5 DEF NothingYet, Unheard, Known, Asking
  <2>7. Alone'
    BY <2>1, <2>3, <2>4, <2>5 DEF Alone, Waiting, Asking, Live, At
  <2>8. Introduced'
    BY <2>1, <2>2, <2>5
       DEF Acquainted, Introduced, Waiting, Asking, Is
  <2> QED
    BY <2>6, <2>7, <2>8 DEF Acquainted
<1>5. CASE NotAdmitted(r)
  <2>1. request'[r].pc = "idle" /\ others
    BY <1>5, EndsMoves DEF NotAdmitted
  <2>2. UNCHANGED <<live, created, handedOut, recorded>>
    BY <1>5 DEF NotAdmitted, rest
  <2> QED
    BY <2>1, <2>2
       DEF Acquainted, NothingYet, Unheard, Alone, Introduced, Known, Waiting,
           Asking, Live, Is, At
<1>6. ASSUME pc \notin Waiting
      PROVE created
  BY <1>6 DEF Acquainted, NothingYet
<1>7. ASSUME pc \in Asking
      PROVE /\ request[r].own /\ created
            /\ \A o \in Requests : o = r \/ request[o].pc \in Waiting
            /\ \A j \in Instances : live[j] # None => j = i
  BY <1>6, <1>7 DEF Acquainted, Alone, Introduced, Live, Asking, Waiting
<1>8. CASE Persist(r)
  <2>1. /\ request'[r].pc = "initializing" /\ request'[r].at = i
        /\ request'[r].own = request[r].own /\ others
    BY <1>8, GoesMoves DEF Persist
  <2>2. pc \in Asking /\ UNCHANGED <<live, created, handedOut, recorded>>
    BY <1>8 DEF Persist, rest, Is, Asking
  <2> QED
    BY <1>7, <2>1, <2>2
       DEF Acquainted, NothingYet, Unheard, Alone, Introduced, Known, Waiting,
           Asking, Live, Is, At
<1>9. CASE Succeed(r)
  <2>1. /\ request'[r].pc = "saving init" /\ request'[r].at = i
        /\ request'[r].record = Knowing(request[r].record)
        /\ request'[r].own = request[r].own /\ others
    BY <1>9, GoesWithMoves DEF Succeed
  <2>2. pc \in Asking /\ UNCHANGED <<created, handedOut, recorded>>
    BY <1>9 DEF Succeed, rest, Is, Asking
  <2>3. request[r].record \in Records
    BY <2>2, Somewhere DEF Asking, Carrying
  <2>4. /\ \A j \in Instances : live'[j] # None => j = i
        /\ KnownTo(live'[i])
    BY <1>3, <1>7, <1>9, <2>2, RecordOperations DEF Succeed, Live, KnownTo
  <2>5. KnownTo(Knowing(request[r].record))
    BY <2>3, RecordOperations DEF KnownTo
  <2> QED
    BY <1>7, <2>1, <2>2, <2>4, <2>5
       DEF Acquainted, NothingYet, Unheard, Alone, Introduced, Known, Waiting,
           Asking, Live, Is, At
<1>10. CASE FailInit(r)
  <2>1. request'[r].pc = "failing" /\ others
    BY <1>10, GoesMoves DEF FailInit
  <2>2. pc \in Asking /\ UNCHANGED <<live, created, handedOut, recorded>>
    BY <1>10 DEF FailInit, rest, Is, Asking
  <2> QED
    BY <1>7, <2>1, <2>2
       DEF Acquainted, NothingYet, Unheard, Alone, Introduced, Known, Waiting,
           Asking, Live, Is, At
<1>11. CASE Is(r, "saving init") /\ Save(r)
  <2>1. request'[r].pc \in {"idle", "served"} /\ others
    BY <1>11, EndsMoves DEF Save
  <2>2. pc \in Asking /\ UNCHANGED <<live, created, auto>>
    BY <1>11 DEF Save, rest, Is, Asking
  <2>3. /\ recorded' => stored' = request[r].record
        /\ KnownTo(request[r].record) /\ KnownTo(live[i])
    <3>1. ~recorded /\ request[r].own
      BY <1>7, <2>2 DEF Acquainted, Known
    <3>2. PICK done \in BOOLEAN :
            /\ stored' = IF done /\ request[r].own
                         THEN request[r].record ELSE stored
            /\ recorded' = (recorded \/ (done /\ Is(r, "saving init")))
      BY <1>11 DEF Save
    <3>3. recorded' => stored' = request[r].record
      BY <3>1, <3>2
    <3> QED
      BY <1>11, <3>3 DEF Acquainted, Introduced
  <2>4. \A j \in Instances : KnownTo(live'[j])
    BY <1>7, <2>2, <2>3 DEF KnownTo
  <2>5. handedOut' /\ created'
    <3>1. handedOut' = (handedOut \/ Is(r, "saving init")) /\ created' = created
      BY <1>11 DEF Save
    <3>2. handedOut'
      BY <1>11, <3>1, Zenon
    <3>3. created
      BY <1>7, <2>2
    <3> QED
      BY <3>1, <3>2, <3>3, Zenon
  <2>6. \A o \in Requests :
          /\ request'[o].pc \in Waiting \cup {"served"}
          /\ request'[o].pc = "admitting" => request'[o] = request[o]
    BY <1>7, <2>1, <2>2 DEF Waiting
  <2>7. NothingYet' /\ Unheard' /\ Alone'
    BY <2>5, <2>6 DEF NothingYet, Unheard, Alone, Waiting, Asking
  <2>8. Introduced'
    BY <2>6 DEF Acquainted, Introduced, Waiting, Asking, Is
  <2>9. Known'
    BY <2>3, <2>4, <2>5, <2>6 DEF Known, Waiting, Serving
  <2> QED
    BY <2>7, <2>8, <2>9 DEF Acquainted
<1>12. CASE Remove(r)
  <2>1. request'[r].pc \in {"idle", "deleting"} /\ others
    BY <1>12, EndsMoves, GoesWithMoves DEF Remove
  <2>2. pc = "failing" /\ UNCHANGED <<created, handedOut, recorded>>
    BY <1>12 DEF Remove, rest, Is
  <2>3. \A j \in Instances : live'[j] \in {live[j], None}
    BY <1>3, <1>12 DEF Remove
  <2>4. \A o \in Requests : request[o].pc \notin Asking
    BY <2>2 DEF Acquainted, Alone, Waiting, Asking
  <2> QED
    BY <1>6, <2>1, <2>2, <2>3, <2>4
       DEF Acquainted, NothingYet, Unheard, Alone, Introduced, Known, Waiting,
           Asking, Live, Is, At
<1>13. CASE DeleteRecord(r)
  <2>1. request'[r].pc = "idle" /\ others
    BY <1>13, EndsMoves DEF DeleteRecord
  <2>2. UNCHANGED <<live, created, handedOut, recorded>>
    BY <1>13 DEF DeleteRecord, rest
  <2> QED
    BY <2>1, <2>2
       DEF Acquainted, NothingYet, Unheard, Alone, Introduced, Known, Waiting,
           Asking, Live, Is, At
<1> QED
  BY <1>1, <1>4, <1>5, <1>8, <1>9, <1>10, <1>11, <1>12, <1>13, EarlySteps

\* Once it is handed out there is no initialize of the session any more, and if
\* it was recorded then, whatever is read of it without auto_reinitialize knows
\* the client.
LEMMA LateAcquainted ==
  ASSUME Sound, Acquainted, NEW r \in Requests, RequestStep(r), handedOut
  PROVE  Acquainted'
<1> DEFINE pc == request[r].pc
           i == At(r)
           others == \A o \in Requests : o = r \/ request'[o] = request[o]
           new == request'[r]
           settled == recorded /\ ~auto
<1>0. created /\ \A o \in Requests : request[o].pc \notin Asking
  BY DEF Acquainted, NothingYet, Alone
<1>1. ~Is(r, "idle")
  BY DEF RequestStep, Refresh, Miss, Save, Load, Recreate, Restore,
         RestoreElsewhere, RestoreFinds, RestoreRefused, Restoring, Answer,
         Admit, NotAdmitted, Persist, Succeed, FailInit, Remove, DeleteLive,
         LoadToDelete, DropLive, DeleteRecord, Is
<1>2. /\ i \in Instances /\ live \in [Instances -> Records \cup {None}]
      /\ stored \in Records \cup {None}
  BY <1>1, Somewhere DEF Sound, TypeOK
<1>3. /\ ~Admit(r) /\ ~Persist(r) /\ ~Succeed(r) /\ ~FailInit(r)
      /\ ~Is(r, "saving init")
  BY <1>0 DEF Admit, Persist, Succeed, FailInit, Is, Asking
<1>4. handedOut' /\ created' /\ auto' = auto /\ recorded' = recorded
  <2>1. CASE Save(r)
    <3>1. PICK done \in BOOLEAN :
            recorded' = (recorded \/ (done /\ Is(r, "saving init")))
      BY <2>1 DEF Save
    <3>2. recorded' = recorded
      BY <1>3, <3>1 DEF Sound, TypeOK
    <3> QED
      BY <1>0, <2>1, <3>2 DEF Save
  <2>2. CASE ~Save(r)
    BY <1>0, <1>3, <2>2
       DEF RequestStep, Refresh, Miss, Load, Recreate, Restore,
           RestoreElsewhere, RestoreFinds, RestoreRefused, Answer, NotAdmitted,
           Remove, DeleteLive, LoadToDelete, DropLive, DeleteRecord, rest
  <2> QED
    BY <2>1, <2>2
\* It is enough that the request does not come to ask, and that what it reads,
\* writes and puts in the map knows the client.
<1>5. ASSUME others, new.pc \notin Asking \cup {"admitting"},
             settled =>
               /\ KnownTo(stored')
               /\ \A j \in Instances : KnownTo(live'[j])
               /\ new.pc \notin {"creating", "rebuilding"}
               /\ new.pc \in Serving => KnownTo(new.record)
      PROVE Acquainted'
  BY <1>0, <1>4, <1>5
     DEF Acquainted, NothingYet, Unheard, Alone, Introduced, Known, Asking, Is
<1>6. settled =>
        /\ KnownTo(stored) /\ \A j \in Instances : KnownTo(live[j])
        /\ pc \notin {"creating", "rebuilding"}
        /\ pc \in Serving => KnownTo(request[r].record)
  BY DEF Acquainted, Known
<1>7. CASE Refresh(r)
  <2> DEFINE q == [request[r] EXCEPT !.pc = "saving", !.locks = TRUE,
                                     !.record = live'[At(r)]]
  <2>1. others /\ new.pc = "saving" /\ new.record = live'[i]
    <3>1. Becomes(r, q)
      BY <1>7 DEF Refresh
    <3>2. request[r] \in RequestState
      BY Somewhere
    <3>3. q.pc = "saving" /\ q.record = live'[At(r)]
      BY <3>2 DEF RequestState
    <3> HIDE DEF q
    <3> QED
      BY <3>1, <3>3, BecomesMoves
  <2>2. stored' = stored /\ live' = [live EXCEPT ![i] = Touched(live[i])]
        /\ live[i] \in Records
    BY <1>2, <1>7 DEF Refresh, Live
  <2>3. settled => \A j \in Instances : KnownTo(live'[j])
    BY <1>2, <1>6, <2>2, RecordOperations, NoneIsNoRecord DEF KnownTo
  <2> QED
    BY <1>2, <1>5, <1>6, <2>1, <2>2, <2>3 DEF Asking
<1>8. CASE Miss(r)
  <2>1. others /\ new.pc = "loading"
    BY <1>8, GoesMoves DEF Miss
  <2>2. UNCHANGED <<live, stored>>
    BY <1>8 DEF Miss
  <2> QED
    BY <1>5, <1>6, <2>1, <2>2 DEF Asking, Serving
<1>9. CASE Save(r)
  <2>1. pc \in {"saving", "refreshing"}
    BY <1>3, <1>9 DEF Save, Is
  <2>2. others /\ new.pc \in {"idle", "served"}
    BY <1>9, EndsMoves DEF Save
  <2> QED
    BY <1>5, <1>6, <1>9, <2>1, <2>2 DEF Save, Asking, Serving
<1>10. ASSUME Unknown(r)
       PROVE  /\ others /\ new.pc \in {"idle", "creating"}
              /\ ~auto => new.pc = "idle"
  BY <1>10, EndsMoves, GoesWithMoves DEF Unknown
<1>11. CASE Load(r)
  <2>1. UNCHANGED <<live, stored>>
    BY <1>11 DEF Load
  <2>2. CASE GoesWith(r, "restoring", stored)
    <3>1. others /\ new.pc = "restoring" /\ new.record = stored
      BY <2>2, GoesWithMoves
    <3> QED
      BY <1>5, <1>6, <2>1, <3>1 DEF Asking
  <2>3. CASE Unknown(r)
    BY <1>5, <1>6, <1>10, <2>1, <2>3 DEF Asking, Serving
  <2> QED
    BY <1>11, <2>2, <2>3 DEF Load
<1>12. CASE Recreate(r)
  <2>0. PICK done \in BOOLEAN :
          Becomes(r, [request[r] EXCEPT !.pc = "rebuilding",
                        !.record = Synthetic, !.own = done => stored = None])
    BY <1>12 DEF Recreate
  <2> DEFINE q == [request[r] EXCEPT !.pc = "rebuilding",
                     !.record = Synthetic, !.own = done => stored = None]
  <2>1. others /\ new.pc = "rebuilding"
    <3>1. Becomes(r, q)
      BY <2>0
    <3>2. q.pc = "rebuilding"
      BY Somewhere DEF RequestState
    <3> HIDE DEF q
    <3> QED
      BY <3>1, <3>2, BecomesMoves
  <2>2. ~settled
    BY <1>6, <1>12 DEF Recreate, Is
  <2> QED
    BY <1>5, <2>1, <2>2 DEF Asking
<1>13. CASE Restore(r)
  <2>1. others /\ new.pc = "refreshing" /\ new.record = live'[i]
    BY <1>13, GoesWithMoves DEF Restore
  <2>2. stored' = stored
        /\ live' = [live EXCEPT ![i] = Touched(request[r].record)]
        /\ request[r].record \in Records
        /\ (settled => pc \in Serving)
    BY <1>6, <1>13, Somewhere DEF Restore, Restoring, Carrying, Serving
  <2>3. settled => \A j \in Instances : KnownTo(live'[j])
    BY <1>2, <1>6, <2>2, RecordOperations, NoneIsNoRecord DEF KnownTo
  <2> QED
    BY <1>2, <1>5, <1>6, <2>1, <2>2, <2>3 DEF Asking
<1>14. CASE RestoreElsewhere(r)
  <2>1. others /\ new.pc = "refreshing" /\ new.record = request[r].record
    BY <1>14, GoesMoves DEF RestoreElsewhere
  <2>2. UNCHANGED <<stored, live>> /\ (settled => pc \in Serving)
    BY <1>6, <1>14 DEF RestoreElsewhere, Restoring, Serving
  <2> QED
    BY <1>5, <1>6, <2>1, <2>2 DEF Asking
<1>15. CASE RestoreFinds(r)
  <2>1. others /\ new.pc \in {"idle", "served"}
    BY <1>15, EndsMoves DEF RestoreFinds
  <2>2. stored' = stored /\ live' = [live EXCEPT ![i] = Touched(live[i])]
        /\ live[i] \in Records
    BY <1>2, <1>15 DEF RestoreFinds, Live
  <2>3. settled => \A j \in Instances : KnownTo(live'[j])
    BY <1>2, <1>6, <2>2, RecordOperations, NoneIsNoRecord DEF KnownTo
  <2> QED
    BY <1>5, <1>6, <2>1, <2>2, <2>3 DEF Asking, Serving
<1>16. CASE RestoreRefused(r)
  <2>1. UNCHANGED <<live, stored>>
    BY <1>16 DEF RestoreRefused
  <2>2. CASE Is(r, "rebuilding")
    <3>1. others /\ new.pc = "idle"
      BY <1>16, <2>2, EndsMoves DEF RestoreRefused
    <3> QED
      BY <1>5, <1>6, <2>1, <3>1 DEF Asking, Serving
  <2>3. CASE ~Is(r, "rebuilding")
    <3>1. Unknown(r)
      BY <1>16, <2>3 DEF RestoreRefused
    <3> QED
      BY <1>5, <1>6, <1>10, <2>1, <3>1 DEF Asking, Serving
  <2> QED
    BY <2>2, <2>3
<1>17. CASE Answer(r) \/ NotAdmitted(r)
  <2>1. others /\ new.pc = "idle"
    BY <1>17, EndsMoves DEF Answer, NotAdmitted
  <2>2. UNCHANGED <<live, stored>>
    BY <1>17 DEF Answer, NotAdmitted
  <2> QED
    BY <1>5, <1>6, <2>1, <2>2 DEF Asking, Serving
<1>18. CASE Remove(r) \/ DeleteLive(r) \/ DropLive(r)
  <2>1. others /\ new.pc \in {"idle", "deleting", "loading to delete"}
    BY <1>18, EndsMoves, GoesMoves, GoesWithMoves
       DEF Remove, DeleteLive, DropLive
  <2>2. stored' = stored /\ live' = [live EXCEPT ![i] = None]
    BY <1>18 DEF Remove, DeleteLive, DropLive
  <2>3. \A j \in Instances : KnownTo(live[j]) => KnownTo(live'[j])
    BY <1>2, <2>2 DEF KnownTo
  <2> QED
    BY <1>5, <1>6, <2>1, <2>2, <2>3 DEF Asking, Serving
<1>19. CASE LoadToDelete(r)
  <2>1. others /\ new.pc \in {"idle", "dropping"}
    BY <1>19, EndsMoves, GoesMoves DEF LoadToDelete
  <2>2. UNCHANGED <<live, stored>>
    BY <1>19 DEF LoadToDelete
  <2> QED
    BY <1>5, <1>6, <2>1, <2>2 DEF Asking, Serving
<1>20. CASE DeleteRecord(r)
  <2>1. others /\ new.pc = "idle"
    BY <1>20, EndsMoves DEF DeleteRecord
  <2>2. live' = live /\ (KnownTo(stored) => KnownTo(stored'))
    BY <1>20 DEF DeleteRecord, KnownTo
  <2> QED
    BY <1>5, <1>6, <2>1, <2>2 DEF Asking, Serving
<1> QED
  BY <1>3, <1>7, <1>8, <1>9, <1>11, <1>12, <1>13, <1>14, <1>15, <1>16, <1>17,
     <1>18, <1>19, <1>20 DEF RequestStep

\* A request begins: an initialize while there is no session, any other once
\* the client has the id.
LEMMA BeginAcquainted ==
  ASSUME Sound, Acquainted, NEW r \in Requests, NEW i \in Instances, NEW pc,
         Begin(r, i, pc),
         \/ pc = "admitting" /\ ~created
         \/ handedOut /\ pc \in {"get", "failing", "deleting live"}
  PROVE  Acquainted'
<1> DEFINE q == [Idle EXCEPT !.at = i, !.pc = pc]
<1>1. q.pc = pc /\ q.own
  BY DEF Idle
<1>2. Becomes(r, q)
  BY DEF Begin
<1> HIDE DEF q
<1>3. /\ request'[r].pc = pc /\ request'[r].own
      /\ \A o \in Requests : o = r \/ request'[o] = request[o]
  BY <1>1, <1>2, BecomesMoves
<1>4. /\ UNCHANGED <<live, stored, handedOut, auto, created, recorded>>
      /\ request[r].pc = "idle"
  BY DEF Begin, rest, Is
<1> QED
  BY <1>3, <1>4
     DEF Acquainted, NothingYet, Unheard, Alone, Introduced, Known, Waiting,
         Asking, Serving, Live, Is, At

\* Steps that only end requests and take sessions and the record away, or leave
\* them older, make nobody known.
LEMMA FadingAcquainted ==
  ASSUME Sound, Acquainted, UNCHANGED <<auto, created, handedOut, recorded>>,
         \A r \in Requests :
           \/ request'[r] = Idle
           \/ /\ request'[r].pc = request[r].pc /\ request'[r].at = request[r].at
              /\ request'[r].own = request[r].own
              /\ KnownTo(request[r].record) => KnownTo(request'[r].record),
         KnownTo(stored) => KnownTo(stored'),
         \A i \in Instances : /\ KnownTo(live[i]) => KnownTo(live'[i])
                              /\ live[i] = None => live'[i] = None
  PROVE  Acquainted'
<1>1. Idle.pc = "idle"
  BY DEF Idle
<1>2. \A r \in Requests :
        request'[r].pc = "idle" \/ request'[r].pc = request[r].pc
  BY <1>1
<1>3. NothingYet'
  BY <1>2 DEF Acquainted, NothingYet, Live, Waiting
<1>4. Unheard'
  BY <1>2 DEF Acquainted, Unheard, Waiting
<1>5. Alone'
  BY <1>1, <1>2 DEF Acquainted, Alone, Live, Waiting, Asking, At
<1>6. Introduced'
  <2>1. \A r \in Requests : Is(r, "saving init") => At(r) \in Instances
    BY Somewhere DEF Is
  <2> QED
    BY <1>1, <2>1 DEF Acquainted, Introduced, Asking, Is, At
<1>7. Known'
  BY <1>1 DEF Acquainted, Known, Serving
<1> QED
  BY <1>3, <1>4, <1>5, <1>6, <1>7 DEF Acquainted

\* The steps that are not a request's preserve the second half.
LEMMA SurroundingsAcquainted ==
  ASSUME Sound, Acquainted, [Next]_vars, \A r \in Requests : ~RequestStep(r)
  PROVE  Acquainted'
<1>0. /\ request \in [Requests -> RequestState]
      /\ live \in [Instances -> Records \cup {None}]
  BY DEF Sound, TypeOK, RequestState
<1>1. ASSUME NEW r \in Requests, NEW i \in Instances,
             Ask(r, i) \/ Initialize(r, i) \/ Terminate(r, i) \/ Delete(r, i)
      PROVE Acquainted'
  BY <1>1, BeginAcquainted DEF Ask, Initialize, Terminate, Delete
<1>2. ASSUME NEW r \in Requests, Abandon(r)
      PROVE Acquainted'
  <2>1. \A o \in Requests : request'[o] = Idle \/ request'[o] = request[o]
    BY <1>0, <1>2 DEF Abandon, Ends, Becomes
  <2> QED
    BY <1>2, <2>1, FadingAcquainted DEF Abandon, rest
<1>3. ASSUME NEW i \in Instances,
             AdmitTransient(i) \/ Sweep(i) \/ DeleteExpired(i)
      PROVE Acquainted'
  <2>1. request' = request /\ UNCHANGED <<auto, created, handedOut, recorded>>
        /\ (stored' = stored \/ stored' = None)
        /\ (live' = live \/ live' = [live EXCEPT ![i] = None])
    BY <1>3 DEF AdmitTransient, Sweep, DeleteExpired
  <2>2. \A j \in Instances : live'[j] \in {live[j], None}
    BY <1>0, <2>1
  <2> QED
    BY <2>1, <2>2, FadingAcquainted DEF KnownTo
<1>4. ASSUME NEW i \in Instances, Restart(i)
      PROVE Acquainted'
  <2>1. \A r \in Requests : request'[r] = Idle \/ request'[r] = request[r]
    BY <1>4 DEF Restart
  <2>2. \A j \in Instances : live'[j] \in {live[j], None}
    BY <1>0, <1>4 DEF Restart
  <2>3. UNCHANGED <<auto, stored, created, handedOut, recorded>>
    BY <1>4 DEF Restart
  <2> QED
    BY <2>1, <2>2, <2>3, FadingAcquainted DEF KnownTo
<1>5. CASE Tick
  <2>1. \A s \in Records \cup {None} :
          /\ KnownTo(s) => KnownTo(Aged(s))
          /\ s = None => Aged(s) = None
    BY AgedRecord, NoneIsNoRecord DEF KnownTo
  <2>2. stored \in Records \cup {None} /\ stored' = Aged(stored)
    BY <1>5 DEF Tick, Sound, TypeOK
  <2>3. \A i \in Instances : live'[i] = Aged(live[i])
    BY <1>5 DEF Tick
  <2>4. ASSUME NEW r \in Requests
        PROVE  /\ request'[r].pc = request[r].pc /\ request'[r].at = request[r].at
               /\ request'[r].own = request[r].own
               /\ KnownTo(request[r].record) => KnownTo(request'[r].record)
    <3>1. request[r] \in RequestState
      BY <1>0
    <3>2. request'[r] = [request[r] EXCEPT !.record = Aged(request[r].record)]
      BY <1>5 DEF Tick
    <3>3. /\ request'[r].pc = request[r].pc /\ request'[r].at = request[r].at
          /\ request'[r].own = request[r].own
          /\ request'[r].record = Aged(request[r].record)
          /\ request[r].record \in Records \cup {None}
      BY <3>1, <3>2 DEF RequestState
    <3> QED
      BY <2>1, <3>3
  <2>5. UNCHANGED <<auto, created, handedOut, recorded>>
    BY <1>5 DEF Tick, rest
  <2>6. KnownTo(stored) => KnownTo(stored')
    BY <2>1, <2>2
  <2>7. \A i \in Instances : /\ KnownTo(live[i]) => KnownTo(live'[i])
                             /\ live[i] = None => live'[i] = None
    BY <1>0, <2>1, <2>3
  <2> QED
    BY <2>4, <2>5, <2>6, <2>7, FadingAcquainted
<1>6. CASE UNCHANGED vars
  BY <1>6, FadingAcquainted DEF vars
<1> QED
  BY <1>1, <1>2, <1>3, <1>4, <1>5, <1>6 DEF Next

\* The inductive invariant: the types, the maps and the requests that work on
\* them, and whom the sessions know.
THEOREM Invariant == Spec => [](Sound /\ Acquainted)
<1>1. Init => Sound /\ Acquainted
  BY InitSound, InitAcquainted
<1>2. Sound /\ Acquainted /\ [Next]_vars => (Sound /\ Acquainted)'
  <2> SUFFICES ASSUME Sound, Acquainted, [Next]_vars
               PROVE  (Sound /\ Acquainted)'
    OBVIOUS
  <2>1. CASE \E r \in Requests : RequestStep(r)
    BY <2>1, RequestSound, EarlyAcquainted, LateAcquainted
  <2>2. CASE \A r \in Requests : ~RequestStep(r)
    BY <2>2, SurroundingsSound, SurroundingsAcquainted
  <2> QED
    BY <2>1, <2>2
<1> QED
  BY <1>1, <1>2, PTL DEF Spec

\* The maps, the shared record, the requests and the cleanup tasks keep their
\* types, on every interleaving of requests, sweeps, drops and restarts.
THEOREM Typing == Spec => []TypeOK
<1>1. Sound => TypeOK
  BY DEF Sound
<1> QED
  BY Invariant, <1>1, PTL

\* No path that makes a session live outruns max_sessions: not initialize, not
\* restore_from_record, not the recovery of auto_reinitialize.
THEOREM WithinTheLimitHolds == Spec => []WithinTheLimit
<1>1. Sound => WithinTheLimit
  BY DEF Sound
<1> QED
  BY Invariant, <1>1, PTL

\* get saves the record under the read lock, so no removal falls between the
\* session it saw and the record it writes.
THEOREM RefreshedIsLiveHolds == Spec => []RefreshedIsLive
<1>1. Sound => RefreshedIsLive
  BY DEF Sound
<1> QED
  BY Invariant, <1>1, PTL

\* A session recorded before its id was handed out is never restored as one that
\* does not know the client, on any instance and whatever the store fails to do
\* afterwards, unless auto_reinitialize makes it anew.
THEOREM ClientIsKnownHolds == Spec => []ClientIsKnown
<1>1. Acquainted => ClientIsKnown
  BY DEF Acquainted, Known, KnownTo, ClientIsKnown, Live
<1> QED
  BY Invariant, <1>1, PTL
=============================================================================
