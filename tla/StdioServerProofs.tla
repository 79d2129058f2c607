------------------------- MODULE StdioServerProofs --------------------------
(***************************************************************************)
(* The safety of a stdio connection for any requests, ids and limits.  The *)
(* inductive invariant has four parts beside the types: Shaken is about    *)
(* the initialize requests, Dispatched about the dispatcher and the order  *)
(* in which the connection shuts down, Tracked about the router's table,   *)
(* and Over about what is left when run_with_streams has returned.         *)
(***************************************************************************)
EXTENDS StdioServer, TLAPS

Frames == [kind : {"request", "cancelled"}, of : Requests \cup Ids]

Typed == TypeOK /\ wire \in Seq(Frames)

\* An initialize is only ever handled by the loop, one at a time, and is
\* answered before anything read behind it is queued.
Shaken ==
  /\ \A h \in Handshakes :
       /\ stage[h] \in {"unsent", "sent", "handling", "written"}
       /\ stage[h] = "handling" => reader = "shaking"
       /\ \A r \in Requests : <<h, r>> \in behind => stage[h] = "written"
  /\ \A g, h \in Handshakes :
       stage[g] = "handling" /\ stage[h] = "handling" => g = h

\* The dispatcher outlives the reading, and takes what it has not started with
\* it; the token is raised when a drain gives up and tasks aborted after that.
Dispatched ==
  /\ held # Nobody => stage[held] = "held"
  /\ ~dispatching =>
       /\ reader \notin {"reading", "shaking"}
       /\ \A r \in Requests : stage[r] \notin {"queued", "held"}
  /\ scope => reader \in {"giving up", "returned"}
  /\ aborted # {} => reader = "returned"

\* The table holds the requests whose handler is at work, all of them.
Tracked ==
  /\ \A r \in Requests :
       r \in tracked <=> r \notin Handshakes /\ stage[r] = "handling"
  /\ \A r \in marked :
       r \notin Handshakes
       /\ stage[r] \in {"handling", "returned", "silent", "lost"}

\* run_with_streams returns when nobody is left, or after it told the rest to
\* abort, and nobody joins later.
Over ==
  /\ reader = "giving up" => scope
  /\ reader = "returned" /\ ~failed =>
       IF scope THEN Live \subseteq aborted ELSE Live = {} /\ Framed = {}

Inv == Typed /\ Shaken /\ Dispatched /\ Tracked /\ Over
-----------------------------------------------------------------------------
\* A fresh connection has read nothing, runs nothing and has nobody to stop.
LEMMA InvInit == ASSUME Init PROVE Inv
<1>1. wire \in Seq(Frames) /\ queue \in Seq(Requests)
  BY DEF Init
<1>2. Typed
  <2>1. Len(wire) =< MaxWire
    BY StdioAssumption DEF Init
  <2>2. held \in Requests \cup {Nobody} /\ stage \in [Requests -> Stages]
    BY DEF Init, Stages
  <2>3. /\ limit \in Limits /\ timed \in BOOLEAN /\ failed \in BOOLEAN
        /\ dispatching \in BOOLEAN /\ scope \in BOOLEAN /\ stopping \in BOOLEAN
        /\ reader = "reading"
    BY DEF Init
  <2>4. /\ behind = {} /\ tracked = {} /\ marked = {} /\ fired = {}
        /\ notices = {} /\ aborted = {}
    BY DEF Init
  <2> QED
    BY <1>1, <2>1, <2>2, <2>3, <2>4 DEF Typed, TypeOK
<1>3. Shaken
  BY StdioAssumption DEF Init, Shaken
<1>4. Dispatched /\ Tracked /\ Over
  BY DEF Init, Dispatched, Tracked, Over
<1> QED
  BY <1>2, <1>3, <1>4 DEF Inv

\* Every step of peer, loop, dispatcher and tasks keeps the types.
LEMMA TypedStep == ASSUME Typed, [Next]_vars PROVE Typed'
<1>1. CASE UNCHANGED vars
  BY <1>1 DEF Typed, TypeOK, vars, conn, table
<1>2. ASSUME NEW r \in Requests, SendRequest(r) PROVE Typed'
  <2>1. wire' \in Seq(Frames) /\ Len(wire') = Len(wire) + 1
    BY <1>2, Typed DEF SendRequest, Request, Frames, Typed
  <2>2. Len(wire') =< MaxWire
    BY <2>1, <1>2, StdioAssumption DEF SendRequest
  <2> QED
    BY <2>1, <2>2, <1>2, Typed DEF SendRequest, Steps, conn, table, Typed,
       TypeOK, Stages
<1>3. ASSUME NEW r \in Requests, Register(r) PROVE Typed'
  BY <1>3, Typed DEF Register, Steps, conn, Typed, TypeOK, Stages
<1>4. ASSUME NEW r \in Requests, AnswerAtOnce(r) PROVE Typed'
  BY <1>4, Typed DEF AnswerAtOnce, Steps, conn, table, Typed, TypeOK, Stages
<1>5. ASSUME NEW r \in Requests, Return(r) PROVE Typed'
  BY <1>5, Typed DEF Return, Steps, Forget, conn, Typed, TypeOK, Stages
<1>6. ASSUME NEW r \in Requests, Panic(r) PROVE Typed'
  BY <1>6, Typed DEF Panic, Steps, Forget, conn, Typed, TypeOK, Stages
<1>7. ASSUME NEW r \in Requests, Settle(r) PROVE Typed'
  BY <1>7, Typed DEF Settle, Steps, conn, table, Typed, TypeOK, Stages
<1>8. ASSUME NEW r \in Requests, Abort(r) PROVE Typed'
  BY <1>8, Typed DEF Abort, Forget, conn, Typed, TypeOK, Stages
<1>9. ASSUME NEW i \in Ids, SendCancelled(i) PROVE Typed'
  <2>1. wire' \in Seq(Frames) /\ Len(wire') = Len(wire) + 1
    BY <1>9, Typed DEF SendCancelled, Cancelled, Frames, Typed
  <2>2. Len(wire') =< MaxWire
    BY <2>1, <1>9, StdioAssumption DEF SendCancelled
  <2> QED
    BY <2>1, <2>2, <1>9, Typed DEF SendCancelled, conn, table, Typed, TypeOK
<1>10. ASSUME NEW i \in Ids, Cancel(i) PROVE Typed'
  BY <1>10, Typed DEF Cancel, conn, Typed, TypeOK
<1>11. ASSUME NEW r \in Requests, ReadRequest(r) PROVE Typed'
  BY <1>11, StdioAssumption, Typed DEF ReadRequest, Steps, Reads, conn, table,
     Typed, TypeOK, Stages
<1>12. ASSUME NEW r \in Requests, ReadHandshake(r) PROVE Typed'
  BY <1>12, StdioAssumption, Typed DEF ReadHandshake, Steps, Reads, table,
     Typed, TypeOK, Stages
<1>13. ASSUME NEW r \in Requests, FinishHandshake(r) PROVE Typed'
  BY <1>13, Typed DEF FinishHandshake, Steps, table, Typed, TypeOK, Stages
<1>14. ASSUME NEW r \in Requests, Write(r) PROVE Typed'
  BY <1>14, Typed DEF Write, Steps, conn, table, Typed, TypeOK, Stages
<1>15. ASSUME NEW i \in Ids, ReadCancelled(i) PROVE Typed'
  BY <1>15, StdioAssumption, Typed DEF ReadCancelled, Reads, conn, table, Typed,
     TypeOK
<1>16. CASE Drained
  BY <1>16, Typed DEF Drained, table, Typed, TypeOK
<1>17. CASE GiveUp
  BY <1>17, Typed DEF GiveUp, table, Typed, TypeOK
<1>18. CASE GraceEnds
  BY <1>18, Typed DEF GraceEnds, Live, Running, table, Typed, TypeOK
<1>19. CASE Stop
  BY <1>19, Typed DEF Stop, table, Typed, TypeOK
<1>20. CASE Fail
  BY <1>20, Typed DEF Fail, table, Typed, TypeOK
<1>21. CASE Take
  <2>1. queue # <<>> /\ queue \in Seq(Requests)
    BY <1>21, Typed DEF Take, Typed, TypeOK
  <2>2. Head(queue) \in Requests /\ Tail(queue) \in Seq(Requests)
    BY <2>1
  <2> QED
    BY <2>2, <1>21, Typed DEF Take, Steps, conn, table, Typed, TypeOK, Stages
<1>22. CASE Start
  BY <1>22, Typed DEF Start, conn, table, Typed, TypeOK, Stages
<1>23. CASE DispatcherEnds
  <2>1. queue' \in Seq(Requests)
    BY <1>23 DEF DispatcherEnds
  <2> QED
    BY <2>1, <1>23, Typed DEF DispatcherEnds, conn, table, Typed, TypeOK, Stages
<1> QED
  BY <1>1, <1>2, <1>3, <1>4, <1>5, <1>6, <1>7, <1>8, <1>9, <1>10, <1>11, <1>12,
     <1>13, <1>14, <1>15, <1>16, <1>17, <1>18, <1>19, <1>20, <1>21, <1>22, <1>23
     DEF Next, Loop, Dispatcher

\* No step starts a second initialize, or reads behind one that is under way.
LEMMA ShakenStep == ASSUME Typed, Dispatched, Shaken, [Next]_vars PROVE Shaken'
<1>1. CASE UNCHANGED vars
  BY <1>1, Shaken DEF Shaken, vars, conn
<1>2. ASSUME NEW r \in Requests, SendRequest(r) PROVE Shaken'
  BY <1>2, StdioAssumption, Shaken DEF SendRequest, Steps, conn, Shaken
<1>3. ASSUME NEW r \in Requests, Register(r) PROVE Shaken'
  BY <1>3, StdioAssumption, Shaken DEF Register, Steps, conn, Shaken
<1>4. ASSUME NEW r \in Requests, AnswerAtOnce(r) PROVE Shaken'
  BY <1>4, StdioAssumption, Shaken DEF AnswerAtOnce, Steps, conn, Shaken
<1>5. ASSUME NEW r \in Requests, Return(r) PROVE Shaken'
  BY <1>5, StdioAssumption, Shaken DEF Return, Steps, conn, Shaken
<1>6. ASSUME NEW r \in Requests, Panic(r) PROVE Shaken'
  BY <1>6, StdioAssumption, Shaken DEF Panic, Steps, conn, Shaken
<1>7. ASSUME NEW r \in Requests, Settle(r) PROVE Shaken'
  BY <1>7, StdioAssumption, Shaken DEF Settle, Steps, conn, Shaken
<1>8. ASSUME NEW r \in Requests, Abort(r) PROVE Shaken'
  BY <1>8, StdioAssumption, Typed, Dispatched, Shaken DEF Abort, Running, Typed,
     TypeOK, Shaken, Dispatched
<1>9. ASSUME NEW i \in Ids, SendCancelled(i) PROVE Shaken'
  BY <1>9, Shaken DEF SendCancelled, conn, Shaken
<1>10. ASSUME NEW i \in Ids, Cancel(i) PROVE Shaken'
  BY <1>10, Shaken DEF Cancel, conn, Shaken
<1>11. ASSUME NEW r \in Requests, ReadRequest(r) PROVE Shaken'
  BY <1>11, Shaken DEF ReadRequest, Steps, Reads, Shaken
<1>12. ASSUME NEW r \in Requests, ReadHandshake(r) PROVE Shaken'
  BY <1>12, Shaken DEF ReadHandshake, Steps, Reads, Shaken
<1>13. ASSUME NEW r \in Requests, FinishHandshake(r) PROVE Shaken'
  BY <1>13, StdioAssumption, Typed, Shaken DEF FinishHandshake, Steps, Typed,
     TypeOK, Shaken
<1>14. ASSUME NEW r \in Requests, Write(r) PROVE Shaken'
  BY <1>14, StdioAssumption, Shaken DEF Write, Steps, Shaken
<1>15. ASSUME NEW i \in Ids, ReadCancelled(i) PROVE Shaken'
  BY <1>15, Shaken DEF ReadCancelled, conn, Shaken
<1>16. CASE Drained
  BY <1>16, Shaken DEF Drained, Shaken
<1>17. CASE GiveUp
  BY <1>17, Shaken DEF GiveUp, Shaken
<1>18. CASE GraceEnds
  BY <1>18, Shaken DEF GraceEnds, Shaken
<1>19. CASE Stop
  BY <1>19, Shaken DEF Stop, Shaken
<1>20. CASE Fail
  BY <1>20, Shaken DEF Fail, Shaken
<1>21. CASE Take
  BY <1>21, StdioAssumption, Shaken DEF Take, Steps, conn, Shaken
<1>22. CASE Start
  BY <1>22, StdioAssumption, Typed, Dispatched, Shaken DEF Start, conn, Typed,
     TypeOK, Shaken, Dispatched
<1>23. CASE DispatcherEnds
  BY <1>23, StdioAssumption, Shaken DEF DispatcherEnds, conn, Shaken
<1> QED
  BY <1>1, <1>2, <1>3, <1>4, <1>5, <1>6, <1>7, <1>8, <1>9, <1>10, <1>11, <1>12,
     <1>13, <1>14, <1>15, <1>16, <1>17, <1>18, <1>19, <1>20, <1>21, <1>22, <1>23
     DEF Next, Loop, Dispatcher

\* No step queues behind the dispatcher's back, or aborts what is still read.
LEMMA DispatchedStep ==
  ASSUME Typed, Shaken, Dispatched, [Next]_vars PROVE Dispatched'
<1>1. CASE UNCHANGED vars
  BY <1>1, Dispatched DEF Dispatched, vars, conn
<1>2. ASSUME NEW r \in Requests, SendRequest(r) PROVE Dispatched'
  BY <1>2, Typed, Dispatched DEF SendRequest, Steps, conn, Typed, TypeOK,
     Dispatched
<1>3. ASSUME NEW r \in Requests, Register(r) PROVE Dispatched'
  BY <1>3, Typed, Dispatched DEF Register, Steps, conn, Typed, TypeOK,
     Dispatched
<1>4. ASSUME NEW r \in Requests, AnswerAtOnce(r) PROVE Dispatched'
  BY <1>4, Typed, Dispatched DEF AnswerAtOnce, Steps, conn, Typed, TypeOK,
     Dispatched
<1>5. ASSUME NEW r \in Requests, Return(r) PROVE Dispatched'
  BY <1>5, Typed, Dispatched DEF Return, Steps, conn, Typed, TypeOK, Dispatched
<1>6. ASSUME NEW r \in Requests, Panic(r) PROVE Dispatched'
  BY <1>6, Typed, Dispatched DEF Panic, Steps, conn, Typed, TypeOK, Dispatched
<1>7. ASSUME NEW r \in Requests, Settle(r) PROVE Dispatched'
  BY <1>7, Typed, Dispatched DEF Settle, Steps, conn, Typed, TypeOK, Dispatched
<1>8. ASSUME NEW r \in Requests, Abort(r) PROVE Dispatched'
  BY <1>8, Typed, Dispatched DEF Abort, Running, conn, Typed, TypeOK, Dispatched
<1>9. ASSUME NEW i \in Ids, SendCancelled(i) PROVE Dispatched'
  BY <1>9, Dispatched DEF SendCancelled, conn, Dispatched
<1>10. ASSUME NEW i \in Ids, Cancel(i) PROVE Dispatched'
  BY <1>10, Dispatched DEF Cancel, conn, Dispatched
<1>11. ASSUME NEW r \in Requests, ReadRequest(r) PROVE Dispatched'
  BY <1>11, Dispatched DEF ReadRequest, Steps, Reads, conn, Dispatched
<1>12. ASSUME NEW r \in Requests, ReadHandshake(r) PROVE Dispatched'
  BY <1>12, Dispatched DEF ReadHandshake, Steps, Reads, Dispatched
<1>13. ASSUME NEW r \in Requests, FinishHandshake(r) PROVE Dispatched'
  BY <1>13, Typed, Shaken, Dispatched DEF FinishHandshake, Steps, Typed, TypeOK,
     Dispatched, Shaken
<1>14. ASSUME NEW r \in Requests, Write(r) PROVE Dispatched'
  BY <1>14, Typed, Dispatched DEF Write, Steps, conn, Typed, TypeOK, Dispatched
<1>15. ASSUME NEW i \in Ids, ReadCancelled(i) PROVE Dispatched'
  BY <1>15, Dispatched DEF ReadCancelled, conn, Dispatched
<1>16. CASE Drained
  BY <1>16, Dispatched DEF Drained, Dispatched
<1>17. CASE GiveUp
  BY <1>17, Dispatched DEF GiveUp, Dispatched
<1>18. CASE GraceEnds
  BY <1>18, Dispatched DEF GraceEnds, Dispatched
<1>19. CASE Stop
  BY <1>19, Dispatched DEF Stop, Dispatched
<1>20. CASE Fail
  BY <1>20, Dispatched DEF Fail, Dispatched
<1>21. CASE Take
  <2>1. queue # <<>> /\ queue \in Seq(Requests)
    BY <1>21, Typed DEF Take, Typed, TypeOK
  <2>2. Head(queue) \in Requests
    BY <2>1
  <2> QED
    BY <2>2, <1>21, Typed, Dispatched DEF Take, Steps, conn, Typed, TypeOK,
       Dispatched
<1>22. CASE Start
  BY <1>22, Dispatched DEF Start, conn, Dispatched
<1>23. CASE DispatcherEnds
  BY <1>23, Dispatched DEF DispatcherEnds, conn, Dispatched
<1> QED
  BY <1>1, <1>2, <1>3, <1>4, <1>5, <1>6, <1>7, <1>8, <1>9, <1>10, <1>11, <1>12,
     <1>13, <1>14, <1>15, <1>16, <1>17, <1>18, <1>19, <1>20, <1>21, <1>22, <1>23
     DEF Next, Loop, Dispatcher

\* The entry of a request appears and goes with its handler, whatever its id.
LEMMA TrackedStep ==
  ASSUME Typed, Shaken, Dispatched, Tracked, [Next]_vars PROVE Tracked'
<1>1. CASE UNCHANGED vars
  BY <1>1, Tracked DEF Tracked, vars, table
<1>2. ASSUME NEW r \in Requests, SendRequest(r) PROVE Tracked'
  BY <1>2, Tracked DEF SendRequest, Steps, table, Tracked
<1>3. ASSUME NEW r \in Requests, Register(r) PROVE Tracked'
  BY <1>3, Typed, Shaken, Tracked DEF Register, Steps, Typed, TypeOK, Tracked,
     Shaken
<1>4. ASSUME NEW r \in Requests, AnswerAtOnce(r) PROVE Tracked'
  BY <1>4, Tracked DEF AnswerAtOnce, Steps, table, Tracked
<1>5. ASSUME NEW r \in Requests, Return(r) PROVE Tracked'
  BY <1>5, Typed, Tracked DEF Return, Steps, Forget, Typed, TypeOK, Tracked
<1>6. ASSUME NEW r \in Requests, Panic(r) PROVE Tracked'
  BY <1>6, Typed, Tracked DEF Panic, Steps, Forget, Typed, TypeOK, Tracked
<1>7. ASSUME NEW r \in Requests, Settle(r) PROVE Tracked'
  <2>1. stage' = [stage EXCEPT ![r] = stage'[r]]
       /\ stage'[r] \in {"silent", "framed"}
    BY <1>7, Typed DEF Settle, Steps, Typed, TypeOK
  <2> QED
    BY <2>1, <1>7, Tracked DEF Settle, Steps, table, Tracked
<1>8. ASSUME NEW r \in Requests, Abort(r) PROVE Tracked'
  BY <1>8, Typed, Tracked DEF Abort, Forget, Typed, TypeOK, Tracked
<1>9. ASSUME NEW i \in Ids, SendCancelled(i) PROVE Tracked'
  BY <1>9, Tracked DEF SendCancelled, table, Tracked
<1>10. ASSUME NEW i \in Ids, Cancel(i) PROVE Tracked'
  BY <1>10, Typed, Tracked DEF Cancel, Typed, TypeOK, Tracked
<1>11. ASSUME NEW r \in Requests, ReadRequest(r) PROVE Tracked'
  BY <1>11, Tracked DEF ReadRequest, Steps, table, Tracked
<1>12. ASSUME NEW r \in Requests, ReadHandshake(r) PROVE Tracked'
  BY <1>12, Tracked DEF ReadHandshake, Steps, table, Tracked
<1>13. ASSUME NEW r \in Requests, FinishHandshake(r) PROVE Tracked'
  <2>1. r \in Handshakes /\ r \notin marked /\ r \notin tracked
    BY <1>13, Tracked DEF FinishHandshake, Tracked
  <2> QED
    BY <2>1, <1>13, Tracked DEF FinishHandshake, Steps, table, Tracked
<1>14. ASSUME NEW r \in Requests, Write(r) PROVE Tracked'
  BY <1>14, Tracked DEF Write, Steps, table, Tracked
<1>15. ASSUME NEW i \in Ids, ReadCancelled(i) PROVE Tracked'
  BY <1>15, Tracked DEF ReadCancelled, table, Tracked
<1>16. CASE Drained
  BY <1>16, Tracked DEF Drained, table, Tracked
<1>17. CASE GiveUp
  BY <1>17, Tracked DEF GiveUp, table, Tracked
<1>18. CASE GraceEnds
  BY <1>18, Tracked DEF GraceEnds, table, Tracked
<1>19. CASE Stop
  BY <1>19, Tracked DEF Stop, table, Tracked
<1>20. CASE Fail
  BY <1>20, Tracked DEF Fail, table, Tracked
<1>21. CASE Take
  BY <1>21, Tracked DEF Take, Steps, table, Tracked
<1>22. CASE Start
  BY <1>22, Typed, Dispatched, Tracked DEF Start, table, Typed, TypeOK, Tracked,
     Dispatched
<1>23. CASE DispatcherEnds
  BY <1>23, Typed, Tracked DEF DispatcherEnds, table, Typed, TypeOK, Tracked
<1> QED
  BY <1>1, <1>2, <1>3, <1>4, <1>5, <1>6, <1>7, <1>8, <1>9, <1>10, <1>11, <1>12,
     <1>13, <1>14, <1>15, <1>16, <1>17, <1>18, <1>19, <1>20, <1>21, <1>22, <1>23
     DEF Next, Loop, Dispatcher

\* No step of what is left adds to it: the queue, the pipe and the table are
\* out of use once run_with_streams has returned.
LEMMA OverStep ==
  ASSUME Typed, Shaken, Dispatched, Over, [Next]_vars PROVE Over'
<1>1. CASE UNCHANGED vars
  BY <1>1, Over DEF Over, Live, Running, Framed, vars, conn
<1>2. ASSUME NEW r \in Requests, SendRequest(r) PROVE Over'
  BY <1>2, Typed, Over DEF SendRequest, Steps, conn, Typed, TypeOK, Over, Live,
     Running, Framed
<1>3. ASSUME NEW r \in Requests, Register(r) PROVE Over'
  BY <1>3, Typed, Over DEF Register, Steps, conn, Typed, TypeOK, Over, Live,
     Running, Framed
<1>4. ASSUME NEW r \in Requests, AnswerAtOnce(r) PROVE Over'
  BY <1>4, Typed, Over DEF AnswerAtOnce, Steps, conn, Typed, TypeOK, Over, Live,
     Running, Framed
<1>5. ASSUME NEW r \in Requests, Return(r) PROVE Over'
  BY <1>5, Typed, Over DEF Return, Steps, conn, Typed, TypeOK, Over, Live,
     Running
<1>6. ASSUME NEW r \in Requests, Panic(r) PROVE Over'
  <2>1. Running' = Running \ {r} /\ r \in Running \ Handshakes
    BY <1>6, Typed DEF Panic, Steps, Running, Typed, TypeOK
  <2>2. r \in Live /\ Live' \subseteq Live \ {r}
    BY <2>1, <1>6, StdioAssumption, Typed DEF Panic, Live, Typed, TypeOK
  <2> QED
    BY <2>2, <1>6, Over DEF Panic, Over, conn
<1>7. ASSUME NEW r \in Requests, Settle(r) PROVE Over'
  <2>1. Running' = Running \ {r} /\ r \in Running \ Handshakes
    BY <1>7, Typed, Shaken DEF Settle, Steps, Running, Typed, TypeOK, Shaken
  <2>2. r \in Live /\ Live' \subseteq Live \ {r}
    BY <2>1, <1>7, StdioAssumption, Typed DEF Settle, Live, Typed, TypeOK
  <2> QED
    BY <2>2, <1>7, Over DEF Settle, Over, conn
<1>8. ASSUME NEW r \in Requests, Abort(r) PROVE Over'
  <2>1. Running' = Running \ {r} /\ r \in Running \ Handshakes
    BY <1>8, Typed, Shaken, Dispatched DEF Abort, Running, Typed, TypeOK,
       Shaken, Dispatched
  <2>2. r \in Live /\ Live' \subseteq Live \ {r}
    BY <2>1, <1>8, StdioAssumption, Typed DEF Abort, Live, Typed, TypeOK
  <2> QED
    BY <2>2, <1>8, Over DEF Abort, Over, conn
<1>9. ASSUME NEW i \in Ids, SendCancelled(i) PROVE Over'
  BY <1>9, Over DEF SendCancelled, conn, Over, Live, Running, Framed
<1>10. ASSUME NEW i \in Ids, Cancel(i) PROVE Over'
  <2>1. Live' \subseteq Live \ {i} /\ Framed' = Framed
    BY <1>10, StdioAssumption DEF Cancel, Live, Running, Framed
  <2> QED
    BY <2>1, <1>10, Over DEF Cancel, Over, conn
<1>11. ASSUME NEW r \in Requests, ReadRequest(r) PROVE Over'
  BY <1>11, Over DEF ReadRequest, Reads, conn, Over
<1>12. ASSUME NEW r \in Requests, ReadHandshake(r) PROVE Over'
  BY <1>12, Over DEF ReadHandshake, Over
<1>13. ASSUME NEW r \in Requests, FinishHandshake(r) PROVE Over'
  BY <1>13, Over DEF FinishHandshake, Over
<1>14. ASSUME NEW r \in Requests, Write(r) PROVE Over'
  BY <1>14, Over DEF Write, conn, Over
<1>15. ASSUME NEW i \in Ids, ReadCancelled(i) PROVE Over'
  BY <1>15, Over DEF ReadCancelled, Reads, conn, Over
<1>16. CASE Drained
  BY <1>16, Over DEF Drained, Over, Live, Running, Framed
<1>17. CASE GiveUp
  BY <1>17, Over DEF GiveUp, Over
<1>18. CASE GraceEnds
  BY <1>18, Over DEF GraceEnds, Over, Live, Running
<1>19. CASE Stop
  BY <1>19, Over DEF Stop, Over
<1>20. CASE Fail
  BY <1>20, Over DEF Fail, Over
<1>21. CASE Take
  BY <1>21, Typed, Over DEF Take, Steps, conn, Typed, TypeOK, Over, Live,
     Running
<1>22. CASE Start
  BY <1>22, Over DEF Start, conn, Over, Live
<1>23. CASE DispatcherEnds
  BY <1>23, StdioAssumption, Typed, Over DEF DispatcherEnds, conn, Typed,
     TypeOK, Over, Live, Running
<1> QED
  BY <1>1, <1>2, <1>3, <1>4, <1>5, <1>6, <1>7, <1>8, <1>9, <1>10, <1>11, <1>12,
     <1>13, <1>14, <1>15, <1>16, <1>17, <1>18, <1>19, <1>20, <1>21, <1>22, <1>23
     DEF Next, Loop, Dispatcher

\* The invariant is inductive.
LEMMA InvStep == Inv /\ [Next]_vars => Inv'
  BY TypedStep, ShakenStep, DispatchedStep, TrackedStep, OverStep DEF Inv

THEOREM Invariant == Spec => []Inv
  BY InvInit, InvStep, PTL DEF Spec
-----------------------------------------------------------------------------
\* The loop, the queue, the stages of the requests and the router's table are
\* well typed in every reachable state.
THEOREM Typing == Spec => []TypeOK
<1>1. Inv => TypeOK
  BY DEF Inv, Typed
<1> QED
  BY <1>1, Invariant, PTL

\* A request that notifications/cancelled found in flight is not answered, even
\* when its handler has returned by itself.
THEOREM CancelledIsNotAnsweredHolds == Spec => []CancelledIsNotAnswered
<1>1. Inv => CancelledIsNotAnswered
  BY DEF Inv, Tracked, CancelledIsNotAnswered
<1> QED
  BY <1>1, Invariant, PTL

\* Every handler at work is in the router's table, however many requests share
\* its id and whichever of them ends first.
THEOREM TwinsStayWithinReachHolds == Spec => []TwinsStayWithinReach
<1>1. Inv => TwinsStayWithinReach
  BY DEF Inv, Tracked, TwinsStayWithinReach
<1> QED
  BY <1>1, Invariant, PTL

\* Nothing read behind an initialize starts before the loop has answered it.
THEOREM HandshakeComesFirstHolds == Spec => []HandshakeComesFirst
<1>1. Inv => HandshakeComesFirst
  BY DEF Inv, Shaken, HandshakeComesFirst
<1> QED
  BY <1>1, Invariant, PTL

\* When run_with_streams returns without an error, what it read is settled, or
\* told to abort after the grace.
THEOREM ReturnLeavesNothingHolds == Spec => []ReturnLeavesNothing
<1>1. ASSUME Inv PROVE ReturnLeavesNothing
  <2>1. SUFFICES ASSUME reader = "returned", ~failed, ~scope, NEW r \in Requests
                 PROVE  stage[r] \in {"unsent", "sent", "written", "silent",
                                    "lost"}
    BY <1>1 DEF Inv, Over, ReturnLeavesNothing
  <2>2. Live = {} /\ Framed = {}
    BY <1>1, <2>1 DEF Inv, Over
  <2>3. ~dispatching /\ r \notin Running \ Handshakes
    BY <2>2 DEF Live
  <2>4. stage[r] \notin {"queued", "held", "framed"}
    BY <1>1, <2>2, <2>3 DEF Inv, Dispatched, Framed
  <2>5. r \notin Running
    BY <1>1, <2>1, <2>3 DEF Inv, Shaken, Running
  <2> QED
    BY <1>1, <2>4, <2>5 DEF Inv, Typed, TypeOK, Stages, Running
<1> QED
  BY <1>1, Invariant, PTL
=============================================================================
