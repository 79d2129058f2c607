------------------------ MODULE TaskExecutionProofs ------------------------
(***************************************************************************)
(* The tasks of a router, for any tasks, tools, parks, invocations,        *)
(* updates and keys.                                                       *)
(***************************************************************************)
EXTENDS TaskExecution, FiniteSetTheorems, SequenceTheorems, TLAPS

SlotState == [pc : SlotPC, asked : SUBSET Keys, got : Got]
Request   == [pc : {"idle", "resuming", "replaying"}, task : Tasks \cup {NoTask},
              revision : {"final", "legacy"}]

\* The updates that committed the last answer of a task and are still served.
Resuming(t) == { u \in Updaters : updater[u].pc # "idle" /\ updater[u].task = t }

\* An update being served knows its task, which was created before it.
RequestsHaveTasks ==
  \A u \in Updaters :
    updater[u].pc # "idle" =>
      /\ updater[u].task \in Tasks
      /\ call[updater[u].task] = "answered"

\* Nothing happens to a task before its tools/call is answered.
CallComesFirst(t) ==
  /\ call[t] = "none" => record[t] = NoTask /\ ~overdue[t] /\ ~token[t]
  /\ call[t] # "answered" => hand[t] = "none" /\ Running(t) = {}
  /\ call[t] = "preparing" =>
       /\ record[t] \in Record /\ record[t].status = "working"
       /\ Outstanding(record[t]) = {}
  /\ token[t] => ~Editable(t)

\* A live handler's task is open until its outcome is recorded, and settled
\* before its registration goes; no ordinary invocation starts before that.
HandlerOwnsItsTask(t) ==
  /\ hand[t] # "none" => t \in Live
  /\ hand[t] \in {"running", "returned"} =>
       /\ record[t] \in Record /\ ~IsTerminal(record[t])
       /\ Running(t) = {}
       /\ \A u \in Resuming(t) : updater[u].pc = "resuming"
  /\ hand[t] \in {"recorded", "over"} => ~Editable(t)
  /\ t \in Live /\ call[t] = "answered" /\ hand[t] = "none" => ~Editable(t)

\* What a park asked is outstanding or spent, and all of it is spent once the
\* wait has found none of it outstanding.
ParksAreKept(t) ==
  \A s \in Slots :
    /\ slot[t][s].asked # {} =>
         /\ hand[t] = "running"
         /\ slot[t][s].asked \subseteq Outstanding(record[t]) \cup Spent(record[t])
    /\ slot[t][s].pc = "collecting" => slot[t][s].asked \subseteq Spent(record[t])
    /\ slot[t][s].got # "less"

\* An ordinary task has one owner: an invocation, or the update that committed
\* its last answer.  Nothing of it is outstanding while it has one, and it
\* reads input_required exactly while something is.
HasOneOwner(t) ==
  /\ \A i, j \in Running(t) : i = j
  /\ \A u, v \in Resuming(t) : u = v
  /\ Running(t) # {} => Resuming(t) = {}
  /\ Editable(t) /\ (Running(t) # {} \/ Resuming(t) # {}) =>
       Outstanding(record[t]) = {}
  /\ Editable(t) =>
       (record[t].status = "input_required" <=> Outstanding(record[t]) # {})

TaskInv(t) ==
  /\ CallComesFirst(t)
  /\ HandlerOwnsItsTask(t)
  /\ ParksAreKept(t)
  /\ t \notin Live => HasOneOwner(t)

IInv == TypeOK /\ RequestsHaveTasks /\ \A t \in Tasks : TaskInv(t)
-----------------------------------------------------------------------------
LEMMA KeyMapIntro ==
  ASSUME NEW S, NEW D \in SUBSET Keys, NEW f \in [D -> S]
  PROVE  f \in KeyMap(S) /\ DOMAIN f = D
  BY DEF KeyMap

LEMMA KeyMapElim ==
  ASSUME NEW S, NEW f \in KeyMap(S)
  PROVE  DOMAIN f \in SUBSET Keys /\ f \in [DOMAIN f -> S]
  BY DEF KeyMap

LEMMA NoInputsIsAKeyMap == \A S : NoInputs \in KeyMap(S) /\ DOMAIN NoInputs = {}
<1> SUFFICES ASSUME NEW S PROVE NoInputs \in KeyMap(S) /\ DOMAIN NoInputs = {}
  OBVIOUS
<1>1. NoInputs \in [{} -> S]
  BY DEF NoInputs
<1> QED
  BY <1>1, KeyMapIntro

LEMMA FixedSizes ==
  /\ Size \subseteq Nat
  /\ {0, FailText, FailError, CancelText} \subseteq Size
  /\ Loads \subseteq Size
  /\ Skeleton \in Nat /\ NameSize \in Nat /\ InputSize \in Nat
  /\ CancelText =< FailText + FailError
  BY RecordAssumption DEF Size

\* The rewrites of a record stay records.
LEMMA NewRecordIsARecord ==
  ASSUME NEW args \in Loads
  PROVE  /\ NewRecord(args) \in Record
         /\ NewRecord(args).status = "working"
         /\ Outstanding(NewRecord(args)) = {}
  BY NoInputsIsAKeyMap, FixedSizes DEF NewRecord, Record, Status, Open, Outstanding

LEMMA AskingIsARecord ==
  ASSUME NEW r \in Record, NEW requests \in KeyMap(Questions), NEW text \in Loads
  PROVE  /\ Asking(r, requests, text) \in Record
         /\ Asking(r, requests, text).status = "input_required"
         /\ Outstanding(Asking(r, requests, text)) = DOMAIN requests
         /\ Spent(Asking(r, requests, text))
              = Spent(r) \cup (Outstanding(r) \ DOMAIN requests)
<1>1. r.superseded \cup (Outstanding(r) \ DOMAIN requests) \in SUBSET Keys
  BY KeyMapElim DEF Record, Outstanding
<1> QED
  BY <1>1, FixedSizes
     DEF Asking, Record, Status, Open, Outstanding, Spent, Answered

LEMMA AnsweringIsARecord ==
  ASSUME NEW r \in Record, NEW responses \in KeyMap(Answers)
  PROVE  /\ Answering(r, responses) \in Record
         /\ Outstanding(Answering(r, responses))
              = StillOutstanding(r, responses)
         /\ Spent(Answering(r, responses)) = Spent(r) \cup Accepted(r, responses)
         /\ Answering(r, responses).status =
              IF StillOutstanding(r, responses) = {} /\ r.status = "input_required"
              THEN "working" ELSE r.status
<1> DEFINE left == StillOutstanding(r, responses)
           kept == [k \in left |-> r.asked[k]]
           given == Answered(r) \cup Accepted(r, responses)
           answers == [k \in given |-> IF k \in Accepted(r, responses)
                                       THEN responses[k] ELSE r.answers[k]]
<1>1. /\ Outstanding(r) \in SUBSET Keys
      /\ r.asked \in [Outstanding(r) -> Questions]
      /\ Answered(r) \in SUBSET Keys
      /\ r.answers \in [Answered(r) -> Answers]
      /\ responses \in [DOMAIN responses -> Answers]
  BY KeyMapElim DEF Record, Outstanding, Answered
<1>2. left \in SUBSET Keys /\ kept \in [left -> Questions]
  BY <1>1 DEF StillOutstanding
<1>3. given \in SUBSET Keys /\ answers \in [given -> Answers]
  BY <1>1 DEF Accepted
<1>4. kept \in KeyMap(Questions) /\ DOMAIN kept = left
  BY <1>2, KeyMapIntro
<1>5. answers \in KeyMap(Answers) /\ DOMAIN answers = given
  BY <1>3, KeyMapIntro
<1>6. /\ Answering(r, responses).asked = kept
      /\ Answering(r, responses).answers = answers
  BY DEF Answering, Record
<1>7. Answering(r, responses) \in Record
  <2> HIDE DEF kept, answers
  <2> DEFINE resumed == left = {} /\ r.status = "input_required"
  <2> DEFINE status == IF resumed THEN "working" ELSE r.status
             text == IF resumed THEN 0 ELSE r.text
  <2>1. Answering(r, responses) =
          [r EXCEPT !.asked = kept, !.answers = answers,
                    !.status = status, !.text = text]
    BY DEF Answering, kept, answers, Record
  <2>2. status \in Status /\ text \in Size
    BY FixedSizes DEF Record, Status, Open
  <2> HIDE DEF status, text
  <2> QED
    BY <2>1, <2>2, <1>4, <1>5 DEF Record
<1> QED
  <2>1. Answering(r, responses).superseded = r.superseded
    BY DEF Answering, Record
  <2>2. Answering(r, responses).status =
          IF left = {} /\ r.status = "input_required" THEN "working" ELSE r.status
    BY DEF Answering, Record
  <2> QED
    BY <1>4, <1>5, <1>6, <1>7, <2>1, <2>2 DEF Outstanding, Answered, Spent

LEMMA ProgressingIsARecord ==
  ASSUME NEW r \in Record, NEW status \in Open, NEW text \in Size
  PROVE  /\ Progressing(r, status, text) \in Record
         /\ Progressing(r, status, text).status = status
         /\ Outstanding(Progressing(r, status, text)) = Outstanding(r)
         /\ Spent(Progressing(r, status, text)) = Spent(r)
  BY DEF Progressing, Record, Status, Outstanding, Spent, Answered

LEMMA FinishingIsARecord ==
  ASSUME NEW r \in Record, NEW status \in Terminal, NEW text \in Size,
         NEW outcome \in Size
  PROVE  /\ Finishing(r, status, text, outcome) \in Record
         /\ IsTerminal(Finishing(r, status, text, outcome))
  BY NoInputsIsAKeyMap DEF Finishing, Record, Status, IsTerminal

LEMMA CancellingIsARecord ==
  ASSUME NEW r \in Record, NEW text \in Size
  PROVE  Cancelling(r, text) \in Record /\ IsTerminal(Cancelling(r, text))
  BY NoInputsIsAKeyMap DEF Cancelling, Record, Status, Terminal, IsTerminal
-----------------------------------------------------------------------------
\* The operators on the waits of one live handler.
LEMMA WithoutTyped ==
  ASSUME NEW line \in Seq(Slots), NEW s PROVE Without(line, s) \in Seq(Slots)
<1>1. CASE \E i \in 1..Len(line) : line[i] = s
  <2> DEFINE k == CHOOSE i \in 1..Len(line) : line[i] = s
  <2>1. k \in 1..Len(line)
    BY <1>1
  <2>2. Without(line, s) = RemoveAt(line, k)
    BY <1>1 DEF Without
  <2> HIDE DEF k
  <2>3. /\ SubSeq(line, 1, k - 1) \in Seq(Slots)
        /\ SubSeq(line, k + 1, Len(line)) \in Seq(Slots)
    <3>1. /\ \A i \in 1..(k - 1) : line[i] \in Slots
          /\ \A i \in (k + 1)..Len(line) : line[i] \in Slots
      BY <2>1
    <3> QED
      BY <2>1, <3>1, SubSeqProperties
  <2> QED
    BY <2>2, <2>3 DEF RemoveAt
<1>2. CASE ~\E i \in 1..Len(line) : line[i] = s
  BY <1>2 DEF Without
<1> QED
  BY <1>1, <1>2

\* What a store call that ends the task writes.
LEMMA TerminateWrites ==
  ASSUME TypeOK, NEW t \in Tasks, NEW status \in Terminal, Terminate(t, status)
  PROVE  \E r \in Record \cup {NoTask} :
           /\ Write(t, r)
           /\ Editable(t) => r \in Record /\ IsTerminal(r)
           /\ ~Editable(t) => r = record[t]
<1>1. record[t] \in Record \cup {NoTask}
  BY DEF TypeOK
<1>2. CASE Editable(t)
  <2>1. record[t] \in Record
    BY <1>1, <1>2 DEF Editable, Visible
  <2>2. /\ Finishing(record[t], status, 0, 0) \in Record
        /\ IsTerminal(Finishing(record[t], status, 0, 0))
    BY <2>1, FixedSizes, FinishingIsARecord
  <2> QED
    BY <1>2, <2>2 DEF Terminate
<1>3. CASE ~Editable(t)
  BY <1>1, <1>3 DEF Terminate
<1> QED
  BY <1>2, <1>3

LEMMA CancelWrites ==
  ASSUME TypeOK, NEW t \in Tasks, CancelInStore(t)
  PROVE  /\ \E r \in Record \cup {NoTask} :
              /\ Write(t, r)
              /\ Editable(t) => r \in Record /\ IsTerminal(r)
              /\ ~Editable(t) => r = record[t]
         /\ \/ token' = token
            \/ token' = [token EXCEPT ![t] = TRUE] /\ Visible(t)
<1>1. record[t] \in Record \cup {NoTask} /\ token[t] \in BOOLEAN
  BY DEF TypeOK
<1>2. token' = [token EXCEPT ![t] = token[t] \/ Visible(t)]
  BY DEF CancelInStore
<1>3. \/ token' = token
      \/ token' = [token EXCEPT ![t] = TRUE] /\ Visible(t)
  <2>1. CASE token[t] = FALSE /\ Visible(t)
    BY <1>2, <2>1
  <2>2. CASE ~Visible(t)
    <3>1. token' = [token EXCEPT ![t] = token[t]]
      BY <1>1, <1>2, <2>2
    <3> QED
      BY <3>1 DEF TypeOK
  <2>3. CASE token[t] = TRUE
    <3>1. token' = [token EXCEPT ![t] = token[t]]
      BY <1>1, <1>2, <2>3
    <3> QED
      BY <3>1 DEF TypeOK
  <2> QED
    BY <1>1, <2>1, <2>2, <2>3
<1>4. CASE Editable(t)
  <2>1. record[t] \in Record
    BY <1>1, <1>4 DEF Editable, Visible
  <2>2. /\ Cancelling(record[t], 0) \in Record
        /\ IsTerminal(Cancelling(record[t], 0))
    BY <2>1, FixedSizes, CancellingIsARecord
  <2> QED
    BY <1>3, <1>4, <2>2 DEF CancelInStore
<1>5. CASE ~Editable(t)
  BY <1>1, <1>3, <1>5 DEF CancelInStore
<1> QED
  BY <1>4, <1>5
-----------------------------------------------------------------------------
\* The operators on the waits of one live handler: what a row of parks
\* becomes, with the stored permit and the line still of their types.
Becomes(t, row) ==
  /\ slot' = [slot EXCEPT ![t] = row]
  /\ permit' \in [Tasks -> BOOLEAN]
  /\ queue' \in [Tasks -> Seq(Slots)]

LEMMA NotifyOneWakes ==
  ASSUME TypeOK, NEW t \in Tasks, NEW slots \in [Slots -> SlotState],
         NEW line \in Seq(Slots), NotifyOne(t, slots, line)
  PROVE  \E row \in [Slots -> SlotState] :
           /\ Becomes(t, row)
           /\ \A s \in Slots : /\ row[s].asked = slots[s].asked
                               /\ row[s].got = slots[s].got
                               /\ row[s].pc \in {slots[s].pc, "woken"}
<1>1. CASE line = <<>>
  <2>1. Becomes(t, slots)
    BY <1>1 DEF NotifyOne, Becomes, TypeOK
  <2> QED
    BY <2>1
<1>2. CASE line # <<>>
  <2> DEFINE row == [slots EXCEPT ![Head(line)].pc = "woken"]
  <2>1. Tail(line) \in Seq(Slots)
    BY <1>2
  <2>2. row \in [Slots -> SlotState]
    BY DEF SlotState, SlotPC
  <2>3. \A s \in Slots : /\ row[s].asked = slots[s].asked
                         /\ row[s].got = slots[s].got
                         /\ row[s].pc \in {slots[s].pc, "woken"}
    BY DEF SlotState
  <2>4. Becomes(t, row)
    BY <1>2, <2>1 DEF NotifyOne, Becomes, TypeOK
  <2> QED
    BY <2>2, <2>3, <2>4
<1> QED
  BY <1>1, <1>2

Freed(t, s, got, row) ==
  /\ row[s].asked = {} /\ row[s].got = got
  /\ \A x \in Slots \ {s} : /\ row[x].asked = slot[t][x].asked
                            /\ row[x].got = slot[t][x].got
                            /\ row[x].pc \in {slot[t][x].pc, "woken"}

LEMMA LeaveFrees ==
  ASSUME TypeOK, NEW t \in Tasks, NEW s \in Slots, NEW got \in Got,
         Leave(t, s, got)
  PROVE  \E row \in [Slots -> SlotState] : Becomes(t, row) /\ Freed(t, s, got, row)
<1> DEFINE slots == [slot[t] EXCEPT ![s] = [Empty EXCEPT !.got = got]]
           line == Without(queue[t], s)
<1>1. slot[t] \in [Slots -> SlotState]
  BY DEF TypeOK, SlotState
<1>2. /\ slots \in [Slots -> SlotState]
      /\ slots[s].asked = {} /\ slots[s].got = got
      /\ \A x \in Slots \ {s} : slots[x] = slot[t][x]
  BY <1>1 DEF SlotState, SlotPC, Empty
<1>3. line \in Seq(Slots)
  BY WithoutTyped DEF TypeOK
<1>4. CASE slot[t][s].pc = "woken"
  <2>1. NotifyOne(t, slots, line)
    BY <1>4 DEF Leave
  <2> HIDE DEF slots, line
  <2>2. PICK row \in [Slots -> SlotState] :
           /\ Becomes(t, row)
           /\ \A x \in Slots : /\ row[x].asked = slots[x].asked
                               /\ row[x].got = slots[x].got
                               /\ row[x].pc \in {slots[x].pc, "woken"}
    BY <1>2, <1>3, <2>1, NotifyOneWakes
  <2>3. Freed(t, s, got, row)
    BY <1>2, <2>2 DEF Freed
  <2> QED
    BY <2>2, <2>3
<1>5. CASE slot[t][s].pc # "woken"
  <2>1. Becomes(t, slots)
    BY <1>3, <1>5 DEF Leave, Becomes, TypeOK
  <2>2. Freed(t, s, got, slots)
    BY <1>2 DEF Freed
  <2> HIDE DEF slots, line
  <2> QED
    BY <1>2, <2>1, <2>2
<1> QED
  BY <1>4, <1>5

Moved(t, s, pc, row) ==
  /\ row[s] = [slot[t][s] EXCEPT !.pc = pc]
  /\ \A x \in Slots \ {s} : row[x] = slot[t][x]

LEMMA GoesToTyped ==
  ASSUME TypeOK, NEW t \in Tasks, NEW s \in Slots, NEW pc \in SlotPC,
         GoesTo(t, s, pc)
  PROVE  \E row \in [Slots -> SlotState] :
           slot' = [slot EXCEPT ![t] = row] /\ Moved(t, s, pc, row)
<1> DEFINE row == [slot[t] EXCEPT ![s].pc = pc]
<1>1. slot[t] \in [Slots -> SlotState]
  BY DEF TypeOK, SlotState
<1>2. row \in [Slots -> SlotState]
  BY <1>1 DEF SlotState
<1>3. slot' = [slot EXCEPT ![t] = row]
  BY DEF GoesTo
<1>4. Moved(t, s, pc, row)
  BY <1>1 DEF Moved
<1> QED
  BY <1>2, <1>3, <1>4

-----------------------------------------------------------------------------
\* A step that leaves a task's row and the requests about it alone keeps what
\* the invariant says of it.
Untouched(t) ==
  /\ record'[t] = record[t] /\ overdue'[t] = overdue[t] /\ token'[t] = token[t]
  /\ call'[t] = call[t] /\ hand'[t] = hand[t]
  /\ slot'[t] = slot[t] /\ run'[t] = run[t]
  /\ \A u \in Updaters :
       \/ updater'[u] = updater[u]
       \/ u \notin Resuming(t) /\ u \notin Resuming(t)'

LEMMA UntouchedKeeps ==
  ASSUME NEW t \in Tasks, TaskInv(t), Untouched(t)
  PROVE  TaskInv(t)'
<1>1. Running(t)' = Running(t) /\ Editable(t)' = Editable(t)
  BY DEF Untouched, Running, Editable, Visible
<1>2. /\ Resuming(t)' = Resuming(t)
      /\ \A u \in Resuming(t) : updater'[u] = updater[u]
  BY DEF Untouched, Resuming
<1>3. CallComesFirst(t)'
  BY <1>1 DEF Untouched, TaskInv, CallComesFirst
<1>4. HandlerOwnsItsTask(t)'
  BY <1>1, <1>2 DEF Untouched, TaskInv, HandlerOwnsItsTask
<1>5. ParksAreKept(t)'
  BY DEF Untouched, TaskInv, ParksAreKept
<1>6. t \notin Live => HasOneOwner(t)'
  BY <1>1, <1>2 DEF Untouched, TaskInv, HasOneOwner
<1> QED
  BY <1>3, <1>4, <1>5, <1>6 DEF TaskInv

\* What remains to be shown of a step that is about one task.
LEMMA OneTaskSuffices ==
  ASSUME IInv, NEW t \in Tasks, TypeOK', RequestsHaveTasks', TaskInv(t)',
         \A x \in Tasks \ {t} : Untouched(x)
  PROVE  IInv'
  BY UntouchedKeeps DEF IInv

LEMMA InitIInv == Init => IInv
<1> SUFFICES ASSUME Init PROVE IInv
  OBVIOUS
<1>1. TypeOK
  BY FixedSizes DEF Init, TypeOK, CallPC, HandPC, RunPC, SlotPC, Got, Empty, AtRest
<1>2. RequestsHaveTasks
  BY DEF Init, RequestsHaveTasks, AtRest
<1>3. ASSUME NEW t \in Tasks PROVE TaskInv(t)
  <2>1. Running(t) = {} /\ Resuming(t) = {} /\ ~Editable(t)
    BY DEF Init, Running, Resuming, Editable, Visible, AtRest
  <2>2. ParksAreKept(t)
    BY DEF Init, ParksAreKept, Empty
  <2> QED
    BY <2>1, <2>2 DEF Init, TaskInv, CallComesFirst, HandlerOwnsItsTask, HasOneOwner
<1> QED
  BY <1>1, <1>2, <1>3 DEF IInv
-----------------------------------------------------------------------------
\* tools/call.
LEMMA CreateKeeps ==
  ASSUME IInv, NEW t \in Tasks, Create(t)
  PROVE  IInv'
<1>1. /\ NewRecord(0) \in Record /\ NewRecord(0).status = "working"
      /\ Outstanding(NewRecord(0)) = {}
  BY RecordAssumption, NewRecordIsARecord
<1>2. TypeOK /\ RequestsHaveTasks /\ TaskInv(t)
  BY DEF IInv
<1>3. /\ record' = [record EXCEPT ![t] = NewRecord(0)]
      /\ call' = [call EXCEPT ![t] = "preparing"] /\ call[t] = "none"
      /\ UNCHANGED <<overdue, token, hand, cancelled, waits, run, updater>>
  BY DEF Create, Write
<1>4. /\ record'[t] = NewRecord(0) /\ call'[t] = "preparing"
      /\ Running(t)' = {} /\ Resuming(t)' = {} /\ hand'[t] = "none" /\ ~token'[t]
  BY <1>2, <1>3 DEF TypeOK, TaskInv, CallComesFirst, RequestsHaveTasks,
                    Running, Resuming
<1>5. TypeOK'
  BY <1>1, <1>2, <1>3 DEF TypeOK, CallPC, waits
<1>6. RequestsHaveTasks'
  BY <1>2, <1>3 DEF RequestsHaveTasks, TypeOK
<1>7. TaskInv(t)'
  <2>1. CallComesFirst(t)'
    BY <1>1, <1>4 DEF CallComesFirst
  <2>2. HandlerOwnsItsTask(t)'
    BY <1>4 DEF HandlerOwnsItsTask
  <2>3. ParksAreKept(t)'
    BY <1>2, <1>3, <1>4 DEF TaskInv, ParksAreKept, CallComesFirst, waits
  <2>4. HasOneOwner(t)'
    BY <1>1, <1>4 DEF HasOneOwner
  <2> QED
    BY <2>1, <2>2, <2>3, <2>4 DEF TaskInv
<1>8. \A x \in Tasks \ {t} : Untouched(x)
  BY <1>2, <1>3 DEF Untouched, TypeOK, waits
<1> QED
  BY <1>5, <1>6, <1>7, <1>8, OneTaskSuffices

LEMMA AbandonKeeps ==
  ASSUME IInv, NEW t \in Tasks, Abandon(t)
  PROVE  IInv'
<1>1. TypeOK /\ RequestsHaveTasks /\ TaskInv(t)
  BY DEF IInv
<1>2. /\ record' = [record EXCEPT ![t] = NoTask]
      /\ call' = [call EXCEPT ![t] = "answered"] /\ call[t] = "preparing"
      /\ UNCHANGED <<overdue, token, hand, cancelled, waits, run, updater>>
  BY DEF Abandon, Write
<1>3. /\ record'[t] = NoTask /\ ~Editable(t)' /\ call'[t] = "answered"
      /\ Running(t)' = {} /\ Resuming(t)' = {} /\ hand'[t] = "none"
  BY <1>1, <1>2 DEF TypeOK, TaskInv, CallComesFirst, RequestsHaveTasks,
                    Running, Resuming, Editable, Visible
<1>4. TypeOK'
  BY <1>1, <1>2 DEF TypeOK, CallPC, waits
<1>5. RequestsHaveTasks'
  BY <1>1, <1>2 DEF RequestsHaveTasks, TypeOK
<1>6. TaskInv(t)'
  <2>1. ParksAreKept(t)'
    BY <1>1, <1>2, <1>3 DEF TaskInv, ParksAreKept, CallComesFirst, waits
  <2> QED
    BY <1>3, <2>1 DEF TaskInv, CallComesFirst, HandlerOwnsItsTask, HasOneOwner
<1>7. \A x \in Tasks \ {t} : Untouched(x)
  BY <1>1, <1>2 DEF Untouched, TypeOK, waits
<1> QED
  BY <1>4, <1>5, <1>6, <1>7, OneTaskSuffices

LEMMA SpawnKeeps ==
  ASSUME IInv, NEW t \in Tasks, Spawn(t)
  PROVE  IInv'
<1>1. TypeOK /\ RequestsHaveTasks /\ TaskInv(t)
  BY DEF IInv
<1>2. /\ call' = [call EXCEPT ![t] = "answered"] /\ call[t] = "preparing"
      /\ UNCHANGED <<store, cancelled, waits, updater>>
  BY DEF Spawn
<1>3. /\ Running(t) = {} /\ Resuming(t) = {} /\ Resuming(t)' = {}
      /\ hand[t] = "none" /\ Editable(t)' = Editable(t)
      /\ record[t].status = "working" /\ Outstanding(record[t]) = {}
  BY <1>1, <1>2 DEF TaskInv, CallComesFirst, RequestsHaveTasks, Resuming,
                    Editable, Visible, store
<1>4. RequestsHaveTasks'
  BY <1>1, <1>2 DEF RequestsHaveTasks, TypeOK
<1>5. ParksAreKept(t)'
  BY <1>1, <1>2, <1>3 DEF TaskInv, ParksAreKept, waits, store
<1>6. \A x \in Tasks \ {t} : call'[x] = call[x]
  BY <1>1, <1>2 DEF TypeOK
<1>7. CASE t \in Live
  <2>1. hand' = [hand EXCEPT ![t] = "running"] /\ run' = run
    BY <1>7 DEF Spawn
  <2>2. TypeOK'
    BY <1>1, <1>2, <2>1 DEF TypeOK, CallPC, HandPC, waits, store
  <2>3. /\ record'[t] \in Record /\ ~IsTerminal(record'[t])
        /\ Running(t)' = {} /\ call'[t] = "answered" /\ token'[t] = token[t]
        /\ hand'[t] = "running"
    BY <1>1, <1>2, <1>3, <2>1
       DEF TaskInv, CallComesFirst, IsTerminal, Terminal, Running, store, TypeOK
  <2>4. TaskInv(t)'
    BY <1>1, <1>3, <1>5, <1>7, <2>3 DEF TaskInv, CallComesFirst, HandlerOwnsItsTask
  <2>5. \A x \in Tasks \ {t} : Untouched(x)
    BY <1>1, <1>2, <1>6, <2>1 DEF Untouched, TypeOK, waits, store
  <2> QED
    BY <1>4, <2>2, <2>4, <2>5, OneTaskSuffices
<1>8. CASE t \notin Live
  <2>1. PICK i \in Invocations :
          hand' = hand /\ run' = [run EXCEPT ![t][i] = "starting"]
    BY <1>8 DEF Spawn
  <2>2. TypeOK'
    BY <1>1, <1>2, <2>1 DEF TypeOK, CallPC, RunPC, waits, store
  <2>3. Running(t)' = {i} /\ call'[t] = "answered" /\ hand'[t] = "none"
    BY <1>1, <1>2, <1>3, <2>1 DEF Running, TypeOK
  <2>4. token'[t] = token[t] /\ record'[t] = record[t]
    BY <1>2 DEF store
  <2>5. CallComesFirst(t)' /\ HandlerOwnsItsTask(t)'
    BY <1>1, <1>3, <1>8, <2>3, <2>4 DEF TaskInv, CallComesFirst, HandlerOwnsItsTask
  <2>6. HasOneOwner(t)'
    BY <1>3, <2>3, <2>4 DEF HasOneOwner
  <2>7. \A x \in Tasks \ {t} : Untouched(x)
    BY <1>1, <1>2, <1>6, <2>1 DEF Untouched, TypeOK, waits, store
  <2> QED
    BY <1>4, <1>5, <2>2, <2>5, <2>6, <2>7, OneTaskSuffices DEF TaskInv
<1> QED
  BY <1>7, <1>8

-----------------------------------------------------------------------------
\* The steps of a wait, which change its live handler's parks and nothing else.
Keeps(t, row) ==
  \A s \in Slots :
    /\ row[s].asked \in {slot[t][s].asked, {}}
    /\ row[s].pc = "collecting" => row[s].asked \subseteq Spent(record[t])
    /\ row[s].got # "less"

LEMMA WaitsKeep ==
  ASSUME IInv, NEW t \in Tasks, NEW row \in [Slots -> SlotState],
         Becomes(t, row), Keeps(t, row), UNCHANGED Elsewhere
  PROVE  IInv'
<1>1. TypeOK /\ RequestsHaveTasks /\ TaskInv(t)
  BY DEF IInv
<1>2. /\ UNCHANGED <<record, overdue, token, call, hand, cancelled, run, updater>>
      /\ slot' = [slot EXCEPT ![t] = row] /\ slot'[t] = row
  BY <1>1 DEF Elsewhere, store, Becomes, TypeOK
<1>3. TypeOK'
  BY <1>1, <1>2 DEF TypeOK, Becomes, SlotState
<1>4. RequestsHaveTasks'
  BY <1>1, <1>2 DEF RequestsHaveTasks
<1>5. ParksAreKept(t)'
  BY <1>1, <1>2 DEF TaskInv, ParksAreKept, Keeps
<1>6. /\ CallComesFirst(t)' /\ HandlerOwnsItsTask(t)'
      /\ t \notin Live => HasOneOwner(t)'
  <2>1. /\ Running(t)' = Running(t) /\ Resuming(t)' = Resuming(t)
        /\ Editable(t)' = Editable(t)
    BY <1>2 DEF Running, Resuming, Editable, Visible
  <2> QED
    BY <1>1, <1>2, <2>1 DEF TaskInv, CallComesFirst, HandlerOwnsItsTask, HasOneOwner
<1>7. \A x \in Tasks \ {t} : Untouched(x)
  BY <1>1, <1>2 DEF Untouched, TypeOK
<1> QED
  BY <1>3, <1>4, <1>5, <1>6, <1>7, OneTaskSuffices DEF TaskInv

LEMMA LeavingKeeps ==
  ASSUME IInv, NEW t \in Tasks, NEW s \in Slots, NEW got \in Got \ {"less"},
         Leave(t, s, got), UNCHANGED Elsewhere
  PROVE  IInv'
<1>1. TypeOK /\ TaskInv(t)
  BY DEF IInv
<1>2. PICK row \in [Slots -> SlotState] : Becomes(t, row) /\ Freed(t, s, got, row)
  <2>1. got \in Got
    OBVIOUS
  <2> QED
    BY <1>1, <2>1, LeaveFrees
<1>3. Keeps(t, row)
  BY <1>1, <1>2 DEF Freed, Keeps, TaskInv, ParksAreKept
<1> QED
  BY <1>2, <1>3, WaitsKeep

LEMMA GoingOnKeeps ==
  ASSUME IInv, NEW t \in Tasks, NEW s \in Slots, NEW pc \in SlotPC,
         pc = "collecting" => slot[t][s].asked \subseteq Spent(record[t]),
         GoesTo(t, s, pc), permit' \in [Tasks -> BOOLEAN],
         queue' \in [Tasks -> Seq(Slots)], UNCHANGED Elsewhere
  PROVE  IInv'
<1>1. TypeOK /\ TaskInv(t)
  BY DEF IInv
<1>2. PICK row \in [Slots -> SlotState] :
        slot' = [slot EXCEPT ![t] = row] /\ Moved(t, s, pc, row)
  BY <1>1, GoesToTyped
<1>3. slot[t][s] \in SlotState
  BY <1>1 DEF TypeOK, SlotState
<1>4. /\ row[s].pc = pc /\ row[s].asked = slot[t][s].asked
      /\ row[s].got = slot[t][s].got
  BY <1>2, <1>3 DEF Moved, SlotState
<1>5. Keeps(t, row)
  BY <1>1, <1>2, <1>4 DEF Moved, Keeps, TaskInv, ParksAreKept
<1> QED
  BY <1>2, <1>5, WaitsKeep DEF Becomes

LEMMA WaitingKeeps ==
  ASSUME IInv, NEW t \in Tasks, NEW s \in Slots,
         BeginWait(t, s) \/ WaitStep(t, s) \/ DropPending(t, s)
  PROVE  IInv'
<1>1. TypeOK /\ TaskInv(t)
  BY DEF IInv
<1>2. permit \in [Tasks -> BOOLEAN] /\ queue \in [Tasks -> Seq(Slots)]
  BY <1>1 DEF TypeOK
<1>3. {"error", "nothing", "everything", "superseded"} \subseteq Got \ {"less"}
  BY DEF Got
<1>4. {"reading", "polling", "sleeping", "collecting"} \subseteq SlotPC
  BY DEF SlotPC
<1>5. CASE BeginWait(t, s)
  BY <1>2, <1>3, <1>4, <1>5, LeavingKeeps, GoingOnKeeps DEF BeginWait
<1>6. CASE ReadOutstanding(t, s)
  <2>1. CASE ~Visible(t)
    BY <1>3, <1>6, <2>1, LeavingKeeps DEF ReadOutstanding
  <2>2. CASE Visible(t) /\ slot[t][s].asked \cap Outstanding(record[t]) = {}
    <3>1. slot[t][s].asked \subseteq Spent(record[t])
      BY <1>1, <2>2 DEF TaskInv, ParksAreKept
    <3> QED
      BY <1>2, <1>4, <1>6, <2>2, <3>1, GoingOnKeeps DEF ReadOutstanding
  <2>3. CASE Visible(t) /\ slot[t][s].asked \cap Outstanding(record[t]) # {}
    BY <1>2, <1>4, <1>6, <2>3, GoingOnKeeps DEF ReadOutstanding
  <2> QED
    BY <2>1, <2>2, <2>3
<1>7. CASE Poll(t, s)
  <2>1. permit' \in [Tasks -> BOOLEAN] /\ queue' \in [Tasks -> Seq(Slots)]
    <3>1. Append(queue[t], s) \in Seq(Slots)
      BY <1>2
    <3> QED
      BY <1>2, <1>7, <3>1 DEF Poll
  <2> QED
    BY <1>4, <1>7, <2>1, GoingOnKeeps DEF Poll
<1>8. CASE ReadAgain(t, s)
  BY <1>2, <1>4, <1>8, GoingOnKeeps DEF ReadAgain
<1>9. CASE ObserveCancellation(t, s)
  BY <1>3, <1>9, LeavingKeeps DEF ObserveCancellation
<1>10. CASE Collect(t, s)
  <2>1. slot[t][s].asked \subseteq Spent(record[t])
    BY <1>1, <1>10 DEF Collect, TaskInv, ParksAreKept
  <2> QED
    BY <1>3, <1>10, <2>1, LeavingKeeps DEF Collect
<1>11. CASE DropPending(t, s)
  BY <1>3, <1>11, LeavingKeeps DEF DropPending
<1> QED
  BY <1>5, <1>6, <1>7, <1>8, <1>9, <1>10, <1>11 DEF WaitStep

-----------------------------------------------------------------------------
\* The other steps of a live handler.
LEMMA ParkKeeps ==
  ASSUME IInv, NEW t \in Tasks, NEW s \in Slots,
         NEW requests \in KeyMap(Questions), Park(t, s, requests)
  PROVE  IInv'
<1>1. TypeOK /\ RequestsHaveTasks /\ TaskInv(t)
  BY DEF IInv
<1>2. /\ hand[t] = "running" /\ t \in Live /\ call[t] = "answered"
      /\ Editable(t) /\ record[t] \in Record
      /\ UNCHANGED <<overdue, token, call, hand, cancelled, permit, queue, run,
                     updater>>
  BY <1>1 DEF Park, TypeOK, TaskInv, CallComesFirst, HandlerOwnsItsTask, CallPC
<1>3. PICK r \in Record :
         /\ record' = [record EXCEPT ![t] = r]
         /\ r.status = "input_required" /\ Outstanding(r) = DOMAIN requests
         /\ Spent(r) = Spent(record[t])
                         \cup (Outstanding(record[t]) \ DOMAIN requests)
  BY <1>2, RecordAssumption, AskingIsARecord DEF Park, Write
<1>4. DOMAIN requests \in SUBSET Keys
  BY KeyMapElim
<1>5. PICK row \in [Slots -> SlotState] :
         /\ slot' = [slot EXCEPT ![t] = row]
         /\ row[s].pc = "held" /\ row[s].asked = DOMAIN requests
         /\ row[s].got = "nothing"
         /\ \A x \in Slots \ {s} : row[x] = slot[t][x]
  <2> DEFINE park == [Empty EXCEPT !.pc = "held", !.asked = DOMAIN requests]
             row == [slot[t] EXCEPT ![s] = park]
  <2>1. /\ park \in SlotState /\ park.pc = "held"
        /\ park.asked = DOMAIN requests /\ park.got = "nothing"
    BY <1>4 DEF Empty, SlotState, SlotPC, Got
  <2>2. slot[t] \in [Slots -> SlotState]
    BY <1>1 DEF TypeOK, SlotState
  <2>3. slot' = [slot EXCEPT ![t] = row]
    BY DEF Park
  <2> HIDE DEF park
  <2>4. row \in [Slots -> SlotState]
    BY <2>1, <2>2
  <2>5. row[s] = park /\ \A x \in Slots \ {s} : row[x] = slot[t][x]
    BY <2>2
  <2> HIDE DEF row
  <2> QED
    BY <2>1, <2>3, <2>4, <2>5
<1>6. /\ record'[t] = r /\ slot'[t] = row /\ hand'[t] = "running"
      /\ call'[t] = "answered" /\ token'[t] = token[t]
      /\ Running(t)' = Running(t) /\ Resuming(t)' = Resuming(t)
  BY <1>1, <1>2, <1>3, <1>5 DEF TypeOK, Running, Resuming
<1>7. TypeOK'
  BY <1>1, <1>2, <1>3, <1>5 DEF TypeOK, SlotState
<1>8. RequestsHaveTasks'
  BY <1>1, <1>2 DEF RequestsHaveTasks
<1>9. CallComesFirst(t)'
  BY <1>1, <1>2, <1>6 DEF TaskInv, CallComesFirst
<1>10. HandlerOwnsItsTask(t)'
  BY <1>1, <1>2, <1>3, <1>6
     DEF TaskInv, HandlerOwnsItsTask, IsTerminal, Terminal
<1>11. ParksAreKept(t)'
  BY <1>1, <1>2, <1>3, <1>5, <1>6 DEF TaskInv, ParksAreKept
<1>12. \A x \in Tasks \ {t} : Untouched(x)
  BY <1>1, <1>2, <1>3, <1>5 DEF Untouched, TypeOK
<1> QED
  BY <1>2, <1>7, <1>8, <1>9, <1>10, <1>11, <1>12, OneTaskSuffices DEF TaskInv

LEMMA WorkingKeeps ==
  ASSUME IInv, NEW t \in Tasks, Working(t)
  PROVE  IInv'
<1>1. TypeOK /\ RequestsHaveTasks /\ TaskInv(t)
  BY DEF IInv
<1>2. /\ hand[t] = "running" /\ t \in Live /\ call[t] = "answered"
      /\ Editable(t) /\ record[t] \in Record
      /\ UNCHANGED <<overdue, token, call, hand, cancelled, waits, run, updater>>
  BY <1>1 DEF Working, TypeOK, TaskInv, CallComesFirst, HandlerOwnsItsTask, CallPC
<1>3. PICK r \in Record :
         /\ record' = [record EXCEPT ![t] = r] /\ r.status = "working"
         /\ Outstanding(r) = Outstanding(record[t]) /\ Spent(r) = Spent(record[t])
  <2> DEFINE r == Progressing(record[t], "working", 0)
  <2>1. record' = [record EXCEPT ![t] = r]
    BY DEF Working, Write
  <2>2. /\ r \in Record /\ r.status = "working"
        /\ Outstanding(r) = Outstanding(record[t]) /\ Spent(r) = Spent(record[t])
    BY <1>2, FixedSizes, ProgressingIsARecord DEF Open
  <2> HIDE DEF r
  <2> QED
    BY <2>1, <2>2
<1>4. /\ record'[t] = r /\ slot'[t] = slot[t] /\ hand'[t] = "running"
      /\ call'[t] = "answered" /\ token'[t] = token[t]
      /\ Running(t)' = Running(t) /\ Resuming(t)' = Resuming(t)
  BY <1>1, <1>2, <1>3 DEF TypeOK, Running, Resuming, waits
<1>5. TypeOK'
  BY <1>1, <1>2, <1>3 DEF TypeOK, waits
<1>6. RequestsHaveTasks'
  BY <1>1, <1>2 DEF RequestsHaveTasks
<1>7. CallComesFirst(t)'
  BY <1>1, <1>2, <1>4 DEF TaskInv, CallComesFirst
<1>8. HandlerOwnsItsTask(t)'
  BY <1>1, <1>2, <1>3, <1>4
     DEF TaskInv, HandlerOwnsItsTask, IsTerminal, Terminal
<1>9. ParksAreKept(t)'
  BY <1>1, <1>2, <1>3, <1>4 DEF TaskInv, ParksAreKept
<1>10. \A x \in Tasks \ {t} : Untouched(x)
  BY <1>1, <1>2, <1>3 DEF Untouched, TypeOK, waits
<1> QED
  BY <1>2, <1>5, <1>6, <1>7, <1>8, <1>9, <1>10, OneTaskSuffices DEF TaskInv

LEMMA HandlerEndsKeeps ==
  ASSUME IInv, NEW t \in Tasks, HandlerEnds(t)
  PROVE  IInv'
<1>1. TypeOK /\ RequestsHaveTasks /\ TaskInv(t)
  BY DEF IInv
<1>2. /\ hand[t] = "running" /\ hand' = [hand EXCEPT ![t] = "returned"]
      /\ slot' = [slot EXCEPT ![t] = [s \in Slots |-> Empty]]
      /\ queue' = [queue EXCEPT ![t] = <<>>]
      /\ UNCHANGED <<record, overdue, token, call, cancelled, permit, run, updater>>
  BY DEF HandlerEnds, Goes, store
<1>3. /\ slot'[t] = [s \in Slots |-> Empty] /\ hand'[t] = "returned"
      /\ Running(t)' = Running(t) /\ Resuming(t)' = Resuming(t)
      /\ Editable(t)' = Editable(t)
  BY <1>1, <1>2 DEF TypeOK, Running, Resuming, Editable, Visible
<1>4. TypeOK'
  BY <1>1, <1>2 DEF TypeOK, HandPC, SlotPC, Got, Empty
<1>5. RequestsHaveTasks'
  BY <1>1, <1>2 DEF RequestsHaveTasks
<1>6. CallComesFirst(t)' /\ HandlerOwnsItsTask(t)'
  BY <1>1, <1>2, <1>3 DEF TaskInv, CallComesFirst, HandlerOwnsItsTask
<1>7. ParksAreKept(t)'
  BY <1>3 DEF ParksAreKept, Empty
<1>8. t \in Live
  BY <1>1, <1>2 DEF TaskInv, HandlerOwnsItsTask
<1>9. \A x \in Tasks \ {t} : Untouched(x)
  BY <1>1, <1>2 DEF Untouched, TypeOK
<1> QED
  BY <1>4, <1>5, <1>6, <1>7, <1>8, <1>9, OneTaskSuffices DEF TaskInv

LEMMA UnregisterKeeps ==
  ASSUME IInv, NEW t \in Tasks, Unregister(t)
  PROVE  IInv'
<1>1. TypeOK /\ RequestsHaveTasks /\ TaskInv(t)
  BY DEF IInv
<1>2. /\ hand[t] = "recorded" /\ hand' = [hand EXCEPT ![t] = "over"]
      /\ UNCHANGED <<record, overdue, token, call, cancelled, slot, permit, queue,
                     run, updater>>
  BY DEF Unregister, Goes, store, waits
<1>3. /\ hand'[t] = "over" /\ Running(t)' = Running(t)
      /\ Resuming(t)' = Resuming(t) /\ Editable(t)' = Editable(t)
  BY <1>1, <1>2 DEF TypeOK, Running, Resuming, Editable, Visible
<1>4. TypeOK'
  BY <1>1, <1>2 DEF TypeOK, HandPC
<1>5. RequestsHaveTasks'
  BY <1>1, <1>2 DEF RequestsHaveTasks
<1>6. CallComesFirst(t)' /\ HandlerOwnsItsTask(t)' /\ ParksAreKept(t)'
  BY <1>1, <1>2, <1>3
     DEF TaskInv, CallComesFirst, HandlerOwnsItsTask, ParksAreKept
<1>7. t \in Live
  BY <1>1, <1>2 DEF TaskInv, HandlerOwnsItsTask
<1>8. \A x \in Tasks \ {t} : Untouched(x)
  BY <1>1, <1>2 DEF Untouched, TypeOK
<1> QED
  BY <1>4, <1>5, <1>6, <1>7, <1>8, OneTaskSuffices DEF TaskInv

-----------------------------------------------------------------------------
\* A step after which the task is not open, and which no running live handler
\* takes.
LEMMA SettlingKeeps ==
  ASSUME IInv, NEW t \in Tasks, ~Editable(t)', call[t] = "answered",
         hand[t] # "running", hand'[t] \notin {"running", "returned"},
         hand'[t] # "none" => t \in Live,
         call'[t] = call[t], slot'[t] = slot[t],
         Running(t)' \subseteq Running(t), Resuming(t)' = Resuming(t)
  PROVE  TaskInv(t)'
<1>1. TaskInv(t)
  BY DEF IInv
<1>2. CallComesFirst(t)' /\ HandlerOwnsItsTask(t)'
  BY DEF CallComesFirst, HandlerOwnsItsTask
<1>3. ParksAreKept(t)'
  BY <1>1 DEF TaskInv, ParksAreKept
<1>4. t \notin Live => HasOneOwner(t)'
  BY <1>1 DEF TaskInv, HasOneOwner
<1> QED
  BY <1>2, <1>3, <1>4 DEF TaskInv

LEMMA RecordOutcomeKeeps ==
  ASSUME IInv, NEW t \in Tasks, RecordOutcome(t)
  PROVE  IInv'
<1>1. TypeOK /\ RequestsHaveTasks /\ TaskInv(t)
  BY DEF IInv
<1>2. /\ hand[t] = "returned" /\ hand' = [hand EXCEPT ![t] = "recorded"]
      /\ UNCHANGED <<overdue, call, cancelled, slot, permit, queue, run, updater>>
  BY DEF RecordOutcome, Goes, waits
<1>3. t \in Live /\ call[t] = "answered"
  BY <1>1, <1>2 DEF TaskInv, CallComesFirst, HandlerOwnsItsTask
<1>4. PICK r \in Record \cup {NoTask} :
        /\ Write(t, r)
        /\ Editable(t) => r \in Record /\ IsTerminal(r)
        /\ ~Editable(t) => r = record[t]
  BY <1>1, TerminateWrites, CancelWrites DEF RecordOutcome, Terminal
<1>5. token' = token \/ token' = [token EXCEPT ![t] = TRUE]
  BY <1>1, CancelWrites DEF RecordOutcome
<1>6. record' = [record EXCEPT ![t] = r] /\ record'[t] = r
  BY <1>1, <1>4 DEF Write, TypeOK
<1>7. ~Editable(t)'
  BY <1>1, <1>2, <1>4, <1>6 DEF Editable, Visible
<1>8. TypeOK'
  BY <1>1, <1>2, <1>5, <1>6 DEF TypeOK, HandPC
<1>9. RequestsHaveTasks'
  BY <1>1, <1>2 DEF RequestsHaveTasks
<1>10. TaskInv(t)'
  <2>1. /\ Running(t)' = Running(t) /\ Resuming(t)' = Resuming(t)
        /\ hand'[t] = "recorded" /\ call'[t] = call[t] /\ slot'[t] = slot[t]
    BY <1>1, <1>2 DEF Running, Resuming, TypeOK
  <2> QED
    BY <1>2, <1>3, <1>7, <2>1, SettlingKeeps
<1>11. \A x \in Tasks \ {t} : Untouched(x)
  BY <1>1, <1>2, <1>5, <1>6 DEF Untouched, TypeOK
<1> QED
  BY <1>8, <1>9, <1>10, <1>11, OneTaskSuffices

LEMMA CancelKeeps ==
  ASSUME IInv, NEW t \in Tasks, Cancel(t)
  PROVE  IInv'
<1>1. TypeOK /\ RequestsHaveTasks /\ TaskInv(t)
  BY DEF IInv
<1>2. /\ call[t] = "answered" /\ Visible(t)
      /\ UNCHANGED <<overdue, call, hand, slot, permit, queue, run, updater>>
  BY DEF Cancel, waits
<1>3. RequestsHaveTasks'
  BY <1>1, <1>2 DEF RequestsHaveTasks
<1>4. CASE Registered(t)
  <2>1. /\ cancelled' = [cancelled EXCEPT ![t] = TRUE]
        /\ UNCHANGED <<record, token>>
    BY <1>4 DEF Cancel
  <2>2. TypeOK'
    BY <1>1, <1>2, <2>1 DEF TypeOK
  <2>3. \A x \in Tasks : Untouched(x)
    BY <1>2, <2>1 DEF Untouched
  <2> QED
    BY <1>1, <1>3, <2>2, <2>3, UntouchedKeeps DEF IInv
<1>5. CASE ~Registered(t)
  <2>1. CancelInStore(t) /\ cancelled' = cancelled
    BY <1>5 DEF Cancel
  <2>2. PICK r \in Record \cup {NoTask} :
          /\ Write(t, r)
          /\ Editable(t) => r \in Record /\ IsTerminal(r)
          /\ ~Editable(t) => r = record[t]
    BY <1>1, <2>1, CancelWrites
  <2>3. token' = token \/ token' = [token EXCEPT ![t] = TRUE]
    BY <1>1, <2>1, CancelWrites
  <2>4. record' = [record EXCEPT ![t] = r] /\ record'[t] = r
    BY <1>1, <2>2 DEF Write, TypeOK
  <2>5. ~Editable(t)'
    BY <1>1, <1>2, <2>2, <2>4 DEF Editable, Visible
  <2>6. TypeOK'
    BY <1>1, <1>2, <2>1, <2>3, <2>4 DEF TypeOK
  <2>7. TaskInv(t)'
    <3>1. /\ Running(t)' = Running(t) /\ Resuming(t)' = Resuming(t)
          /\ hand'[t] = hand[t] /\ call'[t] = call[t] /\ slot'[t] = slot[t]
          /\ hand[t] \notin {"running", "returned"}
          /\ hand[t] # "none" => t \in Live
      BY <1>1, <1>2, <1>5
         DEF Running, Resuming, Registered, TaskInv, HandlerOwnsItsTask
    <3> QED
      BY <1>2, <2>5, <3>1, SettlingKeeps
  <2>8. \A x \in Tasks \ {t} : Untouched(x)
    BY <1>1, <1>2, <2>3, <2>4 DEF Untouched, TypeOK
  <2> QED
    BY <1>3, <2>6, <2>7, <2>8, OneTaskSuffices
<1> QED
  BY <1>4, <1>5
-----------------------------------------------------------------------------
\* The steps of an ordinary invocation.
LEMMA RunTyped ==
  ASSUME TypeOK, NEW t \in Tasks, NEW i \in Invocations,
         NEW from, NEW to \in RunPC, RunGoes(t, i, from, to)
  PROVE  /\ run[t][i] = from
         /\ run' \in [Tasks -> [Invocations -> RunPC]]
         /\ \A x \in Tasks \ {t} : run'[x] = run[x]
         /\ to = "none" => Running(t)' = Running(t) \ {i}
         /\ from # "none" /\ to # "none" => Running(t)' = Running(t)
  BY DEF RunGoes, TypeOK, Running

LEMMA FinishingRunKeeps ==
  ASSUME IInv, NEW t \in Tasks, NEW i \in Invocations,
         NEW from \in {"starting", "running"}, RunGoes(t, i, from, "none"),
         NEW status \in Terminal, Terminate(t, status),
         UNCHANGED <<overdue, token, call, hand, cancelled, waits, updater>>
  PROVE  IInv'
<1>1. TypeOK /\ RequestsHaveTasks /\ TaskInv(t)
  BY DEF IInv
<1>2. PICK r \in Record \cup {NoTask} :
        /\ Write(t, r)
        /\ Editable(t) => r \in Record /\ IsTerminal(r)
        /\ ~Editable(t) => r = record[t]
  BY <1>1, TerminateWrites
<1>3. record' = [record EXCEPT ![t] = r] /\ record'[t] = r
  BY <1>1, <1>2 DEF Write, TypeOK
<1>4. /\ run[t][i] = from
      /\ run' \in [Tasks -> [Invocations -> RunPC]]
      /\ \A x \in Tasks \ {t} : run'[x] = run[x]
      /\ Running(t)' = Running(t) \ {i}
  BY <1>1, RunTyped DEF RunPC
<1>5. ~Editable(t)'
  BY <1>2, <1>3 DEF Editable, Visible
<1>6. TypeOK'
  BY <1>1, <1>2, <1>3, <1>4 DEF TypeOK, waits
<1>7. RequestsHaveTasks'
  BY <1>1 DEF RequestsHaveTasks
<1>8. TaskInv(t)'
  <2>1. i \in Running(t)
    BY <1>4 DEF Running
  <2>2. /\ call[t] = "answered" /\ hand[t] \notin {"running", "returned"}
        /\ hand[t] # "none" => t \in Live
    BY <1>1, <2>1 DEF TaskInv, CallComesFirst, HandlerOwnsItsTask
  <2>3. /\ hand'[t] = hand[t] /\ call'[t] = call[t] /\ slot'[t] = slot[t]
        /\ Resuming(t)' = Resuming(t) /\ Running(t)' \subseteq Running(t)
    BY <1>4 DEF Resuming, waits
  <2> QED
    BY <1>5, <2>2, <2>3, SettlingKeeps
<1>9. \A x \in Tasks \ {t} : Untouched(x)
  BY <1>1, <1>3, <1>4 DEF Untouched, TypeOK, waits
<1> QED
  BY <1>6, <1>7, <1>8, <1>9, OneTaskSuffices

\* An invocation that goes on, or that ends and leaves the record as it is.
LEMMA ShrinkingKeeps ==
  ASSUME IInv, NEW t \in Tasks,
         record'[t] = record[t], Running(t)' \subseteq Running(t),
         UNCHANGED <<overdue, token, call, hand, cancelled, waits, updater>>
  PROVE  TaskInv(t)'
<1>1. TaskInv(t)
  BY DEF IInv
<1>2. Resuming(t)' = Resuming(t) /\ Editable(t)' = Editable(t)
  BY DEF Resuming, Editable, Visible
<1>3. CallComesFirst(t)'
  BY <1>1, <1>2 DEF TaskInv, CallComesFirst
<1>4. HandlerOwnsItsTask(t)'
  BY <1>1, <1>2 DEF TaskInv, HandlerOwnsItsTask
<1>5. ParksAreKept(t)'
  BY <1>1 DEF TaskInv, ParksAreKept, waits
<1>6. t \notin Live => HasOneOwner(t)'
  BY <1>1, <1>2 DEF TaskInv, HasOneOwner
<1> QED
  BY <1>3, <1>4, <1>5, <1>6 DEF TaskInv

LEMMA InvokeKeeps ==
  ASSUME IInv, NEW t \in Tasks, NEW i \in Invocations, Invoke(t, i)
  PROVE  IInv'
<1>1. TypeOK /\ RequestsHaveTasks
  BY DEF IInv
<1>2. UNCHANGED <<record, overdue, token, call, hand, cancelled, waits, updater>>
  BY DEF Invoke, store
<1>3. /\ run' \in [Tasks -> [Invocations -> RunPC]]
      /\ \A x \in Tasks \ {t} : run'[x] = run[x]
      /\ Running(t)' \subseteq Running(t)
  <2>1. CASE RunGoes(t, i, "starting", "running")
    BY <1>1, <2>1, RunTyped DEF RunPC
  <2>2. CASE RunGoes(t, i, "starting", "none") \/ RunGoes(t, i, "running", "none")
    BY <1>1, <2>2, RunTyped DEF RunPC
  <2> QED
    BY <2>1, <2>2 DEF Invoke
<1>4. TypeOK'
  BY <1>1, <1>2, <1>3 DEF TypeOK, waits
<1>5. RequestsHaveTasks'
  BY <1>1, <1>2 DEF RequestsHaveTasks
<1>6. TaskInv(t)'
  BY <1>2, <1>3, ShrinkingKeeps
<1>7. \A x \in Tasks \ {t} : Untouched(x)
  BY <1>2, <1>3 DEF Untouched, waits
<1> QED
  BY <1>4, <1>5, <1>6, <1>7, OneTaskSuffices

LEMMA ParkTaskKeeps ==
  ASSUME IInv, NEW t \in Tasks, NEW i \in Invocations,
         NEW requests \in KeyMap(Questions), ParkTask(t, i, requests)
  PROVE  IInv'
<1>1. TypeOK /\ RequestsHaveTasks /\ TaskInv(t)
  BY DEF IInv
<1>2. /\ RunGoes(t, i, "running", "none")
      /\ UNCHANGED <<overdue, token, call, hand, cancelled, waits, updater>>
  BY DEF ParkTask
<1>3. /\ run[t][i] = "running" /\ run' \in [Tasks -> [Invocations -> RunPC]]
      /\ \A x \in Tasks \ {t} : run'[x] = run[x]
      /\ Running(t)' = Running(t) \ {i}
  BY <1>1, <1>2, RunTyped DEF RunPC
<1>4. i \in Running(t)
  BY <1>3 DEF Running
<1>5. CASE Terminate(t, "failed")
  BY <1>2, <1>5, FinishingRunKeeps DEF Terminal
<1>6. CASE /\ ~Editable(t) /\ Write(t, record[t])
  <2>1. record' = record
    BY <1>1, <1>6 DEF Write, TypeOK
  <2>2. TypeOK'
    BY <1>1, <1>2, <1>3, <2>1 DEF TypeOK, waits
  <2>3. RequestsHaveTasks'
    BY <1>1, <1>2 DEF RequestsHaveTasks
  <2>4. TaskInv(t)'
    BY <1>2, <1>3, <2>1, ShrinkingKeeps
  <2>5. \A x \in Tasks \ {t} : Untouched(x)
    BY <1>2, <1>3, <2>1 DEF Untouched, waits
  <2> QED
    BY <2>2, <2>3, <2>4, <2>5, OneTaskSuffices
<1>7. CASE /\ Editable(t) /\ DOMAIN requests # {}
           /\ Write(t, Asking(record[t], requests, 0))
  <2>1. /\ call[t] = "answered" /\ hand[t] = "none" /\ t \notin Live
        /\ record[t] \in Record /\ ~token[t]
    BY <1>1, <1>4, <1>7
       DEF TaskInv, CallComesFirst, HandlerOwnsItsTask, TypeOK, HandPC, Editable,
           Visible
  <2>2. PICK r \in Record :
           /\ record' = [record EXCEPT ![t] = r]
           /\ r.status = "input_required" /\ Outstanding(r) = DOMAIN requests
    BY <1>7, <2>1, RecordAssumption, AskingIsARecord DEF Write
  <2>3. /\ record'[t] = r /\ call'[t] = "answered" /\ hand'[t] = "none"
        /\ ~token'[t] /\ slot'[t] = slot[t]
        /\ Resuming(t)' = {} /\ Running(t)' = {}
    <3>1. Resuming(t)' = Resuming(t) /\ Resuming(t) = {}
      BY <1>1, <1>2, <1>4, <2>1 DEF Resuming, TaskInv, HasOneOwner
    <3>2. Running(t) \ {i} = {}
      BY <1>1, <1>4, <2>1 DEF TaskInv, HasOneOwner
    <3> QED
      BY <1>1, <1>2, <1>3, <2>1, <2>2, <3>1, <3>2 DEF TypeOK, waits
  <2>4. TypeOK'
    BY <1>1, <1>2, <1>3, <2>2 DEF TypeOK, waits
  <2>5. RequestsHaveTasks'
    BY <1>1, <1>2 DEF RequestsHaveTasks
  <2>6. CallComesFirst(t)' /\ HandlerOwnsItsTask(t)'
    BY <2>1, <2>3 DEF CallComesFirst, HandlerOwnsItsTask
  <2>7. ParksAreKept(t)'
    BY <1>1, <2>1, <2>3 DEF TaskInv, ParksAreKept
  <2>8. HasOneOwner(t)'
    BY <1>7, <2>2, <2>3 DEF HasOneOwner
  <2>9. \A x \in Tasks \ {t} : Untouched(x)
    BY <1>1, <1>2, <1>3, <2>2 DEF Untouched, TypeOK, waits
  <2> QED
    BY <2>4, <2>5, <2>6, <2>7, <2>8, <2>9, OneTaskSuffices DEF TaskInv
<1> QED
  BY <1>5, <1>6, <1>7 DEF ParkTask
-----------------------------------------------------------------------------
\* The steps of a tasks/update.
LEMMA ApplyKeeps ==
  ASSUME IInv, NEW t \in Tasks, NEW u \in Updaters,
         NEW responses \in KeyMap(Answers), NEW revision \in Revisions,
         Apply(u, t, responses, revision)
  PROVE  IInv'
<1> DEFINE old == record[t]
           last == /\ Accepted(old, responses) # {}
                   /\ StillOutstanding(old, responses) = {}
           request == [pc |-> "resuming", task |-> t, revision |-> revision]
<1>1. TypeOK /\ RequestsHaveTasks /\ TaskInv(t)
  BY DEF IInv
<1>2. /\ updater[u].pc = "idle" /\ call[t] = "answered"
      /\ Editable(t) /\ old \in Record /\ ~IsTerminal(old)
      /\ updater' = [updater EXCEPT ![u] = IF last THEN request ELSE AtRest]
      /\ UNCHANGED <<overdue, token, call, hand, cancelled, waits, run>>
  BY <1>1 DEF Apply, Editable, Visible, TypeOK
<1>3. PICK r \in Record :
         /\ record' = [record EXCEPT ![t] = r]
         /\ Outstanding(r) = StillOutstanding(old, responses)
         /\ Spent(r) = Spent(old) \cup Accepted(old, responses)
         /\ r.status = IF /\ StillOutstanding(old, responses) = {}
                          /\ old.status = "input_required"
                       THEN "working" ELSE old.status
  BY <1>2, AnsweringIsARecord DEF Apply, Write
<1>4. /\ record'[t] = r /\ call'[t] = "answered" /\ hand'[t] = hand[t]
      /\ token'[t] = token[t] /\ slot'[t] = slot[t] /\ Running(t)' = Running(t)
  BY <1>1, <1>2, <1>3 DEF TypeOK, Running, waits
<1>5. /\ request \in Request /\ request.pc = "resuming" /\ request.task = t
      /\ AtRest \in Request /\ AtRest.pc = "idle"
  BY ExecutionAssumption DEF Request, AtRest
<1> HIDE DEF request
<1>6. /\ updater' \in [Updaters -> Request]
      /\ Resuming(t)' = Resuming(t) \cup (IF last THEN {u} ELSE {})
      /\ u \notin Resuming(t)
      /\ \A v \in Resuming(t) : updater'[v] = updater[v]
      /\ last => updater'[u].pc = "resuming"
      /\ \A v \in Updaters \ {u} : updater'[v] = updater[v]
  <2> HIDE DEF last
  <2> QED
    BY <1>1, <1>2, <1>5 DEF Resuming, TypeOK, Request
<1>7. TypeOK'
  BY <1>1, <1>2, <1>3, <1>6 DEF TypeOK, waits, Request
<1>8. RequestsHaveTasks'
  <2> HIDE DEF last
  <2> QED
    BY <1>1, <1>2, <1>5, <1>6 DEF RequestsHaveTasks, TypeOK
<1>9. CallComesFirst(t)'
  BY <1>1, <1>2, <1>4 DEF TaskInv, CallComesFirst
<1>10. HandlerOwnsItsTask(t)'
  <2>1. ~IsTerminal(r)
    BY <1>2, <1>3 DEF IsTerminal, Terminal
  <2>2. hand[t] \notin {"recorded", "over"} /\ ~(t \in Live /\ hand[t] = "none")
    BY <1>1, <1>2 DEF TaskInv, HandlerOwnsItsTask
  <2>3. \A v \in Resuming(t)' :
          \/ updater'[v].pc = "resuming"
          \/ v \in Resuming(t) /\ updater'[v] = updater[v]
    BY <1>6
  <2> HIDE DEF last
  <2> QED
    BY <1>1, <1>4, <2>1, <2>2, <2>3 DEF TaskInv, HandlerOwnsItsTask
<1>11. ParksAreKept(t)'
  <2>1. Outstanding(old) \cup Spent(old) \subseteq Outstanding(r) \cup Spent(r)
    BY <1>3 DEF Accepted, StillOutstanding
  <2> QED
    BY <1>1, <1>3, <1>4, <2>1 DEF TaskInv, ParksAreKept
<1>12. ASSUME t \notin Live PROVE HasOneOwner(t)'
  <2>1. HasOneOwner(t)
    BY <1>1, <1>12 DEF TaskInv
  <2>2. CASE last
    <3>1. Outstanding(old) # {}
      BY <2>2 DEF Accepted
    <3>2. Running(t) = {} /\ Resuming(t) = {}
      BY <1>2, <2>1, <3>1 DEF HasOneOwner
    <3>3. r.status # "input_required" /\ Outstanding(r) = {}
      BY <1>2, <1>3, <2>2
    <3>4. Running(t)' = {} /\ Resuming(t)' = {u}
      BY <1>4, <1>6, <2>2, <3>2
    <3> QED
      BY <1>4, <3>3, <3>4 DEF HasOneOwner
  <2>3. CASE ~last
    <3>1. Running(t)' = Running(t) /\ Resuming(t)' = Resuming(t)
      BY <1>4, <1>6, <2>3
    <3>2. Running(t) # {} \/ Resuming(t) # {} => Outstanding(r) = {}
      BY <1>2, <1>3, <2>1 DEF HasOneOwner, StillOutstanding
    <3>3. r.status = "input_required" <=> Outstanding(r) # {}
      <4>1. old.status = "input_required" <=> Outstanding(old) # {}
        BY <1>2, <2>1 DEF HasOneOwner
      <4>2. Outstanding(old) # {} => StillOutstanding(old, responses) # {}
        BY <2>3 DEF Accepted, StillOutstanding
      <4>3. Outstanding(old) = {} => StillOutstanding(old, responses) = {}
        BY DEF StillOutstanding
      <4> QED
        BY <1>3, <4>1, <4>2, <4>3
    <3> QED
      BY <1>4, <2>1, <3>1, <3>2, <3>3 DEF HasOneOwner
  <2> QED
    BY <2>2, <2>3
<1>13. \A x \in Tasks \ {t} : Untouched(x)
  <2>1. \A x \in Tasks \ {t} : u \notin Resuming(x) /\ u \notin Resuming(x)'
    <3> HIDE DEF last
    <3> QED
      BY <1>1, <1>2, <1>5 DEF Resuming, TypeOK
  <2> QED
    BY <1>1, <1>2, <1>3, <1>6, <2>1 DEF Untouched, TypeOK, waits
<1> QED
  BY <1>7, <1>8, <1>9, <1>10, <1>11, <1>12, <1>13, OneTaskSuffices DEF TaskInv

\* A request that moves on, or that has been served.
LEMMA RequestMoves ==
  ASSUME TypeOK, RequestsHaveTasks, NEW u \in Updaters, NEW t,
         t = updater[u].task, NEW next \in Request,
         next.pc # "idle" => updater[u].pc # "idle" /\ next.task = t,
         updater' = [updater EXCEPT ![u] = next], call' = call
  PROVE  /\ updater' \in [Updaters -> Request]
         /\ RequestsHaveTasks'
         /\ Resuming(t)' \subseteq Resuming(t)
         /\ next.pc = "idle" => Resuming(t)' = Resuming(t) \ {u}
         /\ \A x \in Tasks \ {t}, v \in Updaters :
              \/ updater'[v] = updater[v]
              \/ v \notin Resuming(x) /\ v \notin Resuming(x)'
<1>1. updater \in [Updaters -> Request]
  BY DEF TypeOK, Request
<1>2. updater'[u] = next /\ \A v \in Updaters \ {u} : updater'[v] = updater[v]
  BY <1>1
<1>3. updater' \in [Updaters -> Request]
  BY <1>1
<1>4. RequestsHaveTasks'
  BY <1>2 DEF RequestsHaveTasks
<1>5. /\ Resuming(t)' \subseteq Resuming(t)
      /\ next.pc = "idle" => Resuming(t)' = Resuming(t) \ {u}
  BY <1>2 DEF Resuming
<1>6. \A x \in Tasks \ {t}, v \in Updaters :
         \/ updater'[v] = updater[v]
         \/ v \notin Resuming(x) /\ v \notin Resuming(x)'
  BY <1>2 DEF Resuming
<1> QED
  BY <1>3, <1>4, <1>5, <1>6

LEMMA RequestServed ==
  ASSUME TypeOK, RequestsHaveTasks, NEW u \in Updaters, NEW t,
         t = updater[u].task, updater' = [updater EXCEPT ![u] = AtRest],
         call' = call
  PROVE  /\ updater' \in [Updaters -> Request]
         /\ RequestsHaveTasks'
         /\ Resuming(t)' = Resuming(t) \ {u}
         /\ \A x \in Tasks \ {t}, v \in Updaters :
              \/ updater'[v] = updater[v]
              \/ v \notin Resuming(x) /\ v \notin Resuming(x)'
<1>1. AtRest \in Request /\ AtRest.pc = "idle"
  BY DEF Request, AtRest
<1> QED
  BY <1>1, RequestMoves

LEMMA WakeKeeps ==
  ASSUME IInv, NEW u \in Updaters, Wake(u)
  PROVE  IInv'
<1> PICK t : t = updater[u].task
  OBVIOUS
<1>1. TypeOK /\ RequestsHaveTasks
  BY DEF IInv
<1>2. t \in Tasks /\ updater[u].pc = "resuming" /\ u \in Resuming(t)
  BY <1>1 DEF Wake, RequestsHaveTasks, Resuming
<1>3. TaskInv(t)
  BY <1>2 DEF IInv
<1>4. UNCHANGED <<record, overdue, token, call, hand, cancelled, run>>
  BY DEF Wake, store
<1>5. AtRest \in Request /\ AtRest.pc = "idle"
  BY DEF Request, AtRest
<1>6. Running(t)' = Running(t) /\ Editable(t)' = Editable(t)
  BY <1>4 DEF Running, Editable, Visible
<1>7. CASE Registered(t)
  <2>1. /\ NotifyOne(t, slot[t], queue[t])
        /\ updater' = [updater EXCEPT ![u] = AtRest]
    BY <1>7 DEF Wake
  <2>2. slot[t] \in [Slots -> SlotState] /\ queue[t] \in Seq(Slots)
    BY <1>1, <1>2 DEF TypeOK, SlotState
  <2>3. PICK row \in [Slots -> SlotState] :
           /\ Becomes(t, row)
           /\ \A s \in Slots : /\ row[s].asked = slot[t][s].asked
                               /\ row[s].got = slot[t][s].got
                               /\ row[s].pc \in {slot[t][s].pc, "woken"}
    BY <1>1, <1>2, <2>1, <2>2, NotifyOneWakes
  <2>4. slot' = [slot EXCEPT ![t] = row] /\ slot'[t] = row
    BY <1>1, <1>2, <2>3 DEF Becomes, TypeOK
  <2>5. /\ updater' \in [Updaters -> Request]
        /\ RequestsHaveTasks'
        /\ Resuming(t)' = Resuming(t) \ {u}
        /\ \A x \in Tasks \ {t}, v \in Updaters :
             \/ updater'[v] = updater[v]
             \/ v \notin Resuming(x) /\ v \notin Resuming(x)'
    BY <1>1, <1>4, <2>1, RequestServed
  <2>6. TypeOK'
    BY <1>1, <1>2, <1>4, <2>3, <2>4, <2>5 DEF TypeOK, Becomes, SlotState, Request
  <2>7. t \in Live
    BY <1>3, <1>7 DEF TaskInv, HandlerOwnsItsTask, Registered
  <2>8. CallComesFirst(t)'
    BY <1>3, <1>4, <1>6 DEF TaskInv, CallComesFirst
  <2>9. HandlerOwnsItsTask(t)'
    <3>1. \A v \in Resuming(t)' : v \in Resuming(t) /\ updater'[v] = updater[v]
      BY <1>1, <2>1, <2>5 DEF Resuming, TypeOK
    <3> QED
      BY <1>3, <1>4, <1>6, <3>1 DEF TaskInv, HandlerOwnsItsTask
  <2>10. ParksAreKept(t)'
    BY <1>3, <1>4, <2>3, <2>4 DEF TaskInv, ParksAreKept
  <2>11. \A x \in Tasks \ {t} : Untouched(x)
    BY <1>1, <1>4, <2>4, <2>5 DEF Untouched, TypeOK
  <2> QED
    BY <1>2, <2>5, <2>6, <2>7, <2>8, <2>9, <2>10, <2>11, OneTaskSuffices
       DEF TaskInv
<1>8. CASE ~Registered(t)
  <2>1. PICK next : next = IF updater[u].revision = "final"
                           THEN [updater[u] EXCEPT !.pc = "replaying"] ELSE AtRest
    OBVIOUS
  <2>2. updater' = [updater EXCEPT ![u] = next] /\ UNCHANGED <<slot, permit, queue>>
    BY <1>1, <1>8, <2>1 DEF Wake, TypeOK, waits
  <2>3. next \in Request /\ (next.pc # "idle" => next.task = t)
    <3>1. updater[u] \in Request
      BY <1>1 DEF TypeOK, Request
    <3> QED
      BY <1>5, <2>1, <3>1 DEF Request
  <2>4. /\ updater' \in [Updaters -> Request]
        /\ RequestsHaveTasks'
        /\ Resuming(t)' \subseteq Resuming(t)
        /\ \A x \in Tasks \ {t}, v \in Updaters :
             \/ updater'[v] = updater[v]
             \/ v \notin Resuming(x) /\ v \notin Resuming(x)'
    BY <1>1, <1>2, <1>4, <2>2, <2>3, RequestMoves
  <2>5. TypeOK'
    BY <1>1, <1>4, <2>2, <2>4 DEF TypeOK, Request
  <2>6. CallComesFirst(t)'
    BY <1>3, <1>4, <1>6 DEF TaskInv, CallComesFirst
  <2>7. HandlerOwnsItsTask(t)'
    BY <1>3, <1>4, <1>6, <1>8 DEF TaskInv, HandlerOwnsItsTask, Registered
  <2>8. ParksAreKept(t)'
    BY <1>3, <1>4, <2>2 DEF TaskInv, ParksAreKept
  <2>9. t \notin Live => HasOneOwner(t)'
    BY <1>3, <1>4, <1>6, <2>4 DEF TaskInv, HasOneOwner
  <2>10. \A x \in Tasks \ {t} : Untouched(x)
    BY <1>4, <2>2, <2>4 DEF Untouched
  <2> QED
    BY <1>2, <2>4, <2>5, <2>6, <2>7, <2>8, <2>9, <2>10, OneTaskSuffices
       DEF TaskInv
<1> QED
  BY <1>7, <1>8

LEMMA ReplayKeeps ==
  ASSUME IInv, NEW u \in Updaters, Replay(u)
  PROVE  IInv'
<1> PICK t : t = updater[u].task
  OBVIOUS
<1>1. TypeOK /\ RequestsHaveTasks
  BY DEF IInv
<1>2. /\ t \in Tasks /\ call[t] = "answered" /\ updater[u].pc = "replaying"
      /\ u \in Resuming(t)
  BY <1>1 DEF Replay, RequestsHaveTasks, Resuming
<1>3. TaskInv(t)
  BY <1>2 DEF IInv
<1>4. /\ UNCHANGED <<record, overdue, token, call, hand, cancelled, slot, permit,
                     queue>>
      /\ updater' = [updater EXCEPT ![u] = AtRest]
  BY DEF Replay, store, waits
<1>5. /\ updater' \in [Updaters -> Request]
      /\ RequestsHaveTasks'
      /\ Resuming(t)' = Resuming(t) \ {u}
      /\ \A x \in Tasks \ {t}, v \in Updaters :
           \/ updater'[v] = updater[v]
           \/ v \notin Resuming(x) /\ v \notin Resuming(x)'
  BY <1>1, <1>4, RequestServed
<1>6. /\ run' \in [Tasks -> [Invocations -> RunPC]]
      /\ \A x \in Tasks \ {t} : run'[x] = run[x]
      /\ \/ Running(t)' = Running(t)
         \/ \E i \in Invocations : Running(t)' = Running(t) \cup {i}
  <2>1. CASE Visible(t)
    <3>1. PICK i \in Invocations : run' = [run EXCEPT ![t][i] = "starting"]
      BY <2>1 DEF Replay
    <3>2. run' \in [Tasks -> [Invocations -> RunPC]]
      BY <1>1, <3>1 DEF TypeOK, RunPC
    <3>3. \A x \in Tasks \ {t} : run'[x] = run[x]
      BY <1>1, <3>1 DEF TypeOK
    <3>4. Running(t)' = Running(t) \cup {i}
      BY <1>1, <1>2, <3>1 DEF TypeOK, Running
    <3> QED
      BY <3>2, <3>3, <3>4
  <2>2. CASE ~Visible(t)
    <3>1. run' = run
      BY <2>2 DEF Replay
    <3> QED
      BY <1>1, <3>1 DEF TypeOK, Running
  <2> QED
    BY <2>1, <2>2
<1>7. TypeOK'
  BY <1>1, <1>4, <1>5, <1>6 DEF TypeOK, Request
<1>8. Editable(t)' = Editable(t)
  BY <1>4 DEF Editable, Visible
<1>9. CallComesFirst(t)'
  BY <1>2, <1>3, <1>4, <1>8 DEF TaskInv, CallComesFirst
<1>10. HandlerOwnsItsTask(t)'
  <2>1. hand[t] \notin {"running", "returned"}
    BY <1>2, <1>3 DEF TaskInv, HandlerOwnsItsTask
  <2> QED
    BY <1>3, <1>4, <1>8, <2>1 DEF TaskInv, HandlerOwnsItsTask
<1>11. ParksAreKept(t)'
  BY <1>3, <1>4 DEF TaskInv, ParksAreKept
<1>12. ASSUME t \notin Live PROVE HasOneOwner(t)'
  <2>1. HasOneOwner(t)
    BY <1>3, <1>12 DEF TaskInv
  <2>2. /\ Running(t) = {} /\ Resuming(t)' = {}
        /\ Editable(t) => Outstanding(record[t]) = {}
    BY <1>2, <1>5, <2>1 DEF HasOneOwner
  <2>3. \A i, j \in Running(t)' : i = j
    BY <1>6, <2>2
  <2> QED
    BY <1>4, <1>8, <2>1, <2>2, <2>3 DEF HasOneOwner
<1>13. \A x \in Tasks \ {t} : Untouched(x)
  BY <1>4, <1>5, <1>6 DEF Untouched
<1> QED
  BY <1>2, <1>5, <1>7, <1>9, <1>10, <1>11, <1>12, <1>13, OneTaskSuffices
     DEF TaskInv
-----------------------------------------------------------------------------
\* Shutdown and the clock.
LEMMA CancelAllKeeps ==
  ASSUME IInv, CancelAll
  PROVE  IInv'
<1>1. TypeOK /\ RequestsHaveTasks
  BY DEF IInv
<1>2. UNCHANGED <<record, overdue, token, call, hand, slot, permit, queue, run,
                  updater>>
  BY DEF CancelAll, store, waits
<1>3. cancelled' \in [Tasks -> BOOLEAN]
  <2>1. \A t \in Tasks : (cancelled[t] \/ Registered(t)
                            \/ (t \in Live /\ call[t] = "preparing")) \in BOOLEAN
    BY <1>1 DEF TypeOK
  <2> QED
    BY <2>1 DEF CancelAll
<1>4. TypeOK' /\ RequestsHaveTasks'
  BY <1>1, <1>2, <1>3 DEF TypeOK, RequestsHaveTasks
<1>5. \A x \in Tasks : Untouched(x)
  BY <1>2 DEF Untouched
<1> QED
  BY <1>4, <1>5, UntouchedKeeps DEF IInv

LEMMA ClockKeeps ==
  ASSUME IInv, NEW t \in Tasks, Expire(t) \/ SignalExpiry(t)
  PROVE  IInv'
<1>1. TypeOK /\ RequestsHaveTasks /\ TaskInv(t)
  BY DEF IInv
<1>2. /\ UNCHANGED <<record, call, hand, cancelled, slot, permit, queue, run,
                     updater>>
      /\ \/ overdue' = [overdue EXCEPT ![t] = TRUE] /\ token' = token /\ Visible(t)
         \/ token' = [token EXCEPT ![t] = TRUE] /\ overdue' = overdue /\ overdue[t]
  BY DEF Expire, SignalExpiry, waits
<1>3. TypeOK' /\ RequestsHaveTasks'
  BY <1>1, <1>2 DEF TypeOK, RequestsHaveTasks
<1>4. ~Editable(t)' /\ call[t] # "none"
  BY <1>1, <1>2 DEF TypeOK, Editable, Visible, TaskInv, CallComesFirst
<1>5. Running(t)' = Running(t) /\ Resuming(t)' = Resuming(t)
  BY <1>2 DEF Running, Resuming
<1>6. CallComesFirst(t)'
  BY <1>1, <1>2, <1>4, <1>5 DEF TaskInv, CallComesFirst
<1>7. HandlerOwnsItsTask(t)'
  BY <1>1, <1>2, <1>4, <1>5 DEF TaskInv, HandlerOwnsItsTask
<1>8. ParksAreKept(t)'
  BY <1>1, <1>2 DEF TaskInv, ParksAreKept
<1>9. t \notin Live => HasOneOwner(t)'
  BY <1>1, <1>4, <1>5 DEF TaskInv, HasOneOwner
<1>10. \A x \in Tasks \ {t} : Untouched(x)
  BY <1>1, <1>2 DEF Untouched, TypeOK
<1> QED
  BY <1>3, <1>6, <1>7, <1>8, <1>9, <1>10, OneTaskSuffices DEF TaskInv

-----------------------------------------------------------------------------
LEMMA NextKeepsIInv == IInv /\ [Next]_vars => IInv'
<1> SUFFICES ASSUME IInv, [Next]_vars PROVE IInv'
  OBVIOUS
<1>1. CASE CancelAll
  BY <1>1, CancelAllKeeps
<1>2. ASSUME NEW u \in Updaters, UpdaterStep(u) PROVE IInv'
  BY <1>2, WakeKeeps, ReplayKeeps DEF UpdaterStep
<1>3. ASSUME NEW t \in Tasks, Create(t) \/ Abandon(t) \/ Spawn(t) PROVE IInv'
  BY <1>3, CreateKeeps, AbandonKeeps, SpawnKeeps
<1>4. ASSUME NEW t \in Tasks, LiveStep(t) PROVE IInv'
  <2>1. CASE Working(t)
    BY <2>1, WorkingKeeps
  <2>2. CASE HandlerEnds(t) \/ RecordOutcome(t) \/ Unregister(t)
    BY <2>2, HandlerEndsKeeps, RecordOutcomeKeeps, UnregisterKeeps
  <2>3. ASSUME NEW s \in Slots, BeginWait(t, s) \/ WaitStep(t, s) \/ DropPending(t, s)
        PROVE  IInv'
    BY <2>3, WaitingKeeps
  <2>4. ASSUME NEW s \in Slots, NEW requests \in KeyMap(Questions),
               Park(t, s, requests)
        PROVE  IInv'
    BY <2>4, ParkKeeps
  <2> QED
    BY <1>4, <2>1, <2>2, <2>3, <2>4 DEF LiveStep
<1>5. ASSUME NEW t \in Tasks, Cancel(t) \/ Expire(t) \/ SignalExpiry(t) PROVE IInv'
  BY <1>5, CancelKeeps, ClockKeeps
<1>6. ASSUME NEW t \in Tasks, NEW i \in Invocations, RunStep(t, i) PROVE IInv'
  <2>1. CASE Invoke(t, i)
    BY <2>1, InvokeKeeps
  <2>2. CASE Complete(t, i)
    BY <2>2, FinishingRunKeeps DEF Complete, Terminal
  <2>3. CASE CompleteUncalled(t, i)
    BY <2>3, FinishingRunKeeps DEF CompleteUncalled, Terminal
  <2>4. ASSUME NEW requests \in KeyMap(Questions), ParkTask(t, i, requests)
        PROVE  IInv'
    BY <2>4, ParkTaskKeeps
  <2> QED
    BY <1>6, <2>1, <2>2, <2>3, <2>4 DEF RunStep
<1>7. ASSUME NEW t \in Tasks, NEW u \in Updaters, NEW responses \in KeyMap(Answers),
             NEW revision \in Revisions, Apply(u, t, responses, revision)
      PROVE  IInv'
  BY <1>7, ApplyKeeps
<1>8. CASE UNCHANGED vars
  <2>1. TypeOK' /\ RequestsHaveTasks'
    BY <1>8 DEF IInv, vars, store, waits, TypeOK, RequestsHaveTasks
  <2>2. \A t \in Tasks : Untouched(t)
    BY <1>8 DEF vars, store, waits, Untouched
  <2> QED
    BY <2>1, <2>2, UntouchedKeeps DEF IInv
<1> QED
  BY <1>1, <1>2, <1>3, <1>4, <1>5, <1>6, <1>7, <1>8 DEF Next

LEMMA Invariance == Spec => []IInv
  BY InitIInv, NextKeepsIInv, PTL DEF Spec

\* Every record stays a record of the store, every park, line, invocation and
\* request one of its kind.
THEOREM Typing == Spec => []TypeOK
<1>1. IInv => TypeOK
  BY DEF IInv
<1> QED
  BY <1>1, Invariance, PTL

\* A wait never hands over less than it was asked for: what its read found
\* answered stays answered, or superseded, until the answers are collected.
THEOREM WaitDeliversEverythingHolds == Spec => []WaitDeliversEverything
<1>1. IInv => WaitDeliversEverything
  BY DEF IInv, TaskInv, ParksAreKept, WaitDeliversEverything
<1> QED
  BY <1>1, Invariance, PTL

\* An update resumes an ordinary task only when its invocation has ended, and
\* two updates never resume it both.
THEOREM OneInvocationAtATimeHolds == Spec => []OneInvocationAtATime
<1>1. ASSUME IInv, NEW t \in Tasks \ Live
      PROVE  /\ Cardinality(Running(t)) =< 1
             /\ Running(t) # {} => ~BeingResumed(t)
  <2>1. HasOneOwner(t)
    BY <1>1 DEF IInv, TaskInv
  <2>2. CASE Running(t) = {}
    BY <2>2, FS_EmptySet
  <2>3. CASE Running(t) # {}
    <3>1. PICK i : Running(t) = {i}
      BY <2>1, <2>3 DEF HasOneOwner
    <3>2. ~BeingResumed(t)
      BY <2>1, <2>3 DEF HasOneOwner, BeingResumed, Resuming
    <3> QED
      BY <3>1, <3>2, FS_Singleton
  <2> QED
    BY <2>2, <2>3
<1>2. IInv => OneInvocationAtATime
  BY <1>1 DEF OneInvocationAtATime
<1> QED
  BY <1>2, Invariance, PTL

-----------------------------------------------------------------------------
\* Who works on an ordinary task.
IsOwned(t) ==
  Editable(t) /\ record[t].status = "working" =>
    call[t] = "preparing" \/ Running(t) # {} \/ Resuming(t) # {}

OrdinaryIsOwned == \A t \in Tasks \ Live : IsOwned(t)

LEMMA CallKeepsOwners ==
  ASSUME IInv, NEW t \in Tasks \ Live, IsOwned(t), NEW x \in Tasks,
         Create(x) \/ Abandon(x) \/ Spawn(x)
  PROVE  IsOwned(t)'
<1>1. TypeOK
  BY DEF IInv
<1>2. CASE x # t
  <2>1. /\ record'[t] = record[t] /\ overdue' = overdue /\ updater' = updater
        /\ call'[t] = call[t] /\ run'[t] = run[t]
    BY <1>1, <1>2 DEF Create, Abandon, Spawn, Write, TypeOK, store
  <2> QED
    BY <2>1 DEF IsOwned, Editable, Visible, Running, Resuming
<1>3. CASE Create(t)
  <2>1. call'[t] = "preparing"
    BY <1>1, <1>3 DEF Create, TypeOK
  <2> QED
    BY <2>1 DEF IsOwned
<1>4. CASE Abandon(t)
  <2>1. record'[t] = NoTask
    BY <1>1, <1>4 DEF Abandon, Write, TypeOK
  <2> QED
    BY <2>1 DEF IsOwned, Editable, Visible
<1>5. CASE Spawn(t)
  <2>1. PICK i \in Invocations : run' = [run EXCEPT ![t][i] = "starting"]
    BY <1>5 DEF Spawn
  <2>2. i \in Running(t)'
    BY <1>1, <2>1 DEF Running, TypeOK
  <2> QED
    BY <2>2 DEF IsOwned
<1> QED
  BY <1>2, <1>3, <1>4, <1>5

LEMMA LiveStepKeepsOwners ==
  ASSUME IInv, NEW t \in Tasks \ Live, IsOwned(t), NEW x \in Tasks, LiveStep(x)
  PROVE  IsOwned(t)'
<1>1. TypeOK /\ TaskInv(x)
  BY DEF IInv
<1>2. hand[x] # "none" => x # t
  BY <1>1 DEF TaskInv, HandlerOwnsItsTask
<1>3. ASSUME NEW s \in Slots, BeginWait(x, s) \/ WaitStep(x, s) \/ DropPending(x, s)
      PROVE  UNCHANGED Elsewhere
  BY <1>3 DEF BeginWait, WaitStep, ReadOutstanding, Poll, ReadAgain,
              ObserveCancellation, Collect, DropPending
<1>4. CASE Working(x) \/ RecordOutcome(x)
  <2>1. x # t
    BY <1>2, <1>4 DEF Working, RecordOutcome, Goes
  <2> QED
    BY <1>1, <1>4, <2>1 DEF Working, RecordOutcome, Terminate, CancelInStore,
                            Write, TypeOK, IsOwned, Editable, Visible, Running,
                            Resuming
<1>5. ASSUME NEW s \in Slots, NEW requests \in KeyMap(Questions), Park(x, s, requests)
      PROVE  /\ record'[t] = record[t]
             /\ UNCHANGED <<overdue, call, run, updater>>
  BY <1>1, <1>2, <1>5 DEF Park, Write, TypeOK
<1>6. CASE HandlerEnds(x) \/ Unregister(x)
  BY <1>6 DEF HandlerEnds, Unregister, store, IsOwned, Editable, Visible, Running,
              Resuming
<1> QED
  BY <1>3, <1>4, <1>5, <1>6
     DEF LiveStep, Elsewhere, store, IsOwned, Editable, Visible, Running, Resuming

LEMMA RunStepKeepsOwners ==
  ASSUME IInv, NEW t \in Tasks \ Live, IsOwned(t), NEW x \in Tasks,
         NEW i \in Invocations, RunStep(x, i)
  PROVE  IsOwned(t)'
<1>1. TypeOK /\ TaskInv(t)
  BY DEF IInv
<1>2. overdue' = overdue /\ call' = call /\ updater' = updater /\ token' = token
  BY DEF RunStep, Invoke, Complete, CompleteUncalled, ParkTask, store
<1>3. CASE x # t
  <2>1. record'[t] = record[t] /\ run'[t] = run[t]
    BY <1>1, <1>3 DEF RunStep, Invoke, Complete, CompleteUncalled, ParkTask, store,
                      RunGoes, Terminate, Write, TypeOK
  <2> QED
    BY <1>2, <2>1 DEF IsOwned, Editable, Visible, Running, Resuming
<1>4. CASE Invoke(t, i)
  <2>1. record' = record
    BY <1>4 DEF Invoke, store
  <2>2. CASE RunGoes(t, i, "starting", "running")
    <3>1. Running(t)' = Running(t)
      BY <1>1, <2>2, RunTyped DEF RunPC
    <3> QED
      BY <1>2, <2>1, <3>1 DEF IsOwned, Editable, Visible, Resuming
  <2>3. CASE token[t]
    <3>1. ~Editable(t)
      BY <1>1, <2>3 DEF TaskInv, CallComesFirst
    <3> QED
      BY <1>2, <2>1, <3>1 DEF IsOwned, Editable, Visible
  <2> QED
    BY <1>4, <2>2, <2>3 DEF Invoke
<1>5. ASSUME NEW status \in Terminal, Terminate(t, status) PROVE IsOwned(t)'
  <2>1. PICK r \in Record \cup {NoTask} :
          /\ Write(t, r)
          /\ Editable(t) => r \in Record /\ IsTerminal(r)
          /\ ~Editable(t) => r = record[t]
    BY <1>1, <1>5, TerminateWrites
  <2>2. record'[t] = r
    BY <1>1, <2>1 DEF Write, TypeOK
  <2>3. ~Editable(t)'
    BY <1>2, <2>1, <2>2 DEF Editable, Visible
  <2> QED
    BY <2>3 DEF IsOwned
<1>6. CASE Complete(t, i) \/ CompleteUncalled(t, i)
  BY <1>5, <1>6 DEF Complete, CompleteUncalled, Terminal
<1>7. ASSUME NEW requests \in KeyMap(Questions), ParkTask(t, i, requests)
      PROVE  IsOwned(t)'
  <2>1. CASE Terminate(t, "failed")
    BY <1>5, <2>1 DEF Terminal
  <2>2. CASE Write(t, IF Editable(t) THEN Asking(record[t], requests, 0)
                      ELSE record[t])
    <3>1. CASE Editable(t)
      <4>1. record'[t] = Asking(record[t], requests, 0) /\ record[t] \in Record
        BY <1>1, <2>2, <3>1 DEF Write, TypeOK, Editable, Visible
      <4>2. record'[t].status = "input_required"
        BY <4>1, RecordAssumption, AskingIsARecord
      <4> QED
        BY <4>2 DEF IsOwned
    <3>2. CASE ~Editable(t)
      <4>1. record'[t] = record[t]
        BY <1>1, <2>2, <3>2 DEF Write, TypeOK
      <4> QED
        BY <1>2, <3>2, <4>1 DEF IsOwned, Editable, Visible
    <3> QED
      BY <3>1, <3>2
  <2> QED
    BY <1>7, <2>1, <2>2 DEF ParkTask
<1> QED
  BY <1>3, <1>4, <1>6, <1>7 DEF RunStep

LEMMA ApplyKeepsOwners ==
  ASSUME IInv, NEW t \in Tasks \ Live, IsOwned(t), NEW x \in Tasks,
         NEW u \in Updaters, NEW responses \in KeyMap(Answers),
         NEW revision \in Revisions, Apply(u, x, responses, revision)
  PROVE  IsOwned(t)'
<1> DEFINE last == /\ Accepted(record[x], responses) # {}
                   /\ StillOutstanding(record[x], responses) = {}
           request == [pc |-> "resuming", task |-> x, revision |-> revision]
<1>1. TypeOK /\ TaskInv(t) /\ HasOneOwner(t)
  BY DEF IInv, TaskInv
<1>2. /\ updater[u].pc = "idle" /\ Editable(x) /\ record[x] \in Record
      /\ updater' = [updater EXCEPT ![u] = IF last THEN request ELSE AtRest]
      /\ UNCHANGED <<overdue, call, run>>
  BY <1>1 DEF Apply, Editable, Visible, TypeOK
<1>3. Resuming(t) \subseteq Resuming(t)' /\ Running(t)' = Running(t)
  BY <1>1, <1>2 DEF Resuming, Running, TypeOK
<1>4. CASE x # t
  <2>1. record'[t] = record[t]
    BY <1>1, <1>4 DEF Apply, Write, TypeOK
  <2> QED
    BY <1>2, <1>3, <2>1 DEF IsOwned, Editable, Visible
<1>5. CASE x = t
  <2>1. /\ record'[t].status =
             IF /\ StillOutstanding(record[t], responses) = {}
                /\ record[t].status = "input_required"
             THEN "working" ELSE record[t].status
    BY <1>1, <1>2, <1>5, AnsweringIsARecord DEF Apply, Write, TypeOK
  <2>2. CASE last
    <3>1. u \in Resuming(t)'
      BY <1>1, <1>2, <1>5, <2>2 DEF Resuming, TypeOK
    <3> QED
      BY <3>1 DEF IsOwned
  <2>3. CASE ~last
    <3>1. record[t].status = "input_required" =>
            StillOutstanding(record[t], responses) # {}
      BY <1>1, <1>2, <1>5, <2>3 DEF HasOneOwner, Accepted, StillOutstanding
    <3>2. record'[t].status = record[t].status
      BY <2>1, <3>1
    <3> QED
      BY <1>2, <1>3, <1>5, <3>2 DEF IsOwned
  <2> QED
    BY <2>2, <2>3
<1> QED
  BY <1>4, <1>5

LEMMA UpdaterStepKeepsOwners ==
  ASSUME IInv, FinalUnlessLive, NEW t \in Tasks \ Live, IsOwned(t),
         NEW u \in Updaters, UpdaterStep(u)
  PROVE  IsOwned(t)'
<1> PICK x : x = updater[u].task
  OBVIOUS
<1>1. TypeOK /\ TaskInv(t)
  BY DEF IInv
<1>2. UNCHANGED <<record, overdue, call>> /\ Editable(t)' = Editable(t)
  BY DEF UpdaterStep, Wake, Replay, store, Editable, Visible
<1>3. updater[u] \in Request
  BY <1>1 DEF TypeOK, Request
<1>4. CASE Wake(u)
  <2>1. run' = run
    BY <1>4 DEF Wake
  <2>2. CASE x # t
    <3>1. \A v \in Updaters \ {u} : updater'[v] = updater[v]
      BY <1>1, <1>4 DEF Wake, TypeOK
    <3>2. Resuming(t) \subseteq Resuming(t)'
      BY <2>2, <3>1 DEF Resuming
    <3> QED
      BY <1>2, <2>1, <3>2 DEF IsOwned, Running
  <2>3. CASE x = t
    <3>1. ~Registered(t)
      BY <1>1 DEF TaskInv, HandlerOwnsItsTask, Registered
    <3>2. updater[u].revision = "final"
      BY <1>3, <2>3 DEF FinalUnlessLive, Request
    <3>3. updater' = [updater EXCEPT ![u] = [updater[u] EXCEPT !.pc = "replaying"]]
      BY <1>4, <2>3, <3>1, <3>2 DEF Wake
    <3>4. u \in Resuming(t)'
      BY <1>1, <1>3, <2>3, <3>3 DEF Resuming, TypeOK, Request
    <3> QED
      BY <3>4 DEF IsOwned
  <2> QED
    BY <2>2, <2>3
<1>5. CASE Replay(u)
  <2>1. \A v \in Updaters \ {u} : updater'[v] = updater[v]
    BY <1>1, <1>5 DEF Replay, TypeOK
  <2>2. CASE x # t
    <3>1. run'[t] = run[t]
      BY <1>1, <1>5, <2>2 DEF Replay, TypeOK
    <3>2. Resuming(t) \subseteq Resuming(t)'
      BY <2>1, <2>2 DEF Resuming
    <3> QED
      BY <1>2, <3>1, <3>2 DEF IsOwned, Running
  <2>3. CASE x = t /\ Visible(t)
    <3>1. PICK i \in Invocations : run' = [run EXCEPT ![t][i] = "starting"]
      BY <1>5, <2>3 DEF Replay
    <3>2. i \in Running(t)'
      BY <1>1, <3>1 DEF Running, TypeOK
    <3> QED
      BY <3>2 DEF IsOwned
  <2>4. CASE ~Visible(t)
    BY <1>2, <2>4 DEF IsOwned, Editable
  <2> QED
    BY <2>2, <2>3, <2>4
<1> QED
  BY <1>4, <1>5 DEF UpdaterStep

LEMMA ControlKeepsOwners ==
  ASSUME IInv, NEW t \in Tasks \ Live, IsOwned(t),
         \/ CancelAll
         \/ \E x \in Tasks : Cancel(x) \/ Expire(x) \/ SignalExpiry(x)
  PROVE  IsOwned(t)'
<1>1. TypeOK
  BY DEF IInv
<1>2. UNCHANGED <<call, run, updater>>
  BY DEF CancelAll, Cancel, Expire, SignalExpiry
<1>3. ASSUME record'[t] = record[t], overdue[t] => overdue'[t]
      PROVE  IsOwned(t)'
  BY <1>2, <1>3 DEF IsOwned, Editable, Visible, Running, Resuming
<1>4. CASE CancelAll
  BY <1>3, <1>4 DEF CancelAll, store
<1>5. ASSUME NEW x \in Tasks, Expire(x) \/ SignalExpiry(x) PROVE IsOwned(t)'
  BY <1>1, <1>3, <1>5 DEF Expire, SignalExpiry, TypeOK
<1>6. ASSUME NEW x \in Tasks, Cancel(x) PROVE IsOwned(t)'
  <2>1. CASE record'[t] = record[t]
    BY <1>3, <1>6, <2>1 DEF Cancel
  <2>2. CASE record'[t] # record[t]
    <3>1. CancelInStore(x)
      BY <1>6, <2>2 DEF Cancel
    <3>2. PICK r \in Record \cup {NoTask} :
            /\ Write(x, r)
            /\ Editable(x) => r \in Record /\ IsTerminal(r)
            /\ ~Editable(x) => r = record[x]
      BY <1>1, <3>1, CancelWrites
    <3>3. x = t /\ record'[t] = r
      BY <1>1, <2>2, <3>2 DEF Write, TypeOK
    <3>4. IsTerminal(record'[t])
      BY <2>2, <3>2, <3>3
    <3> QED
      BY <3>4 DEF IsOwned, Editable
  <2> QED
    BY <2>1, <2>2
<1> QED
  BY <1>4, <1>5, <1>6

LEMMA NextKeepsOwners ==
  IInv /\ FinalUnlessLive /\ OrdinaryIsOwned /\ [Next]_vars => OrdinaryIsOwned'
<1> SUFFICES ASSUME IInv, FinalUnlessLive, OrdinaryIsOwned, [Next]_vars,
                    NEW t \in Tasks \ Live
             PROVE  IsOwned(t)'
  BY DEF OrdinaryIsOwned
<1>1. IsOwned(t)
  BY DEF OrdinaryIsOwned
<1>2. CASE UNCHANGED vars
  BY <1>1, <1>2
     DEF vars, store, IsOwned, Editable, Visible, Running, Resuming
<1>3. CASE Next
  BY <1>1, <1>3, CallKeepsOwners, LiveStepKeepsOwners, RunStepKeepsOwners,
     ApplyKeepsOwners, UpdaterStepKeepsOwners, ControlKeepsOwners DEF Next
<1> QED
  BY <1>2, <1>3

\* Under the final revision no task is left reading `working` with nobody to
\* work on it.
THEOREM WorkingHasAnOwnerHolds ==
  Spec /\ []FinalUnlessLive => []WorkingHasAnOwner
<1>1. Init => OrdinaryIsOwned
  BY DEF Init, OrdinaryIsOwned, IsOwned, Editable, Visible
<1>2. IInv /\ OrdinaryIsOwned => WorkingHasAnOwner
  <2> SUFFICES ASSUME IInv, OrdinaryIsOwned, NEW t \in Tasks, Editable(t),
                      record[t].status = "working"
               PROVE  \/ call[t] = "preparing" \/ Registered(t)
                      \/ Running(t) # {} \/ BeingResumed(t)
    BY DEF WorkingHasAnOwner
  <2>1. TypeOK /\ TaskInv(t)
    BY DEF IInv
  <2>2. CASE t \in Live
    <3>1. call[t] # "none"
      BY <2>1 DEF TaskInv, CallComesFirst, Editable, Visible
    <3> QED
      BY <2>1, <2>2, <3>1
         DEF TaskInv, HandlerOwnsItsTask, Registered, TypeOK, CallPC, HandPC
  <2>3. CASE t \notin Live
    BY <2>3 DEF OrdinaryIsOwned, IsOwned, BeingResumed, Resuming
  <2> QED
    BY <2>2, <2>3
<1> QED
  BY <1>1, <1>2, Invariance, NextKeepsOwners, PTL DEF Spec
=============================================================================
