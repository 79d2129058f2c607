--------------------------- MODULE TaskStoreProofs ---------------------------
(***************************************************************************)
(* The task store, for any sets of ids, callers, waiters and keys and any  *)
(* limits: the record and its rewrites, the fate of one entry in a step,   *)
(* the invariants of a stored task, the waiters, the refinement of         *)
(* TaskLifecycle, and the charge.                                          *)
(***************************************************************************)
(* First the record: every rewrite of one yields a record, and what the    *)
(* byte accounting sets aside for an open record holds its fixed failure   *)
(* and its fixed cancellation.                                             *)
(***************************************************************************)
EXTENDS TaskStore, FiniteSetTheorems, WellFoundedInduction, TLAPS

LEMMA KeyMapIntro ==
  ASSUME NEW S, NEW D \in SUBSET Keys, NEW f \in [D -> S]
  PROVE  f \in KeyMap(S) /\ DOMAIN f = D
  BY DEF KeyMap

LEMMA KeyMapElim ==
  ASSUME NEW S, NEW f \in KeyMap(S)
  PROVE  DOMAIN f \in SUBSET Keys /\ f \in [DOMAIN f -> S]
  BY DEF KeyMap

LEMMA NoInputsIsAKeyMap == \A S : NoInputs \in KeyMap(S) /\ DOMAIN NoInputs = {}
<1> SUFFICES ASSUME NEW S PROVE NoInputs \in KeyMap(S) /\ DOMAIN NoInputs = {}
  OBVIOUS
<1>1. NoInputs \in [{} -> S]
  BY DEF NoInputs
<1> QED
  BY <1>1, KeyMapIntro

LEMMA FixedSizes ==
  /\ Size \subseteq Nat
  /\ {0, FailText, FailError, CancelText} \subseteq Size
  /\ Loads \subseteq Size
  /\ Skeleton \in Nat /\ NameSize \in Nat /\ InputSize \in Nat
  /\ CancelText =< FailText + FailError
  BY RecordAssumption DEF Size

\* The rewrites of a record stay records.
LEMMA NewRecordIsARecord ==
  ASSUME NEW args \in Loads
  PROVE  NewRecord(args) \in Record
  BY NoInputsIsAKeyMap, FixedSizes DEF NewRecord, Record, Status, Open

LEMMA AskingIsARecord ==
  ASSUME NEW r \in Record, NEW requests \in KeyMap(Questions), NEW text \in Loads
  PROVE  Asking(r, requests, text) \in Record
<1>1. r.superseded \cup (Outstanding(r) \ DOMAIN requests) \in SUBSET Keys
  BY KeyMapElim DEF Record, Outstanding
<1> QED
  BY <1>1, FixedSizes DEF Asking, Record, Status, Open

LEMMA AnsweringIsARecord ==
  ASSUME NEW r \in Record, NEW responses \in KeyMap(Answers)
  PROVE  /\ Answering(r, responses) \in Record
         /\ Outstanding(Answering(r, responses))
              = StillOutstanding(r, responses)
         /\ Answered(Answering(r, responses))
              = Answered(r) \cup Accepted(r, responses)
<1> DEFINE left == StillOutstanding(r, responses)
           kept == [k \in left |-> r.asked[k]]
           given == Answered(r) \cup Accepted(r, responses)
           answers == [k \in given |-> IF k \in Accepted(r, responses)
                                       THEN responses[k] ELSE r.answers[k]]
<1>1. /\ Outstanding(r) \in SUBSET Keys
      /\ r.asked \in [Outstanding(r) -> Questions]
      /\ Answered(r) \in SUBSET Keys
      /\ r.answers \in [Answered(r) -> Answers]
      /\ responses \in [DOMAIN responses -> Answers]
  BY KeyMapElim DEF Record, Outstanding, Answered
<1>2. left \in SUBSET Keys /\ kept \in [left -> Questions]
  BY <1>1 DEF StillOutstanding
<1>3. given \in SUBSET Keys /\ answers \in [given -> Answers]
  BY <1>1 DEF Accepted
<1>4. kept \in KeyMap(Questions) /\ DOMAIN kept = left
  BY <1>2, KeyMapIntro
<1>5. answers \in KeyMap(Answers) /\ DOMAIN answers = given
  BY <1>3, KeyMapIntro
<1>6. /\ Answering(r, responses).asked = kept
      /\ Answering(r, responses).answers = answers
  BY DEF Answering, Record
<1>7. Answering(r, responses) \in Record
  <2> HIDE DEF kept, answers
  <2> DEFINE resumed == left = {} /\ r.status = "input_required"
  <2> DEFINE status == IF resumed THEN "working" ELSE r.status
             text == IF resumed THEN 0 ELSE r.text
  <2>1. Answering(r, responses) =
          [r EXCEPT !.asked = kept, !.answers = answers,
                    !.status = status, !.text = text]
    BY DEF Answering, kept, answers, Record
  <2>2. status \in Status /\ text \in Size
    BY FixedSizes DEF Record, Status, Open
  <2> HIDE DEF status, text
  <2> QED
    BY <2>1, <2>2, <1>4, <1>5 DEF Record
<1> QED
  BY <1>4, <1>5, <1>6, <1>7 DEF Outstanding, Answered

LEMMA ProgressingIsARecord ==
  ASSUME NEW r \in Record, NEW status \in Open, NEW text \in Size
  PROVE  Progressing(r, status, text) \in Record
  BY DEF Progressing, Record, Status

LEMMA AnnotatingIsARecord ==
  ASSUME NEW r \in Record, NEW meta \in Loads
  PROVE  Annotating(r, meta) \in Record
  BY FixedSizes DEF Annotating, Record

LEMMA FinishingIsARecord ==
  ASSUME NEW r \in Record, NEW status \in Terminal, NEW text \in Size,
         NEW outcome \in Size
  PROVE  Finishing(r, status, text, outcome) \in Record
  BY NoInputsIsAKeyMap DEF Finishing, Record, Status

LEMMA CancellingIsARecord ==
  ASSUME NEW r \in Record, NEW text \in Size
  PROVE  /\ Cancelling(r, text) \in Record
         /\ CancellingBounded(r) \in Record
         /\ IsTerminal(Cancelling(r, text)) /\ IsTerminal(CancellingBounded(r))
<1>1. "cancelled" \in Status /\ "cancelled" \in Terminal
  BY DEF Status, Terminal
<1>2. \A n \in Size : /\ Cancelling(r, n) \in Record
                       /\ Cancelling(r, n).status = "cancelled"
  BY <1>1, NoInputsIsAKeyMap DEF Cancelling, Record
<1>3. CancellingBounded(r) \in Record /\ CancellingBounded(r).status = "cancelled"
  BY <1>2, NoInputsIsAKeyMap, FixedSizes DEF CancellingBounded, Record
<1> QED
  BY <1>1, <1>2, <1>3 DEF IsTerminal

LEMMA FailingIsARecord ==
  ASSUME NEW r \in Record
  PROVE  FailingRetention(r) \in Record /\ IsTerminal(FailingRetention(r))
  BY NoInputsIsAKeyMap, FixedSizes
     DEF FailingRetention, Record, Status, Terminal, IsTerminal

LEMMA ScrubbedIsARecord ==
  ASSUME NEW r \in Record
  PROVE  /\ Scrubbed(r) \in Record
         /\ Scrubbed(r).status = r.status
  BY NoInputsIsAKeyMap, FixedSizes DEF Scrubbed, Record
-----------------------------------------------------------------------------
LEMMA RetainedSizeIsNatural ==
  ASSUME NEW r \in Record
  PROVE  RetainedSize(r) \in Nat
<1>1. /\ Outstanding(r) \in SUBSET Keys /\ Answered(r) \in SUBSET Keys
      /\ r.superseded \in SUBSET Keys
  BY KeyMapElim DEF Record, Outstanding, Answered
<1>2. /\ Cardinality(Outstanding(r)) \in Nat /\ Cardinality(Answered(r)) \in Nat
      /\ Cardinality(r.superseded) \in Nat
  BY <1>1, RecordAssumption, FS_Subset, FS_CardinalityType
<1>3. /\ r.name \in Nat /\ r.args \in Nat /\ r.text \in Nat
      /\ r.meta \in Nat /\ r.outcome \in Nat
  BY FixedSizes DEF Record
<1>4. \A a, b, c \in Nat : InputSize * (a + b + c) \in Nat
  BY FixedSizes
<1> QED
  BY <1>2, <1>3, <1>4, FixedSizes DEF RetainedSize

LEMMA ReserveIsNatural ==
  ASSUME NEW r \in Record
  PROVE  Reserve(r) \in Nat
  BY RetainedSizeIsNatural, FailingIsARecord DEF Reserve

\* An open record and its reservation together weigh at least as much as the
\* fixed failure that may have to replace it.
THEOREM ReserveHoldsTheFailure ==
  ASSUME NEW r \in Record, ~IsTerminal(r)
  PROVE  RetainedSize(FailingRetention(r)) =< RetainedSize(r) + Reserve(r)
  BY RetainedSizeIsNatural, FailingIsARecord DEF Reserve

\* The bounded cancellation, made of a record with the same name, is no larger
\* than the fixed failure.
THEOREM ReserveHoldsTheCancellation ==
  ASSUME NEW r \in Record, ~IsTerminal(r)
  PROVE  RetainedSize(CancellingBounded(r)) =< RetainedSize(r) + Reserve(r)
<1> DEFINE c == CancellingBounded(r)
           f == FailingRetention(r)
<1>1. Cardinality(DOMAIN NoInputs) = 0 /\ Cardinality({}) = 0
  BY NoInputsIsAKeyMap, FS_EmptySet
<1>2. /\ c.name = r.name /\ c.args = 0 /\ c.text = CancelText
      /\ c.meta = 0 /\ c.outcome = 0
      /\ c.asked = NoInputs /\ c.answers = NoInputs /\ c.superseded = {}
  BY DEF CancellingBounded, Cancelling, Record
<1>3. /\ f.name = r.name /\ f.args = 0 /\ f.text = FailText
      /\ f.meta = 0 /\ f.outcome = FailError
      /\ f.asked = NoInputs /\ f.answers = NoInputs /\ f.superseded = {}
  BY DEF FailingRetention, Record
<1>4. RetainedSize(c) =< RetainedSize(f)
  <2> DEFINE none == InputSize * (0 + 0 + 0)
  <2> HIDE DEF c, f
  <2>1. RetainedSize(c) = Skeleton + r.name + 0 + CancelText + 0 + 0 + none
    BY <1>1, <1>2 DEF RetainedSize, Outstanding, Answered
  <2>2. RetainedSize(f) = Skeleton + r.name + 0 + FailText + 0 + FailError + none
    BY <1>1, <1>3 DEF RetainedSize, Outstanding, Answered
  <2>3. none \in Nat
    <3>1. \A n \in Nat : n * (0 + 0 + 0) \in Nat
      OBVIOUS
    <3> QED
      BY <3>1, FixedSizes
  <2>4. r.name \in Nat
    BY FixedSizes DEF Record
  <2>5. CancelText \in Nat /\ FailText \in Nat /\ FailError \in Nat
    BY FixedSizes
  <2> HIDE DEF none
  <2> QED
    BY <2>1, <2>2, <2>3, <2>4, <2>5, FixedSizes
<1> QED
  BY <1>4, ReserveHoldsTheFailure, CancellingIsARecord, FailingIsARecord,
     RetainedSizeIsNatural, ReserveIsNatural, FixedSizes
-----------------------------------------------------------------------------
Place == [pc : WaiterPC, id : Ids \cup {NoTask}, woken : BOOLEAN, last : Reply]

LEMMA PreparedIsStored ==
  ASSUME NEW r \in Record
  PROVE  Prepared(r) \in StoredTask
  BY RetainedSizeIsNatural, ReserveIsNatural DEF Prepared, StoredTask

LEMMA ClosedIsStored ==
  ASSUME NEW t, tasks[t] \in StoredTask, NEW r \in Record
  PROVE  /\ Closed(t, r) \in StoredTask
         /\ Closed(t, r).task = r
         /\ Closed(t, r).overdue = tasks[t].overdue
         /\ Closed(t, r).signalled = tasks[t].signalled
  BY RetainedSizeIsNatural DEF Closed, StoredTask

LEMMA SignalledIsStored ==
  ASSUME NEW s \in StoredTask
  PROVE  /\ Signalled(s) \in StoredTask
         /\ Signalled(s).task = Scrubbed(s.task)
         /\ Signalled(s).overdue = s.overdue
         /\ Signalled(s).signalled = TRUE
         /\ Signalled(s).retained = RetainedSize(Scrubbed(s.task))
         /\ Signalled(s).reserved = 0
<1>1. s.task \in Record
  BY DEF StoredTask
<1>2. Scrubbed(s.task) \in Record /\ RetainedSize(Scrubbed(s.task)) \in Nat
  BY <1>1, ScrubbedIsARecord, RetainedSizeIsNatural
<1> QED
  BY <1>2 DEF Signalled, StoredTask

LEMMA NotifiedIsTyped ==
  ASSUME NEW ws \in [Waiters -> Place], NEW S
  PROVE  /\ Notified(ws, S) \in [Waiters -> Place]
         /\ \A w \in Waiters : /\ Notified(ws, S)[w].pc = ws[w].pc
                               /\ Notified(ws, S)[w].id = ws[w].id
                               /\ Notified(ws, S)[w].last = ws[w].last
  BY DEF Notified, Place

LEMMA ReturnedIsTyped ==
  ASSUME waiter \in [Waiters -> Place], NEW w \in Waiters
  PROVE  Returned(w) \in [Waiters -> Place]
  BY DEF Returned, Place, WaiterPC, Reply

\* A retirement keeps the types, whatever it finds.
LEMMA RetiringIsTyped ==
  ASSUME TypeOK, NEW remove \in BOOLEAN, NEW ws \in [Waiters -> Place],
         Retiring(remove, ws)
  PROVE  /\ tasks' \in [Ids -> StoredTask \cup {NoTask}]
         /\ usage' \in [retained : Nat, reserved : Nat]
         /\ token' \in [Ids -> BOOLEAN]
         /\ waiter' \in [Waiters -> Place]
         /\ poisoned' \in BOOLEAN
<1>1. CASE poisoned
  BY <1>1 DEF Retiring, TypeOK
<1>2. CASE ~poisoned
  <2> DEFINE scrubbed == [t \in Ids |-> IF t \in Expiring
                                        THEN Signalled(tasks[t]) ELSE tasks[t]]
  <2>1. scrubbed \in [Ids -> StoredTask \cup {NoTask}]
    BY SignalledIsStored DEF TypeOK, Expiring, Overdue, Stored
  <2>2. token' = [t \in Ids |-> token[t] \/ t \in Expiring]
    BY <1>2 DEF Retiring, RetireExpired
  <2>3. waiter' = Notified(ws, Expiring)
    BY <1>2 DEF Retiring, RetireExpired
  <2>4. \/ poisoned' = TRUE /\ tasks' = scrubbed /\ usage' = usage
        \/ /\ poisoned' = poisoned
           /\ \E dropped \in SUBSET Ids :
                tasks' = [t \in Ids |-> IF t \in dropped THEN NoTask
                                        ELSE scrubbed[t]]
           /\ \E m, n \in Nat : usage' = [retained |-> m, reserved |-> n]
    <3> DEFINE dropped == IF remove THEN { t \in Ids : Overdue(t) } ELSE {}
               a == usage.retained - RetainedIn(tasks, Expiring)
                      + RetainedIn(scrubbed, Expiring)
               b == usage.reserved - ReservedIn(tasks, Expiring)
               m == a - RetainedIn(scrubbed, dropped)
               n == b - ReservedIn(scrubbed, dropped)
               signalled == [retained |-> a, reserved |-> b]
               final == [retained |-> m, reserved |-> n]
    <3>1. IF Within(signalled) /\ Within(final)
          THEN /\ tasks' = [t \in Ids |-> IF t \in dropped
                                          THEN NoTask ELSE scrubbed[t]]
               /\ usage' = final
               /\ UNCHANGED poisoned
          ELSE /\ poisoned' = TRUE
               /\ tasks' = scrubbed
               /\ UNCHANGED usage
      BY <1>2 DEF Retiring, RetireExpired
    <3>2. dropped \in SUBSET Ids
      OBVIOUS
    <3>3. Within(final) => m \in Nat /\ n \in Nat
      BY DEF Within
    <3> HIDE DEF dropped, m, n, a, b, scrubbed
    <3> QED
      BY <3>1, <3>2, <3>3
  <2> HIDE DEF scrubbed
  <2>5. tasks' \in [Ids -> StoredTask \cup {NoTask}]
    BY <2>1, <2>4
  <2>6. usage' \in [retained : Nat, reserved : Nat]
    BY <2>4 DEF TypeOK
  <2>7. token' \in [Ids -> BOOLEAN]
    BY <2>2
  <2>8. waiter' \in [Waiters -> Place]
    BY <2>3, NotifiedIsTyped
  <2>9. poisoned' \in BOOLEAN
    BY <2>4 DEF TypeOK
  <2> QED
    BY <2>5, <2>6, <2>7, <2>8, <2>9
<1> QED
  BY <1>1, <1>2
-----------------------------------------------------------------------------
\* What one step can do to one task.
Rewritings(r) ==
  { Asking(r, requests, text) : requests \in { q \in KeyMap(Questions) :
                                                 Reused(r, q) = {} },
                                text \in Loads }
    \cup { Answering(r, responses) : responses \in KeyMap(Answers) }
    \cup { Progressing(r, status, text) : status \in Open, text \in Size }

Closings(r) ==
  { Finishing(r, "completed", 0, result) : result \in Loads }
    \cup { Finishing(r, "failed", error, error) : error \in Loads }
    \cup { Cancelling(r, text) : text \in Loads }
    \cup { CancellingBounded(r), FailingRetention(r) }

Created(t)   == /\ t \notin issued /\ t \in issued'
                /\ \E args \in Loads : tasks'[t] = Prepared(NewRecord(args))
Annotated(t) == /\ Visible(t)
                /\ \E meta \in Loads :
                     tasks'[t] = Prepared(Annotating(tasks[t].task, meta))
Rewritten(t) == /\ Editable(t)
                /\ \E r \in Rewritings(tasks[t].task) : tasks'[t] = Prepared(r)
Finished(t)  == /\ Editable(t)
                /\ \E r \in Closings(tasks[t].task) : tasks'[t] = Closed(t, r)
Elapsed(t)   == Visible(t) /\ tasks'[t] = [tasks[t] EXCEPT !.overdue = TRUE]
Retired(t)   == /\ Overdue(t) /\ ~tasks[t].signalled /\ token'[t]
                /\ tasks'[t] = Signalled(tasks[t])
Removed(t)   == /\ tasks'[t] = NoTask
                /\ \/ Overdue(t) /\ (tasks[t].signalled \/ token'[t])
                   \/ t \notin published
                   \/ poisoned'

Fate(t) ==
  \/ tasks'[t] = tasks[t]
  \/ Created(t) \/ Annotated(t) \/ Rewritten(t) \/ Finished(t)
  \/ Elapsed(t) \/ Retired(t) \/ Removed(t)

Fates == /\ tasks' = [t \in Ids |-> tasks'[t]]
         /\ \A t \in Ids : Fate(t)

LEMMA KeepingFates ==
  ASSUME TypeOK, UNCHANGED tasks
  PROVE  Fates
  BY DEF Fates, Fate, TypeOK

LEMMA ReplacingFates ==
  ASSUME TypeOK, NEW t \in Ids, NEW s, tasks' = [tasks EXCEPT ![t] = s],
         tasks'[t] = s => Fate(t)
  PROVE  Fates
  BY DEF Fates, Fate, TypeOK

LEMMA RetiringFates ==
  ASSUME TypeOK, NEW remove \in BOOLEAN, NEW ws, Retiring(remove, ws)
  PROVE  Fates
<1>1. CASE poisoned
  BY <1>1, KeepingFates DEF Retiring
<1>2. CASE ~poisoned
  <2> DEFINE scrubbed == [t \in Ids |-> IF t \in Expiring
                                        THEN Signalled(tasks[t]) ELSE tasks[t]]
             dropped == IF remove THEN { t \in Ids : Overdue(t) } ELSE {}
  <2>1. token' = [t \in Ids |-> token[t] \/ t \in Expiring]
    BY <1>2 DEF Retiring, RetireExpired
  <2>2. \/ tasks' = scrubbed
        \/ tasks' = [t \in Ids |-> IF t \in dropped THEN NoTask
                                   ELSE scrubbed[t]]
    BY <1>2 DEF Retiring, RetireExpired
  <2>3. \A t \in Ids : t \in Expiring => Overdue(t) /\ ~tasks[t].signalled
    BY DEF Expiring
  <2>4. \A t \in Ids : Overdue(t) /\ ~tasks[t].signalled => t \in Expiring
    BY DEF Expiring
  <2>5. \A t \in dropped : Overdue(t)
    OBVIOUS
  <2> HIDE DEF dropped
  <2> QED
    BY <2>1, <2>2, <2>3, <2>4, <2>5 DEF Fates, Fate, Retired, Removed
<1> QED
  BY <1>1, <1>2

LEMMA RewritingFates ==
  ASSUME TypeOK, NEW t \in Ids, NEW r, Rewrite(t, r), Stored(t),
         \/ Editable(t) /\ r \in Rewritings(tasks[t].task)
         \/ /\ Visible(t)
            /\ \E meta \in Loads : r = Annotating(tasks[t].task, meta)
  PROVE  Fates
<1>1. tasks' = [tasks EXCEPT ![t] = Prepared(r)]
  BY DEF Rewrite, Put
<1>2. tasks'[t] = Prepared(r) => Fate(t)
  BY DEF Fate, Rewritten, Annotated
<1> QED
  BY <1>1, <1>2, ReplacingFates

LEMMA ClosingFates ==
  ASSUME TypeOK, NEW t \in Ids, NEW r \in Closings(tasks[t].task), Editable(t),
         Close(t, r) \/ Panic(t)
  PROVE  Fates
<1>1. CASE Close(t, r)
  <2>1. tasks' = [tasks EXCEPT ![t] = Closed(t, r)]
    BY <1>1 DEF Close, Put
  <2>2. tasks'[t] = Closed(t, r) => Fate(t)
    BY DEF Fate, Finished
  <2> QED
    BY <2>1, <2>2, ReplacingFates
<1>2. CASE Panic(t)
  <2>1. tasks' = [tasks EXCEPT ![t] = NoTask]
    BY <1>2 DEF Panic
  <2>2. tasks'[t] = NoTask => Fate(t)
    BY <1>2 DEF Panic, Fate, Removed
  <2> QED
    BY <2>1, <2>2, ReplacingFates
<1> QED
  BY <1>1, <1>2

LEMMA FinishFates ==
  ASSUME TypeOK, NEW t \in Ids, NEW c \in Callers, NEW n \in Loads,
         CompleteTask(c, t, n) \/ FailTask(c, t, n)
  PROVE  Fates
<1> DEFINE failed == FailingRetention(tasks[t].task)
<1>1. ASSUME NEW status, NEW text, Finish(c, t, status, text, n),
             Finishing(tasks[t].task, status, text, n)
               \in Closings(tasks[t].task)
      PROVE Fates
  <2> DEFINE r == Finishing(tasks[t].task, status, text, n)
  <2>1. Editable(t)
    BY <1>1 DEF Finish
  <2>2. Close(t, r) \/ Close(t, failed) \/ Panic(t)
    BY <1>1 DEF Finish, CommitRetentionFailure
  <2>3. failed \in Closings(tasks[t].task)
    BY DEF Closings
  <2> HIDE DEF r, failed
  <2> QED
    BY <1>1, <2>1, <2>2, <2>3, ClosingFates DEF r
<1>2. CASE CompleteTask(c, t, n)
  BY <1>1, <1>2 DEF CompleteTask, Closings
<1>3. CASE FailTask(c, t, n)
  BY <1>1, <1>3 DEF FailTask, Closings
<1> QED
  BY <1>2, <1>3

LEMMA CancelFates ==
  ASSUME TypeOK, NEW t \in Ids, NEW c \in Callers, NEW n \in Loads,
         CancelTask(c, t, n)
  PROVE  Fates
<1>1. CASE IsTerminal(tasks[t].task)
  BY <1>1, KeepingFates DEF CancelTask
<1>2. CASE ~IsTerminal(tasks[t].task)
  <2> DEFINE r == tasks[t].task
  <2>1. Editable(t)
    BY <1>2 DEF CancelTask, Editable
  <2>2. \/ Close(t, Cancelling(r, n))
        \/ Close(t, CancellingBounded(r))
        \/ Panic(t)
    BY <1>2 DEF CancelTask
  <2>3. Cancelling(r, n) \in Closings(r) /\ CancellingBounded(r) \in Closings(r)
    BY DEF Closings
  <2> QED
    BY <2>1, <2>2, <2>3, ClosingFates
<1> QED
  BY <1>1, <1>2

LEMMA CallerFates ==
  ASSUME TypeOK, NEW c \in Callers, CallerStep(c)
  PROVE  Fates
<1>1. CASE Enter(c) \/ Reclaim(c) \/ RetireAgain(c)
  BY <1>1, RetiringFates DEF Enter, Reclaim, RetireAgain
<1>2. CASE ReturnUnchanged(c)
  BY <1>2, KeepingFates DEF ReturnUnchanged
<1>3. ASSUME NEW t \in Ids, FindExpired(c, t) PROVE Fates
  BY <1>3, KeepingFates DEF FindExpired
<1>4. ASSUME NEW t \in Ids, DiscardTask(c, t) PROVE Fates
  <2>1. tasks' = [tasks EXCEPT ![t] = NoTask]
    BY <1>4 DEF DiscardTask
  <2>2. tasks'[t] = NoTask => Fate(t)
    BY <1>4 DEF DiscardTask, Fate, Removed
  <2> QED
    BY <2>1, <2>2, ReplacingFates
<1>5. ASSUME NEW t \in Ids, NEW past \in BOOLEAN, SetTtl(c, t, past) PROVE Fates
  <2>1. CASE Overdue(t)
    BY <1>5, <2>1, KeepingFates DEF SetTtl
  <2>2. CASE ~Overdue(t)
    <3>1. Visible(t) /\ tasks[t].overdue = FALSE /\ tasks[t] \in StoredTask
      BY <1>5, <2>2 DEF SetTtl, Overdue, Visible, Stored, TypeOK, StoredTask
    <3>2. tasks' = [tasks EXCEPT ![t] = [tasks[t] EXCEPT !.overdue = past]]
      BY <1>5, <2>2 DEF SetTtl
    <3>3. CASE past
      BY <3>1, <3>2, <3>3, ReplacingFates DEF Fate, Elapsed
    <3>4. CASE ~past
      <4>1. [tasks[t] EXCEPT !.overdue = past] = tasks[t]
        BY <3>1, <3>4 DEF StoredTask
      <4> QED
        BY <4>1, <3>2, ReplacingFates DEF Fate
    <3> QED
      BY <3>3, <3>4
  <2> QED
    BY <2>1, <2>2
<1>6. ASSUME NEW t \in Ids, NEW n \in Loads, CreateTask(c, t, n) PROVE Fates
  <2>1. tasks' = [tasks EXCEPT ![t] = Prepared(NewRecord(n))]
    BY <1>6 DEF CreateTask
  <2>2. tasks'[t] = Prepared(NewRecord(n)) => Fate(t)
    BY <1>6 DEF CreateTask, Fate, Created
  <2> QED
    BY <2>1, <2>2, ReplacingFates
<1>7. ASSUME NEW t \in Ids, NEW n \in Loads, SetTaskMeta(c, t, n) PROVE Fates
  BY <1>7, RewritingFates DEF SetTaskMeta, Visible
<1>8. ASSUME NEW t \in Ids, NEW n \in Loads,
             CompleteTask(c, t, n) \/ FailTask(c, t, n) \/ CancelTask(c, t, n)
      PROVE Fates
  BY <1>8, FinishFates, CancelFates
<1>9. ASSUME NEW t \in Ids, NEW n \in Loads, NEW requests \in KeyMap(Questions),
             RequireInput(c, t, requests, n)
      PROVE Fates
  <2>1. Asking(tasks[t].task, requests, n) \in Rewritings(tasks[t].task)
    BY <1>9 DEF RequireInput, Rewritings
  <2> QED
    BY <1>9, <2>1, RewritingFates DEF RequireInput, Editable, Visible
<1>10. ASSUME NEW t \in Ids, NEW status \in Open, SetStatus(c, t, status)
       PROVE Fates
  <2>1. Editable(t) /\ Stored(t)
    BY <1>10 DEF SetStatus, Editable, Visible
  <2>2. tasks[t].task.text \in Size
    BY <2>1 DEF TypeOK, Stored, StoredTask, Record
  <2>3. PICK text \in { n \in Loads : FitsPayload(n) } \cup { tasks[t].task.text } :
          Rewrite(t, Progressing(tasks[t].task, status, text))
    BY <1>10 DEF SetStatus
  <2>4. text \in Size
    BY <2>2, <2>3, FixedSizes
  <2>5. Progressing(tasks[t].task, status, text) \in Rewritings(tasks[t].task)
    BY <2>4 DEF Rewritings
  <2> QED
    BY <2>1, <2>3, <2>5, RewritingFates
<1>11. ASSUME NEW t \in Ids, NEW responses \in KeyMap(Answers),
              ApplyInputResponses(c, t, responses)
       PROVE Fates
  <2>1. Answering(tasks[t].task, responses) \in Rewritings(tasks[t].task)
    BY DEF Rewritings
  <2> QED
    BY <1>11, <2>1, RewritingFates DEF ApplyInputResponses, Editable, Visible
<1> QED
  BY <1>1, <1>2, <1>3, <1>4, <1>5, <1>6, <1>7, <1>8, <1>9, <1>10, <1>11
     DEF CallerStep

LEMMA EveryFate == TypeOK /\ [Next]_vars => Fates
<1> SUFFICES ASSUME TypeOK, [Next]_vars PROVE Fates
  OBVIOUS
<1>1. ASSUME NEW w \in Waiters, WaiterStep(w) PROVE Fates
  <2>1. CASE WakeNotified(w) \/ WakeCancelled(w)
    BY <2>1, RetiringFates DEF WakeNotified, WakeCancelled
  <2>2. CASE Register(w) \/ Recheck(w) \/ Reread(w)
    BY <2>2, KeepingFates DEF Register, Recheck, Reread
  <2> QED
    BY <1>1, <2>1, <2>2 DEF WaiterStep
<1>2. ASSUME NEW w \in Waiters, NEW t \in Ids, BeginWait(w, t) PROVE Fates
  BY <1>2, RetiringFates DEF BeginWait
<1>3. ASSUME NEW t \in Ids, Publish(t) \/ RaiseToken(t) PROVE Fates
  BY <1>3, KeepingFates DEF Publish, RaiseToken
<1>4. ASSUME NEW t \in Ids, Elapse(t) PROVE Fates
  <2>1. tasks' = [tasks EXCEPT ![t] = [tasks[t] EXCEPT !.overdue = TRUE]]
    BY <1>4 DEF Elapse
  <2> QED
    BY <1>4, <2>1, ReplacingFates DEF Elapse, Fate, Elapsed
<1>5. ASSUME NEW remove \in BOOLEAN, Sweep(remove) PROVE Fates
  BY <1>5, RetiringFates DEF Sweep
<1>6. CASE UNCHANGED vars
  BY <1>6, KeepingFates DEF vars
<1> QED
  BY <1>1, <1>2, <1>3, <1>4, <1>5, <1>6, CallerFates DEF Next
-----------------------------------------------------------------------------
LEMMA RewritingsAreRecords ==
  ASSUME NEW r \in Record, NEW n \in Rewritings(r)
  PROVE  n \in Record
  BY AskingIsARecord, AnsweringIsARecord, ProgressingIsARecord DEF Rewritings

LEMMA ClosingsAreRecords ==
  ASSUME NEW r \in Record, NEW n \in Closings(r)
  PROVE  n \in Record /\ IsTerminal(n)
<1>1. \A status \in Terminal, text, outcome \in Size :
        /\ Finishing(r, status, text, outcome) \in Record
        /\ IsTerminal(Finishing(r, status, text, outcome))
  BY FinishingIsARecord DEF Finishing, IsTerminal, Record
<1>2. {"completed", "failed"} \subseteq Terminal
  BY DEF Terminal
<1> QED
  BY <1>1, <1>2, CancellingIsARecord, FailingIsARecord, FixedSizes DEF Closings

LEMMA FateIsTyped ==
  ASSUME TypeOK, NEW t \in Ids, Fate(t)
  PROVE  tasks'[t] \in StoredTask \cup {NoTask}
<1>1. Stored(t) => tasks[t] \in StoredTask /\ tasks[t].task \in Record
  BY DEF TypeOK, Stored, StoredTask
<1>2. CASE Created(t)
  BY <1>2, NewRecordIsARecord, PreparedIsStored DEF Created
<1>3. CASE Annotated(t)
  BY <1>1, <1>3, AnnotatingIsARecord, PreparedIsStored DEF Annotated, Visible
<1>4. CASE Rewritten(t)
  BY <1>1, <1>4, RewritingsAreRecords, PreparedIsStored
     DEF Rewritten, Editable, Visible
<1>5. CASE Finished(t)
  BY <1>1, <1>5, ClosingsAreRecords, ClosedIsStored DEF Finished, Editable, Visible
<1>6. CASE Elapsed(t)
  BY <1>1, <1>6 DEF Elapsed, Visible, StoredTask
<1>7. CASE Retired(t)
  BY <1>1, <1>7, SignalledIsStored DEF Retired, Overdue
<1> QED
  BY <1>2, <1>3, <1>4, <1>5, <1>6, <1>7 DEF Fate, Removed, TypeOK

\* The variables other than the table.
RestTyped ==
  /\ usage \in [retained : Nat, reserved : Nat]
  /\ token \in [Ids -> BOOLEAN]
  /\ issued \subseteq Ids
  /\ published \subseteq issued
  /\ caller \in [Callers -> CallerPC]
  /\ waiter \in [Waiters -> Place]
  /\ poisoned \in BOOLEAN

LEMMA RestKept ==
  ASSUME TypeOK,
         UNCHANGED <<usage, token, issued, published, caller, waiter, poisoned>>
  PROVE  RestTyped'
  BY DEF TypeOK, RestTyped, Place

LEMMA StepIsTyped ==
  ASSUME TypeOK, NEW c \in Callers, NEW from, NEW to \in CallerPC,
         Step(c, from, to)
  PROVE  caller' \in [Callers -> CallerPC]
  BY DEF TypeOK, Step

LEMMA BodyIsTyped ==
  ASSUME TypeOK, NEW c \in Callers, Body(c)
  PROVE  caller' \in [Callers -> CallerPC]
  BY StepIsTyped DEF Body, CallerPC

LEMMA RewriteRest ==
  ASSUME TypeOK, NEW t, NEW r, Rewrite(t, r), caller' \in [Callers -> CallerPC]
  PROVE  RestTyped'
<1>1. Within(Replacing(tasks[t], Prepared(r)))
  BY DEF Rewrite, Replaceable
<1>2. usage' = Replacing(tasks[t], Prepared(r))
  BY DEF Rewrite, Put
<1>3. usage' \in [retained : Nat, reserved : Nat]
  BY <1>1, <1>2 DEF Within, Replacing
<1> QED
  BY <1>3 DEF Rewrite, TypeOK, RestTyped, Place

LEMMA CloseRest ==
  ASSUME TypeOK, NEW t, NEW r, Panic(t) \/ (Closable(t, r) /\ Close(t, r))
  PROVE  /\ usage' \in [retained : Nat, reserved : Nat]
         /\ waiter' \in [Waiters -> Place]
         /\ poisoned' \in BOOLEAN
<1>1. CASE Panic(t)
  BY <1>1 DEF Panic, TypeOK, Place
<1>2. CASE Closable(t, r) /\ Close(t, r)
  <2>1. Within(Replacing(tasks[t], Closed(t, r)))
    BY <1>2 DEF Closable, Replaceable
  <2>2. usage' = Replacing(tasks[t], Closed(t, r))
    BY <1>2 DEF Close, Put
  <2>3. usage' \in [retained : Nat, reserved : Nat]
    BY <2>1, <2>2 DEF Within, Replacing
  <2> QED
    BY <2>3, <1>2, NotifiedIsTyped DEF Close, TypeOK, Place
<1> QED
  BY <1>1, <1>2

LEMMA FinishRest ==
  ASSUME TypeOK, NEW t \in Ids, NEW c \in Callers, NEW status, NEW text,
         NEW n, Finish(c, t, status, text, n)
  PROVE  RestTyped'
<1> DEFINE r == Finishing(tasks[t].task, status, text, n)
           failed == FailingRetention(tasks[t].task)
<1>1. \/ Panic(t)
      \/ Closable(t, r) /\ Close(t, r)
      \/ Closable(t, failed) /\ Close(t, failed)
  BY DEF Finish, CommitRetentionFailure
<1>2. caller' \in [Callers -> CallerPC] /\ UNCHANGED <<token, issued, published>>
  BY BodyIsTyped DEF Finish
<1> HIDE DEF r, failed
<1> QED
  BY <1>1, <1>2, CloseRest DEF TypeOK, RestTyped

LEMMA CancelRest ==
  ASSUME TypeOK, NEW t \in Ids, NEW c \in Callers, NEW n,
         CancelTask(c, t, n)
  PROVE  RestTyped'
<1>1. /\ caller' \in [Callers -> CallerPC]
      /\ token' \in [Ids -> BOOLEAN]
      /\ UNCHANGED <<issued, published>>
  BY BodyIsTyped DEF CancelTask, TypeOK
<1>2. \/ UNCHANGED <<tasks, usage, waiter, poisoned>>
      \/ Panic(t)
      \/ \E r : Closable(t, r) /\ Close(t, r)
  BY DEF CancelTask
<1> QED
  BY <1>1, <1>2, CloseRest DEF TypeOK, RestTyped, Place

LEMMA CallerRest ==
  ASSUME TypeOK, NEW c \in Callers, CallerStep(c)
  PROVE  RestTyped'
<1>1. CASE Enter(c) \/ Reclaim(c) \/ RetireAgain(c)
  <2>1. waiter \in [Waiters -> Place]
    BY DEF TypeOK, Place
  <2>2. Retiring(FALSE, waiter) \/ Retiring(TRUE, waiter)
    BY <1>1 DEF Enter, Reclaim, RetireAgain
  <2>3. caller' \in [Callers -> CallerPC] /\ UNCHANGED <<issued, published>>
    BY <1>1, StepIsTyped DEF Enter, Reclaim, RetireAgain, CallerPC
  <2> QED
    BY <2>1, <2>2, <2>3, RetiringIsTyped DEF TypeOK, RestTyped
<1>2. CASE ReturnUnchanged(c)
  BY <1>2, StepIsTyped DEF ReturnUnchanged, CallerPC, TypeOK, RestTyped, Place
<1>3. ASSUME NEW t \in Ids, FindExpired(c, t) PROVE RestTyped'
  BY <1>3, StepIsTyped DEF FindExpired, CallerPC, TypeOK, RestTyped, Place
<1>4. ASSUME NEW t \in Ids, DiscardTask(c, t) PROVE RestTyped'
  <2>1. caller' \in [Callers -> CallerPC]
    BY <1>4, StepIsTyped DEF DiscardTask, CallerPC
  <2>2. usage' \in [retained : Nat, reserved : Nat] /\ poisoned' \in BOOLEAN
    <3> DEFINE a == usage.retained - tasks[t].retained
               b == usage.reserved - tasks[t].reserved
               left == [retained |-> a, reserved |-> b]
    <3>1. \/ Within(left) /\ usage' = left /\ UNCHANGED poisoned
          \/ poisoned' = TRUE /\ UNCHANGED usage
      BY <1>4 DEF DiscardTask
    <3>2. Within(left) => a \in Nat /\ b \in Nat
      BY DEF Within
    <3>3. poisoned' \in BOOLEAN
      BY <3>1 DEF TypeOK
    <3> HIDE DEF a, b
    <3>4. usage' \in [retained : Nat, reserved : Nat]
      BY <3>1, <3>2 DEF TypeOK
    <3> QED
      BY <3>3, <3>4
  <2>3. UNCHANGED <<token, issued, published, waiter>>
    BY <1>4 DEF DiscardTask
  <2> QED
    BY <2>1, <2>2, <2>3 DEF TypeOK, RestTyped, Place
<1>5. ASSUME NEW t \in Ids, NEW past \in BOOLEAN, SetTtl(c, t, past)
      PROVE RestTyped'
  BY <1>5, StepIsTyped DEF SetTtl, CallerPC, TypeOK, RestTyped, Place
<1>6. ASSUME NEW t \in Ids, NEW n \in Loads, CreateTask(c, t, n) PROVE RestTyped'
  BY <1>6, StepIsTyped
     DEF CreateTask, Within, CallerPC, TypeOK, RestTyped, Place
<1>7. ASSUME NEW t \in Ids, NEW n \in Loads, SetTaskMeta(c, t, n)
      PROVE RestTyped'
  BY <1>7, BodyIsTyped, RewriteRest DEF SetTaskMeta
<1>8. ASSUME NEW t \in Ids, NEW n \in Loads,
             CompleteTask(c, t, n) \/ FailTask(c, t, n) \/ CancelTask(c, t, n)
      PROVE RestTyped'
  BY <1>8, FinishRest, CancelRest DEF CompleteTask, FailTask
<1>9. ASSUME NEW t \in Ids, NEW n \in Loads, NEW requests \in KeyMap(Questions),
             RequireInput(c, t, requests, n)
      PROVE RestTyped'
  BY <1>9, BodyIsTyped, RewriteRest DEF RequireInput
<1>10. ASSUME NEW t \in Ids, NEW status \in Open, SetStatus(c, t, status)
       PROVE RestTyped'
  BY <1>10, BodyIsTyped, RewriteRest DEF SetStatus
<1>11. ASSUME NEW t \in Ids, NEW responses \in KeyMap(Answers),
              ApplyInputResponses(c, t, responses)
       PROVE RestTyped'
  BY <1>11, BodyIsTyped, RewriteRest DEF ApplyInputResponses
<1> QED
  BY <1>1, <1>2, <1>3, <1>4, <1>5, <1>6, <1>7, <1>8, <1>9, <1>10, <1>11
     DEF CallerStep

LEMMA EveryRest == TypeOK /\ [Next]_vars => RestTyped'
<1> SUFFICES ASSUME TypeOK, [Next]_vars PROVE RestTyped'
  OBVIOUS
<1>0. waiter \in [Waiters -> Place]
  BY DEF TypeOK, Place
<1>1. ASSUME NEW w \in Waiters, NEW pc \in WaiterPC
      PROVE [waiter EXCEPT ![w].pc = pc] \in [Waiters -> Place]
  BY <1>0 DEF Place
<1>2. ASSUME NEW w \in Waiters, WaiterStep(w) PROVE RestTyped'
  <2>1. CASE WakeNotified(w) \/ WakeCancelled(w)
    <3>1. \/ Retiring(FALSE, [waiter EXCEPT ![w].pc = "rereading"])
          \/ Retiring(FALSE, [waiter EXCEPT ![w].pc = "checking"])
      BY <2>1 DEF WakeNotified, WakeCancelled
    <3>2. "rereading" \in WaiterPC /\ "checking" \in WaiterPC
      BY DEF WaiterPC
    <3>3. UNCHANGED <<issued, published, caller>>
      BY <2>1 DEF WakeNotified, WakeCancelled
    <3> QED
      BY <1>1, <3>1, <3>2, <3>3, RetiringIsTyped DEF TypeOK, RestTyped
  <2>2. CASE Register(w) \/ Recheck(w) \/ Reread(w)
    <3>1. \/ waiter' = Returned(w)
          \/ waiter' = [waiter EXCEPT ![w].pc = "parked"]
          \/ waiter' = [waiter EXCEPT ![w].pc = "held"]
      BY <2>2 DEF Register, Recheck, Reread
    <3>2. "parked" \in WaiterPC /\ "held" \in WaiterPC
      BY DEF WaiterPC
    <3>3. waiter' \in [Waiters -> Place]
      BY <1>0, <1>1, <3>1, <3>2, ReturnedIsTyped
    <3> QED
      BY <2>2, <3>3 DEF Register, Recheck, Reread, TypeOK, RestTyped
  <2> QED
    BY <1>2, <2>1, <2>2 DEF WaiterStep
<1>3. ASSUME NEW w \in Waiters, NEW t \in Ids, BeginWait(w, t) PROVE RestTyped'
  <2> DEFINE begun == [pc |-> "entered", id |-> t, woken |-> FALSE,
                       last |-> "none"]
  <2>1. begun \in Place
    BY DEF Place, WaiterPC, Reply
  <2>2. [waiter EXCEPT ![w] = begun] \in [Waiters -> Place]
    BY <1>0, <2>1
  <2>3. Retiring(FALSE, [waiter EXCEPT ![w] = begun])
    BY <1>3 DEF BeginWait
  <2> QED
    BY <1>3, <2>2, <2>3, RetiringIsTyped DEF BeginWait, TypeOK, RestTyped
<1>4. ASSUME NEW t \in Ids, Publish(t) \/ RaiseToken(t) \/ Elapse(t)
      PROVE RestTyped'
  BY <1>4 DEF Publish, RaiseToken, Elapse, TypeOK, RestTyped, Place
<1>5. ASSUME NEW remove \in BOOLEAN, Sweep(remove) PROVE RestTyped'
  BY <1>0, <1>5, RetiringIsTyped DEF Sweep, TypeOK, RestTyped
<1>6. CASE UNCHANGED vars
  BY <1>6, RestKept DEF vars
<1> QED
  BY <1>2, <1>3, <1>4, <1>5, <1>6, CallerRest DEF Next

LEMMA TypeOKIsInductive == TypeOK /\ [Next]_vars => TypeOK'
<1> SUFFICES ASSUME TypeOK, [Next]_vars PROVE TypeOK'
  OBVIOUS
<1>1. tasks' \in [Ids -> StoredTask \cup {NoTask}]
  BY EveryFate, FateIsTyped DEF Fates
<1> QED
  BY <1>1, EveryRest DEF RestTyped, TypeOK, Place

\* Every variable of the store keeps its type: in particular both byte totals
\* stay natural numbers, whatever is admitted, rewritten, discarded or retired.
THEOREM Typing == Spec => []TypeOK
<1>1. Init => TypeOK
  <2> SUFFICES ASSUME Init PROVE TypeOK
    OBVIOUS
  <2>1. waiter \in [Waiters -> Place]
    BY DEF Init, Place, WaiterPC, Reply
  <2>2. caller \in [Callers -> CallerPC]
    BY DEF Init, CallerPC
  <2>3. tasks \in [Ids -> StoredTask \cup {NoTask}]
    BY DEF Init
  <2>4. token \in [Ids -> BOOLEAN]
    BY DEF Init
  <2>5. /\ usage \in [retained : Nat, reserved : Nat]
        /\ issued \subseteq Ids /\ published \subseteq issued
        /\ poisoned \in BOOLEAN
    BY DEF Init
  <2> QED
    BY <2>1, <2>2, <2>3, <2>4, <2>5 DEF TypeOK, Place
<1> QED
  BY <1>1, TypeOKIsInductive, PTL DEF Spec
-----------------------------------------------------------------------------
\* Tokens stay raised, and ids stay issued and published.
LEMMA NothingIsTakenBack ==
  TypeOK /\ [Next]_vars =>
    /\ \A t \in Ids : token[t] => token'[t]
    /\ issued \subseteq issued' /\ published \subseteq published'
<1> SUFFICES ASSUME TypeOK, [Next]_vars
             PROVE  /\ \A t \in Ids : token[t] => token'[t]
                    /\ issued \subseteq issued' /\ published \subseteq published'
  OBVIOUS
<1> DEFINE Kept == /\ \A t \in Ids : token[t] => token'[t]
                   /\ issued \subseteq issued' /\ published \subseteq published'
<1>1. ASSUME NEW remove \in BOOLEAN, NEW ws, Retiring(remove, ws)
      PROVE  \A t \in Ids : token[t] => token'[t]
  BY <1>1 DEF Retiring, RetireExpired
<1>2. ASSUME NEW c \in Callers, CallerStep(c) PROVE Kept
  <2>1. CASE Enter(c) \/ Reclaim(c) \/ RetireAgain(c)
    BY <1>1, <2>1 DEF Enter, Reclaim, RetireAgain
  <2>2. ASSUME NEW t \in Ids,
               \/ ReturnUnchanged(c) \/ FindExpired(c, t) \/ DiscardTask(c, t)
               \/ \E past \in BOOLEAN : SetTtl(c, t, past)
        PROVE Kept
    BY <2>2 DEF ReturnUnchanged, FindExpired, DiscardTask, SetTtl
  <2>3. CASE ReturnUnchanged(c)
    BY <2>3 DEF ReturnUnchanged
  <2>4. ASSUME NEW t \in Ids, NEW n \in Loads,
               \/ CreateTask(c, t, n) \/ SetTaskMeta(c, t, n)
               \/ CompleteTask(c, t, n) \/ FailTask(c, t, n)
        PROVE Kept
    BY <2>4 DEF CreateTask, SetTaskMeta, Rewrite, CompleteTask, FailTask, Finish
  <2>5. ASSUME NEW t \in Ids, NEW n \in Loads, CancelTask(c, t, n) PROVE Kept
    BY <2>5 DEF CancelTask, TypeOK
  <2>6. ASSUME NEW t \in Ids,
               \/ \E requests \in KeyMap(Questions), n \in Loads :
                    RequireInput(c, t, requests, n)
               \/ \E status \in Open : SetStatus(c, t, status)
               \/ \E responses \in KeyMap(Answers) :
                    ApplyInputResponses(c, t, responses)
        PROVE Kept
    BY <2>6 DEF RequireInput, SetStatus, ApplyInputResponses, Rewrite
  <2> QED
    BY <1>2, <2>1, <2>2, <2>3, <2>4, <2>5, <2>6 DEF CallerStep
<1>3. ASSUME NEW w \in Waiters,
             WaiterStep(w) \/ \E t \in Ids : BeginWait(w, t)
      PROVE Kept
  <2>1. CASE WakeNotified(w) \/ WakeCancelled(w) \/ \E t \in Ids : BeginWait(w, t)
    BY <1>1, <2>1 DEF WakeNotified, WakeCancelled, BeginWait
  <2>2. CASE Register(w) \/ Recheck(w) \/ Reread(w)
    BY <2>2 DEF Register, Recheck, Reread
  <2> QED
    BY <1>3, <2>1, <2>2 DEF WaiterStep
<1>4. ASSUME NEW t \in Ids, Publish(t) \/ Elapse(t) \/ RaiseToken(t) PROVE Kept
  BY <1>4 DEF Publish, Elapse, RaiseToken, TypeOK
<1>5. ASSUME NEW remove \in BOOLEAN, Sweep(remove) PROVE Kept
  BY <1>1, <1>5 DEF Sweep
<1>6. CASE UNCHANGED vars
  BY <1>6 DEF vars
<1> QED
  BY <1>2, <1>3, <1>4, <1>5, <1>6 DEF Next

\* What holds of each stored task: its id was issued, its charge is that of its
\* record, a raised signal was due, and its keys do not overlap.
Disjoint(r) == /\ Outstanding(r) \cap Spent(r) = {}
               /\ Answered(r) \cap r.superseded = {}

Sound(t) ==
  Stored(t) =>
    /\ t \in issued
    /\ tasks[t].retained = RetainedSize(tasks[t].task)
    /\ Editable(t) => tasks[t].reserved = Reserve(tasks[t].task)
    /\ tasks[t].signalled =>
         /\ tasks[t].overdue /\ token[t]
         /\ tasks[t].retained = Skeleton /\ tasks[t].reserved = 0
    /\ Disjoint(tasks[t].task)

Soundness == \A t \in Ids : Sound(t)

LEMMA ScrubbedWeighsNothing ==
  ASSUME NEW r \in Record
  PROVE  RetainedSize(Scrubbed(r)) = Skeleton /\ Disjoint(Scrubbed(r))
<1> DEFINE s == Scrubbed(r)
<1>1. Cardinality(DOMAIN NoInputs) = 0 /\ Cardinality({}) = 0
  BY NoInputsIsAKeyMap, FS_EmptySet
<1>2. /\ s.name = 0 /\ s.args = 0 /\ s.text = 0 /\ s.meta = 0 /\ s.outcome = 0
      /\ s.asked = NoInputs /\ s.answers = NoInputs /\ s.superseded = {}
  BY DEF Scrubbed, Record
<1> HIDE DEF s
<1>3. RetainedSize(s) = Skeleton + 0 + 0 + 0 + 0 + 0 + InputSize * (0 + 0 + 0)
  BY <1>1, <1>2 DEF RetainedSize, Outstanding, Answered
<1>4. \A m, n \in Nat : m + 0 + 0 + 0 + 0 + 0 + n * (0 + 0 + 0) = m
  OBVIOUS
<1>5. Disjoint(s)
  BY <1>2, NoInputsIsAKeyMap DEF Disjoint, Outstanding, Spent, Answered
<1> QED
  BY <1>3, <1>4, <1>5, FixedSizes DEF s

LEMMA RewritingsAreDisjoint ==
  ASSUME NEW r \in Record, Disjoint(r), NEW n \in Rewritings(r)
  PROVE  Disjoint(n)
<1>1. ASSUME NEW requests \in KeyMap(Questions), NEW text \in Loads,
             Reused(r, requests) = {}
      PROVE  Disjoint(Asking(r, requests, text))
  <2>1. DOMAIN requests \cap Spent(r) = {}
    BY <1>1 DEF Reused
  <2>2. /\ Outstanding(Asking(r, requests, text)) = DOMAIN requests
        /\ Answered(Asking(r, requests, text)) = Answered(r)
        /\ Asking(r, requests, text).superseded
             = r.superseded \cup (Outstanding(r) \ DOMAIN requests)
    BY DEF Asking, Record, Outstanding, Answered
  <2> QED
    BY <2>1, <2>2 DEF Disjoint, Spent
<1>2. ASSUME NEW responses \in KeyMap(Answers)
      PROVE  Disjoint(Answering(r, responses))
  <2>1. Answering(r, responses).superseded = r.superseded
    BY DEF Answering, Record
  <2> QED
    BY <2>1, AnsweringIsARecord
       DEF Disjoint, Spent, StillOutstanding, Accepted
<1>3. ASSUME NEW status \in Open, NEW text \in Size
      PROVE  Disjoint(Progressing(r, status, text))
  BY DEF Progressing, Record, Disjoint, Spent, Outstanding, Answered
<1> QED
  BY <1>1, <1>2, <1>3 DEF Rewritings

LEMMA ClosingsAreDisjoint ==
  ASSUME NEW r \in Record, Disjoint(r), NEW n \in Closings(r)
  PROVE  Disjoint(n)
<1>1. /\ n.asked = NoInputs
      /\ \/ n.answers = r.answers /\ n.superseded = r.superseded
         \/ n.answers = NoInputs /\ n.superseded = {}
  BY DEF Closings, Finishing, Cancelling, CancellingBounded, FailingRetention,
     Record
<1> QED
  BY <1>1, NoInputsIsAKeyMap DEF Disjoint, Spent, Outstanding, Answered

LEMMA FateIsSound ==
  ASSUME TypeOK, NEW t \in Ids, Sound(t), Fate(t),
         issued \subseteq issued', token[t] => token'[t]
  PROVE  Sound(t)'
<1>1. Stored(t) => tasks[t] \in StoredTask /\ tasks[t].task \in Record
  BY DEF TypeOK, Stored, StoredTask
<1>2. ASSUME NEW r \in Record, Disjoint(r), tasks'[t] = Prepared(r),
             t \in issued'
      PROVE  Sound(t)'
  BY <1>2 DEF Sound, Prepared, Stored, Editable, Visible
<1>3. CASE tasks'[t] = tasks[t]
  BY <1>3 DEF Sound, Stored, Editable, Visible
<1>4. CASE Created(t)
  <2>1. PICK args \in Loads : tasks'[t] = Prepared(NewRecord(args))
    BY <1>4 DEF Created
  <2>2. Disjoint(NewRecord(args))
    BY NoInputsIsAKeyMap DEF NewRecord, Disjoint, Spent, Outstanding, Answered
  <2> QED
    BY <1>2, <1>4, <2>1, <2>2, NewRecordIsARecord DEF Created
<1>5. CASE Annotated(t)
  <2>1. PICK meta \in Loads :
          tasks'[t] = Prepared(Annotating(tasks[t].task, meta))
    BY <1>5 DEF Annotated
  <2>2. Stored(t) /\ t \in issued' /\ Disjoint(tasks[t].task)
    BY <1>5 DEF Annotated, Visible, Sound
  <2>3. Disjoint(Annotating(tasks[t].task, meta))
    BY <1>1, <2>2 DEF Annotating, Record, Disjoint, Spent, Outstanding, Answered
  <2> QED
    BY <1>1, <1>2, <2>1, <2>2, <2>3, AnnotatingIsARecord
<1>6. CASE Rewritten(t)
  <2>1. PICK r \in Rewritings(tasks[t].task) : tasks'[t] = Prepared(r)
    BY <1>6 DEF Rewritten
  <2>2. Stored(t) /\ t \in issued' /\ Disjoint(tasks[t].task)
    BY <1>6 DEF Rewritten, Editable, Visible, Sound
  <2> QED
    BY <1>1, <1>2, <2>1, <2>2, RewritingsAreRecords, RewritingsAreDisjoint
<1>7. CASE Finished(t)
  <2>1. PICK r \in Closings(tasks[t].task) : tasks'[t] = Closed(t, r)
    BY <1>7 DEF Finished
  <2>2. /\ Stored(t) /\ ~tasks[t].overdue /\ ~tasks[t].signalled
        /\ t \in issued' /\ Disjoint(tasks[t].task)
    BY <1>7 DEF Finished, Editable, Visible, Sound
  <2>3. r \in Record /\ IsTerminal(r) /\ Disjoint(r)
    BY <1>1, <2>2, ClosingsAreRecords, ClosingsAreDisjoint
  <2>4. /\ Closed(t, r).task = r /\ Closed(t, r).retained = RetainedSize(r)
        /\ Closed(t, r).signalled = tasks[t].signalled
    BY <1>1, <2>2 DEF Closed, StoredTask
  <2> QED
    BY <2>1, <2>2, <2>3, <2>4 DEF Sound, Editable
<1>8. CASE Elapsed(t)
  <2>1. /\ Stored(t) /\ ~tasks[t].signalled /\ t \in issued'
        /\ tasks[t].retained = RetainedSize(tasks[t].task)
        /\ Disjoint(tasks[t].task)
    BY <1>8 DEF Elapsed, Visible, Sound
  <2>2. /\ tasks'[t].task = tasks[t].task
        /\ tasks'[t].retained = tasks[t].retained
        /\ tasks'[t].signalled = tasks[t].signalled
        /\ tasks'[t].overdue = TRUE
    BY <1>1, <1>8, <2>1 DEF Elapsed, StoredTask
  <2> QED
    BY <2>1, <2>2 DEF Sound, Editable, Visible
<1>9. CASE Retired(t)
  <2>1. Stored(t) /\ tasks[t].overdue /\ token'[t] /\ t \in issued'
    BY <1>9 DEF Retired, Overdue, Sound
  <2>2. tasks'[t] = Signalled(tasks[t])
    BY <1>9 DEF Retired
  <2> QED
    BY <1>1, <2>1, <2>2, SignalledIsStored, ScrubbedWeighsNothing,
       ScrubbedIsARecord
       DEF Sound, Editable, Visible
<1>10. CASE Removed(t)
  BY <1>10 DEF Removed, Sound, Stored
<1> QED
  BY <1>3, <1>4, <1>5, <1>6, <1>7, <1>8, <1>9, <1>10 DEF Fate

LEMMA SoundnessInvariant == Spec => [](TypeOK /\ Soundness)
<1>1. Init => Soundness
  BY DEF Init, Soundness, Sound, Stored
<1>2. TypeOK /\ Soundness /\ [Next]_vars => Soundness'
  BY EveryFate, NothingIsTakenBack, FateIsSound DEF Soundness, Fates
<1>3. Spec => []Soundness
  BY <1>1, <1>2, Typing, PTL DEF Spec
<1> QED
  BY <1>3, Typing, PTL

\* While a task is open, what it is charged holds the fixed failure that may
\* have to replace its payload, so a terminal write has somewhere to go.
THEOREM FailureAlwaysFitsHolds == Spec => []FailureAlwaysFits
<1>1. TypeOK /\ Soundness => FailureAlwaysFits
  <2> SUFFICES ASSUME TypeOK, Soundness, NEW t \in Ids, Editable(t)
               PROVE  RetainedSize(FailingRetention(tasks[t].task))
                        =< tasks[t].retained + tasks[t].reserved
    BY DEF FailureAlwaysFits
  <2>1. Stored(t) /\ tasks[t].task \in Record /\ ~IsTerminal(tasks[t].task)
    BY DEF Editable, Visible, Stored, TypeOK, StoredTask
  <2> QED
    BY <2>1, ReserveHoldsTheFailure DEF Soundness, Sound
<1> QED
  BY <1>1, SoundnessInvariant, PTL

\* An expiry signal was due, raised the token and left no payload.
THEOREM ExpirySignalIsSoundHolds == Spec => []ExpirySignalIsSound
<1>1. Soundness => ExpirySignalIsSound
  BY DEF Soundness, Sound, ExpirySignalIsSound
<1> QED
  BY <1>1, SoundnessInvariant, PTL

\* No key is outstanding and spent at once, none both answered and superseded.
THEOREM KeysAreDisjointHolds == Spec => []KeysAreDisjoint
<1>1. Soundness => KeysAreDisjoint
  BY DEF Soundness, Sound, Disjoint, KeysAreDisjoint
<1> QED
  BY <1>1, SoundnessInvariant, PTL

\* No step rewrites the outcome of a closed task that is still visible.
THEOREM OutcomeIsImmutableHolds == Spec => OutcomeIsImmutable
<1> DEFINE Immutable(t) ==
      Visible(t) /\ IsTerminal(tasks[t].task) =>
         \/ tasks'[t] = NoTask
         \/ tasks'[t].overdue
         \/ [tasks'[t].task EXCEPT !.meta = 0]
              = [tasks[t].task EXCEPT !.meta = 0]
<1>1. ASSUME TypeOK, Soundness, Fates, NEW t \in Ids
      PROVE  Immutable(t)
  <2> SUFFICES ASSUME Visible(t), IsTerminal(tasks[t].task),
                      tasks'[t] # NoTask
               PROVE  \/ tasks'[t].overdue
                      \/ [tasks'[t].task EXCEPT !.meta = 0]
                           = [tasks[t].task EXCEPT !.meta = 0]
    OBVIOUS
  <2>1. /\ Stored(t) /\ tasks[t] \in StoredTask /\ tasks[t].task \in Record
        /\ t \in issued /\ ~Editable(t) /\ ~Overdue(t)
    BY <1>1 DEF Visible, Editable, Overdue, Stored, TypeOK, StoredTask,
       Soundness, Sound
  <2>2. Fate(t)
    BY <1>1 DEF Fates
  <2>3. \/ tasks'[t] = tasks[t] \/ Annotated(t) \/ Elapsed(t)
    BY <2>1, <2>2 DEF Fate, Created, Rewritten, Finished, Retired, Removed
  <2>4. CASE Annotated(t)
    <3>1. PICK meta \in Loads :
            tasks'[t] = Prepared(Annotating(tasks[t].task, meta))
      BY <2>4 DEF Annotated
    <3>2. tasks'[t].task = Annotating(tasks[t].task, meta)
      BY <3>1 DEF Prepared
    <3> QED
      BY <2>1, <3>2 DEF Annotating, Record
  <2>5. CASE Elapsed(t)
    BY <2>1, <2>5 DEF Elapsed, StoredTask
  <2> QED
    BY <2>3, <2>4, <2>5
<1>2. TypeOK /\ Soundness /\ [Next]_vars => \A t \in Ids : Immutable(t)
  BY <1>1, EveryFate
<1> QED
  BY <1>2, SoundnessInvariant, PTL DEF Spec, OutcomeIsImmutable

\* A key of an open task names one request, and its answer, for good.
Faithful(r, n) ==
  /\ Spent(r) \subseteq Spent(n)
  /\ Outstanding(r) \subseteq Outstanding(n) \cup Spent(n)
  /\ \A k \in Answered(r) : n.answers[k] = r.answers[k]
  /\ \A k \in Outstanding(r) \cap Outstanding(n) : n.asked[k] = r.asked[k]

LEMMA RewritingsAreFaithful ==
  ASSUME NEW r \in Record, Disjoint(r), NEW n \in Rewritings(r)
  PROVE  Faithful(r, n)
<1>1. ASSUME NEW requests \in KeyMap(Questions), NEW text \in Loads,
             Reused(r, requests) = {}
      PROVE  Faithful(r, Asking(r, requests, text))
  <2> DEFINE a == Asking(r, requests, text)
  <2>1. /\ a.asked = requests /\ a.answers = r.answers
        /\ a.superseded = r.superseded \cup (Outstanding(r) \ DOMAIN requests)
    BY DEF Asking, Record
  <2>2. \A k \in DOMAIN requests :
          k \in Outstanding(r) => r.asked[k] = requests[k]
    BY <1>1 DEF Reused
  <2> HIDE DEF a
  <2>3. Faithful(r, a)
    BY <2>1, <2>2 DEF Faithful, Spent, Outstanding, Answered
  <2> QED
    BY <2>3 DEF a
<1>2. ASSUME NEW responses \in KeyMap(Answers)
      PROVE  Faithful(r, Answering(r, responses))
  <2> DEFINE a == Answering(r, responses)
  <2>1. a.superseded = r.superseded
    BY DEF Answering, Record
  <2>2. Outstanding(a) = StillOutstanding(r, responses)
        /\ Answered(a) = Answered(r) \cup Accepted(r, responses)
    BY AnsweringIsARecord
  <2>3. \A k \in Answered(r) : a.answers[k] = r.answers[k]
    BY DEF Answering, Record, Disjoint, Spent, Answered, Accepted
  <2>4. \A k \in StillOutstanding(r, responses) : a.asked[k] = r.asked[k]
    BY DEF Answering, Record
  <2> HIDE DEF a
  <2>5. Faithful(r, a)
    BY <2>1, <2>2, <2>3, <2>4
       DEF Faithful, Spent, StillOutstanding, Accepted
  <2> QED
    BY <2>5 DEF a
<1>3. ASSUME NEW status \in Open, NEW text \in Size
      PROVE  Faithful(r, Progressing(r, status, text))
  BY DEF Progressing, Record, Faithful, Spent, Outstanding, Answered
<1> QED
  BY <1>1, <1>2, <1>3 DEF Rewritings

\* Spent keys stay spent, answers stay as given, open questions stay as asked.
THEOREM KeysKeepTheirMeaningHolds == Spec => KeysKeepTheirMeaning
<1>1. ASSUME TypeOK, Soundness, Fates, NEW t \in Ids, Editable(t), Editable(t)'
      PROVE  Faithful(tasks[t].task, tasks'[t].task)
  <2> DEFINE r == tasks[t].task
  <2>1. /\ Stored(t) /\ tasks[t] \in StoredTask /\ r \in Record
        /\ t \in issued /\ Disjoint(r) /\ ~Overdue(t)
    BY <1>1 DEF Editable, Visible, Overdue, Stored, TypeOK, StoredTask,
       Soundness, Sound
  <2>2. Fate(t)
    BY <1>1 DEF Fates
  <2>3. \/ tasks'[t] = tasks[t] \/ Annotated(t) \/ Rewritten(t) \/ Finished(t)
    BY <1>1, <2>1, <2>2
       DEF Fate, Created, Elapsed, Retired, Removed, Editable, Visible, Stored,
           StoredTask
  <2>4. CASE tasks'[t] = tasks[t]
    BY <2>4 DEF Faithful
  <2>5. CASE Annotated(t)
    <3>1. PICK meta \in Loads : tasks'[t] = Prepared(Annotating(r, meta))
      BY <2>5 DEF Annotated
    <3>2. tasks'[t].task = Annotating(r, meta)
      BY <3>1 DEF Prepared
    <3> QED
      BY <2>1, <3>2
         DEF Annotating, Record, Faithful, Spent, Outstanding, Answered
  <2>6. CASE Rewritten(t)
    <3>1. tasks'[t].task \in Rewritings(r)
      BY <2>6 DEF Rewritten, Prepared
    <3> QED
      BY <2>1, <3>1, RewritingsAreFaithful
  <2>7. CASE Finished(t)
    BY <1>1, <2>1, <2>7, ClosingsAreRecords, ClosedIsStored
       DEF Finished, Editable
  <2> QED
    BY <2>3, <2>4, <2>5, <2>6, <2>7
<1>2. TypeOK /\ Soundness /\ [Next]_vars =>
        \A t \in Ids : Editable(t) /\ Editable(t)' =>
                         Faithful(tasks[t].task, tasks'[t].task)
  BY <1>1, EveryFate
<1> QED
  BY <1>2, SoundnessInvariant, PTL
     DEF Spec, KeysKeepTheirMeaning, Faithful
-----------------------------------------------------------------------------
\* What holds of each wait, with the waiters as in ws: it waits on a published
\* id; unless woken it waits on a task that is open and owes its signal; woken,
\* it will read an outcome or nothing.
Waking == {"parked", "checking", "held"}
Owing(t) == Stored(t) /\ ~IsTerminal(tasks[t].task) /\ ~tasks[t].signalled

Waits(ws) ==
  \A w \in Waiters :
    /\ ws[w].pc # "idle" => ws[w].id \in published
    /\ ws[w].pc = "entered" => ~ws[w].woken
    /\ ws[w].pc \in Waking /\ ~ws[w].woken => poisoned \/ Owing(ws[w].id)
    /\ \/ ws[w].pc \in Waking /\ ws[w].woken
       \/ ws[w].pc = "rereading"
       => poisoned \/ ~Editable(ws[w].id)
    /\ ws[w].last # "unfinished"

\* A task outside S that owed its signal owes it still, unless nobody can be
\* waiting for it; a task in S has nothing more to come.
Spares(S) ==
  /\ \A t \in Ids \ S : Owing(t) /\ t \in published => Owing(t)' \/ poisoned'
  /\ \A t \in S : ~Editable(t)'
  /\ poisoned => poisoned'

\* A task that is not open any more never is again.
LEMMA ClosedForGood ==
  ASSUME TypeOK, Soundness, Fates, NEW t \in issued, ~Editable(t)
  PROVE  ~Editable(t)'
<1>1. t \in Ids /\ Fate(t)
  BY DEF TypeOK, Fates
<1>2. Stored(t) => tasks[t] \in StoredTask /\ tasks[t].task \in Record
  BY <1>1 DEF TypeOK, Stored, StoredTask
<1>3. CASE tasks'[t] = tasks[t]
  BY <1>3 DEF Editable, Visible, Stored
<1>4. CASE Annotated(t)
  <2>1. PICK meta \in Loads :
          tasks'[t] = Prepared(Annotating(tasks[t].task, meta))
    BY <1>4 DEF Annotated
  <2>2. IsTerminal(tasks[t].task) /\ Stored(t)
    BY <1>4 DEF Annotated, Editable, Visible
  <2> QED
    BY <1>2, <2>1, <2>2
       DEF Prepared, Annotating, Record, IsTerminal, Editable
<1>5. CASE Elapsed(t)
  BY <1>2, <1>5 DEF Elapsed, Visible, Editable, StoredTask
<1>6. CASE Retired(t)
  BY <1>2, <1>6, SignalledIsStored DEF Retired, Overdue, Visible, Editable
<1>7. CASE Removed(t)
  BY <1>7 DEF Removed, Editable, Visible, Stored
<1> QED
  BY <1>1, <1>3, <1>4, <1>5, <1>6, <1>7
     DEF Fate, Created, Rewritten, Finished

LEMMA NotifyingKeepsWaits ==
  ASSUME TypeOK, Soundness, Fates, NEW ws \in [Waiters -> Place], Waits(ws),
         NEW S, Spares(S), waiter' = Notified(ws, S),
         published \subseteq published'
  PROVE  Waits(waiter)'
<1> SUFFICES ASSUME NEW w \in Waiters
             PROVE
    /\ waiter'[w].pc # "idle" => waiter'[w].id \in published'
    /\ waiter'[w].pc = "entered" => ~waiter'[w].woken
    /\ waiter'[w].pc \in Waking /\ ~waiter'[w].woken
         => poisoned' \/ Owing(waiter[w].id)'
    /\ \/ waiter'[w].pc \in Waking /\ waiter'[w].woken
       \/ waiter'[w].pc = "rereading"
       => poisoned' \/ ~Editable(waiter[w].id)'
    /\ waiter'[w].last # "unfinished"
  BY DEF Waits
<1> DEFINE t == ws[w].id
<1>1. /\ waiter'[w].pc = ws[w].pc /\ waiter'[w].id = t
      /\ waiter'[w].last = ws[w].last
  BY NotifiedIsTyped
<1>2. \/ /\ t \in S /\ ws[w].pc \in Waking
         /\ waiter'[w].woken = TRUE
      \/ /\ t \notin S \/ ws[w].pc \notin Waking
         /\ waiter'[w].woken = ws[w].woken
  BY DEF Notified, Place, Waking
<1>3. ws[w].pc # "idle" => t \in published /\ t \in issued /\ t \in Ids
  BY DEF Waits, TypeOK
<1>4. ws[w].pc # "idle" /\ ~Editable(t) => ~Editable(t)'
  BY <1>3, ClosedForGood
<1>5. "idle" \notin Waking /\ "rereading" # "idle" /\ "rereading" \notin Waking
  BY DEF Waking
<1>6. waiter'[w].pc # "idle" => waiter'[w].id \in published'
  BY <1>1, <1>3
<1>7. ASSUME waiter'[w].pc \in Waking, ~waiter'[w].woken
      PROVE  poisoned' \/ Owing(waiter[w].id)'
  <2>1. t \notin S /\ ~ws[w].woken /\ ws[w].pc \in Waking
    BY <1>1, <1>2, <1>7
  <2>2. poisoned \/ Owing(t)
    BY <2>1 DEF Waits
  <2>3. t \in published /\ t \in Ids
    BY <1>3, <1>5, <2>1
  <2>4. poisoned' \/ Owing(t)'
    BY <2>1, <2>2, <2>3 DEF Spares
  <2> QED
    BY <1>1, <2>4 DEF Owing, Stored
<1>8. ASSUME \/ waiter'[w].pc \in Waking /\ waiter'[w].woken
             \/ waiter'[w].pc = "rereading"
      PROVE  poisoned' \/ ~Editable(waiter[w].id)'
  <2>1. ws[w].pc # "idle"
    BY <1>1, <1>5, <1>8
  <2>2. CASE t \in S
    BY <1>1, <2>2 DEF Spares, Editable, Visible, Stored
  <2>3. CASE t \notin S
    <3>1. poisoned \/ ~Editable(t)
      BY <1>1, <1>2, <1>8, <2>3 DEF Waits
    <3>2. poisoned' \/ ~Editable(t)'
      BY <1>4, <2>1, <3>1 DEF Spares
    <3> QED
      BY <1>1, <3>2 DEF Editable, Visible, Stored
  <2> QED
    BY <2>2, <2>3
<1>9. waiter'[w].last # "unfinished"
  BY <1>1 DEF Waits
<1>10. waiter'[w].pc = "entered" => ~waiter'[w].woken
  BY <1>1, <1>2 DEF Waits, Waking
<1> QED
  BY <1>6, <1>7, <1>8, <1>9, <1>10

LEMMA NotifyingNobody ==
  ASSUME NEW ws \in [Waiters -> Place]
  PROVE  Notified(ws, {}) = ws
  BY DEF Notified

\* A step tells every waiter it has to: those of the tasks it takes away.
Noticed ==
  \E ws \in [Waiters -> Place] : \E S :
    Waits(ws) /\ Spares(S) /\ waiter' = Notified(ws, S)

LEMMA KeepingNotices ==
  ASSUME NEW ws \in [Waiters -> Place], Waits(ws), waiter' = ws,
         UNCHANGED tasks, poisoned => poisoned'
  PROVE  Noticed
<1>1. Spares({})
  BY DEF Spares, Owing, Stored
<1> QED
  BY <1>1, NotifyingNobody DEF Noticed

LEMMA RetiringNotices ==
  ASSUME TypeOK, Soundness, NEW remove \in BOOLEAN,
         NEW ws \in [Waiters -> Place], Waits(ws), Retiring(remove, ws)
  PROVE  Noticed
<1>1. CASE poisoned
  BY <1>1, KeepingNotices DEF Retiring
<1>2. CASE ~poisoned
  <2> DEFINE scrubbed == [t \in Ids |-> IF t \in Expiring
                                        THEN Signalled(tasks[t]) ELSE tasks[t]]
             dropped == IF remove THEN { t \in Ids : Overdue(t) } ELSE {}
  <2>1. waiter' = Notified(ws, Expiring)
    BY <1>2 DEF Retiring, RetireExpired
  <2>2. \/ tasks' = scrubbed
        \/ tasks' = [t \in Ids |-> IF t \in dropped THEN NoTask
                                   ELSE scrubbed[t]]
    BY <1>2 DEF Retiring, RetireExpired
  <2>3. \A t \in Ids : Overdue(t) /\ ~tasks[t].signalled => t \in Expiring
    BY DEF Expiring
  <2>4. \A t \in dropped : Overdue(t)
    OBVIOUS
  <2>5. \A t \in Expiring : t \in Ids /\ Overdue(t) /\ tasks[t] \in StoredTask
    BY DEF Expiring, Overdue, Stored, TypeOK
  <2>6. \A t \in Expiring : Signalled(tasks[t]).overdue
    BY <2>5, SignalledIsStored DEF Overdue
  <2> HIDE DEF dropped
  <2>7. \A t \in Ids \ Expiring : Owing(t) => Owing(t)'
    BY <2>2, <2>3, <2>4 DEF Owing, Stored
  <2>8. \A t \in Expiring : ~Editable(t)'
    BY <2>2, <2>5, <2>6 DEF Editable, Visible, Stored
  <2> QED
    BY <1>2, <2>1, <2>7, <2>8 DEF Spares, Noticed
<1> QED
  BY <1>1, <1>2

LEMMA UpdatingNotices ==
  ASSUME TypeOK, NEW ws \in [Waiters -> Place], Waits(ws), waiter' = ws,
         NEW t \in Ids, NEW s, tasks' = [tasks EXCEPT ![t] = s],
         Owing(t) /\ t \in published =>
           \/ s # NoTask /\ ~IsTerminal(s.task) /\ ~s.signalled
           \/ poisoned',
         poisoned => poisoned'
  PROVE  Noticed
<1>1. Spares({})
  BY DEF Spares, Owing, Stored, TypeOK
<1> QED
  BY <1>1, NotifyingNobody DEF Noticed

LEMMA RewritingsStayOpen ==
  ASSUME NEW r \in Record, ~IsTerminal(r), NEW n \in Rewritings(r)
  PROVE  ~IsTerminal(n)
<1>1. n.status \in Open \cup {r.status}
  <2>1. \A requests, text : Asking(r, requests, text).status = "input_required"
    BY DEF Asking, Record
  <2>2. \A responses :
          Answering(r, responses).status \in {"working", r.status}
    BY DEF Answering, Record
  <2>3. \A status, text : Progressing(r, status, text).status = status
    BY DEF Progressing, Record
  <2> QED
    BY <2>1, <2>2, <2>3 DEF Rewritings, Open
<1> QED
  BY <1>1 DEF IsTerminal, Terminal, Open

LEMMA RewritingNotices ==
  ASSUME TypeOK, Waits(waiter), NEW t \in Ids, NEW r, Rewrite(t, r), Stored(t),
         \/ Editable(t) /\ r \in Rewritings(tasks[t].task)
         \/ \E meta \in Loads : r = Annotating(tasks[t].task, meta)
  PROVE  Noticed
<1>1. tasks[t].task \in Record /\ waiter \in [Waiters -> Place]
  BY DEF TypeOK, Stored, StoredTask, Place
<1>2. /\ tasks' = [tasks EXCEPT ![t] = Prepared(r)]
      /\ UNCHANGED <<waiter, poisoned>>
  BY DEF Rewrite, Put
<1>3. /\ r \in Record
      /\ Owing(t) => ~IsTerminal(r)
  BY <1>1, RewritingsAreRecords, RewritingsStayOpen, AnnotatingIsARecord
     DEF Annotating, Record, IsTerminal, Owing
<1>4. Prepared(r) # NoTask
  BY <1>3, PreparedIsStored, StoreAssumption
<1>5. Prepared(r).task = r /\ ~Prepared(r).signalled
  BY DEF Prepared
<1> HIDE DEF Noticed
<1> QED
  BY <1>1, <1>2, <1>3, <1>4, <1>5, UpdatingNotices

LEMMA ClosingNotices ==
  ASSUME TypeOK, Waits(waiter), NEW t \in Ids, NEW r \in Closings(tasks[t].task),
         Editable(t), Close(t, r) \/ Panic(t)
  PROVE  Noticed
<1>1. waiter \in [Waiters -> Place]
  BY DEF TypeOK, Place
<1>2. CASE Close(t, r)
  <2>1. /\ tasks' = [tasks EXCEPT ![t] = Closed(t, r)]
        /\ waiter' = Notified(waiter, {t})
        /\ poisoned => poisoned'
    BY <1>2 DEF Close, Put
  <2>2. IsTerminal(Closed(t, r).task)
    BY ClosingsAreRecords, ClosedIsStored
       DEF Editable, Visible, Stored, TypeOK, StoredTask
  <2>3. Spares({t})
    BY <2>1, <2>2 DEF Spares, Owing, Editable, Stored, TypeOK
  <2> QED
    BY <1>1, <2>1, <2>3 DEF Noticed
<1>3. CASE Panic(t)
  BY <1>1, <1>3, UpdatingNotices DEF Panic
<1> QED
  BY <1>2, <1>3

LEMMA FinishNotices ==
  ASSUME TypeOK, Waits(waiter), NEW t \in Ids, NEW c \in Callers, NEW n \in Loads,
         CompleteTask(c, t, n) \/ FailTask(c, t, n)
  PROVE  Noticed
<1> DEFINE failed == FailingRetention(tasks[t].task)
<1>1. ASSUME NEW status, NEW text, Finish(c, t, status, text, n),
             Finishing(tasks[t].task, status, text, n)
               \in Closings(tasks[t].task)
      PROVE Noticed
  <2> DEFINE r == Finishing(tasks[t].task, status, text, n)
  <2>1. Editable(t)
    BY <1>1 DEF Finish
  <2>2. Close(t, r) \/ Close(t, failed) \/ Panic(t)
    BY <1>1 DEF Finish, CommitRetentionFailure
  <2>3. failed \in Closings(tasks[t].task)
    BY DEF Closings
  <2> HIDE DEF r, failed
  <2> QED
    BY <1>1, <2>1, <2>2, <2>3, ClosingNotices DEF r
<1>2. CASE CompleteTask(c, t, n)
  BY <1>1, <1>2 DEF CompleteTask, Closings
<1>3. CASE FailTask(c, t, n)
  BY <1>1, <1>3 DEF FailTask, Closings
<1> QED
  BY <1>2, <1>3

LEMMA CancelNotices ==
  ASSUME TypeOK, Waits(waiter), NEW t \in Ids, NEW c \in Callers, NEW n \in Loads,
         CancelTask(c, t, n)
  PROVE  Noticed
<1>0. waiter \in [Waiters -> Place]
  BY DEF TypeOK, Place
<1>1. CASE IsTerminal(tasks[t].task)
  BY <1>0, <1>1, KeepingNotices DEF CancelTask
<1>2. CASE ~IsTerminal(tasks[t].task)
  <2> DEFINE r == tasks[t].task
  <2>1. Editable(t)
    BY <1>2 DEF CancelTask, Editable
  <2>2. \/ Close(t, Cancelling(r, n))
        \/ Close(t, CancellingBounded(r))
        \/ Panic(t)
    BY <1>2 DEF CancelTask
  <2>3. Cancelling(r, n) \in Closings(r) /\ CancellingBounded(r) \in Closings(r)
    BY DEF Closings
  <2> QED
    BY <2>1, <2>2, <2>3, ClosingNotices
<1> QED
  BY <1>1, <1>2

LEMMA CallerNotices ==
  ASSUME TypeOK, Soundness, Waits(waiter), NEW c \in Callers, CallerStep(c)
  PROVE  Noticed
<1>0. waiter \in [Waiters -> Place]
  BY DEF TypeOK, Place
<1>1. CASE Enter(c) \/ Reclaim(c) \/ RetireAgain(c)
  BY <1>0, <1>1, RetiringNotices DEF Enter, Reclaim, RetireAgain
<1>2. CASE ReturnUnchanged(c) \/ \E t \in Ids : FindExpired(c, t)
  BY <1>0, <1>2, KeepingNotices DEF ReturnUnchanged, FindExpired
<1>3. ASSUME NEW t \in Ids, DiscardTask(c, t) PROVE Noticed
  <2>1. /\ tasks' = [tasks EXCEPT ![t] = NoTask] /\ waiter' = waiter
        /\ t \notin published /\ ~poisoned
    BY <1>3 DEF DiscardTask
  <2> QED
    BY <1>0, <2>1, UpdatingNotices
<1>4. ASSUME NEW t \in Ids, NEW past \in BOOLEAN, SetTtl(c, t, past) PROVE Noticed
  <2>1. waiter' = waiter /\ poisoned' = poisoned /\ Stored(t)
    BY <1>4 DEF SetTtl
  <2>2. CASE Overdue(t)
    BY <1>0, <1>4, <2>1, <2>2, KeepingNotices DEF SetTtl
  <2>3. CASE ~Overdue(t)
    <3> DEFINE s == [tasks[t] EXCEPT !.overdue = past]
    <3>1. tasks' = [tasks EXCEPT ![t] = s]
      BY <1>4, <2>3 DEF SetTtl
    <3>2. s \in StoredTask /\ s.task = tasks[t].task
          /\ s.signalled = tasks[t].signalled
      BY <2>1 DEF Stored, TypeOK, StoredTask
    <3>3. Owing(t) => s # NoTask /\ ~IsTerminal(s.task) /\ ~s.signalled
      BY <3>2, StoreAssumption DEF Owing
    <3> HIDE DEF s
    <3> QED
      BY <1>0, <2>1, <3>1, <3>3, UpdatingNotices
  <2> QED
    BY <2>2, <2>3
<1>5. ASSUME NEW t \in Ids, NEW n \in Loads, CreateTask(c, t, n) PROVE Noticed
  <2>1. /\ tasks' = [tasks EXCEPT ![t] = Prepared(NewRecord(n))]
        /\ UNCHANGED <<waiter, poisoned>> /\ t \notin issued
    BY <1>5 DEF CreateTask
  <2>2. t \notin published
    BY <2>1 DEF TypeOK
  <2> QED
    BY <1>0, <2>1, <2>2, UpdatingNotices
<1>6. ASSUME NEW t \in Ids, NEW n \in Loads, SetTaskMeta(c, t, n) PROVE Noticed
  BY <1>6, RewritingNotices DEF SetTaskMeta, Visible
<1>7. ASSUME NEW t \in Ids, NEW n \in Loads,
             CompleteTask(c, t, n) \/ FailTask(c, t, n) \/ CancelTask(c, t, n)
      PROVE Noticed
  BY <1>7, FinishNotices, CancelNotices
<1>8. ASSUME NEW t \in Ids, NEW n \in Loads, NEW requests \in KeyMap(Questions),
             RequireInput(c, t, requests, n)
      PROVE Noticed
  <2>1. Asking(tasks[t].task, requests, n) \in Rewritings(tasks[t].task)
    BY <1>8 DEF RequireInput, Rewritings
  <2> QED
    BY <1>8, <2>1, RewritingNotices DEF RequireInput, Editable, Visible
<1>9. ASSUME NEW t \in Ids, NEW status \in Open, SetStatus(c, t, status)
      PROVE Noticed
  <2>1. Editable(t) /\ Stored(t)
    BY <1>9 DEF SetStatus, Editable, Visible
  <2>2. tasks[t].task.text \in Size
    BY <2>1 DEF TypeOK, Stored, StoredTask, Record
  <2>3. PICK text \in { n \in Loads : FitsPayload(n) } \cup { tasks[t].task.text } :
          Rewrite(t, Progressing(tasks[t].task, status, text))
    BY <1>9 DEF SetStatus
  <2>4. text \in Size
    BY <2>2, <2>3, FixedSizes
  <2>5. Progressing(tasks[t].task, status, text) \in Rewritings(tasks[t].task)
    BY <2>4 DEF Rewritings
  <2> QED
    BY <2>1, <2>3, <2>5, RewritingNotices
<1>10. ASSUME NEW t \in Ids, NEW responses \in KeyMap(Answers),
              ApplyInputResponses(c, t, responses)
       PROVE Noticed
  <2>1. Answering(tasks[t].task, responses) \in Rewritings(tasks[t].task)
    BY DEF Rewritings
  <2> QED
    BY <1>10, <2>1, RewritingNotices DEF ApplyInputResponses, Editable, Visible
<1> QED
  BY <1>1, <1>2, <1>3, <1>4, <1>5, <1>6, <1>7, <1>8, <1>9, <1>10 DEF CallerStep

LEMMA ReturnedKeepsWaits ==
  ASSUME TypeOK, Waits(waiter), NEW w \in Waiters,
         poisoned \/ ~Editable(waiter[w].id)
  PROVE  Waits(Returned(w))
<1> DEFINE ws == Returned(w)
<1>1. \A v \in Waiters : v # w => ws[v] = waiter[v]
  BY DEF Returned, TypeOK
<1>2. ws[w].pc = "idle" /\ ws[w].last # "unfinished"
  BY DEF Returned, TypeOK, Editable
<1> HIDE DEF ws
<1>3. Waits(ws)
  BY <1>1, <1>2 DEF Waits, Waking
<1> QED
  BY <1>3 DEF ws

LEMMA WaiterNotices ==
  ASSUME TypeOK, Soundness, Waits(waiter), NEW w \in Waiters,
         WaiterStep(w) \/ \E t \in Ids : BeginWait(w, t)
  PROVE  Noticed
<1>0. waiter \in [Waiters -> Place]
  BY DEF TypeOK, Place
<1> DEFINE At(pc) == [waiter EXCEPT ![w].pc = pc]
<1>1. ASSUME NEW pc \in WaiterPC
      PROVE  At(pc) \in [Waiters -> Place]
  BY <1>0 DEF Place
<1>2. CASE WakeNotified(w)
  <2>1. Retiring(FALSE, At("rereading"))
    BY <1>2 DEF WakeNotified
  <2>2. Waits(At("rereading"))
    BY <1>0, <1>2 DEF WakeNotified, Waits, Waking, Place
  <2> HIDE DEF At, Noticed
  <2> QED
    BY <1>1, <2>1, <2>2, RetiringNotices DEF WaiterPC
<1>3. CASE WakeCancelled(w)
  <2>1. Retiring(FALSE, At("checking"))
    BY <1>3 DEF WakeCancelled
  <2>2. Waits(At("checking"))
    BY <1>0, <1>3 DEF WakeCancelled, Waits, Waking, Place
  <2> HIDE DEF At, Noticed
  <2> QED
    BY <1>1, <2>1, <2>2, RetiringNotices DEF WaiterPC
<1>4. CASE Register(w) \/ Recheck(w) \/ Reread(w)
  <2> DEFINE t == waiter[w].id
  <2>1. UNCHANGED <<tasks, poisoned>>
    BY <1>4 DEF Register, Recheck, Reread
  <2>2. CASE waiter' = Returned(w) /\ (poisoned \/ ~Editable(t))
    BY <1>0, <2>1, <2>2, ReturnedIsTyped, ReturnedKeepsWaits, KeepingNotices
  <2>3. CASE /\ waiter' = At("parked") \/ waiter' = At("held")
             /\ waiter[w].pc \in {"entered", "checking"}
             /\ ~poisoned /\ Editable(t)
    <3>1. t \in published /\ t \in Ids
      BY <2>3 DEF Waits, TypeOK
    <3>2. Owing(t)
      BY <2>3, <3>1 DEF Owing, Editable, Visible, Soundness, Sound
    <3>3. \/ waiter' = At("parked") /\ "parked" \in WaiterPC
          \/ waiter' = At("held") /\ "held" \in WaiterPC
      BY <2>3 DEF WaiterPC
    <3>4. Waits(At("parked")) /\ Waits(At("held"))
      <4>1. ~waiter[w].woken
        BY <2>3 DEF Waits, Waking
      <4> QED
        BY <1>0, <2>3, <3>1, <3>2, <4>1 DEF Waits, Waking, Place
    <3> HIDE DEF At, Noticed
    <3> QED
      BY <1>1, <2>1, <3>3, <3>4, KeepingNotices
  <2>4. waiter[w].pc = "rereading" => poisoned \/ ~Editable(t)
    BY DEF Waits
  <2> QED
    BY <1>4, <2>2, <2>3, <2>4 DEF Register, Recheck, Reread
<1>5. ASSUME NEW t \in Ids, BeginWait(w, t) PROVE Noticed
  <2> DEFINE begun == [pc |-> "entered", id |-> t, woken |-> FALSE,
                       last |-> "none"]
             ws == [waiter EXCEPT ![w] = begun]
  <2>1. begun \in Place
    BY DEF Place, WaiterPC, Reply
  <2>2. ws \in [Waiters -> Place]
    BY <1>0, <2>1
  <2>3. Waits(ws)
    BY <1>0, <1>5 DEF BeginWait, Waits, Waking
  <2>4. Retiring(FALSE, ws)
    BY <1>5 DEF BeginWait
  <2> HIDE DEF ws
  <2> QED
    BY <2>2, <2>3, <2>4, RetiringNotices
<1> QED
  BY <1>2, <1>3, <1>4, <1>5 DEF WaiterStep

LEMMA EveryNotice ==
  ASSUME TypeOK, Soundness, Waits(waiter), [Next]_vars
  PROVE  Noticed
<1>0. waiter \in [Waiters -> Place]
  BY DEF TypeOK, Place
<1>1. ASSUME NEW t \in Ids, NEW past, tasks[t] \in StoredTask, past \in BOOLEAN
      PROVE  LET s == [tasks[t] EXCEPT !.overdue = past]
             IN s # NoTask /\ s.task = tasks[t].task
                           /\ s.signalled = tasks[t].signalled
  BY <1>1, StoreAssumption DEF StoredTask
<1>2. ASSUME NEW t \in Ids, Elapse(t) PROVE Noticed
  <2> DEFINE s == [tasks[t] EXCEPT !.overdue = TRUE]
  <2>1. /\ tasks' = [tasks EXCEPT ![t] = s]
        /\ waiter' = waiter /\ poisoned' = poisoned
        /\ tasks[t] \in StoredTask
    BY <1>2 DEF Elapse, Visible, Stored, TypeOK
  <2>2. Owing(t) => s # NoTask /\ ~IsTerminal(s.task) /\ ~s.signalled
    BY <1>1, <2>1 DEF Owing
  <2> HIDE DEF s
  <2> QED
    BY <1>0, <2>1, <2>2, UpdatingNotices
<1>3. ASSUME NEW t \in Ids, Publish(t) \/ RaiseToken(t) PROVE Noticed
  BY <1>0, <1>3, KeepingNotices DEF Publish, RaiseToken
<1>4. ASSUME NEW remove \in BOOLEAN, Sweep(remove) PROVE Noticed
  BY <1>0, <1>4, RetiringNotices DEF Sweep
<1>5. CASE UNCHANGED vars
  BY <1>0, <1>5, KeepingNotices DEF vars
<1> QED
  BY <1>2, <1>3, <1>4, <1>5, CallerNotices, WaiterNotices DEF Next

LEMMA WaitsInvariant == Spec => []Waits(waiter)
<1>1. Init => Waits(waiter)
  BY DEF Init, Waits, Waking
<1>2. TypeOK /\ Soundness /\ Waits(waiter) /\ [Next]_vars => Waits(waiter)'
  BY EveryFate, EveryNotice, NothingIsTakenBack, NotifyingKeepsWaits DEF Noticed
<1> QED
  BY <1>1, <1>2, SoundnessInvariant, PTL DEF Spec

\* wait_for_completion never answers with a task that is still open.
THEOREM WaitsForTheOutcomeHolds == Spec => []WaitsForTheOutcome
<1>1. Waits(waiter) => WaitsForTheOutcome
  BY DEF Waits, WaitsForTheOutcome
<1> QED
  BY <1>1, WaitsInvariant, PTL
-----------------------------------------------------------------------------
\* The refinement of TaskLifecycle.  What a caller sees of one task is its
\* phase and, while it is open, its outstanding and its spent keys.
LooksTheSame(t) == /\ PhaseOf(t)' = PhaseOf(t)
                   /\ AskedOf(t)' = AskedOf(t)
                   /\ SpentOf(t)' = SpentOf(t)

Raises == /\ \A t \in Ids : token[t] => token'[t]
          /\ token' \in [Ids -> BOOLEAN]

LEMMA QuietStep ==
  ASSUME \A t \in Ids : LooksTheSame(t), Raises
  PROVE  Lifecycle!Next
<1>1. \A t \in Ids : /\ PhaseOf(t)' = PhaseOf(t) /\ AskedOf(t)' = AskedOf(t)
                     /\ SpentOf(t)' = SpentOf(t)
  BY DEF LooksTheSame
<1>2. Lifecycle!Raise
  BY <1>1 DEF Raises, Lifecycle!Raise
<1> QED
  BY <1>2 DEF Lifecycle!Next

LEMMA VisibleStep ==
  ASSUME NEW t \in Ids, \A x \in Ids \ {t} : LooksTheSame(x),
         NEW p, PhaseOf(t)' = p, NEW asks, AskedOf(t)' = asks,
         NEW used, SpentOf(t)' = used
  PROVE  Lifecycle!Becomes(t, p, asks, used)
<1>1. \A x \in Ids \ {t} : /\ PhaseOf(x)' = PhaseOf(x) /\ AskedOf(x)' = AskedOf(x)
                           /\ SpentOf(x)' = SpentOf(x)
  BY DEF LooksTheSame
<1> QED
  BY <1>1 DEF Lifecycle!Becomes

LEMMA UntouchedLooks ==
  ASSUME NEW t \in Ids, tasks'[t] = tasks[t], t \in issued' <=> t \in issued
  PROVE  LooksTheSame(t)
<1>1. Visible(t)' = Visible(t) /\ Editable(t)' = Editable(t)
  BY DEF Visible, Editable, Stored
<1> QED
  BY <1>1 DEF LooksTheSame, PhaseOf, AskedOf, SpentOf

\* Nobody sees what happens to a task that is hidden before and after.
LEMMA HiddenLooks ==
  ASSUME NEW t \in Ids, ~Visible(t), ~Visible(t)', t \in issued' <=> t \in issued
  PROVE  LooksTheSame(t)
  BY DEF LooksTheSame, PhaseOf, AskedOf, SpentOf, Editable

LEMMA RetiringLooks ==
  ASSUME TypeOK, NEW remove \in BOOLEAN, NEW ws, Retiring(remove, ws),
         issued' = issued
  PROVE  \A t \in Ids : LooksTheSame(t)
<1> SUFFICES ASSUME NEW t \in Ids PROVE LooksTheSame(t)
  OBVIOUS
<1>1. CASE poisoned
  BY <1>1, UntouchedLooks DEF Retiring
<1>2. CASE ~poisoned
  <2> DEFINE scrubbed == [x \in Ids |-> IF x \in Expiring
                                        THEN Signalled(tasks[x]) ELSE tasks[x]]
             dropped == IF remove THEN { x \in Ids : Overdue(x) } ELSE {}
  <2>1. \/ tasks' = scrubbed
        \/ tasks' = [x \in Ids |-> IF x \in dropped THEN NoTask
                                   ELSE scrubbed[x]]
    BY <1>2 DEF Retiring, RetireExpired
  <2>2. CASE ~Overdue(t)
    <3>1. tasks'[t] = tasks[t]
      BY <2>1, <2>2 DEF Expiring
    <3> QED
      BY <3>1, UntouchedLooks
  <2>3. CASE Overdue(t)
    <3>1. tasks[t] \in StoredTask
      BY <2>3 DEF Overdue, Stored, TypeOK
    <3>2. Signalled(tasks[t]).overdue
      BY <2>3, <3>1, SignalledIsStored DEF Overdue
    <3>3. tasks'[t] \in {NoTask, Signalled(tasks[t]), tasks[t]}
      BY <2>1
    <3>4. ~Visible(t) /\ ~Visible(t)'
      BY <2>3, <3>2, <3>3 DEF Visible, Stored, Overdue
    <3> QED
      BY <3>4, HiddenLooks
  <2> QED
    BY <2>2, <2>3
<1> QED
  BY <1>1, <1>2

LEMMA EditableLooks ==
  ASSUME TypeOK, Soundness, NEW t \in Ids, Editable(t)
  PROVE  /\ tasks[t] \in StoredTask /\ tasks[t].task \in Record
         /\ Visible(t) /\ t \in issued /\ ~IsTerminal(tasks[t].task)
         /\ PhaseOf(t) = tasks[t].task.status /\ PhaseOf(t) \in Open
         /\ AskedOf(t) = Outstanding(tasks[t].task)
         /\ SpentOf(t) = Spent(tasks[t].task)
<1>1. /\ tasks[t] \in StoredTask /\ tasks[t].task \in Record
      /\ Visible(t) /\ t \in issued /\ ~IsTerminal(tasks[t].task)
  BY DEF Editable, Visible, Stored, TypeOK, StoredTask, Soundness, Sound
<1> QED
  BY <1>1 DEF PhaseOf, AskedOf, SpentOf, IsTerminal, Record, Status

\* The task shows record n after the step, and is open in it.
LEMMA OpenAfter ==
  ASSUME NEW t \in Ids, t \in issued', Editable(t)', NEW n, tasks'[t].task = n
  PROVE  /\ PhaseOf(t)' = n.status
         /\ AskedOf(t)' = Outstanding(n) /\ SpentOf(t)' = Spent(n)
<1>1. Visible(t)'
  BY DEF Editable
<1> QED
  BY <1>1 DEF PhaseOf, AskedOf, SpentOf

LEMMA PreparedShows ==
  ASSUME NEW r \in Record
  PROVE  /\ Prepared(r) # NoTask
         /\ Prepared(r).task = r /\ ~Prepared(r).overdue
<1>1. Prepared(r) # NoTask
  BY PreparedIsStored, StoreAssumption
<1>2. Prepared(r).task = r /\ ~Prepared(r).overdue
  BY DEF Prepared
<1> QED
  BY <1>1, <1>2

\* A rewrite of an open record, whichever it is, is a step of the lifecycle.
LEMMA RewriteMaps ==
  ASSUME TypeOK, Soundness, NEW t \in Ids, Editable(t),
         NEW r \in Rewritings(tasks[t].task), Rewrite(t, r)
  PROVE  Lifecycle!Next
<1> DEFINE old == tasks[t].task
<1>1. /\ tasks[t] \in StoredTask /\ old \in Record /\ t \in issued
      /\ ~IsTerminal(old)
      /\ PhaseOf(t) = old.status /\ PhaseOf(t) \in Open
      /\ AskedOf(t) = Outstanding(old) /\ SpentOf(t) = Spent(old)
  BY EditableLooks
<1>2. /\ tasks' = [tasks EXCEPT ![t] = Prepared(r)]
      /\ issued' = issued /\ token' = token
  BY DEF Rewrite, Put
<1>3. r \in Record /\ ~IsTerminal(r)
  BY <1>1, RewritingsAreRecords, RewritingsStayOpen
<1>4. tasks'[t] # NoTask /\ tasks'[t].task = r /\ ~tasks'[t].overdue
  BY <1>2, <1>3, PreparedShows DEF TypeOK
<1>5. Editable(t)' /\ tasks'[t].task = r
  BY <1>3, <1>4 DEF Editable, Visible, Stored
<1>6. /\ PhaseOf(t)' = r.status
      /\ AskedOf(t)' = Outstanding(r) /\ SpentOf(t)' = Spent(r)
  BY <1>1, <1>2, <1>5, OpenAfter
<1>7. \A x \in Ids \ {t} : LooksTheSame(x)
  BY <1>2, UntouchedLooks DEF TypeOK
<1>8. Lifecycle!Becomes(t, r.status, Outstanding(r), Spent(r))
  BY <1>6, <1>7, VisibleStep
<1>9. Lifecycle!IsOpen(t)
  BY <1>1 DEF Lifecycle!IsOpen, Lifecycle!OpenPhase, Open
<1>10. ASSUME NEW requests \in KeyMap(Questions), NEW text \in Loads,
              Reused(old, requests) = {}, r = Asking(old, requests, text)
       PROVE  Lifecycle!Next
  <2>1. DOMAIN requests \in SUBSET Keys /\ DOMAIN requests \cap Spent(old) = {}
    BY <1>10, KeyMapElim DEF Reused
  <2>2. /\ r.status = "input_required" /\ Outstanding(r) = DOMAIN requests
        /\ Spent(r) = Spent(old) \cup (Outstanding(old) \ DOMAIN requests)
    BY <1>1, <1>10 DEF Asking, Record, Outstanding, Spent, Answered
  <2>3. Lifecycle!Ask(t, DOMAIN requests)
    BY <1>1, <1>2, <1>8, <1>9, <2>1, <2>2 DEF Lifecycle!Ask
  <2> QED
    BY <2>1, <2>3 DEF Lifecycle!Next
<1>11. ASSUME NEW responses \in KeyMap(Answers), r = Answering(old, responses)
       PROVE  Lifecycle!Next
  <2> DEFINE accepted == Accepted(old, responses)
  <2>1. /\ Outstanding(r) = Outstanding(old) \ accepted
        /\ Answered(r) = Answered(old) \cup accepted
        /\ accepted \subseteq Outstanding(old) /\ Outstanding(old) \in SUBSET Keys
        /\ StillOutstanding(old, responses) = Outstanding(old) \ accepted
    BY <1>1, <1>11, AnsweringIsARecord, KeyMapElim
       DEF StillOutstanding, Accepted, Outstanding, Record
  <2>2. /\ r.superseded = old.superseded
        /\ r.status = IF /\ StillOutstanding(old, responses) = {}
                         /\ old.status = "input_required"
                      THEN "working" ELSE old.status
    BY <1>1, <1>11 DEF Answering, Record
  <2>3. Spent(r) = Spent(old) \cup accepted
    BY <2>1, <2>2 DEF Spent
  <2>4. r.status = IF accepted = Outstanding(old) THEN "working" ELSE old.status
    BY <1>1, <2>1, <2>2 DEF Open
  <2> HIDE DEF accepted
  <2>5. Lifecycle!Answer(t, accepted)
    BY <1>1, <1>2, <1>8, <1>9, <2>1, <2>3, <2>4 DEF Lifecycle!Answer
  <2> QED
    BY <2>1, <2>5 DEF Lifecycle!Next
<1>12. ASSUME NEW status \in Open, NEW text \in Size,
              r = Progressing(old, status, text)
       PROVE  Lifecycle!Next
  <2>1. /\ r.status = status /\ Outstanding(r) = Outstanding(old)
        /\ Spent(r) = Spent(old)
    BY <1>1, <1>12 DEF Progressing, Record, Outstanding, Spent, Answered
  <2>2. Lifecycle!Progress(t, status)
    BY <1>1, <1>2, <1>8, <1>9, <2>1
       DEF Lifecycle!Progress, Lifecycle!OpenPhase, Open
  <2> QED
    BY <2>2 DEF Lifecycle!Next, Lifecycle!OpenPhase, Open
<1> QED
  BY <1>10, <1>11, <1>12 DEF Rewritings

\* What hides a task that was visible.
LEMMA VanishMaps ==
  ASSUME TypeOK, Soundness, NEW t \in Ids, Visible(t), ~Visible(t)',
         issued' = issued, \A x \in Ids \ {t} : tasks'[x] = tasks[x],
         token' = token \/ token' = [token EXCEPT ![t] = TRUE]
  PROVE  Lifecycle!Next
<1>1. tasks[t] \in StoredTask /\ t \in issued
  BY DEF Visible, Stored, TypeOK, Soundness, Sound
<1>2. PhaseOf(t) \notin {"gone", "unborn"}
  BY <1>1 DEF PhaseOf, StoredTask, Record, Status, Open, Terminal
<1>3. PhaseOf(t)' = "gone" /\ AskedOf(t)' = {} /\ SpentOf(t)' = {}
  BY <1>1 DEF PhaseOf, AskedOf, SpentOf, Editable
<1>4. \A x \in Ids \ {t} : LooksTheSame(x)
  BY UntouchedLooks
<1>5. Lifecycle!Becomes(t, "gone", {}, {})
  BY <1>3, <1>4, VisibleStep
<1>6. Lifecycle!Vanish(t)
  BY <1>2, <1>5 DEF Lifecycle!Vanish
<1> QED
  BY <1>6 DEF Lifecycle!Next

\* A visible task that is closed, whatever it is closed with, was open before
\* and shows the terminal status afterwards, with its keys gone.
LEMMA CloseMaps ==
  ASSUME TypeOK, Soundness, NEW t \in Ids, Editable(t),
         NEW r \in Closings(tasks[t].task), Close(t, r), issued' = issued,
         token' = IF r.status = "cancelled" THEN [token EXCEPT ![t] = TRUE]
                  ELSE token
  PROVE  Lifecycle!Next
<1>1. /\ tasks[t] \in StoredTask /\ tasks[t].task \in Record
      /\ t \in issued /\ PhaseOf(t) \in Open /\ ~tasks[t].overdue
  BY EditableLooks DEF Visible
<1>2. r \in Record /\ IsTerminal(r)
  BY <1>1, ClosingsAreRecords
<1>3. tasks' = [tasks EXCEPT ![t] = Closed(t, r)]
  BY DEF Close, Put
<1>4. tasks'[t] = Closed(t, r) /\ Closed(t, r) \in StoredTask
  BY <1>1, <1>2, <1>3, ClosedIsStored DEF TypeOK
<1>5. tasks'[t] # NoTask /\ tasks'[t].task = r /\ ~tasks'[t].overdue
  BY <1>1, <1>2, <1>4, ClosedIsStored, StoreAssumption
<1>6. Visible(t)' /\ ~Editable(t)'
  BY <1>2, <1>5 DEF Visible, Editable, Stored
<1>7. PhaseOf(t)' = r.status /\ AskedOf(t)' = {} /\ SpentOf(t)' = {}
  BY <1>1, <1>5, <1>6 DEF PhaseOf, AskedOf, SpentOf
<1>8. \A x \in Ids \ {t} : LooksTheSame(x)
  BY <1>3, UntouchedLooks DEF TypeOK
<1>9. Lifecycle!Becomes(t, r.status, {}, {})
  BY <1>7, <1>8, VisibleStep
<1>10. Lifecycle!Close(t, r.status)
  BY <1>1, <1>2, <1>9
     DEF Lifecycle!Close, Lifecycle!IsOpen, Lifecycle!OpenPhase, Open,
         Lifecycle!TerminalPhase, IsTerminal, Terminal
<1> QED
  BY <1>2, <1>10
     DEF Lifecycle!Next, Lifecycle!TerminalPhase, IsTerminal, Terminal

\* The task that is lost when the store panics has vanished for good.
LEMMA PanicMaps ==
  ASSUME TypeOK, Soundness, NEW t \in Ids, Visible(t), Panic(t),
         issued' = issued,
         token' = token \/ token' = [token EXCEPT ![t] = TRUE]
  PROVE  Lifecycle!Next
<1>1. tasks' = [tasks EXCEPT ![t] = NoTask]
  BY DEF Panic
<1>2. ~Visible(t)' /\ \A x \in Ids \ {t} : tasks'[x] = tasks[x]
  BY <1>1 DEF Visible, Stored, TypeOK
<1> QED
  BY <1>2, VanishMaps

LEMMA FinishMaps ==
  ASSUME TypeOK, Soundness, NEW t \in Ids, NEW c \in Callers, NEW n \in Loads,
         CompleteTask(c, t, n) \/ FailTask(c, t, n)
  PROVE  Lifecycle!Next
<1> DEFINE old == tasks[t].task
<1>1. ASSUME NEW status \in {"completed", "failed"}, NEW text,
             Finish(c, t, status, text, n),
             Finishing(old, status, text, n) \in Closings(old)
      PROVE  Lifecycle!Next
  <2> DEFINE r == Finishing(old, status, text, n)
             failed == FailingRetention(old)
  <2>1. Editable(t) /\ UNCHANGED <<token, issued>>
    BY <1>1 DEF Finish
  <2>2. Close(t, r) \/ Close(t, failed) \/ Panic(t)
    BY <1>1 DEF Finish, CommitRetentionFailure
  <2>3. old \in Record /\ Visible(t)
    BY <2>1, EditableLooks
  <2>4. r.status # "cancelled" /\ failed.status # "cancelled"
    BY <2>3 DEF Finishing, FailingRetention, Record
  <2>5. r \in Closings(old) /\ failed \in Closings(old)
    BY <1>1 DEF Closings
  <2> HIDE DEF r, failed
  <2> QED
    BY <2>1, <2>2, <2>3, <2>4, <2>5, CloseMaps, PanicMaps
<1>2. CASE CompleteTask(c, t, n)
  BY <1>1, <1>2 DEF CompleteTask, Closings
<1>3. CASE FailTask(c, t, n)
  BY <1>1, <1>3 DEF FailTask, Closings
<1> QED
  BY <1>2, <1>3

LEMMA CancelMaps ==
  ASSUME TypeOK, Soundness, Raises, NEW t \in Ids, NEW c \in Callers,
         NEW n \in Loads, CancelTask(c, t, n)
  PROVE  Lifecycle!Next
<1> DEFINE old == tasks[t].task
<1>1. /\ Visible(t) /\ issued' = issued
      /\ token' = [token EXCEPT ![t] = TRUE]
  BY DEF CancelTask
<1>2. CASE IsTerminal(old)
  <2>1. tasks' = tasks
    BY <1>2 DEF CancelTask
  <2>2. \A x \in Ids : LooksTheSame(x)
    BY <1>1, <2>1, UntouchedLooks
  <2> QED
    BY <2>2, QuietStep
<1>3. CASE ~IsTerminal(old)
  <2>1. Editable(t)
    BY <1>1, <1>3 DEF Editable
  <2>2. old \in Record
    BY <2>1, EditableLooks
  <2>3. PICK r \in {Cancelling(old, n), CancellingBounded(old)} :
          Close(t, r) \/ Panic(t)
    BY <1>3 DEF CancelTask
  <2>4. r \in Closings(old)
    BY <2>3 DEF Closings
  <2>5. r.status = "cancelled"
    BY <2>2, <2>3 DEF Cancelling, CancellingBounded, Record
  <2> QED
    BY <1>1, <2>1, <2>3, <2>4, <2>5, CloseMaps, PanicMaps
<1> QED
  BY <1>2, <1>3

\* What a step that only lets time hide a task, or leaves it hidden, looks like.
LEMMA HidingMaps ==
  ASSUME TypeOK, Soundness, Raises, NEW t \in Ids, NEW s,
         tasks' = [tasks EXCEPT ![t] = s], s = NoTask \/ s.overdue,
         issued' = issued, token' = token
  PROVE  Lifecycle!Next
<1>1. tasks'[t] = s /\ \A x \in Ids \ {t} : tasks'[x] = tasks[x]
  BY DEF TypeOK
<1>2. ~Visible(t)'
  BY <1>1 DEF Visible, Stored
<1>3. CASE Visible(t)
  BY <1>1, <1>2, <1>3, VanishMaps
<1>4. CASE ~Visible(t)
  <2>1. \A x \in Ids : LooksTheSame(x)
    BY <1>1, <1>2, <1>4, UntouchedLooks, HiddenLooks
  <2> QED
    BY <2>1, QuietStep
<1> QED
  BY <1>3, <1>4

LEMMA CreateMaps ==
  ASSUME TypeOK, Soundness, NEW t \in Ids, NEW c \in Callers, NEW n \in Loads,
         CreateTask(c, t, n)
  PROVE  Lifecycle!Next
<1> DEFINE r == NewRecord(n)
<1>1. /\ t \notin issued /\ issued' = issued \cup {t} /\ token' = token
      /\ tasks' = [tasks EXCEPT ![t] = Prepared(r)]
  BY DEF CreateTask
<1>2. PhaseOf(t) = "unborn"
  BY <1>1 DEF PhaseOf
<1>3. r \in Record
  BY NewRecordIsARecord
<1>4. tasks'[t] # NoTask /\ tasks'[t].task = r /\ ~tasks'[t].overdue
  BY <1>1, <1>3, PreparedShows DEF TypeOK
<1>5. /\ r.status = "working" /\ ~IsTerminal(r)
      /\ Outstanding(r) = {} /\ Spent(r) = {}
  BY NoInputsIsAKeyMap
     DEF NewRecord, IsTerminal, Terminal, Outstanding, Spent, Answered
<1> HIDE DEF r
<1>6. Editable(t)'
  BY <1>4, <1>5 DEF Editable, Visible, Stored
<1>7. PhaseOf(t)' = "working" /\ AskedOf(t)' = {} /\ SpentOf(t)' = {}
  BY <1>1, <1>4, <1>5, <1>6, OpenAfter
<1>8. \A x \in Ids \ {t} : LooksTheSame(x)
  BY <1>1, UntouchedLooks DEF TypeOK
<1>9. Lifecycle!Becomes(t, "working", {}, {})
  BY <1>7, <1>8, VisibleStep
<1>10. Lifecycle!Create(t)
  BY <1>1, <1>2, <1>9 DEF Lifecycle!Create
<1> QED
  BY <1>10 DEF Lifecycle!Next

LEMMA AnnotateMaps ==
  ASSUME TypeOK, Soundness, Raises, NEW t \in Ids, NEW c \in Callers,
         NEW n \in Loads, SetTaskMeta(c, t, n)
  PROVE  Lifecycle!Next
<1> DEFINE old == tasks[t].task
           r == Annotating(old, n)
<1>1. /\ Visible(t) /\ issued' = issued /\ token' = token
      /\ tasks' = [tasks EXCEPT ![t] = Prepared(r)]
  BY DEF SetTaskMeta, Rewrite, Put
<1>2. old \in Record /\ t \in issued
  BY <1>1 DEF Visible, Stored, TypeOK, StoredTask, Soundness, Sound
<1>3. r \in Record
  BY <1>2, AnnotatingIsARecord
<1>4. /\ r.status = old.status /\ IsTerminal(r) = IsTerminal(old)
      /\ Outstanding(r) = Outstanding(old) /\ Spent(r) = Spent(old)
  BY <1>2 DEF Annotating, Record, IsTerminal, Outstanding, Spent, Answered
<1> HIDE DEF r
<1>5. tasks'[t] # NoTask /\ tasks'[t].task = r /\ ~tasks'[t].overdue
  BY <1>1, <1>3, PreparedShows DEF TypeOK
<1>6. Visible(t)' /\ (Editable(t)' <=> Editable(t))
  BY <1>1, <1>4, <1>5 DEF Editable, Visible, Stored
<1>7. LooksTheSame(t)
  BY <1>1, <1>4, <1>5, <1>6 DEF LooksTheSame, PhaseOf, AskedOf, SpentOf
<1>8. \A x \in Ids \ {t} : LooksTheSame(x)
  BY <1>1, UntouchedLooks DEF TypeOK
<1> QED
  BY <1>7, <1>8, QuietStep

\* A body that rewrites an open record.
LEMMA BodyMaps ==
  ASSUME TypeOK, Soundness, NEW t \in Ids, NEW c \in Callers,
         \/ \E requests \in KeyMap(Questions), n \in Loads :
              RequireInput(c, t, requests, n)
         \/ \E status \in Open : SetStatus(c, t, status)
         \/ \E responses \in KeyMap(Answers) :
              ApplyInputResponses(c, t, responses)
  PROVE  Lifecycle!Next
<1> DEFINE old == tasks[t].task
<1>1. Editable(t)
  BY DEF RequireInput, SetStatus, ApplyInputResponses
<1>2. ASSUME NEW requests \in KeyMap(Questions), NEW n \in Loads,
             RequireInput(c, t, requests, n)
      PROVE  Lifecycle!Next
  <2>1. Asking(old, requests, n) \in Rewritings(old)
    BY <1>2 DEF RequireInput, Rewritings
  <2> QED
    BY <1>1, <1>2, <2>1, RewriteMaps DEF RequireInput
<1>3. ASSUME NEW status \in Open, SetStatus(c, t, status) PROVE Lifecycle!Next
  <2>1. old.text \in Size
    BY <1>1, EditableLooks DEF Record
  <2>2. PICK text \in { n \in Loads : FitsPayload(n) } \cup { old.text } :
          Rewrite(t, Progressing(old, status, text))
    BY <1>3 DEF SetStatus
  <2>3. text \in Size
    BY <2>1, <2>2, FixedSizes
  <2>4. Progressing(old, status, text) \in Rewritings(old)
    BY <2>3 DEF Rewritings
  <2> QED
    BY <1>1, <2>2, <2>4, RewriteMaps
<1>4. ASSUME NEW responses \in KeyMap(Answers),
             ApplyInputResponses(c, t, responses)
      PROVE  Lifecycle!Next
  <2>1. Answering(old, responses) \in Rewritings(old)
    BY DEF Rewritings
  <2> QED
    BY <1>1, <1>4, <2>1, RewriteMaps DEF ApplyInputResponses
<1> QED
  BY <1>2, <1>3, <1>4

LEMMA CallerMaps ==
  ASSUME TypeOK, Soundness, Raises, NEW c \in Callers, CallerStep(c)
  PROVE  Lifecycle!Next
<1>1. CASE Enter(c) \/ Reclaim(c) \/ RetireAgain(c)
  <2>1. \A t \in Ids : LooksTheSame(t)
    BY <1>1, RetiringLooks DEF Enter, Reclaim, RetireAgain
  <2> QED
    BY <2>1, QuietStep
<1>2. ASSUME UNCHANGED <<tasks, issued>> PROVE Lifecycle!Next
  <2>1. \A t \in Ids : LooksTheSame(t)
    BY <1>2, UntouchedLooks
  <2> QED
    BY <2>1, QuietStep
<1>3. CASE ReturnUnchanged(c) \/ \E t \in Ids : FindExpired(c, t)
  BY <1>2, <1>3 DEF ReturnUnchanged, FindExpired
<1>4. ASSUME NEW t \in Ids, DiscardTask(c, t) PROVE Lifecycle!Next
  <2>1. tasks' = [tasks EXCEPT ![t] = NoTask] /\ UNCHANGED <<token, issued>>
    BY <1>4 DEF DiscardTask
  <2> QED
    BY <2>1, HidingMaps
<1>5. ASSUME NEW t \in Ids, NEW past \in BOOLEAN, SetTtl(c, t, past)
      PROVE  Lifecycle!Next
  <2>1. UNCHANGED <<token, issued>> /\ Stored(t)
    BY <1>5 DEF SetTtl
  <2>2. tasks[t] \in StoredTask
    BY <2>1 DEF Stored, TypeOK
  <2>3. CASE Overdue(t)
    BY <1>2, <1>5, <2>3 DEF SetTtl
  <2>4. CASE ~Overdue(t) /\ past
    <3>1. tasks' = [tasks EXCEPT ![t] = [tasks[t] EXCEPT !.overdue = TRUE]]
      BY <1>5, <2>4 DEF SetTtl
    <3>2. [tasks[t] EXCEPT !.overdue = TRUE].overdue
      BY <2>2 DEF StoredTask
    <3> QED
      BY <2>1, <3>1, <3>2, HidingMaps
  <2>5. CASE ~Overdue(t) /\ ~past
    <3>1. tasks[t].overdue = FALSE
      BY <2>1, <2>2, <2>5 DEF Overdue, StoredTask
    <3>2. [tasks[t] EXCEPT !.overdue = FALSE] = tasks[t]
      BY <2>2, <3>1 DEF StoredTask
    <3>3. tasks' = [tasks EXCEPT ![t] = [tasks[t] EXCEPT !.overdue = FALSE]]
      BY <1>5, <2>5 DEF SetTtl
    <3>4. tasks' = tasks
      BY <3>2, <3>3 DEF TypeOK
    <3> QED
      BY <1>2, <2>1, <3>4
  <2> QED
    BY <2>3, <2>4, <2>5
<1>6. ASSUME NEW t \in Ids, NEW n \in Loads,
             \/ CreateTask(c, t, n) \/ SetTaskMeta(c, t, n)
             \/ CompleteTask(c, t, n) \/ FailTask(c, t, n)
             \/ CancelTask(c, t, n)
      PROVE  Lifecycle!Next
  BY <1>6, CreateMaps, AnnotateMaps, FinishMaps, CancelMaps
<1>7. ASSUME NEW t \in Ids,
             \/ \E requests \in KeyMap(Questions), n \in Loads :
                  RequireInput(c, t, requests, n)
             \/ \E status \in Open : SetStatus(c, t, status)
             \/ \E responses \in KeyMap(Answers) :
                  ApplyInputResponses(c, t, responses)
      PROVE  Lifecycle!Next
  BY <1>7, BodyMaps
<1> QED
  BY <1>1, <1>3, <1>4, <1>5, <1>6, <1>7 DEF CallerStep

LEMMA EveryStepMaps == TypeOK /\ Soundness /\ [Next]_vars => Lifecycle!Next
<1> SUFFICES ASSUME TypeOK, Soundness, [Next]_vars
             PROVE  Lifecycle!Next
  OBVIOUS
<1>0. Raises
  BY NothingIsTakenBack, EveryRest DEF Raises, RestTyped
<1>1. ASSUME NEW remove \in BOOLEAN, NEW ws, Retiring(remove, ws),
             issued' = issued
      PROVE  Lifecycle!Next
  <2>1. \A t \in Ids : LooksTheSame(t)
    BY <1>1, RetiringLooks
  <2> QED
    BY <1>0, <2>1, QuietStep
<1>2. ASSUME UNCHANGED <<tasks, issued>> PROVE Lifecycle!Next
  <2>1. \A t \in Ids : LooksTheSame(t)
    BY <1>2, UntouchedLooks
  <2> QED
    BY <1>0, <2>1, QuietStep
<1>3. ASSUME NEW w \in Waiters,
             WaiterStep(w) \/ \E t \in Ids : BeginWait(w, t)
      PROVE  Lifecycle!Next
  BY <1>1, <1>2, <1>3
     DEF WaiterStep, Register, WakeNotified, WakeCancelled, Recheck, Reread,
         BeginWait
<1>4. ASSUME NEW t \in Ids, Publish(t) \/ RaiseToken(t) PROVE Lifecycle!Next
  BY <1>2, <1>4 DEF Publish, RaiseToken
<1>5. ASSUME NEW t \in Ids, Elapse(t) PROVE Lifecycle!Next
  <2>1. /\ tasks' = [tasks EXCEPT ![t] = [tasks[t] EXCEPT !.overdue = TRUE]]
        /\ UNCHANGED <<token, issued>> /\ tasks[t] \in StoredTask
    BY <1>5 DEF Elapse, Visible, Stored, TypeOK
  <2>2. [tasks[t] EXCEPT !.overdue = TRUE].overdue
    BY <2>1 DEF StoredTask
  <2> QED
    BY <1>0, <2>1, <2>2, HidingMaps
<1>6. ASSUME NEW remove \in BOOLEAN, Sweep(remove) PROVE Lifecycle!Next
  BY <1>1, <1>6 DEF Sweep
<1>7. CASE UNCHANGED vars
  BY <1>2, <1>7 DEF vars
<1> QED
  BY <1>0, <1>3, <1>4, <1>5, <1>6, <1>7, CallerMaps DEF Next

LEMMA FirstStateMaps == Init => Lifecycle!Init
<1> SUFFICES ASSUME Init PROVE Lifecycle!Init
  OBVIOUS
<1>1. /\ issued = {} /\ \A t \in Ids : ~Editable(t)
      /\ token = [t \in Ids |-> FALSE]
  BY DEF Init, Editable, Visible, Stored
<1> QED
  BY <1>1 DEF Lifecycle!Init, PhaseOf, AskedOf, SpentOf

\* The store, with its lock taken twice per call, its limits, its clock and its
\* lazy retirement, implements the lifecycle its callers rely on: every step of
\* it is a step of TaskLifecycle on one task, or one that no caller can see.
THEOREM KeepsThePromisesHolds == Spec => KeepsThePromises
<1>1. Init => Lifecycle!Init
  BY FirstStateMaps
<1>2. TypeOK /\ Soundness /\ [Next]_vars => [Lifecycle!Next]_(Lifecycle!vars)
  BY EveryStepMaps
<1> QED
  BY <1>1, <1>2, SoundnessInvariant, PTL DEF Spec, KeepsThePromises, Lifecycle!Spec
-----------------------------------------------------------------------------
\* The charge is exact.  Sums over finite sets first, by the smallest set for
\* which a fact could fail.
\* What holds of a set once it holds of every smaller one.
LEMMA SmallerSetsFirst ==
  ASSUME NEW S, IsFiniteSet(S), NEW Good,
         \A T \in SUBSET S :
           (\A U \in SUBSET T : U # T => U \in Good) => T \in Good
  PROVE  \A T \in SUBSET S : T \in Good
<1> DEFINE Bad == { T \in SUBSET S : T \notin Good }
<1> SUFFICES ASSUME Bad # {} PROVE FALSE
  OBVIOUS
<1>1. IsWellFoundedOn(StrictSubsetOrdering(S), SUBSET S)
  <2>1. FiniteSubsetsOf(S) = SUBSET S
    BY FS_FiniteSubsetsOfFinite
  <2>2. IsWellFoundedOn(StrictSubsetOrdering(S), FiniteSubsetsOf(S))
    BY FS_StrictSubsetOrderingWellFounded
  <2> QED
    BY <2>1, <2>2
<1>2. PICK T \in Bad : \A U \in Bad : <<U, T>> \notin StrictSubsetOrdering(S)
  <2>1. Bad \subseteq SUBSET S
    OBVIOUS
  <2> HIDE DEF Bad
  <2> QED
    BY <1>1, <2>1, WFMin
<1>3. \A U \in SUBSET T : U # T => U \in Good
  BY <1>2 DEF StrictSubsetOrdering
<1> QED
  BY <1>2, <1>3

Chosen(S) == CHOOSE x \in S : TRUE

IsSum(g, f, S) ==
  g = [T \in SUBSET S |->
         IF T = {} THEN 0 ELSE f[Chosen(T)] + g[T \ {Chosen(T)}]]

LEMMA ChosenIsAnElement == \A S : S # {} => Chosen(S) \in S
  BY Zenon DEF Chosen

LEMMA SumAt ==
  ASSUME NEW f, NEW S, NEW g, IsSum(g, f, S), NEW T \in SUBSET S
  PROVE  g[T] = IF T = {} THEN 0 ELSE f[Chosen(T)] + g[T \ {Chosen(T)}]
  BY Zenon DEF IsSum

\* The partial sums of a set do not depend on the set they are part of.
LEMMA SumIsUnique ==
  ASSUME NEW f, NEW S, IsFiniteSet(S), NEW T \in SUBSET S,
         NEW g, IsSum(g, f, S), NEW h, IsSum(h, f, T)
  PROVE  \A U \in SUBSET T : g[U] = h[U]
<1> DEFINE Good == { U \in SUBSET T : g[U] = h[U] }
<1>1. ASSUME NEW U \in SUBSET T, \A V \in SUBSET U : V # U => V \in Good
      PROVE  U \in Good
  <2>1. U \in SUBSET S
    OBVIOUS
  <2>2. U # {} => U \ {Chosen(U)} \in Good
    BY <1>1, ChosenIsAnElement
  <2> QED
    BY <2>1, <2>2, SumAt
<1>2. IsFiniteSet(T)
  BY FS_Subset
<1> HIDE DEF Good
<1>3. \A U \in SUBSET T : U \in Good
  BY <1>1, <1>2, SmallerSetsFirst
<1> QED
  BY <1>3 DEF Good

SumOf(f, S) == (CHOOSE g : IsSum(g, f, S))[S]

LEMMA SumExists ==
  ASSUME NEW f, NEW S, IsFiniteSet(S)
  PROVE  \E g : IsSum(g, f, S)
<1> DEFINE Good == { T \in SUBSET S : \E g : IsSum(g, f, T) }
<1>1. ASSUME NEW T \in SUBSET S, \A U \in SUBSET T : U # T => U \in Good
      PROVE  T \in Good
  <2> DEFINE g == [U \in SUBSET T |->
                     IF U = {} THEN 0
                     ELSE f[Chosen(U)] + SumOf(f, U \ {Chosen(U)})]
  <2>1. ASSUME NEW U \in SUBSET T, U # {}
        PROVE  g[U \ {Chosen(U)}] = SumOf(f, U \ {Chosen(U)})
    <3> DEFINE V == U \ {Chosen(U)}
               h == CHOOSE h : IsSum(h, f, V)
    <3>1. Chosen(U) \in U /\ V \in SUBSET T /\ V # T
      BY <2>1, ChosenIsAnElement
    <3>2. IsSum(h, f, V)
      BY <1>1, <3>1, Zenon
    <3>3. SumOf(f, V) = h[V]
      BY DEF SumOf
    <3> HIDE DEF h, V
    <3>4. CASE V = {}
      BY <3>2, <3>3, <3>4, SumAt DEF V
    <3>5. CASE V # {}
      <4> DEFINE W == V \ {Chosen(V)}
                 k == CHOOSE k : IsSum(k, f, W)
      <4>1. Chosen(V) \in V /\ W \in SUBSET V /\ W \in SUBSET T /\ W # T
        BY <3>1, <3>5, ChosenIsAnElement
      <4>2. IsSum(k, f, W)
        BY <1>1, <4>1, Zenon
      <4>3. SumOf(f, W) = k[W]
        BY DEF SumOf
      <4>4. IsFiniteSet(V)
        BY <3>1, FS_Subset
      <4> HIDE DEF k
      <4>5. h[W] = k[W]
        BY <3>2, <4>1, <4>2, <4>4, SumIsUnique
      <4>6. h[V] = f[Chosen(V)] + h[W]
        BY <3>2, <3>5, SumAt
      <4>7. g[V] = f[Chosen(V)] + SumOf(f, W)
        BY <3>1, <3>5
      <4> QED
        BY <3>3, <4>3, <4>5, <4>6, <4>7 DEF V
    <3> QED
      BY <3>4, <3>5
  <2>2. IsSum(g, f, T)
    BY <2>1 DEF IsSum
  <2> QED
    BY <2>2
<1> HIDE DEF Good
<1>2. \A T \in SUBSET S : T \in Good
  BY <1>1, SmallerSetsFirst
<1> QED
  BY <1>2 DEF Good

LEMMA SumStep ==
  ASSUME NEW f, NEW S, IsFiniteSet(S)
  PROVE  SumOf(f, S) = IF S = {} THEN 0
                       ELSE f[Chosen(S)] + SumOf(f, S \ {Chosen(S)})
<1> DEFINE g == CHOOSE g : IsSum(g, f, S)
           T == S \ {Chosen(S)}
           h == CHOOSE h : IsSum(h, f, T)
<1>1. IsFiniteSet(T) /\ T \in SUBSET S
  BY FS_Subset
<1>2. IsSum(g, f, S)
  BY SumExists, Zenon
<1>3. IsSum(h, f, T)
  BY <1>1, SumExists, Zenon
<1>4. SumOf(f, S) = g[S] /\ SumOf(f, T) = h[T]
  BY DEF SumOf
<1> HIDE DEF g, h
<1>5. g[T] = h[T]
  BY <1>1, <1>2, <1>3, SumIsUnique
<1>6. g[S] = IF S = {} THEN 0 ELSE f[Chosen(S)] + g[T]
  BY <1>2, SumAt
<1> QED
  BY <1>4, <1>5, <1>6

\* Summing over the elements of a finite set in another order.
LEMMA SumIsAnInteger ==
  ASSUME NEW f, NEW S, IsFiniteSet(S), \A x \in S : f[x] \in Int
  PROVE  SumOf(f, S) \in Int
<1> DEFINE Good == { T \in SUBSET S : SumOf(f, T) \in Int }
<1>1. ASSUME NEW T \in SUBSET S, \A U \in SUBSET T : U # T => U \in Good
      PROVE  T \in Good
  <2>1. IsFiniteSet(T)
    BY FS_Subset
  <2>2. T # {} => /\ Chosen(T) \in S /\ T \ {Chosen(T)} \in Good
    BY <1>1, ChosenIsAnElement
  <2>3. SumOf(f, T) = IF T = {} THEN 0
                      ELSE f[Chosen(T)] + SumOf(f, T \ {Chosen(T)})
    BY <2>1, SumStep
  <2> QED
    BY <2>2, <2>3
<1> HIDE DEF Good
<1>2. \A T \in SUBSET S : T \in Good
  BY <1>1, SmallerSetsFirst
<1> QED
  BY <1>2 DEF Good

LEMMA SumTakingOut ==
  ASSUME NEW f, NEW S, IsFiniteSet(S), \A x \in S : f[x] \in Int, NEW x \in S
  PROVE  SumOf(f, S) = f[x] + SumOf(f, S \ {x})
<1> DEFINE Good == { T \in SUBSET S :
                       \A y \in T : SumOf(f, T) = f[y] + SumOf(f, T \ {y}) }
<1>1. ASSUME NEW T \in SUBSET S, \A U \in SUBSET T : U # T => U \in Good
      PROVE  T \in Good
  <2> SUFFICES ASSUME NEW y \in T
               PROVE  SumOf(f, T) = f[y] + SumOf(f, T \ {y})
    OBVIOUS
  <2> DEFINE c == Chosen(T)
             C == T \ {c}
             Y == T \ {y}
             B == T \ {c, y}
  <2>1. c \in T /\ SumOf(f, T) = f[c] + SumOf(f, C)
    BY FS_Subset, ChosenIsAnElement, SumStep
  <2> HIDE DEF c
  <2>2. CASE c = y
    BY <2>1, <2>2
  <2>3. CASE c # y
    <3>1. C \in Good /\ y \in C /\ Y \in Good /\ c \in Y
      BY <1>1, <2>1, <2>3
    <3>2. C \ {y} = B /\ Y \ {c} = B
      OBVIOUS
    <3>3. SumOf(f, C) = f[y] + SumOf(f, B) /\ SumOf(f, Y) = f[c] + SumOf(f, B)
      BY <3>1, <3>2
    <3>4. SumOf(f, B) \in Int /\ f[c] \in Int /\ f[y] \in Int
      BY <2>1, FS_Subset, SumIsAnInteger
    <3> QED
      BY <2>1, <3>3, <3>4
  <2> QED
    BY <2>2, <2>3
<1> HIDE DEF Good
<1>2. \A T \in SUBSET S : T \in Good
  BY <1>1, SmallerSetsFirst
<1> QED
  BY <1>2 DEF Good

LEMMA SumOfEquals ==
  ASSUME NEW S, IsFiniteSet(S), NEW f, NEW h, \A x \in S : f[x] = h[x]
  PROVE  SumOf(f, S) = SumOf(h, S)
<1> DEFINE Good == { T \in SUBSET S : SumOf(f, T) = SumOf(h, T) }
<1>1. ASSUME NEW T \in SUBSET S, \A U \in SUBSET T : U # T => U \in Good
      PROVE  T \in Good
  <2>1. IsFiniteSet(T)
    BY FS_Subset
  <2>2. T # {} => /\ Chosen(T) \in S /\ T \ {Chosen(T)} \in Good
    BY <1>1, ChosenIsAnElement
  <2>3. /\ SumOf(f, T) = IF T = {} THEN 0
                         ELSE f[Chosen(T)] + SumOf(f, T \ {Chosen(T)})
        /\ SumOf(h, T) = IF T = {} THEN 0
                         ELSE h[Chosen(T)] + SumOf(h, T \ {Chosen(T)})
    BY <2>1, SumStep
  <2> QED
    BY <2>2, <2>3
<1> HIDE DEF Good
<1>2. \A T \in SUBSET S : T \in Good
  BY <1>1, SmallerSetsFirst
<1> QED
  BY <1>2 DEF Good

LEMMA SumOfParts ==
  ASSUME NEW f, NEW S, IsFiniteSet(S), \A x \in S : f[x] \in Int,
         NEW T \in SUBSET S
  PROVE  SumOf(f, S) = SumOf(f, T) + SumOf(f, S \ T)
<1> DEFINE Good == { U \in SUBSET T : SumOf(f, S) = SumOf(f, U) + SumOf(f, S \ U) }
<1>1. ASSUME NEW U \in SUBSET T, \A V \in SUBSET U : V # U => V \in Good
      PROVE  U \in Good
  <2>1. CASE U = {}
    <3>1. SumOf(f, {}) = 0 /\ S \ {} = S /\ SumOf(f, S) \in Int
      BY FS_EmptySet, SumStep, SumIsAnInteger
    <3> QED
      BY <2>1, <3>1
  <2>2. CASE U # {}
    <3>1. PICK x \in U : TRUE
      BY <2>2
    <3> DEFINE V == U \ {x}
    <3>2. SumOf(f, S) = SumOf(f, V) + SumOf(f, S \ V)
      BY <1>1, <3>1
    <3>3. SumOf(f, U) = f[x] + SumOf(f, V)
      BY FS_Subset, SumTakingOut
    <3>4. SumOf(f, S \ V) = f[x] + SumOf(f, S \ U)
      <4>1. x \in S \ V /\ (S \ V) \ {x} = S \ U /\ IsFiniteSet(S \ V)
        BY FS_Subset
      <4> QED
        BY <4>1, SumTakingOut
    <3>5. SumOf(f, V) \in Int /\ SumOf(f, S \ U) \in Int /\ f[x] \in Int
      BY FS_Subset, SumIsAnInteger
    <3> QED
      BY <3>2, <3>3, <3>4, <3>5
  <2> QED
    BY <2>1, <2>2
<1>2. IsFiniteSet(T)
  BY FS_Subset
<1> HIDE DEF Good
<1>3. \A U \in SUBSET T : U \in Good
  BY <1>1, <1>2, SmallerSetsFirst
<1> QED
  BY <1>3 DEF Good

LEMMA SumOfNothing ==
  ASSUME NEW f, NEW S, IsFiniteSet(S), \A x \in S : f[x] = 0
  PROVE  SumOf(f, S) = 0
<1> DEFINE Good == { T \in SUBSET S : SumOf(f, T) = 0 }
<1>1. ASSUME NEW T \in SUBSET S, \A U \in SUBSET T : U # T => U \in Good
      PROVE  T \in Good
  <2>1. T # {} => /\ Chosen(T) \in S /\ T \ {Chosen(T)} \in Good
    BY <1>1, ChosenIsAnElement
  <2>2. SumOf(f, T) = IF T = {} THEN 0
                      ELSE f[Chosen(T)] + SumOf(f, T \ {Chosen(T)})
    BY FS_Subset, SumStep
  <2> QED
    BY <2>1, <2>2
<1> HIDE DEF Good
<1>2. \A T \in SUBSET S : T \in Good
  BY <1>1, SmallerSetsFirst
<1> QED
  BY <1>2 DEF Good

LEMMA SumIsMonotone ==
  ASSUME NEW S, IsFiniteSet(S), NEW f, NEW h,
         \A x \in S : f[x] \in Int /\ h[x] \in Int /\ f[x] =< h[x]
  PROVE  SumOf(f, S) =< SumOf(h, S)
<1> DEFINE Good == { T \in SUBSET S : SumOf(f, T) =< SumOf(h, T) }
<1>1. ASSUME NEW T \in SUBSET S, \A U \in SUBSET T : U # T => U \in Good
      PROVE  T \in Good
  <2> DEFINE c == Chosen(T)
  <2>1. T # {} => c \in S /\ T \ {c} \in Good
    BY <1>1, ChosenIsAnElement
  <2>2. /\ SumOf(f, T) = IF T = {} THEN 0 ELSE f[c] + SumOf(f, T \ {c})
        /\ SumOf(h, T) = IF T = {} THEN 0 ELSE h[c] + SumOf(h, T \ {c})
    BY FS_Subset, SumStep
  <2>3. SumOf(f, T \ {c}) \in Int /\ SumOf(h, T \ {c}) \in Int
    BY FS_Subset, SumIsAnInteger
  <2> QED
    BY <2>1, <2>2, <2>3
<1> HIDE DEF Good
<1>2. \A T \in SUBSET S : T \in Good
  BY <1>1, SmallerSetsFirst
<1> QED
  BY <1>2 DEF Good

\* The sum the library's fold computes is this sum.
LEMMA SumIsAFold ==
  ASSUME NEW f, NEW S
  PROVE  SumFunctionOnSet(f, S) = SumOf(f, S)
  BY Zenon DEF SumFunctionOnSet, FoldFunctionOnSet, MapThenFoldSet, IsSum,
     Chosen, SumOf

LEMMA SumIsNatural ==
  ASSUME NEW f, NEW S, IsFiniteSet(S), \A x \in S : f[x] \in Nat
  PROVE  SumOf(f, S) \in Nat
<1> DEFINE none == [x \in S |-> 0]
<1>1. SumOf(none, S) = 0
  BY SumOfNothing
<1>2. SumOf(none, S) =< SumOf(f, S)
  BY SumIsMonotone
<1>3. SumOf(f, S) \in Int
  BY SumIsAnInteger
<1> QED
  BY <1>1, <1>2, <1>3

\* One value of a sum is exchanged for another.
Exchanged(f, h, S, x) == /\ f[x] =< SumOf(f, S)
                         /\ SumOf(h, S) = SumOf(f, S) - f[x] + h[x]

LEMMA SumExchanged ==
  ASSUME NEW S, IsFiniteSet(S), NEW f \in [S -> Nat], NEW h \in [S -> Nat],
         NEW x \in S, \A y \in S \ {x} : f[y] = h[y]
  PROVE  Exchanged(f, h, S, x)
<1>1. IsFiniteSet(S \ {x})
  BY FS_Subset
<1>2. /\ SumOf(f, S) = f[x] + SumOf(f, S \ {x})
      /\ SumOf(h, S) = h[x] + SumOf(h, S \ {x})
  BY SumTakingOut
<1>3. SumOf(f, S \ {x}) = SumOf(h, S \ {x})
  BY <1>1, SumOfEquals
<1>4. SumOf(f, S \ {x}) \in Nat
  BY <1>1, SumIsNatural
<1> QED
  BY <1>2, <1>3, <1>4 DEF Exchanged
-----------------------------------------------------------------------------
\* What each id adds to the two totals, and what exact totals are.
RetainedOf(table) ==
  [t \in Ids |-> IF table[t] = NoTask THEN 0 ELSE table[t].retained]
ReservedOf(table) ==
  [t \in Ids |-> IF table[t] = NoTask THEN 0 ELSE table[t].reserved]

Exact(table, u) == /\ u.retained = SumOf(RetainedOf(table), Ids)
                   /\ u.reserved = SumOf(ReservedOf(table), Ids)

Charged == Exact(tasks, usage) /\ Within(usage) /\ ~poisoned

LEMMA WeightsAreNatural ==
  ASSUME NEW table \in [Ids -> StoredTask \cup {NoTask}]
  PROVE  /\ RetainedOf(table) \in [Ids -> Nat]
         /\ ReservedOf(table) \in [Ids -> Nat]
         /\ SumOf(RetainedOf(table), Ids) \in Nat
         /\ SumOf(ReservedOf(table), Ids) \in Nat
<1>1. RetainedOf(table) \in [Ids -> Nat]
  BY DEF RetainedOf, StoredTask
<1>2. ReservedOf(table) \in [Ids -> Nat]
  BY DEF ReservedOf, StoredTask
<1> QED
  BY <1>1, <1>2, SumIsNatural, StoreAssumption

\* A sum over some stored ids, as the code computes it, is a sum of weights.
LEMMA SumsAreOfWeights ==
  ASSUME NEW table, NEW S \in SUBSET Ids, \A t \in S : table[t] # NoTask
  PROVE  /\ RetainedIn(table, S) = SumOf(RetainedOf(table), S)
         /\ ReservedIn(table, S) = SumOf(ReservedOf(table), S)
<1> DEFINE f == [t \in S |-> table[t].retained]
           h == [t \in S |-> table[t].reserved]
<1>1. IsFiniteSet(S)
  BY FS_Subset, StoreAssumption
<1>2. RetainedIn(table, S) = SumOf(f, S) /\ ReservedIn(table, S) = SumOf(h, S)
  BY SumIsAFold DEF RetainedIn, ReservedIn, SumFunction
<1>3. \A t \in S : f[t] = RetainedOf(table)[t] /\ h[t] = ReservedOf(table)[t]
  BY DEF RetainedOf, ReservedOf
<1> HIDE DEF f, h
<1>4. /\ SumOf(f, S) = SumOf(RetainedOf(table), S)
      /\ SumOf(h, S) = SumOf(ReservedOf(table), S)
  BY <1>1, <1>3, SumOfEquals
<1> QED
  BY <1>2, <1>4

\* The totals after one entry of the table is exchanged.
LEMMA EntryExchanged ==
  ASSUME NEW table \in [Ids -> StoredTask \cup {NoTask}], NEW t \in Ids,
         NEW s \in StoredTask \cup {NoTask},
         NEW new, new = [table EXCEPT ![t] = s],
         NEW u \in [retained : Nat, reserved : Nat], Exact(table, u)
  PROVE  /\ RetainedOf(table)[t] \in Nat /\ RetainedOf(table)[t] =< u.retained
         /\ ReservedOf(table)[t] \in Nat /\ ReservedOf(table)[t] =< u.reserved
         /\ RetainedOf(new)[t] \in Nat /\ ReservedOf(new)[t] \in Nat
         /\ Exact(new, [retained |-> u.retained - RetainedOf(table)[t]
                                       + RetainedOf(new)[t],
                        reserved |-> u.reserved - ReservedOf(table)[t]
                                       + ReservedOf(new)[t]])
<1>1. new \in [Ids -> StoredTask \cup {NoTask}]
  OBVIOUS
<1>2. \A x \in Ids \ {t} : /\ RetainedOf(table)[x] = RetainedOf(new)[x]
                           /\ ReservedOf(table)[x] = ReservedOf(new)[x]
  BY DEF RetainedOf, ReservedOf
<1>3. /\ RetainedOf(table) \in [Ids -> Nat] /\ RetainedOf(new) \in [Ids -> Nat]
      /\ ReservedOf(table) \in [Ids -> Nat] /\ ReservedOf(new) \in [Ids -> Nat]
  BY <1>1, WeightsAreNatural
<1>4. IsFiniteSet(Ids)
  BY StoreAssumption
<1>5. /\ Exchanged(RetainedOf(table), RetainedOf(new), Ids, t)
      /\ Exchanged(ReservedOf(table), ReservedOf(new), Ids, t)
  BY <1>2, <1>3, <1>4, SumExchanged
<1>6. /\ RetainedOf(table)[t] \in Nat /\ RetainedOf(new)[t] \in Nat
      /\ ReservedOf(table)[t] \in Nat /\ ReservedOf(new)[t] \in Nat
  BY <1>3
<1> QED
  BY <1>5, <1>6 DEF Exact, Exchanged

LEMMA WeightOfAnEntry ==
  ASSUME NEW table \in [Ids -> StoredTask \cup {NoTask}], NEW t \in Ids
  PROVE  /\ table[t] # NoTask =>
              /\ RetainedOf(table)[t] = table[t].retained
              /\ ReservedOf(table)[t] = table[t].reserved
         /\ table[t] = NoTask =>
              RetainedOf(table)[t] = 0 /\ ReservedOf(table)[t] = 0
  BY DEF RetainedOf, ReservedOf

\* A write that replaces a stored entry by another and charges the difference.
LEMMA PutCharges ==
  ASSUME TypeOK, Exact(tasks, usage), NEW t \in Ids, Stored(t),
         NEW s \in StoredTask, Put(t, s), Within(Replacing(tasks[t], s)),
         poisoned' = FALSE
  PROVE  Charged'
<1> DEFINE new == [tasks EXCEPT ![t] = s]
<1>1. tasks' = new /\ usage' = Replacing(tasks[t], s) /\ new[t] = s
  BY DEF Put, TypeOK
<1>2. /\ RetainedOf(tasks)[t] = tasks[t].retained
      /\ ReservedOf(tasks)[t] = tasks[t].reserved
      /\ RetainedOf(new)[t] = s.retained /\ ReservedOf(new)[t] = s.reserved
  BY <1>1, StoreAssumption DEF RetainedOf, ReservedOf, Stored
<1>3. Exact(new, [retained |-> usage.retained - RetainedOf(tasks)[t]
                                 + RetainedOf(new)[t],
                  reserved |-> usage.reserved - ReservedOf(tasks)[t]
                                 + ReservedOf(new)[t]])
  BY EntryExchanged DEF TypeOK
<1>4. Exact(new, Replacing(tasks[t], s))
  BY <1>2, <1>3 DEF Replacing
<1> HIDE DEF new
<1>5. Exact(tasks', usage') /\ Within(usage')
  BY <1>1, <1>4
<1> QED
  BY <1>5 DEF Charged

\* A step that leaves what every stored entry is charged alone.
LEMMA WeightsKept ==
  ASSUME Charged, UNCHANGED <<usage, poisoned>>,
         \A t \in Ids : /\ (tasks'[t] = NoTask) <=> (tasks[t] = NoTask)
                        /\ tasks[t] # NoTask =>
                             /\ tasks'[t].retained = tasks[t].retained
                             /\ tasks'[t].reserved = tasks[t].reserved
  PROVE  Charged'
<1>1. /\ RetainedOf(tasks') = RetainedOf(tasks)
      /\ ReservedOf(tasks') = ReservedOf(tasks)
  BY DEF RetainedOf, ReservedOf
<1> QED
  BY <1>1 DEF Charged, Exact

LEMMA OverdueCharges ==
  ASSUME TypeOK, Charged, NEW t \in Ids, Stored(t), NEW past \in BOOLEAN,
         tasks' = [tasks EXCEPT ![t].overdue = past],
         UNCHANGED <<usage, poisoned>>
  PROVE  Charged'
<1> DEFINE s == [tasks[t] EXCEPT !.overdue = past]
<1>1. s \in StoredTask /\ s.retained = tasks[t].retained
      /\ s.reserved = tasks[t].reserved
  BY DEF TypeOK, Stored, StoredTask
<1>2. tasks' = [tasks EXCEPT ![t] = s]
  OBVIOUS
<1> HIDE DEF s
<1>3. s # NoTask
  BY <1>1, StoreAssumption
<1> QED
  BY <1>1, <1>2, <1>3, WeightsKept DEF TypeOK, Stored

\* What an open task is charged makes room for anything no heavier.
LEMMA FallbackFits ==
  ASSUME TypeOK, Soundness, Charged, NEW t \in Ids, Editable(t),
         NEW r \in Record,
         RetainedSize(r) =< RetainedSize(tasks[t].task) + Reserve(tasks[t].task)
  PROVE  Closable(t, r)
<1> DEFINE s == Closed(t, r)
           n == RetainedSize(r)
<1>1. /\ Stored(t) /\ tasks[t] \in StoredTask
      /\ tasks[t].retained = RetainedSize(tasks[t].task)
      /\ tasks[t].reserved = Reserve(tasks[t].task)
  BY DEF Editable, Visible, Stored, TypeOK, Soundness, Sound
<1>2. tasks[t].retained \in Nat /\ tasks[t].reserved \in Nat /\ n \in Nat
  BY <1>1, RetainedSizeIsNatural DEF StoredTask
<1>3. s.retained = n /\ s.reserved = 0
  BY <1>1 DEF Closed, StoredTask
<1>4. /\ tasks[t].retained =< usage.retained
      /\ tasks[t].reserved =< usage.reserved
  <2> DEFINE same == tasks[t]
  <2>1. tasks = [tasks EXCEPT ![t] = same]
    BY DEF TypeOK
  <2>2. /\ RetainedOf(tasks)[t] = tasks[t].retained
        /\ ReservedOf(tasks)[t] = tasks[t].reserved
    BY <1>1, WeightOfAnEntry DEF TypeOK, Stored
  <2>3. same \in StoredTask \cup {NoTask}
    BY <1>1
  <2> HIDE DEF same
  <2> QED
    BY <2>1, <2>2, <2>3, EntryExchanged DEF TypeOK, Charged
<1>5. /\ usage.retained \in Nat /\ usage.reserved \in Nat
      /\ usage.retained + usage.reserved =< MaxRetained /\ MaxRetained \in Nat
  BY StoreAssumption DEF TypeOK, Charged, Within
<1>6. n =< tasks[t].retained + tasks[t].reserved
  BY <1>1
<1> HIDE DEF s, n
<1>7. Within(Replacing(tasks[t], s))
  <2>1. Replacing(tasks[t], s)
          = [retained |-> usage.retained - tasks[t].retained + n,
             reserved |-> usage.reserved - tasks[t].reserved + 0]
    BY <1>3 DEF Replacing
  <2> QED
    BY <2>1, <1>2, <1>4, <1>5, <1>6 DEF Within
<1>8. n =< MaxRetained
  BY <1>2, <1>4, <1>5, <1>6
<1> QED
  BY <1>4, <1>7, <1>8 DEF Closable, Replaceable, s, n

LEMMA RewriteCharges ==
  ASSUME TypeOK, Charged, NEW t \in Ids, Stored(t), NEW r \in Record, Rewrite(t, r)
  PROVE  Charged'
<1>1. /\ Prepared(r) \in StoredTask /\ Put(t, Prepared(r))
      /\ Within(Replacing(tasks[t], Prepared(r))) /\ poisoned' = FALSE
  BY PreparedIsStored DEF Rewrite, Replaceable, Charged
<1> QED
  BY <1>1, PutCharges DEF Charged

LEMMA CloseCharges ==
  ASSUME TypeOK, Charged, NEW t \in Ids, Stored(t), NEW r \in Record,
         Closable(t, r), Close(t, r)
  PROVE  Charged'
<1>1. tasks[t] \in StoredTask
  BY DEF TypeOK, Stored
<1>2. /\ Closed(t, r) \in StoredTask /\ Put(t, Closed(t, r))
      /\ Within(Replacing(tasks[t], Closed(t, r))) /\ poisoned' = FALSE
  BY <1>1, ClosedIsStored DEF Closable, Close, Replaceable, Charged
<1> QED
  BY <1>2, PutCharges DEF Charged

\* The fallbacks of a terminal write always fit, so it never panics.
LEMMA FinishCharges ==
  ASSUME TypeOK, Soundness, Charged, NEW t \in Ids, NEW c \in Callers,
         NEW status, NEW text, NEW n, Finish(c, t, status, text, n),
         Finishing(tasks[t].task, status, text, n) \in Record
  PROVE  Charged'
<1> DEFINE old == tasks[t].task
           r == Finishing(old, status, text, n)
           failed == FailingRetention(old)
<1>1. Editable(t)
  BY DEF Finish
<1>2. Stored(t) /\ old \in Record /\ ~IsTerminal(old)
  BY <1>1, EditableLooks DEF Visible
<1>3. failed \in Record /\ RetainedSize(failed) =< RetainedSize(old) + Reserve(old)
  BY <1>2, FailingIsARecord, ReserveHoldsTheFailure
<1>4. Closable(t, failed)
  BY <1>1, <1>3, FallbackFits
<1>5. \/ Closable(t, r) /\ Close(t, r)
      \/ Close(t, failed)
  BY <1>4 DEF Finish, CommitRetentionFailure
<1> HIDE DEF r, failed
<1> QED
  BY <1>2, <1>3, <1>4, <1>5, CloseCharges DEF r

LEMMA CancelCharges ==
  ASSUME TypeOK, Soundness, Charged, NEW t \in Ids, NEW c \in Callers,
         NEW n \in Loads, CancelTask(c, t, n)
  PROVE  Charged'
<1> DEFINE old == tasks[t].task
           bounded == CancellingBounded(old)
<1>1. CASE IsTerminal(old)
  BY <1>1 DEF CancelTask, Charged
<1>2. CASE ~IsTerminal(old)
  <2>1. Editable(t) /\ Stored(t)
    BY <1>2 DEF CancelTask, Editable, Visible
  <2>2. old \in Record
    BY <2>1, EditableLooks
  <2>3. bounded \in Record /\ Cancelling(old, n) \in Record
    BY <2>2, CancellingIsARecord, FixedSizes
  <2>4. RetainedSize(bounded) =< RetainedSize(old) + Reserve(old)
    BY <1>2, <2>2, ReserveHoldsTheCancellation
  <2>5. Closable(t, bounded)
    BY <2>1, <2>3, <2>4, FallbackFits
  <2>6. PICK r \in {Cancelling(old, n), bounded} : Closable(t, r) /\ Close(t, r)
    BY <1>2, <2>5 DEF CancelTask
  <2> QED
    BY <2>1, <2>3, <2>6, CloseCharges
<1> QED
  BY <1>1, <1>2

LEMMA CreateCharges ==
  ASSUME TypeOK, Soundness, Charged, NEW t \in Ids, NEW c \in Callers,
         NEW n \in Loads, CreateTask(c, t, n)
  PROVE  Charged'
<1> DEFINE s == Prepared(NewRecord(n))
           new == [tasks EXCEPT ![t] = s]
           total == [retained |-> usage.retained + s.retained,
                     reserved |-> usage.reserved + s.reserved]
<1>1. /\ tasks' = new /\ usage' = total /\ Within(total)
      /\ poisoned' = poisoned /\ t \notin issued
  BY DEF CreateTask
<1>2. tasks[t] = NoTask
  BY <1>1 DEF Soundness, Sound, Stored
<1>3. s \in StoredTask /\ s # NoTask
  BY NewRecordIsARecord, PreparedIsStored, StoreAssumption
<1>4. new \in [Ids -> StoredTask \cup {NoTask}] /\ new[t] = s
  BY <1>3 DEF TypeOK
<1>5. /\ RetainedOf(tasks)[t] = 0 /\ ReservedOf(tasks)[t] = 0
      /\ RetainedOf(new)[t] = s.retained /\ ReservedOf(new)[t] = s.reserved
  BY <1>2, <1>3, <1>4, WeightOfAnEntry DEF TypeOK
<1>6. Exact(new, [retained |-> usage.retained - 0 + s.retained,
                  reserved |-> usage.reserved - 0 + s.reserved])
  <2> HIDE DEF s
  <2>1. Exact(new, [retained |-> usage.retained - RetainedOf(tasks)[t]
                                   + RetainedOf(new)[t],
                    reserved |-> usage.reserved - ReservedOf(tasks)[t]
                                   + ReservedOf(new)[t]])
    BY <1>3, EntryExchanged DEF TypeOK, Charged
  <2> QED
    BY <2>1, <1>5
<1>7. Exact(new, total)
  <2>1. usage.retained - 0 = usage.retained /\ usage.reserved - 0 = usage.reserved
    BY DEF TypeOK
  <2> QED
    BY <2>1, <1>6
<1> HIDE DEF new, total
<1> QED
  BY <1>1, <1>7 DEF Charged

LEMMA DiscardCharges ==
  ASSUME TypeOK, Charged, NEW t \in Ids, NEW c \in Callers, DiscardTask(c, t)
  PROVE  Charged'
<1> DEFINE new == [tasks EXCEPT ![t] = NoTask]
           left == [retained |-> usage.retained - tasks[t].retained,
                    reserved |-> usage.reserved - tasks[t].reserved]
<1>1. /\ tasks' = new /\ Stored(t)
      /\ IF Within(left) THEN usage' = left /\ poisoned' = poisoned
                         ELSE poisoned' = TRUE
  BY DEF DiscardTask
<1>2. tasks[t].retained \in Nat /\ tasks[t].reserved \in Nat
  BY <1>1 DEF Stored, TypeOK, StoredTask
<1>3. new \in [Ids -> StoredTask \cup {NoTask}] /\ new[t] = NoTask
  BY DEF TypeOK
<1>4. /\ RetainedOf(tasks)[t] = tasks[t].retained
      /\ ReservedOf(tasks)[t] = tasks[t].reserved
      /\ RetainedOf(new)[t] = 0 /\ ReservedOf(new)[t] = 0
  BY <1>1, <1>3, WeightOfAnEntry DEF TypeOK, Stored
<1>5. /\ RetainedOf(tasks)[t] =< usage.retained
      /\ ReservedOf(tasks)[t] =< usage.reserved
      /\ Exact(new, [retained |-> usage.retained - RetainedOf(tasks)[t]
                                    + RetainedOf(new)[t],
                     reserved |-> usage.reserved - ReservedOf(tasks)[t]
                                    + ReservedOf(new)[t]])
  BY EntryExchanged DEF TypeOK, Charged
<1>6. /\ usage.retained \in Nat /\ usage.reserved \in Nat
      /\ usage.retained + usage.reserved =< MaxRetained /\ MaxRetained \in Nat
  BY StoreAssumption DEF TypeOK, Charged, Within
<1>7. Exact(new, left)
  <2>1. /\ usage.retained - tasks[t].retained + 0
             = usage.retained - tasks[t].retained
        /\ usage.reserved - tasks[t].reserved + 0
             = usage.reserved - tasks[t].reserved
    BY <1>2, <1>6
  <2> QED
    BY <2>1, <1>4, <1>5
<1>8. Within(left)
  BY <1>2, <1>4, <1>5, <1>6 DEF Within
<1> HIDE DEF new, left
<1> QED
  BY <1>1, <1>7, <1>8 DEF Charged

LEMMA SkeletonIsLeast ==
  ASSUME NEW r \in Record
  PROVE  Skeleton =< RetainedSize(r)
<1>1. /\ Outstanding(r) \in SUBSET Keys /\ Answered(r) \in SUBSET Keys
      /\ r.superseded \in SUBSET Keys
  BY KeyMapElim DEF Record, Outstanding, Answered
<1>2. /\ Cardinality(Outstanding(r)) \in Nat /\ Cardinality(Answered(r)) \in Nat
      /\ Cardinality(r.superseded) \in Nat
  BY <1>1, RecordAssumption, FS_Subset, FS_CardinalityType
<1>3. /\ r.name \in Nat /\ r.args \in Nat /\ r.text \in Nat
      /\ r.meta \in Nat /\ r.outcome \in Nat
  BY FixedSizes DEF Record
<1>4. \A a, b, c \in Nat : InputSize * (a + b + c) \in Nat
  BY FixedSizes
<1> QED
  BY <1>2, <1>3, <1>4, FixedSizes DEF RetainedSize

\* A retirement subtracts what it scrubs and what it drops: the intermediate
\* and the final totals are again exact and within the limit, so neither of its
\* checks can fail.
LEMMA RetiringCharges ==
  ASSUME TypeOK, Soundness, Charged, NEW remove \in BOOLEAN, NEW ws,
         Retiring(remove, ws)
  PROVE  Charged'
<1> DEFINE scrubbed == [x \in Ids |-> IF x \in Expiring
                                      THEN Signalled(tasks[x]) ELSE tasks[x]]
           dropped == IF remove THEN { x \in Ids : Overdue(x) } ELSE {}
           left == [x \in Ids |-> IF x \in dropped THEN NoTask ELSE scrubbed[x]]
           signalled ==
             [retained |-> usage.retained - RetainedIn(tasks, Expiring)
                             + RetainedIn(scrubbed, Expiring),
              reserved |-> usage.reserved - ReservedIn(tasks, Expiring)]
           final ==
             [retained |-> signalled.retained - RetainedIn(scrubbed, dropped),
              reserved |-> signalled.reserved - ReservedIn(scrubbed, dropped)]
<1>1. IF Within(signalled) /\ Within(final)
      THEN tasks' = left /\ usage' = final /\ poisoned' = poisoned
      ELSE poisoned' = TRUE
  BY DEF Retiring, RetireExpired, Charged
<1>2. Expiring \in SUBSET Ids /\ dropped \in SUBSET Ids /\ IsFiniteSet(Ids)
  BY StoreAssumption DEF Expiring
<1>3. ASSUME NEW t \in Expiring
      PROVE  /\ tasks[t] # NoTask /\ scrubbed[t] \in StoredTask
             /\ scrubbed[t].retained = Skeleton /\ scrubbed[t].reserved = 0
             /\ Skeleton =< tasks[t].retained
  <2>1. /\ t \in Ids /\ Stored(t) /\ tasks[t] \in StoredTask
        /\ tasks[t].task \in Record
    BY DEF Expiring, Overdue, Stored, TypeOK, StoredTask
  <2>2. tasks[t].retained = RetainedSize(tasks[t].task)
    BY <2>1 DEF Soundness, Sound
  <2> QED
    BY <2>1, <2>2, SignalledIsStored, ScrubbedWeighsNothing, SkeletonIsLeast
       DEF Stored
<1>4. scrubbed \in [Ids -> StoredTask \cup {NoTask}]
  BY <1>3 DEF TypeOK
<1>5. left \in [Ids -> StoredTask \cup {NoTask}]
  BY <1>4
<1>6. \A t \in dropped : scrubbed[t] # NoTask
  BY <1>3, StoreAssumption DEF Overdue, Stored
<1>7. \A t \in Expiring : scrubbed[t] # NoTask
  BY <1>3, StoreAssumption
<1>8. \A t \in Ids \ Expiring : scrubbed[t] = tasks[t]
  OBVIOUS
<1>9. \A t \in Ids : left[t] = IF t \in dropped THEN NoTask ELSE scrubbed[t]
  OBVIOUS
<1> HIDE DEF scrubbed, dropped, left
<1> DEFINE f == RetainedOf(tasks)     a == ReservedOf(tasks)
           g == RetainedOf(scrubbed)  b == ReservedOf(scrubbed)
           h == RetainedOf(left)      c == ReservedOf(left)
<1>10. /\ f \in [Ids -> Nat] /\ g \in [Ids -> Nat] /\ h \in [Ids -> Nat]
       /\ a \in [Ids -> Nat] /\ b \in [Ids -> Nat] /\ c \in [Ids -> Nat]
  BY <1>4, <1>5, WeightsAreNatural DEF TypeOK
<1>11. \A t \in Expiring : g[t] = Skeleton /\ b[t] = 0 /\ g[t] =< f[t]
  BY <1>2, <1>3, <1>7 DEF RetainedOf, ReservedOf
<1>12. \A t \in Ids \ Expiring : g[t] = f[t] /\ b[t] = a[t]
  BY <1>8 DEF RetainedOf, ReservedOf
<1>13. \A t \in Ids : /\ h[t] = IF t \in dropped THEN 0 ELSE g[t]
                      /\ c[t] = IF t \in dropped THEN 0 ELSE b[t]
  BY <1>9 DEF RetainedOf, ReservedOf
<1>14. /\ RetainedIn(tasks, Expiring) = SumOf(f, Expiring)
       /\ ReservedIn(tasks, Expiring) = SumOf(a, Expiring)
       /\ RetainedIn(scrubbed, Expiring) = SumOf(g, Expiring)
       /\ RetainedIn(scrubbed, dropped) = SumOf(g, dropped)
       /\ ReservedIn(scrubbed, dropped) = SumOf(b, dropped)
  BY <1>2, <1>3, <1>6, <1>7, SumsAreOfWeights
<1>15. usage.retained = SumOf(f, Ids) /\ usage.reserved = SumOf(a, Ids)
  BY DEF Charged, Exact
<1>16. /\ usage.retained \in Nat /\ usage.reserved \in Nat
       /\ usage.retained + usage.reserved =< MaxRetained /\ MaxRetained \in Nat
  BY StoreAssumption DEF TypeOK, Charged, Within
<1> HIDE DEF f, g, h, a, b, c
<1>17. /\ signalled.retained = SumOf(g, Ids)
       /\ signalled.reserved = SumOf(b, Ids)
  <2> DEFINE rest == Ids \ Expiring
  <2>1. /\ SumOf(f, Ids) = SumOf(f, Expiring) + SumOf(f, rest)
        /\ SumOf(g, Ids) = SumOf(g, Expiring) + SumOf(g, rest)
        /\ SumOf(a, Ids) = SumOf(a, Expiring) + SumOf(a, rest)
        /\ SumOf(b, Ids) = SumOf(b, Expiring) + SumOf(b, rest)
    BY <1>2, <1>10, SumOfParts
  <2>2. IsFiniteSet(rest) /\ IsFiniteSet(Expiring)
    BY <1>2, FS_Subset
  <2>3. SumOf(f, rest) = SumOf(g, rest) /\ SumOf(a, rest) = SumOf(b, rest)
    BY <1>12, <2>2, SumOfEquals
  <2>4. SumOf(b, Expiring) = 0
    BY <1>11, <2>2, SumOfNothing
  <2>5. /\ SumOf(f, Expiring) \in Int /\ SumOf(g, Expiring) \in Int
        /\ SumOf(a, Expiring) \in Int /\ SumOf(f, rest) \in Int
        /\ SumOf(a, rest) \in Int
    BY <1>2, <1>10, <2>2, SumIsAnInteger
  <2> QED
    BY <1>14, <1>15, <2>1, <2>3, <2>4, <2>5
<1>18. /\ final.retained = SumOf(h, Ids)
       /\ final.reserved = SumOf(c, Ids)
  <2> DEFINE rest == Ids \ dropped
  <2>1. /\ SumOf(g, Ids) = SumOf(g, dropped) + SumOf(g, rest)
        /\ SumOf(b, Ids) = SumOf(b, dropped) + SumOf(b, rest)
        /\ SumOf(h, Ids) = SumOf(h, dropped) + SumOf(h, rest)
        /\ SumOf(c, Ids) = SumOf(c, dropped) + SumOf(c, rest)
    BY <1>2, <1>10, SumOfParts
  <2>2. IsFiniteSet(rest) /\ IsFiniteSet(dropped)
    BY <1>2, FS_Subset
  <2>3. SumOf(h, dropped) = 0 /\ SumOf(c, dropped) = 0
    BY <1>2, <1>13, <2>2, SumOfNothing
  <2>4. SumOf(h, rest) = SumOf(g, rest) /\ SumOf(c, rest) = SumOf(b, rest)
    BY <1>13, <2>2, SumOfEquals
  <2>5. /\ SumOf(g, dropped) \in Int /\ SumOf(g, rest) \in Int
        /\ SumOf(b, dropped) \in Int /\ SumOf(b, rest) \in Int
    BY <1>2, <1>10, <2>2, SumIsAnInteger
  <2> HIDE DEF signalled
  <2>6. /\ final.retained = SumOf(g, Ids) - SumOf(g, dropped)
        /\ final.reserved = SumOf(b, Ids) - SumOf(b, dropped)
    BY <1>14, <1>17
  <2> QED
    BY <2>1, <2>3, <2>4, <2>5, <2>6
<1>19. /\ SumOf(h, Ids) =< SumOf(g, Ids) /\ SumOf(g, Ids) =< SumOf(f, Ids)
       /\ SumOf(c, Ids) =< SumOf(b, Ids) /\ SumOf(b, Ids) =< SumOf(a, Ids)
  <2>1. /\ \A t \in Ids : f[t] \in Int /\ g[t] \in Int /\ h[t] \in Int
        /\ \A t \in Ids : a[t] \in Int /\ b[t] \in Int /\ c[t] \in Int
    BY <1>10
  <2>2. /\ \A t \in Ids : h[t] =< g[t] /\ g[t] =< f[t]
        /\ \A t \in Ids : c[t] =< b[t] /\ b[t] =< a[t]
    BY <1>10, <1>11, <1>12, <1>13
  <2> QED
    BY <1>2, <2>1, <2>2, SumIsMonotone
<1>20. /\ SumOf(h, Ids) \in Nat /\ SumOf(g, Ids) \in Nat
       /\ SumOf(b, Ids) \in Nat /\ SumOf(c, Ids) \in Nat
  BY <1>2, <1>10, SumIsNatural
<1> HIDE DEF signalled, final
<1>21. Within(signalled) /\ Within(final)
  BY <1>15, <1>16, <1>17, <1>18, <1>19, <1>20 DEF Within
<1>22. Exact(left, final)
  BY <1>18 DEF Exact, h, c
<1> QED
  BY <1>1, <1>21, <1>22 DEF Charged

LEMMA CallerCharges ==
  ASSUME TypeOK, Soundness, Charged, NEW c \in Callers, CallerStep(c)
  PROVE  Charged'
<1>1. CASE Enter(c) \/ Reclaim(c) \/ RetireAgain(c)
  BY <1>1, RetiringCharges DEF Enter, Reclaim, RetireAgain
<1>2. CASE ReturnUnchanged(c) \/ \E t \in Ids : FindExpired(c, t)
  BY <1>2 DEF ReturnUnchanged, FindExpired, Charged
<1>3. ASSUME NEW t \in Ids, NEW past \in BOOLEAN, SetTtl(c, t, past)
      PROVE  Charged'
  <2>1. CASE Overdue(t)
    BY <1>3, <2>1 DEF SetTtl, Charged
  <2>2. CASE ~Overdue(t)
    BY <1>3, <2>2, OverdueCharges DEF SetTtl
  <2> QED
    BY <2>1, <2>2
<1>4. ASSUME NEW t \in Ids, Editable(t) \/ Visible(t)
      PROVE  Stored(t) /\ tasks[t].task \in Record
  BY <1>4 DEF Editable, Visible, Stored, TypeOK, StoredTask
<1>5. ASSUME NEW t \in Ids, NEW n \in Loads, SetTaskMeta(c, t, n)
      PROVE  Charged'
  <2>1. Annotating(tasks[t].task, n) \in Record /\ Stored(t)
    BY <1>4, <1>5, AnnotatingIsARecord DEF SetTaskMeta
  <2> QED
    BY <1>5, <2>1, RewriteCharges DEF SetTaskMeta
<1>6. ASSUME NEW t \in Ids, Editable(t), NEW r \in Rewritings(tasks[t].task),
             Rewrite(t, r)
      PROVE  Charged'
  BY <1>4, <1>6, RewritingsAreRecords, RewriteCharges
<1>7. ASSUME NEW t \in Ids, NEW requests \in KeyMap(Questions), NEW n \in Loads,
             RequireInput(c, t, requests, n)
      PROVE  Charged'
  <2>1. Asking(tasks[t].task, requests, n) \in Rewritings(tasks[t].task)
    BY <1>7 DEF RequireInput, Rewritings
  <2> QED
    BY <1>6, <1>7, <2>1 DEF RequireInput
<1>8. ASSUME NEW t \in Ids, NEW status \in Open, SetStatus(c, t, status)
      PROVE  Charged'
  <2>1. Editable(t) /\ tasks[t].task.text \in Size
    BY <1>4, <1>8 DEF SetStatus, Record
  <2>2. PICK text \in { n \in Loads : FitsPayload(n) } \cup { tasks[t].task.text } :
          Rewrite(t, Progressing(tasks[t].task, status, text))
    BY <1>8 DEF SetStatus
  <2>3. text \in Size
    BY <2>1, <2>2, FixedSizes
  <2>4. Progressing(tasks[t].task, status, text) \in Rewritings(tasks[t].task)
    BY <2>3 DEF Rewritings
  <2> QED
    BY <1>6, <2>1, <2>2, <2>4
<1>9. ASSUME NEW t \in Ids, NEW responses \in KeyMap(Answers),
             ApplyInputResponses(c, t, responses)
      PROVE  Charged'
  <2>1. Answering(tasks[t].task, responses) \in Rewritings(tasks[t].task)
    BY DEF Rewritings
  <2> QED
    BY <1>6, <1>9, <2>1 DEF ApplyInputResponses
<1>10. ASSUME NEW t \in Ids, NEW n \in Loads,
              CompleteTask(c, t, n) \/ FailTask(c, t, n)
       PROVE  Charged'
  <2>1. Editable(t)
    BY <1>10 DEF CompleteTask, FailTask, Finish
  <2>2. Finishing(tasks[t].task, "completed", 0, n) \in Closings(tasks[t].task)
    BY DEF Closings
  <2>3. Finishing(tasks[t].task, "failed", n, n) \in Closings(tasks[t].task)
    BY DEF Closings
  <2>4. /\ Finishing(tasks[t].task, "completed", 0, n) \in Record
        /\ Finishing(tasks[t].task, "failed", n, n) \in Record
    BY <1>4, <2>1, <2>2, <2>3, ClosingsAreRecords
  <2> QED
    BY <1>10, <2>4, FinishCharges DEF CompleteTask, FailTask
<1> QED
  BY <1>1, <1>2, <1>3, <1>5, <1>7, <1>8, <1>9, <1>10, CreateCharges,
     DiscardCharges, CancelCharges
     DEF CallerStep

LEMMA EveryCharge == TypeOK /\ Soundness /\ Charged /\ [Next]_vars => Charged'
<1> SUFFICES ASSUME TypeOK, Soundness, Charged, [Next]_vars PROVE Charged'
  OBVIOUS
<1>1. ASSUME NEW w \in Waiters,
             WaiterStep(w) \/ \E t \in Ids : BeginWait(w, t)
      PROVE  Charged'
  <2>1. ASSUME NEW ws, Retiring(FALSE, ws) PROVE Charged'
    BY <2>1, RetiringCharges
  <2>2. CASE WakeNotified(w) \/ WakeCancelled(w) \/ \E t \in Ids : BeginWait(w, t)
    BY <2>1, <2>2 DEF WakeNotified, WakeCancelled, BeginWait
  <2>3. CASE Register(w) \/ Recheck(w) \/ Reread(w)
    BY <2>3 DEF Register, Recheck, Reread, Charged
  <2> QED
    BY <1>1, <2>2, <2>3 DEF WaiterStep
<1>2. ASSUME NEW t \in Ids, Publish(t) \/ RaiseToken(t) PROVE Charged'
  BY <1>2 DEF Publish, RaiseToken, Charged
<1>3. ASSUME NEW t \in Ids, Elapse(t) PROVE Charged'
  BY <1>3, OverdueCharges DEF Elapse, Visible
<1>4. ASSUME NEW remove \in BOOLEAN, Sweep(remove) PROVE Charged'
  BY <1>4, RetiringCharges DEF Sweep
<1>5. CASE UNCHANGED vars
  BY <1>5 DEF vars, Charged
<1> QED
  BY <1>1, <1>2, <1>3, <1>4, <1>5, CallerCharges DEF Next

\* The retained and reserved totals are, at every moment, the sums over the
\* table, and stay within the limit; the fallback of every terminal write fits
\* and no retirement or discard subtracts too much, so the `expect`s that would
\* poison the lock never fire.
THEOREM ChargeIsExactHolds == Spec => []ChargeIsExact
<1>1. Init => Charged
  <2> SUFFICES ASSUME Init PROVE Charged
    OBVIOUS
  <2>1. \A t \in Ids : RetainedOf(tasks)[t] = 0 /\ ReservedOf(tasks)[t] = 0
    BY DEF Init, RetainedOf, ReservedOf
  <2>2. SumOf(RetainedOf(tasks), Ids) = 0 /\ SumOf(ReservedOf(tasks), Ids) = 0
    BY <2>1, SumOfNothing, StoreAssumption
  <2> QED
    BY <2>2, StoreAssumption DEF Init, Charged, Exact, Within
<1>2. Spec => []Charged
  BY <1>1, EveryCharge, SoundnessInvariant, PTL DEF Spec
<1>3. TypeOK /\ Charged => ChargeIsExact
  <2> SUFFICES ASSUME TypeOK, Charged PROVE ChargeIsExact
    OBVIOUS
  <2> DEFINE stored == { t \in Ids : Stored(t) }
             f == RetainedOf(tasks)
             a == ReservedOf(tasks)
  <2>1. /\ stored \in SUBSET Ids /\ \A t \in stored : tasks[t] # NoTask
        /\ IsFiniteSet(Ids)
    BY StoreAssumption DEF Stored
  <2>2. /\ RetainedIn(tasks, stored) = SumOf(f, stored)
        /\ ReservedIn(tasks, stored) = SumOf(a, stored)
    BY <2>1, SumsAreOfWeights
  <2>3. /\ \A t \in Ids : f[t] \in Int /\ a[t] \in Int
        /\ \A t \in Ids \ stored : f[t] = 0 /\ a[t] = 0
    <3>1. f \in [Ids -> Nat] /\ a \in [Ids -> Nat]
      BY WeightsAreNatural DEF TypeOK
    <3>2. \A t \in Ids \ stored : f[t] = 0 /\ a[t] = 0
      BY DEF RetainedOf, ReservedOf, Stored
    <3> QED
      BY <3>1, <3>2
  <2> HIDE DEF stored, f, a
  <2>4. /\ SumOf(f, Ids) = SumOf(f, stored) + SumOf(f, Ids \ stored)
        /\ SumOf(a, Ids) = SumOf(a, stored) + SumOf(a, Ids \ stored)
    BY <2>1, <2>3, SumOfParts
  <2>5. SumOf(f, Ids \ stored) = 0 /\ SumOf(a, Ids \ stored) = 0
    BY <2>1, <2>3, FS_Subset, SumOfNothing
  <2>6. SumOf(f, stored) \in Int /\ SumOf(a, stored) \in Int
    BY <2>1, <2>3, FS_Subset, SumIsAnInteger
  <2> QED
    BY <2>2, <2>4, <2>5, <2>6
       DEF ChargeIsExact, Charged, Exact, Within, stored, f, a
<1> QED
  BY <1>2, <1>3, Typing, PTL

\* A wait that sleeps unwoken sleeps on a task that is open and will signal:
\* no outcome, expiry or removal goes unnoticed, and no panic strands it.
THEOREM NoMissedWakeupHolds == Spec => []NoMissedWakeup
<1>1. ChargeIsExact /\ Waits(waiter) => NoMissedWakeup
  BY DEF ChargeIsExact, Waits, Waking, Owing, NoMissedWakeup
<1> QED
  BY <1>1, ChargeIsExactHolds, WaitsInvariant, PTL
=============================================================================
