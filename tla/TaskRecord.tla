----------------------------- MODULE TaskRecord -----------------------------
(***************************************************************************)
(* One task record of async_task.rs (`Task`) and the pure part of every    *)
(* store method that rewrites it.  A record keeps the status, the          *)
(* outstanding input requests, the answers given so far, the superseded    *)
(* keys, and the encoded size of each payload the byte accounting weighs.  *)
(*                                                                         *)
(* `asked` is `input_requests`.  `answers` is `input_responses`; its domain *)
(* is `answered_input_keys`, which the code inserts into and clears in     *)
(* the same statements.  A request or an answer is an opaque value.        *)
(***************************************************************************)
EXTENDS Integers, FiniteSets

CONSTANTS
  Keys,        \* input request keys
  Questions,   \* what a request can ask (`same_input_request` compares them)
  Answers,     \* what a client can answer
  Loads,       \* encoded sizes a caller-supplied payload can have
  Skeleton,    \* size of a record with every payload empty
  NameSize,    \* what the tool name adds to it
  InputSize,   \* what one request, answer or superseded key adds
  FailText,    \* size of RETENTION_FAILURE_STATUS
  FailError,   \* size of the error made of RETENTION_FAILURE_MESSAGE
  CancelText   \* size of "Task cancelled: retention limit exceeded"

\* The fixed failure is at least as large as the fixed cancellation: the
\* reservation made for the first must also hold the second.
ASSUME RecordAssumption ==
  /\ IsFiniteSet(Keys)
  /\ Loads \subseteq Nat /\ 0 \in Loads
  /\ {Skeleton, NameSize, InputSize, FailText, FailError, CancelText}
       \subseteq Nat
  /\ CancelText =< FailText + FailError

Terminal == {"completed", "failed", "cancelled"}
Open     == {"working", "input_required"}
Status   == Open \cup Terminal

\* Maps from some of the keys to S.
KeyMap(S) == UNION { [D -> S] : D \in SUBSET Keys }
NoInputs  == [k \in {} |-> k]

Size == Loads \cup {FailText, FailError, CancelText}

Record == [status     : Status,
           asked      : KeyMap(Questions),
           answers    : KeyMap(Answers),
           superseded : SUBSET Keys,
           name : {0, NameSize},
           args : Size, text : Size, meta : Size, outcome : Size]

\* Task::new.  The built-in "Task started" weighs nothing.
NewRecord(args) ==
  [status |-> "working", asked |-> NoInputs, answers |-> NoInputs,
   superseded |-> {}, name |-> NameSize, args |-> args,
   text |-> 0, meta |-> 0, outcome |-> 0]

IsTerminal(r) == r.status \in Terminal
Outstanding(r) == DOMAIN r.asked
Answered(r)    == DOMAIN r.answers
Spent(r)       == Answered(r) \cup r.superseded

\* retained_payload_size: everything the record serializes.
RetainedSize(r) ==
  Skeleton + r.name + r.args + r.text + r.meta + r.outcome
    + InputSize * (Cardinality(Outstanding(r)) + Cardinality(Answered(r))
                     + Cardinality(r.superseded))
-----------------------------------------------------------------------------
ReusedWhenSpent(r, requests) == DOMAIN requests \cap Spent(r)

\* require_input: a key is reusable only while it is outstanding and still
\* names the same question.
Reused(r, requests) ==
  { k \in DOMAIN requests :
      \/ k \in Spent(r)
      \/ k \in Outstanding(r) /\ r.asked[k] # requests[k] }

Asking(r, requests, text) ==
  [r EXCEPT !.status = "input_required",
            !.asked = requests,
            !.superseded = @ \cup (Outstanding(r) \ DOMAIN requests),
            !.text = text]

\* apply_input_responses: answers to outstanding keys are recorded, the rest
\* ignored; the last answer takes a parked task back to `working`.
Accepted(r, responses) == DOMAIN responses \cap Outstanding(r)
StillOutstanding(r, responses) == Outstanding(r) \ DOMAIN responses

AnsweringTooSoon(r, responses) ==
  LET left == StillOutstanding(r, responses)
  IN [r EXCEPT
        !.asked = [k \in left |-> r.asked[k]],
        !.answers = [k \in Answered(r) \cup Accepted(r, responses) |->
                       IF k \in Accepted(r, responses)
                       THEN responses[k] ELSE r.answers[k]],
        !.status = "working", !.text = 0]

Answering(r, responses) ==
  LET left == StillOutstanding(r, responses)
      resumed == left = {} /\ r.status = "input_required"
  IN [r EXCEPT
        !.asked = [k \in left |-> r.asked[k]],
        !.answers = [k \in Answered(r) \cup Accepted(r, responses) |->
                       IF k \in Accepted(r, responses)
                       THEN responses[k] ELSE r.answers[k]],
        !.status = IF resumed THEN "working" ELSE @,
        !.text = IF resumed THEN 0 ELSE @]

\* set_status and set_task_meta
Progressing(r, status, text) == [r EXCEPT !.status = status, !.text = text]
Annotating(r, meta) == [r EXCEPT !.meta = meta]

\* complete_task and fail_task; both drop the outstanding requests only.
Finishing(r, status, text, outcome) ==
  [r EXCEPT !.status = status, !.asked = NoInputs,
            !.text = text, !.outcome = outcome]

\* cancel_task with the caller's reason, and cancel_with_bounded_status with
\* `scrub` when the reason or the aggregate does not fit.
Cancelling(r, text) ==
  [r EXCEPT !.status = "cancelled", !.asked = NoInputs, !.text = text]

CancellingBounded(r) ==
  [Cancelling(r, CancelText) EXCEPT
     !.answers = NoInputs, !.superseded = {},
     !.args = 0, !.meta = 0, !.outcome = 0]

\* Task::fail_retention_limit
FailingRetention(r) ==
  [r EXCEPT !.status = "failed", !.asked = NoInputs, !.answers = NoInputs,
            !.superseded = {}, !.args = 0, !.meta = 0,
            !.text = FailText, !.outcome = FailError]

\* StoredTask::scrub_expired_payload keeps the status and the owner only.
Scrubbed(r) ==
  [r EXCEPT !.asked = NoInputs, !.answers = NoInputs, !.superseded = {},
            !.name = 0, !.args = 0, !.text = 0, !.meta = 0, !.outcome = 0]

ReserveWithoutError(r) ==
  IF IsTerminal(r) THEN 0
  ELSE LET fallback == RetainedSize([FailingRetention(r) EXCEPT !.outcome = 0])
           held == RetainedSize(r)
       IN IF fallback > held THEN fallback - held ELSE 0

\* prepare_stored_task: what is charged on top of the payload so that the
\* fixed failure always fits in its place.
Reserve(r) ==
  IF IsTerminal(r) THEN 0
  ELSE LET fallback == RetainedSize(FailingRetention(r))
           held == RetainedSize(r)
       IN IF fallback > held THEN fallback - held ELSE 0
=============================================================================
