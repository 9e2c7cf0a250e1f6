------------------------------ MODULE StripeEvents ------------------------------
(***************************************************************************)
(* The durable inbox for Stripe webhook events.                            *)
(*                                                                         *)
(* An API request handler stores the receipt of a verified event in        *)
(* PostgreSQL, commits it, hands a job to the arq queue in Redis and only  *)
(* then answers 2xx; a worker takes the job, runs the billing handler and  *)
(* settles the receipt; an administrator may requeue a failed or stale     *)
(* receipt.  A step of the model is one database or Redis round trip, so   *)
(* handlers and workers interleave between them, each acting on the copy   *)
(* of the row that its SQLAlchemy session loaded earlier.                  *)
(*                                                                         *)
(* A flush writes only the columns that changed since the load: see Dirty. *)
(***************************************************************************)
EXTENDS Naturals

CONSTANTS
    Events,        \* Stripe event identifiers
    Api,           \* concurrent API request handlers
    Workers,       \* concurrent arq worker slots (worker_concurrency)
    MaxTries,      \* worker_job_max_attempts: arq max_tries, receipt max_attempts
    MaxAttempts,   \* bound of the model on the attempts column
    FaultBudget,   \* how often each kind of fault may strike
    Operator       \* which retryable receipts an administrator requeues (see Requeues)

FaultKind == {"handler", "queue", "api", "worker", "abort", "expire"}

ASSUME TriesAssumption  == MaxTries \in Nat \ {0}
ASSUME BoundAssumption  == MaxAttempts \in Nat
ASSUME BudgetAssumption == FaultBudget \in [FaultKind -> Nat]
ASSUME OperatorAssumption == Operator \in {"off", "patient", "eager"}

ActiveStatus == {"queued", "processing", "retrying"}
Status       == ActiveStatus \cup {"succeeded", "failed"}

Attempts   == 0 .. MaxAttempts
Generation == 0 .. MaxAttempts + 1
Row        == [status: Status \cup {"none"}, attempts: Attempts, enqueued: BOOLEAN]
NoRow      == [status |-> "none", attempts |-> 0, enqueued |-> FALSE]
JobId      == Events \X Generation          \* stripe-webhook:{event}:{generation}

VARIABLES
    row,       \* the stripe_webhook_events table
    api,       \* the request handlers
    worker,    \* the worker slots
    waiting,   \* arq job ids in the queue that no worker holds
    results,   \* arq job ids whose result key is still kept
    tries,     \* arq's retry counter of each job id
    handled,   \* events whose billing handler completed at least once
    acked,     \* events Stripe got a 2xx for, so it stops redelivering them
    faults     \* faults that may still strike

vars == <<row, api, worker, waiting, results, tries, handled, acked, faults>>

IdleApi    == [pc |-> "idle"]
IdleWorker == [pc |-> "idle"]

ApiStep    == {"insert", "created", "commit", "enqueue", "queue_error", "unqueue"}
WorkerStep == {"mark", "handle", "succeed", "rollback", "fail", "retry", "return"}

ApiState == {IdleApi} \cup
    [pc: ApiStep, event: Events, seen: Row, generation: Generation, admin: BOOLEAN]
WorkerState == {IdleWorker} \cup
    [pc: WorkerStep, event: Events, generation: Generation, try: 1 .. MaxTries, seen: Row]

TypeOK ==
    /\ row \in [Events -> Row]
    /\ api \in [Api -> ApiState]
    /\ worker \in [Workers -> WorkerState]
    /\ waiting \subseteq JobId
    /\ results \subseteq JobId
    /\ tries \in [JobId -> 0 .. MaxTries]
    /\ handled \subseteq Events
    /\ acked \subseteq Events
    /\ faults \in [FaultKind -> Nat]

Init ==
    /\ row = [e \in Events |-> NoRow]
    /\ api = [a \in Api |-> IdleApi]
    /\ worker = [w \in Workers |-> IdleWorker]
    /\ waiting = {}
    /\ results = {}
    /\ tries = [j \in JobId |-> 0]
    /\ handled = {}
    /\ acked = {}
    /\ faults = FaultBudget

-----------------------------------------------------------------------------
(* Sessions, rows and the queue.                                           *)

\* What an UPDATE leaves in one column: the session loaded "seen" and assigned
\* "new"; SQLAlchemy writes the column only if the two differ.
Dirty(old, seen, new) == IF new = seen THEN old ELSE new

JobOf(w) == <<worker[w].event, worker[w].generation>>
Held     == {JobOf(w) : w \in {x \in Workers : worker[x].pc # "idle"}}
Alive    == waiting \cup Held
Known    == Alive \cup results       \* enqueue_job returns None for these

Spend(kind) ==
    /\ faults[kind] > 0
    /\ faults' = [faults EXCEPT ![kind] = @ - 1]

-----------------------------------------------------------------------------
(* API handlers: POST /v1/billing/webhook and the administrator's retry.   *)

\* A bug OnlyLateWritersReopen catches: a redelivery of a settled event is taken up again.
SettledIfActive(r) == r.status \in ActiveStatus /\ r.enqueued

\* A redelivery that accept_verified_event answers without touching the row.
Settled(r) == r.status = "succeeded" \/ (r.status \in ActiveStatus /\ r.enqueued)

\* The handler goes on to _enqueue_receipt with the row it loaded.
Requeue(e, r, generation, admin) ==
    [pc |-> "commit", event |-> e, seen |-> r, generation |-> generation, admin |-> admin]

\* _create_event found a row: answer at once, or requeue the receipt.
AcceptExisting(a, e) ==
    IF Settled(row[e])
    THEN /\ acked' = acked \cup {e}
         /\ api' = [api EXCEPT ![a] = IdleApi]
    ELSE /\ api' = [api EXCEPT ![a] = Requeue(e, row[e], row[e].attempts, FALSE)]
         /\ UNCHANGED acked

\* A bug ImplementsInbox catches: the answer goes out before the receipt is stored.
DeliverConfirmed(a, e) ==
    /\ api[a].pc = "idle"
    /\ acked' = acked \cup {e}
    /\ api' = [api EXCEPT ![a] = [pc |-> "insert", event |-> e, seen |-> NoRow,
                                  generation |-> 0, admin |-> FALSE]]
    /\ UNCHANGED <<row, worker, waiting, results, tries, handled, faults>>

\* Stripe delivers the event, for the first time or again.
Deliver(a, e) ==
    /\ api[a].pc = "idle"
    /\ IF row[e].status = "none"
       THEN /\ api' = [api EXCEPT ![a] = [pc |-> "insert", event |-> e, seen |-> NoRow,
                                          generation |-> 0, admin |-> FALSE]]
            /\ UNCHANGED acked
       ELSE AcceptExisting(a, e)
    /\ UNCHANGED <<row, worker, waiting, results, tries, handled, faults>>

\* The INSERT commits, or another delivery was first (IntegrityError) and the
\* handler reads that row instead.
Insert(a) ==
    LET e == api[a].event IN
    /\ api[a].pc = "insert"
    /\ IF row[e].status = "none"
       THEN /\ row' = [row EXCEPT ![e].status = "queued"]
            /\ api' = [api EXCEPT ![a].pc = "created"]
            /\ UNCHANGED acked
       ELSE /\ AcceptExisting(a, e)
            /\ UNCHANGED row
    /\ UNCHANGED <<worker, waiting, results, tries, handled, faults>>

\* The refresh after the INSERT.  The creator skips the duplicate check.
RefreshCreated(a) ==
    LET e == api[a].event IN
    /\ api[a].pc = "created"
    /\ IF row[e].status = "succeeded"
       THEN /\ acked' = acked \cup {e}
            /\ api' = [api EXCEPT ![a] = IdleApi]
       ELSE /\ api' = [api EXCEPT ![a] = Requeue(e, row[e], row[e].attempts, FALSE)]
            /\ UNCHANGED acked
    /\ UNCHANGED <<row, worker, waiting, results, tries, handled, faults>>

\* A bug RecordedIsRecovered catches: stale active receipts cannot be requeued.
RetryableIfFailed(e) == row[e].status = "failed"

\* webhook_event_is_retryable: failed, or active and not written for a while, which
\* the receipt of a job that waits or runs behind a slow call is too.
Retryable(e) == row[e].status = "failed" \/ row[e].status \in ActiveStatus

\* What the administrator makes of it: an eager one requeues whatever the API lets
\* him, a patient one waits until no job of an active receipt is left.
Requeues(e) ==
    \/ Operator = "eager"
    \/ /\ Operator = "patient"
       /\ row[e].status \in ActiveStatus => \A j \in Alive : j[1] # e

\* POST /v1/admin/stripe-webhooks/{event_id}/retry
AdminRetry(a, e) ==
    /\ api[a].pc = "idle"
    /\ Retryable(e)
    /\ Requeues(e)
    /\ api' = [api EXCEPT ![a] = Requeue(e, row[e], row[e].attempts + 1, TRUE)]
    /\ UNCHANGED <<row, worker, waiting, results, tries, handled, acked, faults>>

\* _enqueue_receipt commits the queue state before Redis sees the job.
CommitQueued(a) ==
    LET e == api[a].event IN
    /\ api[a].pc = "commit"
    /\ row' = [row EXCEPT ![e].status = Dirty(@, api[a].seen.status, "queued"),
                          ![e].enqueued = TRUE]
    /\ api' = [api EXCEPT ![a].pc = "enqueue"]
    /\ UNCHANGED <<worker, waiting, results, tries, handled, acked, faults>>

\* A bug JobsAreHeldOnce catches: the job goes out without an id of its own, so
\* Redis takes it whatever it knows.
PushAgain(a) == waiting' = waiting \cup {<<api[a].event, api[a].generation>>}

\* Redis takes the job unless its id is already known; the caller cannot tell
\* the difference and Stripe gets its 2xx either way.
Push(a) == waiting' = waiting \cup ({<<api[a].event, api[a].generation>>} \ Known)

Enqueue(a) ==
    /\ api[a].pc = "enqueue"
    /\ Push(a)
    /\ acked' = IF api[a].admin THEN acked ELSE acked \cup {api[a].event}
    /\ api' = [api EXCEPT ![a] = IdleApi]
    /\ UNCHANGED <<row, worker, results, tries, handled, faults>>

\* The enqueue raises; the job may have reached Redis all the same.
EnqueueError(a) ==
    /\ api[a].pc = "enqueue"
    /\ Spend("queue")
    /\ Push(a) \/ UNCHANGED waiting
    /\ api' = [api EXCEPT ![a].pc = "queue_error"]
    /\ UNCHANGED <<row, worker, results, tries, handled, acked>>

\* The except branch refreshes the receipt, and gives up if it succeeded.
RefreshAfterError(a) ==
    LET e == api[a].event IN
    /\ api[a].pc = "queue_error"
    /\ api' = [api EXCEPT ![a] = IF row[e].status = "succeeded" THEN IdleApi
                                 ELSE [@ EXCEPT !.pc = "unqueue", !.seen = row[e]]]
    /\ UNCHANGED <<row, worker, waiting, results, tries, handled, acked, faults>>

\* It clears enqueued_at (and fails a receipt the administrator requeued),
\* commits and answers with an error, so Stripe delivers again.
CommitUnqueued(a) ==
    LET e == api[a].event
        seen == api[a].seen IN
    /\ api[a].pc = "unqueue"
    /\ row' = [row EXCEPT ![e].enqueued = Dirty(@, seen.enqueued, FALSE),
                          ![e].status = IF api[a].admin THEN Dirty(@, seen.status, "failed")
                                        ELSE @]
    /\ api' = [api EXCEPT ![a] = IdleApi]
    /\ UNCHANGED <<worker, waiting, results, tries, handled, acked, faults>>

\* The API process dies, or the database refuses a statement: no answer.
ApiCrash(a) ==
    /\ api[a].pc # "idle"
    /\ Spend("api")
    /\ api' = [api EXCEPT ![a] = IdleApi]
    /\ UNCHANGED <<row, worker, waiting, results, tries, handled, acked>>

-----------------------------------------------------------------------------
(* Workers: process_stripe_webhook_job under arq.                          *)

\* A job out of tries, or whose receipt is missing or done, just ends.
Runs(j) == tries[j] < MaxTries /\ row[j[1]].status \notin {"none", "succeeded"}

\* arq takes a job, counts the try and calls the function, which loads the row.
StartJob(w, j) ==
    /\ worker[w].pc = "idle"
    /\ j \in waiting
    /\ waiting' = waiting \ {j}
    /\ IF Runs(j)
       THEN /\ tries' = [tries EXCEPT ![j] = @ + 1]
            /\ worker' = [worker EXCEPT ![w] =
                            [pc |-> "mark", event |-> j[1], generation |-> j[2],
                             try |-> tries[j] + 1, seen |-> row[j[1]]]]
            /\ UNCHANGED results
       ELSE /\ results' = results \cup {j}
            /\ tries' = [tries EXCEPT ![j] = 0]
            /\ UNCHANGED worker
    /\ UNCHANGED <<row, api, handled, acked, faults>>

\* mark_processing; attempts is computed from the loaded value.
MarkProcessing(w) ==
    LET e == worker[w].event
        seen == worker[w].seen IN
    /\ worker[w].pc = "mark"
    /\ seen.attempts < MaxAttempts
    /\ row' = [row EXCEPT ![e].status = Dirty(@, seen.status, "processing"),
                          ![e].attempts = seen.attempts + 1]
    /\ worker' = [worker EXCEPT ![w].pc = "handle"]
    /\ UNCHANGED <<api, waiting, results, tries, handled, acked, faults>>

\* The refresh after mark_processing, then the billing handler's own commits.
Handle(w) ==
    LET e == worker[w].event IN
    /\ worker[w].pc = "handle"
    /\ handled' = handled \cup {e}
    /\ worker' = [worker EXCEPT ![w].pc = "succeed", ![w].seen = row[e]]
    /\ UNCHANGED <<row, api, waiting, results, tries, acked, faults>>

\* A bug InboxInv catches: the handler's exception is swallowed.
HandlerErrorSwallowed(w) ==
    /\ worker[w].pc = "handle"
    /\ Spend("handler")
    /\ worker' = [worker EXCEPT ![w].pc = "succeed", ![w].seen = row[worker[w].event]]
    /\ UNCHANGED <<row, api, waiting, results, tries, handled, acked>>

\* The handler raises (Stripe or database error).
HandlerError(w) ==
    /\ worker[w].pc = "handle"
    /\ Spend("handler")
    /\ worker' = [worker EXCEPT ![w].pc = "rollback"]
    /\ UNCHANGED <<row, api, waiting, results, tries, handled, acked>>

MarkSucceeded(w) ==
    /\ worker[w].pc = "succeed"
    /\ row' = [row EXCEPT ![worker[w].event].status =
                             Dirty(@, worker[w].seen.status, "succeeded")]
    /\ worker' = [worker EXCEPT ![w].pc = "return"]
    /\ UNCHANGED <<api, waiting, results, tries, handled, acked, faults>>

\* rollback expires the session, so get_event reads the row again.
Reload(w) ==
    /\ worker[w].pc = "rollback"
    /\ worker' = [worker EXCEPT ![w].pc = "fail", ![w].seen = row[worker[w].event]]
    /\ UNCHANGED <<row, api, waiting, results, tries, handled, acked, faults>>

\* A bug ActiveHasCarrier catches: mark_retrying, but Retry is not raised.
MarkFailureOnly(w) ==
    LET last == worker[w].try >= MaxTries IN
    /\ worker[w].pc = "fail"
    /\ row' = [row EXCEPT ![worker[w].event].status =
                  Dirty(@, worker[w].seen.status, IF last THEN "failed" ELSE "retrying")]
    /\ worker' = [worker EXCEPT ![w].pc = "return"]
    /\ UNCHANGED <<api, waiting, results, tries, handled, acked, faults>>

\* mark_retrying and raise Retry while tries remain, else mark_failed.
MarkFailure(w) ==
    LET last == worker[w].try >= MaxTries IN
    /\ worker[w].pc = "fail"
    /\ row' = [row EXCEPT ![worker[w].event].status =
                  Dirty(@, worker[w].seen.status, IF last THEN "failed" ELSE "retrying")]
    /\ worker' = [worker EXCEPT ![w].pc = IF last THEN "return" ELSE "retry"]
    /\ UNCHANGED <<api, waiting, results, tries, handled, acked, faults>>

\* The function returned: arq deletes the job and keeps its result.
FinishJob(w) ==
    /\ worker[w].pc = "return"
    /\ results' = results \cup {JobOf(w)}
    /\ tries' = [tries EXCEPT ![JobOf(w)] = 0]
    /\ worker' = [worker EXCEPT ![w] = IdleWorker]
    /\ UNCHANGED <<row, api, waiting, handled, acked, faults>>

\* A bug ConfirmedIsSettled catches: the job to retry does not stay in the queue.
DeferJobLost(w) ==
    /\ worker[w].pc = "retry"
    /\ worker' = [worker EXCEPT ![w] = IdleWorker]
    /\ UNCHANGED <<row, api, waiting, results, tries, handled, acked, faults>>

\* Retry: arq leaves the job in the queue for a later try.
DeferJob(w) ==
    /\ worker[w].pc = "retry"
    /\ waiting' = waiting \cup {JobOf(w)}
    /\ worker' = [worker EXCEPT ![w] = IdleWorker]
    /\ UNCHANGED <<row, api, results, tries, handled, acked, faults>>

\* The worker process dies or shuts down: the job is still in the queue.
WorkerCrash(w) ==
    /\ worker[w].pc # "idle"
    /\ Spend("worker")
    /\ waiting' = waiting \cup {JobOf(w)}
    /\ worker' = [worker EXCEPT ![w] = IdleWorker]
    /\ UNCHANGED <<row, api, results, tries, handled, acked>>

\* job_timeout, or an exception the function does not turn into Retry: arq
\* records a failed result and drops the job; the row stays as it was.
AbortJob(w) ==
    /\ worker[w].pc \notin {"idle", "return", "retry"}
    /\ Spend("abort")
    /\ results' = results \cup {JobOf(w)}
    /\ tries' = [tries EXCEPT ![JobOf(w)] = 0]
    /\ worker' = [worker EXCEPT ![w] = IdleWorker]
    /\ UNCHANGED <<row, api, waiting, handled, acked>>

\* The job's data left Redis before a worker took it (_expires): arq ends the job
\* with a failed result and the receipt stays as it was.
ExpireJob(j) ==
    /\ j \in waiting
    /\ Spend("expire")
    /\ waiting' = waiting \ {j}
    /\ results' = results \cup {j}
    /\ tries' = [tries EXCEPT ![j] = 0]
    /\ UNCHANGED <<row, api, worker, handled, acked>>

\* keep_result passed: the job id may be used again.
ExpireResult(j) ==
    /\ j \in results
    /\ results' = results \ {j}
    /\ UNCHANGED <<row, api, worker, waiting, tries, handled, acked, faults>>

-----------------------------------------------------------------------------
ApiProgress(a) ==
    \/ Insert(a) \/ RefreshCreated(a) \/ CommitQueued(a) \/ Enqueue(a)
    \/ RefreshAfterError(a) \/ CommitUnqueued(a)

WorkerProgress(w) ==
    \/ \E j \in JobId : StartJob(w, j)
    \/ MarkProcessing(w) \/ Handle(w) \/ MarkSucceeded(w)
    \/ Reload(w) \/ MarkFailure(w) \/ FinishJob(w) \/ DeferJob(w)

Next ==
    \/ \E a \in Api :
        \/ \E e \in Events : Deliver(a, e) \/ AdminRetry(a, e)
        \/ ApiProgress(a)
        \/ EnqueueError(a)
        \/ ApiCrash(a)
    \/ \E w \in Workers :
        \/ WorkerProgress(w)
        \/ HandlerError(w)
        \/ WorkerCrash(w)
        \/ AbortJob(w)
    \/ \E j \in JobId : ExpireJob(j) \/ ExpireResult(j)

Spec == Init /\ [][Next]_vars

-----------------------------------------------------------------------------
(* Safety.                                                                 *)

Recorded == {e \in Events : row[e].status # "none"}
Reported == {e \in Events : row[e].status = "succeeded"}

\* The receipt comes first: whatever promises an event (a job Redis may hand to
\* a fast worker, the 2xx that stops Stripe's redeliveries, a completed handler)
\* exists only once the receipt is committed, so process_stripe_webhook_job
\* never skips a confirmed event as "missing".
ReceiptFirst ==
    /\ \A j \in Known : j[1] \in Recorded
    /\ acked \subseteq Recorded
    /\ handled \subseteq Recorded

\* A receipt says succeeded only if the billing handler completed for its event,
\* whichever stale copies of the row the other sessions flush afterwards.
SucceededWasHandled ==
    \A e \in Events : row[e].status = "succeeded" => e \in handled

\* The inductive form of the two: a request past its INSERT has a receipt, and a
\* worker about to mark success has completed the handler.
InboxInv ==
    /\ ReceiptFirst
    /\ SucceededWasHandled
    /\ \A a \in Api : api[a].pc \notin {"idle", "insert"} => api[a].event \in Recorded
    /\ \A w \in Workers : worker[w].pc = "succeed" => worker[w].event \in handled

JobsOf(e) == {j \in Alive : j[1] = e}

\* An active receipt that claims to be enqueued has someone to move it on: a job
\* that is alive or a request handler that is still dealing with the event.
ActiveHasCarrier ==
    \A e \in Events :
        (row[e].status \in ActiveStatus /\ row[e].enqueued) =>
            \/ JobsOf(e) # {}
            \/ \E a \in Api : api[a].pc # "idle" /\ api[a].event = e

\* A job id is in one place: in the queue, in the hands of one worker, or kept as a
\* result, and its worker's try is the one arq counted.  Deliveries that agree on
\* the generation thus never run the billing handler at the same time, whatever
\* is delivered twice, retried, requeued, aborted or left behind by a crash.
JobsAreHeldOnce ==
    /\ waiting \cap results = {}
    /\ \A w \in Workers : worker[w].pc # "idle" =>
          JobOf(w) \notin waiting \cup results /\ tries[JobOf(w)] = worker[w].try
    /\ \A v, w \in Workers :
          v # w /\ worker[v].pc # "idle" /\ worker[w].pc # "idle" => JobOf(v) # JobOf(w)
    /\ \A j \in JobId : j \notin Alive => tries[j] = 0

\* No flush takes a receipt out of succeeded but one of a session that loaded it before
\* it succeeded (a delivery's, an administrator's or a second job's: the comment of
\* _enqueue_receipt hopes that none is left), or the failure of a second job, which
\* process_stripe_webhook_job records without looking at what it reads back.  A
\* delivery, a retry or a job that starts later leaves the success alone.
OnlyLateWritersReopen ==
    [][\A e \in Events : row[e].status = "succeeded" /\ row'[e].status # "succeeded" =>
          \/ \E a \in Api : /\ api[a].pc \in {"commit", "unqueue"} /\ api[a].event = e
                            /\ api[a].seen.status # "succeeded"
          \/ \E w \in Workers : /\ worker[w].pc = "mark" /\ worker[w].event = e
                                /\ worker[w].seen.status # "succeeded"
          \/ \E w \in Workers : worker[w].pc = "fail" /\ worker[w].event = e]_vars

\* The inbox implements its abstract specification.
Inbox == INSTANCE DurableInbox WITH
    recorded  <- Recorded,
    completed <- handled,
    confirmed <- acked,
    reported  <- Reported

ImplementsInbox == Inbox!InboxSpec

-----------------------------------------------------------------------------
(* Liveness.                                                               *)

\* Handlers and workers take their next step (an asyncio task is eventually
\* scheduled and its round trips return or raise; faults are bounded), arq keeps
\* polling the queue, and result keys expire.
ProgressFairness ==
    /\ \A a \in Api : WF_vars(ApiProgress(a))
    /\ \A w \in Workers : WF_vars(WorkerProgress(w))

\* Stripe redelivers what was not confirmed, and an operator follows the stale
\* and failed webhook alerts.
RecoveryFairness ==
    /\ \A e \in Events :
        /\ SF_vars(\E a \in Api : e \notin acked /\ Deliver(a, e))
        /\ SF_vars(\E a \in Api : AdminRetry(a, e))
    /\ \A j \in JobId : WF_vars(ExpireResult(j))

FairSpec    == Spec /\ ProgressFairness
RecoverSpec == Spec /\ ProgressFairness /\ RecoveryFairness

\* An event Stripe will not deliver again is eventually settled: its receipt
\* succeeds, or fails visibly after the last try.
ConfirmedIsSettled ==
    \A e \in Events : e \in acked ~> row[e].status \in {"succeeded", "failed"}

\* Once recorded, an event is eventually handled and its receipt stays succeeded,
\* through crashes, timeouts, queue outages and failing handlers.
RecordedIsRecovered ==
    \A e \in Events : (e \in Recorded) ~> [](row[e].status = "succeeded")
=============================================================================
