------------------------------ MODULE UsageLedger ------------------------------
(***************************************************************************)
(* One week of a buyer's metered calls: the gateway writes a usage log per *)
(* call or hands it to the worker's queue, and on the Monday after, hourly *)
(* scheduler runs turn the week's logs into Stripe invoice items, one      *)
(* invoice, and a usage transaction per tool, under a lock with a lifetime *)
(* and a completion key.                                                   *)
(*                                                                         *)
(* A call that is charged costs one unit; free calls bill nothing and are  *)
(* left out. Every Stripe call carries an idempotency key, so a repetition *)
(* gets the first answer again; a Stripe call that takes effect and raises *)
(* is the step followed by RunRaises.                                      *)
(***************************************************************************)
EXTENDS Naturals, FiniteSets

CONSTANTS
    Tools,        \* metered tools of other sellers
    Calls,        \* gateway calls of the buyer in the week
    Runs,         \* schedulers: the worker's cron, the loop in the API
    MaxTries,     \* worker_job_max_attempts
    MaxFaults     \* bound of the model on the faults that may strike

ASSUME TriesAssumption  == MaxTries \in Nat \ {0}
ASSUME FaultsAssumption == MaxFaults \in Nat
ASSUME NamesAssumption  == "free" \notin Runs
ASSUME CallsAssumption  == IsFiniteSet(Calls)

VARIABLES
    monday,    \* the week of the calls is over, and it is the Monday after it
    call,      \* the gateway's request handlers
    job,       \* their usage-log jobs in arq
    rows,      \* usage_logs: how many rows a call has
    reported,  \* calls whose loss was given to send_alert, which does what it can
    run,       \* the schedulers, with what their sessions loaded
    lock,      \* the holder of the lock key, or "free"
    done,      \* the completion key of the week
    item,      \* Stripe: the amount invoiced per tool, pending or on the invoice
    invoice,   \* Stripe: the week's invoice
    event,     \* the webhook events about it
    handler,   \* the worker that handles one of them
    tx,        \* the usage transactions
    summed,    \* history: a scheduler has read the week's logs
    late,      \* history: a log was stored after that
    faults     \* faults that struck so far

ledgerVars == <<call, job, rows, reported, late>>
stripeVars == <<item, invoice, event>>
usageVars  == <<monday, call, job, rows, reported, run, lock, done, item, invoice,
                event, handler, tx, summed, late, faults>>

NoTx     == [amount |-> 0, status |-> "none"]
IdleRun  == [pc |-> "idle", sums |-> [t \in Tools |-> 0], todo |-> {}, seen |-> "none",
             loaded |-> [t \in Tools |-> "none"], lapsed |-> FALSE]
NoEvent  == [kind |-> "none", loaded |-> [t \in Tools |-> "none"]]

UsageInit ==
    /\ monday = FALSE
    /\ call = [c \in Calls |-> [pc |-> "idle", tool |-> "none"]]
    /\ job = [c \in Calls |-> [pc |-> "none", tries |-> 0]]
    /\ rows = [c \in Calls |-> 0]
    /\ reported = {}
    /\ run = [r \in Runs |-> IdleRun]
    /\ lock = "free"
    /\ done = FALSE
    /\ item = [t \in Tools |-> 0]
    /\ invoice = [status |-> "none", items |-> {}, paid |-> "none"]
    /\ event = {}
    /\ handler = NoEvent
    /\ tx = [t \in Tools |-> NoTx]
    /\ summed = FALSE /\ late = FALSE
    /\ faults = 0

Fault == faults < MaxFaults /\ faults' = faults + 1

-------------------------------------------------------------------------------
(* The gateway and the usage-log job.                                      *)

CallMoves(c, from, to) == call[c].pc = from /\ call' = [call EXCEPT ![c].pc = to]

\* The INSERT under the id the gateway chose for the call.
Insert(c) ==
    /\ rows[c] = 0
    /\ rows' = [rows EXCEPT ![c] = @ + 1]
    /\ late' = (late \/ summed)

\* persist_usage_log: the row is stored, or found after the commit raised; or it
\* raises, and the row may be stored all the same. Nobody else writes the row
\* meanwhile, so that this is one step.
Persisted(c) ==
    /\ Insert(c) \/ (rows[c] > 0 /\ UNCHANGED <<rows, late>>)
    /\ UNCHANGED faults
PersistRaises(c) == Fault /\ (Insert(c) \/ UNCHANGED <<rows, late>>)

\* The tool was called and answered.
Call(c, t) ==
    /\ ~monday /\ call[c].pc = "idle"
    /\ call' = [call EXCEPT ![c] = [pc |-> "store", tool |-> t]]
    /\ UNCHANGED <<monday, job, rows, reported, run, lock, done, stripeVars, handler, tx,
                   summed, late, faults>>

StoreLog(c) ==
    \/ CallMoves(c, "store", "answered") /\ Persisted(c) /\ UNCHANGED <<job, reported>>
    \/ CallMoves(c, "store", "queue") /\ PersistRaises(c) /\ UNCHANGED <<job, reported>>

\* A bug CallsAreKept catches: the queue's error is only logged.
QueueLogQuietly(c) ==
    /\ CallMoves(c, "queue", "answered")
    /\ \/ job' = [job EXCEPT ![c] = [pc |-> "waiting", tries |-> 0]] /\ UNCHANGED faults
       \/ Fault /\ UNCHANGED job
    /\ UNCHANGED <<rows, reported, late>>

\* The fallback queue; when it raises the loss is reported, although it may have the job.
QueueLog(c) ==
    LET queued == [job EXCEPT ![c] = [pc |-> "waiting", tries |-> 0]]
    IN /\ CallMoves(c, "queue", "answered")
       /\ \/ job' = queued /\ UNCHANGED <<reported, faults>>
          \/ job' \in {queued, job} /\ reported' = reported \union {c} /\ Fault
       /\ UNCHANGED <<rows, late>>

\* The API process dies before the call is answered.
ApiCrash(c) ==
    /\ call[c].pc \in {"store", "queue"} /\ Fault
    /\ call' = [call EXCEPT ![c].pc = "gone"]
    /\ UNCHANGED <<job, rows, reported, late>>

JobMoves(c, pc) == job' = [job EXCEPT ![c] = [pc |-> pc, tries |-> @.tries + 1]]

\* One try of the job: it stores the log; or it raises, to be retried or reported; or
\* its worker dies and arq keeps it; or its time is up and arq drops it.
TryJob(c) ==
    /\ job[c].pc = "waiting" /\ job[c].tries < MaxTries
    /\ \/ Persisted(c) /\ JobMoves(c, "over") /\ UNCHANGED reported
       \/ /\ PersistRaises(c) /\ job[c].tries + 1 < MaxTries
          /\ JobMoves(c, "waiting") /\ UNCHANGED reported
       \/ /\ PersistRaises(c) /\ job[c].tries + 1 = MaxTries
          /\ JobMoves(c, "over") /\ reported' = reported \union {c}
       \/ /\ PersistRaises(c) /\ UNCHANGED reported
          /\ JobMoves(c, "waiting") \/ JobMoves(c, "dropped")

\* arq gives up a job that has no try left, without running it.
DropJob(c) ==
    /\ job[c].pc = "waiting" /\ job[c].tries = MaxTries
    /\ job' = [job EXCEPT ![c].pc = "dropped"]
    /\ UNCHANGED <<rows, reported, late, faults>>

LogStep(c) ==
    /\ \/ StoreLog(c) \/ QueueLog(c) \/ ApiCrash(c)
       \/ (TryJob(c) \/ DropJob(c)) /\ UNCHANGED call
    /\ UNCHANGED <<monday, run, lock, done, stripeVars, handler, tx, summed>>

-------------------------------------------------------------------------------
(* The scheduler: completion key, lock, weekly invoicing, release.         *)

RunMoves(r, from, to) == run[r].pc = from /\ run' = [run EXCEPT ![r].pc = to]

\* The same, with nothing left in the session or the hand.
RunLeaves(r, from, to) ==
    run[r].pc = from /\ run' = [run EXCEPT ![r] = [IdleRun EXCEPT !.pc = to, !.lapsed = run[r].lapsed]]

TaskSteps == {"users", "existing", "sum", "items", "create", "commit", "retrieve",
              "finalize", "pay", "load", "sync", "complete"}
InTask(r) == run[r].pc \in TaskSteps

\* The hourly run on a Monday, when the week is not complete.
BeginRun(r) ==
    /\ monday /\ ~done
    /\ RunMoves(r, "idle", "lock")
    /\ UNCHANGED <<lock, done>>

\* SET NX of the run's token, or another run has the lock.
Acquire(r) ==
    /\ run[r].pc = "lock"
    /\ IF lock = "free"
       THEN lock' = r /\ run' = [run EXCEPT ![r] = [IdleRun EXCEPT !.pc = "recheck"]]
       ELSE RunMoves(r, "lock", "idle") /\ UNCHANGED lock
    /\ UNCHANGED done

Recheck(r) == RunMoves(r, "recheck", IF done THEN "release" ELSE "users") /\ UNCHANGED <<lock, done>>

Complete(r) == RunMoves(r, "complete", "release") /\ done' = TRUE /\ UNCHANGED lock

\* A bug LeaseIsHeld catches: the key is deleted, whose token it may have.
ReleaseAny(r) == RunMoves(r, "release", "idle") /\ lock' = "free" /\ UNCHANGED done

\* The release script compares the token.
Release(r) ==
    /\ RunMoves(r, "release", "idle")
    /\ lock' = IF lock = r THEN "free" ELSE lock
    /\ UNCHANGED done

\* An error of the task, a database's or Stripe's: rolled back, raised, released.
RunRaises(r) == InTask(r) /\ RunLeaves(r, run[r].pc, "release") /\ UNCHANGED <<lock, done>>

LockStep(r) ==
    /\ \/ (BeginRun(r) \/ Acquire(r) \/ Recheck(r) \/ Complete(r) \/ Release(r)) /\ UNCHANGED faults
       \/ RunRaises(r) /\ Fault
    /\ UNCHANGED <<monday, ledgerVars, stripeVars, handler, tx, summed>>

\* The process dies: its lock stays until it expires.
RunCrash(r) ==
    /\ run[r].pc # "idle" /\ Fault
    /\ RunLeaves(r, run[r].pc, "idle")
    /\ UNCHANGED <<monday, ledgerVars, lock, done, stripeVars, handler, tx, summed>>

\* A bug UsageSettles catches: SET NX without a lifetime.
LockNeverExpires == lock # "free" /\ FALSE /\ UNCHANGED usageVars

\* The lock's lifetime ends, also under a run that takes longer.
LockExpires ==
    /\ lock # "free" /\ lock' = "free"
    /\ IF run[lock].pc \in {"idle", "lock"}
       THEN UNCHANGED <<run, faults>>
       ELSE run' = [run EXCEPT ![lock].lapsed = TRUE] /\ Fault
    /\ UNCHANGED <<monday, ledgerVars, done, stripeVars, handler, tx, summed>>

-------------------------------------------------------------------------------
(* create_usage_invoice.                                                   *)

CallsOf(t) == {c \in Calls : call[c].tool = t}

\* The usage logs of a tool: as many for each call as it has rows.
Logs(t) == UNION {{c} \X (1 .. rows[c]) : c \in CallsOf(t)}

\* The cost of a tool's logs, and of the calls made to it.
Usage(t) == Cardinality(Logs(t))
Made(t)  == Cardinality(CallsOf(t))

Recorded == {t \in Tools : tx[t].status # "none"}
Billable(r) == {t \in Tools : run[r].sums[t] > 0}

\* The users with logs in the week: the buyer, or nobody.
Users(r) ==
    \/ /\ \E c \in Calls : rows[c] > 0
       /\ RunMoves(r, "users", "existing") /\ UNCHANGED summed
    \/ /\ \A c \in Calls : rows[c] = 0
       /\ RunMoves(r, "users", "complete") /\ summed' = TRUE

\* _existing_usage_invoice: one of the recorded transactions, to settle its invoice, or
\* none, to invoice the week. The session keeps what it read of it.
Existing(r) ==
    \/ Recorded = {} /\ RunMoves(r, "existing", "sum")
    \/ \E t \in Recorded :
           /\ run[r].pc = "existing"
           /\ run' = [run EXCEPT ![r].pc = "retrieve",
                                 ![r].loaded = [IdleRun.loaded EXCEPT ![t] = tx[t].status]]

Sum(r) ==
    /\ run[r].pc = "sum"
    /\ LET sums == [t \in Tools |-> Usage(t)]
           todo == {t \in Tools : sums[t] > 0}
       IN run' = [run EXCEPT ![r].sums = sums, ![r].todo = todo,
                             ![r].pc = IF todo = {} THEN "complete" ELSE "items"]

\* A bug LedgerIsInvoice catches: an item without an idempotency key.
CreateItemAgain(r, t) ==
    /\ run[r].pc = "items" /\ t \in run[r].todo
    /\ item' = [item EXCEPT ![t] = @ + run[r].sums[t]]
    /\ run' = [run EXCEPT ![r].todo = @ \ {t},
                          ![r].pc = IF run[r].todo = {t} THEN "create" ELSE "items"]
    /\ UNCHANGED <<invoice, event>>

\* InvoiceItem.create: the key of another amount is an error.
CreateItem(r, t) ==
    /\ run[r].pc = "items" /\ t \in run[r].todo
    /\ LET amount == run[r].sums[t]
           rest == run[r].todo \ {t}
       IN IF item[t] \in {0, amount}
          THEN /\ item' = [item EXCEPT ![t] = amount]
               /\ run' = [run EXCEPT ![r].todo = rest,
                                     ![r].pc = IF rest = {} THEN "create" ELSE "items"]
          ELSE RunLeaves(r, "items", "release") /\ UNCHANGED item
    /\ UNCHANGED <<invoice, event>>

\* Invoice.create takes the pending items in; a repetition answers the first draft.
CreateInvoice(r) ==
    /\ run[r].pc = "create"
    /\ run' = [run EXCEPT ![r].pc = "commit", ![r].seen = "draft"]
    /\ invoice' = IF invoice.status # "none" THEN invoice
                  ELSE [invoice EXCEPT !.status = "draft", !.items = {t \in Tools : item[t] > 0}]
    /\ UNCHANGED <<item, event>>

\* The INSERTs of the week's transactions; the unique index leaves one winner, whose
\* transactions the others look up.
CommitTransactions(r) ==
    /\ run[r].pc = "commit"
    /\ IF Billable(r) \intersect Recorded = {}
       THEN /\ tx' = [t \in Tools |-> IF t \in Billable(r)
                                      THEN [amount |-> run[r].sums[t], status |-> "pending"]
                                      ELSE tx[t]]
            /\ run' = [run EXCEPT ![r].pc = "finalize",
                                  ![r].loaded = [t \in Tools |-> tx'[t].status]]
       ELSE RunLeaves(r, "commit", "existing") /\ UNCHANGED tx

-------------------------------------------------------------------------------
(* _settle_usage_invoice and _sync_usage_invoice_transactions.             *)

\* Invoice.retrieve: a draft is finalized, an open invoice is paid.
Retrieve(r) ==
    /\ run[r].pc = "retrieve"
    /\ run' = [run EXCEPT ![r].seen = invoice.status,
                          ![r].pc = IF invoice.status = "draft" THEN "finalize"
                                    ELSE IF invoice.status = "open" THEN "pay" ELSE "load"]
    /\ UNCHANGED stripeVars

\* Invoice.finalize_invoice: a repetition answers open again.
Finalize(r) ==
    /\ run[r].pc = "finalize"
    /\ run' = [run EXCEPT ![r].seen = "open", ![r].pc = "pay"]
    /\ invoice' = [invoice EXCEPT !.status = IF @ = "draft" THEN "open" ELSE @]
    /\ UNCHANGED <<item, event>>

\* After the payment: the recorded rows are loaded, one's own are in the session.
AfterPay(r) == IF Billable(r) = {} THEN "load" ELSE "sync"

\* Invoice.pay: collected, declined (a CardError is caught), or as the first time;
\* an error if Stripe or the merchant closed the invoice before.
Pay(r) ==
    /\ run[r].pc = "pay"
    /\ \/ /\ invoice.paid = "none" /\ invoice.status = "open"
          /\ invoice' = [invoice EXCEPT !.status = "paid", !.paid = "paid"]
          /\ event' = event \union {"paid"}
          /\ run' = [run EXCEPT ![r].seen = "paid", ![r].pc = AfterPay(r)]
          /\ UNCHANGED faults
       \/ /\ invoice.paid = "none" /\ invoice.status = "open" /\ Fault
          /\ invoice' = [invoice EXCEPT !.paid = "declined"]
          /\ event' = event \union {"payment_failed"}
          /\ RunMoves(r, "pay", AfterPay(r))
       \/ /\ invoice.paid = "none" /\ invoice.status # "open"
          /\ RunLeaves(r, "pay", "release") /\ UNCHANGED <<invoice, event, faults>>
       \/ /\ invoice.paid # "none"
          /\ run' = [run EXCEPT ![r].pc = AfterPay(r),
                                ![r].seen = IF invoice.paid = "paid" THEN "paid" ELSE @]
          /\ UNCHANGED <<invoice, event, faults>>
    /\ UNCHANGED item

\* What is in the session stays as it was read there (its identity map).
InSession(old, t) == IF old[t] = "none" THEN tx[t].status ELSE old[t]

Load(r) ==
    /\ run[r].pc = "load"
    /\ run' = [run EXCEPT ![r].pc = "sync",
                          ![r].loaded = [t \in Tools |-> InSession(run[r].loaded, t)]]

\* The status goes to every loaded row; only a change is written.
Flush(loaded, status) ==
    [t \in Tools |-> IF loaded[t] \in {"none", status} THEN tx[t]
                     ELSE [tx[t] EXCEPT !.status = status]]

SyncStatus(seen) ==
    CASE seen = "paid" -> "completed" [] seen = "void" -> "failed" [] OTHER -> "pending"

Sync(r) ==
    /\ run[r].pc = "sync"
    /\ tx' = Flush(run[r].loaded, SyncStatus(run[r].seen))
    /\ RunLeaves(r, "sync", "complete")

InvoiceStep(r) ==
    /\ \/ (Existing(r) \/ Load(r)) /\ UNCHANGED <<stripeVars, tx, summed, faults>>
       \/ Users(r) /\ UNCHANGED <<stripeVars, tx, faults>>
       \/ Sum(r) /\ summed' = TRUE /\ UNCHANGED <<stripeVars, tx, faults>>
       \/ (\E t \in Tools : CreateItem(r, t)) /\ UNCHANGED <<tx, summed, faults>>
       \/ (CreateInvoice(r) \/ Retrieve(r) \/ Finalize(r)) /\ UNCHANGED <<tx, summed, faults>>
       \/ Pay(r) /\ UNCHANGED <<tx, summed>>
       \/ (CommitTransactions(r) \/ Sync(r)) /\ UNCHANGED <<stripeVars, summed, faults>>
    /\ UNCHANGED <<monday, ledgerVars, lock, done, handler>>

-------------------------------------------------------------------------------
(* Stripe and the webhook handler.                                         *)

\* Stripe collects an open invoice later, or the merchant voids it.
StripeCloses ==
    /\ invoice.status = "open" /\ Fault
    /\ \/ invoice' = [invoice EXCEPT !.status = "paid"] /\ event' = event \union {"paid"}
       \/ invoice' = [invoice EXCEPT !.status = "void"] /\ UNCHANGED event
    /\ UNCHANGED <<monday, ledgerVars, run, lock, done, item, handler, tx, summed>>

\* invoice.paid and invoice.payment_failed: _update_transaction_status.
TakeEvent(kind) ==
    /\ handler = NoEvent /\ kind \in event
    /\ handler' = [kind |-> kind, loaded |-> [t \in Tools |-> tx[t].status]]
    /\ UNCHANGED <<event, tx, faults>>

HandleEvent ==
    /\ handler # NoEvent
    /\ \/ /\ tx' = Flush(handler.loaded, IF handler.kind = "paid" THEN "completed" ELSE "failed")
          /\ event' = event \ {handler.kind} /\ UNCHANGED faults
       \/ Fault /\ UNCHANGED <<event, tx>>
    /\ handler' = NoEvent

EventStep ==
    /\ (\E kind \in event : TakeEvent(kind)) \/ HandleEvent
    /\ UNCHANGED <<monday, ledgerVars, run, lock, done, item, invoice, summed>>

\* The week ends: the schedulers find a Monday for as long as they need.
WeekEnds ==
    /\ ~monday /\ monday' = TRUE
    /\ UNCHANGED <<ledgerVars, run, lock, done, stripeVars, handler, tx, summed, faults>>

UsageNext ==
    \/ \E c \in Calls, t \in Tools : Call(c, t)
    \/ \E c \in Calls : LogStep(c)
    \/ \E r \in Runs : LockStep(r) \/ InvoiceStep(r) \/ RunCrash(r)
    \/ LockExpires \/ StripeCloses \/ EventStep \/ WeekEnds

\* Handlers and jobs go on, and so does each scheduler, every hour; locks expire.
UsageFairness ==
    /\ WF_usageVars(\E c \in Calls : LogStep(c))
    /\ \A r \in Runs : WF_usageVars(LockStep(r) \/ InvoiceStep(r))
    /\ WF_usageVars(LockExpires)

UsageSpec == UsageInit /\ [][UsageNext]_usageVars /\ UsageFairness

-------------------------------------------------------------------------------
(* Properties.                                                             *)

\* A call that was answered is in the ledger, or a job carries it, or its loss was given
\* to send_alert, which promises nothing, or arq dropped its job (the gateway's fallback queue, the worker's retries,
\* commits that raise after they took effect).
CallsAreKept ==
    \A c \in Calls : call[c].pc = "answered" =>
        rows[c] > 0 \/ c \in reported \/ job[c].pc \in {"waiting", "dropped"}

\* Stripe is never asked for more than the calls made, and a transaction has the amount
\* of its item, whatever is retried or raced (one row per call, one item per tool, one
\* transaction per tool). Unless a log came late, what is recorded is on the invoice
\* and a completed week has a transaction for all its usage.
AmountsAgree ==
    /\ \A t \in Tools : item[t] <= Made(t)
    /\ \A t \in Recorded : tx[t].amount = item[t]
    /\ ~late => /\ Recorded \subseteq invoice.items
                /\ done => \A t \in Tools : tx[t].amount = Usage(t)

\* Only a paid invoice completes its transactions, and, once the week is complete and
\* nothing is under way, it has completed them, unless a payment was declined before.
PaidIsCompleted ==
    LET quiet == /\ done /\ event = {} /\ handler = NoEvent
                 /\ \A r \in Runs : run[r].pc = "idle"
    IN \A t \in Recorded :
           /\ tx[t].status = "completed" => invoice.status = "paid"
           /\ invoice.status = "paid" /\ invoice.paid # "declined" /\ quiet
                  => tx[t].status = "completed"

LedgerIsInvoice == AmountsAgree /\ PaidIsCompleted

\* A run at work holds the lock and finds the week open, unless it outlived its lock
\* or another run did (SET NX, the second look, the release by token).
LeaseIsHeld ==
    \A r \in Runs : InTask(r) =>
        /\ run[r].lapsed \/ lock = r
        /\ done => \E q \in Runs : run[q].lapsed

\* Every call ends recorded, reported or dropped, and on a Monday the week is
\* invoiced in the end, whatever lock a dead scheduler left, unless a log came late.
UsageSettles ==
    <>[]( /\ \A c \in Calls : \/ call[c].pc \in {"idle", "gone"} \/ c \in reported
                              \/ rows[c] > 0 \/ job[c].pc = "dropped"
          /\ monday => done \/ late )
===============================================================================
