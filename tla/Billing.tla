--------------------------------- MODULE Billing ---------------------------------
(***************************************************************************)
(* The ledger of paid tool purchases: purchase_tool in the API, the Stripe *)
(* webhook handlers in the workers, the monthly seller payout, and Stripe  *)
(* itself (checkout sessions, charges, transfers, reversals) as the code   *)
(* uses it.                                                                *)
(*                                                                         *)
(* One tool of one seller, sold for a positive price; an order is the n-th *)
(* purchase of a buyer, with its ToolPurchase and Transaction rows.  A step *)
(* is one database transaction or one Stripe call.  Sessions flush the     *)
(* columns that differ from the copy they loaded (Dirty), without locks,   *)
(* except that the payout holds its rows FOR UPDATE.                       *)
(***************************************************************************)
EXTENDS Naturals, FiniteSets

CONSTANTS
    Buyers,       \* buyers of the tool
    MaxOrders,    \* bound of the model on the purchases of one buyer
    Requests,     \* concurrent purchase requests
    Workers,      \* concurrent webhook workers
    Budget        \* how often each kind of fault or mishap may happen

Chance == {"stripe", "api", "worker", "payout",     \* errors and crashes
           "decline", "refund", "month"}            \* what buyers and time may bring

ASSUME OrdersAssumption == MaxOrders \in Nat \ {0}
ASSUME BudgetAssumption == Budget \in [Chance -> Nat]

Order == Buyers \X (1 .. MaxOrders)

PurchaseStatus    == {"pending", "active", "terminated"}
TransactionStatus == {"pending", "completed", "failed", "refund_pending", "refunded"}
RefundStatus      == {"refund_pending", "refunded"}

\* stripe_payment_intent_id holds the session id while pending, then the intent id.
Reference == {"none", "session", "intent"}

Transaction == [status: TransactionStatus \cup {"none"}, ref: Reference,
                transfer: BOOLEAN,    \* stripe_transfer_id and seller_paid_at are set
                reversal: BOOLEAN]    \* stripe_transfer_reversal_id is set

\* "submitted" is a checkout.session.completed whose payment_status is still unpaid;
\* "completed" one that is paid, or async_payment_succeeded; "expired" stands for
\* async_payment_failed too, which has the same handler.
EventKind == {"submitted", "completed", "expired", "intent_succeeded", "intent_failed",
              "partial_refund", "full_refund"}

VARIABLES
    purchase,    \* the tool_purchases table
    tx,          \* the transactions table
    request,     \* purchase requests in the API
    worker,      \* webhook workers
    events,      \* events in the inbox whose handler has not completed yet
    payout,      \* the monthly payout task
    due,         \* orders whose period ended before the payout's boundary
    session,     \* Stripe: checkout sessions
    charge,      \* Stripe: the charge of each order
    offered,     \* orders whose checkout URL a buyer was given
    transfers,   \* Stripe: transfers, by the orders in their idempotency key
    reversed,    \* Stripe: orders whose share of a transfer was reversed
    budget       \* faults and mishaps that may still happen

vars == <<purchase, tx, request, worker, events, payout, due,
          session, charge, offered, transfers, reversed, budget>>
ledger == <<purchase, tx>>
stripeVars == <<session, charge, transfers, reversed>>

Idle    == [pc |-> "idle"]
NoTx    == [status |-> "none", ref |-> "none", transfer |-> FALSE, reversal |-> FALSE]

RequestState == {Idle} \cup
    [pc: {"begin", "lookup", "terminate", "session", "store", "abandon"},
     buyer: Buyers, order: 1 .. MaxOrders, retry: BOOLEAN]
WorkerState == {Idle} \cup
    [pc: {"commit", "reverse", "record"}, kind: EventKind, order: Order,
     purchase: PurchaseStatus, tx: Transaction,
     open: SUBSET Order]    \* the buyer's open purchases, for a refund
PayoutState == {Idle} \cup [pc: {"transfer", "record"}, orders: SUBSET Order]

TypeOK ==
    /\ purchase \in [Order -> PurchaseStatus \cup {"none"}]
    /\ tx \in [Order -> Transaction]
    /\ request \in [Requests -> RequestState]
    /\ worker \in [Workers -> WorkerState]
    /\ events \subseteq EventKind \X Order
    /\ payout \in PayoutState
    /\ due \subseteq Order
    /\ session \in [Order -> {"none", "open", "complete", "expired"}]
    /\ charge \in [Order -> {"none", "processing", "paid", "partial", "refunded"}]
    /\ offered \subseteq Order
    /\ transfers \subseteq SUBSET Order
    /\ reversed \subseteq Order
    /\ budget \in [Chance -> Nat]

Init ==
    /\ purchase = [o \in Order |-> "none"]
    /\ tx = [o \in Order |-> NoTx]
    /\ request = [r \in Requests |-> Idle]
    /\ worker = [w \in Workers |-> Idle]
    /\ events = {}
    /\ payout = Idle
    /\ due = {}
    /\ session = [o \in Order |-> "none"]
    /\ charge = [o \in Order |-> "none"]
    /\ offered = {}
    /\ transfers = {}
    /\ reversed = {}
    /\ budget = Budget

-----------------------------------------------------------------------------
(* Rows, the open-purchase index and row locks.                            *)

Dirty(old, seen, new) == IF new = seen THEN old ELSE new

OrdersOf(b)   == {o \in Order : o[1] = b}
Open(b)       == {o \in OrdersOf(b) : purchase[o] \in {"pending", "active"}}
PendingTx(b)  == {o \in OrdersOf(b) : tx[o].status = "pending"}
Latest(S)     == CHOOSE o \in S : \A p \in S : p[2] <= o[2]

\* ORDER BY created_at DESC LIMIT 1 over pending transactions.
LatestPending(b) == IF PendingTx(b) = {} THEN {} ELSE {Latest(PendingTx(b))}
LatestRecoverable(b) ==
    LET S == {o \in PendingTx(b) : tx[o].ref # "none"} IN
    IF S = {} THEN {} ELSE {Latest(S)}

\* A bug OneOpenPurchase catches: no unique index on the open purchases.
NoIndex(o) == TRUE

\* ux_tool_purchases_buyer_tool_open lets order o be open.
IndexAllows(o) == Open(o[1]) \subseteq {o}

\* A bug PaysOnlyCompleted catches: the payout selects without FOR UPDATE.
NoLocks == {}

\* Rows the payout holds FOR UPDATE: other writers wait.
Locked == IF payout.pc = "idle" THEN {} ELSE payout.orders

Spend(kind) ==
    /\ budget[kind] > 0
    /\ budget' = [budget EXCEPT ![kind] = @ - 1]

-----------------------------------------------------------------------------
(* POST purchase: purchase_tool.                                           *)

Goto(r, pc) == request' = [request EXCEPT ![r].pc = pc]
Return(r)   == request' = [request EXCEPT ![r] = Idle]

Ask(r, b) ==
    /\ request[r].pc = "idle"
    /\ request' = [request EXCEPT ![r] =
                     [pc |-> "begin", buyer |-> b, order |-> 1, retry |-> TRUE]]
    /\ UNCHANGED <<ledger, worker, events, payout, due, stripeVars, offered, budget>>

\* The existing active or pending purchase, or else the INSERT of a new pair of
\* rows; the open-purchase index makes a request that lost the race look again.
Begin(r) ==
    LET b == request[r].buyer
        fresh == {n \in 1 .. MaxOrders : purchase[<<b, n>>] = "none"} IN
    /\ request[r].pc = "begin"
    /\ \/ /\ \E o \in Open(b) : purchase[o] = "active"
          /\ Return(r)
          /\ UNCHANGED ledger
       \/ \E o \in Open(b) :
            /\ purchase[o] = "pending"
            /\ request' = [request EXCEPT ![r].pc = "lookup", ![r].order = o[2]]
            /\ UNCHANGED ledger
       \/ \E n \in fresh :
               /\ IndexAllows(<<b, n>>)
               /\ \A m \in fresh : n <= m
               /\ purchase' = [purchase EXCEPT ![<<b, n>>] = "pending"]
               /\ tx' = [tx EXCEPT ![<<b, n>>].status = "pending"]
               /\ request' = [request EXCEPT ![r].pc = "session", ![r].order = n]
    /\ UNCHANGED <<worker, events, payout, due, stripeVars, offered, budget>>

\* _get_pending_checkout_url: a session that is still open has a URL to return;
\* otherwise the pending purchase counts as stale (once; the retry answers 502).
Lookup(r) ==
    LET b == request[r].buyer
        payable == {o \in LatestRecoverable(b) : tx[o].ref = "session"
                                                  /\ session[o] = "open"}
        stale == IF request[r].retry THEN Goto(r, "terminate") ELSE Return(r) IN
    /\ request[r].pc = "lookup"
    /\ \/ /\ payable # {}
          /\ offered' = offered \cup payable
          /\ Return(r)
          /\ UNCHANGED budget
       \/ /\ payable = {}
          /\ stale
          /\ UNCHANGED <<offered, budget>>
       \/ /\ payable # {}            \* Session.retrieve raises StripeError
          /\ Spend("stripe")
          /\ stale
          /\ UNCHANGED offered
    /\ UNCHANGED <<ledger, worker, events, payout, due, stripeVars>>

\* _terminate_stale_pending_purchase, then once more from the top.  The row was
\* loaded as pending, so terminated is written whatever it says by now.
TerminateStale(r) ==
    LET b == request[r].buyer
        o == <<b, request[r].order>>
        last == LatestPending(b) IN
    /\ request[r].pc = "terminate"
    /\ purchase' = [purchase EXCEPT ![o] = "terminated"]
    /\ tx' = [p \in Order |-> IF p \in last THEN [tx[p] EXCEPT !.status = "failed"]
                              ELSE tx[p]]
    /\ request' = [request EXCEPT ![r].pc = "begin", ![r].retry = FALSE]
    /\ UNCHANGED <<worker, events, payout, due, stripeVars, offered, budget>>

CreateSession(r) ==
    LET o == <<request[r].buyer, request[r].order>> IN
    /\ request[r].pc = "session"
    /\ session' = [session EXCEPT ![o] = "open"]
    /\ Goto(r, "store")
    /\ UNCHANGED <<ledger, worker, events, payout, due, charge, transfers, reversed,
                   offered, budget>>

CreateSessionFails(r) ==
    /\ request[r].pc = "session"
    /\ Spend("stripe")
    /\ Goto(r, "abandon")
    /\ UNCHANGED <<ledger, worker, events, payout, due, stripeVars, offered>>

\* The session id is stored and the buyer is sent to the checkout page.
StoreSession(r) ==
    LET o == <<request[r].buyer, request[r].order>> IN
    /\ request[r].pc = "store"
    /\ tx' = [tx EXCEPT ![o].ref = "session"]
    /\ offered' = offered \cup {o}
    /\ Return(r)
    /\ UNCHANGED <<purchase, worker, events, payout, due, stripeVars, budget>>

\* _fail_checkout_creation
Abandon(r) ==
    LET o == <<request[r].buyer, request[r].order>> IN
    /\ request[r].pc = "abandon"
    /\ purchase' = [purchase EXCEPT ![o] = "terminated"]
    /\ tx' = [tx EXCEPT ![o].status = "failed"]
    /\ Return(r)
    /\ UNCHANGED <<worker, events, payout, due, stripeVars, offered, budget>>

RequestCrash(r) ==
    /\ request[r].pc # "idle"
    /\ Spend("api")
    /\ Return(r)
    /\ UNCHANGED <<ledger, worker, events, payout, due, stripeVars, offered>>

PurchaseTool(r) ==
    \/ Begin(r) \/ Lookup(r) \/ TerminateStale(r)
    \/ CreateSession(r) \/ StoreSession(r) \/ Abandon(r)

-----------------------------------------------------------------------------
(* Stripe and the buyer.                                                   *)

Emit(kinds, o) == events' = events \cup {<<k, o>> : k \in kinds}

\* The buyer pays at once, or with a delayed method that settles later.
SubmitPayment(o) ==
    /\ o \in offered
    /\ session[o] = "open"
    /\ session' = [session EXCEPT ![o] = "complete"]
    /\ \/ /\ charge' = [charge EXCEPT ![o] = "paid"]
          /\ Emit({"completed", "intent_succeeded"}, o)
       \/ /\ charge' = [charge EXCEPT ![o] = "processing"]
          /\ Emit({"submitted"}, o)
    /\ UNCHANGED <<ledger, request, worker, payout, due, offered,
                   transfers, reversed, budget>>

ChargeSucceeds(o) ==
    /\ charge[o] = "processing"
    /\ charge' = [charge EXCEPT ![o] = "paid"]
    /\ Emit({"completed", "intent_succeeded"}, o)
    /\ UNCHANGED <<ledger, request, worker, payout, due, session, offered,
                   transfers, reversed, budget>>

ChargeFails(o) ==
    /\ charge[o] = "processing"
    /\ charge' = [charge EXCEPT ![o] = "none"]
    /\ Emit({"expired", "intent_failed"}, o)
    /\ UNCHANGED <<ledger, request, worker, payout, due, session, offered,
                   transfers, reversed, budget>>

\* A declined card leaves the session open for another attempt.
CardDeclined(o) ==
    /\ o \in offered
    /\ session[o] = "open"
    /\ Spend("decline")
    /\ Emit({"intent_failed"}, o)
    /\ UNCHANGED <<ledger, request, worker, payout, due, stripeVars, offered>>

SessionExpires(o) ==
    /\ session[o] = "open"
    /\ session' = [session EXCEPT ![o] = "expired"]
    /\ Emit({"expired"}, o)
    /\ UNCHANGED <<ledger, request, worker, payout, due, charge, offered,
                   transfers, reversed, budget>>

Refund(o) ==
    /\ Spend("refund")
    /\ \/ /\ charge[o] = "paid"
          /\ charge' = [charge EXCEPT ![o] = "partial"]
          /\ Emit({"partial_refund"}, o)
       \/ /\ charge[o] \in {"paid", "partial"}
          /\ charge' = [charge EXCEPT ![o] = "refunded"]
          /\ Emit({"full_refund"}, o)
    /\ UNCHANGED <<ledger, request, worker, payout, due, session, offered,
                   transfers, reversed>>

StripeStep == \E o \in Order :
    \/ SubmitPayment(o) \/ ChargeSucceeds(o) \/ ChargeFails(o)
    \/ CardDeclined(o) \/ SessionExpires(o) \/ Refund(o)

-----------------------------------------------------------------------------
(* Workers: handle_webhook_event.  An event leaves the inbox when its      *)
(* handler completes; until then it may be taken again, and concurrently.  *)

Done(w)    == events' = events \ {<<worker[w].kind, worker[w].order>>}
Release(w) == worker' = [worker EXCEPT ![w] = Idle]

\* A bug AccessIsPaid catches: payment_status of a completed checkout is not read.
IgnoredUnmatched(k, o) ==
    k \in {"intent_succeeded", "intent_failed"} /\ tx[o].ref # "intent"

\* Events that change nothing: a checkout that is not paid yet is deferred, and
\* intent events find their transaction by reference only.
Ignored(k, o) ==
    \/ k = "submitted"
    \/ k \in {"intent_succeeded", "intent_failed"} /\ tx[o].ref # "intent"

\* The handler starts, and loads the rows.
TakeEvent(w, k, o) ==
    /\ worker[w].pc = "idle"
    /\ <<k, o>> \in events
    /\ IF Ignored(k, o)
       THEN /\ events' = events \ {<<k, o>>}
            /\ UNCHANGED worker
       ELSE /\ worker' = [worker EXCEPT ![w] =
                 [pc |-> "commit", kind |-> k, order |-> o,
                  purchase |-> purchase[o], tx |-> tx[o], open |-> Open(o[1])]]
            /\ UNCHANGED events
    /\ UNCHANGED <<ledger, request, payout, due, stripeVars, offered, budget>>

Completing == {"submitted", "completed"}

\* A bug TypeOK catches: Stripe's word instead of the enum's.
NewStatusOfStripe(kind, t) == IF kind \in Completing THEN "succeeded" ELSE t.status

\* A bug RefundIsFinal catches: a failed payment fails any transaction.
NewStatusFailing(kind, t) ==
    CASE kind \in Completing \cup {"intent_succeeded"} /\ t.status \notin RefundStatus -> "completed"
      [] kind = "intent_failed"                              -> "failed"
      [] kind = "full_refund"                                -> "refunded"
      [] OTHER                                               -> t.status

\* A bug HoldIsKept catches: a paid event skips refunded transactions only.
NewStatusUnheld(kind, t) ==
    CASE kind \in Completing \cup {"intent_succeeded"} /\ t.status # "refunded" -> "completed"
      [] kind = "partial_refund" /\ t.status # "refunded"    -> "refund_pending"
      [] kind = "full_refund"                                -> "refunded"
      [] OTHER                                               -> t.status

\* The status a handler gives the transaction it loaded.
NewStatus(kind, t) ==
    CASE kind \in Completing \cup {"intent_succeeded"} /\ t.status \notin RefundStatus -> "completed"
      [] kind = "intent_failed" /\ t.status \notin RefundStatus -> "failed"
      [] kind = "expired" /\ t.status = "pending"            -> "failed"
      [] kind = "partial_refund" /\ t.status # "refunded"    -> "refund_pending"
      [] kind = "full_refund"                                -> "refunded"
      [] OTHER                                               -> t.status

SetTx(w) ==
    LET o == worker[w].order
        seen == worker[w].tx
        k == worker[w].kind IN
    /\ o \notin Locked
    /\ tx' = [tx EXCEPT
         ![o].status = Dirty(@, seen.status, NewStatus(k, seen)),
         ![o].ref = IF k \in Completing THEN Dirty(@, seen.ref, "intent") ELSE @]

Handling(w, kinds) == worker[w].pc = "commit" /\ worker[w].kind \in kinds

\* _complete_checkout_session; activating a purchase that another order has
\* replaced violates the open-purchase index, and the event is retried.
CompleteCheckout(w) ==
    LET o == worker[w].order
        activates == worker[w].purchase = "pending" IN
    /\ Handling(w, Completing)
    /\ IF activates /\ ~ IndexAllows(o)
       THEN UNCHANGED <<ledger, events>>
       ELSE /\ purchase' = [purchase EXCEPT ![o] = IF activates THEN "active" ELSE @]
            /\ SetTx(w)
            /\ Done(w)
    /\ Release(w)
    /\ UNCHANGED <<request, payout, due, stripeVars, offered, budget>>

\* _expire_checkout_session
ExpireCheckout(w) ==
    /\ Handling(w, {"expired"})
    /\ purchase' = [purchase EXCEPT ![worker[w].order] =
                      IF worker[w].purchase = "pending" THEN "terminated" ELSE @]
    /\ SetTx(w)
    /\ Done(w)
    /\ Release(w)
    /\ UNCHANGED <<request, payout, due, stripeVars, offered, budget>>

\* _update_transaction_status, and a partial refund.
UpdateTransactionStatus(w) ==
    /\ Handling(w, {"intent_succeeded", "intent_failed", "partial_refund"})
    /\ SetTx(w)
    /\ Done(w)
    /\ Release(w)
    /\ UNCHANGED <<purchase, request, payout, due, stripeVars, offered, budget>>

\* A bug RefundRevokesAccess catches: only a pending purchase is terminated.
RevokedPending(w) == {p \in worker[w].open : purchase[p] = "pending"}

\* The purchases that a full refund terminates: what the handler's SELECT found.
Revoked(w) == worker[w].open

\* A bug LedgerMatchesStripe catches: the reversal is recorded before it is made.
AfterRefundRecord(t) == IF t.transfer /\ ~ t.reversal THEN "record" ELSE "done"

\* A seller transfer that the loaded transaction shows is reversed once.
AfterRefund(t) == IF t.transfer /\ ~ t.reversal THEN "reverse" ELSE "done"

\* _handle_charge_refunded, full refund.
RefundCharge(w) ==
    LET next == AfterRefund(worker[w].tx) IN
    /\ Handling(w, {"full_refund"})
    /\ purchase' = [p \in Order |-> IF p \in Revoked(w) THEN "terminated" ELSE purchase[p]]
    /\ SetTx(w)
    /\ IF next = "done"
       THEN Done(w) /\ Release(w)
       ELSE /\ worker' = [worker EXCEPT ![w].pc = next]
            /\ UNCHANGED events
    /\ UNCHANGED <<request, payout, due, stripeVars, offered, budget>>

ReverseTransfer(w) ==
    /\ worker[w].pc = "reverse"
    /\ reversed' = reversed \cup {worker[w].order}
    /\ worker' = [worker EXCEPT ![w].pc = "record"]
    /\ UNCHANGED <<ledger, request, events, payout, due, session, charge, offered,
                   transfers, budget>>

RecordReversal(w) ==
    /\ worker[w].pc = "record"
    /\ worker[w].order \notin Locked
    /\ tx' = [tx EXCEPT ![worker[w].order].reversal = TRUE]
    /\ Done(w)
    /\ Release(w)
    /\ UNCHANGED <<purchase, request, payout, due, stripeVars, offered, budget>>

\* A bug RefundSettles catches: the event of a handler that failed counts as handled.
HandlerFailsDone(w) ==
    /\ worker[w].pc # "idle"
    /\ Spend("worker")
    /\ Done(w)
    /\ Release(w)
    /\ UNCHANGED <<ledger, request, payout, due, stripeVars, offered>>

\* The reversal fails (insufficient balance) or the worker dies: the event stays.
HandlerFails(w) ==
    /\ \/ worker[w].pc = "reverse" /\ Spend("stripe")
       \/ worker[w].pc # "idle" /\ Spend("worker")
    /\ Release(w)
    /\ UNCHANGED <<ledger, request, events, payout, due, stripeVars, offered>>

FinishEvent(w) ==
    \/ CompleteCheckout(w) \/ ExpireCheckout(w) \/ UpdateTransactionStatus(w)
    \/ RefundCharge(w) \/ ReverseTransfer(w) \/ RecordReversal(w)

-----------------------------------------------------------------------------
(* The monthly payout: process_seller_payout.                              *)

\* A month ends: every existing order falls before the payout boundary.
MonthEnds ==
    /\ Spend("month")
    /\ due' = {o \in Order : purchase[o] # "none"}
    /\ UNCHANGED <<ledger, request, worker, events, payout, stripeVars, offered>>

Payable == {o \in due : tx[o].status = "completed" /\ ~ tx[o].transfer}

\* SELECT ... FOR UPDATE of the completed, unpaid transactions that are due.
PayoutSelect ==
    /\ payout.pc = "idle"
    /\ Payable # {}
    /\ payout' = [pc |-> "transfer", orders |-> Payable]
    /\ UNCHANGED <<ledger, request, worker, events, due, stripeVars, offered, budget>>

\* Transfer.create; its idempotency key is the set of transaction ids.
PayoutTransfer ==
    /\ payout.pc = "transfer"
    /\ transfers' = transfers \cup {payout.orders}
    /\ payout' = [payout EXCEPT !.pc = "record"]
    /\ UNCHANGED <<ledger, request, worker, events, due, session, charge, offered,
                   reversed, budget>>

PayoutRecord ==
    /\ payout.pc = "record"
    /\ tx' = [o \in Order |-> IF o \in payout.orders THEN [tx[o] EXCEPT !.transfer = TRUE]
                              ELSE tx[o]]
    /\ payout' = Idle
    /\ UNCHANGED <<purchase, request, worker, events, due, stripeVars, offered, budget>>

\* The task dies or Stripe raises: the locks go and nothing is recorded.
PayoutFails ==
    /\ payout.pc # "idle"
    /\ Spend("payout")
    /\ payout' = Idle
    /\ UNCHANGED <<ledger, request, worker, events, due, stripeVars, offered>>

-----------------------------------------------------------------------------
Next ==
    \/ \E r \in Requests :
        \/ \E b \in Buyers : Ask(r, b)
        \/ PurchaseTool(r)
        \/ CreateSessionFails(r)
        \/ RequestCrash(r)
    \/ \E w \in Workers :
        \/ \E k \in EventKind, o \in Order : TakeEvent(w, k, o)
        \/ FinishEvent(w)
        \/ HandlerFails(w)
    \/ StripeStep
    \/ MonthEnds
    \/ PayoutSelect \/ PayoutTransfer \/ PayoutRecord \/ PayoutFails

Spec == Init /\ [][Next]_vars

-----------------------------------------------------------------------------
(* Safety.                                                                 *)

\* A buyer has access only to an order that was charged, whatever the requests,
\* late events and retries of the checkout do.
AccessIsPaid ==
    \A o \in Order : purchase[o] = "active" => charge[o] \in {"paid", "partial", "refunded"}

\* A buyer never has two open purchases of the tool.
OneOpenPurchase == \A b \in Buyers : Cardinality(Open(b)) <= 1

\* The ledger and Stripe agree on the seller's money: every transfer the ledger
\* records was made, only recorded transfers of refunded charges are reversed, and
\* a recorded reversal was made.
LedgerMatchesStripe ==
    \A o \in Order :
        /\ tx[o].transfer => o \in UNION transfers
        /\ tx[o].reversal => o \in reversed
        /\ o \in reversed => tx[o].transfer /\ charge[o] = "refunded"

\* The seller is paid only for what the ledger holds as completed when the money
\* leaves: a refund cannot slip between the payout's selection and its transfer.
PaysOnlyCompleted ==
    [][\A S \in transfers' \ transfers : \A o \in S : tx[o].status = "completed"]_vars

\* A completed refund event revoked the buyer's access.
RefundRevokesAccess ==
    \A o \in Order :
        (charge[o] = "refunded" /\ <<"full_refund", o>> \notin events)
            => purchase[o] # "active"

\* A refunded transaction stays refunded: no paid or failed event that arrives
\* late resurrects it (test_paid_event_cannot_resurrect_refunded_transaction).
RefundIsFinal ==
    [][\A o \in Order : tx[o].status = "refunded" => tx'[o].status = "refunded"]_vars

\* A partial refund holds the payout until a full refund (or a person) settles it
\* (test_paid_event_cannot_clear_partial_refund_hold).
HoldIsKept ==
    [][\A o \in Order :
        tx[o].status = "refund_pending" => tx'[o].status \in RefundStatus]_vars

\* What is left of the two with any number of workers: a transaction leaves refunded,
\* or the refund states altogether, only by a handler that had loaded it before it was
\* refunded, or held; and never by a purchase request, a reversal or the payout.
OnlyStaleCopiesResurrect ==
    [][\A o \in Order :
          /\ tx[o].status = "refunded" /\ tx'[o].status # "refunded" =>
                \E w \in Workers : /\ worker[w].pc = "commit" /\ worker[w].order = o
                                   /\ worker[w].tx.status # "refunded"
          /\ tx[o].status \in RefundStatus /\ tx'[o].status \notin RefundStatus =>
                \E w \in Workers : /\ worker[w].pc = "commit" /\ worker[w].order = o
                                   /\ worker[w].tx.status \notin RefundStatus]_vars

\* The seller is paid once for an order (docs/production-launch-checklist.md:
\* repeated scheduler runs do not create duplicate seller payouts).
SellerPaidOnce == \A S, T \in transfers : S # T => S \cap T = {}

-----------------------------------------------------------------------------
(* Liveness.                                                               *)

\* A worker goes on with an event it took, a refund is not overlooked for ever (arq
\* runs jobs in order of their time), and a payout that holds its rows ends.
Fairness ==
    /\ \A w \in Workers : WF_vars(FinishEvent(w))
    /\ \A o \in Order : SF_vars(\E w \in Workers : TakeEvent(w, "full_refund", o))
    /\ WF_vars(PayoutTransfer \/ PayoutRecord)

FairSpec == Spec /\ Fairness

\* A refunded charge eventually takes away the buyer's access and the seller's
\* claim for good.
RefundSettles ==
    \A o \in Order :
        (charge[o] = "refunded") ~>
            [](tx[o].status = "refunded" /\ purchase[o] # "active")
=============================================================================
