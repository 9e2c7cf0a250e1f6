------------------------------ MODULE BillingProofs ------------------------------
(***************************************************************************)
(* What the ledger of purchases keeps, for any number of buyers, orders,   *)
(* requests and workers, and any faults.                                   *)
(***************************************************************************)
EXTENDS Billing, FiniteSetTheorems, WellFoundedInduction, TLAPS

TxFields == {"status", "ref", "transfer", "reversal"}

Paid == {"paid", "partial", "refunded"}

\* The events of a charge that succeeded; a checkout that is submitted but unpaid is none.
PaidKinds == {"completed", "intent_succeeded"}

(***************************************************************************)
(* The inductive invariant.                                                *)
(***************************************************************************)

RowShapes ==
    /\ purchase \in [Order -> PurchaseStatus \cup {"none"}]
    /\ tx = [o \in Order |-> tx[o]]
    /\ \A o \in Order : DOMAIN tx[o] = TxFields
    /\ session = [o \in Order |-> session[o]]
    /\ charge = [o \in Order |-> charge[o]]
    /\ due \subseteq Order /\ reversed \subseteq Order

ActorShapes ==
    /\ request = [r \in Requests |-> request[r]]
    /\ \A r \in Requests :
          request[r].pc # "idle" =>
              /\ DOMAIN request[r] = {"pc", "buyer", "order", "retry"}
              /\ request[r].buyer \in Buyers /\ request[r].order \in 1 .. MaxOrders
    /\ worker = [w \in Workers |-> worker[w]]
    /\ \A w \in Workers :
          worker[w].pc # "idle" =>
              /\ DOMAIN worker[w] = {"pc", "kind", "order", "purchase", "tx", "open"}
              /\ worker[w].order \in Order /\ worker[w].kind \in EventKind \ {"submitted"}
    /\ payout.pc \in {"idle", "transfer", "record"}
    /\ payout.pc # "idle" => DOMAIN payout = {"pc", "orders"} /\ payout.orders \subseteq Order

OrderOf(r) == <<request[r].buyer, request[r].order>>

\* The request that inserted an order, until it has asked Stripe for its session.
Opens(r) == request[r].pc \in {"session", "abandon"}

\* Only the request that inserted an order asks Stripe for its session, once.
CheckoutInv ==
    /\ \A o \in Order : purchase[o] = "none" => session[o] = "none"
    /\ \A o \in Order : charge[o] # "none" => session[o] = "complete"
    /\ \A r \in Requests : Opens(r) => purchase[OrderOf(r)] # "none" /\ session[OrderOf(r)] = "none"
    /\ \A r, s \in Requests : Opens(r) /\ Opens(s) /\ r # s => OrderOf(r) # OrderOf(s)

\* Events, and workers that took them, say what Stripe did.
EventsAreTrue ==
    /\ \A o \in Order :
          /\ \A k \in PaidKinds : <<k, o>> \in events => charge[o] \in Paid
          /\ <<"full_refund", o>> \in events => charge[o] = "refunded"
    /\ \A w \in Workers : worker[w].pc # "idle" =>
          /\ worker[w].kind \in PaidKinds => charge[worker[w].order] \in Paid
          /\ worker[w].kind = "full_refund" => charge[worker[w].order] = "refunded"

\* What the ledger counts as paid was charged.
PaidInv ==
    /\ \A o \in Order : tx[o].status = "completed" => charge[o] \in Paid
    /\ AccessIsPaid

OneOpenInv == \A o, p \in Order :
    o[1] = p[1] /\ purchase[o] \in {"pending", "active"} /\ purchase[p] \in {"pending", "active"} => o = p

\* The rows a payout holds are completed until the money leaves.
PayoutInv ==
    /\ payout.pc = "transfer" => \A o \in payout.orders : tx[o].status = "completed"
    /\ payout.pc = "record" => payout.orders \in transfers

\* A worker that reverses a transfer knows of one, and of the refund.
ReversalInv == \A w \in Workers :
    worker[w].pc # "idle" =>
        /\ worker[w].tx.transfer => tx[worker[w].order].transfer
        /\ worker[w].pc \in {"reverse", "record"} => worker[w].kind = "full_refund" /\ worker[w].tx.transfer
        /\ worker[w].pc = "record" => worker[w].order \in reversed

BillingInv ==
    /\ RowShapes /\ ActorShapes /\ CheckoutInv /\ EventsAreTrue /\ PaidInv /\ OneOpenInv
    /\ PayoutInv /\ ReversalInv /\ LedgerMatchesStripe

(***************************************************************************)
(* The helpers.                                                            *)
(***************************************************************************)

LEMMA LessIsWellFounded == IsWellFoundedOn({p \in Nat \X Nat : p[1] < p[2]}, Nat)
BY NatLessThanWellFounded DEF OpToRel

\* A set of purchases of one buyer has a latest one.
LEMMA HasLargest ==
    ASSUME NEW N \in Nat, NEW S, S \subseteq 1 .. N, S # {}
    PROVE  \E m \in S : \A n \in S : n <= m
<1> DEFINE Less == {p \in Nat \X Nat : p[1] < p[2]}
           Rest == {N - n : n \in S}
<1>1. Rest \subseteq Nat
  OBVIOUS
<1>2. Rest # {}
  OBVIOUS
<1>3. PICK x \in Rest : \A y \in Rest : ~ (<<y, x>> \in Less)
  <2>1. IsWellFoundedOn(Less, Nat)
    BY LessIsWellFounded
  <2> HIDE DEF Less, Rest
  <2>2. QED
    BY <1>1, <1>2, <2>1, WFMin
<1>4. \A y \in Rest : ~ (y < x)
  BY <1>1, <1>3
<1>5. PICK m \in S : x = N - m
  BY <1>3
<1>6. ASSUME NEW n \in S PROVE n <= m
  <2>1. ~ (N - n < N - m)
    BY <1>4, <1>5
  <2>2. n \in Nat /\ m \in Nat
    OBVIOUS
  <2>3. QED
    BY <2>1, <2>2
<1>7. QED
  BY <1>5, <1>6

LEMMA LatestIsAmong ==
    ASSUME NEW b \in Buyers, NEW S, S \subseteq OrdersOf(b), S # {}
    PROVE  Latest(S) \in S
<1> DEFINE N == {o[2] : o \in S}
<1>1. \A o \in S : o \in Order /\ o[1] = b
  BY DEF OrdersOf
<1>2. N \subseteq 1 .. MaxOrders /\ N # {}
  BY <1>1 DEF Order
<1>3. PICK m \in N : \A n \in N : n <= m
  <2> HIDE DEF N
  <2>1. QED
    BY <1>2, HasLargest, OrdersAssumption
<1>4. PICK o \in S : o[2] = m
  BY <1>3
<1>5. \A p \in S : p[2] <= o[2]
  BY <1>3, <1>4
<1>6. QED
  BY <1>4, <1>5 DEF Latest

\* Terminating a stale purchase fails a transaction only while it is pending.
LEMMA LatestPendingIsPending ==
    ASSUME NEW b \in Buyers, NEW o \in LatestPending(b)
    PROVE  o \in Order /\ tx[o].status = "pending"
<1>1. PendingTx(b) # {} /\ o = Latest(PendingTx(b))
  BY DEF LatestPending
<1>2. o \in PendingTx(b)
  BY <1>1, LatestIsAmong DEF PendingTx
<1>3. QED
  BY <1>2 DEF PendingTx, OrdersOf

\* The columns SetTx does not assign stay, and what it writes was either there, or is
\* decided by the event.
LEMMA SetTxEffect ==
    ASSUME RowShapes, ActorShapes, NEW w \in Workers, worker[w].pc # "idle", SetTx(w)
    PROVE  /\ worker[w].order \notin Locked
           /\ tx' = [o \in Order |-> tx'[o]]
           /\ \A o \in Order :
                 /\ DOMAIN tx'[o] = TxFields
                 /\ tx'[o].transfer = tx[o].transfer
                 /\ tx'[o].reversal = tx[o].reversal
                 /\ o # worker[w].order => tx'[o] = tx[o]
                 /\ tx'[o].status = "completed" =>
                       \/ tx[o].status = "completed"
                       \/ o = worker[w].order /\ worker[w].kind \in PaidKinds
<1> DEFINE o == worker[w].order
           k == worker[w].kind
           seen == worker[w].tx
           status == Dirty(tx[o].status, seen.status, NewStatus(k, seen))
           ref == IF k \in Completing THEN Dirty(tx[o].ref, seen.ref, "intent") ELSE tx[o].ref
<1>1. o \in Order /\ k \in EventKind \ {"submitted"}
  BY DEF ActorShapes
<1>2. o \notin Locked
  BY DEF SetTx
<1>3. tx' = [tx EXCEPT ![o].status = status, ![o].ref = ref]
  BY <1>1 DEF SetTx, RowShapes
<1>4. status = "completed" => tx[o].status = "completed" \/ k \in PaidKinds
  <2>1. NewStatus(k, seen) = "completed" => seen.status = "completed" \/ k \in PaidKinds
    BY <1>1 DEF NewStatus, Completing, PaidKinds, EventKind
  <2>2. QED
    BY <2>1 DEF Dirty
<1> HIDE DEF o, k, seen, status, ref
<1>5. /\ tx' = [p \in Order |-> tx'[p]]
      /\ \A p \in Order : p # o => tx'[p] = tx[p]
      /\ DOMAIN tx'[o] = TxFields /\ tx'[o].status = status
      /\ tx'[o].transfer = tx[o].transfer /\ tx'[o].reversal = tx[o].reversal
  BY <1>1, <1>3 DEF RowShapes, TxFields
<1>6. QED
  BY <1>2, <1>4, <1>5 DEF o, k, RowShapes

(***************************************************************************)
(* Frames: what holds of a step by what it leaves alone.                   *)
(***************************************************************************)

\* The tables of orders keep their keys, and an order that was inserted stays so.
LEMMA CheckoutKept ==
    ASSUME CheckoutInv, UNCHANGED <<session, charge>>,
           \A o \in Order : purchase'[o] = "none" => purchase[o] = "none",
           \A r \in Requests : Opens(r) => OrderOf(r) \in Order,
           \A r \in Requests : Opens(r)' => Opens(r) /\ OrderOf(r)' = OrderOf(r)
    PROVE  CheckoutInv'
BY DEF CheckoutInv

\* Nothing happens at Stripe or to workers, no transaction becomes completed, those that
\* the payout holds stay completed, and what is recorded of the seller's money stays.
LEMMA MoneyKept ==
    ASSUME ActorShapes, EventsAreTrue, PaidInv, PayoutInv, ReversalInv, LedgerMatchesStripe,
           UNCHANGED <<worker, events, payout, stripeVars>>,
           \A o \in Order : /\ tx'[o].transfer = tx[o].transfer
                            /\ tx'[o].reversal = tx[o].reversal
                            /\ tx'[o].status = "completed" <=> tx[o].status = "completed",
           \A o \in Order : purchase'[o] = "active" => purchase[o] = "active"
    PROVE  EventsAreTrue' /\ PaidInv' /\ PayoutInv' /\ ReversalInv' /\ LedgerMatchesStripe'
<1> USE DEF stripeVars
<1>1. EventsAreTrue'
  BY DEF EventsAreTrue
<1>2. PaidInv'
  BY DEF PaidInv, AccessIsPaid
<1>3. PayoutInv'
  BY DEF PayoutInv, ActorShapes
<1>4. ReversalInv'
  BY DEF ReversalInv, ActorShapes
<1>5. LedgerMatchesStripe'
  BY DEF LedgerMatchesStripe
<1>6. QED
  BY <1>1, <1>2, <1>3, <1>4, <1>5

(***************************************************************************)
(* Purchase requests.                                                      *)
(***************************************************************************)

\* A step of one request, with what it does to its order's rows.
LEMMA RequestGoesOn ==
    ASSUME BillingInv, NEW r \in Requests, NEW x,
           request' = [request EXCEPT ![r] = x],
           x.pc # "idle" => /\ DOMAIN x = {"pc", "buyer", "order", "retry"}
                            /\ x.buyer \in Buyers /\ x.order \in 1 .. MaxOrders,
           x.pc \in {"session", "abandon"} =>
               /\ Opens(r)
               /\ <<x.buyer, x.order>> = OrderOf(r),
           UNCHANGED <<worker, payout, session, charge>>,
           \A o \in Order : purchase'[o] = "none" => purchase[o] = "none"
    PROVE  ActorShapes' /\ CheckoutInv'
<1>1. /\ request' = [s \in Requests |-> request'[s]]
      /\ request'[r] = x /\ \A s \in Requests \ {r} : request'[s] = request[s]
  BY DEF BillingInv, ActorShapes
<1>2. ActorShapes'
  BY <1>1 DEF BillingInv, ActorShapes
<1>3. \A s \in Requests : Opens(s) => OrderOf(s) \in Order
  BY DEF BillingInv, ActorShapes, Opens, OrderOf, Order
<1>4. \A s \in Requests : Opens(s)' => Opens(s) /\ OrderOf(s)' = OrderOf(s)
  BY <1>1 DEF Opens, OrderOf
<1>5. CheckoutInv'
  BY <1>3, <1>4, CheckoutKept DEF BillingInv
<1>6. QED
  BY <1>2, <1>5

LEMMA GotoEffect ==
    ASSUME ActorShapes, NEW r \in Requests, request[r].pc # "idle", NEW pc, Goto(r, pc)
    PROVE  \E x : /\ request' = [request EXCEPT ![r] = x]
                  /\ DOMAIN x = {"pc", "buyer", "order", "retry"}
                  /\ x.pc = pc /\ x.buyer = request[r].buyer /\ x.order = request[r].order
<1> DEFINE x == [request[r] EXCEPT !.pc = pc]
<1>1. request' = [request EXCEPT ![r] = x]
  BY DEF Goto
<1>2. /\ DOMAIN x = {"pc", "buyer", "order", "retry"}
      /\ x.pc = pc /\ x.buyer = request[r].buyer /\ x.order = request[r].order
  BY DEF ActorShapes
<1> HIDE DEF x
<1>3. QED
  BY <1>1, <1>2

\* A request that only moves on, returns or dies.
LEMMA RequestMoves ==
    ASSUME BillingInv, NEW r \in Requests,
           \/ request[r].pc # "idle" /\ \E pc \in {"lookup", "terminate", "store"} : Goto(r, pc)
           \/ request[r].pc = "session" /\ Goto(r, "abandon")
           \/ Return(r),
           UNCHANGED <<ledger, worker, events, payout, due, stripeVars>>
    PROVE  BillingInv'
<1> USE DEF ledger, stripeVars
<1>1. PICK x : /\ request' = [request EXCEPT ![r] = x]
               /\ x.pc # "idle" => /\ DOMAIN x = {"pc", "buyer", "order", "retry"}
                                   /\ x.buyer \in Buyers /\ x.order \in 1 .. MaxOrders
               /\ x.pc \in {"session", "abandon"} => Opens(r) /\ <<x.buyer, x.order>> = OrderOf(r)
  <2>1. CASE Return(r)
    <3>1. request' = [request EXCEPT ![r] = Idle] /\ Idle.pc = "idle"
      BY <2>1 DEF Return, Idle
    <3>2. QED
      BY <3>1
  <2>2. ASSUME NEW pc \in {"lookup", "terminate", "store", "abandon"}, Goto(r, pc),
               request[r].pc # "idle", pc = "abandon" => request[r].pc = "session"
        PROVE  \E x : /\ request' = [request EXCEPT ![r] = x]
                      /\ x.pc # "idle" => /\ DOMAIN x = {"pc", "buyer", "order", "retry"}
                                          /\ x.buyer \in Buyers /\ x.order \in 1 .. MaxOrders
                      /\ x.pc \in {"session", "abandon"} => Opens(r) /\ <<x.buyer, x.order>> = OrderOf(r)
    <3>1. PICK x : /\ request' = [request EXCEPT ![r] = x]
                   /\ DOMAIN x = {"pc", "buyer", "order", "retry"}
                   /\ x.pc = pc /\ x.buyer = request[r].buyer /\ x.order = request[r].order
      BY <2>2, GotoEffect DEF BillingInv
    <3>2. x.buyer \in Buyers /\ x.order \in 1 .. MaxOrders
      BY <2>2, <3>1 DEF BillingInv, ActorShapes
    <3>3. pc = "abandon" => Opens(r)
      BY <2>2 DEF Opens
    <3>4. QED
      BY <3>1, <3>2, <3>3 DEF OrderOf
  <2>3. QED
    BY <2>1, <2>2
<1>2. ActorShapes' /\ CheckoutInv'
  BY <1>1, RequestGoesOn
<1>3. EventsAreTrue' /\ PaidInv' /\ PayoutInv' /\ ReversalInv' /\ LedgerMatchesStripe'
  BY MoneyKept DEF BillingInv
<1>4. RowShapes' /\ OneOpenInv'
  BY DEF BillingInv, RowShapes, OneOpenInv
<1>5. QED
  BY <1>2, <1>3, <1>4 DEF BillingInv

LEMMA AskStep == ASSUME BillingInv, NEW r \in Requests, NEW b \in Buyers, Ask(r, b) PROVE BillingInv'
<1> DEFINE x == [pc |-> "begin", buyer |-> b, order |-> 1, retry |-> TRUE]
<1>1. request' = [request EXCEPT ![r] = x] /\ UNCHANGED <<ledger, worker, events, payout, due, stripeVars>>
  BY DEF Ask
<1>2. DOMAIN x = {"pc", "buyer", "order", "retry"} /\ x.buyer \in Buyers /\ x.order \in 1 .. MaxOrders
  BY OrdersAssumption
<1>3. x.pc = "begin"
  OBVIOUS
<1> HIDE DEF x
<1>4. ActorShapes' /\ CheckoutInv'
  BY <1>1, <1>2, <1>3, RequestGoesOn DEF ledger, stripeVars
<1>5. EventsAreTrue' /\ PaidInv' /\ PayoutInv' /\ ReversalInv' /\ LedgerMatchesStripe'
  BY <1>1, MoneyKept DEF BillingInv, ledger, stripeVars
<1>6. RowShapes' /\ OneOpenInv'
  BY <1>1 DEF BillingInv, RowShapes, OneOpenInv, ledger, stripeVars
<1>7. QED
  BY <1>4, <1>5, <1>6 DEF BillingInv

LEMMA LookupStep ==
    ASSUME BillingInv, NEW r \in Requests, Lookup(r) \/ CreateSessionFails(r) \/ RequestCrash(r)
    PROVE  BillingInv'
<1>1. UNCHANGED <<ledger, worker, events, payout, due, stripeVars>>
  BY DEF Lookup, CreateSessionFails, RequestCrash
<1>2. \/ request[r].pc = "lookup" /\ Goto(r, "terminate")
      \/ request[r].pc = "session" /\ Goto(r, "abandon")
      \/ Return(r)
  BY DEF Lookup, CreateSessionFails, RequestCrash
<1>3. QED
  BY <1>1, <1>2, RequestMoves

\* A request that found an open purchase.
LEMMA FindStep ==
    ASSUME BillingInv, NEW r \in Requests, request[r].pc = "begin",
           NEW o \in Open(request[r].buyer),
           request' = [request EXCEPT ![r].pc = "lookup", ![r].order = o[2]],
           UNCHANGED <<ledger, worker, events, payout, due, stripeVars>>
    PROVE  BillingInv'
<1> DEFINE x == [request[r] EXCEPT !.pc = "lookup", !.order = o[2]]
<1>1. request' = [request EXCEPT ![r] = x]
  OBVIOUS
<1>2. o \in Order
  BY DEF Open, OrdersOf
<1>3. /\ DOMAIN x = {"pc", "buyer", "order", "retry"} /\ x.buyer \in Buyers
      /\ x.order \in 1 .. MaxOrders /\ x.pc = "lookup"
  BY <1>2 DEF BillingInv, ActorShapes, Order
<1> HIDE DEF x
<1>4. ActorShapes' /\ CheckoutInv'
  BY <1>1, <1>3, RequestGoesOn DEF ledger, stripeVars
<1>5. EventsAreTrue' /\ PaidInv' /\ PayoutInv' /\ ReversalInv' /\ LedgerMatchesStripe'
  BY MoneyKept DEF BillingInv, ledger, stripeVars
<1>6. RowShapes' /\ OneOpenInv'
  BY DEF BillingInv, RowShapes, OneOpenInv, ledger, stripeVars
<1>7. QED
  BY <1>4, <1>5, <1>6 DEF BillingInv

\* A request that inserts a purchase: the index lets it be the only open one, and the
\* request alone will open its session.
LEMMA InsertStep ==
    ASSUME BillingInv, NEW r \in Requests, request[r].pc = "begin",
           NEW n \in 1 .. MaxOrders, NEW o, o = <<request[r].buyer, n>>,
           purchase[o] = "none", IndexAllows(o),
           purchase' = [purchase EXCEPT ![o] = "pending"],
           tx' = [tx EXCEPT ![o].status = "pending"],
           request' = [request EXCEPT ![r].pc = "session", ![r].order = n],
           UNCHANGED <<worker, events, payout, due, stripeVars>>
    PROVE  BillingInv'
<1> USE DEF stripeVars
<1>1. o \in Order /\ o[1] = request[r].buyer
  BY DEF BillingInv, ActorShapes, Order
<1>2. /\ session[o] = "none" /\ charge[o] = "none" /\ tx[o].status # "completed"
  BY <1>1 DEF BillingInv, CheckoutInv, PaidInv, Paid
<1>3. /\ tx' = [p \in Order |-> tx'[p]] /\ DOMAIN tx'[o] = TxFields
      /\ \A p \in Order : p # o => tx'[p] = tx[p]
      /\ tx'[o].status = "pending" /\ tx'[o].transfer = tx[o].transfer /\ tx'[o].reversal = tx[o].reversal
  BY <1>1 DEF BillingInv, RowShapes, TxFields
<1>4. purchase'[o] = "pending" /\ \A p \in Order : p # o => purchase'[p] = purchase[p]
  BY <1>1 DEF BillingInv, RowShapes
<1>5. RowShapes'
  BY <1>1, <1>3, <1>4 DEF BillingInv, RowShapes, PurchaseStatus
<1>6. /\ request' = [s \in Requests |-> request'[s]]
      /\ \A s \in Requests \ {r} : request'[s] = request[s]
      /\ DOMAIN request'[r] = {"pc", "buyer", "order", "retry"}
      /\ request'[r].pc = "session" /\ request'[r].buyer = request[r].buyer /\ request'[r].order = n
  BY DEF BillingInv, ActorShapes
<1>7. ActorShapes'
  BY <1>6 DEF BillingInv, ActorShapes
<1>8. CheckoutInv'
  <2>1. \A s \in Requests \ {r} : Opens(s)' = Opens(s) /\ OrderOf(s)' = OrderOf(s)
    BY <1>6 DEF Opens, OrderOf
  <2>2. OrderOf(r)' = o
    BY <1>6 DEF OrderOf
  <2>3. \A s \in Requests : Opens(s) => purchase[OrderOf(s)] # "none" /\ OrderOf(s) \in Order
    BY DEF BillingInv, CheckoutInv, ActorShapes, Opens, OrderOf, Order
  <2>4. \A s \in Requests \ {r} : Opens(s) => OrderOf(s) # o
    BY <2>3
  <2>5. \A p \in Order : purchase'[p] = "none" => purchase[p] = "none"
    BY <1>4
  <2>6. session' = session /\ charge' = charge
    OBVIOUS
  <2>7. \A s \in Requests : Opens(s)' => purchase'[OrderOf(s)'] # "none" /\ session'[OrderOf(s)'] = "none"
    BY <1>1, <1>2, <1>4, <2>1, <2>2, <2>3, <2>6 DEF BillingInv, CheckoutInv
  <2>8. \A s, t \in Requests : Opens(s)' /\ Opens(t)' /\ s # t => OrderOf(s)' # OrderOf(t)'
    BY <2>1, <2>2, <2>4 DEF BillingInv, CheckoutInv
  <2>9. QED
    BY <2>5, <2>6, <2>7, <2>8 DEF BillingInv, CheckoutInv
<1>9. EventsAreTrue' /\ PaidInv' /\ PayoutInv' /\ ReversalInv' /\ LedgerMatchesStripe'
  BY <1>1, <1>2, <1>3, <1>4, MoneyKept DEF BillingInv
<1>10. OneOpenInv'
  <2>1. \A p \in Order : p[1] = o[1] /\ purchase[p] \in {"pending", "active"} => p = o
    BY <1>1 DEF IndexAllows, Open, OrdersOf
  <2>2. QED
    BY <1>1, <1>4, <2>1 DEF BillingInv, OneOpenInv
<1>11. QED
  BY <1>5, <1>7, <1>8, <1>9, <1>10 DEF BillingInv

LEMMA BeginStep == ASSUME BillingInv, NEW r \in Requests, Begin(r) PROVE BillingInv'
<1>1. request[r].pc = "begin" /\ UNCHANGED <<worker, events, payout, due, stripeVars>>
  BY DEF Begin
<1>2. CASE Return(r) /\ UNCHANGED ledger
  BY <1>1, <1>2, RequestMoves
<1>3. ASSUME NEW o \in Open(request[r].buyer), UNCHANGED ledger,
             request' = [request EXCEPT ![r].pc = "lookup", ![r].order = o[2]]
      PROVE  BillingInv'
  BY <1>1, <1>3, FindStep
<1>4. ASSUME NEW n \in 1 .. MaxOrders, purchase[<<request[r].buyer, n>>] = "none",
             IndexAllows(<<request[r].buyer, n>>),
             purchase' = [purchase EXCEPT ![<<request[r].buyer, n>>] = "pending"],
             tx' = [tx EXCEPT ![<<request[r].buyer, n>>].status = "pending"],
             request' = [request EXCEPT ![r].pc = "session", ![r].order = n]
      PROVE  BillingInv'
  BY <1>1, <1>4, InsertStep
<1>5. QED
  BY <1>2, <1>3, <1>4 DEF Begin

LEMMA TerminateStep == ASSUME BillingInv, NEW r \in Requests, TerminateStale(r) PROVE BillingInv'
<1> DEFINE b == request[r].buyer
           o == OrderOf(r)
           x == [request[r] EXCEPT !.pc = "begin", !.retry = FALSE]
<1>1. request[r].pc = "terminate" /\ b \in Buyers /\ o \in Order
  BY DEF TerminateStale, BillingInv, ActorShapes, OrderOf, Order
<1>2. /\ purchase' = [purchase EXCEPT ![o] = "terminated"]
      /\ request' = [request EXCEPT ![r] = x]
      /\ UNCHANGED <<worker, events, payout, due, stripeVars, offered, budget>>
  BY DEF TerminateStale, OrderOf
<1>3. tx' = [p \in Order |-> IF p \in LatestPending(b) THEN [tx[p] EXCEPT !.status = "failed"] ELSE tx[p]]
  BY DEF TerminateStale
<1>4. /\ DOMAIN x = {"pc", "buyer", "order", "retry"} /\ x.pc = "begin"
      /\ x.buyer \in Buyers /\ x.order \in 1 .. MaxOrders
  BY <1>1 DEF BillingInv, ActorShapes
<1>5. \A p \in LatestPending(b) : tx[p].status = "pending"
  BY <1>1, LatestPendingIsPending
<1> HIDE DEF x, o, b
<1>6. /\ tx' = [p \in Order |-> tx'[p]]
      /\ \A p \in Order : /\ DOMAIN tx'[p] = TxFields
                          /\ tx'[p].transfer = tx[p].transfer /\ tx'[p].reversal = tx[p].reversal
                          /\ tx'[p].status = "completed" <=> tx[p].status = "completed"
  BY <1>3, <1>5 DEF BillingInv, RowShapes, TxFields
<1>7. purchase'[o] = "terminated" /\ \A p \in Order : p # o => purchase'[p] = purchase[p]
  BY <1>1, <1>2 DEF BillingInv, RowShapes
<1>8. ActorShapes' /\ CheckoutInv'
  BY <1>2, <1>4, <1>7, RequestGoesOn DEF stripeVars
<1>9. EventsAreTrue' /\ PaidInv' /\ PayoutInv' /\ ReversalInv' /\ LedgerMatchesStripe'
  BY <1>2, <1>6, <1>7, MoneyKept DEF BillingInv
<1>10. RowShapes' /\ OneOpenInv'
  BY <1>1, <1>2, <1>6, <1>7 DEF BillingInv, RowShapes, OneOpenInv, stripeVars, PurchaseStatus
<1>11. QED
  BY <1>8, <1>9, <1>10 DEF BillingInv

LEMMA AbandonStep == ASSUME BillingInv, NEW r \in Requests, Abandon(r) PROVE BillingInv'
<1> DEFINE o == OrderOf(r)
<1>1. Opens(r) /\ o \in Order /\ Return(r)
  BY DEF Abandon, BillingInv, ActorShapes, OrderOf, Order, Opens
<1>2. /\ purchase' = [purchase EXCEPT ![o] = "terminated"]
      /\ tx' = [tx EXCEPT ![o].status = "failed"]
      /\ UNCHANGED <<worker, events, payout, due, stripeVars, offered, budget>>
  BY DEF Abandon, OrderOf
<1>3. tx[o].status # "completed"
  <2>1. session[o] = "none"
    BY <1>1 DEF BillingInv, CheckoutInv
  <2>2. charge[o] = "none"
    BY <1>1, <2>1 DEF BillingInv, CheckoutInv
  <2>3. QED
    BY <1>1, <2>2 DEF BillingInv, PaidInv, Paid
<1> HIDE DEF o
<1>4. /\ tx' = [p \in Order |-> tx'[p]]
      /\ \A p \in Order : /\ DOMAIN tx'[p] = TxFields
                          /\ tx'[p].transfer = tx[p].transfer /\ tx'[p].reversal = tx[p].reversal
                          /\ tx'[p].status = "completed" <=> tx[p].status = "completed"
  BY <1>1, <1>2, <1>3 DEF BillingInv, RowShapes, TxFields
<1>5. purchase'[o] = "terminated" /\ \A p \in Order : p # o => purchase'[p] = purchase[p]
  BY <1>1, <1>2 DEF BillingInv, RowShapes
<1>6. request' = [request EXCEPT ![r] = Idle] /\ Idle.pc = "idle"
  BY <1>1 DEF Return, Idle
<1>7. ActorShapes' /\ CheckoutInv'
  BY <1>2, <1>5, <1>6, RequestGoesOn DEF stripeVars
<1>8. EventsAreTrue' /\ PaidInv' /\ PayoutInv' /\ ReversalInv' /\ LedgerMatchesStripe'
  BY <1>2, <1>4, <1>5, MoneyKept DEF BillingInv
<1>9. RowShapes' /\ OneOpenInv'
  BY <1>1, <1>2, <1>4, <1>5 DEF BillingInv, RowShapes, OneOpenInv, stripeVars, PurchaseStatus
<1>10. QED
  BY <1>7, <1>8, <1>9 DEF BillingInv

LEMMA StoreStep == ASSUME BillingInv, NEW r \in Requests, StoreSession(r) PROVE BillingInv'
<1> DEFINE o == OrderOf(r)
<1>1. o \in Order /\ Return(r)
  BY DEF StoreSession, BillingInv, ActorShapes, OrderOf, Order
<1>2. /\ tx' = [tx EXCEPT ![o].ref = "session"]
      /\ UNCHANGED <<purchase, worker, events, payout, due, stripeVars, budget>>
  BY DEF StoreSession, OrderOf
<1> HIDE DEF o
<1>3. /\ tx' = [p \in Order |-> tx'[p]]
      /\ \A p \in Order : /\ DOMAIN tx'[p] = TxFields
                          /\ tx'[p].transfer = tx[p].transfer /\ tx'[p].reversal = tx[p].reversal
                          /\ tx'[p].status = "completed" <=> tx[p].status = "completed"
  BY <1>1, <1>2 DEF BillingInv, RowShapes, TxFields
<1>4. request' = [request EXCEPT ![r] = Idle] /\ Idle.pc = "idle"
  BY <1>1 DEF Return, Idle
<1>5. ActorShapes' /\ CheckoutInv'
  BY <1>2, <1>4, RequestGoesOn DEF stripeVars
<1>6. EventsAreTrue' /\ PaidInv' /\ PayoutInv' /\ ReversalInv' /\ LedgerMatchesStripe'
  BY <1>2, <1>3, MoneyKept DEF BillingInv
<1>7. RowShapes' /\ OneOpenInv'
  BY <1>2, <1>3 DEF BillingInv, RowShapes, OneOpenInv, stripeVars
<1>8. QED
  BY <1>5, <1>6, <1>7 DEF BillingInv

LEMMA CreateSessionStep == ASSUME BillingInv, NEW r \in Requests, CreateSession(r) PROVE BillingInv'
<1> DEFINE o == OrderOf(r)
<1>1. Opens(r) /\ o \in Order /\ request[r].pc = "session" /\ Goto(r, "store")
  BY DEF CreateSession, BillingInv, ActorShapes, OrderOf, Order, Opens
<1>2. /\ session' = [session EXCEPT ![o] = "open"]
      /\ UNCHANGED <<ledger, worker, events, payout, due, charge, transfers, reversed>>
  BY DEF CreateSession, OrderOf
<1>3. session[o] = "none" /\ purchase[o] # "none" /\ charge[o] = "none"
  BY <1>1 DEF BillingInv, CheckoutInv
<1>4. \A s \in Requests \ {r} : Opens(s) => OrderOf(s) # o
  BY <1>1 DEF BillingInv, CheckoutInv
<1> HIDE DEF o
<1>5. PICK x : /\ request' = [request EXCEPT ![r] = x]
               /\ DOMAIN x = {"pc", "buyer", "order", "retry"}
               /\ x.pc = "store" /\ x.buyer = request[r].buyer /\ x.order = request[r].order
  BY <1>1, GotoEffect DEF BillingInv
<1>6. /\ request' = [s \in Requests |-> request'[s]] /\ request'[r] = x
      /\ \A s \in Requests \ {r} : request'[s] = request[s]
  BY <1>5 DEF BillingInv, ActorShapes
<1>7. ActorShapes'
  BY <1>1, <1>2, <1>5, <1>6 DEF BillingInv, ActorShapes
<1>8. CheckoutInv'
  <2>1. ~ Opens(r)' /\ \A s \in Requests \ {r} : Opens(s)' = Opens(s) /\ OrderOf(s)' = OrderOf(s)
    BY <1>5, <1>6 DEF Opens, OrderOf
  <2>2. /\ session' = [p \in Order |-> session'[p]] /\ session'[o] = "open"
        /\ \A p \in Order : p # o => session'[p] = session[p]
    BY <1>1, <1>2 DEF BillingInv, RowShapes
  <2>3. purchase' = purchase /\ charge' = charge
    BY <1>2 DEF ledger
  <2>4. \A s \in Requests : Opens(s) => OrderOf(s) \in Order
    BY DEF BillingInv, ActorShapes, Opens, OrderOf, Order
  <2>5. \A s \in Requests : Opens(s)' => purchase'[OrderOf(s)'] # "none" /\ session'[OrderOf(s)'] = "none"
    BY <1>4, <2>1, <2>2, <2>3, <2>4 DEF BillingInv, CheckoutInv
  <2>6. \A s, t \in Requests : Opens(s)' /\ Opens(t)' /\ s # t => OrderOf(s)' # OrderOf(t)'
    BY <2>1 DEF BillingInv, CheckoutInv
  <2>7. \A p \in Order : /\ purchase'[p] = "none" => session'[p] = "none"
                         /\ charge'[p] # "none" => session'[p] = "complete"
    BY <1>3, <2>2, <2>3 DEF BillingInv, CheckoutInv
  <2>8. QED
    BY <2>5, <2>6, <2>7 DEF CheckoutInv
<1>9. EventsAreTrue' /\ PaidInv' /\ PayoutInv' /\ ReversalInv' /\ LedgerMatchesStripe'
  BY <1>2 DEF BillingInv, EventsAreTrue, PaidInv, AccessIsPaid, PayoutInv, ReversalInv,
              LedgerMatchesStripe, ledger
<1>10. RowShapes' /\ OneOpenInv'
  BY <1>1, <1>2 DEF BillingInv, RowShapes, OneOpenInv, ledger
<1>11. QED
  BY <1>7, <1>8, <1>9, <1>10 DEF BillingInv

LEMMA PurchaseStep == ASSUME BillingInv, NEW r \in Requests, PurchaseTool(r) PROVE BillingInv'
BY BeginStep, LookupStep, TerminateStep, CreateSessionStep, StoreStep, AbandonStep DEF PurchaseTool

(***************************************************************************)
(* Stripe.                                                                 *)
(***************************************************************************)

\* One order's session or charge moves on, and events say nothing that is not so.
LEMMA StripeMoves ==
    ASSUME BillingInv, NEW o \in Order, NEW s, NEW c, NEW kinds,
           session' = [session EXCEPT ![o] = s], charge' = [charge EXCEPT ![o] = c],
           Emit(kinds, o),
           s = "none" <=> session[o] = "none",
           c # "none" => s = "complete",
           charge[o] \in Paid => c \in Paid,
           charge[o] = "refunded" => c = "refunded",
           \A k \in PaidKinds \cap kinds : c \in Paid,
           "full_refund" \in kinds => c = "refunded",
           UNCHANGED <<ledger, request, worker, payout, due, transfers, reversed>>
    PROVE  BillingInv'
<1> USE DEF ledger
<1>1. /\ session' = [p \in Order |-> session'[p]] /\ session'[o] = s
      /\ \A p \in Order : p # o => session'[p] = session[p]
      /\ charge' = [p \in Order |-> charge'[p]] /\ charge'[o] = c
      /\ \A p \in Order : p # o => charge'[p] = charge[p]
  BY DEF BillingInv, RowShapes
<1>2. RowShapes' /\ ActorShapes' /\ OneOpenInv'
  BY <1>1 DEF BillingInv, RowShapes, ActorShapes, OneOpenInv
<1>3. CheckoutInv'
  <2>1. \A r \in Requests : Opens(r)' = Opens(r) /\ OrderOf(r)' = OrderOf(r)
    BY DEF Opens, OrderOf
  <2>2. \A r \in Requests : Opens(r) => OrderOf(r) \in Order
    BY DEF BillingInv, ActorShapes, Opens, OrderOf, Order
  <2>3. QED
    BY <1>1, <2>1, <2>2 DEF BillingInv, CheckoutInv
<1>4. \A p \in Order : /\ charge[p] \in Paid => charge'[p] \in Paid
                       /\ charge[p] = "refunded" => charge'[p] = "refunded"
  BY <1>1
<1>5. EventsAreTrue'
  <2>1. \A k, p : <<k, p>> \in events' => <<k, p>> \in events \/ (k \in kinds /\ p = o)
    BY DEF Emit
  <2>2. \A p \in Order : \A k \in PaidKinds : <<k, p>> \in events' => charge'[p] \in Paid
    <3> SUFFICES ASSUME NEW p \in Order, NEW k \in PaidKinds, <<k, p>> \in events'
                 PROVE  charge'[p] \in Paid
      OBVIOUS
    <3>1. CASE <<k, p>> \in events
      <4>1. charge[p] \in Paid
        BY <3>1 DEF BillingInv, EventsAreTrue
      <4>2. QED
        BY <1>4, <4>1
    <3>2. CASE k \in kinds /\ p = o
      BY <1>1, <3>2
    <3>3. QED
      BY <2>1, <3>1, <3>2
  <2>3. \A p \in Order : <<"full_refund", p>> \in events' => charge'[p] = "refunded"
    BY <1>1, <1>4, <2>1 DEF BillingInv, EventsAreTrue
  <2>4. \A w \in Workers : worker[w].pc # "idle" => worker[w].order \in Order
    BY DEF BillingInv, ActorShapes
  <2>5. QED
    BY <1>4, <2>2, <2>3, <2>4 DEF BillingInv, EventsAreTrue
<1>6. PaidInv'
  BY <1>4 DEF BillingInv, PaidInv, AccessIsPaid, Paid
<1>7. PayoutInv' /\ ReversalInv'
  BY DEF BillingInv, PayoutInv, ReversalInv
<1>8. LedgerMatchesStripe'
  BY <1>4 DEF BillingInv, LedgerMatchesStripe
<1>9. QED
  BY <1>2, <1>3, <1>5, <1>6, <1>7, <1>8 DEF BillingInv

LEMMA StripeKeeps == ASSUME BillingInv, StripeStep PROVE BillingInv'
<1> PICK o \in Order : \/ SubmitPayment(o) \/ ChargeSucceeds(o) \/ ChargeFails(o)
                       \/ CardDeclined(o) \/ SessionExpires(o) \/ Refund(o)
  BY DEF StripeStep
<1>0. /\ charge[o] # "none" => session[o] = "complete"
      /\ session = [session EXCEPT ![o] = session[o]]
      /\ charge = [charge EXCEPT ![o] = charge[o]]
  BY DEF BillingInv, CheckoutInv, RowShapes
<1> USE DEF Paid, PaidKinds, stripeVars
<1>1. CASE SubmitPayment(o)
  <2>1. session[o] = "open" /\ session' = [session EXCEPT ![o] = "complete"] /\ charge[o] = "none"
    BY <1>0, <1>1 DEF SubmitPayment
  <2>2. UNCHANGED <<ledger, request, worker, payout, due, transfers, reversed>>
    BY <1>1 DEF SubmitPayment
  <2>3. CASE charge' = [charge EXCEPT ![o] = "paid"] /\ Emit({"completed", "intent_succeeded"}, o)
    BY <2>1, <2>2, <2>3, StripeMoves
  <2>4. CASE charge' = [charge EXCEPT ![o] = "processing"] /\ Emit({"submitted"}, o)
    BY <2>1, <2>2, <2>4, StripeMoves
  <2>5. QED
    BY <1>1, <2>3, <2>4 DEF SubmitPayment
<1>2. CASE ChargeSucceeds(o)
  <2>1. /\ charge[o] = "processing" /\ charge' = [charge EXCEPT ![o] = "paid"]
        /\ Emit({"completed", "intent_succeeded"}, o)
        /\ session' = [session EXCEPT ![o] = session[o]] /\ session[o] = "complete"
        /\ UNCHANGED <<ledger, request, worker, payout, due, transfers, reversed>>
    BY <1>0, <1>2 DEF ChargeSucceeds
  <2>2. QED
    BY <2>1, StripeMoves
<1>3. CASE ChargeFails(o)
  <2>1. /\ charge[o] = "processing" /\ charge' = [charge EXCEPT ![o] = "none"]
        /\ Emit({"expired", "intent_failed"}, o)
        /\ session' = [session EXCEPT ![o] = session[o]]
        /\ UNCHANGED <<ledger, request, worker, payout, due, transfers, reversed>>
    BY <1>0, <1>3 DEF ChargeFails
  <2>2. QED
    BY <2>1, StripeMoves
<1>4. CASE CardDeclined(o)
  <2>1. /\ charge' = [charge EXCEPT ![o] = charge[o]] /\ Emit({"intent_failed"}, o)
        /\ session' = [session EXCEPT ![o] = session[o]]
        /\ UNCHANGED <<ledger, request, worker, payout, due, transfers, reversed>>
    BY <1>0, <1>4 DEF CardDeclined
  <2>2. QED
    BY <1>0, <2>1, StripeMoves
<1>5. CASE SessionExpires(o)
  <2>1. /\ session[o] = "open" /\ session' = [session EXCEPT ![o] = "expired"] /\ charge[o] = "none"
        /\ charge' = [charge EXCEPT ![o] = charge[o]] /\ Emit({"expired"}, o)
        /\ UNCHANGED <<ledger, request, worker, payout, due, transfers, reversed>>
    BY <1>0, <1>5 DEF SessionExpires
  <2>2. QED
    BY <2>1, StripeMoves
<1>6. CASE Refund(o)
  <2>1. /\ session' = [session EXCEPT ![o] = session[o]] /\ charge[o] \in {"paid", "partial"}
        /\ session[o] = "complete"
        /\ UNCHANGED <<ledger, request, worker, payout, due, transfers, reversed>>
    BY <1>0, <1>6 DEF Refund
  <2>2. CASE charge[o] = "paid" /\ charge' = [charge EXCEPT ![o] = "partial"] /\ Emit({"partial_refund"}, o)
    BY <2>1, <2>2, StripeMoves
  <2>3. CASE charge' = [charge EXCEPT ![o] = "refunded"] /\ Emit({"full_refund"}, o)
    BY <2>1, <2>3, StripeMoves
  <2>4. QED
    BY <1>6, <2>2, <2>3 DEF Refund
<1>7. QED
  BY <1>1, <1>2, <1>3, <1>4, <1>5, <1>6

(***************************************************************************)
(* Webhook workers.                                                        *)
(***************************************************************************)

LEMMA TakeStep ==
    ASSUME BillingInv, NEW w \in Workers, NEW k \in EventKind, NEW o \in Order, TakeEvent(w, k, o)
    PROVE  BillingInv'
<1> USE DEF ledger, stripeVars
<1>1. /\ UNCHANGED <<ledger, request, payout, due, stripeVars>>
      /\ events' \subseteq events /\ <<k, o>> \in events
  BY DEF TakeEvent
<1>2. RowShapes' /\ OneOpenInv' /\ PaidInv' /\ PayoutInv' /\ LedgerMatchesStripe'
  BY <1>1 DEF BillingInv, RowShapes, OneOpenInv, PaidInv, AccessIsPaid, PayoutInv, LedgerMatchesStripe
<1>3. CheckoutInv'
  BY <1>1 DEF BillingInv, CheckoutInv, Opens, OrderOf
<1>4. CASE worker' = worker
  <2>1. ActorShapes' /\ ReversalInv'
    BY <1>1, <1>4 DEF BillingInv, ActorShapes, ReversalInv
  <2>2. EventsAreTrue'
    BY <1>1, <1>4 DEF BillingInv, EventsAreTrue
  <2>3. QED
    BY <1>2, <1>3, <2>1, <2>2 DEF BillingInv
<1>5. CASE worker' # worker
  <2> DEFINE x == [pc |-> "commit", kind |-> k, order |-> o, purchase |-> purchase[o],
                   tx |-> tx[o], open |-> Open(o[1])]
  <2>1. worker' = [worker EXCEPT ![w] = x] /\ k # "submitted" /\ events' = events
    BY <1>5 DEF TakeEvent, Ignored
  <2>2. /\ DOMAIN x = {"pc", "kind", "order", "purchase", "tx", "open"}
        /\ x.pc = "commit" /\ x.kind = k /\ x.order = o /\ x.tx = tx[o]
    OBVIOUS
  <2> HIDE DEF x
  <2>3. /\ worker' = [v \in Workers |-> worker'[v]] /\ worker'[w] = x
        /\ \A v \in Workers \ {w} : worker'[v] = worker[v]
    BY <2>1 DEF BillingInv, ActorShapes
  <2>4. ActorShapes'
    BY <1>1, <2>1, <2>2, <2>3 DEF BillingInv, ActorShapes
  <2>5. EventsAreTrue'
    <3>1. /\ k \in PaidKinds => charge[o] \in Paid
          /\ k = "full_refund" => charge[o] = "refunded"
      BY <1>1 DEF BillingInv, EventsAreTrue
    <3>2. QED
      BY <1>1, <2>1, <2>2, <2>3, <3>1 DEF BillingInv, EventsAreTrue
  <2>6. ReversalInv'
    BY <1>1, <2>2, <2>3 DEF BillingInv, ReversalInv
  <2>7. QED
    BY <1>2, <1>3, <2>4, <2>5, <2>6 DEF BillingInv
<1>6. QED
  BY <1>4, <1>5

\* A worker that leaves its event, and does nothing else.
LEMMA ReleaseStep ==
    ASSUME BillingInv, NEW w \in Workers, Release(w), events' \subseteq events,
           UNCHANGED <<ledger, request, payout, due, stripeVars>>
    PROVE  BillingInv'
<1> USE DEF ledger, stripeVars
<1>1. /\ worker' = [v \in Workers |-> worker'[v]] /\ worker'[w].pc = "idle"
      /\ \A v \in Workers \ {w} : worker'[v] = worker[v]
  BY DEF Release, Idle, BillingInv, ActorShapes
<1>2. RowShapes' /\ OneOpenInv' /\ PaidInv' /\ PayoutInv' /\ LedgerMatchesStripe'
  BY DEF BillingInv, RowShapes, OneOpenInv, PaidInv, AccessIsPaid, PayoutInv, LedgerMatchesStripe
<1>3. CheckoutInv'
  BY DEF BillingInv, CheckoutInv, Opens, OrderOf
<1>4. ActorShapes'
  BY <1>1 DEF BillingInv, ActorShapes
<1>5. EventsAreTrue' /\ ReversalInv'
  BY <1>1 DEF BillingInv, EventsAreTrue, ReversalInv
<1>6. QED
  BY <1>2, <1>3, <1>4, <1>5 DEF BillingInv

\* A worker goes on with its event, or leaves it, after it has assigned the status that
\* its event decides, and opened no purchase but one the index allows and a charge pays.
LEMMA HandlerGoesOn ==
    ASSUME BillingInv, NEW w \in Workers, worker[w].pc # "idle", SetTx(w),
           \/ Release(w)
           \/ /\ worker[w].kind = "full_refund" /\ worker[w].tx.transfer
              /\ worker' = [worker EXCEPT ![w].pc = "reverse"],
           events' \subseteq events,
           purchase' \in [Order -> PurchaseStatus \cup {"none"}],
           \A o \in Order :
              \/ purchase'[o] = purchase[o]
              \/ purchase'[o] = "terminated"
              \/ /\ purchase'[o] = "active" /\ IndexAllows(o)
                 /\ o = worker[w].order /\ worker[w].kind \in PaidKinds,
           UNCHANGED <<request, payout, due, stripeVars>>
    PROVE  BillingInv'
<1> USE DEF stripeVars
<1>0. worker[w].order \in Order /\ worker[w].kind \in EventKind \ {"submitted"}
  BY DEF BillingInv, ActorShapes
<1>1. /\ worker[w].order \notin Locked
      /\ tx' = [o \in Order |-> tx'[o]]
      /\ \A o \in Order :
            /\ DOMAIN tx'[o] = TxFields
            /\ tx'[o].transfer = tx[o].transfer
            /\ tx'[o].reversal = tx[o].reversal
            /\ o # worker[w].order => tx'[o] = tx[o]
            /\ tx'[o].status = "completed" =>
                  \/ tx[o].status = "completed"
                  \/ o = worker[w].order /\ worker[w].kind \in PaidKinds
  BY SetTxEffect DEF BillingInv
<1>2. /\ worker' = [v \in Workers |-> worker'[v]]
      /\ \A v \in Workers \ {w} : worker'[v] = worker[v]
      /\ \/ worker'[w].pc = "idle"
         \/ /\ DOMAIN worker'[w] = DOMAIN worker[w] /\ worker'[w].pc = "reverse"
            /\ worker'[w].kind = worker[w].kind /\ worker'[w].order = worker[w].order
            /\ worker'[w].tx = worker[w].tx
            /\ worker[w].kind = "full_refund" /\ worker[w].tx.transfer
  <2>1. CASE Release(w)
    BY <2>1 DEF Release, Idle, BillingInv, ActorShapes
  <2>2. CASE /\ worker[w].kind = "full_refund" /\ worker[w].tx.transfer
             /\ worker' = [worker EXCEPT ![w].pc = "reverse"]
    BY <2>2 DEF BillingInv, ActorShapes
  <2>3. QED
    BY <2>1, <2>2
<1>3. worker[w].kind \in PaidKinds => charge[worker[w].order] \in Paid
  BY DEF BillingInv, EventsAreTrue
<1>4. RowShapes' /\ ActorShapes'
  BY <1>0, <1>1, <1>2 DEF BillingInv, RowShapes, ActorShapes
<1>5. CheckoutInv'
  <2>1. \A o \in Order : purchase'[o] = "none" => purchase[o] = "none"
    OBVIOUS
  <2>2. \A r \in Requests : Opens(r) => OrderOf(r) \in Order
    BY DEF BillingInv, ActorShapes, Opens, OrderOf, Order
  <2>3. \A r \in Requests : Opens(r)' => Opens(r) /\ OrderOf(r)' = OrderOf(r)
    BY DEF Opens, OrderOf
  <2>4. QED
    BY <2>1, <2>2, <2>3, CheckoutKept DEF BillingInv
<1>6. EventsAreTrue'
  BY <1>2 DEF BillingInv, EventsAreTrue
<1>7. PaidInv'
  BY <1>1, <1>3 DEF BillingInv, PaidInv, AccessIsPaid, Paid
<1>8. OneOpenInv'
  BY DEF BillingInv, OneOpenInv, IndexAllows, Open, OrdersOf
<1>9. PayoutInv'
  BY <1>1 DEF BillingInv, PayoutInv, ActorShapes, Locked
<1>10. ReversalInv'
  BY <1>0, <1>1, <1>2 DEF BillingInv, ReversalInv, ActorShapes
<1>11. LedgerMatchesStripe'
  BY <1>1 DEF BillingInv, LedgerMatchesStripe
<1>12. QED
  BY <1>4, <1>5, <1>6, <1>7, <1>8, <1>9, <1>10, <1>11 DEF BillingInv

LEMMA CompleteStep == ASSUME BillingInv, NEW w \in Workers, CompleteCheckout(w) PROVE BillingInv'
<1> DEFINE o == worker[w].order
           activates == worker[w].purchase = "pending"
<1>1. /\ worker[w].pc = "commit" /\ worker[w].kind \in Completing /\ Release(w)
      /\ UNCHANGED <<request, payout, due, stripeVars>>
  BY DEF CompleteCheckout, Handling
<1>2. worker[w].kind \in PaidKinds /\ o \in Order
  BY <1>1 DEF BillingInv, ActorShapes, Completing, PaidKinds
<1>3. CASE activates /\ ~ IndexAllows(o)
  <2>1. UNCHANGED <<ledger, events>>
    BY <1>3 DEF CompleteCheckout
  <2>2. QED
    BY <1>1, <2>1, ReleaseStep
<1>4. CASE ~ (activates /\ ~ IndexAllows(o))
  <2>1. /\ purchase' = [purchase EXCEPT ![o] = IF activates THEN "active" ELSE purchase[o]]
        /\ SetTx(w) /\ Done(w)
    BY <1>4 DEF CompleteCheckout
  <2>2. events' \subseteq events
    BY <2>1 DEF Done
  <2>3. /\ purchase' \in [Order -> PurchaseStatus \cup {"none"}]
        /\ \A p \in Order : purchase'[p] = IF p = o /\ activates THEN "active" ELSE purchase[p]
    BY <1>2, <2>1 DEF BillingInv, RowShapes, PurchaseStatus
  <2>4. \A p \in Order : \/ purchase'[p] = purchase[p]
                         \/ purchase'[p] = "terminated"
                         \/ /\ purchase'[p] = "active" /\ IndexAllows(p)
                            /\ p = worker[w].order /\ worker[w].kind \in PaidKinds
    BY <1>2, <1>4, <2>3
  <2> HIDE DEF o, activates
  <2>5. QED
    BY <1>1, <2>1, <2>2, <2>3, <2>4, HandlerGoesOn
<1>5. QED
  BY <1>3, <1>4

LEMMA ExpireStep == ASSUME BillingInv, NEW w \in Workers, ExpireCheckout(w) PROVE BillingInv'
<1>1. /\ worker[w].pc = "commit" /\ Release(w) /\ SetTx(w) /\ Done(w)
      /\ UNCHANGED <<request, payout, due, stripeVars>>
  BY DEF ExpireCheckout, Handling
<1>2. events' \subseteq events
  BY <1>1 DEF Done
<1>3. /\ purchase' \in [Order -> PurchaseStatus \cup {"none"}]
      /\ \A p \in Order : purchase'[p] \in {purchase[p], "terminated"}
  BY DEF ExpireCheckout, BillingInv, RowShapes, PurchaseStatus
<1>4. QED
  BY <1>1, <1>2, <1>3, HandlerGoesOn

LEMMA UpdateStep == ASSUME BillingInv, NEW w \in Workers, UpdateTransactionStatus(w) PROVE BillingInv'
<1>1. /\ worker[w].pc = "commit" /\ Release(w) /\ SetTx(w) /\ Done(w) /\ purchase' = purchase
      /\ UNCHANGED <<request, payout, due, stripeVars>>
  BY DEF UpdateTransactionStatus, Handling
<1>2. events' \subseteq events /\ purchase' \in [Order -> PurchaseStatus \cup {"none"}]
  BY <1>1 DEF Done, BillingInv, RowShapes
<1>3. QED
  BY <1>1, <1>2, HandlerGoesOn

LEMMA RefundStep == ASSUME BillingInv, NEW w \in Workers, RefundCharge(w) PROVE BillingInv'
<1>1. /\ worker[w].pc = "commit" /\ worker[w].kind = "full_refund" /\ SetTx(w)
      /\ UNCHANGED <<request, payout, due, stripeVars>>
  BY DEF RefundCharge, Handling
<1>2. /\ events' \subseteq events
      /\ \/ Release(w)
         \/ worker[w].tx.transfer /\ worker' = [worker EXCEPT ![w].pc = "reverse"]
  BY DEF RefundCharge, AfterRefund, Done
<1>3. /\ purchase' \in [Order -> PurchaseStatus \cup {"none"}]
      /\ \A p \in Order : purchase'[p] \in {purchase[p], "terminated"}
  BY DEF RefundCharge, BillingInv, RowShapes, PurchaseStatus
<1>4. QED
  BY <1>1, <1>2, <1>3, HandlerGoesOn

LEMMA ReverseStep == ASSUME BillingInv, NEW w \in Workers, ReverseTransfer(w) PROVE BillingInv'
<1> USE DEF ledger
<1>1. /\ worker[w].pc = "reverse" /\ reversed' = reversed \cup {worker[w].order}
      /\ worker' = [worker EXCEPT ![w].pc = "record"]
      /\ UNCHANGED <<ledger, request, events, payout, due, session, charge, transfers>>
  BY DEF ReverseTransfer
<1>2. /\ worker[w].order \in Order /\ worker[w].kind = "full_refund"
      /\ tx[worker[w].order].transfer /\ charge[worker[w].order] = "refunded"
  BY <1>1 DEF BillingInv, ActorShapes, ReversalInv, EventsAreTrue
<1>3. /\ worker' = [v \in Workers |-> worker'[v]]
      /\ \A v \in Workers \ {w} : worker'[v] = worker[v]
      /\ DOMAIN worker'[w] = DOMAIN worker[w] /\ worker'[w].pc = "record"
      /\ worker'[w].kind = worker[w].kind /\ worker'[w].order = worker[w].order
      /\ worker'[w].tx = worker[w].tx
  BY <1>1 DEF BillingInv, ActorShapes
<1>4. RowShapes' /\ OneOpenInv' /\ PaidInv' /\ PayoutInv'
  BY <1>1, <1>2 DEF BillingInv, RowShapes, OneOpenInv, PaidInv, AccessIsPaid, PayoutInv
<1>5. CheckoutInv'
  BY <1>1 DEF BillingInv, CheckoutInv, Opens, OrderOf
<1>6. ActorShapes'
  BY <1>1, <1>3 DEF BillingInv, ActorShapes
<1>7. EventsAreTrue'
  BY <1>1, <1>3 DEF BillingInv, EventsAreTrue
<1>8. ReversalInv'
  BY <1>1, <1>3 DEF BillingInv, ReversalInv
<1>9. LedgerMatchesStripe'
  BY <1>1, <1>2 DEF BillingInv, LedgerMatchesStripe
<1>10. QED
  BY <1>4, <1>5, <1>6, <1>7, <1>8, <1>9 DEF BillingInv

LEMMA RecordStep == ASSUME BillingInv, NEW w \in Workers, RecordReversal(w) PROVE BillingInv'
<1> DEFINE o == worker[w].order
<1> USE DEF stripeVars
<1>1. /\ worker[w].pc = "record" /\ tx' = [tx EXCEPT ![o].reversal = TRUE] /\ Done(w) /\ Release(w)
      /\ UNCHANGED <<purchase, request, payout, due, stripeVars>>
  BY DEF RecordReversal
<1>2. o \in Order /\ o \in reversed
  BY <1>1 DEF BillingInv, ActorShapes, ReversalInv
<1>3. /\ worker' = [v \in Workers |-> worker'[v]] /\ worker'[w].pc = "idle"
      /\ \A v \in Workers \ {w} : worker'[v] = worker[v]
  BY <1>1 DEF Release, Idle, BillingInv, ActorShapes
<1> HIDE DEF o
<1>4. /\ tx' = [p \in Order |-> tx'[p]]
      /\ \A p \in Order : /\ DOMAIN tx'[p] = TxFields
                          /\ tx'[p].transfer = tx[p].transfer /\ tx'[p].status = tx[p].status
                          /\ p # o => tx'[p] = tx[p]
  BY <1>1, <1>2 DEF BillingInv, RowShapes, TxFields
<1>5. RowShapes' /\ OneOpenInv' /\ PaidInv'
  BY <1>1, <1>4 DEF BillingInv, RowShapes, OneOpenInv, PaidInv, AccessIsPaid
<1>6. CheckoutInv'
  BY <1>1 DEF BillingInv, CheckoutInv, Opens, OrderOf
<1>7. ActorShapes'
  BY <1>1, <1>3 DEF BillingInv, ActorShapes
<1>8. EventsAreTrue' /\ ReversalInv'
  BY <1>1, <1>3, <1>4 DEF BillingInv, EventsAreTrue, ReversalInv, ActorShapes, Done
<1>9. PayoutInv'
  BY <1>1, <1>4 DEF BillingInv, PayoutInv, ActorShapes
<1>10. LedgerMatchesStripe'
  BY <1>1, <1>2, <1>4 DEF BillingInv, LedgerMatchesStripe
<1>11. QED
  BY <1>5, <1>6, <1>7, <1>8, <1>9, <1>10 DEF BillingInv

LEMMA WorkerStep ==
    ASSUME BillingInv, NEW w \in Workers, FinishEvent(w) \/ HandlerFails(w)
    PROVE  BillingInv'
<1>1. CASE FinishEvent(w)
  BY <1>1, CompleteStep, ExpireStep, UpdateStep, RefundStep, ReverseStep, RecordStep DEF FinishEvent
<1>2. CASE HandlerFails(w)
  BY <1>2, ReleaseStep DEF HandlerFails
<1>3. QED
  BY <1>1, <1>2

(***************************************************************************)
(* The payout, and the whole.                                              *)
(***************************************************************************)

LEMMA PayoutStep ==
    ASSUME BillingInv, MonthEnds \/ PayoutSelect \/ PayoutTransfer \/ PayoutRecord \/ PayoutFails
    PROVE  BillingInv'
<1> USE DEF ledger, stripeVars
<1>1. UNCHANGED <<purchase, request, worker, events, session, charge, reversed>>
  BY DEF MonthEnds, PayoutSelect, PayoutTransfer, PayoutRecord, PayoutFails
<1>2. OneOpenInv' /\ EventsAreTrue'
  BY <1>1 DEF BillingInv, OneOpenInv, EventsAreTrue
<1>3. CheckoutInv'
  BY <1>1 DEF BillingInv, CheckoutInv, Opens, OrderOf
<1>4. CASE MonthEnds \/ PayoutSelect \/ PayoutTransfer \/ PayoutFails
  <2>1. tx' = tx /\ transfers \subseteq transfers' /\ due' \subseteq Order
    BY <1>4 DEF MonthEnds, PayoutSelect, PayoutTransfer, PayoutFails, BillingInv, RowShapes
  <2>2. RowShapes' /\ PaidInv' /\ ReversalInv'
    BY <1>1, <2>1 DEF BillingInv, RowShapes, PaidInv, AccessIsPaid, ReversalInv
  <2>3. LedgerMatchesStripe'
    BY <1>1, <2>1 DEF BillingInv, LedgerMatchesStripe
  <2>4. ActorShapes' /\ PayoutInv'
    <3>1. CASE MonthEnds
      BY <1>1, <2>1, <3>1 DEF MonthEnds, BillingInv, ActorShapes, PayoutInv
    <3>2. CASE PayoutSelect
      BY <1>1, <2>1, <3>2 DEF PayoutSelect, Payable, BillingInv, ActorShapes, PayoutInv, RowShapes
    <3>3. CASE PayoutTransfer
      <4>1. /\ payout.pc = "transfer" /\ DOMAIN payout' = DOMAIN payout
            /\ payout'.pc = "record" /\ payout'.orders = payout.orders /\ payout.orders \in transfers'
        BY <3>3 DEF PayoutTransfer, BillingInv, ActorShapes
      <4>2. QED
        BY <1>1, <4>1 DEF BillingInv, ActorShapes, PayoutInv
    <3>4. CASE PayoutFails
      BY <1>1, <3>4 DEF PayoutFails, Idle, BillingInv, ActorShapes, PayoutInv
    <3>5. QED
      BY <1>4, <3>1, <3>2, <3>3, <3>4
  <2>5. QED
    BY <1>2, <1>3, <2>2, <2>3, <2>4 DEF BillingInv
<1>5. CASE PayoutRecord
  <2>1. /\ payout.pc = "record" /\ payout' = Idle /\ payout.orders \in transfers
        /\ tx' = [o \in Order |-> IF o \in payout.orders THEN [tx[o] EXCEPT !.transfer = TRUE] ELSE tx[o]]
        /\ UNCHANGED <<due, transfers>>
    BY <1>5 DEF PayoutRecord, BillingInv, PayoutInv
  <2>2. \A o \in Order : /\ DOMAIN tx'[o] = TxFields
                         /\ tx'[o].status = tx[o].status /\ tx'[o].reversal = tx[o].reversal
                         /\ tx[o].transfer => tx'[o].transfer
                         /\ tx'[o].transfer => tx[o].transfer \/ o \in payout.orders
    <3> SUFFICES ASSUME NEW o \in Order
                 PROVE  /\ DOMAIN tx'[o] = TxFields
                        /\ tx'[o].status = tx[o].status /\ tx'[o].reversal = tx[o].reversal
                        /\ tx[o].transfer => tx'[o].transfer
                        /\ tx'[o].transfer => tx[o].transfer \/ o \in payout.orders
      OBVIOUS
    <3>1. CASE o \in payout.orders
      BY <2>1, <3>1 DEF BillingInv, RowShapes, TxFields
    <3>2. CASE o \notin payout.orders
      BY <2>1, <3>2 DEF BillingInv, RowShapes
    <3>3. QED
      BY <3>1, <3>2
  <2>3. RowShapes' /\ PaidInv'
    BY <1>1, <2>1, <2>2 DEF BillingInv, RowShapes, PaidInv, AccessIsPaid
  <2>4. ActorShapes' /\ PayoutInv'
    BY <1>1, <2>1 DEF BillingInv, ActorShapes, PayoutInv, Idle
  <2>5. ReversalInv'
    BY <1>1, <2>2 DEF BillingInv, ReversalInv, ActorShapes
  <2>6. LedgerMatchesStripe'
    BY <1>1, <2>1, <2>2 DEF BillingInv, LedgerMatchesStripe
  <2>7. QED
    BY <1>2, <1>3, <2>3, <2>4, <2>5, <2>6 DEF BillingInv
<1>6. QED
  BY <1>4, <1>5

LEMMA BillingStart == Init => BillingInv
<1> SUFFICES ASSUME Init PROVE BillingInv
  OBVIOUS
<1>1. RowShapes
  BY DEF Init, RowShapes, NoTx, TxFields
<1>2. ActorShapes
  BY DEF Init, ActorShapes, Idle
<1>3. CheckoutInv
  BY DEF Init, CheckoutInv, Opens, Idle
<1>4. EventsAreTrue /\ ReversalInv
  BY DEF Init, EventsAreTrue, ReversalInv, Idle
<1>5. PaidInv /\ OneOpenInv
  BY DEF Init, PaidInv, AccessIsPaid, OneOpenInv, NoTx
<1>6. PayoutInv
  BY DEF Init, PayoutInv, Idle
<1>7. LedgerMatchesStripe
  BY DEF Init, LedgerMatchesStripe, NoTx
<1>8. QED
  BY <1>1, <1>2, <1>3, <1>4, <1>5, <1>6, <1>7 DEF BillingInv

LEMMA BillingStep == BillingInv /\ [Next]_vars => BillingInv'
<1> SUFFICES ASSUME BillingInv, [Next]_vars PROVE BillingInv'
  OBVIOUS
<1>1. ASSUME NEW r \in Requests,
             (\E b \in Buyers : Ask(r, b)) \/ PurchaseTool(r) \/ CreateSessionFails(r) \/ RequestCrash(r)
      PROVE  BillingInv'
  BY <1>1, AskStep, PurchaseStep, LookupStep
<1>2. ASSUME NEW w \in Workers,
             \/ \E k \in EventKind, o \in Order : TakeEvent(w, k, o)
             \/ FinishEvent(w) \/ HandlerFails(w)
      PROVE  BillingInv'
  BY <1>2, TakeStep, WorkerStep
<1>3. CASE StripeStep
  BY <1>3, StripeKeeps
<1>4. CASE MonthEnds \/ PayoutSelect \/ PayoutTransfer \/ PayoutRecord \/ PayoutFails
  BY <1>4, PayoutStep
<1>5. CASE UNCHANGED vars
  <2>1. UNCHANGED <<purchase, tx, request, worker, events, payout, due, session, charge, transfers, reversed>>
    BY <1>5 DEF vars
  <2>2. RowShapes' /\ ActorShapes' /\ OneOpenInv' /\ EventsAreTrue' /\ PaidInv'
    BY <2>1 DEF BillingInv, RowShapes, ActorShapes, OneOpenInv, EventsAreTrue, PaidInv, AccessIsPaid
  <2>3. CheckoutInv' /\ PayoutInv' /\ ReversalInv' /\ LedgerMatchesStripe'
    BY <2>1 DEF BillingInv, CheckoutInv, Opens, OrderOf, PayoutInv, ReversalInv, LedgerMatchesStripe
  <2>4. QED
    BY <2>2, <2>3 DEF BillingInv
<1>6. QED
  BY <1>1, <1>2, <1>3, <1>4, <1>5 DEF Next

\* The inductive invariant, of which the facts below are parts.
THEOREM BillingCorrect == Spec => []BillingInv
BY BillingStart, BillingStep, PTL DEF Spec

\* A buyer has access only to an order that was charged, whatever the requests, late
\* events and retries of the checkout do (purchase_tool, _complete_checkout_session).
THEOREM AccessIsEarned == Spec => []AccessIsPaid
<1>1. BillingInv => AccessIsPaid
  BY DEF BillingInv, PaidInv
<1>2. QED
  BY <1>1, BillingCorrect, PTL

\* A buyer never has two open purchases of the tool (ux_tool_purchases_buyer_tool_open and
\* how purchase_tool and the webhook handlers meet it).
THEOREM OpenPurchasesAreSingle == Spec => []OneOpenPurchase
<1>1. BillingInv => OneOpenPurchase
  <2> SUFFICES ASSUME BillingInv, NEW b \in Buyers PROVE Cardinality(Open(b)) <= 1
    BY DEF OneOpenPurchase
  <2>1. \A o, p \in Open(b) : o = p
    BY DEF BillingInv, OneOpenInv, Open, OrdersOf
  <2>2. CASE Open(b) = {}
    BY <2>2, FS_EmptySet
  <2>3. ASSUME NEW o \in Open(b) PROVE Cardinality(Open(b)) <= 1
    <3>1. Open(b) = {o}
      BY <2>1
    <3>2. Cardinality({o}) = 1
      BY FS_Singleton
    <3>3. QED
      BY <3>1, <3>2
  <2>4. QED
    BY <2>2, <2>3
<1>2. QED
  BY <1>1, BillingCorrect, PTL

\* The ledger and Stripe agree on the seller's money (process_seller_payout and
\* _handle_charge_refunded).
THEOREM LedgerIsStripes == Spec => []LedgerMatchesStripe
<1>1. BillingInv => LedgerMatchesStripe
  BY DEF BillingInv
<1>2. QED
  BY <1>1, BillingCorrect, PTL

\* Only PayoutTransfer moves money, and what it moves it holds as completed.
LEMMA OnlyPayoutTransfers ==
    ASSUME [Next]_vars, transfers' # transfers
    PROVE  PayoutTransfer
BY DEF Next, vars, ledger, stripeVars, Ask, PurchaseTool, Begin, Lookup, TerminateStale, CreateSession,
       StoreSession, Abandon, CreateSessionFails, RequestCrash, TakeEvent, FinishEvent,
       CompleteCheckout, ExpireCheckout, UpdateTransactionStatus, RefundCharge, ReverseTransfer,
       RecordReversal, HandlerFails, StripeStep, SubmitPayment, ChargeSucceeds, ChargeFails,
       CardDeclined, SessionExpires, Refund, MonthEnds, PayoutSelect, PayoutRecord, PayoutFails

\* The seller is paid only for what the ledger holds as completed when the money leaves
\* (the FOR UPDATE of process_seller_payout).
THEOREM PayoutsAreEarned == Spec => PaysOnlyCompleted
<1>1. ASSUME BillingInv, [Next]_vars
      PROVE  [\A S \in transfers' \ transfers : \A o \in S : tx[o].status = "completed"]_vars
  <2>1. CASE transfers' = transfers
    BY <2>1
  <2>2. CASE transfers' # transfers
    <3>1. payout.pc = "transfer" /\ transfers' = transfers \cup {payout.orders}
      BY <1>1, <2>2, OnlyPayoutTransfers DEF PayoutTransfer
    <3>2. QED
      BY <1>1, <3>1 DEF BillingInv, PayoutInv
  <2>3. QED
    BY <2>1, <2>2
<1>2. QED
  BY <1>1, BillingCorrect, PTL DEF Spec, PaysOnlyCompleted

(***************************************************************************)
(* Types.  An event's order has its rows, so a handler finds them.         *)
(***************************************************************************)

EventsHaveRows ==
    /\ \A e \in events : session[e[2]] # "none"
    /\ \A w \in Workers : worker[w].pc # "idle" => session[worker[w].order] # "none"

BillingTypes == TypeOK /\ EventsHaveRows

LEMMA BusyRequest ==
    ASSUME TypeOK, NEW r \in Requests, request[r].pc # "idle"
    PROVE  /\ request[r] \in [pc: {"begin", "lookup", "terminate", "session", "store", "abandon"},
                              buyer: Buyers, order: 1 .. MaxOrders, retry: BOOLEAN]
           /\ <<request[r].buyer, request[r].order>> \in Order
BY DEF TypeOK, RequestState, Idle, Order

LEMMA BusyWorker ==
    ASSUME TypeOK, NEW w \in Workers, worker[w].pc # "idle"
    PROVE  worker[w] \in [pc: {"commit", "reverse", "record"}, kind: EventKind, order: Order,
                          purchase: PurchaseStatus, tx: Transaction, open: SUBSET Order]
BY DEF TypeOK, WorkerState, Idle

LEMMA SpendType ==
    ASSUME TypeOK, NEW kind \in Chance, Spend(kind)
    PROVE  budget' \in [Chance -> Nat]
BY DEF TypeOK, Spend

LEMMA GotoType ==
    ASSUME TypeOK, NEW r \in Requests, request[r].pc # "idle",
           NEW pc \in {"begin", "lookup", "terminate", "session", "store", "abandon"}, Goto(r, pc)
    PROVE  request' \in [Requests -> RequestState]
BY BusyRequest DEF TypeOK, Goto, RequestState

LEMMA ReturnType ==
    ASSUME TypeOK, NEW r \in Requests, Return(r)
    PROVE  request' \in [Requests -> RequestState]
BY DEF TypeOK, Return, RequestState

LEMMA ReleaseType ==
    ASSUME TypeOK, NEW w \in Workers, Release(w)
    PROVE  worker' \in [Workers -> WorkerState]
BY DEF TypeOK, Release, WorkerState

LEMMA LatestPendingType ==
    ASSUME NEW b \in Buyers, NEW S, S \subseteq OrdersOf(b)
    PROVE  (IF S = {} THEN {} ELSE {Latest(S)}) \subseteq Order
<1>1. CASE S # {}
  BY <1>1, LatestIsAmong DEF OrdersOf
<1>2. QED
  BY <1>1

\* A status or a reference that a handler writes is one of the table's.
LEMMA NewStatusType ==
    ASSUME NEW kind \in EventKind, NEW t \in Transaction
    PROVE  NewStatus(kind, t) \in TransactionStatus \cup {"none"}
BY DEF NewStatus, Transaction, TransactionStatus

LEMMA SetTxType ==
    ASSUME TypeOK, NEW w \in Workers, worker[w].pc # "idle", SetTx(w)
    PROVE  tx' \in [Order -> Transaction]
<1> DEFINE o == worker[w].order
           k == worker[w].kind
           seen == worker[w].tx
           status == Dirty(tx[o].status, seen.status, NewStatus(k, seen))
           ref == IF k \in Completing THEN Dirty(tx[o].ref, seen.ref, "intent") ELSE tx[o].ref
<1>1. o \in Order /\ k \in EventKind /\ seen \in Transaction
  BY BusyWorker
<1>2. tx' = [tx EXCEPT ![o].status = status, ![o].ref = ref]
  BY DEF SetTx
<1>3. status \in TransactionStatus \cup {"none"}
  BY <1>1, NewStatusType DEF Dirty, TypeOK, Transaction
<1>4. ref \in Reference
  BY <1>1 DEF Dirty, TypeOK, Transaction, Reference
<1> HIDE DEF o, k, seen, status, ref
<1>5. QED
  BY <1>1, <1>2, <1>3, <1>4, ZenonT(40) DEF TypeOK, Transaction

\* A request's step.
LEMMA RequestTypes ==
    ASSUME BillingTypes, NEW r \in Requests,
           \/ \E b \in Buyers : Ask(r, b)
           \/ PurchaseTool(r) \/ CreateSessionFails(r) \/ RequestCrash(r)
    PROVE  TypeOK'
<1> USE DEF ledger, stripeVars
<1>0. TypeOK
  BY DEF BillingTypes
<1>1. ASSUME NEW b \in Buyers, Ask(r, b) PROVE TypeOK'
  <2>1. [pc |-> "begin", buyer |-> b, order |-> 1, retry |-> TRUE] \in RequestState
    BY OrdersAssumption DEF RequestState
  <2>2. request' \in [Requests -> RequestState]
    BY <1>0, <1>1, <2>1 DEF Ask, TypeOK
  <2>3. QED
    BY <1>0, <1>1, <2>2 DEF Ask, TypeOK
<1>2. CASE Begin(r)
  <2> DEFINE b == request[r].buyer
  <2>1. request[r].pc = "begin" /\ b \in Buyers
    BY <1>0, <1>2, BusyRequest DEF Begin
  <2>2. CASE Return(r) /\ UNCHANGED ledger
    BY <1>0, <1>2, <2>2, ReturnType DEF Begin, TypeOK
  <2>3. ASSUME NEW o \in Open(b), UNCHANGED ledger,
               request' = [request EXCEPT ![r].pc = "lookup", ![r].order = o[2]]
        PROVE  TypeOK'
    <3>1. o[2] \in 1 .. MaxOrders
      BY <2>3 DEF Open, OrdersOf, Order
    <3>2. request' \in [Requests -> RequestState]
      BY <1>0, <2>1, <2>3, <3>1, BusyRequest, ZenonT(40) DEF TypeOK, RequestState
    <3>3. QED
      BY <1>0, <1>2, <2>3, <3>2 DEF Begin, TypeOK
  <2>4. ASSUME NEW n \in 1 .. MaxOrders,
               purchase' = [purchase EXCEPT ![<<b, n>>] = "pending"],
               tx' = [tx EXCEPT ![<<b, n>>].status = "pending"],
               request' = [request EXCEPT ![r].pc = "session", ![r].order = n]
        PROVE  TypeOK'
    <3>1. <<b, n>> \in Order
      BY <2>1 DEF Order
    <3>2. request' \in [Requests -> RequestState]
      BY <1>0, <2>1, <2>4, BusyRequest, ZenonT(40) DEF TypeOK, RequestState
    <3>3. purchase' \in [Order -> PurchaseStatus \cup {"none"}] /\ tx' \in [Order -> Transaction]
      BY <1>0, <2>4, <3>1 DEF TypeOK, PurchaseStatus, Transaction, TransactionStatus
    <3>4. QED
      BY <1>0, <1>2, <3>2, <3>3 DEF Begin, TypeOK
  <2>5. QED
    BY <1>2, <2>1, <2>2, <2>3, <2>4, Zenon DEF Begin
<1>3. CASE Lookup(r)
  <2>1. request[r].pc = "lookup" /\ request[r].buyer \in Buyers
    BY <1>0, <1>3, BusyRequest DEF Lookup
  <2>2. LatestRecoverable(request[r].buyer) \subseteq Order
    BY <2>1, LatestPendingType DEF LatestRecoverable, PendingTx
  <2>3. request' \in [Requests -> RequestState]
    BY <1>0, <1>3, <2>1, GotoType, ReturnType DEF Lookup
  <2>4. budget' \in [Chance -> Nat]
    BY <1>0, <1>3, SpendType DEF Lookup, Chance, TypeOK
  <2>5. offered' \subseteq Order
    BY <1>0, <1>3, <2>2 DEF Lookup, TypeOK
  <2>6. QED
    BY <1>0, <1>3, <2>3, <2>4, <2>5 DEF Lookup, TypeOK
<1>4. CASE TerminateStale(r)
  <2>1. request[r].pc = "terminate" /\ <<request[r].buyer, request[r].order>> \in Order
    BY <1>0, <1>4, BusyRequest DEF TerminateStale
  <2>2. request' \in [Requests -> RequestState]
    BY <1>0, <1>4, <2>1, BusyRequest, ZenonT(40) DEF TerminateStale, TypeOK, RequestState
  <2>3. purchase' \in [Order -> PurchaseStatus \cup {"none"}]
    BY <1>0, <1>4, <2>1 DEF TerminateStale, TypeOK, PurchaseStatus
  <2>4. tx' \in [Order -> Transaction]
    BY <1>0, <1>4, ZenonT(40) DEF TerminateStale, TypeOK, Transaction, TransactionStatus
  <2>5. QED
    BY <1>0, <1>4, <2>2, <2>3, <2>4 DEF TerminateStale, TypeOK
<1>5. CASE CreateSession(r) \/ CreateSessionFails(r)
  <2>1. request[r].pc = "session" /\ <<request[r].buyer, request[r].order>> \in Order
    BY <1>0, <1>5, BusyRequest DEF CreateSession, CreateSessionFails
  <2>2. request' \in [Requests -> RequestState]
    BY <1>0, <1>5, <2>1, GotoType DEF CreateSession, CreateSessionFails
  <2>3. session' \in [Order -> {"none", "open", "complete", "expired"}]
    BY <1>0, <1>5, <2>1 DEF CreateSession, CreateSessionFails, TypeOK
  <2>4. budget' \in [Chance -> Nat]
    BY <1>0, <1>5, SpendType DEF CreateSession, CreateSessionFails, TypeOK, Chance
  <2>5. QED
    BY <1>0, <1>5, <2>2, <2>3, <2>4 DEF CreateSession, CreateSessionFails, TypeOK
<1>6. CASE StoreSession(r) \/ Abandon(r)
  <2>1. <<request[r].buyer, request[r].order>> \in Order /\ Return(r)
    BY <1>0, <1>6, BusyRequest DEF StoreSession, Abandon
  <2>2. purchase' \in [Order -> PurchaseStatus \cup {"none"}]
    BY <1>0, <1>6, <2>1 DEF StoreSession, Abandon, TypeOK, PurchaseStatus
  <2>3. tx' \in [Order -> Transaction]
    <3>1. CASE StoreSession(r)
      BY <1>0, <2>1, <3>1, ZenonT(40) DEF StoreSession, TypeOK, Transaction, Reference
    <3>2. CASE Abandon(r)
      BY <1>0, <2>1, <3>2, ZenonT(40) DEF Abandon, TypeOK, Transaction, TransactionStatus
    <3>3. QED
      BY <1>6, <3>1, <3>2
  <2>4. request' \in [Requests -> RequestState]
    BY <1>0, <2>1, ReturnType
  <2>5. QED
    BY <1>0, <1>6, <2>1, <2>2, <2>3, <2>4 DEF StoreSession, Abandon, TypeOK
<1>7. CASE RequestCrash(r)
  <2>1. request' \in [Requests -> RequestState] /\ budget' \in [Chance -> Nat]
    BY <1>0, <1>7, ReturnType, SpendType DEF RequestCrash, Chance
  <2>2. QED
    BY <1>0, <1>7, <2>1 DEF RequestCrash, TypeOK
<1>8. QED
  BY <1>1, <1>2, <1>3, <1>4, <1>5, <1>6, <1>7 DEF PurchaseTool

LEMMA EmitType ==
    ASSUME TypeOK, NEW o \in Order, NEW kinds, kinds \subseteq EventKind, Emit(kinds, o)
    PROVE  events' \subseteq EventKind \X Order
BY DEF TypeOK, Emit

LEMMA StripeTypes == ASSUME BillingTypes, StripeStep PROVE TypeOK'
<1> USE DEF ledger, stripeVars
<1>0. TypeOK
  BY DEF BillingTypes
<1>1. PICK o \in Order : \/ SubmitPayment(o) \/ ChargeSucceeds(o) \/ ChargeFails(o)
                         \/ CardDeclined(o) \/ SessionExpires(o) \/ Refund(o)
  BY DEF StripeStep
<1>2. events' \subseteq EventKind \X Order
  BY <1>0, <1>1, EmitType
     DEF SubmitPayment, ChargeSucceeds, ChargeFails, CardDeclined, SessionExpires, Refund, EventKind
<1>3. session' \in [Order -> {"none", "open", "complete", "expired"}]
  BY <1>0, <1>1
     DEF SubmitPayment, ChargeSucceeds, ChargeFails, CardDeclined, SessionExpires, Refund, TypeOK
<1>4. charge' \in [Order -> {"none", "processing", "paid", "partial", "refunded"}]
  BY <1>0, <1>1
     DEF SubmitPayment, ChargeSucceeds, ChargeFails, CardDeclined, SessionExpires, Refund, TypeOK
<1>5. budget' \in [Chance -> Nat]
  BY <1>0, <1>1, SpendType
     DEF SubmitPayment, ChargeSucceeds, ChargeFails, CardDeclined, SessionExpires, Refund, TypeOK, Chance
<1>6. UNCHANGED <<ledger, request, worker, payout, due, offered, transfers, reversed>>
  BY <1>1
     DEF SubmitPayment, ChargeSucceeds, ChargeFails, CardDeclined, SessionExpires, Refund
<1>7. QED
  BY <1>0, <1>2, <1>3, <1>4, <1>5, <1>6 DEF TypeOK

LEMMA WorkerTypes ==
    ASSUME BillingInv, BillingTypes, NEW w \in Workers,
           \/ \E k \in EventKind, o \in Order : TakeEvent(w, k, o)
           \/ FinishEvent(w) \/ HandlerFails(w)
    PROVE  TypeOK'
<1> USE DEF ledger, stripeVars
<1>0. TypeOK
  BY DEF BillingTypes
<1>1. ASSUME NEW k \in EventKind, NEW o \in Order, TakeEvent(w, k, o) PROVE TypeOK'
  <2>1. purchase[o] \in PurchaseStatus
    <3>1. session[o] # "none"
      BY <1>1 DEF TakeEvent, BillingTypes, EventsHaveRows
    <3>2. QED
      BY <1>0, <3>1 DEF BillingInv, CheckoutInv, TypeOK
  <2>2. [pc |-> "commit", kind |-> k, order |-> o, purchase |-> purchase[o], tx |-> tx[o],
         open |-> Open(o[1])] \in WorkerState
    BY <1>0, <2>1 DEF WorkerState, TypeOK, Open, OrdersOf
  <2>3. worker' \in [Workers -> WorkerState] /\ events' \subseteq EventKind \X Order
    BY <1>0, <1>1, <2>2 DEF TakeEvent, TypeOK
  <2>4. QED
    BY <1>0, <1>1, <2>3 DEF TakeEvent, TypeOK
<1>2. CASE CompleteCheckout(w) \/ ExpireCheckout(w) \/ UpdateTransactionStatus(w)
  <2>1. worker[w].pc = "commit" /\ worker[w].order \in Order /\ Release(w)
    BY <1>0, <1>2, BusyWorker DEF CompleteCheckout, ExpireCheckout, UpdateTransactionStatus, Handling
  <2>2. events' \subseteq EventKind \X Order
    BY <1>0, <1>2 DEF CompleteCheckout, ExpireCheckout, UpdateTransactionStatus, Done, TypeOK
  <2>3. tx' \in [Order -> Transaction]
    BY <1>0, <1>2, <2>1, SetTxType DEF CompleteCheckout, ExpireCheckout, UpdateTransactionStatus, TypeOK
  <2>4. purchase' \in [Order -> PurchaseStatus \cup {"none"}]
    BY <1>0, <1>2, <2>1
       DEF CompleteCheckout, ExpireCheckout, UpdateTransactionStatus, TypeOK, PurchaseStatus
  <2>5. worker' \in [Workers -> WorkerState]
    BY <1>0, <2>1, ReleaseType
  <2>6. QED
    BY <1>0, <1>2, <2>2, <2>3, <2>4, <2>5
       DEF CompleteCheckout, ExpireCheckout, UpdateTransactionStatus, TypeOK
<1>3. CASE RefundCharge(w)
  <2>1. worker[w].pc = "commit" /\ SetTx(w)
    BY <1>3 DEF RefundCharge, Handling
  <2>2. worker' \in [Workers -> WorkerState] /\ events' \subseteq EventKind \X Order
    BY <1>0, <1>3, <2>1, BusyWorker, ReleaseType
       DEF RefundCharge, AfterRefund, Done, TypeOK, WorkerState
  <2>3. purchase' \in [Order -> PurchaseStatus \cup {"none"}] /\ tx' \in [Order -> Transaction]
    BY <1>0, <1>3, <2>1, SetTxType DEF RefundCharge, TypeOK, PurchaseStatus
  <2>4. QED
    BY <1>0, <1>3, <2>2, <2>3 DEF RefundCharge, TypeOK
<1>4. CASE ReverseTransfer(w)
  <2>1. worker[w].order \in Order /\ worker' \in [Workers -> WorkerState]
    BY <1>0, <1>4, BusyWorker DEF ReverseTransfer, TypeOK, WorkerState
  <2>2. QED
    BY <1>0, <1>4, <2>1 DEF ReverseTransfer, TypeOK
<1>5. CASE RecordReversal(w)
  <2>1. worker[w].order \in Order /\ worker' \in [Workers -> WorkerState]
    BY <1>0, <1>5, BusyWorker, ReleaseType DEF RecordReversal
  <2>2. tx' \in [Order -> Transaction] /\ events' \subseteq EventKind \X Order
    BY <1>0, <1>5, <2>1 DEF RecordReversal, Done, TypeOK, Transaction
  <2>3. QED
    BY <1>0, <1>5, <2>1, <2>2 DEF RecordReversal, TypeOK
<1>6. CASE HandlerFails(w)
  <2>1. worker' \in [Workers -> WorkerState] /\ budget' \in [Chance -> Nat]
    BY <1>0, <1>6, ReleaseType, SpendType DEF HandlerFails, Chance
  <2>2. QED
    BY <1>0, <1>6, <2>1 DEF HandlerFails, TypeOK
<1>7. QED
  BY <1>1, <1>2, <1>3, <1>4, <1>5, <1>6 DEF FinishEvent

LEMMA PayoutTypes ==
    ASSUME BillingTypes, MonthEnds \/ PayoutSelect \/ PayoutTransfer \/ PayoutRecord \/ PayoutFails
    PROVE  TypeOK'
<1> USE DEF ledger, stripeVars
<1>0. TypeOK
  BY DEF BillingTypes
<1>1. CASE MonthEnds
  BY <1>0, <1>1, SpendType DEF MonthEnds, TypeOK, Chance
<1>2. CASE PayoutSelect
  <2>1. payout' \in PayoutState
    BY <1>0, <1>2 DEF PayoutSelect, Payable, PayoutState, TypeOK
  <2>2. QED
    BY <1>0, <1>2, <2>1 DEF PayoutSelect, TypeOK
<1>3. CASE PayoutTransfer
  <2>1. payout \in [pc: {"transfer", "record"}, orders: SUBSET Order]
    BY <1>0, <1>3 DEF PayoutTransfer, TypeOK, PayoutState, Idle
  <2>2. payout' \in PayoutState /\ transfers' \subseteq SUBSET Order
    BY <1>0, <1>3, <2>1 DEF PayoutTransfer, TypeOK, PayoutState
  <2>3. QED
    BY <1>0, <1>3, <2>2 DEF PayoutTransfer, TypeOK
<1>4. CASE PayoutRecord
  <2>1. tx' \in [Order -> Transaction]
    BY <1>0, <1>4 DEF PayoutRecord, TypeOK, Transaction
  <2>2. QED
    BY <1>0, <1>4, <2>1 DEF PayoutRecord, TypeOK, PayoutState
<1>5. CASE PayoutFails
  <2>1. budget' \in [Chance -> Nat]
    BY <1>0, <1>5, SpendType DEF PayoutFails, Chance
  <2>2. QED
    BY <1>0, <1>5, <2>1 DEF PayoutFails, TypeOK, PayoutState
<1>6. QED
  BY <1>1, <1>2, <1>3, <1>4, <1>5

\* A session that was opened stays known, and only such a session sends events.
LEMMA RowsStay ==
    ASSUME BillingInv, BillingTypes, [Next]_vars
    PROVE  EventsHaveRows'
<1> USE DEF ledger, stripeVars
<1>0. /\ TypeOK
      /\ \A e \in events : session[e[2]] # "none" /\ e[2] \in Order
      /\ \A w \in Workers : worker[w].pc # "idle" =>
            session[worker[w].order] # "none" /\ worker[w].order \in Order
  BY BusyWorker DEF BillingTypes, EventsHaveRows, TypeOK
\* Steps that neither open nor close a session, nor send or take an event.
<1>1. ASSUME UNCHANGED <<session, worker>>, events' \subseteq events PROVE EventsHaveRows'
  BY <1>0, <1>1 DEF EventsHaveRows
<1>2. ASSUME NEW r \in Requests,
             \/ \E b \in Buyers : Ask(r, b)
             \/ PurchaseTool(r) \/ CreateSessionFails(r) \/ RequestCrash(r)
      PROVE  EventsHaveRows'
  <2>1. CASE CreateSession(r)
    <3>1. <<request[r].buyer, request[r].order>> \in Order
      BY <1>0, <2>1, BusyRequest DEF CreateSession
    <3>2. \A o \in Order : session[o] # "none" => session'[o] # "none"
      BY <1>0, <2>1, <3>1 DEF CreateSession, TypeOK
    <3>3. UNCHANGED <<events, worker>>
      BY <2>1 DEF CreateSession
    <3>4. QED
      BY <1>0, <3>2, <3>3 DEF EventsHaveRows
  <2>2. CASE ~ CreateSession(r)
    <3>1. UNCHANGED <<session, worker, events>>
      BY <1>2, <2>2 DEF Ask, PurchaseTool, CreateSessionFails, RequestCrash, Begin, Lookup,
                        TerminateStale, StoreSession, Abandon
    <3>2. QED
      BY <1>1, <3>1
  <2>3. QED
    BY <2>1, <2>2
<1>3. ASSUME NEW w \in Workers,
             \/ \E k \in EventKind, o \in Order : TakeEvent(w, k, o)
             \/ FinishEvent(w) \/ HandlerFails(w)
      PROVE  EventsHaveRows'
  <2>1. session' = session /\ events' \subseteq events
    BY <1>3 DEF TakeEvent, FinishEvent, CompleteCheckout, ExpireCheckout, UpdateTransactionStatus,
                RefundCharge, ReverseTransfer, RecordReversal, HandlerFails, Done
  <2>2. \A v \in Workers \ {w} : worker'[v] = worker[v]
    BY <1>0, <1>3 DEF TakeEvent, FinishEvent, CompleteCheckout, ExpireCheckout,
                UpdateTransactionStatus, RefundCharge, ReverseTransfer, RecordReversal, HandlerFails,
                Release, TypeOK
  <2>3. worker'[w].pc # "idle" => session[worker'[w].order] # "none"
    <3>1. ASSUME NEW k \in EventKind, NEW o \in Order, TakeEvent(w, k, o)
          PROVE  worker'[w].pc # "idle" => session[worker'[w].order] # "none"
      BY <1>0, <3>1 DEF TakeEvent, TypeOK
    <3>2. CASE RefundCharge(w) \/ ReverseTransfer(w)
      <4>1. worker[w].pc # "idle"
        BY <3>2 DEF RefundCharge, ReverseTransfer, Handling
      <4>2. worker'[w].pc # "idle" => worker'[w].order = worker[w].order
        BY <1>0, <3>2, <4>1, BusyWorker DEF RefundCharge, ReverseTransfer, Release, Idle, TypeOK
      <4>3. QED
        BY <1>0, <4>1, <4>2
    <3>3. CASE Release(w)
      BY <1>0, <3>3 DEF Release, Idle, TypeOK
    <3>4. QED
      BY <1>3, <3>1, <3>2, <3>3 DEF FinishEvent, CompleteCheckout, ExpireCheckout,
                                    UpdateTransactionStatus, RecordReversal, HandlerFails
  <2>4. QED
    BY <1>0, <2>1, <2>2, <2>3 DEF EventsHaveRows
<1>4. CASE StripeStep
  <2>1. PICK o \in Order : \/ SubmitPayment(o) \/ ChargeSucceeds(o) \/ ChargeFails(o)
                           \/ CardDeclined(o) \/ SessionExpires(o) \/ Refund(o)
    BY <1>4 DEF StripeStep
  <2>2. session[o] # "none" /\ worker' = worker
    BY <2>1 DEF BillingInv, CheckoutInv, SubmitPayment, ChargeSucceeds, ChargeFails, CardDeclined,
                SessionExpires, Refund
  <2>3. \A p \in Order : session[p] # "none" => session'[p] # "none"
    BY <1>0, <2>1 DEF SubmitPayment, ChargeSucceeds, ChargeFails, CardDeclined, SessionExpires,
                      Refund, TypeOK
  <2>4. \A e \in events' : e \in events \/ e[2] = o
    BY <2>1 DEF SubmitPayment, ChargeSucceeds, ChargeFails, CardDeclined, SessionExpires, Refund, Emit
  <2>5. QED
    BY <1>0, <2>2, <2>3, <2>4 DEF EventsHaveRows
<1>5. CASE MonthEnds \/ PayoutSelect \/ PayoutTransfer \/ PayoutRecord \/ PayoutFails \/ UNCHANGED vars
  <2>1. UNCHANGED <<session, worker, events>>
    BY <1>5 DEF MonthEnds, PayoutSelect, PayoutTransfer, PayoutRecord, PayoutFails, vars
  <2>2. QED
    BY <1>1, <2>1
<1>6. QED
  BY <1>2, <1>3, <1>4, <1>5 DEF Next

LEMMA BillingTypesStep == BillingInv /\ BillingTypes /\ [Next]_vars => BillingTypes'
<1> SUFFICES ASSUME BillingInv, BillingTypes, [Next]_vars PROVE BillingTypes'
  OBVIOUS
<1>1. CASE UNCHANGED vars
  <2>1. TypeOK'
    BY <1>1 DEF vars, BillingTypes, TypeOK
  <2>2. QED
    BY <2>1, RowsStay DEF BillingTypes
<1>2. TypeOK'
  BY <1>1, RequestTypes, StripeTypes, WorkerTypes, PayoutTypes DEF Next, BillingTypes
<1>3. QED
  BY <1>2, RowsStay DEF BillingTypes

LEMMA BillingTypesHold == Spec => []BillingTypes
<1>1. Init => BillingTypes
  BY BudgetAssumption
     DEF Init, BillingTypes, TypeOK, EventsHaveRows, NoTx, Idle, Transaction, TransactionStatus,
         Reference, PurchaseStatus, RequestState, WorkerState, PayoutState
<1>2. QED
  BY <1>1, BillingTypesStep, BillingCorrect, PTL DEF Spec

\* The tables, the actors and Stripe's side are always well typed: a handler always finds
\* the rows of its event, and writes statuses of the enums (handle_webhook_event).
THEOREM BillingTypesCorrect == Spec => []TypeOK
BY BillingTypesHold, PTL DEF BillingTypes

(***************************************************************************)
(* Refunds, with any number of workers on one order.                       *)
(***************************************************************************)

\* Refunds, of rows, of copies of rows and of events, are of charges that were made.
RefundsAreTrue ==
    /\ \A o \in Order :
          /\ <<"partial_refund", o>> \in events => charge[o] \in Paid
          /\ tx[o].status \in RefundStatus => charge[o] \in Paid
    /\ \A w \in Workers :
          worker[w].pc # "idle" =>
              /\ worker[w].kind = "partial_refund" => charge[worker[w].order] \in Paid
              /\ worker[w].tx.status \in RefundStatus => charge[worker[w].order] \in Paid

\* A purchase request leaves an order that reached Stripe alone, but for ending its
\* purchase and failing its transaction while that is pending.
LEMMA RequestEffect ==
    ASSUME BillingInv, BillingTypes, NEW r \in Requests,
           \/ \E b \in Buyers : Ask(r, b)
           \/ PurchaseTool(r) \/ CreateSessionFails(r) \/ RequestCrash(r)
    PROVE  /\ UNCHANGED <<worker, events, charge>>
           /\ \A o \in Order :
                 /\ session[o] # "none" =>
                       /\ purchase'[o] \in {purchase[o], "terminated"}
                       /\ \/ tx'[o].status = tx[o].status
                          \/ tx[o].status = "pending" /\ tx'[o].status = "failed"
                 /\ tx'[o].status \in RefundStatus => tx'[o].status = tx[o].status
<1> USE DEF ledger, stripeVars
<1>0. TypeOK
  BY DEF BillingTypes
<1>1. UNCHANGED <<worker, events, charge>>
  BY DEF Ask, PurchaseTool, CreateSessionFails, RequestCrash, Begin, Lookup, TerminateStale,
         CreateSession, StoreSession, Abandon
<1> DEFINE Effect == \A o \in Order :
              /\ session[o] # "none" =>
                    /\ purchase'[o] \in {purchase[o], "terminated"}
                    /\ \/ tx'[o].status = tx[o].status
                       \/ tx[o].status = "pending" /\ tx'[o].status = "failed"
              /\ tx'[o].status \in RefundStatus => tx'[o].status = tx[o].status
<1>2. ASSUME UNCHANGED ledger PROVE Effect
  BY <1>2
<1>3. ASSUME Begin(r) PROVE Effect
  <2> DEFINE b == request[r].buyer
  <2>1. ASSUME NEW n \in 1 .. MaxOrders, purchase[<<b, n>>] = "none",
               purchase' = [purchase EXCEPT ![<<b, n>>] = "pending"],
               tx' = [tx EXCEPT ![<<b, n>>].status = "pending"]
        PROVE  Effect
    <3>1. <<b, n>> \in Order /\ session[<<b, n>>] = "none"
      BY <1>0, <1>3, <2>1, BusyRequest DEF Begin, Order, BillingInv, CheckoutInv
    <3> HIDE DEF b
    <3>2. QED
      BY <1>0, <2>1, <3>1 DEF TypeOK, Transaction, RefundStatus
  <2>2. \/ UNCHANGED ledger
        \/ \E n \in 1 .. MaxOrders : /\ purchase[<<b, n>>] = "none"
                                     /\ purchase' = [purchase EXCEPT ![<<b, n>>] = "pending"]
                                     /\ tx' = [tx EXCEPT ![<<b, n>>].status = "pending"]
    BY <1>3, Zenon DEF Begin
  <2> HIDE DEF b, Effect
  <2>3. QED
    BY <1>2, <2>1, <2>2
<1>4. ASSUME TerminateStale(r) PROVE Effect
  <2> DEFINE b == request[r].buyer
             o == <<request[r].buyer, request[r].order>>
  <2>1. b \in Buyers /\ o \in Order
    BY <1>0, <1>4, BusyRequest DEF TerminateStale
  <2>2. purchase' = [purchase EXCEPT ![o] = "terminated"]
    BY <1>4 DEF TerminateStale
  <2>3. tx' = [p \in Order |-> IF p \in LatestPending(b) THEN [tx[p] EXCEPT !.status = "failed"]
                               ELSE tx[p]]
    BY <1>4 DEF TerminateStale
  <2>4. \A p \in LatestPending(b) : tx[p].status = "pending"
    BY <2>1, LatestPendingIsPending
  <2> HIDE DEF b, o
  <2>5. QED
    BY <1>0, <2>1, <2>2, <2>3, <2>4 DEF TypeOK, Transaction, RefundStatus
<1>5. ASSUME StoreSession(r) PROVE Effect
  <2> DEFINE o == <<request[r].buyer, request[r].order>>
  <2>1. o \in Order
    BY <1>0, <1>5, BusyRequest DEF StoreSession
  <2>2. tx' = [tx EXCEPT ![o].ref = "session"] /\ purchase' = purchase
    BY <1>5 DEF StoreSession
  <2> HIDE DEF o
  <2>3. tx' = [tx EXCEPT ![o] = [tx[o] EXCEPT !.ref = "session"]]
    BY <2>2
  <2>4. \A p \in Order : tx'[p].status = tx[p].status
    BY <1>0, <2>1, <2>3 DEF TypeOK, Transaction
  <2>5. QED
    BY <1>0, <2>2, <2>4
<1>6. ASSUME Abandon(r) PROVE Effect
  <2> DEFINE o == <<request[r].buyer, request[r].order>>
  <2>1. o \in Order /\ session[o] = "none"
    BY <1>0, <1>6, BusyRequest DEF Abandon, BillingInv, CheckoutInv, Opens, OrderOf
  <2>2. /\ purchase' = [purchase EXCEPT ![o] = "terminated"]
        /\ tx' = [tx EXCEPT ![o].status = "failed"]
    BY <1>6 DEF Abandon
  <2> HIDE DEF o
  <2>3. QED
    BY <1>0, <2>1, <2>2 DEF TypeOK, Transaction, RefundStatus
<1>7. ASSUME \/ \E b \in Buyers : Ask(r, b)
             \/ Lookup(r) \/ CreateSession(r) \/ CreateSessionFails(r) \/ RequestCrash(r)
      PROVE  Effect
  BY <1>2, <1>7 DEF Ask, Lookup, CreateSession, CreateSessionFails, RequestCrash
<1> HIDE DEF Effect
<1>8. Effect
  BY <1>3, <1>4, <1>5, <1>6, <1>7 DEF PurchaseTool
<1>9. QED
  BY <1>1, <1>8 DEF Effect

\* Stripe's steps: charges only grow once they are paid, and each refund has its event.
LEMMA StripeEffect ==
    ASSUME BillingInv, BillingTypes, StripeStep
    PROVE  /\ UNCHANGED <<purchase, tx, worker>>
           /\ events \subseteq events'
           /\ \A o \in Order :
                 /\ charge[o] \in Paid => charge'[o] \in Paid
                 /\ charge'[o] = "refunded" =>
                       charge[o] = "refunded" \/ <<"full_refund", o>> \in events'
                 /\ <<"partial_refund", o>> \in events' =>
                       <<"partial_refund", o>> \in events \/ charge'[o] \in Paid
<1> USE DEF ledger, stripeVars, Paid
<1>0. TypeOK
  BY DEF BillingTypes
<1>1. PICK o \in Order : \/ SubmitPayment(o) \/ ChargeSucceeds(o) \/ ChargeFails(o)
                         \/ CardDeclined(o) \/ SessionExpires(o) \/ Refund(o)
  BY DEF StripeStep
<1>2. UNCHANGED <<purchase, tx, worker>> /\ events \subseteq events'
  BY <1>1 DEF SubmitPayment, ChargeSucceeds, ChargeFails, CardDeclined, SessionExpires, Refund, Emit
<1>3. \A p \in Order : p # o => charge'[p] = charge[p]
  BY <1>0, <1>1
     DEF SubmitPayment, ChargeSucceeds, ChargeFails, CardDeclined, SessionExpires, Refund, TypeOK
<1>4. /\ charge[o] \in Paid => charge'[o] \in Paid
      /\ charge'[o] = "refunded" => charge[o] = "refunded" \/ <<"full_refund", o>> \in events'
  <2>1. CASE Refund(o)
    BY <1>0, <2>1 DEF Refund, Emit, TypeOK
  <2>2. CASE SubmitPayment(o) \/ ChargeSucceeds(o) \/ ChargeFails(o) \/ CardDeclined(o) \/ SessionExpires(o)
    <3>1. SubmitPayment(o) => charge[o] = "none"
      BY DEF SubmitPayment, BillingInv, CheckoutInv
    <3>2. charge[o] \in Paid => charge'[o] = charge[o]
      BY <1>0, <2>2, <3>1
         DEF SubmitPayment, ChargeSucceeds, ChargeFails, CardDeclined, SessionExpires, TypeOK
    <3>3. charge'[o] \in {charge[o], "paid", "processing", "none"}
      BY <1>0, <2>2
         DEF SubmitPayment, ChargeSucceeds, ChargeFails, CardDeclined, SessionExpires, TypeOK
    <3>4. QED
      BY <3>2, <3>3
  <2>3. QED
    BY <1>1, <2>1, <2>2
<1>5. \A p \in Order : <<"partial_refund", p>> \in events' =>
         <<"partial_refund", p>> \in events \/ (p = o /\ charge'[o] \in Paid)
  BY <1>0, <1>1
     DEF SubmitPayment, ChargeSucceeds, ChargeFails, CardDeclined, SessionExpires, Refund, Emit, TypeOK
<1>6. QED
  BY <1>2, <1>3, <1>4, <1>5

\* What the payout and the calendar do to the orders.
LEMMA PayoutEffect ==
    ASSUME BillingTypes, MonthEnds \/ PayoutSelect \/ PayoutTransfer \/ PayoutRecord \/ PayoutFails
    PROVE  /\ UNCHANGED <<purchase, worker, events, charge>>
           /\ \A o \in Order : tx'[o].status = tx[o].status
<1> USE DEF ledger, stripeVars
<1>1. UNCHANGED <<purchase, worker, events, charge>>
  BY DEF MonthEnds, PayoutSelect, PayoutTransfer, PayoutRecord, PayoutFails
<1>2. CASE PayoutRecord
  BY <1>1, <1>2 DEF PayoutRecord, BillingTypes, TypeOK, Transaction
<1>3. CASE ~ PayoutRecord
  BY <1>1, <1>3 DEF MonthEnds, PayoutSelect, PayoutTransfer, PayoutFails
<1>4. QED
  BY <1>2, <1>3

\* What a handler writes over a refund, and what it may make one.
LEMMA RefundWrite ==
    ASSUME BillingTypes, NEW w \in Workers, worker[w].pc = "commit", SetTx(w)
    PROVE  \A o \in Order :
              /\ o # worker[w].order => tx'[o] = tx[o]
              /\ worker[w].tx.status = "refunded" /\ tx[o].status = "refunded" =>
                    tx'[o].status = "refunded"
              /\ worker[w].tx.status \in RefundStatus /\ tx[o].status \in RefundStatus =>
                    tx'[o].status \in RefundStatus
              /\ tx'[o].status \in RefundStatus =>
                    \/ tx[o].status \in RefundStatus
                    \/ /\ o = worker[w].order
                       /\ \/ worker[w].tx.status \in RefundStatus
                          \/ worker[w].kind \in {"partial_refund", "full_refund"}
<1> DEFINE o == worker[w].order
           k == worker[w].kind
           seen == worker[w].tx
           status == Dirty(tx[o].status, seen.status, NewStatus(k, seen))
           ref == IF k \in Completing THEN Dirty(tx[o].ref, seen.ref, "intent") ELSE tx[o].ref
<1>1. o \in Order /\ k \in EventKind
  BY BusyWorker DEF BillingTypes
<1>2. tx' = [tx EXCEPT ![o].status = status, ![o].ref = ref]
  BY DEF SetTx
<1>4. /\ seen.status = "refunded" => NewStatus(k, seen) = "refunded"
      /\ seen.status \in RefundStatus => NewStatus(k, seen) \in RefundStatus
      /\ NewStatus(k, seen) \in RefundStatus =>
            seen.status \in RefundStatus \/ k \in {"partial_refund", "full_refund"}
  BY <1>1 DEF NewStatus, RefundStatus, Completing, EventKind
<1>5. /\ seen.status = "refunded" /\ tx[o].status = "refunded" => status = "refunded"
      /\ seen.status \in RefundStatus /\ tx[o].status \in RefundStatus => status \in RefundStatus
      /\ status \in RefundStatus =>
            \/ tx[o].status \in RefundStatus
            \/ seen.status \in RefundStatus \/ k \in {"partial_refund", "full_refund"}
  BY <1>4 DEF Dirty
<1> HIDE DEF o, k, seen, status, ref
<1>6. /\ \A p \in Order : p # o => tx'[p] = tx[p]
      /\ tx'[o].status = status
  BY <1>1, <1>2 DEF BillingTypes, TypeOK, Transaction
<1>7. SUFFICES ASSUME NEW p \in Order
               PROVE  /\ p # o => tx'[p] = tx[p]
                      /\ seen.status = "refunded" /\ tx[p].status = "refunded" =>
                            tx'[p].status = "refunded"
                      /\ seen.status \in RefundStatus /\ tx[p].status \in RefundStatus =>
                            tx'[p].status \in RefundStatus
                      /\ tx'[p].status \in RefundStatus =>
                            \/ tx[p].status \in RefundStatus
                            \/ /\ p = o
                               /\ \/ seen.status \in RefundStatus
                                  \/ k \in {"partial_refund", "full_refund"}
  BY Zenon DEF o, k, seen
<1>8. CASE p = o
  BY <1>5, <1>6, <1>8
<1>9. CASE p # o
  BY <1>6, <1>9
<1>10. QED
  BY <1>8, <1>9

\* The steps of the handlers that do not write the status leave it as it is.
LEMMA HandlerEffect ==
    ASSUME BillingInv, BillingTypes, NEW w \in Workers, FinishEvent(w) \/ HandlerFails(w)
    PROVE  /\ worker[w].pc # "idle" /\ worker[w].order \in Order
           /\ charge' = charge /\ events' \subseteq events
           /\ \A v \in Workers \ {w} : worker'[v] = worker[v]
           /\ worker'[w].pc # "idle" =>
                 /\ worker'[w].order = worker[w].order /\ worker'[w].kind = worker[w].kind
                 /\ worker'[w].tx = worker[w].tx
           /\ \/ worker[w].pc = "commit" /\ SetTx(w)
              \/ \A o \in Order : tx'[o].status = tx[o].status
<1> USE DEF ledger, stripeVars
<1>0. TypeOK /\ worker[w].pc # "idle" /\ worker[w].order \in Order
  BY BusyWorker DEF BillingTypes, FinishEvent, HandlerFails, CompleteCheckout, ExpireCheckout,
     UpdateTransactionStatus, RefundCharge, ReverseTransfer, RecordReversal, Handling
<1>1. charge' = charge /\ events' \subseteq events
  BY DEF FinishEvent, HandlerFails, CompleteCheckout, ExpireCheckout, UpdateTransactionStatus,
         RefundCharge, ReverseTransfer, RecordReversal, Done
<1>2. /\ \A v \in Workers \ {w} : worker'[v] = worker[v]
      /\ worker'[w].pc # "idle" =>
            /\ worker'[w].order = worker[w].order /\ worker'[w].kind = worker[w].kind
            /\ worker'[w].tx = worker[w].tx
  <2>1. CASE RefundCharge(w)
    BY <1>0, <2>1, BusyWorker DEF RefundCharge, AfterRefund, Handling, Release, Idle, TypeOK
  <2>2. CASE ReverseTransfer(w)
    BY <1>0, <2>2, BusyWorker DEF ReverseTransfer, TypeOK
  <2>3. CASE Release(w)
    BY <1>0, <2>3 DEF Release, Idle, TypeOK
  <2>4. QED
    BY <2>1, <2>2, <2>3 DEF FinishEvent, HandlerFails, CompleteCheckout, ExpireCheckout,
       UpdateTransactionStatus, RecordReversal
<1>3. \/ worker[w].pc = "commit" /\ SetTx(w)
      \/ \A o \in Order : tx'[o].status = tx[o].status
  <2>1. CASE RecordReversal(w)
    BY <1>0, <2>1 DEF RecordReversal, TypeOK, Transaction
  <2>2. QED
    BY <2>1 DEF FinishEvent, HandlerFails, CompleteCheckout, ExpireCheckout,
       UpdateTransactionStatus, RefundCharge, ReverseTransfer, Handling
<1>4. QED
  BY <1>0, <1>1, <1>2, <1>3

LEMMA RefundsStep ==
    ASSUME BillingInv, BillingTypes, RefundsAreTrue, [Next]_vars
    PROVE  RefundsAreTrue'
<1>w. \A w \in Workers : worker[w].pc # "idle" => worker[w].order \in Order
  BY BusyWorker DEF BillingTypes
<1>1. ASSUME NEW r \in Requests,
             \/ \E b \in Buyers : Ask(r, b)
             \/ PurchaseTool(r) \/ CreateSessionFails(r) \/ RequestCrash(r)
      PROVE  RefundsAreTrue'
  <2>1. /\ UNCHANGED <<worker, events, charge>>
        /\ \A o \in Order : tx'[o].status \in RefundStatus => tx'[o].status = tx[o].status
    BY <1>1, RequestEffect
  <2>2. QED
    BY <2>1 DEF RefundsAreTrue
<1>2. CASE StripeStep
  <2>1. /\ UNCHANGED <<tx, worker>>
        /\ \A o \in Order :
              /\ charge[o] \in Paid => charge'[o] \in Paid
              /\ <<"partial_refund", o>> \in events' =>
                    <<"partial_refund", o>> \in events \/ charge'[o] \in Paid
    BY <1>2, StripeEffect
  <2>2. QED
    BY <1>w, <2>1 DEF RefundsAreTrue
<1>3. CASE MonthEnds \/ PayoutSelect \/ PayoutTransfer \/ PayoutRecord \/ PayoutFails
  <2>1. /\ UNCHANGED <<worker, events, charge>>
        /\ \A o \in Order : tx'[o].status = tx[o].status
    BY <1>3, PayoutEffect DEF BillingTypes
  <2>2. QED
    BY <2>1 DEF RefundsAreTrue
<1>4. ASSUME NEW w \in Workers, NEW k \in EventKind, NEW o \in Order, TakeEvent(w, k, o)
      PROVE  RefundsAreTrue'
  <2>1. /\ UNCHANGED <<tx, charge>> /\ events' \subseteq events /\ <<k, o>> \in events
        /\ \A v \in Workers \ {w} : worker'[v] = worker[v]
        /\ \/ worker'[w] = worker[w]
           \/ worker'[w].kind = k /\ worker'[w].order = o /\ worker'[w].tx = tx[o]
    BY <1>4 DEF TakeEvent, BillingTypes, TypeOK, ledger, stripeVars
  <2>2. QED
    BY <2>1 DEF RefundsAreTrue
<1>5. ASSUME NEW w \in Workers, FinishEvent(w) \/ HandlerFails(w) PROVE RefundsAreTrue'
  <2>1. /\ worker[w].pc # "idle" /\ worker[w].order \in Order
        /\ charge' = charge /\ events' \subseteq events
        /\ \A v \in Workers \ {w} : worker'[v] = worker[v]
        /\ worker'[w].pc # "idle" =>
              /\ worker'[w].order = worker[w].order /\ worker'[w].kind = worker[w].kind
              /\ worker'[w].tx = worker[w].tx
    BY <1>5, HandlerEffect
  <2>2. /\ worker[w].kind \in {"partial_refund", "full_refund"} => charge[worker[w].order] \in Paid
        /\ worker[w].tx.status \in RefundStatus => charge[worker[w].order] \in Paid
    BY <2>1 DEF BillingInv, EventsAreTrue, RefundsAreTrue, Paid
  <2>3. \A o \in Order : tx'[o].status \in RefundStatus => charge[o] \in Paid
    <3>1. CASE worker[w].pc = "commit" /\ SetTx(w)
      BY <2>2, <3>1, RefundWrite DEF RefundsAreTrue
    <3>2. CASE \A o \in Order : tx'[o].status = tx[o].status
      BY <3>2 DEF RefundsAreTrue
    <3>3. QED
      BY <1>5, <3>1, <3>2, HandlerEffect
  <2>4. \A v \in Workers : worker'[v].pc # "idle" =>
           /\ worker'[v].kind = "partial_refund" => charge[worker'[v].order] \in Paid
           /\ worker'[v].tx.status \in RefundStatus => charge[worker'[v].order] \in Paid
    BY <2>1 DEF RefundsAreTrue
  <2>5. QED
    BY <2>1, <2>3, <2>4 DEF RefundsAreTrue
<1>6. CASE UNCHANGED vars
  BY <1>6 DEF vars, RefundsAreTrue
<1>7. QED
  BY <1>1, <1>2, <1>3, <1>4, <1>5, <1>6 DEF Next

LEMMA RefundsHold == Spec => []RefundsAreTrue
<1>1. Init => RefundsAreTrue
  BY DEF Init, RefundsAreTrue, NoTx, Idle, RefundStatus
<1>2. QED
  BY <1>1, RefundsStep, BillingCorrect, BillingTypesHold, PTL DEF Spec

\* What one step may do to the refund of one order.
StaleOnly(o) ==
    /\ tx[o].status = "refunded" /\ tx'[o].status # "refunded" =>
          \E w \in Workers : /\ worker[w].pc = "commit" /\ worker[w].order = o
                             /\ worker[w].tx.status # "refunded"
    /\ tx[o].status \in RefundStatus /\ tx'[o].status \notin RefundStatus =>
          \E w \in Workers : /\ worker[w].pc = "commit" /\ worker[w].order = o
                             /\ worker[w].tx.status \notin RefundStatus

LEMMA StaleStep ==
    ASSUME BillingInv, BillingTypes, RefundsAreTrue, [Next]_vars, NEW o \in Order
    PROVE  StaleOnly(o)
<1>1. ASSUME tx'[o].status = tx[o].status \/ tx[o].status \notin RefundStatus PROVE StaleOnly(o)
  BY <1>1 DEF StaleOnly, RefundStatus
<1>2. SUFFICES ASSUME tx[o].status \in RefundStatus PROVE StaleOnly(o)
  BY <1>1
<1>3. ASSUME NEW r \in Requests,
             \/ \E b \in Buyers : Ask(r, b)
             \/ PurchaseTool(r) \/ CreateSessionFails(r) \/ RequestCrash(r)
      PROVE  StaleOnly(o)
  <2>1. session[o] # "none"
    BY <1>2 DEF RefundsAreTrue, Paid, BillingInv, CheckoutInv
  <2>2. tx'[o].status = tx[o].status
    BY <1>2, <1>3, <2>1, RequestEffect DEF RefundStatus
  <2>3. QED
    BY <1>1, <2>2
<1>4. ASSUME NEW w \in Workers, NEW k \in EventKind, NEW p \in Order, TakeEvent(w, k, p)
      PROVE  StaleOnly(o)
  <2>1. tx' = tx
    BY <1>4 DEF TakeEvent, ledger
  <2>2. QED
    BY <1>1, <2>1
<1>5. ASSUME NEW w \in Workers, FinishEvent(w) \/ HandlerFails(w) PROVE StaleOnly(o)
  <2>1. CASE worker[w].pc = "commit" /\ SetTx(w)
    <3>1. CASE worker[w].order = o
      <4>1. /\ worker[w].tx.status = "refunded" /\ tx[o].status = "refunded" =>
                  tx'[o].status = "refunded"
            /\ worker[w].tx.status \in RefundStatus /\ tx[o].status \in RefundStatus =>
                  tx'[o].status \in RefundStatus
        BY <2>1, RefundWrite
      <4>2. QED
        BY <2>1, <3>1, <4>1 DEF StaleOnly
    <3>2. CASE worker[w].order # o
      BY <1>1, <2>1, <3>2, RefundWrite
    <3>3. QED
      BY <3>1, <3>2
  <2>2. CASE \A p \in Order : tx'[p].status = tx[p].status
    BY <1>1, <2>2
  <2>3. QED
    BY <1>5, <2>1, <2>2, HandlerEffect
<1>6. CASE StripeStep
  <2>1. tx' = tx
    BY <1>6, StripeEffect
  <2>2. QED
    BY <1>1, <2>1
<1>7. CASE MonthEnds \/ PayoutSelect \/ PayoutTransfer \/ PayoutRecord \/ PayoutFails
  <2>1. tx'[o].status = tx[o].status
    BY <1>7, PayoutEffect
  <2>2. QED
    BY <1>1, <2>1
<1>8. CASE UNCHANGED vars
  BY <1>1, <1>8 DEF vars
<1>9. QED
  BY <1>3, <1>4, <1>5, <1>6, <1>7, <1>8 DEF Next

\* With any number of workers on one order, a refund or a hold is undone only by a handler
\* that loaded the transaction before it (the read and the flush of handle_webhook_event).
THEOREM RefundsYieldToStaleCopies == Spec => OnlyStaleCopiesResurrect
<1>1. ASSUME BillingInv, BillingTypes, RefundsAreTrue, [Next]_vars
      PROVE  [\A o \in Order : StaleOnly(o)]_vars
  BY <1>1, StaleStep
<1>2. QED
  BY <1>1, BillingCorrect, BillingTypesHold, RefundsHold, PTL
     DEF Spec, OnlyStaleCopiesResurrect, StaleOnly
================================================================================
