--------------------------- MODULE StripeEventsProofs ---------------------------
(***************************************************************************)
(* What the durable webhook inbox guarantees for any number of events,     *)
(* request handlers, workers, tries and faults, proved with TLAPS.         *)
(***************************************************************************)
EXTENDS StripeEvents, TLAPS

USE TriesAssumption, BoundAssumption, BudgetAssumption

(***************************************************************************)
(* Type correctness.                                                       *)
(***************************************************************************)

\* A row keeps its type whichever columns a session flushes.
LEMMA DirtyStatus ==
    ASSUME NEW old \in Status \cup {"none"}, NEW seen, NEW new \in Status
    PROVE  Dirty(old, seen, new) \in Status \cup {"none"}
BY DEF Dirty

\* A handler that is not idle carries a complete request.
LEMMA BusyApi ==
    ASSUME TypeOK, NEW a \in Api, api[a].pc # "idle"
    PROVE  api[a] \in [pc: ApiStep, event: Events, seen: Row,
                       generation: Generation, admin: BOOLEAN]
BY DEF TypeOK, ApiState, IdleApi

LEMMA BusyWorker ==
    ASSUME TypeOK, NEW w \in Workers, worker[w].pc # "idle"
    PROVE  /\ worker[w] \in [pc: WorkerStep, event: Events, generation: Generation,
                             try: 1 .. MaxTries, seen: Row]
           /\ JobOf(w) \in JobId
BY DEF TypeOK, WorkerState, IdleWorker, JobOf, JobId

\* The request that _enqueue_receipt works on.
LEMMA RequeueType ==
    ASSUME TypeOK, NEW e \in Events, NEW g \in Generation, NEW admin \in BOOLEAN
    PROVE  Requeue(e, row[e], g, admin) \in ApiState
BY DEF TypeOK, Requeue, ApiState, ApiStep

LEMMA GenerationType ==
    ASSUME TypeOK, NEW e \in Events
    PROVE  /\ row[e].attempts \in Generation
           /\ row[e].attempts + 1 \in Generation
<1>1. row[e].attempts \in Attempts
  BY DEF TypeOK, Row
<1>2. QED
  BY <1>1 DEF Attempts, Generation

LEMMA AcceptType ==
    ASSUME TypeOK, NEW a \in Api, NEW e \in Events, AcceptExisting(a, e)
    PROVE  api' \in [Api -> ApiState] /\ acked' \subseteq Events
<1>1. Requeue(e, row[e], row[e].attempts, FALSE) \in ApiState
  BY RequeueType, GenerationType
<1>2. QED
  BY <1>1 DEF AcceptExisting, TypeOK, ApiState

\* Every step of the code keeps the state well typed.
LEMMA TypeStep == TypeOK /\ [Next]_vars => TypeOK'
<1> SUFFICES ASSUME TypeOK, [Next]_vars PROVE TypeOK'
  OBVIOUS
<1>1. ASSUME NEW a \in Api, NEW e \in Events, Deliver(a, e) PROVE TypeOK'
  <2>1. [pc |-> "insert", event |-> e, seen |-> NoRow, generation |-> 0,
         admin |-> FALSE] \in ApiState
    BY DEF ApiState, ApiStep, NoRow, Row, Status, Attempts, Generation
  <2>2. api' \in [Api -> ApiState] /\ acked' \subseteq Events
    BY <1>1, <2>1, AcceptType DEF Deliver, TypeOK
  <2>3. QED
    BY <1>1, <2>2 DEF Deliver, TypeOK
<1>2. ASSUME NEW a \in Api, NEW e \in Events, AdminRetry(a, e) PROVE TypeOK'
  <2>1. Requeue(e, row[e], row[e].attempts + 1, TRUE) \in ApiState
    BY RequeueType, GenerationType
  <2>2. QED
    BY <1>2, <2>1 DEF AdminRetry, TypeOK
<1>3. ASSUME NEW a \in Api, Insert(a) PROVE TypeOK'
  <2>1. api[a].event \in Events /\ api[a].pc = "insert"
    BY <1>3, BusyApi DEF Insert
  <2>2. CASE row[api[a].event].status = "none"
    <3>1. row' \in [Events -> Row]
      BY <1>3, <2>1, <2>2 DEF Insert, TypeOK, Row, Status, ActiveStatus
    <3>2. api' \in [Api -> ApiState]
      BY <1>3, <2>1, <2>2, BusyApi DEF Insert, TypeOK, ApiState, ApiStep
    <3>3. QED
      BY <1>3, <2>2, <3>1, <3>2 DEF Insert, TypeOK
  <2>3. CASE row[api[a].event].status # "none"
    BY <1>3, <2>1, <2>3, AcceptType DEF Insert, TypeOK
  <2>4. QED
    BY <2>2, <2>3
<1>4. ASSUME NEW a \in Api, RefreshCreated(a) PROVE TypeOK'
  <2>1. api[a].event \in Events
    BY <1>4, BusyApi DEF RefreshCreated
  <2>2. Requeue(api[a].event, row[api[a].event], row[api[a].event].attempts, FALSE)
          \in ApiState
    BY <2>1, RequeueType, GenerationType
  <2>3. QED
    BY <1>4, <2>1, <2>2 DEF RefreshCreated, TypeOK, ApiState
<1>5. ASSUME NEW a \in Api, CommitQueued(a) PROVE TypeOK'
  <2>1. row' \in [Events -> Row]
    BY <1>5, BusyApi, DirtyStatus DEF CommitQueued, TypeOK, Row, Status, ActiveStatus
  <2>2. api' \in [Api -> ApiState]
    BY <1>5, BusyApi DEF CommitQueued, TypeOK, ApiState, ApiStep
  <2>3. QED
    BY <1>5, <2>1, <2>2 DEF CommitQueued, TypeOK
<1>6. ASSUME NEW a \in Api, Enqueue(a) \/ EnqueueError(a) PROVE TypeOK'
  <2>1. <<api[a].event, api[a].generation>> \in JobId /\ api[a].event \in Events
    BY <1>6, BusyApi DEF Enqueue, EnqueueError, JobId
  <2>2. waiting' \subseteq JobId
    BY <1>6, <2>1 DEF Enqueue, EnqueueError, Push, TypeOK
  <2>3. api' \in [Api -> ApiState]
    BY <1>6, BusyApi DEF Enqueue, EnqueueError, TypeOK, ApiState, ApiStep
  <2>4. faults' \in [FaultKind -> Nat]
    BY <1>6 DEF Enqueue, EnqueueError, Spend, TypeOK, FaultKind
  <2>5. QED
    BY <1>6, <2>1, <2>2, <2>3, <2>4 DEF Enqueue, EnqueueError, TypeOK
<1>7. ASSUME NEW a \in Api, RefreshAfterError(a) PROVE TypeOK'
  <2>1. api' \in [Api -> ApiState]
    BY <1>7, BusyApi, ZenonT(40) DEF RefreshAfterError, TypeOK, ApiState, ApiStep
  <2>2. QED
    BY <1>7, <2>1 DEF RefreshAfterError, TypeOK
<1>8. ASSUME NEW a \in Api, CommitUnqueued(a) PROVE TypeOK'
  <2> DEFINE e == api[a].event
             enqueued == Dirty(row[e].enqueued, api[a].seen.enqueued, FALSE)
             status == IF api[a].admin
                       THEN Dirty(row[e].status, api[a].seen.status, "failed")
                       ELSE row[e].status
  <2>1. e \in Events
    BY <1>8, BusyApi DEF CommitUnqueued
  <2>2. enqueued \in BOOLEAN
    BY <2>1, Zenon DEF Dirty, TypeOK, Row
  <2>3. status \in Status \cup {"none"}
    BY <2>1, DirtyStatus DEF TypeOK, Row, Status
  <2>4. row' = [row EXCEPT ![e].enqueued = enqueued, ![e].status = status]
    BY <1>8, Zenon DEF CommitUnqueued
  <2> HIDE DEF e, enqueued, status
  <2>5. row' \in [Events -> Row]
    BY <2>1, <2>2, <2>3, <2>4, ZenonT(40) DEF TypeOK, Row
  <2>6. QED
    BY <1>8, <2>5 DEF CommitUnqueued, TypeOK, ApiState
<1>9. ASSUME NEW a \in Api, ApiCrash(a) PROVE TypeOK'
  BY <1>9 DEF ApiCrash, Spend, TypeOK, ApiState, FaultKind
<1>10. ASSUME NEW w \in Workers, NEW j \in JobId, StartJob(w, j) PROVE TypeOK'
  <2>1. CASE Runs(j)
    <3>1. tries[j] + 1 \in 1 .. MaxTries
      BY <2>1 DEF Runs, TypeOK
    <3>2. [pc |-> "mark", event |-> j[1], generation |-> j[2], try |-> tries[j] + 1,
           seen |-> row[j[1]]] \in WorkerState
      BY <3>1 DEF WorkerState, WorkerStep, JobId, TypeOK
    <3>3. QED
      BY <1>10, <2>1, <3>1, <3>2 DEF StartJob, TypeOK
  <2>2. CASE ~ Runs(j)
    BY <1>10, <2>2 DEF StartJob, TypeOK
  <2>3. QED
    BY <2>1, <2>2
<1>11. ASSUME NEW w \in Workers, MarkProcessing(w) PROVE TypeOK'
  <2>1. worker[w].seen.attempts + 1 \in Attempts /\ worker[w].event \in Events
    BY <1>11, BusyWorker DEF MarkProcessing, Row, Attempts
  <2>2. row' \in [Events -> Row]
    BY <1>11, <2>1, DirtyStatus DEF MarkProcessing, TypeOK, Row, Status, ActiveStatus
  <2>3. worker' \in [Workers -> WorkerState]
    BY <1>11, BusyWorker DEF MarkProcessing, TypeOK, WorkerState, WorkerStep
  <2>4. QED
    BY <1>11, <2>2, <2>3 DEF MarkProcessing, TypeOK
<1>12. ASSUME NEW w \in Workers, Handle(w) \/ HandlerError(w) \/ Reload(w) PROVE TypeOK'
  <2>1. worker[w].event \in Events
    BY <1>12, BusyWorker DEF Handle, HandlerError, Reload
  <2>2. worker' \in [Workers -> WorkerState]
    BY <1>12, <2>1, BusyWorker
       DEF Handle, HandlerError, Reload, TypeOK, WorkerState, WorkerStep
  <2>3. QED
    BY <1>12, <2>1, <2>2 DEF Handle, HandlerError, Reload, Spend, TypeOK, FaultKind
<1>13. ASSUME NEW w \in Workers, MarkSucceeded(w) \/ MarkFailure(w) PROVE TypeOK'
  <2>1. row' \in [Events -> Row]
    BY <1>13, BusyWorker, DirtyStatus
       DEF MarkSucceeded, MarkFailure, TypeOK, Row, Status, ActiveStatus
  <2>2. worker' \in [Workers -> WorkerState]
    BY <1>13, BusyWorker DEF MarkSucceeded, MarkFailure, TypeOK, WorkerState, WorkerStep
  <2>3. QED
    BY <1>13, <2>1, <2>2 DEF MarkSucceeded, MarkFailure, TypeOK
<1>14. ASSUME NEW w \in Workers,
              FinishJob(w) \/ DeferJob(w) \/ WorkerCrash(w) \/ AbortJob(w)
       PROVE TypeOK'
  <2>1. JobOf(w) \in JobId
    BY <1>14, BusyWorker DEF FinishJob, DeferJob, WorkerCrash, AbortJob
  <2>2. QED
    BY <1>14, <2>1
       DEF FinishJob, DeferJob, WorkerCrash, AbortJob, Spend, TypeOK, WorkerState, FaultKind
<1>15. ASSUME NEW j \in JobId, ExpireJob(j) \/ ExpireResult(j) PROVE TypeOK'
  BY <1>15 DEF ExpireJob, ExpireResult, Spend, FaultKind, TypeOK
<1>16. CASE UNCHANGED vars
  BY <1>16 DEF vars, TypeOK
<1>17. QED
  BY <1>1, <1>2, <1>3, <1>4, <1>5, <1>6, <1>7, <1>8, <1>9, <1>10, <1>11, <1>12,
     <1>13, <1>14, <1>15, <1>16 DEF Next, ApiProgress, WorkerProgress

\* The state of the inbox is always well typed.
THEOREM TypeCorrect == Spec => []TypeOK
<1>1. Init => TypeOK
  BY DEF Init, TypeOK, NoRow, Row, Status, Attempts, ApiState, WorkerState
<1>2. QED
  BY <1>1, TypeStep, PTL DEF Spec

(***************************************************************************)
(* The receipt comes first and success is earned.                          *)
(*                                                                         *)
(* Every step either leaves the invariant's parts alone or changes one row,*)
(* one request or one job of an event that is already recorded.            *)
(***************************************************************************)

\* A step of one worker changes what that worker holds and nothing else.
LEMMA HeldStep ==
    ASSUME TypeOK, NEW w \in Workers, NEW s, NEW j,
           worker' = [worker EXCEPT ![w] = s],
           s.pc # "idle" => <<s.event, s.generation>> = j
    PROVE  Held' \subseteq Held \cup {j}
<1> SUFFICES ASSUME NEW x \in Workers, worker'[x].pc # "idle"
             PROVE  JobOf(x)' \in Held \cup {j}
  BY DEF Held
<1>1. CASE x = w
  BY <1>1 DEF TypeOK, JobOf
<1>2. CASE x # w
  BY <1>2 DEF TypeOK, JobOf, Held
<1>3. QED
  BY <1>1, <1>2

\* Requests leave the jobs alone, except that Enqueue adds one.
LEMMA HeldFrame == worker' = worker => Held' = Held
BY DEF Held, JobOf

\* A flush of an existing row keeps the receipt.
LEMMA FlushKeeps ==
    ASSUME TypeOK, NEW e \in Events, NEW r, row' = [row EXCEPT ![e] = r],
           row[e].status # "none" => r.status # "none"
    PROVE  Recorded \subseteq Recorded'
BY DEF Recorded, TypeOK

\* The steps of the inbox preserve its invariant, given for each the four facts
\* that its proof establishes.
LEMMA InboxFrame ==
    ASSUME InboxInv,
           Recorded \subseteq Recorded',
           \A j \in Known' : j[1] \in Recorded',
           acked' \subseteq Recorded',
           handled \subseteq handled', handled' \subseteq Recorded',
           \A e \in Events : row'[e].status = "succeeded" => e \in handled',
           \A a \in Api : api'[a].pc \notin {"idle", "insert"} => api'[a].event \in Recorded',
           \A w \in Workers : worker'[w].pc = "succeed" => worker'[w].event \in handled'
    PROVE  InboxInv'
BY Zenon DEF InboxInv, ReceiptFirst, SucceededWasHandled

LEMMA HeldBy ==
    ASSUME NEW w \in Workers, worker[w].pc # "idle"
    PROVE  JobOf(w) \in Known
BY DEF Known, Alive, Held

LEMMA InboxStep == TypeOK /\ InboxInv /\ [Next]_vars => InboxInv'
<1> SUFFICES ASSUME TypeOK, InboxInv, [Next]_vars PROVE InboxInv'
  OBVIOUS
<1>h. /\ \A j \in Known : j[1] \in Recorded
      /\ acked \subseteq Recorded
      /\ handled \subseteq Recorded
      /\ \A e \in Events : row[e].status = "succeeded" => e \in handled
      /\ \A a \in Api : api[a].pc \notin {"idle", "insert"} => api[a].event \in Recorded
      /\ \A w \in Workers : worker[w].pc = "succeed" => worker[w].event \in handled
  BY DEF InboxInv, ReceiptFirst, SucceededWasHandled
\* Steps of a request that change no row: answers, refreshes and errors.
<1>1. ASSUME NEW a \in Api, NEW s,
             s.pc \notin {"idle", "insert"} => s.event \in Recorded,
             api' = [api EXCEPT ![a] = s],
             \A e \in acked' : e \in acked \/ e \in Recorded,
             \A j \in waiting' : j \in waiting \/ j[1] \in Recorded,
             UNCHANGED <<row, worker, results, handled>>
      PROVE  InboxInv'
  <2>1. Recorded' = Recorded
    BY <1>1 DEF Recorded
  <2>2. \A j \in Known' : j[1] \in Recorded'
    BY <1>1, <1>h, <2>1, HeldFrame DEF Known, Alive
  <2>3. \A b \in Api : api'[b].pc \notin {"idle", "insert"} => api'[b].event \in Recorded'
    BY <1>1, <1>h, <2>1 DEF TypeOK
  <2>4. QED
    BY <1>1, <1>h, <2>1, <2>2, <2>3, InboxFrame
\* Flushes of a request.
<1>2. ASSUME NEW a \in Api, NEW e \in Events, NEW r, NEW s,
             row' = [row EXCEPT ![e] = r],
             r.status \notin {"none", "succeeded"} \/ r.status = row[e].status,
             s.pc \notin {"idle", "insert"} => s.event = e /\ r.status # "none",
             api' = [api EXCEPT ![a] = s],
             UNCHANGED <<worker, waiting, results, handled, acked>>
      PROVE  InboxInv'
  <2>1. Recorded \subseteq Recorded' /\ (r.status # "none" => e \in Recorded')
    BY <1>2, FlushKeeps DEF Recorded, TypeOK
  <2>2. \A j \in Known' : j[1] \in Recorded'
    BY <1>2, <1>h, <2>1, HeldFrame DEF Known, Alive
  <2>3. \A b \in Api : api'[b].pc \notin {"idle", "insert"} => api'[b].event \in Recorded'
    BY <1>2, <1>h, <2>1 DEF TypeOK
  <2>4. \A f \in Events : row'[f].status = "succeeded" => f \in handled'
    BY <1>2, <1>h DEF TypeOK
  <2>5. QED
    BY <1>2, <1>h, <2>1, <2>2, <2>3, <2>4, InboxFrame
\* Steps of a worker: it holds a job of a recorded event, and what it writes
\* back to the row is success only if the handler is done.
<1>3. ASSUME NEW w \in Workers, NEW s, NEW j, NEW e \in Recorded, NEW r,
             j[1] = e,
             worker' = [worker EXCEPT ![w] = s],
             s.pc # "idle" => <<s.event, s.generation>> = j,
             s.pc = "succeed" => s.event \in handled',
             row' = [row EXCEPT ![e] = r],
             r.status # "none",
             r.status = "succeeded" => r.status = row[e].status \/ e \in handled,
             handled' = handled \/ handled' = handled \cup {e},
             \A k \in waiting' \cup results' : k \in waiting \cup results \cup {j},
             UNCHANGED <<api, acked>>
      PROVE  InboxInv'
  <2>1. Recorded \subseteq Recorded'
    BY <1>3, FlushKeeps DEF Recorded
  <2>2. \A k \in Known' : k[1] \in Recorded'
    BY <1>3, <1>h, <2>1, HeldStep DEF Known, Alive
  <2>3. \A f \in Events : row'[f].status = "succeeded" => f \in handled'
    BY <1>3, <1>h DEF TypeOK, Recorded
  <2>4. \A x \in Workers : worker'[x].pc = "succeed" => worker'[x].event \in handled'
    BY <1>3, <1>h DEF TypeOK
  <2>5. QED
    BY <1>3, <1>h, <2>1, <2>2, <2>3, <2>4, InboxFrame
<1>4. ASSUME NEW a \in Api, NEW e \in Events, AcceptExisting(a, e),
             row[e].status # "none",
             UNCHANGED <<row, worker, waiting, results, handled>>
      PROVE  InboxInv'
  <2>1. e \in Recorded
    BY <1>4 DEF Recorded
  <2>2. CASE Settled(row[e])
    <3>1. api' = [api EXCEPT ![a] = IdleApi] /\ acked' = acked \cup {e}
      BY <1>4, <2>2 DEF AcceptExisting
    <3>2. QED
      BY <1>1, <1>4, <2>1, <3>1 DEF IdleApi
  <2>3. CASE ~ Settled(row[e])
    <3>1. api' = [api EXCEPT ![a] = Requeue(e, row[e], row[e].attempts, FALSE)]
          /\ acked' = acked
      BY <1>4, <2>3 DEF AcceptExisting
    <3>2. Requeue(e, row[e], row[e].attempts, FALSE).event = e
      BY DEF Requeue
    <3>3. QED
      BY <1>1, <1>4, <2>1, <3>1, <3>2
  <2>4. QED
    BY <2>2, <2>3
<1>5. ASSUME NEW a \in Api, NEW e \in Events, Deliver(a, e) PROVE InboxInv'
  <2>1. CASE row[e].status = "none"
    <3> DEFINE s == [pc |-> "insert", event |-> e, seen |-> NoRow, generation |-> 0,
                     admin |-> FALSE]
    <3>1. api' = [api EXCEPT ![a] = s] /\ s.pc = "insert" /\ acked' = acked
      BY <1>5, <2>1 DEF Deliver
    <3>2. UNCHANGED <<row, worker, waiting, results, handled>>
      BY <1>5 DEF Deliver
    <3> HIDE DEF s
    <3>3. QED
      BY <1>1, <3>1, <3>2
  <2>2. CASE row[e].status # "none"
    BY <1>4, <1>5, <2>2 DEF Deliver
  <2>3. QED
    BY <2>1, <2>2
<1>6. ASSUME NEW a \in Api, NEW e \in Events, AdminRetry(a, e) PROVE InboxInv'
  <2> DEFINE s == Requeue(e, row[e], row[e].attempts + 1, TRUE)
  <2>1. e \in Recorded
    BY <1>6 DEF AdminRetry, Retryable, ActiveStatus, Recorded
  <2>2. api' = [api EXCEPT ![a] = s] /\ s.event = e
    BY <1>6 DEF AdminRetry, Requeue
  <2>3. UNCHANGED <<row, worker, waiting, results, handled, acked>>
    BY <1>6 DEF AdminRetry
  <2> HIDE DEF s
  <2>4. QED
    BY <1>1, <2>1, <2>2, <2>3
<1>7. ASSUME NEW a \in Api, Insert(a) PROVE InboxInv'
  <2> DEFINE e == api[a].event
             r == [row[e] EXCEPT !.status = "queued"]
             s == [api[a] EXCEPT !.pc = "created"]
  <2>1. e \in Events
    BY <1>7, BusyApi DEF Insert
  <2>2. CASE row[e].status = "none"
    <3>1. row' = [row EXCEPT ![e] = r] /\ api' = [api EXCEPT ![a] = s]
      BY <1>7, <2>2 DEF Insert
    <3>2. r.status = "queued" /\ s.event = e
      BY <1>7, <2>1, BusyApi DEF TypeOK, Row, Insert
    <3>3. UNCHANGED <<worker, waiting, results, handled, acked>>
      BY <1>7, <2>2 DEF Insert
    <3> HIDE DEF e, r, s
    <3>4. QED
      BY <1>2, <2>1, <3>1, <3>2, <3>3
  <2>3. CASE row[e].status # "none"
    BY <1>4, <1>7, <2>1, <2>3 DEF Insert
  <2>4. QED
    BY <2>2, <2>3
<1>8. ASSUME NEW a \in Api, RefreshCreated(a) PROVE InboxInv'
  <2> DEFINE e == api[a].event
             s == Requeue(e, row[e], row[e].attempts, FALSE)
  <2>1. e \in Recorded
    BY <1>8, <1>h DEF RefreshCreated
  <2>2. UNCHANGED <<row, worker, waiting, results, handled>>
    BY <1>8 DEF RefreshCreated
  <2>3. CASE row[e].status = "succeeded"
    <3>1. api' = [api EXCEPT ![a] = IdleApi] /\ acked' = acked \cup {e}
      BY <1>8, <2>3 DEF RefreshCreated
    <3>2. QED
      BY <1>1, <2>1, <2>2, <3>1 DEF IdleApi
  <2>4. CASE row[e].status # "succeeded"
    <3>1. api' = [api EXCEPT ![a] = s] /\ s.event = e /\ acked' = acked
      BY <1>8, <2>4 DEF RefreshCreated, Requeue
    <3> HIDE DEF e, s
    <3>2. QED
      BY <1>1, <2>1, <2>2, <3>1
  <2>5. QED
    BY <2>3, <2>4
<1>9. ASSUME NEW a \in Api, CommitQueued(a) PROVE InboxInv'
  <2> DEFINE e == api[a].event
             r == [row[e] EXCEPT !.status = Dirty(@, api[a].seen.status, "queued"),
                                 !.enqueued = TRUE]
             s == [api[a] EXCEPT !.pc = "enqueue"]
  <2>1. e \in Events /\ e \in Recorded
    BY <1>9, <1>h, BusyApi DEF CommitQueued
  <2>2. row' = [row EXCEPT ![e] = r] /\ api' = [api EXCEPT ![a] = s]
    BY <1>9 DEF CommitQueued
  <2>3. r.status \in {"queued", row[e].status} /\ r.status # "none" /\ s.event = e
    BY <1>9, <2>1, BusyApi DEF TypeOK, Row, CommitQueued, Dirty, Recorded
  <2>4. UNCHANGED <<worker, waiting, results, handled, acked>>
    BY <1>9 DEF CommitQueued
  <2> HIDE DEF e, r, s
  <2>5. QED
    BY <1>2, <2>1, <2>2, <2>3, <2>4
<1>10. ASSUME NEW a \in Api, Enqueue(a) \/ EnqueueError(a) PROVE InboxInv'
  <2> DEFINE e == api[a].event
             s == [api[a] EXCEPT !.pc = "queue_error"]
  <2>1. e \in Recorded /\ s.event = e
    BY <1>10, <1>h, BusyApi DEF Enqueue, EnqueueError
  <2>2. \A j \in waiting' : j \in waiting \/ j[1] = e
    BY <1>10 DEF Enqueue, EnqueueError, Push
  <2>3. UNCHANGED <<row, worker, results, handled>>
    BY <1>10 DEF Enqueue, EnqueueError
  <2>4. \/ api' = [api EXCEPT ![a] = IdleApi]
        \/ api' = [api EXCEPT ![a] = s]
    BY <1>10 DEF Enqueue, EnqueueError
  <2>5. acked' \in {acked, acked \cup {e}}
    BY <1>10 DEF Enqueue, EnqueueError
  <2>6. IdleApi.pc = "idle"
    BY DEF IdleApi
  <2> HIDE DEF e, s
  <2>7. QED
    BY <1>1, <2>1, <2>2, <2>3, <2>4, <2>5, <2>6
<1>11. ASSUME NEW a \in Api, RefreshAfterError(a) \/ ApiCrash(a) PROVE InboxInv'
  <2> DEFINE e == api[a].event
             s == [api[a] EXCEPT !.pc = "unqueue", !.seen = row[e]]
  <2>1. UNCHANGED <<row, worker, waiting, results, handled, acked>>
    BY <1>11 DEF RefreshAfterError, ApiCrash
  <2>2. CASE api' = [api EXCEPT ![a] = IdleApi]
    BY <1>1, <2>1, <2>2 DEF IdleApi
  <2>3. CASE api' = [api EXCEPT ![a] = s] /\ RefreshAfterError(a)
    <3>1. e \in Recorded /\ s.event = e
      BY <2>3, <1>h, BusyApi DEF RefreshAfterError
    <3> HIDE DEF e, s
    <3>2. QED
      BY <1>1, <2>1, <2>3, <3>1
  <2>4. QED
    BY <1>11, <2>2, <2>3 DEF RefreshAfterError, ApiCrash
<1>12. ASSUME NEW a \in Api, CommitUnqueued(a) PROVE InboxInv'
  <2> DEFINE e == api[a].event
             r == [row[e] EXCEPT !.enqueued = Dirty(@, api[a].seen.enqueued, FALSE),
                                 !.status = IF api[a].admin
                                            THEN Dirty(@, api[a].seen.status, "failed")
                                            ELSE @]
  <2>1. e \in Events /\ e \in Recorded
    BY <1>12, <1>h, BusyApi DEF CommitUnqueued
  <2>2. row' = [row EXCEPT ![e] = r] /\ api' = [api EXCEPT ![a] = IdleApi]
    BY <1>12, Zenon DEF CommitUnqueued
  <2>3. r.status \in {"failed", row[e].status} /\ r.status # "none"
    BY <2>1 DEF TypeOK, Row, Dirty, Recorded
  <2>4. UNCHANGED <<worker, waiting, results, handled, acked>>
    BY <1>12 DEF CommitUnqueued
  <2>5. IdleApi.pc = "idle"
    BY DEF IdleApi
  <2> HIDE DEF e, r
  <2>6. QED
    BY <1>2, <2>1, <2>2, <2>3, <2>4, <2>5
<1>13. ASSUME NEW w \in Workers, NEW j \in JobId, StartJob(w, j) PROVE InboxInv'
  <2> DEFINE s == [pc |-> "mark", event |-> j[1], generation |-> j[2],
                   try |-> tries[j] + 1, seen |-> row[j[1]]]
  <2>1. j \in Known /\ j[1] \in Recorded /\ j[1] \in Events
    BY <1>13, <1>h DEF StartJob, Known, Alive, JobId
  <2>2. \/ worker' = [worker EXCEPT ![w] = s] /\ results' = results
        \/ UNCHANGED worker /\ results' = results \cup {j}
    BY <1>13 DEF StartJob
  <2>3. /\ UNCHANGED <<row, api, handled, acked>>
        /\ waiting' = waiting \ {j}
    BY <1>13 DEF StartJob
  <2>4. /\ row' = [row EXCEPT ![j[1]] = row[j[1]]]
        /\ row[j[1]].status # "none"
    BY <2>1, <2>3 DEF TypeOK, Recorded
  <2>5. s.pc = "mark" /\ <<s.event, s.generation>> = j
    BY DEF JobId
  <2>6. CASE worker' = [worker EXCEPT ![w] = s] /\ results' = results
    <3> HIDE DEF s
    <3>1. QED
      BY <1>3, <2>1, <2>3, <2>4, <2>5, <2>6
  <2>7. CASE UNCHANGED worker /\ results' = results \cup {j}
    <3>1. Recorded' = Recorded
      BY <2>3 DEF Recorded
    <3>2. \A k \in Known' : k[1] \in Recorded'
      BY <1>h, <2>1, <2>3, <2>7, <3>1, HeldFrame DEF Known, Alive
    <3>3. QED
      BY <1>h, <2>3, <2>7, <3>1, <3>2, InboxFrame
  <2>8. QED
    BY <2>2, <2>6, <2>7
\* What every later step of a worker may rely on.
<1>14. ASSUME NEW w \in Workers, worker[w].pc # "idle"
       PROVE  /\ worker[w].event \in Recorded /\ worker[w].event \in Events
              /\ JobOf(w)[1] = worker[w].event
              /\ JobOf(w) = <<worker[w].event, worker[w].generation>>
              /\ row[worker[w].event].status # "none"
  <2>1. JobOf(w) \in Known /\ JobOf(w) = <<worker[w].event, worker[w].generation>>
    BY <1>14 DEF Known, Alive, Held, JobOf
  <2>2. QED
    BY <1>h, <1>14, <2>1, BusyWorker DEF Recorded
\* A worker step between two steps of the function: the job stays held.
<1>15. ASSUME NEW w \in Workers, NEW s, NEW r, worker[w].pc # "idle",
              worker' = [worker EXCEPT ![w] = s],
              s.event = worker[w].event,
              s.generation = worker[w].generation,
              s.pc = "succeed" => worker[w].event \in handled',
              row' = [row EXCEPT ![worker[w].event] = r],
              r.status # "none",
              r.status = "succeeded" => r.status = row[worker[w].event].status
                                        \/ worker[w].event \in handled,
              handled' = handled \/ handled' = handled \cup {worker[w].event},
              UNCHANGED <<api, waiting, results, acked>>
       PROVE  InboxInv'
  <2> DEFINE e == worker[w].event
             j == JobOf(w)
  <2>1. e \in Recorded /\ j[1] = e /\ <<s.event, s.generation>> = j
    BY <1>14, <1>15
  <2>2. /\ s.pc = "succeed" => s.event \in handled'
        /\ row' = [row EXCEPT ![e] = r]
        /\ r.status = "succeeded" => r.status = row[e].status \/ e \in handled
        /\ handled' = handled \/ handled' = handled \cup {e}
    BY <1>15
  <2>3. \A k \in waiting' \cup results' : k \in waiting \cup results \cup {j}
    BY <1>15
  <2>4. /\ r.status # "none"
        /\ worker' = [worker EXCEPT ![w] = s]
        /\ UNCHANGED <<api, acked>>
    BY <1>15
  <2> HIDE DEF e, j
  <2>5. QED
    BY <1>3, <2>1, <2>2, <2>3, <2>4
<1>16. ASSUME NEW w \in Workers, MarkProcessing(w) PROVE InboxInv'
  <2> DEFINE e == worker[w].event
             r == [row[e] EXCEPT !.status = Dirty(@, worker[w].seen.status, "processing"),
                                 !.attempts = worker[w].seen.attempts + 1]
  <2>1. worker[w].pc # "idle" /\ UNCHANGED <<api, waiting, results, handled, acked>>
    BY <1>16 DEF MarkProcessing
  <2>2. row' = [row EXCEPT ![e] = r]
    BY <1>16 DEF MarkProcessing
  <2>3. r.status \in {"processing", row[e].status} /\ r.status # "none"
    BY <1>14, <2>1 DEF TypeOK, Row, Dirty
  <2> DEFINE s == [worker[w] EXCEPT !.pc = "handle"]
  <2>4. /\ worker' = [worker EXCEPT ![w] = s]
        /\ s.pc = "handle" /\ s.event = e /\ s.generation = worker[w].generation
    BY <1>16, <2>1, BusyWorker DEF MarkProcessing
  <2> HIDE DEF r, s
  <2>5. QED
    BY <1>15, <2>1, <2>2, <2>3, <2>4
<1>17. ASSUME NEW w \in Workers, Handle(w) \/ HandlerError(w) \/ Reload(w)
       PROVE InboxInv'
  <2> DEFINE e == worker[w].event
  <2>1. worker[w].pc # "idle" /\ UNCHANGED <<row, api, waiting, results, acked>>
    BY <1>17 DEF Handle, HandlerError, Reload
  <2>2. row' = [row EXCEPT ![e] = row[e]] /\ row[e].status # "none"
    BY <1>14, <2>1 DEF TypeOK
  <2> DEFINE r == row[e]
             s == worker'[w]
  <2>3. /\ worker' = [worker EXCEPT ![w] = s]
        /\ s.event = e /\ s.generation = worker[w].generation
    BY <1>17, <2>1, BusyWorker DEF Handle, HandlerError, Reload, TypeOK
  <2>4. handled' = handled \/ handled' = handled \cup {e}
    BY <1>17 DEF Handle, HandlerError, Reload
  <2>5. s.pc = "succeed" => e \in handled'
    BY <1>17, <2>1, BusyWorker DEF Handle, HandlerError, Reload, TypeOK
  <2> HIDE DEF r, s
  <2>6. QED
    BY <1>15, <2>1, <2>2, <2>3, <2>4, <2>5 DEF r
<1>18. ASSUME NEW w \in Workers, MarkSucceeded(w) \/ MarkFailure(w) PROVE InboxInv'
  <2> DEFINE e == worker[w].event
             last == worker[w].try >= MaxTries
             status == IF worker[w].pc = "succeed" THEN "succeeded"
                       ELSE IF last THEN "failed" ELSE "retrying"
             r == [row[e] EXCEPT !.status = Dirty(@, worker[w].seen.status, status)]
             s == [worker[w] EXCEPT !.pc = IF worker[w].pc = "succeed" \/ last
                                           THEN "return" ELSE "retry"]
  <2>1. worker[w].pc # "idle" /\ UNCHANGED <<api, waiting, results, handled, acked>>
    BY <1>18 DEF MarkSucceeded, MarkFailure
  <2>2. row' = [row EXCEPT ![e] = r]
    BY <1>18 DEF MarkSucceeded, MarkFailure
  <2>3. /\ worker' = [worker EXCEPT ![w] = s]
        /\ s.event = e /\ s.generation = worker[w].generation /\ s.pc # "succeed"
    BY <1>18, <2>1, BusyWorker DEF MarkSucceeded, MarkFailure
  <2>4. r.status \in {status, row[e].status}
    BY <1>14, <2>1 DEF TypeOK, Row, Dirty
  <2>5. status # "none" /\ (status = "succeeded" => e \in handled)
    BY <1>h
  <2>6. r.status # "none" /\ (r.status = "succeeded" => r.status = row[e].status
                                                        \/ e \in handled)
    BY <1>14, <2>1, <2>4, <2>5
  <2> HIDE DEF r, s, status, last
  <2>7. QED
    BY <1>15, <2>1, <2>2, <2>3, <2>6
<1>19. ASSUME NEW w \in Workers,
              FinishJob(w) \/ DeferJob(w) \/ WorkerCrash(w) \/ AbortJob(w)
       PROVE InboxInv'
  <2> DEFINE e == worker[w].event
  <2>1. worker[w].pc # "idle" /\ UNCHANGED <<row, api, handled, acked>>
    BY <1>19 DEF FinishJob, DeferJob, WorkerCrash, AbortJob
  <2>2. row' = [row EXCEPT ![e] = row[e]] /\ row[e].status # "none"
    BY <1>14, <2>1 DEF TypeOK
  <2>3. worker' = [worker EXCEPT ![w] = IdleWorker] /\ IdleWorker.pc = "idle"
    BY <1>19 DEF FinishJob, DeferJob, WorkerCrash, AbortJob, IdleWorker
  <2>4. \A k \in waiting' \cup results' : k \in waiting \cup results \cup {JobOf(w)}
    BY <1>19 DEF FinishJob, DeferJob, WorkerCrash, AbortJob
  <2>5. QED
    BY <1>3, <1>14, <2>1, <2>2, <2>3, <2>4
<1>20. ASSUME NEW j \in JobId, ExpireJob(j) \/ ExpireResult(j) PROVE InboxInv'
  <2>1. Recorded' = Recorded
    BY <1>20 DEF ExpireJob, ExpireResult, Recorded
  <2>2. \A k \in Known' : k[1] \in Recorded'
    BY <1>20, <1>h, <2>1, HeldFrame DEF ExpireJob, ExpireResult, Known, Alive
  <2>3. QED
    BY <1>20, <1>h, <2>1, <2>2, InboxFrame DEF ExpireJob, ExpireResult
<1>21. CASE UNCHANGED vars
  <2>1. Recorded' = Recorded
    BY <1>21 DEF vars, Recorded
  <2>2. \A k \in Known' : k[1] \in Recorded'
    BY <1>21, <1>h, <2>1, HeldFrame DEF vars, Known, Alive
  <2>3. QED
    BY <1>21, <1>h, <2>1, <2>2, InboxFrame DEF vars
<1>22. QED
  BY <1>5, <1>6, <1>7, <1>8, <1>9, <1>10, <1>11, <1>12, <1>13, <1>16, <1>17, <1>18,
     <1>19, <1>20, <1>21 DEF Next, ApiProgress, WorkerProgress

\* The invariant of the inbox holds in every reachable state.
THEOREM InboxCorrect == Spec => []InboxInv
<1>1. Init => InboxInv
  BY DEF Init, InboxInv, ReceiptFirst, SucceededWasHandled, Known, Alive, Held, NoRow,
         Recorded, IdleApi, IdleWorker
<1>2. QED
  BY <1>1, InboxStep, TypeCorrect, PTL DEF Spec

\* Whatever promises an event - its job, its 2xx, its effects - comes after the
\* commit of its receipt, for any number of handlers and workers.
THEOREM ReceiptAlwaysFirst == Spec => []ReceiptFirst
BY InboxCorrect, PTL DEF InboxInv

\* No interleaving of stale sessions reports success before the handler is done.
THEOREM SuccessIsEarned == Spec => []SucceededWasHandled
BY InboxCorrect, PTL DEF InboxInv

(***************************************************************************)
(* The inbox implements DurableInbox: every step of the code is one of its *)
(* steps, or none.                                                         *)
(***************************************************************************)
USE DEF Inbox!InboxNext, Inbox!inboxVars, Inbox!Record, Inbox!Complete,
        Inbox!Confirm, Inbox!Report, Inbox!Reopen

LEMMA InboxSimulation ==
    TypeOK /\ InboxInv /\ [Next]_vars => [Inbox!InboxNext]_(Inbox!inboxVars)
<1> SUFFICES ASSUME TypeOK, InboxInv, [Next]_vars
             PROVE  [Inbox!InboxNext]_(Inbox!inboxVars)
  OBVIOUS
<1> DEFINE Simulated == [Inbox!InboxNext]_(Inbox!inboxVars)
<1>1. ASSUME row' = row PROVE Recorded' = Recorded /\ Reported' = Reported
  BY <1>1 DEF Recorded, Reported
\* A step that at most answers Stripe.
<1>2. ASSUME UNCHANGED <<row, handled>>, NEW e \in Recorded,
             acked' = acked \/ acked' = acked \cup {e}
      PROVE  Simulated
  BY <1>1, <1>2 DEF Recorded
<1>3. ASSUME NEW a \in Api, NEW e \in Events, AcceptExisting(a, e),
             row[e].status # "none", UNCHANGED <<row, handled>>
      PROVE  Simulated
  BY <1>2, <1>3 DEF AcceptExisting, Recorded
<1>4. ASSUME UNCHANGED <<row, handled, acked>> PROVE Simulated
  BY <1>1, <1>4
\* A flush of an existing row either changes nothing visible, or reopens it.
<1>5. ASSUME NEW e \in Recorded, NEW r, row' = [row EXCEPT ![e] = r],
             r.status # "none", r.status = "succeeded" => row[e].status = "succeeded",
             UNCHANGED <<handled, acked>>
      PROVE  Simulated
  <2>1. e \in Events /\ Recorded' = Recorded
    BY <1>5 DEF Recorded, TypeOK
  <2>2. Reported' = Reported \/ Reported' = Reported \ {e}
    BY <1>5, <2>1 DEF Reported, TypeOK
  <2>3. QED
    BY <1>5, <2>1, <2>2
<1>6. ASSUME NEW a \in Api, api[a].pc \notin {"idle", "insert"}
      PROVE  api[a].event \in Recorded
  BY <1>6 DEF InboxInv
<1>7. ASSUME NEW w \in Workers, worker[w].pc # "idle"
      PROVE  worker[w].event \in Recorded
  <2>1. JobOf(w) \in Known /\ JobOf(w)[1] = worker[w].event
    BY <1>7, HeldBy DEF JobOf
  <2>2. QED
    BY <2>1 DEF InboxInv, ReceiptFirst
<1>8. ASSUME NEW a \in Api, NEW e \in Events, Deliver(a, e) PROVE Simulated
  <2>1. CASE row[e].status = "none"
    BY <1>4, <1>8, <2>1 DEF Deliver
  <2>2. CASE row[e].status # "none"
    BY <1>3, <1>8, <2>2 DEF Deliver
  <2>3. QED
    BY <2>1, <2>2
<1>9. ASSUME NEW a \in Api, Insert(a) PROVE Simulated
  <2> DEFINE e == api[a].event
  <2>1. e \in Events
    BY <1>9, BusyApi DEF Insert
  <2>2. CASE row[e].status = "none"
    <3>1. row' = [row EXCEPT ![e].status = "queued"] /\ UNCHANGED <<handled, acked>>
      BY <1>9, <2>2 DEF Insert
    <3>2. Recorded' = Recorded \cup {e}
      BY <2>1, <3>1 DEF Recorded, TypeOK, Row
    <3>3. Reported' = Reported
      BY <2>1, <2>2, <3>1 DEF Reported, TypeOK, Row
    <3> HIDE DEF e
    <3>4. QED
      BY <2>1, <3>1, <3>2, <3>3
  <2>3. CASE row[e].status # "none"
    BY <1>3, <1>9, <2>1, <2>3 DEF Insert
  <2>4. QED
    BY <2>2, <2>3
<1>10. ASSUME NEW a \in Api, RefreshCreated(a) \/ Enqueue(a) PROVE Simulated
  <2>1. api[a].event \in Recorded
    BY <1>6, <1>10 DEF RefreshCreated, Enqueue
  <2>2. UNCHANGED <<row, handled>> /\ acked' \in {acked, acked \cup {api[a].event}}
    BY <1>10 DEF RefreshCreated, Enqueue
  <2>3. QED
    BY <1>2, <2>1, <2>2
<1>11. ASSUME NEW a \in Api, CommitQueued(a) PROVE Simulated
  <2> DEFINE e == api[a].event
             r == [row[e] EXCEPT !.status = Dirty(@, api[a].seen.status, "queued"),
                                 !.enqueued = TRUE]
  <2>1. e \in Recorded
    BY <1>6, <1>11 DEF CommitQueued
  <2>2. row' = [row EXCEPT ![e] = r] /\ UNCHANGED <<handled, acked>>
    BY <1>11 DEF CommitQueued
  <2>3. r.status \in {row[e].status, "queued"} /\ row[e].status # "none"
    BY <2>1 DEF Recorded, TypeOK, Row, Dirty
  <2> HIDE DEF e, r
  <2>4. QED
    BY <1>5, <2>1, <2>2, <2>3
<1>12. ASSUME NEW a \in Api, CommitUnqueued(a) PROVE Simulated
  <2> DEFINE e == api[a].event
             r == [row[e] EXCEPT !.enqueued = Dirty(@, api[a].seen.enqueued, FALSE),
                                 !.status = IF api[a].admin
                                            THEN Dirty(@, api[a].seen.status, "failed")
                                            ELSE @]
  <2>1. e \in Recorded
    BY <1>6, <1>12 DEF CommitUnqueued
  <2>2. row' = [row EXCEPT ![e] = r] /\ UNCHANGED <<handled, acked>>
    BY <1>12, Zenon DEF CommitUnqueued
  <2>3. r.status \in {row[e].status, "failed"} /\ row[e].status # "none"
    BY <2>1 DEF Recorded, TypeOK, Row, Dirty
  <2> HIDE DEF e, r
  <2>4. QED
    BY <1>5, <2>1, <2>2, <2>3
<1>13. ASSUME NEW w \in Workers, MarkProcessing(w) \/ MarkFailure(w) PROVE Simulated
  <2> DEFINE e == worker[w].event
             r == row'[e]
  <2>1. e \in Recorded /\ e \in Events
    BY <1>7, <1>13, BusyWorker DEF MarkProcessing, MarkFailure
  <2>2. row' = [row EXCEPT ![e] = r] /\ UNCHANGED <<handled, acked>>
    BY <1>13, <2>1 DEF MarkProcessing, MarkFailure, TypeOK
  <2>3. /\ r.status \in {row[e].status, "processing", "failed", "retrying"}
        /\ row[e].status # "none"
    BY <1>13, <2>1 DEF MarkProcessing, MarkFailure, Recorded, TypeOK, Row, Dirty
  <2> HIDE DEF e, r
  <2>4. QED
    BY <1>5, <2>1, <2>2, <2>3
<1>14. ASSUME NEW w \in Workers, MarkSucceeded(w) PROVE Simulated
  <2> DEFINE e == worker[w].event
  <2>1. e \in Recorded /\ e \in Events /\ e \in handled
    BY <1>7, <1>14, BusyWorker DEF MarkSucceeded, InboxInv
  <2>2. UNCHANGED <<handled, acked>>
    BY <1>14 DEF MarkSucceeded
  <2>3. Recorded' = Recorded
    BY <1>14, <2>1 DEF MarkSucceeded, Recorded, TypeOK, Row, Dirty
  <2>4. Reported' = Reported \/ Reported' = Reported \cup {e}
    BY <1>14, <2>1 DEF MarkSucceeded, Reported, TypeOK, Row, Dirty
  <2> HIDE DEF e
  <2>5. QED
    BY <2>1, <2>2, <2>3, <2>4
<1>15. ASSUME NEW w \in Workers, Handle(w) PROVE Simulated
  <2>1. worker[w].event \in Recorded /\ worker[w].event \in Events
    BY <1>7, <1>15, BusyWorker DEF Handle
  <2>2. UNCHANGED <<row, acked>> /\ handled' = handled \cup {worker[w].event}
    BY <1>15 DEF Handle
  <2>3. QED
    BY <1>1, <2>1, <2>2
<1>16. ASSUME \/ \E a \in Api :
                   \/ \E e \in Events : AdminRetry(a, e)
                   \/ RefreshAfterError(a) \/ EnqueueError(a) \/ ApiCrash(a)
              \/ \E w \in Workers :
                   \/ \E j \in JobId : StartJob(w, j)
                   \/ Reload(w) \/ HandlerError(w)
                   \/ FinishJob(w) \/ DeferJob(w) \/ WorkerCrash(w) \/ AbortJob(w)
              \/ \E j \in JobId : ExpireJob(j) \/ ExpireResult(j)
              \/ UNCHANGED vars
       PROVE  Simulated
  <2>1. UNCHANGED <<row, handled, acked>>
    BY <1>16 DEF AdminRetry, RefreshAfterError, EnqueueError, ApiCrash, StartJob, Reload,
                 HandlerError, FinishJob, DeferJob, WorkerCrash, AbortJob, ExpireJob,
                 ExpireResult, vars
  <2>2. QED
    BY <1>4, <2>1
<1> HIDE DEF Simulated
<1>17. Simulated
  BY <1>8, <1>9, <1>10, <1>11, <1>12, <1>13, <1>14, <1>15, <1>16
     DEF Next, ApiProgress, WorkerProgress
<1>18. QED
  BY <1>17 DEF Simulated

\* The webhook inbox is a durable inbox: nothing recorded, completed or confirmed
\* is ever forgotten, and each follows the step it depends on.
THEOREM InboxRefinement == Spec => ImplementsInbox
<1>1. Init => Inbox!InboxInit
  BY DEF Init, Inbox!InboxInit, Recorded, Reported, NoRow
<1>2. QED
  BY <1>1, InboxSimulation, TypeCorrect, InboxCorrect, PTL
     DEF Spec, ImplementsInbox, Inbox!InboxSpec
(***************************************************************************)
(* A job is in one place.                                                  *)
(***************************************************************************)
\* The steps of a worker within its function keep the job it holds.
Moves(w) == MarkProcessing(w) \/ Handle(w) \/ HandlerError(w) \/ MarkSucceeded(w)
            \/ Reload(w) \/ MarkFailure(w)

\* The steps by which it leaves the job: with a result, or in the queue.
Ends(w)  == FinishJob(w) \/ AbortJob(w)
Leaves(w) == DeferJob(w) \/ WorkerCrash(w)

LEMMA MoveKeepsJob ==
    ASSUME TypeOK, NEW w \in Workers, Moves(w)
    PROVE  /\ worker[w].pc \in WorkerStep \ {"return", "retry"}
           /\ worker'[w].pc \in WorkerStep
           /\ worker'[w].event = worker[w].event
           /\ worker'[w].generation = worker[w].generation
           /\ worker'[w].try = worker[w].try
           /\ \A x \in Workers : x # w => worker'[x] = worker[x]
           /\ UNCHANGED <<api, waiting, results, tries>>
BY BusyWorker DEF Moves, MarkProcessing, Handle, HandlerError, MarkSucceeded, Reload, MarkFailure,
                  TypeOK, WorkerStep

\* Workers that hold the same jobs as before, of the same tries.
LEMMA SameHeld ==
    ASSUME \A x \in Workers : /\ worker'[x].pc = "idle" <=> worker[x].pc = "idle"
                              /\ JobOf(x)' = JobOf(x)
    PROVE  Held' = Held
BY DEF Held

\* A worker that gives its job up.
LEMMA LetGo ==
    ASSUME TypeOK, JobsAreHeldOnce, NEW w \in Workers, worker[w].pc # "idle",
           worker' = [worker EXCEPT ![w] = IdleWorker]
    PROVE  /\ Held' = Held \ {JobOf(w)}
           /\ worker'[w].pc = "idle"
           /\ \A x \in Workers : x # w => worker'[x] = worker[x] /\ JobOf(x)' = JobOf(x)
<1>1. /\ worker'[w].pc = "idle"
      /\ \A x \in Workers : x # w => worker'[x] = worker[x] /\ JobOf(x)' = JobOf(x)
  BY DEF TypeOK, IdleWorker, JobOf
<1>2. \A x \in Workers : x # w /\ worker[x].pc # "idle" => JobOf(x) # JobOf(w)
  BY DEF JobsAreHeldOnce
<1>3. QED
  BY <1>1, <1>2 DEF Held

LEMMA JobsStep == TypeOK /\ JobsAreHeldOnce /\ [Next]_vars => JobsAreHeldOnce'
<1> SUFFICES ASSUME TypeOK, JobsAreHeldOnce, [Next]_vars PROVE JobsAreHeldOnce'
  OBVIOUS
<1>0. ASSUME UNCHANGED <<worker, waiting, results, tries>> PROVE JobsAreHeldOnce'
  BY <1>0 DEF JobsAreHeldOnce, Alive, Held, JobOf
<1>1. ASSUME NEW a \in Api, Enqueue(a) \/ EnqueueError(a) PROVE JobsAreHeldOnce'
  <2>1. /\ waiting \subseteq waiting' /\ waiting' \subseteq waiting \cup (JobId \ Known)
        /\ UNCHANGED <<worker, results, tries>>
    BY <1>1, BusyApi DEF Enqueue, EnqueueError, Push, JobId
  <2>2. Held' = Held /\ \A w \in Workers : JobOf(w)' = JobOf(w)
    BY <2>1 DEF Held, JobOf
  <2>3. \A w \in Workers : worker[w].pc # "idle" => JobOf(w) \in Held
    BY DEF Held
  <2>4. QED
    BY <2>1, <2>2, <2>3 DEF JobsAreHeldOnce, Alive, Known
<1>2. ASSUME NEW w \in Workers, NEW j \in JobId, StartJob(w, j) PROVE JobsAreHeldOnce'
  <2>1. /\ worker[w].pc = "idle" /\ j \in waiting /\ waiting' = waiting \ {j}
        /\ j \notin Held /\ j \notin results
    BY <1>2 DEF StartJob, JobsAreHeldOnce, Held
  <2>2. CASE Runs(j)
    <3>1. /\ worker'[w].pc # "idle" /\ JobOf(w)' = j /\ tries'[j] = worker'[w].try
          /\ \A x \in Workers : x # w => worker'[x] = worker[x] /\ JobOf(x)' = JobOf(x)
          /\ \A k \in JobId : k # j => tries'[k] = tries[k]
          /\ results' = results
      BY <1>2, <2>2 DEF StartJob, TypeOK, JobOf, JobId
    <3>2. Held' = Held \cup {j}
      BY <2>1, <3>1 DEF Held
    <3>3. \A x \in Workers : x # w /\ worker[x].pc # "idle" => JobOf(x) # j
      BY <2>1 DEF Held
    <3>4. \A x \in Workers : x # w /\ worker[x].pc # "idle" =>
             JobOf(x) \in JobId /\ tries'[JobOf(x)] = worker'[x].try
      BY <3>1, <3>3, BusyWorker DEF JobsAreHeldOnce
    <3>5. QED
      BY <2>1, <3>1, <3>2, <3>3, <3>4 DEF JobsAreHeldOnce, Alive
  <2>3. CASE ~ Runs(j)
    <3>1. /\ tries'[j] = 0 /\ results' = results \cup {j} /\ worker' = worker
          /\ \A k \in JobId : k # j => tries'[k] = tries[k]
      BY <1>2, <2>3 DEF StartJob, TypeOK
    <3>2. Held' = Held /\ \A x \in Workers : JobOf(x)' = JobOf(x)
      BY <3>1 DEF Held, JobOf
    <3>3. \A x \in Workers : worker[x].pc # "idle" => JobOf(x) # j /\ JobOf(x) \in JobId
      BY <2>1, BusyWorker DEF Held
    <3>4. QED
      BY <2>1, <3>1, <3>2, <3>3 DEF JobsAreHeldOnce, Alive
  <2>4. QED
    BY <2>2, <2>3
<1>3. ASSUME NEW w \in Workers, Moves(w) PROVE JobsAreHeldOnce'
  <2>1. \A x \in Workers : /\ worker'[x].pc = "idle" <=> worker[x].pc = "idle"
                           /\ JobOf(x)' = JobOf(x)
                           /\ worker'[x].try = worker[x].try
    BY <1>3, MoveKeepsJob DEF JobOf, WorkerStep
  <2>2. Held' = Held
    BY <2>1, SameHeld
  <2>3. UNCHANGED <<waiting, results, tries>>
    BY <1>3, MoveKeepsJob
  <2>4. QED
    BY <2>1, <2>2, <2>3 DEF JobsAreHeldOnce, Alive
<1>4. ASSUME NEW w \in Workers, Ends(w) \/ Leaves(w) PROVE JobsAreHeldOnce'
  <2>1. worker[w].pc # "idle" /\ worker' = [worker EXCEPT ![w] = IdleWorker]
    BY <1>4 DEF Ends, Leaves, FinishJob, AbortJob, DeferJob, WorkerCrash
  <2>2. /\ Held' = Held \ {JobOf(w)} /\ worker'[w].pc = "idle"
        /\ \A x \in Workers : x # w => worker'[x] = worker[x] /\ JobOf(x)' = JobOf(x)
    BY <2>1, LetGo
  <2>3. /\ JobOf(w) \in JobId /\ JobOf(w) \notin waiting \cup results
        /\ \A x \in Workers : worker[x].pc # "idle" => JobOf(x) \in JobId
        /\ \A x \in Workers : x # w /\ worker[x].pc # "idle" => JobOf(x) # JobOf(w)
    BY <2>1, BusyWorker DEF JobsAreHeldOnce
  <2>4. CASE Ends(w)
    <3>1. /\ results' = results \cup {JobOf(w)} /\ waiting' = waiting
          /\ tries'[JobOf(w)] = 0
          /\ \A k \in JobId : k # JobOf(w) => tries'[k] = tries[k]
      BY <2>3, <2>4 DEF Ends, FinishJob, AbortJob, TypeOK
    <3>2. QED
      BY <2>2, <2>3, <3>1 DEF JobsAreHeldOnce, Alive
  <2>5. CASE Leaves(w)
    <3>1. waiting' = waiting \cup {JobOf(w)} /\ UNCHANGED <<results, tries>>
      BY <2>5 DEF Leaves, DeferJob, WorkerCrash
    <3>2. QED
      BY <2>2, <2>3, <3>1 DEF JobsAreHeldOnce, Alive
  <2>6. QED
    BY <1>4, <2>4, <2>5
<1>5. ASSUME NEW j \in JobId, ExpireResult(j) PROVE JobsAreHeldOnce'
  BY <1>5 DEF ExpireResult, JobsAreHeldOnce, Alive, Held, JobOf
<1>6. CASE UNCHANGED vars
  BY <1>0, <1>6 DEF vars
<1>10. ASSUME NEW j \in JobId, ExpireJob(j) PROVE JobsAreHeldOnce'
  <2>1. /\ j \in waiting /\ j \notin results /\ j \notin Held
        /\ waiting' = waiting \ {j} /\ results' = results \cup {j} /\ tries'[j] = 0
        /\ \A k \in JobId : k # j => tries'[k] = tries[k]
        /\ worker' = worker
    BY <1>10 DEF ExpireJob, TypeOK, JobsAreHeldOnce, Held
  <2>2. Held' = Held /\ \A x \in Workers : JobOf(x)' = JobOf(x)
    BY <2>1 DEF Held, JobOf
  <2>3. \A x \in Workers : worker[x].pc # "idle" => JobOf(x) # j /\ JobOf(x) \in JobId
    BY <2>1, BusyWorker DEF Held
  <2>4. QED
    BY <2>1, <2>2, <2>3 DEF JobsAreHeldOnce, Alive
<1>7. ASSUME NEW a \in Api, NEW e \in Events, Deliver(a, e) \/ AdminRetry(a, e)
      PROVE  JobsAreHeldOnce'
  BY <1>0, <1>7 DEF Deliver, AdminRetry
<1>8. ASSUME NEW a \in Api,
             Insert(a) \/ RefreshCreated(a) \/ CommitQueued(a) \/ RefreshAfterError(a)
             \/ CommitUnqueued(a) \/ ApiCrash(a)
      PROVE  JobsAreHeldOnce'
  BY <1>0, <1>8 DEF Insert, RefreshCreated, CommitQueued, RefreshAfterError, CommitUnqueued, ApiCrash
<1>9. QED
  BY <1>1, <1>2, <1>3, <1>4, <1>5, <1>6, <1>7, <1>8, <1>10
     DEF Next, ApiProgress, WorkerProgress, Moves, Ends, Leaves

\* JobsAreHeldOnce for any number of requests, workers and faults.
THEOREM JobIdsRunOnce == Spec => []JobsAreHeldOnce
<1>1. Init => JobsAreHeldOnce
  BY DEF Init, JobsAreHeldOnce, IdleWorker
<1>2. QED
  BY <1>1, JobsStep, TypeCorrect, PTL DEF Spec

(***************************************************************************)
(* Who may take a receipt out of succeeded.                                *)
(***************************************************************************)

\* A session about to write a receipt that the code may take up again has not seen it
\* succeed: accept_verified_event, the except branch of _enqueue_receipt, the retry of
\* an administrator and the worker each look before they go on.
SawNoSuccess ==
    /\ \A a \in Api : api[a].pc \in {"commit", "unqueue"} => api[a].seen.status # "succeeded"
    /\ \A w \in Workers : worker[w].pc = "mark" => worker[w].seen.status # "succeeded"

\* Whoever starts to work on a receipt looks at it first.
LEMMA RequestsLook ==
    ASSUME TypeOK, SawNoSuccess, NEW a \in Api,
           \/ \E e \in Events : Deliver(a, e) \/ AdminRetry(a, e)
           \/ ApiProgress(a) \/ EnqueueError(a) \/ ApiCrash(a)
    PROVE  SawNoSuccess'
<1>1. /\ worker' = worker
      /\ \A b \in Api : b # a => api'[b] = api[b]
  BY DEF Deliver, AdminRetry, ApiProgress, EnqueueError, ApiCrash, AcceptExisting, Insert,
         RefreshCreated, CommitQueued, Enqueue, RefreshAfterError, CommitUnqueued, TypeOK
<1> DEFINE Looked == api'[a].pc \in {"commit", "unqueue"} => api'[a].seen.status # "succeeded"
<1>2. ASSUME NEW e \in Events, AcceptExisting(a, e) PROVE Looked
  BY <1>2 DEF AcceptExisting, Settled, Requeue, IdleApi, TypeOK
<1>3. ASSUME NEW e \in Events, Deliver(a, e) PROVE Looked
  BY <1>2, <1>3 DEF Deliver, TypeOK
<1>4. ASSUME NEW e \in Events, AdminRetry(a, e) PROVE Looked
  BY <1>4 DEF AdminRetry, Retryable, ActiveStatus, Requeue, TypeOK
<1>5. ASSUME Insert(a) PROVE Looked
  <2>1. api[a] \in [pc: ApiStep, event: Events, seen: Row, generation: Generation, admin: BOOLEAN]
    BY <1>5, BusyApi DEF Insert
  <2>2. CASE row[api[a].event].status = "none"
    BY <1>5, <2>1, <2>2 DEF Insert, TypeOK
  <2>3. CASE row[api[a].event].status # "none"
    BY <1>2, <1>5, <2>1, <2>3 DEF Insert
  <2>4. QED
    BY <2>2, <2>3
<1>6. ASSUME RefreshCreated(a) PROVE Looked
  BY <1>6 DEF RefreshCreated, Requeue, IdleApi, TypeOK
<1>7. ASSUME CommitQueued(a) \/ Enqueue(a) \/ EnqueueError(a) \/ CommitUnqueued(a) \/ ApiCrash(a)
      PROVE  Looked
  <2>1. api[a] \in [pc: ApiStep, event: Events, seen: Row, generation: Generation, admin: BOOLEAN]
    BY <1>7, BusyApi DEF CommitQueued, Enqueue, EnqueueError, CommitUnqueued, ApiCrash
  <2>2. api'[a] \in {IdleApi, [api[a] EXCEPT !.pc = "enqueue"], [api[a] EXCEPT !.pc = "queue_error"]}
    BY <1>7 DEF CommitQueued, Enqueue, EnqueueError, CommitUnqueued, ApiCrash, TypeOK
  <2>3. api'[a].pc \notin {"commit", "unqueue"}
    BY <2>1, <2>2 DEF IdleApi
  <2>4. QED
    BY <2>3
<1>8. ASSUME RefreshAfterError(a) PROVE Looked
  <2>1. api[a] \in [pc: ApiStep, event: Events, seen: Row, generation: Generation, admin: BOOLEAN]
    BY <1>8, BusyApi DEF RefreshAfterError
  <2>2. QED
    BY <1>8, <2>1 DEF RefreshAfterError, IdleApi, TypeOK
<1>9. Looked
  BY <1>3, <1>4, <1>5, <1>6, <1>7, <1>8 DEF ApiProgress
<1>10. QED
  BY <1>1, <1>9 DEF SawNoSuccess

LEMMA WorkersLook ==
    ASSUME TypeOK, SawNoSuccess, NEW w \in Workers,
           WorkerProgress(w) \/ HandlerError(w) \/ WorkerCrash(w) \/ AbortJob(w)
    PROVE  SawNoSuccess'
<1>1. /\ api' = api
      /\ \A v \in Workers : v # w => worker'[v] = worker[v]
  BY DEF WorkerProgress, HandlerError, WorkerCrash, AbortJob, StartJob, MarkProcessing, Handle,
         MarkSucceeded, Reload, MarkFailure, FinishJob, DeferJob, TypeOK
<1> DEFINE Looked == worker'[w].pc = "mark" => worker'[w].seen.status # "succeeded"
<1>2. ASSUME NEW j \in JobId, StartJob(w, j) PROVE Looked
  BY <1>2 DEF StartJob, Runs, TypeOK
<1>3. ASSUME \/ MarkProcessing(w) \/ Handle(w) \/ MarkSucceeded(w) \/ Reload(w) \/ MarkFailure(w)
             \/ FinishJob(w) \/ DeferJob(w) \/ HandlerError(w) \/ WorkerCrash(w) \/ AbortJob(w)
      PROVE  Looked
  <2>1. worker[w].pc # "idle"
    BY <1>3 DEF MarkProcessing, Handle, MarkSucceeded, Reload, MarkFailure, FinishJob, DeferJob,
                HandlerError, WorkerCrash, AbortJob
  <2>2. worker[w] \in [pc: WorkerStep, event: Events, generation: Generation,
                       try: 1 .. MaxTries, seen: Row]
    BY <2>1, BusyWorker
  <2>3. worker'[w].pc # "mark"
    BY <1>3, <2>2 DEF MarkProcessing, Handle, MarkSucceeded, Reload, MarkFailure, FinishJob, DeferJob,
                      HandlerError, WorkerCrash, AbortJob, IdleWorker, TypeOK
  <2>4. QED
    BY <2>3
<1>4. Looked
  BY <1>2, <1>3 DEF WorkerProgress
<1>5. QED
  BY <1>1, <1>4 DEF SawNoSuccess

LEMMA LookStep == TypeOK /\ SawNoSuccess /\ [Next]_vars => SawNoSuccess'
<1> SUFFICES ASSUME TypeOK, SawNoSuccess, [Next]_vars PROVE SawNoSuccess'
  OBVIOUS
<1>1. ASSUME NEW j \in JobId, ExpireJob(j) \/ ExpireResult(j) PROVE SawNoSuccess'
  BY <1>1 DEF ExpireJob, ExpireResult, SawNoSuccess
<1>2. CASE UNCHANGED vars
  BY <1>2 DEF vars, SawNoSuccess
<1>3. QED
  BY <1>1, <1>2, RequestsLook, WorkersLook DEF Next

Reopens(e) == row[e].status = "succeeded" /\ row'[e].status # "succeeded"

ByLateRequest(e) ==
    \E a \in Api : /\ api[a].pc \in {"commit", "unqueue"} /\ api[a].event = e
                   /\ api[a].seen.status # "succeeded"

ByLateJob(e) ==
    \E w \in Workers : /\ worker[w].pc = "mark" /\ worker[w].event = e
                       /\ worker[w].seen.status # "succeeded"

ByFailure(e) == \E w \in Workers : worker[w].pc = "fail" /\ worker[w].event = e

LateOnly(e) ==
    row[e].status = "succeeded" /\ row'[e].status # "succeeded" =>
          \/ \E a \in Api : /\ api[a].pc \in {"commit", "unqueue"} /\ api[a].event = e
                            /\ api[a].seen.status # "succeeded"
          \/ \E w \in Workers : /\ worker[w].pc = "mark" /\ worker[w].event = e
                                /\ worker[w].seen.status # "succeeded"
          \/ \E w \in Workers : worker[w].pc = "fail" /\ worker[w].event = e

LEMMA LateStep ==
    ASSUME TypeOK, SawNoSuccess, [Next]_vars, NEW e \in Events, Reopens(e)
    PROVE  ByLateRequest(e) \/ ByLateJob(e) \/ ByFailure(e)
<1>1. row' # row /\ row \in [Events -> Row]
  BY DEF Reopens, TypeOK
<1>2. ASSUME NEW a \in Api, Insert(a) PROVE FALSE
  BY <1>1, <1>2 DEF Insert, Reopens
<1>3. ASSUME NEW a \in Api, CommitQueued(a) \/ CommitUnqueued(a) PROVE ByLateRequest(e)
  <2>1. api[a].event = e
    BY <1>1, <1>3 DEF CommitQueued, CommitUnqueued, Reopens
  <2>2. QED
    BY <1>3, <2>1 DEF CommitQueued, CommitUnqueued, SawNoSuccess, ByLateRequest
<1>4. ASSUME NEW w \in Workers, MarkProcessing(w) PROVE ByLateJob(e)
  <2>1. worker[w].event = e
    BY <1>1, <1>4 DEF MarkProcessing, Reopens
  <2>2. QED
    BY <1>4, <2>1 DEF MarkProcessing, SawNoSuccess, ByLateJob
<1>5. ASSUME NEW w \in Workers, MarkSucceeded(w) PROVE FALSE
  BY <1>1, <1>5 DEF MarkSucceeded, Dirty, Reopens
<1>6. ASSUME NEW w \in Workers, MarkFailure(w) PROVE ByFailure(e)
  <2>1. worker[w].event = e
    BY <1>1, <1>6 DEF MarkFailure, Reopens
  <2>2. QED
    BY <1>6, <2>1 DEF MarkFailure, ByFailure
<1>7. ASSUME NEW a \in Api,
             \/ \E f \in Events : Deliver(a, f) \/ AdminRetry(a, f)
             \/ RefreshCreated(a) \/ Enqueue(a) \/ RefreshAfterError(a)
             \/ EnqueueError(a) \/ ApiCrash(a)
      PROVE  FALSE
  BY <1>1, <1>7 DEF Deliver, AdminRetry, RefreshCreated, Enqueue, RefreshAfterError,
                    EnqueueError, ApiCrash
<1>8. ASSUME NEW w \in Workers,
             \/ \E j \in JobId : StartJob(w, j)
             \/ Handle(w) \/ Reload(w) \/ FinishJob(w) \/ DeferJob(w)
             \/ HandlerError(w) \/ WorkerCrash(w) \/ AbortJob(w)
      PROVE  FALSE
  BY <1>1, <1>8 DEF StartJob, Handle, Reload, FinishJob, DeferJob, HandlerError, WorkerCrash,
                    AbortJob
<1>9. ASSUME NEW j \in JobId, ExpireJob(j) \/ ExpireResult(j) PROVE FALSE
  BY <1>1, <1>9 DEF ExpireJob, ExpireResult
<1>10. ~UNCHANGED vars
  BY <1>1 DEF vars
<1>11. QED
  BY <1>2, <1>3, <1>4, <1>5, <1>6, <1>7, <1>8, <1>9, <1>10
     DEF Next, ApiProgress, WorkerProgress

\* A receipt leaves succeeded only through a session that loaded it before, or through the
\* failure of a second job: for any number of requests, workers, retries and faults and any
\* operator (_enqueue_receipt, retry_webhook_event, process_stripe_webhook_job).
THEOREM SuccessYieldsToLateWriters == Spec => OnlyLateWritersReopen
<1>1. Init => SawNoSuccess
  BY DEF Init, SawNoSuccess, IdleApi, IdleWorker
<1>2. Spec => []SawNoSuccess
  BY <1>1, LookStep, TypeCorrect, PTL DEF Spec
<1>3. ASSUME TypeOK, SawNoSuccess, [Next]_vars PROVE [\A e \in Events : LateOnly(e)]_vars
  BY <1>3, LateStep DEF LateOnly, Reopens, ByLateRequest, ByLateJob, ByFailure
<1>4. QED
  BY <1>2, <1>3, TypeCorrect, PTL
     DEF Spec, OnlyLateWritersReopen, LateOnly
=============================================================================
