--------------------------- MODULE UsageLedgerProofs ---------------------------
(***************************************************************************)
(* The metering of calls and its schedulers for any number of calls,       *)
(* tools, schedulers and faults: no answered call is forgotten, a run at   *)
(* work holds its lock unless it outlived it, and what is recorded is what *)
(* was logged, invoiced and paid.                                          *)
(***************************************************************************)
EXTENDS UsageLedger, FiniteSetTheorems, TLAPS

USE TriesAssumption, NamesAssumption, CallsAssumption

(***************************************************************************)
(* Calls.                                                                  *)
(***************************************************************************)

CallShapes ==
    /\ DOMAIN call = Calls /\ DOMAIN job = Calls /\ DOMAIN rows = Calls
    /\ \A c \in Calls : DOMAIN call[c] = {"pc", "tool"} /\ DOMAIN job[c] = {"pc", "tries"}
    /\ \A c \in Calls : rows[c] \in Nat

CallsInv == CallShapes /\ CallsAreKept

LEMMA CallsStart == UsageInit => CallsInv
  BY DEF UsageInit, CallsInv, CallShapes, CallsAreKept

\* A step of another part leaves the calls alone.
LEMMA CallsUntouched ==
    ASSUME CallsInv, UNCHANGED ledgerVars
    PROVE  CallsInv'
  BY DEF ledgerVars, CallsInv, CallShapes, CallsAreKept

\* Both ways of persisting leave a number of rows, and the first at least one.
LEMMA RowsAfter ==
    ASSUME CallsInv, NEW c \in Calls
    PROVE  /\ Persisted(c) => /\ DOMAIN rows' = Calls /\ rows'[c] \in Nat /\ rows'[c] > 0
                              /\ \A d \in Calls \ {c} : rows'[d] = rows[d]
           /\ PersistRaises(c) => /\ DOMAIN rows' = Calls /\ rows'[c] \in Nat /\ rows'[c] >= rows[c]
                                  /\ \A d \in Calls \ {c} : rows'[d] = rows[d]
<1>1. Insert(c) => /\ DOMAIN rows' = Calls /\ rows'[c] \in Nat /\ rows'[c] > 0 /\ rows'[c] >= rows[c]
                   /\ \A d \in Calls \ {c} : rows'[d] = rows[d]
  BY DEF Insert, CallsInv, CallShapes
<1>2. QED
  BY <1>1 DEF Persisted, PersistRaises, CallsInv, CallShapes

\* If a step touches one call, it is enough to look at that one.
LEMMA OneCall ==
    ASSUME CallsInv, NEW c \in Calls,
           DOMAIN call' = Calls, DOMAIN job' = Calls, DOMAIN rows' = Calls,
           DOMAIN call'[c] = {"pc", "tool"}, DOMAIN job'[c] = {"pc", "tries"},
           rows'[c] \in Nat, reported \subseteq reported',
           \A d \in Calls \ {c} : call'[d] = call[d] /\ job'[d] = job[d] /\ rows'[d] = rows[d],
           call'[c].pc = "answered" =>
               rows'[c] > 0 \/ c \in reported' \/ job'[c].pc \in {"waiting", "dropped"}
    PROVE  CallsInv'
<1>1. CallShapes'
  BY DEF CallsInv, CallShapes
<1>2. CallsAreKept'
  BY DEF CallsInv, CallsAreKept
<1>3. QED
  BY <1>1, <1>2 DEF CallsInv

LEMMA LogStepKeepsCalls ==
    ASSUME CallsInv, NEW c \in Calls, LogStep(c)
    PROVE  CallsInv'
<1> USE DEF CallsInv, CallShapes
<1>1. CASE StoreLog(c)
  <2>1. CASE CallMoves(c, "store", "answered") /\ Persisted(c) /\ UNCHANGED <<job, reported>>
    <3>1. /\ DOMAIN rows' = Calls /\ rows'[c] \in Nat /\ rows'[c] > 0
          /\ \A d \in Calls \ {c} : rows'[d] = rows[d]
      BY <2>1, RowsAfter
    <3>2. /\ DOMAIN call' = Calls /\ DOMAIN call'[c] = {"pc", "tool"}
          /\ \A d \in Calls \ {c} : call'[d] = call[d]
      BY <2>1 DEF CallMoves
    <3>3. QED
      BY <2>1, <3>1, <3>2, OneCall
  <2>2. CASE CallMoves(c, "store", "queue") /\ PersistRaises(c) /\ UNCHANGED <<job, reported>>
    <3>1. /\ DOMAIN rows' = Calls /\ rows'[c] \in Nat
          /\ \A d \in Calls \ {c} : rows'[d] = rows[d]
      BY <2>2, RowsAfter
    <3>2. /\ DOMAIN call' = Calls /\ DOMAIN call'[c] = {"pc", "tool"} /\ call'[c].pc = "queue"
          /\ \A d \in Calls \ {c} : call'[d] = call[d]
      BY <2>2 DEF CallMoves
    <3>3. QED
      BY <2>2, <3>1, <3>2, OneCall
  <2>3. QED
    BY <1>1, <2>1, <2>2 DEF StoreLog
<1>2. CASE QueueLog(c)
  <2>1. /\ DOMAIN call' = Calls /\ DOMAIN call'[c] = {"pc", "tool"}
        /\ \A d \in Calls \ {c} : call'[d] = call[d]
    BY <1>2 DEF QueueLog, CallMoves
  <2>2. job' = [job EXCEPT ![c] = [pc |-> "waiting", tries |-> 0]] \/ job' = job
    BY <1>2 DEF QueueLog
  <2>3. /\ DOMAIN job' = Calls /\ DOMAIN job'[c] = {"pc", "tries"}
        /\ \A d \in Calls \ {c} : job'[d] = job[d]
    BY <2>2
  <2>4. reported \subseteq reported' /\ (job'[c].pc = "waiting" \/ c \in reported')
    BY <1>2 DEF QueueLog
  <2>5. QED
    BY <1>2, <2>1, <2>3, <2>4, OneCall DEF QueueLog
<1>3. CASE ApiCrash(c)
  <2>1. /\ DOMAIN call' = Calls /\ DOMAIN call'[c] = {"pc", "tool"} /\ call'[c].pc = "gone"
        /\ \A d \in Calls \ {c} : call'[d] = call[d]
    BY <1>3 DEF ApiCrash
  <2>2. QED
    BY <1>3, <2>1, OneCall DEF ApiCrash
<1>4. CASE TryJob(c) /\ UNCHANGED call
  <2>1. ASSUME NEW pc, JobMoves(c, pc)
        PROVE  /\ DOMAIN job' = Calls /\ DOMAIN job'[c] = {"pc", "tries"} /\ job'[c].pc = pc
               /\ \A d \in Calls \ {c} : job'[d] = job[d]
    BY <2>1 DEF JobMoves
  <2>2. CASE Persisted(c) /\ JobMoves(c, "over") /\ UNCHANGED reported
    BY <1>4, <2>1, <2>2, RowsAfter, OneCall
  <2>3. CASE PersistRaises(c) /\ JobMoves(c, "over") /\ reported' = reported \union {c}
    BY <1>4, <2>1, <2>3, RowsAfter, OneCall
  <2>4. CASE PersistRaises(c) /\ JobMoves(c, "waiting") /\ UNCHANGED reported
    BY <1>4, <2>1, <2>4, RowsAfter, OneCall
  <2>5. CASE PersistRaises(c) /\ JobMoves(c, "dropped") /\ UNCHANGED reported
    BY <1>4, <2>1, <2>5, RowsAfter, OneCall
  <2>6. QED
    BY <1>4, <2>2, <2>3, <2>4, <2>5 DEF TryJob
<1>5. CASE DropJob(c) /\ UNCHANGED call
  <2>1. /\ DOMAIN job' = Calls /\ DOMAIN job'[c] = {"pc", "tries"} /\ job'[c].pc = "dropped"
        /\ \A d \in Calls \ {c} : job'[d] = job[d]
    BY <1>5 DEF DropJob
  <2>2. QED
    BY <1>5, <2>1, OneCall DEF DropJob
<1>6. QED
  BY <1>1, <1>2, <1>3, <1>4, <1>5 DEF LogStep

LEMMA CallsInductive == CallsInv /\ [UsageNext]_usageVars => CallsInv'
<1> SUFFICES ASSUME CallsInv, [UsageNext]_usageVars PROVE CallsInv'
  OBVIOUS
<1>1. ASSUME NEW c \in Calls, NEW t \in Tools, Call(c, t) PROVE CallsInv'
  <2>1. /\ DOMAIN call' = Calls /\ DOMAIN call'[c] = {"pc", "tool"} /\ call'[c].pc = "store"
        /\ \A d \in Calls \ {c} : call'[d] = call[d]
    BY <1>1 DEF Call, CallsInv, CallShapes
  <2>2. QED
    BY <1>1, <2>1, OneCall DEF Call, CallsInv, CallShapes
<1>2. ASSUME NEW c \in Calls, LogStep(c) PROVE CallsInv'
  BY <1>2, LogStepKeepsCalls
<1>3. ASSUME NEW r \in Runs, LockStep(r) \/ InvoiceStep(r) \/ RunCrash(r) PROVE CallsInv'
  BY <1>3, CallsUntouched DEF LockStep, InvoiceStep, RunCrash
<1>4. ASSUME LockExpires \/ StripeCloses \/ EventStep \/ WeekEnds PROVE CallsInv'
  BY <1>4, CallsUntouched DEF LockExpires, StripeCloses, EventStep, WeekEnds
<1>5. CASE UNCHANGED usageVars
  BY <1>5, CallsUntouched DEF usageVars, ledgerVars
<1>6. QED
  BY <1>1, <1>2, <1>3, <1>4, <1>5 DEF UsageNext

\* No answered call is forgotten, for any number of calls, tries and faults.
THEOREM CallsStayKept == UsageSpec => []CallsAreKept
<1>1. CallsInv => CallsAreKept
  BY DEF CallsInv
<1>2. QED
  BY CallsStart, CallsInductive, <1>1, PTL DEF UsageSpec

(***************************************************************************)
(* Schedulers.                                                             *)
(***************************************************************************)

RunFields == {"pc", "sums", "todo", "seen", "loaded", "lapsed"}

RunShapes ==
    /\ DOMAIN run = Runs
    /\ \A r \in Runs : DOMAIN run[r] = RunFields
    /\ lock \in Runs \union {"free"}

Holding(r) == run[r].pc \in TaskSteps \union {"recheck", "release"}

LeaseInv ==
    /\ RunShapes
    /\ \A r \in Runs : Holding(r) => run[r].lapsed \/ lock = r
    /\ \A r \in Runs : InTask(r) /\ done => \E q \in Runs : run[q].lapsed

LEMMA LeaseStart == UsageInit => LeaseInv
  BY DEF UsageInit, LeaseInv, RunShapes, IdleRun, RunFields, Holding, InTask, TaskSteps

LEMMA LeaseUntouched ==
    ASSUME LeaseInv, UNCHANGED <<run, lock, done>>
    PROVE  LeaseInv'
  BY DEF LeaseInv, RunShapes, Holding, InTask

\* What the step of one run leaves of the others.
OthersStay(r) ==
    /\ DOMAIN run' = Runs /\ DOMAIN run'[r] = RunFields
    /\ \A q \in Runs \ {r} : run'[q] = run[q]

LEMMA MovesOne ==
    ASSUME LeaseInv, NEW r \in Runs, NEW from, NEW to,
           RunMoves(r, from, to) \/ RunLeaves(r, from, to)
    PROVE  OthersStay(r) /\ run'[r].pc = to /\ run'[r].lapsed = run[r].lapsed /\ run[r].pc = from
<1> USE DEF LeaseInv, RunShapes, OthersStay
<1>1. CASE RunMoves(r, from, to)
  BY <1>1 DEF RunMoves, RunFields
<1>2. CASE RunLeaves(r, from, to)
  <2> DEFINE left == [IdleRun EXCEPT !.pc = to, !.lapsed = run[r].lapsed]
  <2>1. DOMAIN left = RunFields /\ left.pc = to /\ left.lapsed = run[r].lapsed
    BY DEF IdleRun, RunFields
  <2>2. run[r].pc = from /\ run' = [run EXCEPT ![r] = left]
    BY <1>2 DEF RunLeaves
  <2> HIDE DEF left
  <2>3. run'[r] = left /\ DOMAIN run' = Runs /\ \A q \in Runs \ {r} : run'[q] = run[q]
    BY <2>2
  <2>4. QED
    BY <2>1, <2>2, <2>3
<1>3. QED
  BY <1>1, <1>2

\* A run goes on within the task, or out of it, and keeps its hold.
LEMMA GoesOn ==
    ASSUME LeaseInv, NEW r \in Runs, OthersStay(r), UNCHANGED <<lock, done>>,
           run'[r].lapsed = run[r].lapsed,
           Holding(r)' => Holding(r),
           InTask(r)' => InTask(r) \/ ~done
    PROVE  LeaseInv'
<1>1. RunShapes'
  BY DEF LeaseInv, RunShapes, OthersStay
<1>2. \A q \in Runs : run'[q].lapsed = run[q].lapsed
  BY DEF OthersStay
<1>3. ASSUME NEW q \in Runs, Holding(q)' PROVE (run[q].lapsed \/ lock = q)'
  BY <1>2, <1>3 DEF LeaseInv, OthersStay, Holding
<1>4. ASSUME NEW q \in Runs, InTask(q)', done' PROVE (\E p \in Runs : run[p].lapsed)'
  <2>1. InTask(q)
    BY <1>4 DEF OthersStay, InTask
  <2>2. QED
    BY <1>2, <1>4, <2>1 DEF LeaseInv
<1>5. QED
  BY <1>1, <1>3, <1>4 DEF LeaseInv

LEMMA LockStepKeepsLease ==
    ASSUME LeaseInv, NEW r \in Runs, LockStep(r)
    PROVE  LeaseInv'
<1>1. CASE BeginRun(r)
  <2>1. OthersStay(r) /\ run'[r].pc = "lock" /\ run'[r].lapsed = run[r].lapsed
    BY <1>1, MovesOne DEF BeginRun
  <2>2. QED
    BY <1>1, <2>1, GoesOn DEF BeginRun, Holding, InTask, TaskSteps
<1>2. CASE Acquire(r) /\ lock = "free"
  <2>1. OthersStay(r) /\ run'[r].pc = "recheck" /\ lock' = r /\ UNCHANGED done
    BY <1>2 DEF Acquire, LeaseInv, RunShapes, OthersStay, IdleRun, RunFields
  <2>2. \A q \in Runs : Holding(q) => run[q].lapsed
    BY <1>2, NamesAssumption DEF LeaseInv
  <2>3. RunShapes'
    BY <2>1 DEF LeaseInv, RunShapes, OthersStay
  <2>4. ASSUME NEW q \in Runs, Holding(q)' PROVE (run[q].lapsed \/ lock = q)'
    BY <2>1, <2>2, <2>4 DEF OthersStay, Holding
  <2>5. ASSUME NEW q \in Runs, InTask(q)' PROVE (\E p \in Runs : run[p].lapsed)'
    <3>1. q # r
      BY <2>1, <2>5 DEF InTask, TaskSteps
    <3>2. run'[q].lapsed
      BY <2>1, <2>2, <2>5, <3>1 DEF OthersStay, InTask, Holding
    <3>3. QED
      BY <3>2
  <2>6. QED
    BY <2>3, <2>4, <2>5 DEF LeaseInv
<1>3. CASE Acquire(r) /\ lock # "free"
  <2>1. OthersStay(r) /\ run'[r].pc = "idle" /\ run'[r].lapsed = run[r].lapsed
    BY <1>3, MovesOne DEF Acquire
  <2>2. QED
    BY <1>3, <2>1, GoesOn DEF Acquire, Holding, InTask, TaskSteps
<1>4. CASE Recheck(r)
  <2>1. /\ OthersStay(r) /\ run[r].pc = "recheck" /\ run'[r].lapsed = run[r].lapsed
        /\ run'[r].pc = IF done THEN "release" ELSE "users"
    BY <1>4, MovesOne DEF Recheck
  <2>2. Holding(r)
    BY <2>1 DEF Holding
  <2>3. InTask(r)' => ~done
    BY <2>1 DEF InTask, TaskSteps
  <2>4. QED
    BY <1>4, <2>1, <2>2, <2>3, GoesOn DEF Recheck
<1>5. CASE Complete(r)
  <2>1. /\ OthersStay(r) /\ run[r].pc = "complete" /\ run'[r].lapsed = run[r].lapsed
        /\ run'[r].pc = "release" /\ UNCHANGED lock
    BY <1>5, MovesOne DEF Complete
  <2>2. \A q \in Runs : run'[q].lapsed = run[q].lapsed
    BY <2>1 DEF OthersStay
  <2>3. RunShapes'
    BY <2>1 DEF LeaseInv, RunShapes, OthersStay
  <2>4. ASSUME NEW q \in Runs, Holding(q)' PROVE (run[q].lapsed \/ lock = q)'
    <3>1. Holding(q)
      BY <2>1, <2>4 DEF OthersStay, Holding, TaskSteps
    <3>2. QED
      BY <2>1, <2>2, <3>1 DEF LeaseInv
  <2>5. ASSUME NEW q \in Runs, InTask(q)' PROVE (\E p \in Runs : run[p].lapsed)'
    <3>1. q # r /\ InTask(q) /\ InTask(r)
      BY <2>1, <2>5 DEF OthersStay, InTask, TaskSteps
    <3>2. run[q].lapsed \/ run[r].lapsed
      BY <3>1 DEF LeaseInv, Holding, InTask
    <3>3. QED
      BY <2>2, <3>2
  <2>6. QED
    BY <2>3, <2>4, <2>5 DEF LeaseInv
<1>6. CASE Release(r)
  <2>1. /\ OthersStay(r) /\ run'[r].pc = "idle" /\ run'[r].lapsed = run[r].lapsed
        /\ lock' = (IF lock = r THEN "free" ELSE lock) /\ UNCHANGED done
    BY <1>6, MovesOne DEF Release
  <2>2. \A q \in Runs : run'[q].lapsed = run[q].lapsed
    BY <2>1 DEF OthersStay
  <2>3. RunShapes'
    BY <2>1 DEF LeaseInv, RunShapes, OthersStay
  <2>4. \A q \in Runs : Holding(q)' => q # r /\ Holding(q)
    BY <2>1 DEF OthersStay, Holding, TaskSteps
  <2>5. \A q \in Runs : InTask(q)' => InTask(q)
    BY <2>1 DEF OthersStay, InTask, TaskSteps
  <2>6. ASSUME NEW q \in Runs, Holding(q)' PROVE (run[q].lapsed \/ lock = q)'
    BY <2>1, <2>2, <2>4, <2>6 DEF LeaseInv
  <2>7. ASSUME NEW q \in Runs, InTask(q)', done' PROVE (\E p \in Runs : run[p].lapsed)'
    BY <2>1, <2>2, <2>5, <2>7 DEF LeaseInv
  <2>8. QED
    BY <2>3, <2>6, <2>7 DEF LeaseInv
<1>7. CASE RunRaises(r)
  <2>1. OthersStay(r) /\ run'[r].pc = "release" /\ run'[r].lapsed = run[r].lapsed
    BY <1>7, MovesOne DEF RunRaises
  <2>2. Holding(r) /\ ~InTask(r)'
    BY <1>7, <2>1 DEF RunRaises, InTask, Holding, TaskSteps
  <2>3. QED
    BY <1>7, <2>1, <2>2, GoesOn DEF RunRaises
<1>8. QED
  BY <1>1, <1>2, <1>3, <1>4, <1>5, <1>6, <1>7 DEF LockStep, Acquire

\* A step of the task stays in the task, or goes to the release.
LEMMA InvoiceStepStays ==
    ASSUME LeaseInv, NEW r \in Runs, InvoiceStep(r)
    PROVE  /\ OthersStay(r) /\ run'[r].lapsed = run[r].lapsed
           /\ InTask(r) /\ run'[r].pc \in TaskSteps \union {"release"}
<1> USE DEF InTask, TaskSteps
<1> DEFINE Stays(pc) == OthersStay(r) /\ run'[r].lapsed = run[r].lapsed /\ run'[r].pc = pc
<1>1. ASSUME NEW from, NEW to, RunMoves(r, from, to) \/ RunLeaves(r, from, to)
      PROVE  Stays(to) /\ run[r].pc = from
  BY <1>1, MovesOne
<1> HIDE DEF Stays
<1>2. CASE Users(r) \/ Sync(r)
  <2>1. \/ run[r].pc = "users" /\ (Stays("existing") \/ Stays("complete"))
        \/ run[r].pc = "sync" /\ Stays("complete")
    BY <1>1, <1>2 DEF Users, Sync
  <2>2. QED
    BY <2>1 DEF Stays
<1>12. CASE Existing(r)
  <2>1. CASE RunMoves(r, "existing", "sum")
    <3>1. run[r].pc = "existing" /\ Stays("sum")
      BY <1>1, <2>1
    <3>2. QED
      BY <3>1 DEF Stays
  <2>2. ASSUME NEW seen, run[r].pc = "existing",
               run' = [run EXCEPT ![r].pc = "retrieve", ![r].loaded = seen]
        PROVE  /\ OthersStay(r) /\ run'[r].lapsed = run[r].lapsed
               /\ InTask(r) /\ run'[r].pc \in TaskSteps \union {"release"}
    BY <2>2 DEF LeaseInv, RunShapes, OthersStay, RunFields
  <2>3. QED
    BY <1>12, <2>1, <2>2 DEF Existing
<1> USE DEF LeaseInv, RunShapes, OthersStay, RunFields
<1>3. CASE Sum(r)
  BY <1>3 DEF Sum
<1>4. ASSUME NEW t \in Tools, CreateItem(r, t)
      PROVE  /\ OthersStay(r) /\ run'[r].lapsed = run[r].lapsed
             /\ InTask(r) /\ run'[r].pc \in TaskSteps \union {"release"}
  <2>1. run[r].pc = "items"
    BY <1>4 DEF CreateItem
  <2>2. CASE item[t] \in {0, run[r].sums[t]}
    BY <1>4, <2>1, <2>2 DEF CreateItem
  <2>3. CASE item[t] \notin {0, run[r].sums[t]}
    <3>1. Stays("release")
      BY <1>1, <1>4, <2>3 DEF CreateItem
    <3>2. QED
      BY <2>1, <3>1 DEF Stays
  <2>4. QED
    BY <2>2, <2>3
<1>5. CASE CreateInvoice(r)
  BY <1>5 DEF CreateInvoice
<1>6. CASE CommitTransactions(r)
  <2>1. run[r].pc = "commit"
    BY <1>6 DEF CommitTransactions
  <2>2. CASE Billable(r) \intersect Recorded = {}
    BY <1>6, <2>1, <2>2 DEF CommitTransactions
  <2>3. CASE Billable(r) \intersect Recorded # {}
    <3>1. Stays("existing")
      BY <1>1, <1>6, <2>3 DEF CommitTransactions
    <3>2. QED
      BY <2>1, <3>1 DEF Stays
  <2>4. QED
    BY <2>2, <2>3
<1>7. CASE Retrieve(r)
  BY <1>7 DEF Retrieve
<1>8. CASE Finalize(r)
  BY <1>8 DEF Finalize
<1>9. CASE Pay(r)
  <2>1. run[r].pc = "pay" /\ AfterPay(r) \in {"load", "sync"}
    BY <1>9 DEF Pay, AfterPay
  <2>2. CASE RunMoves(r, "pay", AfterPay(r)) \/ RunLeaves(r, "pay", "release")
    <3>1. Stays(AfterPay(r)) \/ Stays("release")
      BY <1>1, <2>2
    <3>2. QED
      BY <2>1, <3>1 DEF Stays
  <2>3. CASE \E seen : run' = [run EXCEPT ![r].seen = seen, ![r].pc = AfterPay(r)]
    BY <2>1, <2>3
  <2>4. CASE \E seen : run' = [run EXCEPT ![r].pc = AfterPay(r), ![r].seen = seen]
    BY <2>1, <2>4
  <2>5. QED
    BY <1>9, <2>2, <2>3, <2>4 DEF Pay
<1>10. CASE Load(r)
  <2>1. run[r].pc = "load" /\ \E seen : run' = [run EXCEPT ![r].pc = "sync", ![r].loaded = seen]
    BY <1>10 DEF Load
  <2>2. QED
    BY <2>1
<1>11. QED
  BY <1>2, <1>12, <1>3, <1>4, <1>5, <1>6, <1>7, <1>8, <1>9, <1>10 DEF InvoiceStep

LEMMA LeaseInductive == LeaseInv /\ [UsageNext]_usageVars => LeaseInv'
<1> SUFFICES ASSUME LeaseInv, [UsageNext]_usageVars PROVE LeaseInv'
  OBVIOUS
<1>1. ASSUME NEW c \in Calls, LogStep(c) \/ (\E t \in Tools : Call(c, t)) PROVE LeaseInv'
  BY <1>1, LeaseUntouched DEF LogStep, Call
<1>2. ASSUME NEW r \in Runs, LockStep(r) PROVE LeaseInv'
  BY <1>2, LockStepKeepsLease
<1>3. ASSUME NEW r \in Runs, InvoiceStep(r) PROVE LeaseInv'
  <2>1. Holding(r) /\ UNCHANGED <<lock, done>>
    BY <1>3, InvoiceStepStays DEF InTask, Holding, InvoiceStep
  <2>2. QED
    BY <1>3, <2>1, InvoiceStepStays, GoesOn
<1>4. ASSUME NEW r \in Runs, RunCrash(r) PROVE LeaseInv'
  <2>1. OthersStay(r) /\ run'[r].pc = "idle" /\ run'[r].lapsed = run[r].lapsed
    BY <1>4, MovesOne DEF RunCrash
  <2>2. QED
    BY <1>4, <2>1, GoesOn DEF RunCrash, Holding, InTask, TaskSteps
<1>5. CASE LockExpires
  <2>1. lock \in Runs /\ lock' = "free" /\ UNCHANGED done
    BY <1>5 DEF LockExpires, LeaseInv, RunShapes
  <2>2. CASE run[lock].pc \in {"idle", "lock"}
    <3>1. UNCHANGED run /\ ~Holding(lock)
      BY <1>5, <2>2 DEF LockExpires, Holding, TaskSteps
    <3>2. \A q \in Runs : Holding(q) => run[q].lapsed
      BY <3>1 DEF LeaseInv
    <3>3. QED
      BY <2>1, <3>1, <3>2 DEF LeaseInv, RunShapes, Holding, InTask
  <2>3. CASE run[lock].pc \notin {"idle", "lock"}
    <3>1. run' = [run EXCEPT ![lock].lapsed = TRUE]
      BY <1>5, <2>3 DEF LockExpires
    <3>2. /\ DOMAIN run' = Runs /\ \A q \in Runs : DOMAIN run'[q] = RunFields
          /\ \A q \in Runs : run'[q].pc = run[q].pc
      BY <2>1, <3>1 DEF LeaseInv, RunShapes, RunFields
    <3>3. run'[lock].lapsed /\ \A q \in Runs \ {lock} : run'[q] = run[q]
      BY <2>1, <3>1 DEF LeaseInv, RunShapes, RunFields
    <3>4. ASSUME NEW q \in Runs, Holding(q)' PROVE run'[q].lapsed
      BY <3>2, <3>3, <3>4 DEF LeaseInv, Holding
    <3>5. QED
      BY <2>1, <3>2, <3>3, <3>4 DEF LeaseInv, RunShapes
  <2>4. QED
    BY <2>2, <2>3
<1>6. CASE StripeCloses \/ EventStep \/ WeekEnds
  BY <1>6, LeaseUntouched DEF StripeCloses, EventStep, WeekEnds
<1>7. CASE UNCHANGED usageVars
  BY <1>7, LeaseUntouched DEF usageVars
<1>8. QED
  BY <1>1, <1>2, <1>3, <1>4, <1>5, <1>6, <1>7 DEF UsageNext

\* A run at work holds its lock unless it outlived it, and finds the week open unless
\* some run did, for any number of schedulers and crashes.
THEOREM LeaseStaysHeld == UsageSpec => []LeaseIsHeld
<1>1. LeaseInv => LeaseIsHeld
  BY DEF LeaseInv, LeaseIsHeld, Holding, InTask
<1>2. QED
  BY LeaseStart, LeaseInductive, <1>1, PTL DEF UsageSpec

(***************************************************************************)
(* The ledger and the invoice.                                             *)
(***************************************************************************)

TxStatus == {"none", "pending", "completed", "failed"}
InvoiceStatus == {"none", "draft", "open", "paid", "void"}

RunTypes ==
    \A r \in Runs : /\ run[r].sums \in [Tools -> Nat] /\ run[r].todo \subseteq Tools
                    /\ run[r].loaded \in [Tools -> TxStatus]

StripeTypes ==
    /\ item \in [Tools -> Nat]
    /\ invoice \in [status: InvoiceStatus, items: SUBSET Tools, paid: {"none", "paid", "declined"}]
    /\ event \subseteq {"paid", "payment_failed"}
    /\ handler \in [kind: {"none", "paid", "payment_failed"}, loaded: [Tools -> TxStatus]]

LedgerTypes ==
    /\ CallShapes /\ \A c \in Calls : rows[c] <= 1
    /\ RunShapes /\ RunTypes
    /\ StripeTypes
    /\ tx \in [Tools -> [amount: Nat, status: TxStatus]]

Billing(r)  == run[r].pc \in {"items", "create", "commit"}
Settling(r) == run[r].pc \in {"retrieve", "finalize", "pay", "load", "sync"}

\* Before the week is over nothing is billed.
NothingBilled ==
    /\ \A r \in Runs : run[r].pc = "idle"
    /\ \A t \in Tools : item[t] = 0
    /\ Recorded = {} /\ invoice.status = "none" /\ ~summed /\ ~done

\* The sums that a run bills are of the week's logs, of all of them unless one came
\* late, and the items it has invoiced are of its sums.
SumsOf(r) ==
    /\ summed
    /\ Billable(r) # {}
    /\ \A t \in Tools : run[r].sums[t] <= Made(t)
    /\ \A t \in Billable(r) : Usage(t) > 0
    /\ ~late => \A t \in Tools : run[r].sums[t] = Usage(t)
    /\ run[r].pc = "items" => run[r].todo # {} /\ run[r].todo \subseteq Billable(r)
    /\ \A t \in Billable(r) : run[r].pc # "items" \/ t \notin run[r].todo => item[t] = run[r].sums[t]
    /\ run[r].pc = "commit" => invoice.status # "none"

\* Any two runs that bill the week have a tool in common, and a run has one in common
\* with what is recorded: the unique index lets only one of them record the week.
OneRecords ==
    /\ \A r, q \in Runs : Billing(r) /\ Billing(q) => Billable(r) \intersect Billable(q) # {}
    /\ \A r \in Runs : Billing(r) /\ Recorded # {} => Billable(r) \intersect Recorded # {}

Booked == \A t \in Tools : tx[t].amount = Usage(t)

\* What is recorded is the amount of an item, and all that was logged unless a log came late.
TxAreItems ==
    /\ \A t \in Tools : item[t] <= Made(t)
    /\ \A t \in Tools \ Recorded : tx[t].amount = 0
    /\ \A t \in Recorded : tx[t].amount = item[t] /\ item[t] > 0 /\ Usage(t) > 0
    /\ Recorded # {} => invoice.status # "none"
    /\ invoice.status # "none" => summed
    /\ ~late /\ invoice.status # "none" => \A t \in Tools : Usage(t) > 0 => t \in invoice.items
    /\ Recorded # {} \/ done \/ (\E r \in Runs : run[r].pc = "complete") => summed /\ (~late => Booked)

BillInv ==
    /\ ~monday => NothingBilled
    /\ \A r \in Runs : Billing(r) => SumsOf(r)
    /\ OneRecords
    /\ TxAreItems

\* Who settles the week has its transactions before it, and what it knows of the invoice
\* is true.
RunKnows(r) ==
    /\ Settling(r) => Recorded # {}
    /\ \A t \in Tools : run[r].loaded[t] # "none" => t \in Recorded
    /\ run[r].seen = "paid" => invoice.status = "paid"
    /\ run[r].seen = "void" => invoice.status = "void"
    /\ run[r].pc \in {"load", "sync"} => run[r].seen \in {"paid", "void"} \/ invoice.paid = "declined"

\* What an event says of the payment is true, and its handler has all transactions before it.
EventKnows ==
    /\ invoice.status \notin {"none", "draft"} => Recorded # {}
    /\ "paid" \in event \/ handler.kind = "paid" \/ invoice.paid = "paid" => invoice.status = "paid"
    /\ "payment_failed" \in event \/ handler.kind = "payment_failed" => invoice.paid = "declined"
    /\ invoice.paid # "none" => invoice.status \notin {"none", "draft"}
    /\ handler.kind = "none" => handler = NoEvent
    /\ \A t \in Tools : handler.loaded[t] # "none" => t \in Recorded
    /\ handler.kind # "none" => \A t \in Recorded : handler.loaded[t] # "none"

\* Until its event is handled a payment may be unrecorded, and then it never is again.
PaymentIsRecorded ==
    /\ \A t \in Tools : tx[t].status = "completed" => invoice.status = "paid"
    /\ invoice.status = "paid" /\ invoice.paid # "declined" =>
          /\ "paid" \notin event => \A t \in Recorded : tx[t].status = "completed"
          /\ handler.kind = "paid" =>
                \A t \in Tools : handler.loaded[t] = "completed" => tx[t].status = "completed"

PayInv == (\A r \in Runs : RunKnows(r)) /\ EventKnows /\ PaymentIsRecorded

LedgerInv == LedgerTypes /\ BillInv /\ PayInv

(* The usage of a tool. *)

\* A set of calls with one row each.
LEMMA OneRowEach ==
    ASSUME NEW S \in SUBSET Calls, NEW L, L \subseteq S \X {1}
    PROVE  /\ IsFiniteSet(L) /\ Cardinality(L) \in Nat
           /\ Cardinality(S) \in Nat /\ Cardinality(L) <= Cardinality(S)
<1>1. IsFiniteSet(S) /\ Cardinality(S) \in Nat
  BY CallsAssumption, FS_Subset, FS_CardinalityType
<1>2. IsFiniteSet({1}) /\ Cardinality({1}) = 1
  BY FS_Singleton
<1>3. IsFiniteSet(S \X {1}) /\ Cardinality(S \X {1}) = Cardinality(S) * Cardinality({1})
  BY <1>1, <1>2, FS_Product, Zenon
<1>4. Cardinality(S \X {1}) = Cardinality(S)
  BY <1>1, <1>2, <1>3
<1>5. IsFiniteSet(L) /\ Cardinality(L) <= Cardinality(S \X {1})
  BY <1>3, FS_Subset
<1>6. QED
  BY <1>1, <1>4, <1>5, FS_CardinalityType

LEMMA UsageBounds ==
    ASSUME LedgerTypes, NEW t
    PROVE  Usage(t) \in Nat /\ Made(t) \in Nat /\ Usage(t) <= Made(t)
<1>1. Logs(t) \subseteq CallsOf(t) \X {1}
  <2>1. \A c \in CallsOf(t) : 1 .. rows[c] \subseteq {1}
    BY DEF LedgerTypes, CallShapes, CallsOf
  <2>2. QED
    BY <2>1 DEF Logs
<1>2. CallsOf(t) \subseteq Calls
  BY DEF CallsOf
<1>3. QED
  BY <1>1, <1>2, OneRowEach DEF Usage, Made

\* A tool whose calls have no rows costs nothing.
LEMMA NoUsage ==
    ASSUME NEW t, \A c \in Calls : rows[c] = 0
    PROVE  Usage(t) = 0
<1>1. Logs(t) = {}
  BY DEF Logs, CallsOf
<1>2. QED
  BY <1>1, FS_EmptySet DEF Usage

LEMMA UsageBoundsNext ==
    ASSUME LedgerTypes', NEW t
    PROVE  IsFiniteSet(Logs(t)') /\ Usage(t)' \in Nat /\ Made(t)' \in Nat
<1>1. \A c \in Calls : rows'[c] \in Nat /\ rows'[c] <= 1
  BY DEF LedgerTypes, CallShapes
<1>2. \A c \in CallsOf(t)' : 1 .. rows'[c] \subseteq {1}
  BY <1>1 DEF CallsOf
<1>3. Logs(t)' \subseteq CallsOf(t)' \X {1} /\ CallsOf(t)' \subseteq Calls
  BY <1>2 DEF Logs, CallsOf
<1>4. QED
  BY <1>3, OneRowEach DEF Usage, Made

\* The same calls with as many rows or more cost as much or more.
LEMMA UsageGrows ==
    ASSUME LedgerTypes, LedgerTypes', NEW t,
           \A c \in Calls : call'[c].tool = call[c].tool /\ rows[c] <= rows'[c]
    PROVE  Made(t)' = Made(t) /\ Usage(t) <= Usage(t)'
<1>1. CallsOf(t)' = CallsOf(t)
  BY DEF CallsOf
<1>2. Logs(t) \subseteq Logs(t)'
  <2>1. \A c \in CallsOf(t) : 1 .. rows[c] \subseteq 1 .. rows'[c]
    BY DEF LedgerTypes, CallShapes, CallsOf
  <2>2. Logs(t)' = UNION {{c} \X (1 .. rows'[c]) : c \in CallsOf(t)}
    BY <1>1 DEF Logs
  <2>3. QED
    BY <2>1, <2>2 DEF Logs
<1>3. QED
  BY <1>1, <1>2, UsageBoundsNext, FS_Subset DEF Usage, Made

LEMMA UsageStays ==
    ASSUME UNCHANGED <<call, rows>>, NEW t
    PROVE  Made(t)' = Made(t) /\ Usage(t)' = Usage(t)
BY DEF Made, Usage, Logs, CallsOf

(* Types. *)

LEMMA Moved ==
    ASSUME RunShapes, NEW r \in Runs, NEW from, NEW to, RunMoves(r, from, to)
    PROVE  /\ run[r].pc = from /\ run'[r].pc = to
           /\ run'[r].sums = run[r].sums /\ run'[r].todo = run[r].todo
           /\ run'[r].seen = run[r].seen /\ run'[r].loaded = run[r].loaded
           /\ \A q \in Runs \ {r} : run'[q] = run[q]
BY DEF RunShapes, RunFields, RunMoves

LEMMA Left ==
    ASSUME RunShapes, NEW r \in Runs, NEW from, NEW to, RunLeaves(r, from, to)
    PROVE  /\ run[r].pc = from /\ run'[r].pc = to
           /\ run'[r].sums = [t \in Tools |-> 0] /\ run'[r].todo = {}
           /\ run'[r].seen = "none" /\ run'[r].loaded = [t \in Tools |-> "none"]
           /\ \A q \in Runs \ {r} : run'[q] = run[q]
<1> DEFINE left == [IdleRun EXCEPT !.pc = to, !.lapsed = run[r].lapsed]
<1>1. /\ left.pc = to /\ left.sums = [t \in Tools |-> 0] /\ left.todo = {}
      /\ left.seen = "none" /\ left.loaded = [t \in Tools |-> "none"]
  BY DEF IdleRun
<1>2. run[r].pc = from /\ run' = [run EXCEPT ![r] = left]
  BY DEF RunLeaves
<1> HIDE DEF left
<1>3. QED
  BY <1>1, <1>2 DEF RunShapes

\* A run that begins, ends, fails or is rid of its lock is not in the middle of anything.
OutOfTask(r) ==
    /\ run'[r].pc \notin TaskSteps
       \/ (run[r].pc = "recheck" /\ run'[r].pc = "users")
    /\ \/ /\ run'[r].sums = run[r].sums /\ run'[r].todo = run[r].todo
          /\ run'[r].seen = run[r].seen /\ run'[r].loaded = run[r].loaded
       \/ /\ run'[r].sums = [t \in Tools |-> 0] /\ run'[r].todo = {}
          /\ run'[r].seen = "none" /\ run'[r].loaded = [t \in Tools |-> "none"]
    /\ \A q \in Runs \ {r} : run'[q] = run[q]

LEMMA LockStepsAreOut ==
    ASSUME RunShapes, NEW r \in Runs, LockStep(r) \/ RunCrash(r)
    PROVE  OutOfTask(r) /\ UNCHANGED <<ledgerVars, stripeVars, handler, tx, summed>>
<1>1. CASE BeginRun(r) \/ Recheck(r) \/ Complete(r) \/ Release(r) \/ (Acquire(r) /\ lock # "free")
  <2>1. PICK from, to : RunMoves(r, from, to)
                        /\ (to \notin TaskSteps \/ (from = "recheck" /\ to = "users"))
    BY <1>1 DEF BeginRun, Recheck, Complete, Release, Acquire, TaskSteps
  <2>2. QED
    BY <2>1, Moved DEF OutOfTask, LockStep, RunCrash
<1>2. CASE Acquire(r) /\ lock = "free"
  <2> DEFINE fresh == [IdleRun EXCEPT !.pc = "recheck"]
  <2>1. /\ fresh.pc = "recheck" /\ fresh.sums = [t \in Tools |-> 0] /\ fresh.todo = {}
        /\ fresh.seen = "none" /\ fresh.loaded = [t \in Tools |-> "none"]
    BY DEF IdleRun
  <2>2. run' = [run EXCEPT ![r] = fresh]
    BY <1>2 DEF Acquire
  <2> HIDE DEF fresh
  <2>3. QED
    BY <2>1, <2>2 DEF RunShapes, OutOfTask, TaskSteps, LockStep, RunCrash
<1>3. CASE RunRaises(r) \/ RunCrash(r)
  <2>1. PICK from, to : RunLeaves(r, from, to) /\ to \notin TaskSteps
    BY <1>3 DEF RunRaises, RunCrash, TaskSteps
  <2>2. QED
    BY <2>1, Left DEF OutOfTask, LockStep, RunCrash
<1>4. QED
  BY <1>1, <1>2, <1>3 DEF LockStep, RunCrash, Acquire

(* What the steps of the task do to their run. *)

OnlyRun(r) == \A q \in Runs \ {r} : run'[q] = run[q]

LEMMA SumDoes ==
    ASSUME RunShapes, NEW r \in Runs, Sum(r)
    PROVE  /\ OnlyRun(r) /\ run[r].pc = "sum"
           /\ run'[r].sums = [t \in Tools |-> Usage(t)]
           /\ run'[r].todo = {t \in Tools : Usage(t) > 0}
           /\ run'[r].pc = IF run'[r].todo = {} THEN "complete" ELSE "items"
           /\ run'[r].seen = run[r].seen /\ run'[r].loaded = run[r].loaded
<1> DEFINE sums == [t \in Tools |-> Usage(t)]
           todo == {t \in Tools : sums[t] > 0}
           pc == IF todo = {} THEN "complete" ELSE "items"
<1>1. run[r].pc = "sum" /\ run' = [run EXCEPT ![r].sums = sums, ![r].todo = todo, ![r].pc = pc]
  BY DEF Sum
<1>2. todo = {t \in Tools : Usage(t) > 0} /\ pc = IF todo = {} THEN "complete" ELSE "items"
  OBVIOUS
<1> HIDE DEF sums, todo, pc
<1>3. /\ OnlyRun(r) /\ run'[r].sums = sums /\ run'[r].todo = todo /\ run'[r].pc = pc
      /\ run'[r].seen = run[r].seen /\ run'[r].loaded = run[r].loaded
  BY <1>1 DEF OnlyRun, RunShapes, RunFields
<1>4. QED
  BY <1>1, <1>2, <1>3 DEF sums

LEMMA CreateItemDoes ==
    ASSUME RunShapes, NEW r \in Runs, NEW t \in Tools, CreateItem(r, t)
    PROVE  /\ OnlyRun(r) /\ run[r].pc = "items" /\ t \in run[r].todo
           /\ \/ /\ item[t] \in {0, run[r].sums[t]}
                 /\ item' = [item EXCEPT ![t] = run[r].sums[t]]
                 /\ run'[r].todo = run[r].todo \ {t}
                 /\ run'[r].pc = IF run'[r].todo = {} THEN "create" ELSE "items"
                 /\ run'[r].sums = run[r].sums
                 /\ run'[r].seen = run[r].seen /\ run'[r].loaded = run[r].loaded
              \/ RunLeaves(r, "items", "release") /\ UNCHANGED item
<1> DEFINE rest == run[r].todo \ {t}
           pc == IF rest = {} THEN "create" ELSE "items"
<1>1. run[r].pc = "items" /\ t \in run[r].todo
  BY DEF CreateItem
<1>2. CASE item[t] \in {0, run[r].sums[t]}
  <2>1. /\ item' = [item EXCEPT ![t] = run[r].sums[t]]
        /\ run' = [run EXCEPT ![r].todo = rest, ![r].pc = pc]
    BY <1>2 DEF CreateItem
  <2>2. pc = IF rest = {} THEN "create" ELSE "items"
    OBVIOUS
  <2> HIDE DEF rest, pc
  <2>3. /\ OnlyRun(r) /\ run'[r].todo = rest /\ run'[r].pc = pc /\ run'[r].sums = run[r].sums
        /\ run'[r].seen = run[r].seen /\ run'[r].loaded = run[r].loaded
    BY <2>1 DEF OnlyRun, RunShapes, RunFields
  <2>4. QED
    BY <1>1, <1>2, <2>1, <2>2, <2>3 DEF rest
<1>3. CASE item[t] \notin {0, run[r].sums[t]}
  <2>1. RunLeaves(r, "items", "release") /\ UNCHANGED item
    BY <1>3 DEF CreateItem
  <2>2. QED
    BY <1>1, <2>1, Left DEF OnlyRun
<1>4. QED
  BY <1>2, <1>3

LEMMA CreateInvoiceDoes ==
    ASSUME RunShapes, NEW r \in Runs, CreateInvoice(r)
    PROVE  /\ OnlyRun(r) /\ run[r].pc = "create" /\ run'[r].pc = "commit"
           /\ run'[r].seen = "draft" /\ run'[r].sums = run[r].sums
           /\ run'[r].todo = run[r].todo /\ run'[r].loaded = run[r].loaded
BY DEF CreateInvoice, OnlyRun, RunShapes, RunFields

LEMMA CommitDoes ==
    ASSUME RunShapes, NEW r \in Runs, CommitTransactions(r)
    PROVE  /\ OnlyRun(r) /\ run[r].pc = "commit"
           /\ \/ /\ Billable(r) \intersect Recorded = {}
                 /\ tx' = [t \in Tools |-> IF t \in Billable(r)
                                           THEN [amount |-> run[r].sums[t], status |-> "pending"]
                                           ELSE tx[t]]
                 /\ run'[r].pc = "finalize" /\ run'[r].loaded = [t \in Tools |-> tx'[t].status]
                 /\ run'[r].sums = run[r].sums /\ run'[r].todo = run[r].todo
                 /\ run'[r].seen = run[r].seen
              \/ /\ Billable(r) \intersect Recorded # {}
                 /\ RunLeaves(r, "commit", "existing") /\ UNCHANGED tx
<1>1. CASE Billable(r) \intersect Recorded = {}
  <2> DEFINE loaded == [t \in Tools |-> tx'[t].status]
             written == [t \in Tools |-> IF t \in Billable(r)
                                         THEN [amount |-> run[r].sums[t], status |-> "pending"]
                                         ELSE tx[t]]
  <2>1. /\ run[r].pc = "commit" /\ tx' = written
        /\ run' = [run EXCEPT ![r].pc = "finalize", ![r].loaded = loaded]
    BY <1>1 DEF CommitTransactions
  <2> HIDE DEF loaded
  <2>2. /\ OnlyRun(r) /\ run'[r].pc = "finalize" /\ run'[r].loaded = loaded
        /\ run'[r].sums = run[r].sums /\ run'[r].todo = run[r].todo /\ run'[r].seen = run[r].seen
    BY <2>1 DEF OnlyRun, RunShapes, RunFields
  <2>3. QED
    BY <1>1, <2>1, <2>2 DEF loaded
<1>2. CASE Billable(r) \intersect Recorded # {}
  <2>1. RunLeaves(r, "commit", "existing") /\ UNCHANGED tx
    BY <1>2 DEF CommitTransactions
  <2>2. QED
    BY <1>2, <2>1, Left DEF OnlyRun
<1>3. QED
  BY <1>1, <1>2

LEMMA RetrieveDoes ==
    ASSUME RunShapes, NEW r \in Runs, Retrieve(r)
    PROVE  /\ OnlyRun(r) /\ run[r].pc = "retrieve" /\ run'[r].seen = invoice.status
           /\ run'[r].pc = IF invoice.status = "draft" THEN "finalize"
                           ELSE IF invoice.status = "open" THEN "pay" ELSE "load"
           /\ run'[r].sums = run[r].sums /\ run'[r].todo = run[r].todo
           /\ run'[r].loaded = run[r].loaded
<1> DEFINE pc == IF invoice.status = "draft" THEN "finalize"
                 ELSE IF invoice.status = "open" THEN "pay" ELSE "load"
<1>1. run[r].pc = "retrieve" /\ run' = [run EXCEPT ![r].seen = invoice.status, ![r].pc = pc]
  BY DEF Retrieve
<1> HIDE DEF pc
<1>2. /\ OnlyRun(r) /\ run'[r].seen = invoice.status /\ run'[r].pc = pc
      /\ run'[r].sums = run[r].sums /\ run'[r].todo = run[r].todo
      /\ run'[r].loaded = run[r].loaded
  BY <1>1 DEF OnlyRun, RunShapes, RunFields
<1>3. QED
  BY <1>1, <1>2 DEF pc

LEMMA FinalizeDoes ==
    ASSUME RunShapes, NEW r \in Runs, Finalize(r)
    PROVE  /\ OnlyRun(r) /\ run[r].pc = "finalize" /\ run'[r].seen = "open" /\ run'[r].pc = "pay"
           /\ run'[r].sums = run[r].sums /\ run'[r].todo = run[r].todo
           /\ run'[r].loaded = run[r].loaded
BY DEF Finalize, OnlyRun, RunShapes, RunFields

LEMMA PayDoes ==
    ASSUME RunShapes, NEW r \in Runs, Pay(r)
    PROVE  /\ OnlyRun(r) /\ run[r].pc = "pay" /\ UNCHANGED item
           /\ \/ /\ run'[r].pc \in {"load", "sync"}
                 /\ run'[r].sums = run[r].sums /\ run'[r].todo = run[r].todo
                 /\ run'[r].loaded = run[r].loaded
                 /\ \/ /\ invoice.paid = "none" /\ invoice.status = "open"
                       /\ invoice' = [invoice EXCEPT !.status = "paid", !.paid = "paid"]
                       /\ event' = event \union {"paid"} /\ run'[r].seen = "paid"
                    \/ /\ invoice.paid = "none" /\ invoice.status = "open"
                       /\ invoice' = [invoice EXCEPT !.paid = "declined"]
                       /\ event' = event \union {"payment_failed"} /\ run'[r].seen = run[r].seen
                    \/ /\ invoice.paid # "none" /\ UNCHANGED <<invoice, event>>
                       /\ run'[r].seen = IF invoice.paid = "paid" THEN "paid" ELSE run[r].seen
              \/ RunLeaves(r, "pay", "release") /\ UNCHANGED <<invoice, event>>
<1>1. run[r].pc = "pay" /\ AfterPay(r) \in {"load", "sync"} /\ UNCHANGED item
  BY DEF Pay, AfterPay
<1>2. ASSUME NEW seen, \/ run' = [run EXCEPT ![r].seen = seen, ![r].pc = AfterPay(r)]
                       \/ run' = [run EXCEPT ![r].pc = AfterPay(r), ![r].seen = seen]
      PROVE  /\ OnlyRun(r) /\ run'[r].pc = AfterPay(r) /\ run'[r].seen = seen
             /\ run'[r].sums = run[r].sums /\ run'[r].todo = run[r].todo
             /\ run'[r].loaded = run[r].loaded
  BY <1>2 DEF OnlyRun, RunShapes, RunFields
<1>3. CASE /\ invoice.paid = "none" /\ invoice.status = "open"
           /\ invoice' = [invoice EXCEPT !.status = "paid", !.paid = "paid"]
           /\ event' = event \union {"paid"}
           /\ run' = [run EXCEPT ![r].seen = "paid", ![r].pc = AfterPay(r)]
  BY <1>1, <1>2, <1>3
<1>4. CASE /\ invoice.paid = "none" /\ invoice.status = "open"
           /\ invoice' = [invoice EXCEPT !.paid = "declined"]
           /\ event' = event \union {"payment_failed"}
           /\ RunMoves(r, "pay", AfterPay(r))
  BY <1>1, <1>4, Moved DEF OnlyRun
<1>5. CASE RunLeaves(r, "pay", "release") /\ UNCHANGED <<invoice, event>>
  BY <1>1, <1>5, Left DEF OnlyRun
<1>6. CASE /\ invoice.paid # "none" /\ UNCHANGED <<invoice, event>>
           /\ run' = [run EXCEPT ![r].pc = AfterPay(r),
                                 ![r].seen = IF invoice.paid = "paid" THEN "paid" ELSE @]
  <2> DEFINE seen == IF invoice.paid = "paid" THEN "paid" ELSE run[r].seen
  <2>1. run' = [run EXCEPT ![r].pc = AfterPay(r), ![r].seen = seen]
    BY <1>6 DEF RunShapes, RunFields
  <2> HIDE DEF seen
  <2>2. /\ OnlyRun(r) /\ run'[r].pc = AfterPay(r) /\ run'[r].seen = seen
        /\ run'[r].sums = run[r].sums /\ run'[r].todo = run[r].todo
        /\ run'[r].loaded = run[r].loaded
    BY <1>2, <2>1
  <2>3. QED
    BY <1>1, <1>6, <2>2 DEF seen
<1>7. QED
  BY <1>3, <1>4, <1>5, <1>6 DEF Pay

LEMMA ExistingDoes ==
    ASSUME RunShapes, NEW r \in Runs, Existing(r)
    PROVE  /\ OnlyRun(r) /\ run[r].pc = "existing" /\ run'[r].seen = run[r].seen
           /\ run'[r].sums = run[r].sums /\ run'[r].todo = run[r].todo
           /\ \/ /\ Recorded = {} /\ run'[r].pc = "sum" /\ run'[r].loaded = run[r].loaded
              \/ /\ Recorded # {} /\ run'[r].pc = "retrieve"
                 /\ \E u \in Recorded :
                       run'[r].loaded = [t \in Tools |-> IF t = u THEN tx[u].status ELSE "none"]
<1>1. CASE Recorded = {} /\ RunMoves(r, "existing", "sum")
  BY <1>1, Moved DEF OnlyRun
<1>2. ASSUME NEW u \in Recorded, run[r].pc = "existing",
             run' = [run EXCEPT ![r].pc = "retrieve",
                                ![r].loaded = [IdleRun.loaded EXCEPT ![u] = tx[u].status]]
      PROVE  /\ OnlyRun(r) /\ run'[r].seen = run[r].seen /\ run'[r].pc = "retrieve"
             /\ run'[r].sums = run[r].sums /\ run'[r].todo = run[r].todo
             /\ run'[r].loaded = [t \in Tools |-> IF t = u THEN tx[u].status ELSE "none"]
  <2> DEFINE loaded == [IdleRun.loaded EXCEPT ![u] = tx[u].status]
  <2>1. loaded = [t \in Tools |-> IF t = u THEN tx[u].status ELSE "none"]
    BY DEF IdleRun
  <2>2. run' = [run EXCEPT ![r].pc = "retrieve", ![r].loaded = loaded]
    BY <1>2
  <2> HIDE DEF loaded
  <2>3. /\ OnlyRun(r) /\ run'[r].seen = run[r].seen /\ run'[r].pc = "retrieve"
        /\ run'[r].sums = run[r].sums /\ run'[r].todo = run[r].todo /\ run'[r].loaded = loaded
    BY <1>2, <2>2 DEF OnlyRun, RunShapes, RunFields
  <2>4. QED
    BY <2>1, <2>3
<1>3. QED
  BY <1>1, <1>2 DEF Existing

LEMMA LoadDoes ==
    ASSUME RunShapes, NEW r \in Runs, Load(r)
    PROVE  /\ OnlyRun(r) /\ run[r].pc = "load" /\ run'[r].pc = "sync"
           /\ run'[r].loaded = [t \in Tools |-> IF run[r].loaded[t] = "none" THEN tx[t].status
                                                ELSE run[r].loaded[t]]
           /\ run'[r].seen = run[r].seen
           /\ run'[r].sums = run[r].sums /\ run'[r].todo = run[r].todo
<1> DEFINE loaded == [t \in Tools |-> IF run[r].loaded[t] = "none" THEN tx[t].status
                                       ELSE run[r].loaded[t]]
<1>1. run[r].pc = "load" /\ run' = [run EXCEPT ![r].pc = "sync", ![r].loaded = loaded]
  BY DEF Load, InSession
<1> HIDE DEF loaded
<1>2. /\ OnlyRun(r) /\ run'[r].pc = "sync" /\ run'[r].loaded = loaded
      /\ run'[r].seen = run[r].seen /\ run'[r].sums = run[r].sums /\ run'[r].todo = run[r].todo
  BY <1>1 DEF OnlyRun, RunShapes, RunFields
<1>3. QED
  BY <1>1, <1>2 DEF loaded

\* What a flush of loaded statuses writes.
LEMMA FlushDoes ==
    ASSUME tx \in [Tools -> [amount: Nat, status: TxStatus]], NEW loaded, NEW status \in TxStatus,
           tx' = Flush(loaded, status)
    PROVE  /\ tx' \in [Tools -> [amount: Nat, status: TxStatus]]
           /\ \A t \in Tools :
                 /\ tx'[t].amount = tx[t].amount
                 /\ tx'[t].status = IF loaded[t] \in {"none", status} THEN tx[t].status ELSE status
<1>1. tx' = [t \in Tools |-> IF loaded[t] \in {"none", status} THEN tx[t]
                             ELSE [tx[t] EXCEPT !.status = status]]
  BY DEF Flush
<1>2. ASSUME NEW t \in Tools
      PROVE  /\ tx'[t] \in [amount: Nat, status: TxStatus] /\ tx'[t].amount = tx[t].amount
             /\ tx'[t].status = IF loaded[t] \in {"none", status} THEN tx[t].status ELSE status
  <2>1. /\ tx[t] \in [amount: Nat, status: TxStatus]
        /\ tx'[t] = IF loaded[t] \in {"none", status} THEN tx[t] ELSE [tx[t] EXCEPT !.status = status]
    BY <1>1
  <2>2. CASE loaded[t] \in {"none", status}
    BY <2>1, <2>2
  <2>3. CASE loaded[t] \notin {"none", status}
    <3>1. tx'[t] = [tx[t] EXCEPT !.status = status]
      BY <2>1, <2>3, Zenon
    <3>2. QED
      BY <2>1, <2>3, <3>1
  <2>4. QED
    BY <2>2, <2>3
<1>3. tx' \in [Tools -> [amount: Nat, status: TxStatus]]
  BY <1>1, <1>2
<1>4. QED
  BY <1>2, <1>3

\* A step of a call or of its job stores one more row at most, and then the log is late
\* if the week's logs were read already.
LEMMA LogDoes ==
    ASSUME LedgerTypes, NEW c \in Calls, LogStep(c)
    PROVE  /\ \A d \in Calls : call'[d].tool = call[d].tool
           /\ CallShapes' => \A d \in Calls : rows[d] <= rows'[d] /\ rows'[d] <= 1
           /\ UNCHANGED <<rows, late>> \/ (late \/ summed => late')
           /\ UNCHANGED <<monday, run, lock, done, stripeVars, handler, tx, summed>>
<1>1. CallShapes /\ \A d \in Calls : rows[d] <= 1
  BY DEF LedgerTypes
<1>2. ASSUME NEW from, NEW to, CallMoves(c, from, to)
      PROVE  \A d \in Calls : call'[d].tool = call[d].tool
  BY <1>1, <1>2 DEF CallMoves, CallShapes
<1>3. \A d \in Calls : call'[d].tool = call[d].tool
  <2>1. CASE ApiCrash(c)
    BY <1>1, <2>1 DEF ApiCrash, CallShapes
  <2>2. CASE StoreLog(c) \/ QueueLog(c)
    BY <1>2, <2>2 DEF StoreLog, QueueLog
  <2>3. CASE UNCHANGED call
    BY <2>3
  <2>4. QED
    BY <2>1, <2>2, <2>3 DEF LogStep
<1>4. Insert(c) \/ UNCHANGED <<rows, late>>
  <2>1. CASE StoreLog(c)
    BY <2>1 DEF StoreLog, Persisted, PersistRaises
  <2>2. CASE QueueLog(c) \/ ApiCrash(c) \/ DropJob(c)
    BY <2>2 DEF QueueLog, ApiCrash, DropJob
  <2>3. CASE TryJob(c)
    BY <2>3 DEF TryJob, Persisted, PersistRaises
  <2>4. QED
    BY <2>1, <2>2, <2>3 DEF LogStep
<1>5. \A d \in Calls : rows[d] <= rows'[d] /\ rows'[d] <= 1
  BY <1>1, <1>4 DEF Insert, CallShapes
<1>6. UNCHANGED <<rows, late>> \/ (late \/ summed => late')
  BY <1>4 DEF Insert
<1>7. QED
  BY <1>3, <1>5, <1>6 DEF LogStep

LEMMA InvoiceTypes ==
    ASSUME LedgerTypes, NEW r \in Runs, InvoiceStep(r)
    PROVE  /\ RunTypes' /\ StripeTypes'
           /\ tx' \in [Tools -> [amount: Nat, status: TxStatus]]
<1>1. /\ RunShapes /\ RunTypes /\ StripeTypes /\ UNCHANGED handler
      /\ tx \in [Tools -> [amount: Nat, status: TxStatus]]
  BY DEF LedgerTypes, InvoiceStep
<1>2. ASSUME OnlyRun(r), run'[r].sums \in [Tools -> Nat], run'[r].todo \subseteq Tools,
             run'[r].loaded \in [Tools -> TxStatus]
      PROVE  RunTypes'
  BY <1>1, <1>2 DEF RunTypes, OnlyRun
<1>3. /\ run[r].sums \in [Tools -> Nat] /\ run[r].todo \subseteq Tools
      /\ run[r].loaded \in [Tools -> TxStatus]
  BY <1>1 DEF RunTypes
<1>4. ASSUME NEW from, NEW to, RunMoves(r, from, to) \/ RunLeaves(r, from, to) PROVE RunTypes'
  <2>1. [t \in Tools |-> 0] \in [Tools -> Nat] /\ [t \in Tools |-> "none"] \in [Tools -> TxStatus]
    BY DEF TxStatus
  <2>2. QED
    BY <1>1, <1>2, <1>3, <1>4, <2>1, Moved, Left DEF OnlyRun
<1>5. [t \in Tools |-> tx[t].status] \in [Tools -> TxStatus]
  BY <1>1
<1>6. CASE Users(r) /\ UNCHANGED <<stripeVars, tx>>
  <2>1. RunTypes'
    BY <1>4, <1>6 DEF Users
  <2>2. QED
    BY <1>1, <1>6, <2>1 DEF StripeTypes, stripeVars
<1>17. CASE Existing(r) /\ UNCHANGED <<stripeVars, tx>>
  <2>1. ASSUME NEW u \in Tools
        PROVE  [t \in Tools |-> IF t = u THEN tx[u].status ELSE "none"] \in [Tools -> TxStatus]
    BY <1>1 DEF TxStatus
  <2>2. /\ run'[r].loaded \in [Tools -> TxStatus] /\ OnlyRun(r)
        /\ run'[r].sums = run[r].sums /\ run'[r].todo = run[r].todo
    <3>1. \/ run'[r].loaded = run[r].loaded
          \/ \E u \in Tools :
                run'[r].loaded = [t \in Tools |-> IF t = u THEN tx[u].status ELSE "none"]
      BY <1>1, <1>17, ExistingDoes DEF Recorded
    <3>2. run'[r].loaded \in [Tools -> TxStatus]
      BY <1>3, <2>1, <3>1
    <3>3. QED
      BY <1>1, <1>17, <3>2, ExistingDoes
  <2>3. RunTypes'
    BY <1>2, <1>3, <2>2
  <2>4. QED
    BY <1>1, <1>17, <2>3 DEF StripeTypes, stripeVars
<1>7. CASE Load(r) /\ UNCHANGED <<stripeVars, tx>>
  <2>1. [t \in Tools |-> IF run[r].loaded[t] = "none" THEN tx[t].status ELSE run[r].loaded[t]]
           \in [Tools -> TxStatus]
    BY <1>1, <1>3
  <2>2. /\ run'[r].loaded \in [Tools -> TxStatus] /\ OnlyRun(r)
        /\ run'[r].sums = run[r].sums /\ run'[r].todo = run[r].todo
    BY <1>1, <1>7, <2>1, LoadDoes
  <2>3. RunTypes'
    BY <1>2, <1>3, <2>2
  <2>4. QED
    BY <1>1, <1>7, <2>3 DEF StripeTypes, stripeVars
<1>8. CASE Sum(r) /\ UNCHANGED <<stripeVars, tx>>
  <2>1. [t \in Tools |-> Usage(t)] \in [Tools -> Nat]
    BY UsageBounds
  <2>2. /\ OnlyRun(r) /\ run'[r].sums \in [Tools -> Nat] /\ run'[r].todo \subseteq Tools
        /\ run'[r].loaded = run[r].loaded
    BY <1>1, <1>8, <2>1, SumDoes
  <2>3. RunTypes'
    BY <1>2, <1>3, <2>2
  <2>4. QED
    BY <1>1, <1>8, <2>3 DEF StripeTypes, stripeVars
<1>9. ASSUME NEW t \in Tools, CreateItem(r, t), UNCHANGED tx
      PROVE  /\ RunTypes' /\ StripeTypes'
             /\ tx' \in [Tools -> [amount: Nat, status: TxStatus]]
  <2>1. UNCHANGED <<invoice, event>>
    BY <1>9 DEF CreateItem
  <2>2. CASE RunLeaves(r, "items", "release") /\ UNCHANGED item
    BY <1>1, <1>4, <1>9, <2>1, <2>2 DEF StripeTypes
  <2>3. CASE ~ (RunLeaves(r, "items", "release") /\ UNCHANGED item)
    <3>1. /\ OnlyRun(r) /\ item' = [item EXCEPT ![t] = run[r].sums[t]]
          /\ run'[r].todo = run[r].todo \ {t} /\ run'[r].sums = run[r].sums
          /\ run'[r].loaded = run[r].loaded
      BY <1>1, <1>9, <2>3, CreateItemDoes
    <3>2. run[r].sums[t] \in Nat
      BY <1>3
    <3>3. item' \in [Tools -> Nat]
      BY <1>1, <3>1, <3>2 DEF StripeTypes
    <3>4. QED
      BY <1>1, <1>2, <1>3, <1>9, <2>1, <3>1, <3>3 DEF StripeTypes
  <2>4. QED
    BY <2>2, <2>3
<1>10. CASE CreateInvoice(r) /\ UNCHANGED tx
  <2>1. RunTypes'
    BY <1>1, <1>2, <1>3, <1>10, CreateInvoiceDoes
  <2>2. StripeTypes'
    BY <1>1, <1>10 DEF CreateInvoice, StripeTypes, InvoiceStatus
  <2>3. QED
    BY <1>1, <1>10, <2>1, <2>2
<1>11. CASE CommitTransactions(r) /\ UNCHANGED stripeVars
  <2>1. CASE RunLeaves(r, "commit", "existing") /\ UNCHANGED tx
    BY <1>1, <1>4, <1>11, <2>1 DEF StripeTypes, stripeVars
  <2>2. CASE ~ (RunLeaves(r, "commit", "existing") /\ UNCHANGED tx)
    <3>1. /\ OnlyRun(r)
          /\ tx' = [t \in Tools |-> IF t \in Billable(r)
                                    THEN [amount |-> run[r].sums[t], status |-> "pending"]
                                    ELSE tx[t]]
          /\ run'[r].loaded = [t \in Tools |-> tx'[t].status]
          /\ run'[r].sums = run[r].sums /\ run'[r].todo = run[r].todo
      BY <1>1, <1>11, <2>2, CommitDoes
    <3>2. ASSUME NEW t \in Tools
          PROVE  (IF t \in Billable(r) THEN [amount |-> run[r].sums[t], status |-> "pending"]
                  ELSE tx[t]) \in [amount: Nat, status: TxStatus]
      BY <1>1, <1>3 DEF TxStatus
    <3>3. tx' \in [Tools -> [amount: Nat, status: TxStatus]]
      BY <3>1, <3>2
    <3>4. run'[r].loaded \in [Tools -> TxStatus]
      BY <3>1, <3>3
    <3>5. QED
      BY <1>1, <1>2, <1>3, <1>11, <3>1, <3>3, <3>4 DEF StripeTypes, stripeVars
  <2>3. QED
    BY <2>1, <2>2
<1>12. CASE Retrieve(r) /\ UNCHANGED tx
  BY <1>1, <1>2, <1>3, <1>12, RetrieveDoes DEF Retrieve, StripeTypes, stripeVars
<1>13. CASE Finalize(r) /\ UNCHANGED tx
  <2>1. RunTypes'
    BY <1>1, <1>2, <1>3, <1>13, FinalizeDoes
  <2>2. StripeTypes'
    BY <1>1, <1>13 DEF Finalize, StripeTypes, InvoiceStatus
  <2>3. QED
    BY <1>1, <1>13, <2>1, <2>2
<1>14. CASE Pay(r) /\ UNCHANGED tx
  <2>1. RunTypes'
    BY <1>1, <1>2, <1>3, <1>4, <1>14, PayDoes
  <2>2. StripeTypes'
    BY <1>1, <1>14, PayDoes, ZenonT(40) DEF StripeTypes, InvoiceStatus
  <2>3. QED
    BY <1>1, <1>14, <2>1, <2>2
<1>15. CASE Sync(r) /\ UNCHANGED stripeVars
  <2>1. /\ tx' = Flush(run[r].loaded, SyncStatus(run[r].seen)) /\ RunLeaves(r, "sync", "complete")
    BY <1>15 DEF Sync
  <2>2. SyncStatus(run[r].seen) \in TxStatus
    BY DEF SyncStatus, TxStatus
  <2>3. QED
    BY <1>1, <1>4, <1>15, <2>1, <2>2, FlushDoes DEF StripeTypes, stripeVars
<1>16. QED
  BY <1>6, <1>17, <1>7, <1>8, <1>9, <1>10, <1>11, <1>12, <1>13, <1>14, <1>15 DEF InvoiceStep

LEMMA LedgerTypesStep ==
    ASSUME LedgerTypes, CallShapes', RunShapes', [UsageNext]_usageVars
    PROVE  LedgerTypes'
<1>1. /\ CallShapes /\ RunShapes /\ RunTypes /\ StripeTypes /\ \A c \in Calls : rows[c] <= 1
      /\ tx \in [Tools -> [amount: Nat, status: TxStatus]]
  BY DEF LedgerTypes
<1>2. ASSUME UNCHANGED <<run, stripeVars, handler, tx>>, \A c \in Calls : rows'[c] <= 1
      PROVE  LedgerTypes'
  BY <1>1, <1>2 DEF LedgerTypes, RunTypes, StripeTypes, stripeVars
<1>3. ASSUME NEW c \in Calls, LogStep(c) PROVE LedgerTypes'
  BY <1>2, <1>3, LogDoes
<1>4. ASSUME NEW r \in Runs, LockStep(r) \/ RunCrash(r) PROVE LedgerTypes'
  <2>1. OutOfTask(r) /\ UNCHANGED <<ledgerVars, stripeVars, handler, tx, summed>>
    BY <1>1, <1>4, LockStepsAreOut
  <2>2. [t \in Tools |-> 0] \in [Tools -> Nat] /\ [t \in Tools |-> "none"] \in [Tools -> TxStatus]
    BY DEF TxStatus
  <2>3. RunTypes'
    BY <1>1, <2>1, <2>2 DEF OutOfTask, RunTypes
  <2>4. QED
    BY <1>1, <2>1, <2>3 DEF LedgerTypes, StripeTypes, stripeVars, ledgerVars
<1>5. ASSUME NEW r \in Runs, InvoiceStep(r) PROVE LedgerTypes'
  <2>1. UNCHANGED rows
    BY <1>5 DEF InvoiceStep, ledgerVars
  <2>2. QED
    BY <1>1, <1>5, <2>1, InvoiceTypes DEF LedgerTypes
<1>6. CASE LockExpires
  <2>1. UNCHANGED <<rows, stripeVars, handler, tx>>
    BY <1>6 DEF LockExpires, ledgerVars
  <2>2. \A r \in Runs : /\ run'[r].sums = run[r].sums /\ run'[r].todo = run[r].todo
                        /\ run'[r].loaded = run[r].loaded
    <3>1. CASE UNCHANGED run
      BY <3>1
    <3>2. CASE run' = [run EXCEPT ![lock].lapsed = TRUE]
      BY <1>1, <3>2 DEF RunShapes, RunFields
    <3>3. QED
      BY <1>6, <3>1, <3>2 DEF LockExpires
  <2>3. RunTypes'
    BY <1>1, <2>2 DEF RunTypes
  <2>4. QED
    BY <1>1, <2>1, <2>3 DEF LedgerTypes, StripeTypes, stripeVars
<1>7. CASE StripeCloses
  <2>1. UNCHANGED <<rows, run, item, handler, tx>>
    BY <1>7 DEF StripeCloses, ledgerVars
  <2>2. StripeTypes'
    BY <1>1, <1>7 DEF StripeCloses, StripeTypes, InvoiceStatus
  <2>3. QED
    BY <1>1, <2>1, <2>2 DEF LedgerTypes, RunTypes
<1>8. ASSUME NEW kind \in event, TakeEvent(kind), UNCHANGED <<monday, ledgerVars, run, lock, done, item, invoice, summed>>
      PROVE  LedgerTypes'
  <2>1. [t \in Tools |-> tx[t].status] \in [Tools -> TxStatus]
    BY <1>1
  <2>2. handler' \in [kind: {"none", "paid", "payment_failed"}, loaded: [Tools -> TxStatus]]
    BY <1>1, <1>8, <2>1 DEF TakeEvent, StripeTypes
  <2>3. QED
    BY <1>1, <1>8, <2>2 DEF TakeEvent, LedgerTypes, StripeTypes, RunTypes, ledgerVars
<1>9. ASSUME HandleEvent, UNCHANGED <<monday, ledgerVars, run, lock, done, item, invoice, summed>>
      PROVE  LedgerTypes'
  <2>1. [t \in Tools |-> "none"] \in [Tools -> TxStatus]
    BY DEF TxStatus
  <2>2. handler' \in [kind: {"none", "paid", "payment_failed"}, loaded: [Tools -> TxStatus]]
        /\ event' \subseteq {"paid", "payment_failed"}
    BY <1>1, <1>9, <2>1 DEF HandleEvent, NoEvent, StripeTypes
  <2>3. tx' \in [Tools -> [amount: Nat, status: TxStatus]]
    <3>1. \/ UNCHANGED tx
          \/ \E status \in {"completed", "failed"} : tx' = Flush(handler.loaded, status)
      BY <1>9 DEF HandleEvent
    <3>2. QED
      BY <1>1, <3>1, FlushDoes DEF TxStatus
  <2>4. QED
    BY <1>1, <1>9, <2>2, <2>3 DEF LedgerTypes, StripeTypes, RunTypes, ledgerVars
<1>10. ASSUME NEW c \in Calls, NEW t \in Tools, Call(c, t) PROVE LedgerTypes'
  BY <1>1, <1>2, <1>10 DEF Call
<1>11. CASE WeekEnds \/ UNCHANGED usageVars
  BY <1>1, <1>2, <1>11 DEF WeekEnds, usageVars, ledgerVars, stripeVars
<1>12. QED
  BY <1>3, <1>4, <1>5, <1>6, <1>7, <1>8, <1>9, <1>10, <1>11 DEF UsageNext, EventStep

(* The billing of the week. *)

Same(q) == run'[q].pc = run[q].pc /\ run'[q].sums = run[q].sums /\ run'[q].todo = run[q].todo

\* A step that leaves the items, the invoice's and the transactions' amounts alone, and
\* the runs that bill.
LEMMA BillFrame ==
    ASSUME LedgerTypes, BillInv, UNCHANGED <<call, rows, item, late>>, summed => summed',
           Recorded' = Recorded, \A t \in Tools : tx'[t].amount = tx[t].amount,
           invoice'.items = invoice.items, (invoice'.status = "none") = (invoice.status = "none"),
           ~monday' => NothingBilled',
           \A q \in Runs : Billing(q)' => Same(q),
           (done' /\ ~done) \/ (\E q \in Runs : run'[q].pc = "complete" /\ run[q].pc # "complete")
               => summed' /\ (~late => Booked)
    PROVE  BillInv'
<1>1. \A t : Made(t)' = Made(t) /\ Usage(t)' = Usage(t)
  BY UsageStays
<1>2. \A q \in Runs : Billing(q)' => Billing(q) /\ Billable(q)' = Billable(q)
  BY DEF Same, Billing, Billable
<1>3. ASSUME NEW q \in Runs, Billing(q)' PROVE SumsOf(q)'
  <2>1. Billing(q) /\ Same(q) /\ Billable(q)' = Billable(q) /\ SumsOf(q)
    BY <1>2, <1>3 DEF BillInv
  <2>2. QED
    BY <1>1, <2>1 DEF SumsOf, Same
<1>4. OneRecords'
  BY <1>2 DEF BillInv, OneRecords
<1>5. Booked' = Booked
  BY <1>1 DEF Booked
<1>6. TxAreItems'
  <2>1. Recorded' # {} \/ done' \/ (\E r \in Runs : run'[r].pc = "complete") => summed' /\ (~late' => Booked')
    BY <1>5, Zenon DEF BillInv, TxAreItems
  <2>2. /\ \A t \in Tools : item'[t] <= Made(t)'
        /\ \A t \in Tools \ Recorded' : tx'[t].amount = 0
        /\ \A t \in Recorded' : tx'[t].amount = item'[t] /\ item'[t] > 0 /\ Usage(t)' > 0
    BY <1>1 DEF BillInv, TxAreItems, Recorded
  <2>3. /\ Recorded' # {} => invoice'.status # "none"
        /\ invoice'.status # "none" => summed'
        /\ ~late' /\ invoice'.status # "none" => \A t \in Tools : Usage(t)' > 0 => t \in invoice'.items
    BY <1>1 DEF BillInv, TxAreItems
  <2>4. QED
    BY <2>1, <2>2, <2>3 DEF TxAreItems
<1>7. QED
  BY <1>3, <1>4, <1>6 DEF BillInv

\* Nothing is billed before the week is over, so that nobody is at work before.
LEMMA AtWorkOnMonday == ASSUME BillInv, NEW r \in Runs, run[r].pc # "idle" PROVE monday
BY DEF BillInv, NothingBilled

LEMMA LogBills ==
    ASSUME LedgerTypes, LedgerTypes', BillInv, NEW c \in Calls, LogStep(c)
    PROVE  BillInv'
<1>1. /\ \A d \in Calls : call'[d].tool = call[d].tool /\ rows[d] <= rows'[d]
      /\ UNCHANGED <<rows, late>> \/ (late \/ summed => late')
      /\ UNCHANGED <<monday, run, lock, done, stripeVars, handler, tx, summed>>
  BY LogDoes DEF LedgerTypes
<1>2. \A t : /\ Made(t)' = Made(t) /\ Usage(t) <= Usage(t)'
             /\ Usage(t) \in Nat /\ Usage(t)' \in Nat
  BY <1>1, UsageGrows, UsageBounds, UsageBoundsNext
<1>3. ASSUME summed, ~late' PROVE ~late /\ \A t : Usage(t)' = Usage(t)
  <2>1. UNCHANGED rows /\ ~late
    BY <1>1, <1>3
  <2>2. \A t : CallsOf(t)' = CallsOf(t)
    BY <1>1 DEF CallsOf
  <2>3. QED
    BY <2>1, <2>2 DEF Usage, Logs
<1>4. /\ item' = item /\ invoice' = invoice /\ Recorded' = Recorded
      /\ \A r \in Runs : Billing(r)' = Billing(r) /\ Billable(r)' = Billable(r)
  BY <1>1 DEF stripeVars, Recorded, Billing, Billable
<1>5. ASSUME NEW r \in Runs, Billing(r) PROVE SumsOf(r)'
  <2>1. SumsOf(r) /\ \A t \in Billable(r) : t \in Tools
    BY <1>5 DEF BillInv, Billable
  <2>2. \A t \in Billable(r) : Usage(t)' > 0
    BY <1>2, <2>1 DEF SumsOf
  <2>3. ~late' => \A t \in Tools : run'[r].sums[t] = Usage(t)'
    BY <1>1, <1>3, <2>1 DEF SumsOf
  <2>4. QED
    BY <1>1, <1>2, <1>4, <2>1, <2>2, <2>3 DEF SumsOf
<1>6. OneRecords'
  BY <1>4 DEF BillInv, OneRecords
<1>7. TxAreItems'
  <2>1. \A t \in Recorded : Usage(t)' > 0
    BY <1>2 DEF BillInv, TxAreItems, Recorded
  <2>2. summed /\ ~late' => (Booked => Booked')
    BY <1>1, <1>3 DEF Booked
  <2>3. ~late' /\ invoice.status # "none" => \A t \in Tools : Usage(t)' > 0 => t \in invoice.items
    BY <1>3 DEF BillInv, TxAreItems
  <2>4. Recorded # {} \/ done \/ (\E r \in Runs : run[r].pc = "complete") => summed /\ (~late' => Booked')
    BY <1>3, <2>2, Zenon DEF BillInv, TxAreItems
  <2>5. QED
    BY <1>1, <1>2, <1>4, <2>1, <2>3, <2>4 DEF BillInv, TxAreItems
<1>8. ~monday' => NothingBilled'
  BY <1>1, <1>4 DEF BillInv, NothingBilled
<1>9. QED
  BY <1>4, <1>5, <1>6, <1>7, <1>8 DEF BillInv

LEMMA CallBills ==
    ASSUME LedgerTypes, LedgerTypes', BillInv, NEW c \in Calls, NEW t \in Tools, Call(c, t)
    PROVE  BillInv'
<1>1. /\ ~monday /\ NothingBilled /\ TxAreItems
      /\ UNCHANGED <<monday, rows, run, done, stripeVars, tx, summed, late>>
  BY DEF Call, BillInv
<1>2. NothingBilled' /\ Recorded' = {}
  BY <1>1 DEF NothingBilled, stripeVars, Recorded
<1>3. \A r \in Runs : run'[r].pc = "idle"
  BY <1>2 DEF NothingBilled
<1>4. \A r \in Runs : ~Billing(r)'
  BY <1>3 DEF Billing
<1>5. \A u \in Tools : item'[u] <= Made(u)'
  BY <1>2, UsageBoundsNext DEF NothingBilled
<1>6. \A u \in Tools : tx'[u].amount = 0
  BY <1>1, <1>2 DEF TxAreItems, NothingBilled
<1>7. TxAreItems'
  BY <1>2, <1>3, <1>5, <1>6 DEF TxAreItems, NothingBilled
<1>8. QED
  BY <1>2, <1>4, <1>7 DEF BillInv, OneRecords

\* A run that finds nothing logged has nothing recorded, unless a log came late.
LEMMA NothingToBill ==
    ASSUME LedgerTypes, BillInv, \A t \in Tools : ~ (Usage(t) > 0)
    PROVE  Booked
<1>1. Recorded = {} /\ \A t \in Tools : tx[t].amount = 0
  BY DEF BillInv, TxAreItems, Recorded
<1>2. \A t \in Tools : Usage(t) = 0
  BY UsageBounds
<1>3. QED
  BY <1>1, <1>2 DEF Booked

LEMMA SumBills ==
    ASSUME LedgerTypes, BillInv, NEW r \in Runs, Sum(r), summed',
           UNCHANGED <<monday, ledgerVars, stripeVars, tx, done>>
    PROVE  BillInv'
<1>1. /\ OnlyRun(r) /\ run[r].pc = "sum" /\ run'[r].sums = [t \in Tools |-> Usage(t)]
      /\ run'[r].todo = {t \in Tools : Usage(t) > 0}
      /\ run'[r].pc = IF run'[r].todo = {} THEN "complete" ELSE "items"
  BY SumDoes DEF LedgerTypes
<1>2. monday /\ monday'
  BY <1>1, AtWorkOnMonday
<1>3. \A t : /\ Made(t)' = Made(t) /\ Usage(t)' = Usage(t) /\ Usage(t) <= Made(t)
             /\ Usage(t) \in Nat /\ Made(t) \in Nat
  BY UsageStays, UsageBounds DEF ledgerVars
<1>4. Recorded' = Recorded /\ item' = item /\ invoice' = invoice /\ late' = late /\ tx' = tx
  BY DEF Recorded, stripeVars, ledgerVars
<1>5. CASE run'[r].todo = {}
  <2>1. Booked
    BY <1>1, <1>5, NothingToBill
  <2>2. \A q \in Runs : Billing(q)' => Same(q)
    BY <1>1, <1>5 DEF OnlyRun, Billing, Same
  <2>3. QED
    BY <1>2, <1>4, <2>1, <2>2, BillFrame DEF ledgerVars
<1>6. CASE run'[r].todo # {}
  <2>1. /\ Billable(r)' = {t \in Tools : Usage(t) > 0} /\ run'[r].pc = "items"
        /\ \A q \in Runs \ {r} : Billing(q)' = Billing(q) /\ Billable(q)' = Billable(q)
    BY <1>1, <1>6 DEF OnlyRun, Billing, Billable
  <2>2. SumsOf(r)'
    BY <1>1, <1>3, <1>6, <2>1 DEF SumsOf
  <2>3. ASSUME NEW q \in Runs \ {r}, Billing(q) PROVE SumsOf(q)' /\ Billable(q) \subseteq Billable(r)'
    <3>1. SumsOf(q) /\ run'[q] = run[q] /\ Billable(q)' = Billable(q) /\ Billable(q) \subseteq Tools
      BY <1>1, <2>1, <2>3 DEF OnlyRun, BillInv, Billable
    <3>2. SumsOf(q)'
      BY <1>3, <1>4, <3>1 DEF SumsOf
    <3>3. QED
      BY <2>1, <3>1, <3>2 DEF SumsOf
  <2>4. OneRecords'
    <3>1. Billable(r)' # {} /\ Recorded \subseteq Billable(r)'
      BY <1>1, <1>6, <2>1 DEF BillInv, TxAreItems, Recorded
    <3>2. \A q \in Runs \ {r} : Billing(q) => Billable(q) # {}
      BY DEF BillInv, SumsOf
    <3>3. QED
      BY <1>4, <2>1, <2>3, <3>1, <3>2 DEF BillInv, OneRecords
  <2>5. TxAreItems'
    <3>1. \A q \in Runs : run'[q].pc = "complete" => run[q].pc = "complete"
      BY <1>1, <2>1 DEF OnlyRun
    <3>2. Booked' = Booked
      BY <1>3, <1>4 DEF Booked
    <3>3. Recorded' # {} \/ done' \/ (\E q \in Runs : run'[q].pc = "complete") => summed' /\ (~late' => Booked')
      BY <1>4, <3>1, <3>2, Zenon DEF BillInv, TxAreItems
    <3>4. QED
      BY <1>3, <1>4, <3>3 DEF BillInv, TxAreItems
  <2>6. QED
    BY <1>2, <2>1, <2>2, <2>3, <2>4, <2>5 DEF BillInv
<1>7. QED
  BY <1>5, <1>6

LEMMA CreateItemBills ==
    ASSUME LedgerTypes, BillInv, NEW r \in Runs, NEW t \in Tools, CreateItem(r, t),
           UNCHANGED <<monday, ledgerVars, tx, done, summed>>
    PROVE  BillInv'
<1>1. OnlyRun(r) /\ run[r].pc = "items" /\ t \in run[r].todo /\ UNCHANGED invoice
  BY CreateItemDoes DEF LedgerTypes, CreateItem
<1>2. monday /\ monday' /\ SumsOf(r) /\ Billing(r)
  BY <1>1, AtWorkOnMonday DEF BillInv, Billing
<1>3. Recorded' = Recorded /\ late' = late
  BY DEF Recorded, ledgerVars
<1>4. CASE RunLeaves(r, "items", "release") /\ UNCHANGED item
  <2>1. run'[r].pc = "release"
    BY <1>4, Left DEF LedgerTypes
  <2>2. \A q \in Runs : Billing(q)' => Same(q)
    BY <1>1, <2>1 DEF OnlyRun, Billing, Same
  <2>3. \A q \in Runs : run'[q].pc = "complete" => run[q].pc = "complete"
    BY <1>1, <2>1 DEF OnlyRun
  <2>4. QED
    BY <1>1, <1>2, <1>3, <1>4, <2>2, <2>3, BillFrame DEF ledgerVars
<1>5. CASE ~ (RunLeaves(r, "items", "release") /\ UNCHANGED item)
  <2>1. /\ item[t] \in {0, run[r].sums[t]} /\ item' = [item EXCEPT ![t] = run[r].sums[t]]
        /\ run'[r].todo = run[r].todo \ {t} /\ run'[r].sums = run[r].sums
        /\ run'[r].pc = IF run'[r].todo = {} THEN "create" ELSE "items"
    BY <1>5, CreateItemDoes DEF LedgerTypes
  <2>2. t \in Billable(r) /\ run[r].sums[t] \in Nat /\ run[r].sums[t] > 0 /\ run[r].sums[t] <= Made(t)
    BY <1>1, <1>2 DEF SumsOf, Billable, LedgerTypes, RunTypes
  <2>3. /\ item'[t] = run[r].sums[t] /\ \A u \in Tools \ {t} : item'[u] = item[u]
        /\ item[t] > 0 => item'[t] = item[t]
    BY <2>1 DEF LedgerTypes, StripeTypes
  <2>4. \A u : Made(u)' = Made(u) /\ Usage(u)' = Usage(u)
    BY UsageStays DEF ledgerVars
  <2>5. \A q \in Runs : Billing(q)' = Billing(q) /\ Billable(q)' = Billable(q)
    BY <1>1, <2>1 DEF OnlyRun, Billing, Billable
  <2>6. ASSUME NEW q \in Runs \ {r}, Billing(q) PROVE SumsOf(q)'
    <3>1. run'[q] = run[q] /\ SumsOf(q) /\ Billable(q)' = Billable(q)
      BY <1>1, <2>5, <2>6 DEF OnlyRun, BillInv
    <3>2. \A u \in Billable(q) : u \in Tools /\ run[q].sums[u] > 0 /\ (item[u] = run[q].sums[u] => item'[u] = item[u])
      BY <2>3 DEF Billable
    <3>3. QED
      BY <1>1, <1>3, <2>4, <3>1, <3>2 DEF SumsOf
  <2>7. SumsOf(r)'
    <3>1. \A u \in Billable(r) : u \in Tools /\ run[r].sums[u] > 0 /\ (item[u] = run[r].sums[u] => item'[u] = item[u])
      BY <2>3 DEF Billable
    <3>2. /\ run'[r].pc # "commit"
          /\ run'[r].pc = "items" => run'[r].todo # {} /\ run'[r].todo \subseteq Billable(r)
      BY <1>1, <1>2, <2>1 DEF SumsOf
    <3>3. \A u \in Billable(r) : run'[r].pc # "items" \/ u \notin run'[r].todo => item'[u] = run[r].sums[u]
      BY <1>1, <1>2, <2>1, <2>3, <3>1 DEF SumsOf
    <3>4. QED
      BY <1>2, <1>3, <2>1, <2>4, <2>5, <3>2, <3>3 DEF SumsOf
  <2>8. OneRecords'
    BY <1>3, <2>5 DEF BillInv, OneRecords
  <2>9. TxAreItems'
    <3>1. \A u \in Tools : item'[u] <= Made(u)'
      BY <2>2, <2>3, <2>4 DEF BillInv, TxAreItems
    <3>2. \A u \in Recorded' : tx'[u].amount = item'[u] /\ item'[u] > 0 /\ Usage(u)' > 0
      BY <1>3, <2>3, <2>4 DEF BillInv, TxAreItems, Recorded
    <3>3. \A q \in Runs : run'[q].pc = "complete" => run[q].pc = "complete"
      BY <1>1, <2>1 DEF OnlyRun
    <3>4. Booked' = Booked
      BY <2>4 DEF Booked
    <3>5. Recorded' # {} \/ done' \/ (\E q \in Runs : run'[q].pc = "complete") => summed' /\ (~late' => Booked')
      BY <1>3, <3>3, <3>4, Zenon DEF BillInv, TxAreItems
    <3>6. QED
      BY <1>1, <1>3, <2>4, <3>1, <3>2, <3>5 DEF BillInv, TxAreItems
  <2>10. QED
    BY <1>2, <2>5, <2>6, <2>7, <2>8, <2>9 DEF BillInv
<1>6. QED
  BY <1>4, <1>5

LEMMA CreateInvoiceBills ==
    ASSUME LedgerTypes, BillInv, NEW r \in Runs, CreateInvoice(r),
           UNCHANGED <<monday, ledgerVars, tx, done, summed>>
    PROVE  BillInv'
<1>1. /\ OnlyRun(r) /\ run[r].pc = "create" /\ run'[r].pc = "commit"
      /\ run'[r].sums = run[r].sums /\ run'[r].todo = run[r].todo
  BY CreateInvoiceDoes DEF LedgerTypes
<1>2. monday /\ monday' /\ SumsOf(r) /\ Billing(r) /\ item' = item
  BY <1>1, AtWorkOnMonday DEF BillInv, Billing, CreateInvoice
<1>3. Recorded' = Recorded /\ late' = late /\ \A u : Made(u)' = Made(u) /\ Usage(u)' = Usage(u)
  BY UsageStays DEF Recorded, ledgerVars
<1>4. /\ invoice'.status # "none"
      /\ invoice.status # "none" => invoice' = invoice
      /\ invoice.status = "none" => invoice'.items = {t \in Tools : item[t] > 0}
  BY DEF CreateInvoice, LedgerTypes, StripeTypes
<1>5. \A q \in Runs : Billing(q)' = Billing(q) /\ Billable(q)' = Billable(q)
  BY <1>1 DEF OnlyRun, Billing, Billable
<1>6. ASSUME NEW q \in Runs, Billing(q) PROVE SumsOf(q)'
  <2>1. /\ SumsOf(q) /\ Billable(q)' = Billable(q) /\ run'[q].sums = run[q].sums
        /\ run'[q].todo = run[q].todo
        /\ run'[q].pc = run[q].pc \/ (run[q].pc # "items" /\ run'[q].pc # "items")
    BY <1>1, <1>5, <1>6 DEF OnlyRun, BillInv
  <2>2. QED
    BY <1>2, <1>3, <1>4, <2>1 DEF SumsOf
<1>7. OneRecords'
  BY <1>3, <1>5 DEF BillInv, OneRecords
<1>8. TxAreItems'
  <2>1. ~late => \A t \in Tools : Usage(t) > 0 => t \in invoice'.items
    <3>1. ASSUME ~late, NEW t \in Tools, Usage(t) > 0, invoice.status = "none"
          PROVE  item[t] > 0
      <4>1. run[r].sums[t] = Usage(t) /\ t \in Billable(r)
        BY <1>2, <3>1 DEF SumsOf, Billable
      <4>2. QED
        BY <1>1, <1>2, <3>1, <4>1 DEF SumsOf
    <3>2. QED
      BY <1>4, <3>1 DEF BillInv, TxAreItems
  <2>2. \A q \in Runs : run'[q].pc = "complete" => run[q].pc = "complete"
    BY <1>1 DEF OnlyRun
  <2>3. Booked' = Booked
    BY <1>3 DEF Booked
  <2>4. Recorded' # {} \/ done' \/ (\E q \in Runs : run'[q].pc = "complete") => summed' /\ (~late' => Booked')
    BY <1>3, <2>2, <2>3, Zenon DEF BillInv, TxAreItems
  <2>5. QED
    BY <1>2, <1>3, <1>4, <2>1, <2>4 DEF BillInv, TxAreItems, SumsOf
<1>9. QED
  BY <1>2, <1>5, <1>6, <1>7, <1>8 DEF BillInv

LEMMA CommitBills ==
    ASSUME LedgerTypes, BillInv, NEW r \in Runs, CommitTransactions(r),
           UNCHANGED <<monday, ledgerVars, stripeVars, done, summed>>
    PROVE  BillInv' /\ (Recorded' = Recorded \/ Recorded = {}) /\ Recorded' # {}
<1>1. OnlyRun(r) /\ run[r].pc = "commit"
  BY CommitDoes DEF LedgerTypes
<1>2. monday /\ monday' /\ SumsOf(r) /\ Billing(r) /\ Billable(r) \subseteq Tools
  BY <1>1, AtWorkOnMonday DEF BillInv, Billing, Billable
<1>3. item' = item /\ invoice' = invoice /\ late' = late /\ \A u : Made(u)' = Made(u) /\ Usage(u)' = Usage(u)
  BY UsageStays DEF ledgerVars, stripeVars
<1>4. CASE RunLeaves(r, "commit", "existing") /\ UNCHANGED tx
  <2>1. run'[r].pc = "existing" /\ Recorded' = Recorded /\ Billable(r) \intersect Recorded # {}
    <3>1. run'[r].pc = "existing"
      BY <1>4, Left DEF LedgerTypes
    <3>2. QED
      BY <1>4, <3>1, CommitDoes DEF LedgerTypes, Recorded
  <2>2. \A q \in Runs : Billing(q)' => Same(q)
    BY <1>1, <2>1 DEF OnlyRun, Billing, Same
  <2>3. \A q \in Runs : run'[q].pc = "complete" => run[q].pc = "complete"
    BY <1>1, <2>1 DEF OnlyRun
  <2>4. BillInv'
    BY <1>2, <1>3, <1>4, <2>1, <2>2, <2>3, BillFrame DEF ledgerVars
  <2>5. QED
    BY <2>1, <2>4
<1>5. CASE ~ (RunLeaves(r, "commit", "existing") /\ UNCHANGED tx)
  <2>1. /\ Billable(r) \intersect Recorded = {} /\ run'[r].pc = "finalize"
        /\ tx' = [t \in Tools |-> IF t \in Billable(r)
                                  THEN [amount |-> run[r].sums[t], status |-> "pending"]
                                  ELSE tx[t]]
    BY <1>5, CommitDoes DEF LedgerTypes
  <2>2. Recorded = {}
    BY <1>2, <2>1 DEF BillInv, OneRecords
  <2>3. \A t \in Tools : IF t \in Billable(r) THEN tx'[t].amount = run[r].sums[t] /\ tx'[t].status = "pending"
                         ELSE tx'[t] = tx[t]
    BY <2>1
  <2>4. Recorded' = Billable(r) /\ Billable(r) # {}
    BY <1>2, <2>2, <2>3 DEF Recorded, SumsOf
  <2>5. \A q \in Runs : Billing(q)' => q # r /\ Billing(q) /\ Billable(q)' = Billable(q) /\ run'[q] = run[q]
    BY <1>1, <2>1 DEF OnlyRun, Billing, Billable
  <2>6. ASSUME NEW q \in Runs, Billing(q)' PROVE SumsOf(q)'
    <3>1. /\ SumsOf(q) /\ Billable(q)' = Billable(q) /\ run'[q] = run[q]
      BY <2>5, <2>6 DEF BillInv
    <3>2. QED
      BY <1>3, <3>1 DEF SumsOf
  <2>7. OneRecords'
    BY <1>2, <2>4, <2>5 DEF BillInv, OneRecords
  <2>8. TxAreItems'
    <3>1. \A t \in Recorded' : tx'[t].amount = item'[t] /\ item'[t] > 0 /\ Usage(t)' > 0
      <4>1. ASSUME NEW t \in Billable(r) PROVE tx'[t].amount = item[t] /\ item[t] > 0 /\ Usage(t) > 0
        BY <1>1, <1>2, <2>3 DEF SumsOf, Billable
      <4>2. QED
        BY <1>3, <2>4, <4>1
    <3>2. \A t \in Tools \ Recorded' : tx'[t].amount = 0
      BY <2>2, <2>3, <2>4 DEF BillInv, TxAreItems
    <3>3. ~late => \A t \in Tools : tx'[t].amount = Usage(t)
      <4>1. ASSUME ~late, NEW t \in Tools PROVE tx'[t].amount = Usage(t)
        <5>1. run[r].sums[t] = Usage(t) /\ run[r].sums[t] \in Nat
          BY <1>2, <4>1 DEF SumsOf, LedgerTypes, RunTypes
        <5>2. CASE t \in Billable(r)
          BY <2>3, <5>1, <5>2
        <5>3. CASE t \notin Billable(r)
          BY <2>4, <3>2, <5>1, <5>3 DEF Billable
        <5>4. QED
          BY <5>2, <5>3
      <4>2. QED
        BY <4>1
    <3>4. ~late' => Booked'
      BY <1>3, <3>3 DEF Booked
    <3>5. summed /\ summed' /\ invoice'.status # "none"
      BY <1>1, <1>2, <1>3 DEF SumsOf
    <3>6. QED
      BY <1>3, <3>1, <3>2, <3>4, <3>5 DEF BillInv, TxAreItems
  <2>9. QED
    BY <1>2, <2>2, <2>4, <2>6, <2>7, <2>8 DEF BillInv
<1>6. QED
  BY <1>4, <1>5

\* A flush of rows that exist records nothing new.
LEMMA FlushRecords ==
    ASSUME LedgerTypes, NEW loaded, \A t \in Tools : loaded[t] # "none" => t \in Recorded,
           NEW status \in TxStatus \ {"none"}, tx' = Flush(loaded, status)
    PROVE  Recorded' = Recorded /\ \A t \in Tools : tx'[t].amount = tx[t].amount
<1>1. \A t \in Tools :
         /\ tx'[t].amount = tx[t].amount
         /\ tx'[t].status = IF loaded[t] \in {"none", status} THEN tx[t].status ELSE status
  BY FlushDoes DEF LedgerTypes
<1>2. QED
  BY <1>1 DEF Recorded

\* The steps of a run that neither read the week's logs nor bill them.
LEMMA SettlementBills ==
    ASSUME LedgerTypes, BillInv, PayInv, NEW r \in Runs,
           \/ Existing(r) /\ UNCHANGED <<stripeVars, tx, summed>>
           \/ Users(r) /\ UNCHANGED <<stripeVars, tx>>
           \/ (Retrieve(r) \/ Finalize(r) \/ Pay(r)) /\ UNCHANGED <<tx, summed>>
           \/ Load(r) /\ UNCHANGED <<stripeVars, tx, summed>>
           \/ Sync(r) /\ UNCHANGED <<stripeVars, summed>>,
           UNCHANGED <<monday, ledgerVars, done>>
    PROVE  BillInv' /\ Recorded' = Recorded
<1>1. RunShapes
  BY DEF LedgerTypes
<1>2. ASSUME OnlyRun(r), run[r].pc # "idle", run'[r].pc \notin {"items", "create", "commit"},
             UNCHANGED item, summed => summed',
             Recorded' = Recorded, \A t \in Tools : tx'[t].amount = tx[t].amount,
             invoice'.items = invoice.items, (invoice'.status = "none") = (invoice.status = "none"),
             run'[r].pc = "complete" => summed' /\ (~late => Booked)
      PROVE  BillInv' /\ Recorded' = Recorded
  <2>1. monday'
    BY <1>2, AtWorkOnMonday
  <2>2. \A q \in Runs : Billing(q)' => Same(q)
    BY <1>2 DEF OnlyRun, Billing, Same
  <2>3. (\E q \in Runs : run'[q].pc = "complete" /\ run[q].pc # "complete") => summed' /\ (~late => Booked)
    BY <1>2 DEF OnlyRun
  <2>4. QED
    BY <1>2, <2>1, <2>2, <2>3, BillFrame DEF ledgerVars
<1>3. CASE Existing(r) /\ UNCHANGED <<stripeVars, tx, summed>>
  <2>1. OnlyRun(r) /\ run[r].pc = "existing" /\ run'[r].pc \in {"retrieve", "sum"}
    BY <1>1, <1>3, ExistingDoes
  <2>2. QED
    BY <1>2, <1>3, <2>1 DEF stripeVars, Recorded
<1>4. CASE Users(r) /\ UNCHANGED <<stripeVars, tx>>
  <2>1. /\ OnlyRun(r) /\ run[r].pc = "users"
        /\ \/ run'[r].pc = "existing" /\ summed' = summed
           \/ run'[r].pc = "complete" /\ summed' = TRUE /\ \A c \in Calls : rows[c] = 0
    BY <1>1, <1>4, Moved DEF Users, OnlyRun
  <2>2. run'[r].pc = "complete" => Booked
    <3>1. ASSUME \A c \in Calls : rows[c] = 0 PROVE \A t \in Tools : ~ (Usage(t) > 0)
      BY <3>1, NoUsage
    <3>2. QED
      BY <2>1, <3>1, NothingToBill
  <2>3. QED
    BY <1>2, <1>4, <2>1, <2>2 DEF stripeVars, Recorded
<1>5. CASE (Retrieve(r) \/ Load(r)) /\ UNCHANGED <<stripeVars, tx, summed>>
  <2>1. /\ OnlyRun(r) /\ run[r].pc # "idle"
        /\ run'[r].pc \in {"finalize", "pay", "load", "sync"}
    BY <1>1, <1>5, RetrieveDoes, LoadDoes
  <2>2. QED
    BY <1>2, <1>5, <2>1 DEF stripeVars, Recorded
<1>6. CASE Finalize(r) /\ UNCHANGED <<tx, summed>>
  <2>1. OnlyRun(r) /\ run[r].pc = "finalize" /\ run'[r].pc = "pay"
    BY <1>1, <1>6, FinalizeDoes
  <2>2. /\ item' = item /\ invoice'.items = invoice.items
        /\ (invoice'.status = "none") = (invoice.status = "none")
    BY <1>6 DEF Finalize, LedgerTypes, StripeTypes
  <2>3. QED
    BY <1>2, <1>6, <2>1, <2>2 DEF Recorded
<1>7. CASE Pay(r) /\ UNCHANGED <<tx, summed>>
  <2>1. OnlyRun(r) /\ run[r].pc = "pay" /\ run'[r].pc \in {"load", "sync", "release"} /\ UNCHANGED item
    BY <1>1, <1>7, PayDoes, Left
  <2>2. /\ invoice'.items = invoice.items
        /\ (invoice'.status = "none") = (invoice.status = "none")
    BY <1>7 DEF Pay, LedgerTypes, StripeTypes
  <2>3. QED
    BY <1>2, <1>7, <2>1, <2>2 DEF Recorded
<1>8. CASE Sync(r) /\ UNCHANGED <<stripeVars, summed>>
  <2>1. /\ tx' = Flush(run[r].loaded, SyncStatus(run[r].seen))
        /\ OnlyRun(r) /\ run[r].pc = "sync" /\ run'[r].pc = "complete"
    BY <1>1, <1>8, Left DEF Sync, OnlyRun
  <2>2. SyncStatus(run[r].seen) \in TxStatus \ {"none"}
    BY DEF SyncStatus, TxStatus
  <2>3. Recorded' = Recorded /\ \A t \in Tools : tx'[t].amount = tx[t].amount
    BY <2>1, <2>2, FlushRecords DEF PayInv, RunKnows, EventKnows
  <2>4. summed /\ (~late => Booked)
    <3>1. Recorded # {}
      BY <2>1 DEF PayInv, RunKnows, EventKnows, Settling
    <3>2. QED
      BY <3>1, Zenon DEF BillInv, TxAreItems
  <2>5. QED
    BY <1>2, <1>8, <2>1, <2>3, <2>4 DEF stripeVars
<1>9. QED
  BY <1>3, <1>4, <1>5, <1>6, <1>7, <1>8 DEF Retrieve

LEMMA BillStep ==
    ASSUME LedgerTypes, LedgerTypes', BillInv, PayInv, [UsageNext]_usageVars
    PROVE  BillInv'
<1>1. ASSUME NEW r \in Runs, LockStep(r) \/ RunCrash(r) PROVE BillInv'
  <2>1. OutOfTask(r) /\ UNCHANGED <<monday, ledgerVars, stripeVars, tx, summed>>
    BY <1>1, LockStepsAreOut DEF LedgerTypes, LockStep, RunCrash
  <2>2. \A q \in Runs : Billing(q)' \/ run'[q].pc = "complete" => run'[q] = run[q]
    BY <2>1 DEF OutOfTask, Billing, TaskSteps
  <2>3. done' /\ ~done => summed /\ (~late => Booked)
    <3>1. ASSUME done', ~done PROVE \E q \in Runs : run[q].pc = "complete"
      BY <1>1, <3>1 DEF LockStep, RunCrash, BeginRun, Acquire, Recheck, Complete, Release, RunRaises, RunMoves
    <3>2. QED
      BY <3>1, Zenon DEF BillInv, TxAreItems
  <2>4. monday \/ (run[r].pc = "idle" /\ ~BeginRun(r))
    BY <1>1, AtWorkOnMonday DEF BeginRun
  <2>5. monday'
    <3>1. CASE run[r].pc = "idle" /\ ~BeginRun(r)
      BY <1>1, <3>1 DEF LockStep, RunCrash, Acquire, Recheck, Complete, Release, RunRaises, RunMoves, InTask, TaskSteps
    <3>2. QED
      BY <2>1, <2>4, <3>1
  <2>6. \A q \in Runs : Billing(q)' => Same(q)
    BY <2>2 DEF Same
  <2>7. QED
    BY <2>1, <2>2, <2>3, <2>5, <2>6, BillFrame DEF ledgerVars, stripeVars, Recorded
<1>2. ASSUME NEW r \in Runs, InvoiceStep(r) PROVE BillInv'
  <2>1. UNCHANGED <<monday, ledgerVars, done>>
    BY <1>2 DEF InvoiceStep
  <2>2. CASE Sum(r) /\ summed' = TRUE /\ UNCHANGED <<stripeVars, tx>>
    BY <2>1, <2>2, SumBills
  <2>3. CASE (\E t \in Tools : CreateItem(r, t)) /\ UNCHANGED <<tx, summed>>
    BY <2>1, <2>3, CreateItemBills
  <2>4. CASE CreateInvoice(r) /\ UNCHANGED <<tx, summed>>
    BY <2>1, <2>4, CreateInvoiceBills
  <2>5. CASE CommitTransactions(r) /\ UNCHANGED <<stripeVars, summed>>
    BY <2>1, <2>5, CommitBills
  <2>6. QED
    BY <1>2, <2>1, <2>2, <2>3, <2>4, <2>5, SettlementBills DEF InvoiceStep
<1>3. CASE LockExpires
  <2>1. UNCHANGED <<monday, ledgerVars, stripeVars, tx, summed, done>>
    BY <1>3 DEF LockExpires
  <2>2. \A q \in Runs : Same(q)
    <3>1. CASE UNCHANGED run
      BY <3>1 DEF Same
    <3>2. CASE run' = [run EXCEPT ![lock].lapsed = TRUE]
      BY <3>2 DEF LedgerTypes, RunShapes, RunFields, Same
    <3>3. QED
      BY <1>3, <3>1, <3>2 DEF LockExpires
  <2>3. ~monday' => NothingBilled'
    BY <2>1, <2>2 DEF BillInv, NothingBilled, Recorded, Same, stripeVars
  <2>4. \A q \in Runs : run'[q].pc = run[q].pc
    BY <2>2 DEF Same
  <2>5. QED
    BY <2>1, <2>2, <2>3, <2>4, BillFrame DEF ledgerVars, stripeVars, Recorded
<1>4. CASE StripeCloses
  <2>1. /\ UNCHANGED <<monday, ledgerVars, item, run, tx, summed, done>>
        /\ invoice'.items = invoice.items /\ invoice'.status # "none" /\ invoice.status = "open"
    BY <1>4 DEF StripeCloses, LedgerTypes, StripeTypes
  <2>2. monday
    BY <2>1 DEF BillInv, NothingBilled
  <2>3. \A q \in Runs : Same(q)
    BY <2>1 DEF Same
  <2>4. QED
    BY <2>1, <2>2, <2>3, BillFrame DEF ledgerVars, Recorded
<1>5. CASE EventStep
  <2>1. UNCHANGED <<monday, ledgerVars, item, invoice, run, summed, done>>
    BY <1>5 DEF EventStep
  <2>2. Recorded' = Recorded /\ \A t \in Tools : tx'[t].amount = tx[t].amount
    <3>1. \/ UNCHANGED tx
          \/ \E status \in {"completed", "failed"} : tx' = Flush(handler.loaded, status)
      BY <1>5 DEF EventStep, TakeEvent, HandleEvent
    <3>2. CASE UNCHANGED tx
      BY <3>2 DEF Recorded
    <3>3. CASE \E status \in {"completed", "failed"} : tx' = Flush(handler.loaded, status)
      BY <3>3, FlushRecords DEF PayInv, RunKnows, EventKnows, TxStatus
    <3>4. QED
      BY <3>1, <3>2, <3>3
  <2>3. ~monday' => NothingBilled'
    BY <2>1, <2>2 DEF BillInv, NothingBilled
  <2>4. \A q \in Runs : Same(q)
    BY <2>1 DEF Same
  <2>5. QED
    BY <2>1, <2>2, <2>3, <2>4, BillFrame DEF ledgerVars
<1>6. CASE WeekEnds \/ UNCHANGED usageVars
  <2>1. UNCHANGED <<ledgerVars, stripeVars, run, summed, done, tx>> /\ (monday' = TRUE \/ UNCHANGED monday)
    BY <1>6 DEF WeekEnds, usageVars, ledgerVars, stripeVars
  <2>2. ~monday' => NothingBilled'
    BY <2>1 DEF BillInv, NothingBilled, Recorded, stripeVars
  <2>3. \A q \in Runs : Same(q)
    BY <2>1 DEF Same
  <2>4. QED
    BY <2>1, <2>2, <2>3, BillFrame DEF ledgerVars, stripeVars, Recorded
<1>7. QED
  BY <1>1, <1>2, <1>3, <1>4, <1>5, <1>6, LogBills, CallBills DEF UsageNext

(* The payment of the invoice. *)

\* A step that leaves the invoice, its events and the transactions alone.
LEMMA PayFrame ==
    ASSUME PayInv, UNCHANGED <<invoice, event, handler, tx>>, \A q \in Runs : RunKnows(q)'
    PROVE  PayInv'
<1>1. EventKnows'
  BY DEF PayInv, EventKnows, Recorded
<1>2. PaymentIsRecorded'
  BY DEF PayInv, PaymentIsRecorded, Recorded
<1>3. QED
  BY <1>1, <1>2 DEF PayInv

LEMMA RunKnowsStill ==
    ASSUME PayInv, UNCHANGED <<invoice, tx>>, NEW q \in Runs,
           run'[q].pc = run[q].pc, run'[q].loaded = run[q].loaded, run'[q].seen = run[q].seen
    PROVE  RunKnows(q)'
BY DEF PayInv, RunKnows, Settling, Recorded

\* One run moves, and the others know what they knew.
LEMMA OneMoves ==
    ASSUME PayInv, NEW r \in Runs, OnlyRun(r), UNCHANGED <<invoice, event, handler, tx>>, RunKnows(r)'
    PROVE  PayInv'
<1>1. \A q \in Runs \ {r} : RunKnows(q)'
  BY RunKnowsStill DEF OnlyRun
<1>2. QED
  BY <1>1, PayFrame

\* A run that is not settling the week, and knows what it knew or nothing.
LEMMA NotSettling ==
    ASSUME PayInv, NEW r \in Runs, UNCHANGED <<invoice, tx>>, ~Settling(r)',
           \/ run'[r].seen = run[r].seen /\ run'[r].loaded = run[r].loaded
           \/ run'[r].seen = "none" /\ run'[r].loaded = [t \in Tools |-> "none"]
    PROVE  RunKnows(r)'
BY DEF PayInv, RunKnows, Settling, Recorded

\* Nobody has seen an open invoice closed.
LEMMA OpenIsUnseen ==
    ASSUME PayInv, invoice.status = "open"
    PROVE  /\ \A q \in Runs : run[q].seen \notin {"paid", "void"}
           /\ "paid" \notin event /\ handler.kind # "paid" /\ invoice.paid # "paid" /\ Recorded # {}
           /\ \A t \in Tools : tx[t].status # "completed"
BY DEF PayInv, RunKnows, EventKnows, PaymentIsRecorded

LEMMA InvoiceCloses ==
    ASSUME LedgerTypes, PayInv, invoice.status = "open",
           \/ invoice' = [invoice EXCEPT !.status = "paid"] /\ event' = event \union {"paid"}
           \/ invoice' = [invoice EXCEPT !.status = "void"] /\ UNCHANGED event,
           UNCHANGED <<run, handler, tx>>
    PROVE  PayInv'
<1>1. /\ invoice'.status \in {"paid", "void"} /\ invoice'.paid = invoice.paid
      /\ event' = event \/ (invoice'.status = "paid" /\ event' = event \union {"paid"})
      /\ Recorded' = Recorded
      /\ invoice'.status = "paid" => "paid" \in event'
  BY DEF LedgerTypes, StripeTypes, Recorded
<1>2. \A q \in Runs : RunKnows(q)'
  BY <1>1, OpenIsUnseen DEF PayInv, RunKnows, Settling
<1>3. EventKnows'
  BY <1>1, OpenIsUnseen DEF PayInv, EventKnows
<1>4. PaymentIsRecorded'
  BY <1>1, OpenIsUnseen DEF PaymentIsRecorded
<1>5. QED
  BY <1>2, <1>3, <1>4 DEF PayInv

LEMMA CreateInvoicePays ==
    ASSUME LedgerTypes, BillInv, PayInv, NEW r \in Runs, CreateInvoice(r), UNCHANGED <<handler, tx>>
    PROVE  PayInv'
<1>1. /\ OnlyRun(r) /\ run'[r].pc = "commit" /\ run'[r].seen = "draft"
      /\ run'[r].loaded = run[r].loaded
  BY CreateInvoiceDoes DEF LedgerTypes
<1>2. /\ invoice'.paid = invoice.paid /\ event' = event /\ Recorded' = Recorded
      /\ invoice'.status = invoice.status \/ (invoice.status = "none" /\ invoice'.status = "draft")
  BY DEF CreateInvoice, LedgerTypes, StripeTypes, Recorded
<1>3. \A q \in Runs : RunKnows(q)'
  <2>1. RunKnows(r)'
    BY <1>1, <1>2 DEF PayInv, RunKnows, Settling
  <2>2. \A q \in Runs \ {r} : RunKnows(q)'
    BY <1>1, <1>2 DEF PayInv, RunKnows, Settling, OnlyRun
  <2>3. QED
    BY <2>1, <2>2
<1>4. EventKnows'
  BY <1>2 DEF PayInv, EventKnows
<1>5. PaymentIsRecorded'
  BY <1>2 DEF PayInv, PaymentIsRecorded
<1>6. QED
  BY <1>3, <1>4, <1>5 DEF PayInv

LEMMA CommitPays ==
    ASSUME LedgerTypes, LedgerTypes', BillInv, PayInv, NEW r \in Runs, CommitTransactions(r),
           Recorded' = Recorded \/ Recorded = {}, Recorded' # {},
           UNCHANGED <<stripeVars, handler>>
    PROVE  PayInv'
<1>1. OnlyRun(r) /\ UNCHANGED <<invoice, event, handler>>
  BY CommitDoes DEF LedgerTypes, stripeVars
<1>2. CASE RunLeaves(r, "commit", "existing") /\ UNCHANGED tx
  <2>1. /\ run'[r].pc = "existing" /\ run'[r].seen = "none"
        /\ run'[r].loaded = [t \in Tools |-> "none"]
    BY <1>2, Left DEF LedgerTypes
  <2>2. RunKnows(r)'
    BY <2>1 DEF RunKnows, Settling
  <2>3. QED
    BY <1>1, <1>2, <2>2, OneMoves
<1>3. CASE ~ (RunLeaves(r, "commit", "existing") /\ UNCHANGED tx)
  <2>1. /\ Billable(r) \intersect Recorded = {} /\ run'[r].pc = "finalize"
        /\ run'[r].loaded = [t \in Tools |-> tx'[t].status] /\ run'[r].seen = run[r].seen
        /\ tx' = [t \in Tools |-> IF t \in Billable(r)
                                  THEN [amount |-> run[r].sums[t], status |-> "pending"]
                                  ELSE tx[t]]
    BY <1>3, CommitDoes DEF LedgerTypes
  <2>2. Recorded = {}
    <3>1. Billing(r) /\ run[r].pc = "commit"
      BY CommitDoes DEF Billing, LedgerTypes
    <3>2. QED
      BY <2>1, <3>1 DEF BillInv, OneRecords
  <2>3. /\ invoice.status \in {"none", "draft"} /\ invoice.paid = "none"
        /\ handler = NoEvent /\ handler.kind = "none"
    BY <2>2 DEF PayInv, EventKnows, LedgerTypes, StripeTypes
  <2>4. \A t \in Tools : tx'[t].status \in {"pending", tx[t].status}
    BY <2>1
  <2>5. RunKnows(r)'
    BY <1>1, <2>1 DEF PayInv, RunKnows, Recorded
  <2>6. \A q \in Runs \ {r} : RunKnows(q)'
    BY <1>1, <2>2 DEF PayInv, RunKnows, OnlyRun, Settling
  <2>7. EventKnows'
    BY <1>1, <2>2, <2>3 DEF PayInv, EventKnows
  <2>8. PaymentIsRecorded'
    BY <1>1, <2>3, <2>4 DEF PayInv, PaymentIsRecorded
  <2>9. QED
    BY <2>5, <2>6, <2>7, <2>8 DEF PayInv
<1>4. QED
  BY <1>2, <1>3

LEMMA FinalizePays ==
    ASSUME LedgerTypes, PayInv, NEW r \in Runs, Finalize(r), UNCHANGED <<handler, tx>>
    PROVE  PayInv'
<1>1. /\ OnlyRun(r) /\ run[r].pc = "finalize" /\ run'[r].pc = "pay" /\ run'[r].seen = "open"
      /\ run'[r].loaded = run[r].loaded
  BY FinalizeDoes DEF LedgerTypes
<1>2. /\ invoice'.paid = invoice.paid /\ event' = event /\ Recorded' = Recorded /\ Recorded # {}
      /\ invoice'.status = invoice.status \/ (invoice.status = "draft" /\ invoice'.status = "open")
  BY <1>1 DEF Finalize, LedgerTypes, StripeTypes, Recorded, PayInv, RunKnows, Settling
<1>3. RunKnows(r)'
  BY <1>1, <1>2 DEF PayInv, RunKnows
<1>4. \A q \in Runs \ {r} : RunKnows(q)'
  BY <1>1, <1>2 DEF PayInv, RunKnows, OnlyRun
<1>5. EventKnows'
  BY <1>2 DEF PayInv, EventKnows
<1>6. PaymentIsRecorded'
  BY <1>2 DEF PayInv, PaymentIsRecorded
<1>7. QED
  BY <1>3, <1>4, <1>5, <1>6 DEF PayInv

LEMMA PayPays ==
    ASSUME LedgerTypes, PayInv, NEW r \in Runs, Pay(r), UNCHANGED <<handler, tx>>
    PROVE  PayInv'
<1>1. OnlyRun(r) /\ run[r].pc = "pay" /\ Recorded' = Recorded /\ Recorded # {}
  BY PayDoes DEF LedgerTypes, Recorded, PayInv, RunKnows, Settling
<1>2. CASE RunLeaves(r, "pay", "release") /\ UNCHANGED <<invoice, event>>
  <2>1. /\ run'[r].pc = "release" /\ run'[r].seen = "none"
        /\ run'[r].loaded = [t \in Tools |-> "none"]
    BY <1>2, Left DEF LedgerTypes
  <2>2. QED
    BY <1>1, <1>2, <2>1, NotSettling, OneMoves DEF Settling
<1>3. CASE /\ run'[r].pc \in {"load", "sync"} /\ run'[r].loaded = run[r].loaded
           /\ invoice.paid # "none" /\ UNCHANGED <<invoice, event>>
           /\ run'[r].seen = IF invoice.paid = "paid" THEN "paid" ELSE run[r].seen
  <2>1. invoice.paid = "declined" \/ (invoice.paid = "paid" /\ invoice.status = "paid")
    BY <1>3 DEF LedgerTypes, StripeTypes, PayInv, EventKnows
  <2>2. RunKnows(r)'
    BY <1>1, <1>3, <2>1 DEF PayInv, RunKnows
  <2>3. QED
    BY <1>1, <1>3, <2>2, OneMoves
<1>4. CASE /\ run'[r].pc \in {"load", "sync"} /\ run'[r].loaded = run[r].loaded
           /\ invoice.paid = "none" /\ invoice.status = "open"
           /\ \/ /\ invoice' = [invoice EXCEPT !.status = "paid", !.paid = "paid"]
                 /\ event' = event \union {"paid"} /\ run'[r].seen = "paid"
              \/ /\ invoice' = [invoice EXCEPT !.paid = "declined"]
                 /\ event' = event \union {"payment_failed"} /\ run'[r].seen = run[r].seen
  <2>1. \/ /\ invoice'.status = "paid" /\ invoice'.paid = "paid"
           /\ event' = event \union {"paid"} /\ run'[r].seen = "paid"
        \/ /\ invoice'.status = "open" /\ invoice'.paid = "declined"
           /\ event' = event \union {"payment_failed"} /\ run'[r].seen = run[r].seen
    BY <1>4 DEF LedgerTypes, StripeTypes
  <2>2. /\ \A q \in Runs : run[q].seen \notin {"paid", "void"}
        /\ "paid" \notin event /\ handler.kind # "paid"
        /\ "payment_failed" \notin event /\ handler.kind # "payment_failed"
        /\ \A t \in Tools : tx[t].status # "completed"
    BY <1>4, OpenIsUnseen DEF PayInv, EventKnows
  <2>3. RunKnows(r)'
    BY <1>1, <1>4, <2>1, <2>2 DEF PayInv, RunKnows
  <2>4. ASSUME NEW q \in Runs \ {r} PROVE RunKnows(q)'
    <3>1. run[q].pc \notin {"load", "sync"}
      BY <1>4, <2>2 DEF PayInv, RunKnows
    <3>2. QED
      BY <1>1, <2>2, <3>1 DEF PayInv, RunKnows, OnlyRun
  <2>5. EventKnows'
    BY <1>1, <2>1, <2>2 DEF PayInv, EventKnows
  <2>6. PaymentIsRecorded'
    BY <1>1, <2>1, <2>2 DEF PaymentIsRecorded
  <2>7. QED
    BY <2>3, <2>4, <2>5, <2>6 DEF PayInv
<1>5. QED
  BY <1>2, <1>3, <1>4, PayDoes DEF LedgerTypes

LEMMA SyncPays ==
    ASSUME LedgerTypes, PayInv, NEW r \in Runs, Sync(r), UNCHANGED <<stripeVars, handler>>
    PROVE  PayInv'
<1>1. /\ tx' = Flush(run[r].loaded, SyncStatus(run[r].seen)) /\ RunLeaves(r, "sync", "complete")
      /\ UNCHANGED <<invoice, event, handler>>
  BY DEF Sync, stripeVars
<1>2. /\ OnlyRun(r) /\ run[r].pc = "sync" /\ run'[r].pc = "complete" /\ run'[r].seen = "none"
      /\ run'[r].loaded = [t \in Tools |-> "none"]
  BY <1>1, Left DEF LedgerTypes, OnlyRun
<1>3. /\ RunKnows(r) /\ SyncStatus(run[r].seen) \in TxStatus \ {"none"}
      /\ SyncStatus(run[r].seen) = "completed" <=> run[r].seen = "paid"
  BY DEF PayInv, SyncStatus, TxStatus
<1>4. /\ Recorded' = Recorded
      /\ \A t \in Tools : tx'[t].status = IF run[r].loaded[t] \in {"none", SyncStatus(run[r].seen)}
                                          THEN tx[t].status ELSE SyncStatus(run[r].seen)
  BY <1>1, <1>3, FlushRecords, FlushDoes DEF LedgerTypes, RunKnows
<1>5. RunKnows(r)'
  BY <1>2 DEF RunKnows, Settling
<1>6. \A q \in Runs \ {r} : RunKnows(q)'
  BY <1>1, <1>2, <1>4 DEF PayInv, RunKnows, OnlyRun, Settling
<1>7. EventKnows'
  BY <1>1, <1>4 DEF PayInv, EventKnows
<1>8. PaymentIsRecorded'
  <2>1. \A t \in Tools : tx'[t].status = "completed" => tx[t].status = "completed" \/ run[r].seen = "paid"
    BY <1>3, <1>4
  <2>2. invoice.status = "paid" /\ invoice.paid # "declined" =>
           \A t \in Tools : tx[t].status = "completed" => tx'[t].status = "completed"
    BY <1>2, <1>3, <1>4 DEF RunKnows
  <2>3. QED
    BY <1>1, <1>3, <1>4, <2>1, <2>2 DEF PayInv, PaymentIsRecorded, RunKnows, Recorded
<1>9. QED
  BY <1>5, <1>6, <1>7, <1>8 DEF PayInv

LEMMA EventPays ==
    ASSUME LedgerTypes, LedgerTypes', BillInv, PayInv, EventStep
    PROVE  PayInv'
<1>1. UNCHANGED <<run, invoice>>
  BY DEF EventStep
<1>2. ASSUME NEW kind \in event, TakeEvent(kind) PROVE PayInv'
  <2>1. /\ kind \in {"paid", "payment_failed"} /\ handler'.kind = kind
        /\ handler'.loaded = [t \in Tools |-> tx[t].status]
        /\ UNCHANGED <<event, tx>> /\ Recorded' = Recorded
    BY <1>2 DEF TakeEvent, LedgerTypes, StripeTypes, Recorded
  <2>2. \A q \in Runs : RunKnows(q)'
    BY <1>1, <2>1, RunKnowsStill
  <2>3. EventKnows'
    BY <1>1, <1>2, <2>1 DEF PayInv, EventKnows, Recorded
  <2>4. PaymentIsRecorded'
    BY <1>1, <2>1 DEF PayInv, PaymentIsRecorded
  <2>5. QED
    BY <2>2, <2>3, <2>4 DEF PayInv
<1>3. CASE HandleEvent
  <2>1. /\ handler.kind \in {"paid", "payment_failed"} /\ handler' = NoEvent
        /\ handler'.kind = "none" /\ \A t \in Tools : handler'.loaded[t] = "none"
    BY <1>3 DEF HandleEvent, LedgerTypes, StripeTypes, PayInv, EventKnows, NoEvent
  <2>2. CASE UNCHANGED <<event, tx>>
    <3>1. Recorded' = Recorded /\ \A q \in Runs : RunKnows(q)'
      BY <1>1, <2>2, RunKnowsStill DEF Recorded
    <3>2. EventKnows'
      BY <1>1, <2>1, <2>2, <3>1 DEF PayInv, EventKnows
    <3>3. PaymentIsRecorded'
      BY <1>1, <2>1, <2>2, <3>1 DEF PayInv, PaymentIsRecorded
    <3>4. QED
      BY <3>1, <3>2, <3>3 DEF PayInv
  <2>3. CASE ~ UNCHANGED <<event, tx>>
    <3> DEFINE status == IF handler.kind = "paid" THEN "completed" ELSE "failed"
    <3>1. tx' = Flush(handler.loaded, status) /\ event' = event \ {handler.kind}
      BY <1>3, <2>3 DEF HandleEvent
    <3>2. \/ handler.kind = "paid" /\ status = "completed"
          \/ handler.kind = "payment_failed" /\ status = "failed"
      BY <2>1
    <3> HIDE DEF status
    <3>3. /\ Recorded' = Recorded
          /\ \A t \in Tools : tx'[t].status = IF handler.loaded[t] \in {"none", status}
                                              THEN tx[t].status ELSE status
      BY <3>1, <3>2, FlushRecords, FlushDoes DEF LedgerTypes, PayInv, EventKnows, TxStatus
    <3>4. \A q \in Runs : RunKnows(q)'
      BY <1>1, <3>3 DEF PayInv, RunKnows, Settling
    <3>5. EventKnows'
      BY <1>1, <2>1, <3>1, <3>3 DEF PayInv, EventKnows
    <3>6. PaymentIsRecorded'
      <4>1. \A t \in Tools : tx'[t].status = "completed" => invoice.status = "paid"
        BY <3>2, <3>3 DEF PayInv, EventKnows, PaymentIsRecorded
      <4>2. ASSUME invoice.status = "paid", invoice.paid # "declined", NEW t \in Recorded
            PROVE  tx'[t].status = "completed"
        <5>1. handler.kind = "paid" /\ status = "completed" /\ handler.loaded[t] # "none" /\ t \in Tools
          BY <3>2, <4>2 DEF PayInv, EventKnows, Recorded
        <5>2. handler.loaded[t] = "completed" => tx[t].status = "completed"
          BY <4>2, <5>1 DEF PayInv, PaymentIsRecorded
        <5>3. QED
          BY <3>3, <5>1, <5>2
      <4>3. QED
        BY <1>1, <2>1, <3>3, <4>1, <4>2 DEF PaymentIsRecorded
    <3>7. QED
      BY <3>4, <3>5, <3>6 DEF PayInv
  <2>4. QED
    BY <2>2, <2>3
<1>4. QED
  BY <1>2, <1>3 DEF EventStep

LEMMA PayStep ==
    ASSUME LedgerTypes, LedgerTypes', BillInv, BillInv', PayInv, [UsageNext]_usageVars
    PROVE  PayInv'
<1>1. RunShapes
  BY DEF LedgerTypes
<1>2. ASSUME NEW r \in Runs, LockStep(r) \/ RunCrash(r) PROVE PayInv'
  <2>1. OutOfTask(r) /\ UNCHANGED <<stripeVars, handler, tx>>
    BY <1>1, <1>2, LockStepsAreOut
  <2>2. OnlyRun(r) /\ ~Settling(r)' /\ UNCHANGED <<invoice, event>>
    BY <2>1 DEF OutOfTask, OnlyRun, Settling, TaskSteps, stripeVars
  <2>3. RunKnows(r)'
    BY <2>1, <2>2, NotSettling DEF OutOfTask
  <2>4. QED
    BY <2>1, <2>2, <2>3, OneMoves
<1>3. ASSUME NEW r \in Runs, InvoiceStep(r) PROVE PayInv'
  <2>1. UNCHANGED <<monday, ledgerVars, done, handler>>
    BY <1>3 DEF InvoiceStep
  <2>2. ASSUME UNCHANGED <<stripeVars, tx>>, OnlyRun(r), ~Settling(r)', run'[r].seen = run[r].seen,
               run'[r].loaded = run[r].loaded
        PROVE  PayInv'
    BY <2>1, <2>2, NotSettling, OneMoves DEF stripeVars
  <2>3. CASE Users(r) /\ UNCHANGED <<stripeVars, tx>>
    <3>1. OnlyRun(r) /\ ~Settling(r)' /\ run'[r].seen = run[r].seen /\ run'[r].loaded = run[r].loaded
      BY <1>1, <2>3, Moved DEF Users, OnlyRun, Settling
    <3>2. QED
      BY <2>2, <2>3, <3>1
  <2>4. CASE Existing(r) /\ UNCHANGED <<stripeVars, tx>>
    <3>1. /\ OnlyRun(r) /\ run'[r].seen = run[r].seen
          /\ run'[r].pc = IF Recorded # {} THEN "retrieve" ELSE "sum"
          /\ \A t \in Tools : run'[r].loaded[t] # "none" => t \in Recorded \/ run[r].loaded[t] # "none"
      <4>1. \/ Recorded = {} /\ run'[r].pc = "sum" /\ run'[r].loaded = run[r].loaded
            \/ /\ Recorded # {} /\ run'[r].pc = "retrieve"
               /\ \E u \in Recorded :
                     run'[r].loaded = [t \in Tools |-> IF t = u THEN tx[u].status ELSE "none"]
        BY <1>1, <2>4, ExistingDoes
      <4>2. \A t \in Tools : run'[r].loaded[t] # "none" => t \in Recorded \/ run[r].loaded[t] # "none"
        BY <4>1
      <4>3. QED
        BY <1>1, <2>4, <4>1, <4>2, ExistingDoes
    <3>2. RunKnows(r)'
      BY <2>4, <3>1 DEF PayInv, RunKnows, Settling, Recorded, stripeVars
    <3>3. QED
      BY <2>1, <2>4, <3>1, <3>2, OneMoves DEF stripeVars
  <2>5. CASE Sum(r) /\ UNCHANGED <<stripeVars, tx>>
    <3>1. OnlyRun(r) /\ ~Settling(r)' /\ run'[r].seen = run[r].seen /\ run'[r].loaded = run[r].loaded
      BY <1>1, <2>5, SumDoes DEF Settling
    <3>2. QED
      BY <2>2, <2>5, <3>1
  <2>6. ASSUME NEW t \in Tools, CreateItem(r, t), UNCHANGED tx PROVE PayInv'
    <3>1. OnlyRun(r) /\ UNCHANGED <<invoice, event>> /\ ~Settling(r)'
          /\ \/ run'[r].seen = run[r].seen /\ run'[r].loaded = run[r].loaded
             \/ run'[r].seen = "none" /\ run'[r].loaded = [u \in Tools |-> "none"]
      <4>1. CASE RunLeaves(r, "items", "release")
        BY <1>1, <2>6, <4>1, Left DEF OnlyRun, Settling, CreateItem
      <4>2. CASE ~RunLeaves(r, "items", "release")
        BY <1>1, <2>6, <4>2, CreateItemDoes DEF Settling, CreateItem
      <4>3. QED
        BY <4>1, <4>2
    <3>2. QED
      BY <2>1, <2>6, <3>1, NotSettling, OneMoves
  <2>7. CASE CreateInvoice(r) /\ UNCHANGED tx
    BY <2>1, <2>7, CreateInvoicePays
  <2>8. CASE CommitTransactions(r) /\ UNCHANGED <<stripeVars, summed>>
    BY <2>1, <2>8, CommitBills, CommitPays
  <2>9. CASE Retrieve(r) /\ UNCHANGED tx
    <3>1. /\ OnlyRun(r) /\ run[r].pc = "retrieve" /\ run'[r].seen = invoice.status
          /\ run'[r].pc = IF invoice.status = "draft" THEN "finalize"
                          ELSE IF invoice.status = "open" THEN "pay" ELSE "load"
          /\ run'[r].loaded = run[r].loaded /\ UNCHANGED stripeVars
      BY <1>1, <2>9, RetrieveDoes DEF Retrieve
    <3>2. Recorded # {} /\ Recorded' = Recorded
      BY <2>9, <3>1 DEF PayInv, RunKnows, Settling, Recorded
    <3>3. invoice.status \in {"draft", "open", "paid", "void"}
      BY <3>2 DEF BillInv, TxAreItems, LedgerTypes, StripeTypes, InvoiceStatus
    <3>4. RunKnows(r)'
      BY <3>1, <3>2, <3>3 DEF PayInv, RunKnows, stripeVars
    <3>5. QED
      BY <2>1, <2>9, <3>1, <3>4, OneMoves DEF stripeVars
  <2>10. CASE Load(r) /\ UNCHANGED <<stripeVars, tx>>
    <3>1. /\ OnlyRun(r) /\ run[r].pc = "load" /\ run'[r].pc = "sync"
          /\ \A t \in Tools : run'[r].loaded[t] \in {tx[t].status, run[r].loaded[t]}
          /\ run'[r].seen = run[r].seen
      <4>1. /\ OnlyRun(r) /\ run[r].pc = "load" /\ run'[r].pc = "sync"
            /\ run'[r].loaded = [t \in Tools |-> IF run[r].loaded[t] = "none" THEN tx[t].status
                                                 ELSE run[r].loaded[t]]
            /\ run'[r].seen = run[r].seen
        BY <1>1, <2>10, LoadDoes
      <4>2. \A t \in Tools : run'[r].loaded[t] \in {tx[t].status, run[r].loaded[t]}
        BY <4>1
      <4>3. QED
        BY <4>1, <4>2
    <3>2. RunKnows(r)'
      BY <2>10, <3>1 DEF PayInv, RunKnows, Settling, Recorded, stripeVars
    <3>3. QED
      BY <2>1, <2>10, <3>1, <3>2, OneMoves DEF stripeVars
  <2>11. QED
    BY <1>3, <2>1, <2>3, <2>4, <2>5, <2>6, <2>7, <2>8, <2>9, <2>10, FinalizePays, PayPays, SyncPays
       DEF InvoiceStep
<1>4. CASE LockExpires
  <2>1. UNCHANGED <<invoice, event, handler, tx>>
    BY <1>4 DEF LockExpires, stripeVars
  <2>2. \A q \in Runs : run'[q].pc = run[q].pc /\ run'[q].loaded = run[q].loaded /\ run'[q].seen = run[q].seen
    <3>1. CASE UNCHANGED run
      BY <3>1
    <3>2. CASE run' = [run EXCEPT ![lock].lapsed = TRUE]
      BY <1>1, <3>2 DEF RunShapes, RunFields
    <3>3. QED
      BY <1>4, <3>1, <3>2 DEF LockExpires
  <2>3. QED
    BY <2>1, <2>2, RunKnowsStill, PayFrame
<1>5. CASE StripeCloses
  BY <1>5, InvoiceCloses DEF StripeCloses
<1>6. CASE EventStep
  BY <1>6, EventPays
<1>7. ASSUME UNCHANGED <<run, invoice, event, handler, tx>> PROVE PayInv'
  BY <1>7, RunKnowsStill, PayFrame
<1>8. QED
  BY <1>2, <1>3, <1>4, <1>5, <1>6, <1>7
     DEF UsageNext, LogStep, Call, WeekEnds, usageVars, stripeVars

LEMMA LedgerStart == UsageInit => LedgerInv
<1> SUFFICES ASSUME UsageInit PROVE LedgerInv
  OBVIOUS
<1>1. /\ \A t \in Tools : tx[t] = NoTx /\ item[t] = 0 /\ handler.loaded[t] = "none"
      /\ \A r \in Runs : run[r] = IdleRun
      /\ invoice = [status |-> "none", items |-> {}, paid |-> "none"] /\ handler = NoEvent
      /\ handler.kind = "none" /\ event = {} /\ ~monday /\ ~summed /\ ~done
  BY DEF UsageInit, NoEvent
<1>2. Recorded = {} /\ \A r \in Runs : run[r].pc = "idle"
  BY <1>1 DEF Recorded, NoTx, IdleRun
<1>3. LedgerTypes
  <2>1. CallShapes /\ RunShapes /\ \A c \in Calls : rows[c] <= 1
    BY CallsStart, LeaseStart DEF CallsInv, LeaseInv, UsageInit
  <2>2. /\ [t \in Tools |-> 0] \in [Tools -> Nat] /\ [t \in Tools |-> "none"] \in [Tools -> TxStatus]
        /\ IdleRun.sums = [t \in Tools |-> 0] /\ IdleRun.todo = {}
        /\ IdleRun.loaded = [t \in Tools |-> "none"]
    BY DEF TxStatus, IdleRun
  <2>3. RunTypes
    BY <1>1, <2>2 DEF RunTypes
  <2>4. StripeTypes
    BY <2>2 DEF UsageInit, StripeTypes, NoEvent, InvoiceStatus
  <2>5. tx \in [Tools -> [amount: Nat, status: TxStatus]]
    BY DEF UsageInit, NoTx, TxStatus
  <2>6. QED
    BY <2>1, <2>3, <2>4, <2>5 DEF LedgerTypes
<1>4. BillInv
  <2>1. \A t \in Tools : tx[t].amount = 0 /\ item[t] <= Made(t)
    BY <1>1, <1>3, UsageBounds DEF NoTx
  <2>2. TxAreItems
    BY <1>1, <1>2, <2>1 DEF TxAreItems
  <2>3. QED
    BY <1>1, <1>2, <2>2 DEF BillInv, NothingBilled, OneRecords, Billing
<1>5. PayInv
  <2>1. \A r \in Runs : RunKnows(r)
    BY <1>1, <1>2 DEF RunKnows, Settling, IdleRun
  <2>2. EventKnows
    BY <1>1, <1>2 DEF EventKnows
  <2>3. PaymentIsRecorded
    BY <1>1 DEF PaymentIsRecorded, NoTx
  <2>4. QED
    BY <2>1, <2>2, <2>3 DEF PayInv
<1>6. QED
  BY <1>3, <1>4, <1>5 DEF LedgerInv

LEMMA LedgerInductive ==
    LedgerInv /\ CallsInv' /\ LeaseInv' /\ [UsageNext]_usageVars => LedgerInv'
<1> SUFFICES ASSUME LedgerInv, CallsInv', LeaseInv', [UsageNext]_usageVars PROVE LedgerInv'
  OBVIOUS
<1>1. LedgerTypes /\ BillInv /\ PayInv
  BY DEF LedgerInv
<1>2. LedgerTypes'
  BY <1>1, LedgerTypesStep DEF CallsInv, LeaseInv
<1>3. BillInv'
  BY <1>1, <1>2, BillStep
<1>4. PayInv'
  BY <1>1, <1>2, <1>3, PayStep
<1>5. QED
  BY <1>2, <1>3, <1>4 DEF LedgerInv

LEMMA LedgerHolds == UsageSpec => []LedgerInv
  BY LedgerStart, LedgerInductive, CallsStart, CallsInductive, LeaseStart, LeaseInductive, PTL
     DEF UsageSpec

\* The buyer is asked for no more than the calls made, each transaction has the amount of
\* its item, a completed week has all its logs on the invoice unless one came late, and
\* only a paid invoice completes its transactions, all of them unless it was declined
\* before: for any number of calls, tools and schedulers that overlap, crash and repeat
\* their calls to Stripe, and whatever its events overtake (create_usage_invoice,
\* _settle_usage_invoice, _update_transaction_status).
THEOREM LedgerStaysInvoice == UsageSpec => []LedgerIsInvoice
<1>1. LedgerInv => LedgerIsInvoice
  <2> SUFFICES ASSUME LedgerInv PROVE LedgerIsInvoice
    OBVIOUS
  <2>1. BillInv /\ PayInv /\ TxAreItems
    BY DEF LedgerInv, BillInv
  <2>2. AmountsAgree
    <3>1. ~late => Recorded \subseteq invoice.items
      BY <2>1 DEF TxAreItems, Recorded
    <3>2. ~late => (done => Booked)
      BY <2>1, Zenon DEF TxAreItems
    <3>3. QED
      BY <2>1, <3>1, <3>2 DEF AmountsAgree, TxAreItems, Booked
  <2>3. PaidIsCompleted
    BY <2>1 DEF PaidIsCompleted, PayInv, PaymentIsRecorded, Recorded
  <2>4. QED
    BY <2>2, <2>3 DEF LedgerIsInvoice
<1>2. QED
  BY <1>1, LedgerHolds, PTL

\* Only one of the schedulers that invoice the same week records it: once a week has
\* transactions, any other that still bills it finds one of its own tools recorded, so that
\* the unique index refuses all of its rows (_existing_usage_invoice, create_usage_invoice).
THEOREM OneSchedulerRecords == UsageSpec => []OneRecords
<1>1. LedgerInv => OneRecords
  BY DEF LedgerInv, BillInv
<1>2. QED
  BY <1>1, LedgerHolds, PTL
===============================================================================
