-------------------------- MODULE ToolProcessingProofs --------------------------
(***************************************************************************)
(* What holds of a tool's ports, its promotion to live, its types and its  *)
(* jobs for any number of requests, workers, jobs, tries, ports and        *)
(* faults, proved with TLAPS.                                              *)
(***************************************************************************)
EXTENDS ToolProcessing, TLAPS

USE TriesAssumption, JobsAssumption, PortAssumption, FaultsAssumption

(***************************************************************************)
(* Ports.                                                                  *)
(***************************************************************************)

\* A worker that runs a job has the fields that the proofs speak of.
Busy(x) == {"pc", "port", "changes"} \subseteq DOMAIN x /\ x.pc \in WorkerPC

WorkerShape ==
    /\ worker = [w \in Workers |-> worker[w]]
    /\ \A w \in Workers : worker[w] = Idle \/ Busy(worker[w])

\* A worker gives up its port only when no container listens on it.
ReleasedIsClosed ==
    \A w \in Workers :
        worker[w].pc = "release" /\ worker[w].port # NoPort => container # worker[w].port

PortInv == WorkerShape /\ PortReserved /\ ReleasedIsClosed

\* A worker that another pc or other changes are written to stays a worker.
LEMMA GotoShape ==
    ASSUME WorkerShape, NEW w \in Workers, worker[w].pc # "idle",
           NEW pc \in WorkerPC, Goto(w, pc)
    PROVE  /\ WorkerShape'
           /\ worker'[w].pc = pc /\ worker'[w].port = worker[w].port
           /\ \A v \in Workers \ {w} : worker'[v] = worker[v]
<1>1. Busy(worker[w])
  BY DEF WorkerShape, Idle
<1>2. worker'[w] = [worker[w] EXCEPT !.pc = pc]
  BY DEF WorkerShape, Goto
<1>3. Busy(worker'[w]) /\ worker'[w].pc = pc /\ worker'[w].port = worker[w].port
  BY <1>1, <1>2 DEF Busy
<1>4. \A v \in Workers \ {w} : worker'[v] = worker[v]
  BY DEF WorkerShape, Goto
<1>5. worker' = [v \in Workers |-> worker'[v]]
  BY DEF WorkerShape, Goto
<1>6. QED
  BY <1>3, <1>4, <1>5 DEF WorkerShape

\* The other writes to a worker: it loses its port or keeps it.
LEMMA WriteShape ==
    ASSUME WorkerShape, NEW w \in Workers, NEW x, Busy(x) \/ x = Idle,
           worker' = [worker EXCEPT ![w] = x]
    PROVE  /\ WorkerShape'
           /\ worker'[w] = x
           /\ \A v \in Workers \ {w} : worker'[v] = worker[v]
BY DEF WorkerShape, Busy, Idle

\* The steps that move a worker on without touching ports or container.
LEMMA KeepPort ==
    ASSUME PortInv, NEW w \in Workers, WorkerShape',
           worker[w].pc # "idle", worker'[w].port = worker[w].port,
           worker'[w].pc # "release",
           \A v \in Workers \ {w} : worker'[v] = worker[v],
           UNCHANGED hosting
    PROVE  PortInv'
BY DEF PortInv, PortReserved, ReleasedIsClosed, hosting

\* The steps that leave a worker without a port.
LEMMA DropPort ==
    ASSUME PortInv, NEW w \in Workers, WorkerShape',
           worker'[w].pc = "idle" \/ worker'[w].port = NoPort,
           \A v \in Workers \ {w} : worker'[v] = worker[v],
           UNCHANGED hosting
    PROVE  PortInv'
BY DEF PortInv, PortReserved, ReleasedIsClosed, hosting, NoPort

\* No step of a request, a worker or a fault breaks the invariant of the ports.
LEMMA PortStep == PortInv /\ [Next]_vars => PortInv'
<1> SUFFICES ASSUME PortInv, [Next]_vars PROVE PortInv'
  OBVIOUS
<1>shape. WorkerShape
  BY DEF PortInv
<1>same. ASSUME UNCHANGED <<worker, hosting>> PROVE PortInv'
  BY <1>same DEF PortInv, WorkerShape, PortReserved, ReleasedIsClosed, hosting
<1>1. ASSUME NEW r \in Requests,
             \/ Upload(r)
             \/ \E url, command \in BOOLEAN : Configure(r, url, command)
             \/ \E status \in ToolStatus : Review(r, status)
             \/ Pause(r)
             \/ \E j \in Job : Retry(r, j)
             \/ RequestProgress(r)
             \/ EnqueueError(r)
             \/ ApiCrash(r)
      PROVE  PortInv'
  BY <1>1, <1>same DEF Upload, Configure, Review, Pause, Retry, Open, RequestProgress, Commit,
     StartProcessing, FindJob, InsertJob, Enqueue, RefreshAfterError, FailJob, RejectTool,
     EnqueueError, ApiCrash
<1>2. ASSUME NEW w \in Workers, NEW j \in Job, StartJob(w, j) PROVE PortInv'
  <2>1. CASE Runs(j)
    <3> DEFINE x == [pc |-> "load", job |-> j, try |-> tries[j] + 1, port |-> NoPort,
                     endpoint |-> NoPort, changes |-> NoChange]
    <3>1. worker' = [worker EXCEPT ![w] = x] /\ UNCHANGED hosting
      BY <1>2, <2>1 DEF StartJob
    <3>2. Busy(x) /\ x.port = NoPort
      BY DEF Busy, WorkerPC
    <3> HIDE DEF x
    <3>3. QED
      BY <1>shape, <3>1, <3>2, WriteShape, DropPort
  <2>2. CASE ~ Runs(j)
    BY <1>2, <2>2, <1>same DEF StartJob
  <2>3. QED
    BY <2>1, <2>2
<1>3. ASSUME NEW w \in Workers, LoadTool(w) PROVE PortInv'
  <2> DEFINE x == [worker[w] EXCEPT !.pc = "open", !.endpoint = tool.endpoint,
                     !.changes = Changed([tool EXCEPT !.status = "processing"])]
  <2>1. worker' = [worker EXCEPT ![w] = x] /\ UNCHANGED hosting /\ worker[w].pc = "load"
    BY <1>3, <1>shape DEF LoadTool, WorkerShape
  <2>2. Busy(worker[w])
    BY <2>1, <1>shape DEF WorkerShape, Idle
  <2>3. Busy(x) /\ x.port = worker[w].port /\ x.pc = "open"
    BY <2>2 DEF Busy, WorkerPC
  <2> HIDE DEF x
  <2>4. QED
    BY <1>shape, <2>1, <2>3, WriteShape, KeepPort
<1>4. ASSUME NEW w \in Workers, OpenTool(w) PROVE PortInv'
  <2> DEFINE x == [worker[w] EXCEPT !.pc = "build", !.changes = NoChange]
  <2>1. worker' = [worker EXCEPT ![w] = x] /\ UNCHANGED hosting /\ worker[w].pc = "open"
    BY <1>4, <1>shape DEF OpenTool, WorkerShape
  <2>2. Busy(worker[w])
    BY <2>1, <1>shape DEF WorkerShape, Idle
  <2>3. Busy(x) /\ x.port = worker[w].port /\ x.pc = "build"
    BY <2>2 DEF Busy, WorkerPC
  <2> HIDE DEF x
  <2>4. QED
    BY <1>shape, <2>1, <2>3, WriteShape, KeepPort
<1>5. ASSUME NEW w \in Workers, Build(w) PROVE PortInv'
  <2>1. PICK pc \in {"allocate", "publish"} : Goto(w, pc)
    BY <1>5 DEF Build
  <2>2. pc \in WorkerPC /\ pc # "release" /\ worker[w].pc # "idle" /\ UNCHANGED hosting
    BY <1>5, <2>1 DEF Build, WorkerPC
  <2>3. QED
    BY <1>shape, <2>1, <2>2, GotoShape, KeepPort
<1>6. ASSUME NEW w \in Workers, Allocate(w) PROVE PortInv'
  <2>1. CASE \E p \in Ports \ ports :
                /\ ports' = ports \cup {p}
                /\ worker' = [worker EXCEPT ![w] = [@ EXCEPT !.pc = "deploy", !.port = p]]
    <3>1. PICK p \in Ports \ ports :
                /\ ports' = ports \cup {p}
                /\ worker' = [worker EXCEPT ![w] = [@ EXCEPT !.pc = "deploy", !.port = p]]
      BY <2>1
    <3> DEFINE x == [worker[w] EXCEPT !.pc = "deploy", !.port = p]
    <3>2. worker' = [worker EXCEPT ![w] = x] /\ worker[w].pc = "allocate"
          /\ container' = container
      BY <1>6, <3>1, <1>shape DEF Allocate, WorkerShape
    <3>3. Busy(worker[w])
      BY <3>2, <1>shape DEF WorkerShape, Idle
    <3>4. Busy(x) /\ x.port = p /\ x.pc = "deploy"
      BY <3>3 DEF Busy, WorkerPC
    <3> HIDE DEF x
    <3>5. WorkerShape' /\ worker'[w] = x /\ \A v \in Workers \ {w} : worker'[v] = worker[v]
      BY <1>shape, <3>2, <3>4, WriteShape
    <3>6. PortReserved'
      BY <3>1, <3>2, <3>4, <3>5 DEF PortInv, PortReserved
    <3>7. ReleasedIsClosed'
      BY <3>2, <3>4, <3>5 DEF PortInv, ReleasedIsClosed
    <3>8. QED
      BY <3>5, <3>6, <3>7 DEF PortInv
  <2>2. CASE Goto(w, "reject") /\ UNCHANGED ports
    <3>1. worker[w].pc # "idle" /\ UNCHANGED hosting
      BY <1>6, <2>2 DEF Allocate, hosting
    <3>2. QED
      BY <1>shape, <2>2, <3>1, GotoShape, KeepPort DEF WorkerPC
  <2>3. QED
    BY <1>6, <2>1, <2>2 DEF Allocate
<1>7. ASSUME NEW w \in Workers, Deploy(w) PROVE PortInv'
  <2>1. /\ Goto(w, "publish") /\ worker[w].pc = "deploy"
        /\ container' = worker[w].port /\ ports' = ports
    BY <1>7 DEF Deploy
  <2>2. /\ WorkerShape' /\ worker'[w].pc = "publish" /\ worker'[w].port = worker[w].port
        /\ \A v \in Workers \ {w} : worker'[v] = worker[v]
    BY <1>shape, <2>1, GotoShape DEF WorkerPC
  <2>3. PortReserved'
    BY <2>1, <2>2 DEF PortInv, PortReserved
  <2>4. ReleasedIsClosed'
    BY <2>1, <2>2 DEF PortInv, PortReserved, ReleasedIsClosed
  <2>5. QED
    BY <2>2, <2>3, <2>4 DEF PortInv
<1>8. ASSUME NEW w \in Workers, Publish(w) \/ Reject(w) PROVE PortInv'
  <2> DEFINE x(pc) == [worker[w] EXCEPT !.pc = pc, !.port = NoPort, !.endpoint = NoPort,
                                        !.changes = NoChange]
  <2>1. PICK pc \in {"succeed", "fail"} : worker' = [worker EXCEPT ![w] = x(pc)]
    BY <1>8, <1>shape DEF Publish, Reject, Outcome, WorkerShape
  <2>2. worker[w].pc # "idle" /\ UNCHANGED hosting
    BY <1>8 DEF Publish, Reject
  <2>3. Busy(worker[w])
    BY <2>2, <1>shape DEF WorkerShape, Idle
  <2>4. Busy(x(pc)) /\ x(pc).port = NoPort
    BY <2>3 DEF Busy, WorkerPC
  <2> HIDE DEF x
  <2>5. QED
    BY <1>shape, <2>1, <2>2, <2>4, WriteShape, DropPort
<1>9. ASSUME NEW w \in Workers, BuildError(w) PROVE PortInv'
  <2> DEFINE pc == IF worker[w].port = NoPort THEN "reject" ELSE "cleanup"
             changes == IF worker[w].pc = "publish" THEN NewEndpoint(w) ELSE NoChange
             x == [worker[w] EXCEPT !.pc = pc, !.changes = changes]
  <2>1. worker' = [worker EXCEPT ![w] = x]
    BY <1>9, <1>shape DEF BuildError, WorkerShape
  <2>2. worker[w].pc # "idle" /\ UNCHANGED hosting
    BY <1>9 DEF BuildError
  <2>3. Busy(worker[w])
    BY <2>2, <1>shape DEF WorkerShape, Idle
  <2>4. pc \in WorkerPC /\ pc # "release"
    BY DEF WorkerPC
  <2> HIDE DEF pc, changes
  <2>5. Busy(x) /\ x.port = worker[w].port /\ x.pc # "release"
    BY <2>3, <2>4 DEF Busy
  <2> HIDE DEF x
  <2>6. QED
    BY <1>shape, <2>1, <2>2, <2>5, WriteShape, KeepPort, ZenonT(40)
<1>10. ASSUME NEW w \in Workers, RemoveContainer(w) PROVE PortInv'
  <2>1. /\ Goto(w, "release") /\ worker[w].pc = "cleanup"
        /\ container' = NoPort /\ ports' = ports
    BY <1>10 DEF RemoveContainer
  <2>2. /\ WorkerShape' /\ worker'[w].port = worker[w].port
        /\ \A v \in Workers \ {w} : worker'[v] = worker[v]
    BY <1>shape, <2>1, GotoShape DEF WorkerPC
  <2>3. PortReserved'
    BY <2>1, <2>2 DEF PortInv, PortReserved
  <2>4. ReleasedIsClosed'
    BY <2>1 DEF ReleasedIsClosed
  <2>5. QED
    BY <2>2, <2>3, <2>4 DEF PortInv
<1>11. ASSUME NEW w \in Workers, ReleasePort(w) PROVE PortInv'
  <2> DEFINE x == [worker[w] EXCEPT !.pc = "reject", !.port = NoPort]
  <2>1. /\ worker' = [worker EXCEPT ![w] = x] /\ worker[w].pc = "release"
        /\ ports' = ports \ {worker[w].port} /\ container' = container
    BY <1>11, <1>shape DEF ReleasePort, WorkerShape
  <2>2. Busy(worker[w])
    BY <2>1, <1>shape DEF WorkerShape, Idle
  <2>3. Busy(x) /\ x.port = NoPort /\ x.pc = "reject"
    BY <2>2 DEF Busy, WorkerPC
  <2> HIDE DEF x
  <2>4. WorkerShape' /\ worker'[w] = x /\ \A v \in Workers \ {w} : worker'[v] = worker[v]
    BY <1>shape, <2>1, <2>3, WriteShape
  <2>5. container' # NoPort => container' \in ports'
    BY <2>1 DEF PortInv, PortReserved, ReleasedIsClosed
  <2>6. ASSUME NEW v \in Workers, worker'[v].pc # "idle", worker'[v].port # NoPort
        PROVE  /\ worker'[v].port \in ports'
               /\ \A u \in Workers \ {v} :
                     worker'[u].pc # "idle" => worker'[u].port # worker'[v].port
    BY <2>1, <2>3, <2>4, <2>6 DEF PortInv, PortReserved
  <2>7. PortReserved'
    BY <2>5, <2>6 DEF PortReserved
  <2>8. ReleasedIsClosed'
    BY <2>1, <2>3, <2>4 DEF PortInv, ReleasedIsClosed
  <2>9. QED
    BY <2>4, <2>7, <2>8 DEF PortInv
<1>12. ASSUME NEW w \in Workers, Settle(w) PROVE PortInv'
  <2>1. PICK pc \in {"return", "retry"} : Goto(w, pc)
    BY <1>12 DEF Settle
  <2>2. pc \in WorkerPC /\ pc # "release" /\ worker[w].pc # "idle" /\ UNCHANGED hosting
    BY <1>12, <2>1 DEF Settle, WorkerPC
  <2>3. QED
    BY <1>shape, <2>1, <2>2, GotoShape, KeepPort
<1>13. ASSUME NEW w \in Workers,
              FinishJob(w) \/ DeferJob(w) \/ WorkerCrash(w) \/ AbortJob(w)
       PROVE  PortInv'
  <2>1. worker' = [worker EXCEPT ![w] = Idle] /\ UNCHANGED hosting
    BY <1>13 DEF FinishJob, DeferJob, WorkerCrash, AbortJob
  <2>2. WorkerShape' /\ worker'[w] = Idle /\ \A v \in Workers \ {w} : worker'[v] = worker[v]
    BY <1>shape, <2>1, WriteShape
  <2>3. QED
    BY <2>1, <2>2, DropPort DEF Idle
<1>14. ASSUME NEW j \in Job, ExpireJob(j) PROVE PortInv'
  BY <1>14, <1>same DEF ExpireJob
<1>15. ASSUME UNCHANGED vars PROVE PortInv'
  BY <1>15, <1>same DEF vars, hosting
<1>16. QED
  BY <1>1, <1>2, <1>3, <1>4, <1>5, <1>6, <1>7, <1>8, <1>9, <1>10, <1>11, <1>12, <1>13, <1>14,
     <1>15 DEF Next, WorkerProgress

\* The running container's port stays reserved, and no two deployments share one, for
\* any number of workers, jobs and ports and however often builds fail and workers die.
THEOREM PortsStayReserved == Spec => []PortReserved
<1>1. Init => PortInv
  BY DEF Init, PortInv, WorkerShape, PortReserved, ReleasedIsClosed, Idle
<1>2. PortInv => PortReserved
  BY DEF PortInv
<1>3. QED
  BY <1>1, <1>2, PortStep, PTL DEF Spec

(***************************************************************************)
(* Promotion to live.                                                      *)
(***************************************************************************)

NotLive(changes) == "status" \in DOMAIN changes => changes.status # "live"

\* Only a review that is about to commit has "live" among its changes.
Harmless(q) ==
    /\ {"pc", "kind", "then", "job", "changes"} \subseteq DOMAIN q
    /\ q.pc # "idle"
    /\ NotLive(q.changes) \/ (q.pc = "commit" /\ q.kind = "review" /\ q.then = "reply")

StatusColumn == "status" \in DOMAIN tool

RequestsHarmless ==
    /\ request = [r \in Requests |-> request[r]]
    /\ \A r \in Requests : request[r] = Idle \/ Harmless(request[r])

WorkersHarmless ==
    /\ WorkerShape
    /\ \A w \in Workers : worker[w] = Idle \/ NotLive(worker[w].changes)

PromoteInv == StatusColumn /\ RequestsHarmless /\ WorkersHarmless

\* A commit changes the status to what its changes say, if they say anything.
LEMMA FlushedStatus ==
    ASSUME "status" \in DOMAIN tool, NEW changes
    PROVE  /\ "status" \in DOMAIN Flush(changes)
           /\ Flush(changes).status =
                 IF "status" \in DOMAIN changes THEN changes.status ELSE tool.status
BY DEF Flush, Over

\* Assigning another status than live, or none, never writes live.
LEMMA ChangedStatus ==
    ASSUME NEW new, \/ "status" \notin DOMAIN tool
                    \/ new.status # "live"
                    \/ new.status = tool.status
    PROVE  NotLive(Changed(new))
BY DEF NotLive, Changed

\* A commit without live among its changes does not promote.
LEMMA QuietFlush ==
    ASSUME StatusColumn, NEW changes, NotLive(changes), tool' = Flush(changes)
    PROVE  StatusColumn' /\ PromotedByReview
BY FlushedStatus DEF StatusColumn, NotLive, PromotedByReview

LEMMA SameTool ==
    ASSUME StatusColumn, tool' = tool PROVE StatusColumn' /\ PromotedByReview
BY DEF StatusColumn, PromotedByReview

LEMMA WriteRequest ==
    ASSUME RequestsHarmless, NEW r \in Requests, NEW x, x = Idle \/ Harmless(x),
           request' = [request EXCEPT ![r] = x]
    PROVE  RequestsHarmless' /\ request'[r] = x
BY DEF RequestsHarmless

LEMMA WriteWorker ==
    ASSUME WorkersHarmless, NEW w \in Workers, NEW x,
           x = Idle \/ (Busy(x) /\ NotLive(x.changes)),
           worker' = [worker EXCEPT ![w] = x]
    PROVE  WorkersHarmless'
<1>1. WorkerShape
  BY DEF WorkersHarmless
<1>2. WorkerShape'
  BY <1>1, WriteShape, Zenon
<1>3. ASSUME NEW v \in Workers PROVE worker'[v] = Idle \/ NotLive(worker'[v].changes)
  <2>1. worker'[v] = IF v = w THEN x ELSE worker[v]
    BY <1>1 DEF WorkerShape
  <2>2. CASE v = w
    BY <2>1, <2>2
  <2>3. CASE v # w
    BY <2>1, <2>3 DEF WorkersHarmless
  <2>4. QED
    BY <2>2, <2>3
<1>4. QED
  BY <1>2, <1>3, Zenon DEF WorkersHarmless

LEMMA GotoHarmless ==
    ASSUME WorkersHarmless, NEW w \in Workers, worker[w].pc # "idle",
           NEW pc \in WorkerPC, Goto(w, pc)
    PROVE  WorkersHarmless'
<1> DEFINE x == [worker[w] EXCEPT !.pc = pc]
<1>1. Busy(worker[w]) /\ NotLive(worker[w].changes)
  BY DEF WorkersHarmless, WorkerShape, Idle
<1>2. Busy(x) /\ x.changes = worker[w].changes
  BY <1>1 DEF Busy
<1>3. worker' = [worker EXCEPT ![w] = x]
  BY DEF Goto
<1> HIDE DEF x
<1>4. QED
  BY <1>1, <1>2, <1>3, WriteWorker

\* A request's steps before its commit: load the tool and decide.
LEMMA OpenStep ==
    ASSUME PromoteInv, NEW r \in Requests, NEW kind, NEW new, NEW then,
           Open(r, kind, new, then),
           NotLive(Changed(new)) \/ (kind = "review" /\ then = "reply")
    PROVE  PromoteInv' /\ PromotedByReview
<1> DEFINE x == [pc |-> "commit", kind |-> kind, then |-> then, job |-> 0,
                 changes |-> Changed(new)]
<1>1. Harmless(x)
  BY DEF Harmless
<1>2. request' = [request EXCEPT ![r] = x] /\ UNCHANGED <<tool, worker>>
  BY DEF Open
<1> HIDE DEF x
<1>3. RequestsHarmless'
  BY <1>1, <1>2, WriteRequest DEF PromoteInv
<1>4. WorkersHarmless'
  BY <1>2 DEF PromoteInv, WorkersHarmless, WorkerShape
<1>5. QED
  BY <1>2, <1>3, <1>4, SameTool DEF PromoteInv
LEMMA SameWorkers == ASSUME WorkersHarmless, UNCHANGED worker PROVE WorkersHarmless'
BY DEF WorkersHarmless, WorkerShape

LEMMA SameRequests == ASSUME RequestsHarmless, UNCHANGED request PROVE RequestsHarmless'
BY DEF RequestsHarmless

\* A request that goes on with other columns changed, or is done.
LEMMA RequestGoesOn ==
    ASSUME RequestsHarmless, NEW r \in Requests, request[r].pc # "idle",
           NEW pc, pc # "idle", NEW changes, NotLive(changes),
           request' = [request EXCEPT ![r] = [@ EXCEPT !.pc = pc, !.changes = changes]]
    PROVE  RequestsHarmless'
<1> DEFINE x == [request[r] EXCEPT !.pc = pc, !.changes = changes]
<1>1. Harmless(request[r])
  BY DEF RequestsHarmless, Idle
<1>2. Harmless(x)
  BY <1>1 DEF Harmless
<1>3. request' = [request EXCEPT ![r] = x]
  OBVIOUS
<1> HIDE DEF x
<1>4. QED
  BY <1>2, <1>3, WriteRequest

LEMMA RequestKeepsChanges ==
    ASSUME RequestsHarmless, NEW r \in Requests, request[r].pc \notin {"idle", "commit"},
           NEW pc, pc # "idle", request' = [request EXCEPT ![r].pc = pc]
    PROVE  RequestsHarmless'
<1> DEFINE x == [request[r] EXCEPT !.pc = pc]
<1>1. Harmless(request[r]) /\ NotLive(request[r].changes)
  BY DEF RequestsHarmless, Idle, Harmless
<1>2. Harmless(x)
  BY <1>1 DEF Harmless
<1>3. request' = [request EXCEPT ![r] = x]
  OBVIOUS
<1> HIDE DEF x
<1>4. QED
  BY <1>2, <1>3, WriteRequest

\* Past its first commit a request has no live among its changes.
LEMMA BusyRequest ==
    ASSUME RequestsHarmless, NEW r \in Requests, request[r].pc # "idle"
    PROVE  /\ Harmless(request[r])
           /\ request[r].pc # "commit" => NotLive(request[r].changes)
BY DEF RequestsHarmless, Idle, Harmless

LEMMA BusyWorker ==
    ASSUME WorkersHarmless, NEW w \in Workers, worker[w].pc # "idle"
    PROVE  Busy(worker[w]) /\ NotLive(worker[w].changes)
BY DEF WorkersHarmless, WorkerShape, Idle

LEMMA QuietChanges ==
    /\ NotLive(NoChange)
    /\ NotLive(Status("processing")) /\ NotLive(Status("rejected"))
BY DEF NotLive, NoChange, Status

\* No request promotes the tool unless it is a review, and then by its commit.
LEMMA RequestStep ==
    ASSUME PromoteInv, NEW r \in Requests,
           \/ Upload(r)
           \/ \E url, command \in BOOLEAN : Configure(r, url, command)
           \/ \E status \in ToolStatus : Review(r, status)
           \/ Pause(r)
           \/ \E j \in Job : Retry(r, j)
           \/ RequestProgress(r)
           \/ EnqueueError(r)
           \/ ApiCrash(r)
    PROVE  PromoteInv' /\ PromotedByReview
<1>inv. StatusColumn /\ RequestsHarmless /\ WorkersHarmless
  BY DEF PromoteInv
<1>idle. ASSUME request' = [request EXCEPT ![r] = Idle] PROVE RequestsHarmless'
  BY <1>inv, <1>idle, WriteRequest
<1>1. CASE Upload(r)
  <2> DEFINE new == [tool EXCEPT !.uploaded = TRUE,
                       !.status = IF tool.command THEN "processing" ELSE "draft"]
             then == IF tool.command THEN "find" ELSE "reply"
  <2>1. Open(r, "upload", new, then)
    BY <1>1 DEF Upload
  <2>2. new.status # "live"
    BY <1>inv DEF StatusColumn
  <2> HIDE DEF new, then
  <2>3. QED
    BY <2>1, <2>2, ChangedStatus, OpenStep
<1>2. ASSUME NEW url \in BOOLEAN, NEW command \in BOOLEAN, Configure(r, url, command)
      PROVE  PromoteInv' /\ PromotedByReview
  <2> DEFINE new == [tool EXCEPT !.endpoint = IF url THEN External ELSE NoPort,
                                 !.command = @ \/ command,
                                 !.status = IF url THEN "draft" ELSE @]
             then == IF ~ url /\ tool.status \in {"draft", "rejected"} /\ tool.uploaded
                     THEN "start" ELSE "reply"
  <2>1. Open(r, "configure", new, then)
    BY <1>2 DEF Configure
  <2>2. new.status # "live" \/ new.status = tool.status
    BY <1>inv DEF StatusColumn
  <2> HIDE DEF new, then
  <2>3. QED
    BY <2>1, <2>2, ChangedStatus, OpenStep
<1>3. ASSUME NEW status \in ToolStatus, Review(r, status)
      PROVE  PromoteInv' /\ PromotedByReview
  <2>1. Open(r, "review", [tool EXCEPT !.status = status], "reply")
    BY <1>3 DEF Review
  <2>2. QED
    BY <2>1, OpenStep
<1>4. CASE Pause(r)
  <2> DEFINE new == [tool EXCEPT !.status = "paused"]
  <2>1. Open(r, "pause", new, "reply")
    BY <1>4 DEF Pause
  <2>2. new.status # "live"
    BY <1>inv DEF StatusColumn
  <2> HIDE DEF new
  <2>3. QED
    BY <2>1, <2>2, ChangedStatus, OpenStep
<1>5. ASSUME NEW j \in Job, Retry(r, j) PROVE PromoteInv' /\ PromotedByReview
  <2> DEFINE new == [tool EXCEPT !.status = "processing"]
             x == [pc |-> "find", kind |-> "retry", then |-> "find", job |-> 0,
                   changes |-> Changed(new)]
  <2>1. request' = [request EXCEPT ![r] = x] /\ UNCHANGED <<tool, worker>>
    BY <1>5 DEF Retry
  <2>2. new.status # "live"
    BY <1>inv DEF StatusColumn
  <2>3. NotLive(Changed(new))
    BY <2>2, ChangedStatus
  <2> HIDE DEF new
  <2>4. Harmless(x)
    BY <2>3 DEF Harmless
  <2> HIDE DEF x
  <2>5. QED
    BY <1>inv, <2>1, <2>4, WriteRequest, SameTool, SameWorkers DEF PromoteInv
<1>6. CASE Commit(r)
  <2> DEFINE q == request[r]
  <2>1. /\ q.pc = "commit" /\ tool' = Flush(q.changes) /\ UNCHANGED worker
        /\ \/ q.then = "reply" /\ request' = [request EXCEPT ![r] = Idle]
           \/ \E pc \in {"start", "find"}, changes \in {NoChange, Status("processing")} :
                 /\ q.then # "reply"
                 /\ request' = [request EXCEPT
                       ![r] = [@ EXCEPT !.pc = pc, !.changes = changes]]
    BY <1>6 DEF Commit, Committed
  <2>2. Harmless(q)
    BY <1>inv, <2>1, BusyRequest
  <2>3. CASE q.then = "reply" /\ request' = [request EXCEPT ![r] = Idle]
    <3>done. RequestsHarmless' /\ request'[r] = Idle
      BY <1>inv, <2>3, WriteRequest
    <3>1. RequestsHarmless' /\ request'[r].pc = "idle"
      BY <3>done DEF Idle
    <3>2. StatusColumn' /\ PromotedByReview
      <4>1. CASE NotLive(q.changes)
        BY <1>inv, <2>1, <4>1, QuietFlush
      <4>2. CASE ~ NotLive(q.changes)
        BY <1>inv, <2>1, <2>2, <3>1, <4>2, FlushedStatus
           DEF Harmless, NotLive, PromotedByReview, StatusColumn
      <4>3. QED
        BY <4>1, <4>2
    <3>3. QED
      BY <1>inv, <2>1, <3>1, <3>2, SameWorkers DEF PromoteInv
  <2>4. CASE \E pc \in {"start", "find"}, changes \in {NoChange, Status("processing")} :
                /\ q.then # "reply"
                /\ request' = [request EXCEPT
                      ![r] = [@ EXCEPT !.pc = pc, !.changes = changes]]
    <3>1. RequestsHarmless'
      BY <1>inv, <2>1, <2>4, QuietChanges, RequestGoesOn
    <3>2. NotLive(q.changes)
      BY <2>2, <2>4 DEF Harmless
    <3>3. QED
      BY <1>inv, <2>1, <3>1, <3>2, QuietFlush, SameWorkers DEF PromoteInv
  <2>5. QED
    BY <2>1, <2>3, <2>4
<1>7. CASE StartProcessing(r)
  <2>1. /\ request[r].pc = "start" /\ tool' = Flush(request[r].changes) /\ UNCHANGED worker
        /\ request' = [request EXCEPT ![r] = [@ EXCEPT !.pc = "find", !.changes = NoChange]]
    BY <1>7 DEF StartProcessing, Committed
  <2>2. QED
    BY <1>inv, <2>1, BusyRequest, QuietChanges, RequestGoesOn, QuietFlush, SameWorkers
       DEF PromoteInv
<1>8. CASE FindJob(r)
  <2>1. /\ request[r].pc = "find" /\ UNCHANGED worker
        /\ \/ request' = [request EXCEPT ![r].pc = "insert"] /\ tool' = tool
           \/ request' = [request EXCEPT ![r] = Idle] /\ tool' = Flush(request[r].changes)
    BY <1>8 DEF FindJob
  <2>2. QED
    BY <1>inv, <2>1, <1>idle, BusyRequest, RequestKeepsChanges, QuietFlush, SameTool, SameWorkers
       DEF PromoteInv
<1>9. CASE InsertJob(r)
  <2>1. PICK j \in Job : request' = [request EXCEPT ![r] =
                [@ EXCEPT !.pc = "enqueue", !.changes = NoChange, !.job = j]]
    BY <1>9 DEF InsertJob, Unused
  <2> DEFINE x == [request[r] EXCEPT !.pc = "enqueue", !.changes = NoChange, !.job = j]
  <2>2. /\ request[r].pc = "insert" /\ tool' = Flush(request[r].changes) /\ UNCHANGED worker
        /\ request' = [request EXCEPT ![r] = x]
    BY <1>9, <2>1 DEF InsertJob
  <2>3. Harmless(request[r]) /\ NotLive(request[r].changes)
    BY <1>inv, <2>2, BusyRequest
  <2>4. Harmless(x)
    BY <2>3, QuietChanges DEF Harmless
  <2> HIDE DEF x
  <2>5. QED
    BY <1>inv, <2>2, <2>3, <2>4, WriteRequest, QuietFlush, SameWorkers DEF PromoteInv
<1>10. CASE Enqueue(r) \/ ApiCrash(r)
  BY <1>10, <1>inv, <1>idle, SameTool, SameWorkers DEF Enqueue, ApiCrash, PromoteInv
<1>11. CASE EnqueueError(r)
  <2>1. /\ request[r].pc = "enqueue" /\ UNCHANGED <<tool, worker>>
        /\ request' = [request EXCEPT ![r].pc = "queue_error"]
    BY <1>11 DEF EnqueueError
  <2>2. QED
    BY <1>inv, <2>1, RequestKeepsChanges, SameTool, SameWorkers DEF PromoteInv
<1>refuse. ASSUME request[r].pc # "idle", request' = Refuse(r) PROVE RequestsHarmless'
  BY <1>inv, <1>refuse, <1>idle, QuietChanges, RequestGoesOn DEF Refuse, Committed
<1>12. CASE RefreshAfterError(r)
  <2>1. /\ request[r].pc = "queue_error" /\ UNCHANGED <<tool, worker>>
        /\ request' = Refuse(r) \/ request' = [request EXCEPT ![r].pc = "fail"]
    BY <1>12 DEF RefreshAfterError
  <2>2. QED
    BY <1>inv, <1>refuse, <2>1, RequestKeepsChanges, SameTool, SameWorkers DEF PromoteInv
<1>13. CASE FailJob(r)
  BY <1>13, <1>inv, <1>refuse, SameTool, SameWorkers DEF FailJob, PromoteInv
<1>14. CASE RejectTool(r)
  <2>1. /\ request[r].pc = "reject" /\ tool' = Flush(request[r].changes) /\ UNCHANGED worker
        /\ request' = [request EXCEPT ![r] = Idle]
    BY <1>14 DEF RejectTool
  <2>2. QED
    BY <1>inv, <1>idle, <2>1, BusyRequest, QuietFlush, SameWorkers DEF PromoteInv
<1>15. QED
  BY <1>1, <1>2, <1>3, <1>4, <1>5, <1>6, <1>7, <1>8, <1>9, <1>10, <1>11, <1>12, <1>13, <1>14
     DEF RequestProgress
\* No worker promotes the tool.
LEMMA WorkerStep ==
    ASSUME PromoteInv, NEW w \in Workers,
           WorkerProgress(w) \/ BuildError(w) \/ WorkerCrash(w) \/ AbortJob(w)
    PROVE  PromoteInv' /\ PromotedByReview
<1>inv. StatusColumn /\ RequestsHarmless /\ WorkersHarmless /\ WorkerShape
  BY DEF PromoteInv, WorkersHarmless
<1>goto. ASSUME worker[w].pc # "idle", NEW pc \in WorkerPC, Goto(w, pc),
                UNCHANGED <<tool, request>>
         PROVE  PromoteInv' /\ PromotedByReview
  BY <1>inv, <1>goto, GotoHarmless, SameRequests, SameTool DEF PromoteInv
<1>idle. ASSUME worker' = [worker EXCEPT ![w] = Idle], UNCHANGED <<tool, request>>
         PROVE  PromoteInv' /\ PromotedByReview
  BY <1>inv, <1>idle, WriteWorker, SameRequests, SameTool DEF PromoteInv
<1>write. ASSUME NEW x, Busy(x), NotLive(x.changes), worker' = [worker EXCEPT ![w] = x],
                 UNCHANGED request,
                 tool' = tool \/ \E c : NotLive(c) /\ tool' = Flush(c)
          PROVE  PromoteInv' /\ PromotedByReview
  BY <1>inv, <1>write, WriteWorker, SameRequests, SameTool, QuietFlush DEF PromoteInv
<1>1. ASSUME NEW j \in Job, StartJob(w, j) PROVE PromoteInv' /\ PromotedByReview
  <2>1. CASE Runs(j)
    <3> DEFINE x == [pc |-> "load", job |-> j, try |-> tries[j] + 1, port |-> NoPort,
                     endpoint |-> NoPort, changes |-> NoChange]
    <3>1. worker' = [worker EXCEPT ![w] = x] /\ UNCHANGED <<tool, request>>
      BY <1>1, <2>1 DEF StartJob
    <3>2. Busy(x) /\ NotLive(x.changes)
      BY QuietChanges DEF Busy, WorkerPC
    <3> HIDE DEF x
    <3>3. QED
      BY <3>1, <3>2, <1>write
  <2>2. CASE ~ Runs(j)
    <3>1. UNCHANGED <<tool, request, worker>>
      BY <1>1, <2>2 DEF StartJob
    <3>2. QED
      BY <1>inv, <3>1, SameWorkers, SameRequests, SameTool DEF PromoteInv
  <2>3. QED
    BY <2>1, <2>2
<1>2. CASE LoadTool(w)
  <2> DEFINE new == [tool EXCEPT !.status = "processing"]
             x == [worker[w] EXCEPT !.pc = "open", !.endpoint = tool.endpoint,
                                    !.changes = Changed(new)]
  <2>1. /\ worker[w].pc = "load" /\ UNCHANGED <<tool, request>>
        /\ worker' = [worker EXCEPT ![w] = x]
    BY <1>2 DEF LoadTool
  <2>2. new.status # "live"
    BY <1>inv DEF StatusColumn
  <2>3. NotLive(Changed(new))
    BY <2>2, ChangedStatus
  <2> HIDE DEF new
  <2>4. Busy(worker[w])
    BY <1>inv, <2>1, BusyWorker
  <2>5. Busy(x) /\ x.changes = Changed(new)
    BY <2>4 DEF Busy, WorkerPC
  <2> HIDE DEF x
  <2>6. QED
    BY <2>1, <2>3, <2>5, <1>write
<1>3. CASE OpenTool(w)
  <2> DEFINE x == [worker[w] EXCEPT !.pc = "build", !.changes = NoChange]
  <2>1. /\ worker[w].pc = "open" /\ tool' = Flush(worker[w].changes) /\ UNCHANGED request
        /\ worker' = [worker EXCEPT ![w] = x]
    BY <1>3 DEF OpenTool
  <2>2. Busy(worker[w]) /\ NotLive(worker[w].changes)
    BY <1>inv, <2>1, BusyWorker
  <2>3. Busy(x) /\ NotLive(x.changes)
    BY <2>2, QuietChanges DEF Busy, WorkerPC
  <2> HIDE DEF x
  <2>4. QED
    BY <2>1, <2>2, <2>3, <1>write
<1>4. CASE Build(w) \/ Deploy(w) \/ RemoveContainer(w) \/ Settle(w)
  <2>1. PICK pc \in WorkerPC : Goto(w, pc)
    BY <1>4 DEF Build, Deploy, RemoveContainer, Settle, WorkerPC
  <2>2. worker[w].pc # "idle" /\ UNCHANGED <<tool, request>>
    BY <1>4 DEF Build, Deploy, RemoveContainer, Settle
  <2>3. QED
    BY <2>1, <2>2, <1>goto
<1>5. CASE Allocate(w)
  <2>1. worker[w].pc = "allocate" /\ UNCHANGED <<tool, request>>
    BY <1>5 DEF Allocate
  <2>2. CASE \E p \in Ports \ ports :
               worker' = [worker EXCEPT ![w] = [@ EXCEPT !.pc = "deploy", !.port = p]]
    <3>1. PICK p : worker' = [worker EXCEPT ![w] = [@ EXCEPT !.pc = "deploy", !.port = p]]
      BY <2>2
    <3> DEFINE x == [worker[w] EXCEPT !.pc = "deploy", !.port = p]
    <3>2. worker' = [worker EXCEPT ![w] = x]
      BY <3>1
    <3>3. Busy(worker[w]) /\ NotLive(worker[w].changes)
      BY <1>inv, <2>1, BusyWorker
    <3>4. Busy(x) /\ NotLive(x.changes)
      BY <3>3 DEF Busy, WorkerPC
    <3> HIDE DEF x
    <3>5. QED
      BY <2>1, <3>2, <3>4, <1>write
  <2>3. CASE Goto(w, "reject")
    BY <2>1, <2>3, <1>goto DEF WorkerPC
  <2>4. QED
    BY <1>5, <2>2, <2>3 DEF Allocate
<1>6. CASE Publish(w) \/ Reject(w)
  <2> DEFINE x(pc) == [worker[w] EXCEPT !.pc = pc, !.port = NoPort, !.endpoint = NoPort,
                                        !.changes = NoChange]
             rejected == IF worker[w].try >= MaxTries THEN Status("rejected") ELSE NoChange
             outcome == IF worker[w].pc = "publish"
                        THEN Over(NewEndpoint(w), [status |-> "draft", command |-> TRUE])
                        ELSE Over(worker[w].changes, rejected)
  <2>1. PICK pc \in {"succeed", "fail"} : worker' = [worker EXCEPT ![w] = x(pc)]
    BY <1>6 DEF Publish, Reject, Outcome
  <2>2. worker[w].pc # "idle" /\ UNCHANGED request /\ tool' = Flush(outcome)
    BY <1>6 DEF Publish, Reject
  <2>3. Busy(worker[w]) /\ NotLive(worker[w].changes)
    BY <1>inv, <2>2, BusyWorker
  <2>4. Busy(x(pc)) /\ NotLive(x(pc).changes)
    BY <2>3, QuietChanges DEF Busy, WorkerPC
  <2>5. NotLive(Over(NewEndpoint(w), [status |-> "draft", command |-> TRUE]))
    BY DEF NotLive, Over, NewEndpoint, NoChange
  <2>6. NotLive(rejected)
    BY QuietChanges
  <2> HIDE DEF rejected
  <2>7. NotLive(Over(worker[w].changes, rejected))
    BY <2>3, <2>6 DEF NotLive, Over
  <2>8. NotLive(outcome)
    BY <2>5, <2>7
  <2> HIDE DEF x, outcome
  <2>9. QED
    BY <2>1, <2>2, <2>4, <2>8, <1>write
<1>7. CASE BuildError(w)
  <2> DEFINE pc == IF worker[w].port = NoPort THEN "reject" ELSE "cleanup"
             changes == IF worker[w].pc = "publish" THEN NewEndpoint(w) ELSE NoChange
             x == [worker[w] EXCEPT !.pc = pc, !.changes = changes]
  <2>1. /\ worker[w].pc # "idle" /\ UNCHANGED <<tool, request>>
        /\ worker' = [worker EXCEPT ![w] = x]
    BY <1>7 DEF BuildError
  <2>2. pc \in WorkerPC
    BY DEF WorkerPC
  <2>3. NotLive(changes)
    BY DEF NotLive, NewEndpoint, NoChange
  <2>4. Busy(worker[w])
    BY <1>inv, <2>1, BusyWorker
  <2> HIDE DEF pc, changes
  <2>5. Busy(x) /\ NotLive(x.changes)
    BY <2>2, <2>3, <2>4 DEF Busy
  <2> HIDE DEF x
  <2>6. QED
    BY <2>1, <2>5, <1>write
<1>8. CASE ReleasePort(w)
  <2> DEFINE x == [worker[w] EXCEPT !.pc = "reject", !.port = NoPort]
  <2>1. /\ worker[w].pc = "release" /\ UNCHANGED <<tool, request>>
        /\ worker' = [worker EXCEPT ![w] = x]
    BY <1>8 DEF ReleasePort
  <2>2. Busy(worker[w]) /\ NotLive(worker[w].changes)
    BY <1>inv, <2>1, BusyWorker
  <2>3. Busy(x) /\ NotLive(x.changes)
    BY <2>2 DEF Busy, WorkerPC
  <2> HIDE DEF x
  <2>4. QED
    BY <2>1, <2>3, <1>write
<1>9. CASE FinishJob(w) \/ DeferJob(w) \/ WorkerCrash(w) \/ AbortJob(w)
  BY <1>9, <1>idle DEF FinishJob, DeferJob, WorkerCrash, AbortJob
<1>10. QED
  BY <1>1, <1>2, <1>3, <1>4, <1>5, <1>6, <1>7, <1>8, <1>9 DEF WorkerProgress

\* Admin review is the only path that promotes a tool to live: no late commit of a
\* worker or of another request does, for any number of them.
THEOREM ReviewPromotes == Spec => OnlyReviewPromotes
<1>1. Init => PromoteInv
  BY DEF Init, PromoteInv, StatusColumn, RequestsHarmless, WorkersHarmless, WorkerShape
<1>2. ASSUME PromoteInv, UNCHANGED vars PROVE PromoteInv' /\ PromotedByReview
  BY <1>2, SameWorkers, SameRequests, SameTool DEF PromoteInv, vars
<1>3. ASSUME PromoteInv, NEW j \in Job, ExpireJob(j) PROVE PromoteInv' /\ PromotedByReview
  BY <1>3, SameWorkers, SameRequests, SameTool DEF PromoteInv, ExpireJob
<1>4. PromoteInv /\ [Next]_vars => PromoteInv' /\ PromotedByReview
  BY <1>2, <1>3, RequestStep, WorkerStep DEF Next
<1>5. PromoteInv /\ [Next]_vars => PromoteInv' /\ [PromotedByReview]_vars
  BY <1>4
<1>6. QED
  BY <1>1, <1>5, PTL DEF Spec, OnlyReviewPromotes

(***************************************************************************)
(* Types.                                                                  *)
(***************************************************************************)

\* What a session may commit: some columns of the row, with values of their types.
IsChange(c) ==
    /\ c = [column \in DOMAIN c |-> c[column]]
    /\ DOMAIN c \subseteq {"status", "endpoint", "uploaded", "command"}
    /\ "status" \in DOMAIN c => c["status"] \in ToolStatus
    /\ "endpoint" \in DOMAIN c => c["endpoint"] \in Endpoint
    /\ "uploaded" \in DOMAIN c => c["uploaded"] \in BOOLEAN
    /\ "command" \in DOMAIN c => c["command"] \in BOOLEAN

IsRequest(x) ==
    /\ x \in [pc: RequestPC, kind: Kind, then: {"reply", "start", "find"}, job: 0 .. MaxJobs,
              changes: {x.changes}]
    /\ IsChange(x.changes)
    /\ x.pc \in {"enqueue", "queue_error", "fail"} => x.job \in Job

IsWorker(x) ==
    /\ x \in [pc: WorkerPC, job: Job, try: 1 .. MaxTries, port: {NoPort} \cup Ports,
              endpoint: Endpoint, changes: {x.changes}]
    /\ IsChange(x.changes)

TableTypes ==
    /\ tool \in Tool
    /\ job \in [Job -> JobStatus \cup {"none"}]
    /\ waiting \subseteq Job
    /\ tries \in [Job -> 0 .. MaxTries]
    /\ dropped \subseteq Job
    /\ ports \subseteq Ports
    /\ container \in {NoPort} \cup Ports
    /\ faults \in 0 .. MaxFaults

RequestTypes ==
    /\ request = [r \in Requests |-> request[r]]
    /\ \A r \in Requests : request[r] = Idle \/ IsRequest(request[r])

WorkerTypes ==
    /\ worker = [w \in Workers |-> worker[w]]
    /\ \A w \in Workers : worker[w] = Idle \/ IsWorker(worker[w])

ToolTypes == TableTypes /\ RequestTypes /\ WorkerTypes

LEMMA OverTypes ==
    ASSUME NEW c, IsChange(c), NEW t \in Tool
    PROVE  Over(c, t) \in Tool
<1>1. DOMAIN c \cup DOMAIN t = {"status", "endpoint", "uploaded", "command"}
  BY DEF IsChange, Tool
<1>2. \A column \in {"status", "endpoint", "uploaded", "command"} :
         Over(c, t)[column] = IF column \in DOMAIN c THEN c[column] ELSE t[column]
  BY <1>1 DEF Over
<1>3. /\ Over(c, t) = [column \in {"status", "endpoint", "uploaded", "command"} |-> Over(c, t)[column]]
  BY <1>1 DEF Over
<1>4. /\ Over(c, t)["status"] \in ToolStatus /\ Over(c, t)["endpoint"] \in Endpoint
      /\ Over(c, t)["uploaded"] \in BOOLEAN /\ Over(c, t)["command"] \in BOOLEAN
  BY <1>2 DEF IsChange, Tool
<1>5. QED
  BY <1>3, <1>4 DEF Tool

LEMMA FlushTypes == ASSUME tool \in Tool, NEW c, IsChange(c) PROVE Flush(c) \in Tool
BY OverTypes DEF Flush

\* Two changes committed together.
LEMMA BothChange ==
    ASSUME NEW c, IsChange(c), NEW d, IsChange(d)
    PROVE  IsChange(Over(c, d))
<1>1. /\ DOMAIN Over(c, d) = DOMAIN c \cup DOMAIN d
      /\ Over(c, d) = [column \in DOMAIN Over(c, d) |-> Over(c, d)[column]]
      /\ \A column \in DOMAIN Over(c, d) :
            Over(c, d)[column] = IF column \in DOMAIN c THEN c[column] ELSE d[column]
  BY DEF Over
<1>2. QED
  BY <1>1 DEF IsChange

LEMMA AssignedTypes == ASSUME tool \in Tool, NEW new \in Tool PROVE IsChange(Changed(new))
<1>1. /\ DOMAIN Changed(new) \subseteq {"status", "endpoint", "uploaded", "command"}
      /\ Changed(new) = [column \in DOMAIN Changed(new) |-> Changed(new)[column]]
      /\ \A column \in DOMAIN Changed(new) : Changed(new)[column] = new[column]
  BY DEF Changed, Tool
<1>2. QED
  BY <1>1 DEF IsChange, Tool

LEMMA ConstantChanges ==
    /\ IsChange(NoChange)
    /\ \A s \in ToolStatus : IsChange(Status(s))
    /\ \A u \in Endpoint : IsChange([endpoint |-> u])
    /\ \A s \in ToolStatus : IsChange([status |-> s, command |-> TRUE])
<1>1. IsChange(NoChange)
  BY DEF IsChange, NoChange
<1>2. ASSUME NEW s \in ToolStatus PROVE IsChange(Status(s))
  BY DEF IsChange, Status
<1>3. ASSUME NEW u \in Endpoint PROVE IsChange([endpoint |-> u])
  BY DEF IsChange
<1>4. ASSUME NEW s \in ToolStatus PROVE IsChange([status |-> s, command |-> TRUE])
  BY DEF IsChange
<1>5. QED
  BY <1>1, <1>2, <1>3, <1>4

LEMMA EndpointChange ==
    ASSUME NEW w \in Workers, IsWorker(worker[w])
    PROVE  IsChange(NewEndpoint(w))
<1>1. (IF worker[w].port = NoPort THEN External ELSE worker[w].port) \in Endpoint
  BY DEF IsWorker, Endpoint
<1>2. QED
  BY <1>1, ConstantChanges DEF NewEndpoint

\* A request or a worker is written.
LEMMA RequestWritten ==
    ASSUME RequestTypes, NEW r \in Requests, NEW x, x = Idle \/ IsRequest(x),
           request' = [request EXCEPT ![r] = x]
    PROVE  RequestTypes'
<1>1. request' = [q \in Requests |-> request'[q]]
  BY DEF RequestTypes
<1>2. \A q \in Requests : request'[q] = Idle \/ IsRequest(request'[q])
  BY DEF RequestTypes
<1>3. QED
  BY <1>1, <1>2 DEF RequestTypes

LEMMA WorkerWritten ==
    ASSUME WorkerTypes, NEW w \in Workers, NEW x, x = Idle \/ IsWorker(x),
           worker' = [worker EXCEPT ![w] = x]
    PROVE  WorkerTypes'
<1>1. worker' = [v \in Workers |-> worker'[v]]
  BY DEF WorkerTypes
<1>2. \A v \in Workers : worker'[v] = Idle \/ IsWorker(worker'[v])
  BY DEF WorkerTypes
<1>3. QED
  BY <1>1, <1>2 DEF WorkerTypes

\* Who is not idle has a complete state.
LEMMA BusyRequestType ==
    ASSUME RequestTypes, NEW r \in Requests, request[r].pc # "idle"
    PROVE  IsRequest(request[r])
BY DEF RequestTypes, Idle

LEMMA BusyWorkerType ==
    ASSUME WorkerTypes, NEW w \in Workers, worker[w].pc # "idle"
    PROVE  IsWorker(worker[w])
BY DEF WorkerTypes, Idle

\* A worker that goes on keeps everything but its pc.
LEMMA GotoTypes ==
    ASSUME WorkerTypes, NEW w \in Workers, worker[w].pc # "idle", NEW pc \in WorkerPC, Goto(w, pc)
    PROVE  WorkerTypes'
<1> DEFINE x == [worker[w] EXCEPT !.pc = pc]
<1>1. IsWorker(worker[w])
  BY BusyWorkerType
<1>2. IsWorker(x)
  <2>1. x.changes = worker[w].changes
    BY <1>1 DEF IsWorker
  <2>2. QED
    BY <1>1, <2>1 DEF IsWorker
<1>3. worker' = [worker EXCEPT ![w] = x]
  BY DEF Goto, WorkerTypes
<1> HIDE DEF x
<1>4. QED
  BY <1>2, <1>3, WorkerWritten

LEMMA CommittedTypes ==
    ASSUME RequestTypes, NEW r \in Requests, request[r].pc # "idle",
           NEW pc \in RequestPC \ {"enqueue", "queue_error", "fail"}, NEW c, IsChange(c),
           request' = Committed(r, pc, c)
    PROVE  RequestTypes'
<1> DEFINE x == [request[r] EXCEPT !.pc = pc, !.changes = c]
<1>1. IsRequest(request[r])
  BY BusyRequestType
<1>2. x \in [pc: RequestPC, kind: Kind, then: {"reply", "start", "find"}, job: 0 .. MaxJobs,
             changes: {c}] /\ x.changes = c /\ x.pc = pc
  BY <1>1 DEF IsRequest
<1>3. IsRequest(x)
  BY <1>2 DEF IsRequest
<1>4. request' = [request EXCEPT ![r] = x]
  BY DEF Committed, RequestTypes
<1> HIDE DEF x
<1>5. QED
  BY <1>3, <1>4, RequestWritten

LEMMA OpenTypes ==
    ASSUME ToolTypes, NEW r \in Requests, NEW kind \in Kind, NEW new \in Tool,
           NEW then \in {"reply", "start", "find"}, Open(r, kind, new, then)
    PROVE  ToolTypes'
<1> DEFINE x == [pc |-> "commit", kind |-> kind, then |-> then, job |-> 0, changes |-> Changed(new)]
<1>1. IsChange(Changed(new))
  BY AssignedTypes DEF ToolTypes, TableTypes
<1>2. IsRequest(x)
  BY <1>1 DEF IsRequest, RequestPC
<1>3. request' = [request EXCEPT ![r] = x]
  BY DEF Open
<1> HIDE DEF x
<1>4. RequestTypes'
  BY <1>2, <1>3, RequestWritten DEF ToolTypes
<1>5. QED
  BY <1>4 DEF Open, ToolTypes, TableTypes, WorkerTypes, hosting

LEMMA RefuseTypes ==
    ASSUME RequestTypes, NEW r \in Requests, request[r].pc # "idle", request' = Refuse(r)
    PROVE  RequestTypes'
<1>1. IsChange(Status("rejected"))
  BY ConstantChanges DEF ToolStatus
<1>2. CASE request[r].kind = "retry"
  BY <1>2, RequestWritten DEF Refuse
<1>3. CASE request[r].kind # "retry"
  BY <1>1, <1>3, CommittedTypes DEF Refuse, RequestPC
<1>4. QED
  BY <1>2, <1>3

\* A request that goes on keeps everything but its pc.
LEMMA RequestGoes ==
    ASSUME RequestTypes, NEW r \in Requests, request[r].pc # "idle", NEW pc \in RequestPC,
           pc \in {"enqueue", "queue_error", "fail"} => request[r].job \in Job,
           request' = [request EXCEPT ![r].pc = pc]
    PROVE  RequestTypes'
<1> DEFINE x == [request[r] EXCEPT !.pc = pc]
<1>1. IsRequest(request[r])
  BY BusyRequestType
<1>2. x.changes = request[r].changes /\ x.pc = pc /\ x.job = request[r].job
  BY <1>1 DEF IsRequest
<1>3. IsRequest(x)
  BY <1>1, <1>2 DEF IsRequest
<1>4. request' = [request EXCEPT ![r] = x]
  BY DEF RequestTypes
<1> HIDE DEF x
<1>5. QED
  BY <1>3, <1>4, RequestWritten

\* The steps of the API keep the types.
LEMMA ApiTypes ==
    ASSUME ToolTypes, NEW r \in Requests,
           \/ Upload(r)
           \/ \E url, command \in BOOLEAN : Configure(r, url, command)
           \/ \E status \in ToolStatus : Review(r, status)
           \/ Pause(r)
           \/ \E j \in Job : Retry(r, j)
           \/ RequestProgress(r)
           \/ EnqueueError(r)
           \/ ApiCrash(r)
    PROVE  ToolTypes'
<1>1. tool \in Tool /\ TableTypes /\ RequestTypes /\ WorkerTypes
  BY DEF ToolTypes, TableTypes
<1>2. CASE Upload(r)
  <2> DEFINE new == [tool EXCEPT !.uploaded = TRUE,
                                 !.status = IF tool.command THEN "processing" ELSE "draft"]
  <2>1. new \in Tool
    BY <1>1 DEF Tool, ToolStatus
  <2>2. Open(r, "upload", new, IF tool.command THEN "find" ELSE "reply")
    BY <1>2 DEF Upload
  <2> HIDE DEF new
  <2>3. QED
    BY <2>1, <2>2, OpenTypes DEF Kind
<1>3. ASSUME NEW url \in BOOLEAN, NEW command \in BOOLEAN, Configure(r, url, command)
      PROVE  ToolTypes'
  <2> DEFINE new == [tool EXCEPT !.endpoint = IF url THEN External ELSE NoPort,
                                 !.command = @ \/ command,
                                 !.status = IF url THEN "draft" ELSE @]
             then == IF ~ url /\ tool.status \in {"draft", "rejected"} /\ tool.uploaded
                     THEN "start" ELSE "reply"
  <2>1. tool.command \/ command \in BOOLEAN
    OBVIOUS
  <2>2. (IF url THEN External ELSE NoPort) \in Endpoint
    BY DEF Endpoint
  <2>3. (IF url THEN "draft" ELSE tool.status) \in ToolStatus
    BY <1>1 DEF Tool, ToolStatus
  <2>4. (tool.command \/ command) \in BOOLEAN
    BY Zenon
  <2>5. \A e \in Endpoint, c \in BOOLEAN, s \in ToolStatus :
           [tool EXCEPT !.endpoint = e, !.command = c, !.status = s] \in Tool
    BY <1>1 DEF Tool
  <2>6. new \in Tool
    BY <2>2, <2>3, <2>4, <2>5, Zenon
  <2>7. Open(r, "configure", new, then) /\ then \in {"reply", "start", "find"}
    BY <1>3 DEF Configure
  <2> HIDE DEF new, then
  <2>8. QED
    BY <2>6, <2>7, OpenTypes DEF Kind
<1>4. ASSUME NEW status \in ToolStatus, Review(r, status) PROVE ToolTypes'
  <2> DEFINE new == [tool EXCEPT !.status = status]
  <2>1. new \in Tool /\ Open(r, "review", new, "reply")
    BY <1>1, <1>4 DEF Tool, Review
  <2> HIDE DEF new
  <2>2. QED
    BY <2>1, OpenTypes DEF Kind
<1>5. CASE Pause(r)
  <2> DEFINE new == [tool EXCEPT !.status = "paused"]
  <2>1. new \in Tool /\ Open(r, "pause", new, "reply")
    BY <1>1, <1>5 DEF Tool, Pause, ToolStatus
  <2> HIDE DEF new
  <2>2. QED
    BY <2>1, OpenTypes DEF Kind
<1>6. ASSUME NEW j \in Job, Retry(r, j) PROVE ToolTypes'
  <2> DEFINE new == [tool EXCEPT !.status = "processing"]
             x == [pc |-> "find", kind |-> "retry", then |-> "find", job |-> 0, changes |-> Changed(new)]
  <2>1. new \in Tool
    BY <1>1 DEF Tool, ToolStatus
  <2>2. IsChange(Changed(new))
    BY <1>1, <2>1, AssignedTypes
  <2>3. request' = [request EXCEPT ![r] = x]
    BY <1>6 DEF Retry
  <2> HIDE DEF new
  <2>4. IsRequest(x)
    BY <2>2 DEF IsRequest, RequestPC, Kind
  <2> HIDE DEF x
  <2>5. RequestTypes'
    BY <1>1, <2>3, <2>4, RequestWritten
  <2>6. QED
    BY <1>1, <1>6, <2>5 DEF Retry, ToolTypes, TableTypes, WorkerTypes, hosting
<1>7. ASSUME request[r].pc # "idle" PROVE IsRequest(request[r]) /\ Flush(request[r].changes) \in Tool
  BY <1>1, <1>7, BusyRequestType, FlushTypes DEF IsRequest
<1>8. IsChange(NoChange) /\ IsChange(Status("processing"))
  BY ConstantChanges DEF ToolStatus
<1>9. ASSUME RequestTypes', tool' \in Tool,
             UNCHANGED <<job, worker, waiting, tries, dropped, hosting, faults>>
      PROVE  ToolTypes'
  BY <1>1, <1>9 DEF ToolTypes, TableTypes, WorkerTypes, hosting
<1>10. CASE Commit(r)
  <2>1. request[r].pc # "idle" /\ tool' = Flush(request[r].changes)
    BY <1>10 DEF Commit
  <2>2. \/ request' = [request EXCEPT ![r] = Idle]
        \/ request' = Committed(r, "start", Status("processing"))
        \/ request' = Committed(r, "find", NoChange)
    BY <1>10, Zenon DEF Commit
  <2>3. RequestTypes'
    BY <1>1, <1>8, <2>1, <2>2, RequestWritten, CommittedTypes DEF RequestPC
  <2>4. QED
    BY <1>7, <1>9, <1>10, <2>1, <2>3 DEF Commit
<1>11. CASE StartProcessing(r)
  <2>1. RequestTypes'
    BY <1>1, <1>8, <1>11, CommittedTypes DEF StartProcessing, RequestPC
  <2>2. QED
    BY <1>7, <1>9, <1>11, <2>1 DEF StartProcessing
<1>12. CASE FindJob(r)
  <2>1. RequestTypes'
    BY <1>1, <1>12, RequestGoes, RequestWritten DEF FindJob, RequestPC
  <2>2. tool' \in Tool
    BY <1>1, <1>7, <1>12 DEF FindJob
  <2>3. QED
    BY <1>9, <1>12, <2>1, <2>2 DEF FindJob
<1>13. CASE InsertJob(r)
  <2>1. PICK j \in Unused : /\ job' = [job EXCEPT ![j] = "queued"]
                            /\ request' = [request EXCEPT ![r] =
                                   [@ EXCEPT !.pc = "enqueue", !.changes = NoChange, !.job = j]]
    BY <1>13 DEF InsertJob
  <2> DEFINE x == [request[r] EXCEPT !.pc = "enqueue", !.changes = NoChange, !.job = j]
  <2>2. j \in Job /\ j \in 0 .. MaxJobs /\ request[r].pc # "idle" /\ IsRequest(request[r])
    BY <1>7, <1>13 DEF InsertJob, Unused, Job
  <2>3. x \in [pc: RequestPC, kind: Kind, then: {"reply", "start", "find"}, job: 0 .. MaxJobs,
               changes: {NoChange}] /\ x.changes = NoChange /\ x.job = j
    BY <2>2 DEF IsRequest, RequestPC
  <2>4. IsRequest(x)
    BY <1>8, <2>2, <2>3 DEF IsRequest
  <2>5. request' = [request EXCEPT ![r] = x]
    BY <1>1, <2>1 DEF RequestTypes
  <2> HIDE DEF x
  <2>6. RequestTypes'
    BY <1>1, <2>4, <2>5, RequestWritten
  <2>7. job' \in [Job -> JobStatus \cup {"none"}]
    BY <1>1, <2>1, <2>2 DEF TableTypes, JobStatus
  <2>8. tool' \in Tool /\ UNCHANGED <<worker, waiting, tries, dropped, hosting, faults>>
    BY <1>7, <1>13 DEF InsertJob
  <2>9. QED
    BY <1>1, <2>6, <2>7, <2>8 DEF ToolTypes, TableTypes, WorkerTypes, hosting
<1>14. CASE Enqueue(r) \/ EnqueueError(r)
  <2>1. request[r].job \in Job /\ request[r].pc # "idle"
    BY <1>7, <1>14 DEF Enqueue, EnqueueError, IsRequest
  <2>2. RequestTypes'
    BY <1>1, <1>14, <2>1, RequestGoes, RequestWritten DEF Enqueue, EnqueueError, RequestPC
  <2>3. waiting' \subseteq Job /\ faults' \in 0 .. MaxFaults
    BY <1>1, <1>14, <2>1 DEF Enqueue, EnqueueError, Strike, TableTypes
  <2>4. UNCHANGED <<tool, job, worker, tries, dropped, hosting>>
    BY <1>14 DEF Enqueue, EnqueueError
  <2>5. QED
    BY <1>1, <2>2, <2>3, <2>4 DEF ToolTypes, TableTypes, WorkerTypes, hosting
<1>15. CASE RefreshAfterError(r)
  <2>1. request[r].job \in Job /\ request[r].pc # "idle"
    BY <1>7, <1>15 DEF RefreshAfterError, IsRequest
  <2>2. RequestTypes'
    BY <1>1, <1>15, <2>1, RequestGoes, RefuseTypes DEF RefreshAfterError, RequestPC
  <2>3. QED
    BY <1>1, <1>9, <1>15, <2>2 DEF RefreshAfterError
<1>16. CASE FailJob(r)
  <2>1. request[r].job \in Job /\ request[r].pc # "idle"
    BY <1>7, <1>16 DEF FailJob, IsRequest
  <2>2. RequestTypes'
    BY <1>1, <1>16, <2>1, RefuseTypes DEF FailJob
  <2>3. job' \in [Job -> JobStatus \cup {"none"}]
    BY <1>1, <1>16, <2>1 DEF FailJob, TableTypes, JobStatus
  <2>4. UNCHANGED <<tool, worker, waiting, tries, dropped, hosting, faults>>
    BY <1>16 DEF FailJob
  <2>5. QED
    BY <1>1, <2>2, <2>3, <2>4 DEF ToolTypes, TableTypes, WorkerTypes, hosting
<1>17. CASE RejectTool(r)
  <2>1. RequestTypes'
    BY <1>1, <1>17, RequestWritten DEF RejectTool
  <2>2. QED
    BY <1>7, <1>9, <1>17, <2>1 DEF RejectTool
<1>18. CASE ApiCrash(r)
  <2>1. RequestTypes'
    BY <1>1, <1>18, RequestWritten DEF ApiCrash
  <2>2. faults' \in 0 .. MaxFaults
    BY <1>1, <1>18 DEF ApiCrash, Strike, TableTypes
  <2>3. UNCHANGED <<tool, job, worker, waiting, tries, dropped, hosting>>
    BY <1>18 DEF ApiCrash
  <2>4. QED
    BY <1>1, <2>1, <2>2, <2>3 DEF ToolTypes, TableTypes, WorkerTypes, hosting
<1>19. QED
  BY <1>2, <1>3, <1>4, <1>5, <1>6, <1>10, <1>11, <1>12, <1>13, <1>14, <1>15, <1>16, <1>17, <1>18
     DEF RequestProgress

\* The steps of the workers, and of the faults, keep the types.
LEMMA JobStepTypes ==
    ASSUME ToolTypes, NEW w \in Workers,
           WorkerProgress(w) \/ BuildError(w) \/ WorkerCrash(w) \/ AbortJob(w)
    PROVE  ToolTypes'
<1>1. tool \in Tool /\ TableTypes /\ RequestTypes /\ WorkerTypes
  BY DEF ToolTypes, TableTypes
<1>2. ASSUME worker[w].pc # "idle"
      PROVE  /\ IsWorker(worker[w]) /\ Flush(worker[w].changes) \in Tool
             /\ worker[w].job \in Job /\ worker[w].port \in {NoPort} \cup Ports
  BY <1>1, <1>2, BusyWorkerType, FlushTypes DEF IsWorker
<1>3. IsChange(NoChange)
  BY ConstantChanges
<1>4. ASSUME WorkerTypes', tool' \in Tool, waiting' \subseteq Job, dropped' \subseteq Job,
             job' \in [Job -> JobStatus \cup {"none"}], tries' \in [Job -> 0 .. MaxTries],
             ports' \subseteq Ports, container' \in {NoPort} \cup Ports,
             faults' \in 0 .. MaxFaults, UNCHANGED request
      PROVE  ToolTypes'
  BY <1>1, <1>4 DEF ToolTypes, TableTypes, RequestTypes
<1>5. ASSUME NEW x, IsWorker(x) \/ x = Idle, worker' = [worker EXCEPT ![w] = x]
      PROVE  WorkerTypes'
  BY <1>1, <1>5, WorkerWritten
\* What an outcome leaves.
<1>6. ASSUME NEW pc \in WorkerPC, worker[w].pc # "idle", Outcome(w, pc) PROVE WorkerTypes'
  <2> DEFINE x == [worker[w] EXCEPT !.pc = pc, !.port = NoPort, !.endpoint = NoPort,
                                    !.changes = NoChange]
  <2>1. x \in [pc: WorkerPC, job: Job, try: 1 .. MaxTries, port: {NoPort} \cup Ports,
               endpoint: Endpoint, changes: {NoChange}] /\ x.changes = NoChange
    BY <1>2, <1>6 DEF IsWorker, Endpoint
  <2>2. IsWorker(x)
    BY <1>3, <2>1 DEF IsWorker
  <2>3. worker' = [worker EXCEPT ![w] = x]
    BY <1>1, <1>6 DEF Outcome, WorkerTypes
  <2> HIDE DEF x
  <2>4. QED
    BY <1>5, <2>2, <2>3
<1>7. ASSUME NEW j \in Job, StartJob(w, j) PROVE ToolTypes'
  <2>1. CASE Runs(j)
    <3> DEFINE x == [pc |-> "load", job |-> j, try |-> tries[j] + 1, port |-> NoPort,
                     endpoint |-> NoPort, changes |-> NoChange]
    <3>1. tries[j] + 1 \in 1 .. MaxTries /\ tries[j] + 1 \in 0 .. MaxTries
      BY <1>1, <2>1 DEF TableTypes, Runs
    <3>2. IsWorker(x)
      BY <1>3, <3>1 DEF IsWorker, WorkerPC, Endpoint
    <3>3. /\ worker' = [worker EXCEPT ![w] = x] /\ waiting' = waiting \ {j}
          /\ tries' = [tries EXCEPT ![j] = @ + 1] /\ job' = [job EXCEPT ![j] = "running"]
          /\ UNCHANGED <<dropped, tool, request, hosting, faults>>
      BY <1>7, <2>1 DEF StartJob
    <3> HIDE DEF x
    <3>4. WorkerTypes'
      BY <1>5, <3>2, <3>3
    <3>5. QED
      BY <1>1, <1>4, <3>1, <3>3, <3>4 DEF TableTypes, JobStatus, hosting
  <2>2. CASE ~ Runs(j)
    BY <1>1, <1>7, <2>2 DEF StartJob, ToolTypes, TableTypes, RequestTypes, WorkerTypes, hosting
  <2>3. QED
    BY <2>1, <2>2
<1>8. CASE LoadTool(w)
  <2> DEFINE c == Changed([tool EXCEPT !.status = "processing"])
             x == [worker[w] EXCEPT !.pc = "open", !.endpoint = tool.endpoint, !.changes = c]
  <2>1. [tool EXCEPT !.status = "processing"] \in Tool /\ tool.endpoint \in Endpoint
    BY <1>1 DEF Tool, ToolStatus
  <2>2. IsChange(c)
    BY <1>1, <2>1, AssignedTypes
  <2> HIDE DEF c
  <2>3. x \in [pc: WorkerPC, job: Job, try: 1 .. MaxTries, port: {NoPort} \cup Ports,
               endpoint: Endpoint, changes: {c}] /\ x.changes = c
    BY <1>2, <1>8, <2>1 DEF LoadTool, IsWorker, WorkerPC
  <2>4. IsWorker(x)
    BY <2>2, <2>3 DEF IsWorker
  <2>5. worker' = [worker EXCEPT ![w] = x]
    BY <1>1, <1>8 DEF LoadTool, WorkerTypes, c
  <2> HIDE DEF x
  <2>6. WorkerTypes'
    BY <1>5, <2>4, <2>5
  <2>7. QED
    BY <1>1, <1>4, <1>8, <2>6 DEF LoadTool, TableTypes, hosting
<1>9. CASE OpenTool(w)
  <2> DEFINE x == [worker[w] EXCEPT !.pc = "build", !.changes = NoChange]
  <2>1. x \in [pc: WorkerPC, job: Job, try: 1 .. MaxTries, port: {NoPort} \cup Ports,
               endpoint: Endpoint, changes: {NoChange}] /\ x.changes = NoChange
    BY <1>2, <1>9 DEF OpenTool, IsWorker, WorkerPC
  <2>2. IsWorker(x)
    BY <1>3, <2>1 DEF IsWorker
  <2>3. worker' = [worker EXCEPT ![w] = x]
    BY <1>1, <1>9 DEF OpenTool, WorkerTypes
  <2> HIDE DEF x
  <2>4. WorkerTypes'
    BY <1>5, <2>2, <2>3
  <2>5. QED
    BY <1>1, <1>2, <1>4, <1>9, <2>4 DEF OpenTool, TableTypes, hosting
<1>10. CASE Build(w)
  <2>1. PICK pc \in {"allocate", "publish"} : Goto(w, pc)
    BY <1>10 DEF Build
  <2>2. WorkerTypes'
    BY <1>1, <1>10, <2>1, GotoTypes DEF Build, WorkerPC
  <2>3. QED
    BY <1>1, <1>4, <1>10, <2>2 DEF Build, TableTypes, hosting
<1>11. CASE Allocate(w)
  <2>1. ASSUME NEW p \in Ports, ports' = ports \cup {p},
               worker' = [worker EXCEPT ![w] = [@ EXCEPT !.pc = "deploy", !.port = p]]
        PROVE  WorkerTypes' /\ ports' \subseteq Ports
    <3> DEFINE x == [worker[w] EXCEPT !.pc = "deploy", !.port = p]
    <3>1. x \in [pc: WorkerPC, job: Job, try: 1 .. MaxTries, port: {NoPort} \cup Ports,
                 endpoint: Endpoint, changes: {worker[w].changes}]
          /\ x.changes = worker[w].changes
      BY <1>2, <1>11 DEF Allocate, IsWorker, WorkerPC
    <3>2. IsWorker(x)
      BY <1>2, <1>11, <3>1 DEF Allocate, IsWorker
    <3>3. worker' = [worker EXCEPT ![w] = x]
      BY <1>1, <2>1 DEF WorkerTypes
    <3> HIDE DEF x
    <3>4. QED
      BY <1>1, <1>5, <2>1, <3>2, <3>3 DEF TableTypes
  <2>2. ASSUME Goto(w, "reject"), UNCHANGED ports PROVE WorkerTypes' /\ ports' \subseteq Ports
    BY <1>1, <1>11, <2>2, GotoTypes DEF Allocate, WorkerPC, TableTypes
  <2>3. WorkerTypes' /\ ports' \subseteq Ports
    BY <1>11, <2>1, <2>2 DEF Allocate
  <2>4. QED
    BY <1>1, <1>4, <1>11, <2>3 DEF Allocate, TableTypes
<1>12. CASE Deploy(w)
  <2>1. WorkerTypes'
    BY <1>1, <1>12, GotoTypes DEF Deploy, WorkerPC
  <2>2. QED
    BY <1>1, <1>2, <1>4, <1>12, <2>1 DEF Deploy, TableTypes
<1>13. CASE Publish(w)
  <2> DEFINE c == Over(NewEndpoint(w), [status |-> "draft", command |-> TRUE])
  <2>1. IsChange(c)
    BY <1>2, <1>13, EndpointChange, ConstantChanges, BothChange DEF Publish, ToolStatus
  <2>2. tool' = Flush(c) /\ Outcome(w, "succeed") /\ worker[w].pc # "idle"
        /\ UNCHANGED <<job, request, waiting, tries, dropped, hosting, faults>>
    BY <1>13 DEF Publish
  <2> HIDE DEF c
  <2>3. tool' \in Tool
    BY <1>1, <2>1, <2>2, FlushTypes
  <2>4. WorkerTypes'
    BY <1>6, <2>2 DEF WorkerPC
  <2>5. QED
    BY <1>1, <1>4, <2>2, <2>3, <2>4 DEF TableTypes, hosting
<1>14. CASE BuildError(w)
  <2> DEFINE c == IF worker[w].pc = "publish" THEN NewEndpoint(w) ELSE NoChange
             pc == IF worker[w].port = NoPort THEN "reject" ELSE "cleanup"
             x == [worker[w] EXCEPT !.pc = pc, !.changes = c]
  <2>1. IsChange(c)
    BY <1>2, <1>3, <1>14, EndpointChange DEF BuildError
  <2>2. pc \in WorkerPC /\ worker[w].pc # "idle"
    BY <1>14 DEF BuildError, WorkerPC
  <2> HIDE DEF c, pc
  <2>3. x \in [pc: WorkerPC, job: Job, try: 1 .. MaxTries, port: {NoPort} \cup Ports,
               endpoint: Endpoint, changes: {c}] /\ x.changes = c
    BY <1>2, <2>2 DEF IsWorker
  <2>4. IsWorker(x)
    BY <2>1, <2>3 DEF IsWorker
  <2>5. worker' = [worker EXCEPT ![w] = x]
    BY <1>1, <1>14 DEF BuildError, WorkerTypes, c, pc
  <2> HIDE DEF x
  <2>6. WorkerTypes'
    BY <1>5, <2>4, <2>5
  <2>7. QED
    BY <1>1, <1>4, <1>14, <2>6 DEF BuildError, Strike, TableTypes, hosting
<1>15. CASE RemoveContainer(w)
  <2>1. WorkerTypes'
    BY <1>1, <1>15, GotoTypes DEF RemoveContainer, WorkerPC
  <2>2. QED
    BY <1>1, <1>4, <1>15, <2>1 DEF RemoveContainer, TableTypes
<1>16. CASE ReleasePort(w)
  <2> DEFINE x == [worker[w] EXCEPT !.pc = "reject", !.port = NoPort]
  <2>1. x \in [pc: WorkerPC, job: Job, try: 1 .. MaxTries, port: {NoPort} \cup Ports,
               endpoint: Endpoint, changes: {worker[w].changes}]
        /\ x.changes = worker[w].changes
    BY <1>2, <1>16 DEF ReleasePort, IsWorker, WorkerPC
  <2>2. IsWorker(x)
    BY <1>2, <1>16, <2>1 DEF ReleasePort, IsWorker
  <2>3. worker' = [worker EXCEPT ![w] = x]
    BY <1>1, <1>16 DEF ReleasePort, WorkerTypes
  <2> HIDE DEF x
  <2>4. WorkerTypes'
    BY <1>5, <2>2, <2>3
  <2>5. QED
    BY <1>1, <1>4, <1>16, <2>4 DEF ReleasePort, TableTypes
<1>17. CASE Reject(w)
  <2> DEFINE d == IF worker[w].try >= MaxTries THEN Status("rejected") ELSE NoChange
             c == Over(worker[w].changes, d)
  <2>1. IsChange(d)
    BY <1>3, ConstantChanges DEF ToolStatus
  <2>2. /\ tool' = Flush(c) /\ Outcome(w, "fail") /\ worker[w].pc # "idle"
        /\ UNCHANGED <<job, request, waiting, tries, dropped, hosting, faults>>
    BY <1>17 DEF Reject
  <2> HIDE DEF d
  <2>3. IsChange(c)
    BY <1>2, <2>1, <2>2, BothChange DEF IsWorker
  <2> HIDE DEF c
  <2>4. tool' \in Tool
    BY <1>1, <2>2, <2>3, FlushTypes
  <2>5. WorkerTypes'
    BY <1>6, <2>2 DEF WorkerPC
  <2>6. QED
    BY <1>1, <1>4, <2>2, <2>4, <2>5 DEF TableTypes, hosting
<1>18. CASE Settle(w)
  <2>1. PICK s \in {"succeeded", "failed", "retrying"} : job' = [job EXCEPT ![worker[w].job] = s]
    BY <1>18 DEF Settle
  <2>2. PICK pc \in {"return", "retry"} : Goto(w, pc)
    BY <1>18 DEF Settle
  <2>3. WorkerTypes'
    BY <1>1, <1>18, <2>2, GotoTypes DEF Settle, WorkerPC
  <2>4. job' \in [Job -> JobStatus \cup {"none"}]
    BY <1>1, <2>1 DEF TableTypes, JobStatus
  <2>5. QED
    BY <1>1, <1>4, <1>18, <2>3, <2>4 DEF Settle, TableTypes, hosting
<1>19. CASE FinishJob(w) \/ DeferJob(w) \/ WorkerCrash(w) \/ AbortJob(w)
  <2>1. worker[w].pc # "idle" /\ worker' = [worker EXCEPT ![w] = Idle]
    BY <1>19 DEF FinishJob, DeferJob, WorkerCrash, AbortJob
  <2>2. WorkerTypes'
    BY <1>5, <2>1
  <2>3. /\ waiting' \in {waiting, waiting \cup {worker[w].job}}
        /\ dropped' \in {dropped, dropped \cup {worker[w].job}}
        /\ faults' \in 0 .. MaxFaults
        /\ UNCHANGED <<tool, job, request, tries, hosting>>
    BY <1>1, <1>19 DEF FinishJob, DeferJob, WorkerCrash, AbortJob, Strike, TableTypes
  <2>4. QED
    BY <1>1, <1>2, <1>4, <2>1, <2>2, <2>3 DEF TableTypes, hosting
<1>20. QED
  BY <1>7, <1>8, <1>9, <1>10, <1>11, <1>12, <1>13, <1>14, <1>15, <1>16, <1>17, <1>18, <1>19
     DEF WorkerProgress

LEMMA ToolTypesStep == ToolTypes /\ [Next]_vars => ToolTypes'
<1> SUFFICES ASSUME ToolTypes, [Next]_vars PROVE ToolTypes'
  OBVIOUS
<1>1. ASSUME NEW j \in Job, ExpireJob(j) PROVE ToolTypes'
  BY <1>1 DEF ExpireJob, Strike, ToolTypes, TableTypes, RequestTypes, WorkerTypes, hosting
<1>2. CASE UNCHANGED vars
  BY <1>2 DEF vars, hosting, ToolTypes, TableTypes, RequestTypes, WorkerTypes
<1>3. QED
  BY <1>1, <1>2, ApiTypes, JobStepTypes DEF Next

LEMMA ToolTypesHold == Spec => []ToolTypes
<1>1. Init => ToolTypes
  BY DEF Init, ToolTypes, TableTypes, RequestTypes, WorkerTypes, Tool, ToolStatus, Endpoint
<1>2. QED
  BY <1>1, ToolTypesStep, PTL DEF Spec

\* The rows, the sessions and the jobs are always well typed: whatever is committed over
\* the tool leaves a row with every column (process_upload, configure_tool), and no try
\* goes beyond the last.
THEOREM ToolTypesCorrect == Spec => []TypeOK
<1>1. ToolTypes => TypeOK
  <2> SUFFICES ASSUME ToolTypes PROVE TypeOK
    OBVIOUS
  <2>1. TableTypes /\ RequestTypes /\ WorkerTypes /\ tool \in Tool
    BY DEF ToolTypes, TableTypes
  <2>2. \A r \in Requests : request[r] # Idle =>
           IsRequest(request[r]) /\ Flush(request[r].changes) \in Tool
    BY <2>1, FlushTypes DEF RequestTypes, IsRequest
  <2>3. \A w \in Workers : worker[w] # Idle =>
           IsWorker(worker[w]) /\ Flush(worker[w].changes) \in Tool
    BY <2>1, FlushTypes DEF WorkerTypes, IsWorker
  <2>4. QED
    BY <2>1, <2>2, <2>3 DEF TypeOK, TableTypes, IsRequest, IsWorker
<1>2. QED
  BY <1>1, ToolTypesHold, PTL

(***************************************************************************)
(* A job whose row says that it succeeded is not run again.                *)
(***************************************************************************)

Enqueuing(r) == request[r].pc = "enqueue"
Runner(w)    == worker[w].pc # "idle"

\* A job that exists is with the request that will enqueue it, or in the queue, or with
\* one worker, and in one of these places only.
JobsAreInOnePlace ==
    /\ \A r \in Requests : Enqueuing(r) =>
          /\ job[request[r].job] # "none" /\ request[r].job \notin waiting
          /\ \A w \in Workers : Runner(w) => worker[w].job # request[r].job
          /\ \A q \in Requests : q # r /\ Enqueuing(q) => request[q].job # request[r].job
    /\ \A j \in waiting : job[j] # "none"
    /\ \A w \in Workers : Runner(w) =>
          /\ job[worker[w].job] # "none" /\ worker[w].job \notin waiting
          /\ \A v \in Workers : v # w /\ Runner(v) => worker[v].job # worker[w].job

\* A worker that has an outcome to record is the first to record success.
UnsettledHasNotSucceeded ==
    \A w \in Workers : worker[w].pc \notin {"idle", "return"} => job[worker[w].job] # "succeeded"

RunInv == JobsAreInOnePlace /\ UnsettledHasNotSucceeded

\* Nothing of what the invariant speaks of changes.
LEMMA RunFrame ==
    ASSUME RunInv, UNCHANGED <<job, waiting, worker>>,
           \A r \in Requests : Enqueuing(r)' => Enqueuing(r) /\ request'[r].job = request[r].job
    PROVE  RunInv'
BY DEF RunInv, JobsAreInOnePlace, UnsettledHasNotSucceeded, Runner

\* Success is kept unless a request that read the job before fails it.
JobKept == \A j \in Job : job[j] = "succeeded" => job'[j] = "succeeded" \/ FailedLate(j)

LEMMA RequestsRunOnce ==
    ASSUME ToolTypes, RunInv, NEW r \in Requests,
           \/ Upload(r)
           \/ \E url, command \in BOOLEAN : Configure(r, url, command)
           \/ \E status \in ToolStatus : Review(r, status)
           \/ Pause(r)
           \/ \E j \in Job : Retry(r, j)
           \/ RequestProgress(r)
           \/ EnqueueError(r)
           \/ ApiCrash(r)
    PROVE  RunInv' /\ JobKept
<1>1. /\ request = [q \in Requests |-> request[q]]
      /\ request[r].pc # "idle" => IsRequest(request[r])
      /\ job \in [Job -> JobStatus \cup {"none"}]
      /\ \A w \in Workers : Runner(w) => worker[w].job \in Job
  BY BusyRequestType, BusyWorkerType DEF ToolTypes, TableTypes, RequestTypes, IsWorker, Runner
<1>2. ASSUME NEW x, x.pc # "enqueue", request' = [request EXCEPT ![r] = x],
             UNCHANGED <<job, waiting, worker>>
      PROVE  RunInv' /\ JobKept
  <2>1. \A q \in Requests : Enqueuing(q)' => Enqueuing(q) /\ request'[q].job = request[q].job
    BY <1>1, <1>2 DEF Enqueuing
  <2>2. QED
    BY <1>2, <2>1, RunFrame DEF JobKept
<1>3. ASSUME NEW pc, pc # "enqueue", NEW c, request[r].pc # "idle"
      PROVE  [request[r] EXCEPT !.pc = pc, !.changes = c].pc # "enqueue"
  BY <1>1, <1>3 DEF IsRequest
<1>4. Idle.pc # "enqueue"
  BY DEF Idle
<1>5. ASSUME request[r].pc # "idle", request' = Refuse(r)
      PROVE  \E x : x.pc # "enqueue" /\ request' = [request EXCEPT ![r] = x]
  BY <1>1, <1>3, <1>4, <1>5 DEF Refuse, Committed
<1>6. CASE Upload(r) \/ (\E url, command \in BOOLEAN : Configure(r, url, command))
           \/ (\E status \in ToolStatus : Review(r, status)) \/ Pause(r)
  <2>1. PICK kind, new, then : Open(r, kind, new, then)
    BY <1>6 DEF Upload, Configure, Review, Pause
  <2>2. QED
    BY <1>2, <2>1 DEF Open
<1>7. CASE \E j \in Job : Retry(r, j)
  BY <1>2, <1>7 DEF Retry
<1>8. CASE Commit(r)
  <2>1. \E x : x.pc # "enqueue" /\ request' = [request EXCEPT ![r] = x]
    <3>1. \/ request' = [request EXCEPT ![r] = Idle]
          \/ \E pc \in {"start", "find"} : \E c : request' = Committed(r, pc, c)
      BY <1>8, Zenon DEF Commit
    <3>2. request[r].pc # "idle"
      BY <1>8 DEF Commit
    <3>3. ASSUME NEW pc \in {"start", "find"}, NEW c, request' = Committed(r, pc, c)
          PROVE  \E x : x.pc # "enqueue" /\ request' = [request EXCEPT ![r] = x]
      <4>1. [request[r] EXCEPT !.pc = pc, !.changes = c].pc # "enqueue"
        BY <1>3, <3>2
      <4>2. request' = [request EXCEPT ![r] = [request[r] EXCEPT !.pc = pc, !.changes = c]]
        BY <1>1, <3>3 DEF Committed
      <4>3. QED
        BY <4>1, <4>2
    <3>4. QED
      BY <1>4, <3>1, <3>3
  <2>2. QED
    BY <1>2, <1>8, <2>1 DEF Commit
<1>9. CASE StartProcessing(r) \/ FindJob(r) \/ RejectTool(r) \/ ApiCrash(r) \/ RefreshAfterError(r)
  <2>1. request[r].pc # "idle" /\ UNCHANGED <<job, waiting, worker>>
    BY <1>9 DEF StartProcessing, FindJob, RejectTool, ApiCrash, RefreshAfterError
  <2>2. \E x : x.pc # "enqueue" /\ request' = [request EXCEPT ![r] = x]
    <3>1. \/ request' = [request EXCEPT ![r] = Idle]
          \/ \E pc \in {"insert", "fail"} : request' = [request EXCEPT ![r].pc = pc]
          \/ \E c : request' = Committed(r, "find", c)
          \/ request' = Refuse(r)
      BY <1>9, Zenon DEF StartProcessing, FindJob, RejectTool, ApiCrash, RefreshAfterError
    <3>2. ASSUME NEW pc \in {"insert", "fail"} PROVE [request[r] EXCEPT !.pc = pc].pc # "enqueue"
      BY <1>1, <2>1, <3>2 DEF IsRequest
    <3>3. QED
      BY <1>1, <1>3, <1>4, <1>5, <2>1, <3>1, <3>2 DEF Committed
  <2>3. QED
    BY <1>2, <2>1, <2>2
<1>10. CASE FailJob(r)
  <2>1. request[r].pc # "idle" /\ UNCHANGED <<waiting, worker>>
        /\ job' = [job EXCEPT ![request[r].job] = "failed"]
    BY <1>10 DEF FailJob
  <2>2. PICK x : x.pc # "enqueue" /\ request' = [request EXCEPT ![r] = x]
    BY <1>5, <1>10, <2>1 DEF FailJob
  <2>3. \A j \in Job : job'[j] \in {job[j], "failed"} /\ (job'[j] = "none" => job[j] = "none")
    BY <1>1, <2>1
  <2>4. \A q \in Requests : Enqueuing(q)' => Enqueuing(q) /\ request'[q].job = request[q].job
                                             /\ q # r /\ request[q].job \in Job
    BY <1>1, <2>2, BusyRequestType DEF Enqueuing, IsRequest, ToolTypes
  <2>5. waiting \subseteq Job
    BY DEF ToolTypes, TableTypes
  <2>6. JobsAreInOnePlace'
    <3>1. \A w \in Workers : Runner(w)' = Runner(w)
      BY <2>1 DEF Runner
    <3>2. \A j \in Job : job[j] # "none" => job'[j] # "none"
      BY <2>3
    <3>3. QED
      BY <1>1, <2>1, <2>4, <2>5, <3>1, <3>2 DEF RunInv, JobsAreInOnePlace
  <2>7. UnsettledHasNotSucceeded'
    BY <1>1, <2>1, <2>3 DEF RunInv, UnsettledHasNotSucceeded, Runner
  <2>8. JobKept
    <3> SUFFICES ASSUME NEW j \in Job, job[j] = "succeeded"
                 PROVE  job'[j] = "succeeded" \/ FailedLate(j)
      BY DEF JobKept
    <3>1. CASE j = request[r].job
      BY <1>1, <1>10, <2>1, <3>1 DEF FailJob, FailedLate
    <3>2. CASE j # request[r].job
      BY <1>1, <2>1, <3>2
    <3>3. QED
      BY <3>1, <3>2
  <2>9. QED
    BY <2>6, <2>7, <2>8 DEF RunInv
<1>11. CASE InsertJob(r)
  <2>1. PICK j \in Unused : /\ job' = [job EXCEPT ![j] = "queued"]
                            /\ request' = [request EXCEPT ![r] =
                                   [@ EXCEPT !.pc = "enqueue", !.changes = NoChange, !.job = j]]
    BY <1>11 DEF InsertJob
  <2>2. j \in Job /\ job[j] = "none" /\ request[r].pc # "idle" /\ request[r].pc # "enqueue"
        /\ UNCHANGED <<waiting, worker>>
    BY <1>11 DEF InsertJob, Unused
  <2>3. /\ request'[r].job = j
        /\ \A q \in Requests : q # r => request'[q] = request[q]
    BY <1>1, <2>1, <2>2 DEF IsRequest
  <2>4. /\ job'[j] = "queued" /\ \A k \in Job : k # j => job'[k] = job[k]
    BY <1>1, <2>1, <2>2
  <2>5. /\ j \notin waiting
        /\ \A w \in Workers : Runner(w) => worker[w].job # j
        /\ \A q \in Requests : Enqueuing(q) => request[q].job # j /\ request[q].job \in Job
    BY <2>2, BusyRequestType DEF RunInv, JobsAreInOnePlace, Enqueuing, IsRequest, ToolTypes
  <2>6. waiting \subseteq Job /\ \A w \in Workers : Runner(w)' = Runner(w)
    BY <2>2 DEF ToolTypes, TableTypes, Runner
  <2>7. \A q \in Requests : q # r => Enqueuing(q)' = Enqueuing(q)
    BY <2>3 DEF Enqueuing
  <2>8. JobsAreInOnePlace'
    <3>1. \A q \in Requests : Enqueuing(q)' =>
             /\ job'[request'[q].job] # "none" /\ request'[q].job \notin waiting'
             /\ \A w \in Workers : Runner(w)' => worker'[w].job # request'[q].job
      BY <2>2, <2>3, <2>4, <2>5, <2>6, <2>7 DEF RunInv, JobsAreInOnePlace
    <3>2. \A q, p \in Requests : q # p /\ Enqueuing(q)' /\ Enqueuing(p)' => request'[q].job # request'[p].job
      BY <2>3, <2>5, <2>7 DEF RunInv, JobsAreInOnePlace
    <3>3. \A k \in waiting' : job'[k] # "none"
      BY <2>2, <2>4, <2>5, <2>6 DEF RunInv, JobsAreInOnePlace
    <3>4. \A w \in Workers : Runner(w)' =>
             /\ job'[worker'[w].job] # "none" /\ worker'[w].job \notin waiting'
             /\ \A v \in Workers : v # w /\ Runner(v)' => worker'[v].job # worker'[w].job
      BY <1>1, <2>2, <2>4, <2>5, <2>6 DEF RunInv, JobsAreInOnePlace
    <3>5. QED
      BY <3>1, <3>2, <3>3, <3>4 DEF JobsAreInOnePlace
  <2>9. UnsettledHasNotSucceeded'
    BY <1>1, <2>2, <2>4, <2>5 DEF RunInv, UnsettledHasNotSucceeded, Runner
  <2>10. QED
    BY <2>2, <2>4, <2>8, <2>9 DEF RunInv, JobKept
<1>12. CASE Enqueue(r) \/ EnqueueError(r)
  <2>1. /\ Enqueuing(r) /\ request[r].job \in Job /\ UNCHANGED <<job, worker>>
        /\ waiting' \in {waiting, waiting \cup {request[r].job}}
    BY <1>1, <1>12 DEF Enqueue, EnqueueError, Enqueuing, IsRequest
  <2>2. request'[r].pc # "enqueue" /\ \A q \in Requests : q # r => request'[q] = request[q]
    BY <1>1, <1>12 DEF Enqueue, EnqueueError, Idle, IsRequest
  <2>3. /\ \A w \in Workers : Runner(w)' = Runner(w)
        /\ \A q \in Requests : Enqueuing(q)' => q # r /\ Enqueuing(q) /\ request'[q] = request[q]
    BY <2>1, <2>2 DEF Runner, Enqueuing
  <2>4. JobsAreInOnePlace'
    BY <2>1, <2>3 DEF RunInv, JobsAreInOnePlace
  <2>5. QED
    BY <2>1, <2>4 DEF RunInv, UnsettledHasNotSucceeded, JobKept
<1>13. QED
  BY <1>6, <1>7, <1>8, <1>9, <1>10, <1>11, <1>12 DEF RequestProgress

\* The move of a worker that keeps its job and has no outcome recorded yet, or none of
\* success.
LEMMA WorkerGoes ==
    ASSUME ToolTypes, RunInv, NEW w \in Workers, worker[w].pc \notin {"idle", "return"},
           NEW x, x.pc # "idle", x.job = worker[w].job,
           worker' = [worker EXCEPT ![w] = x], UNCHANGED <<request, waiting>>,
           NEW s, job' = [job EXCEPT ![worker[w].job] = s] /\ s # "none",
           s = "succeeded" => x.pc = "return"
    PROVE  RunInv' /\ JobKept
<1>1. /\ worker[w].job \in Job /\ waiting \subseteq Job
      /\ job \in [Job -> JobStatus \cup {"none"}] /\ worker = [v \in Workers |-> worker[v]]
      /\ \A v \in Workers : Runner(v) => worker[v].job \in Job
      /\ \A r \in Requests : Enqueuing(r) => request[r].job \in Job
  BY BusyWorkerType, BusyRequestType
     DEF ToolTypes, TableTypes, WorkerTypes, IsWorker, IsRequest, Runner, Enqueuing
<1>2. /\ worker'[w] = x /\ \A v \in Workers : v # w => worker'[v] = worker[v]
      /\ Runner(w) /\ Runner(w)' /\ \A v \in Workers : Runner(v)' = Runner(v)
      /\ \A v \in Workers : worker'[v].job = worker[v].job
  BY <1>1 DEF Runner
<1>3. \A j \in Job : (j # worker[w].job => job'[j] = job[j]) /\ (job[j] # "none" => job'[j] # "none")
  BY <1>1
<1>4. \A r \in Requests : Enqueuing(r)' = Enqueuing(r)
  BY DEF Enqueuing
<1>5. JobsAreInOnePlace'
  BY <1>1, <1>2, <1>3, <1>4 DEF RunInv, JobsAreInOnePlace
<1>6. UnsettledHasNotSucceeded'
  <2>1. \A v \in Workers : v # w /\ Runner(v) => worker[v].job # worker[w].job
    BY <1>2 DEF RunInv, JobsAreInOnePlace
  <2>2. job'[worker[w].job] = s
    BY <1>1
  <2>3. QED
    BY <1>1, <1>2, <1>3, <2>1, <2>2 DEF RunInv, UnsettledHasNotSucceeded, Runner
<1>7. job[worker[w].job] # "succeeded"
  BY DEF RunInv, UnsettledHasNotSucceeded
<1>8. QED
  BY <1>3, <1>5, <1>6, <1>7 DEF RunInv, JobKept

\* The worker that leaves its job, in the queue or done.
LEMMA WorkerStops ==
    ASSUME ToolTypes, RunInv, NEW w \in Workers, worker[w].pc # "idle",
           worker' = [worker EXCEPT ![w] = Idle], UNCHANGED <<request, job>>,
           waiting' \in {waiting, waiting \cup {worker[w].job}}
    PROVE  RunInv' /\ JobKept
<1>1. /\ worker[w].job \in Job /\ worker = [v \in Workers |-> worker[v]]
      /\ \A r \in Requests : Enqueuing(r)' = Enqueuing(r)
  BY BusyWorkerType DEF ToolTypes, WorkerTypes, IsWorker, Enqueuing
<1>2. /\ Runner(w) /\ worker'[w].pc = "idle"
      /\ \A v \in Workers : v # w => worker'[v] = worker[v]
  BY <1>1 DEF Runner, Idle
<1>3. \A v \in Workers : Runner(v)' => v # w /\ Runner(v) /\ worker'[v] = worker[v]
  BY <1>2 DEF Runner
<1>4. JobsAreInOnePlace'
  BY <1>1, <1>2, <1>3 DEF RunInv, JobsAreInOnePlace
<1>5. UnsettledHasNotSucceeded'
  BY <1>2 DEF RunInv, UnsettledHasNotSucceeded
<1>6. QED
  BY <1>4, <1>5 DEF RunInv, JobKept

LEMMA JobsRunOnce ==
    ASSUME ToolTypes, RunInv, NEW w \in Workers,
           WorkerProgress(w) \/ BuildError(w) \/ WorkerCrash(w) \/ AbortJob(w)
    PROVE  RunInv' /\ JobKept
<1>1. /\ worker = [v \in Workers |-> worker[v]] /\ job \in [Job -> JobStatus \cup {"none"}]
      /\ worker[w].pc # "idle" => IsWorker(worker[w]) /\ worker[w].job \in Job
      /\ \A j \in waiting : j \in Job
  BY BusyWorkerType DEF ToolTypes, TableTypes, WorkerTypes, IsWorker
\* The moves that leave the row of the job alone.
<1>2. ASSUME worker[w].pc \notin {"idle", "return"}, NEW x, x.pc \notin {"idle", "return"},
             x.job = worker[w].job, worker' = [worker EXCEPT ![w] = x],
             UNCHANGED <<request, waiting, job>>
      PROVE  RunInv' /\ JobKept
  <2>1. job' = [job EXCEPT ![worker[w].job] = job[worker[w].job]]
    BY <1>1, <1>2
  <2>2. /\ job[worker[w].job] # "none" /\ job[worker[w].job] # "succeeded"
    BY <1>2 DEF RunInv, JobsAreInOnePlace, UnsettledHasNotSucceeded, Runner
  <2>3. QED
    BY <1>2, <2>1, <2>2, WorkerGoes
<1>3. ASSUME NEW pc, worker[w].pc # "idle", Goto(w, pc)
      PROVE  \E x : x.pc = pc /\ x.job = worker[w].job /\ worker' = [worker EXCEPT ![w] = x]
  <2>1. worker' = [worker EXCEPT ![w] = [worker[w] EXCEPT !.pc = pc]]
    BY <1>1, <1>3 DEF Goto
  <2>2. [worker[w] EXCEPT !.pc = pc].pc = pc /\ [worker[w] EXCEPT !.pc = pc].job = worker[w].job
    BY <1>1, <1>3 DEF IsWorker
  <2>3. QED
    BY <2>1, <2>2
<1>4. CASE \E j \in Job : StartJob(w, j)
  <2>1. PICK j \in Job : StartJob(w, j)
    BY <1>4
  <2>2. j \in waiting /\ worker[w].pc = "idle" /\ waiting' = waiting \ {j} /\ UNCHANGED request
        /\ \A r \in Requests : Enqueuing(r)' = Enqueuing(r)
    BY <2>1 DEF StartJob, Enqueuing
  <2>3. ASSUME NEW r \in Requests, Enqueuing(r) PROVE request[r].job # j /\ request[r].job \in Job
    BY <2>2, <2>3, BusyRequestType DEF RunInv, JobsAreInOnePlace, Enqueuing, IsRequest, ToolTypes
  <2>4. ASSUME NEW v \in Workers, Runner(v) PROVE v # w /\ worker[v].job # j /\ worker[v].job \in Job
    BY <2>2, <2>4, BusyWorkerType
       DEF RunInv, JobsAreInOnePlace, Runner, IsWorker, ToolTypes, WorkerTypes
  <2>5. CASE Runs(j)
    <3>1. /\ job' = [job EXCEPT ![j] = "running"] /\ job[j] # "succeeded"
          /\ worker'[w].pc = "load" /\ worker'[w].job = j
          /\ \A v \in Workers : v # w => worker'[v] = worker[v]
      BY <1>1, <2>1, <2>5 DEF StartJob, Runs
    <3>2. job'[j] = "running" /\ \A k \in Job : k # j => job'[k] = job[k]
      BY <1>1, <3>1
    <3>3. /\ Runner(w)' /\ \A v \in Workers : v # w => Runner(v)' = Runner(v)
      BY <3>1 DEF Runner
    <3>4. JobsAreInOnePlace'
      <4>1. \A r \in Requests : Enqueuing(r)' =>
               /\ job'[request'[r].job] # "none" /\ request'[r].job \notin waiting'
               /\ \A v \in Workers : Runner(v)' => worker'[v].job # request'[r].job
               /\ \A q \in Requests : q # r /\ Enqueuing(q)' => request'[q].job # request'[r].job
        BY <2>2, <2>3, <3>1, <3>2, <3>3 DEF RunInv, JobsAreInOnePlace
      <4>2. \A k \in waiting' : job'[k] # "none"
        BY <1>1, <2>2, <3>2 DEF RunInv, JobsAreInOnePlace
      <4>3. \A v \in Workers : Runner(v)' =>
               /\ job'[worker'[v].job] # "none" /\ worker'[v].job \notin waiting'
               /\ \A u \in Workers : u # v /\ Runner(u)' => worker'[u].job # worker'[v].job
        BY <2>2, <2>4, <3>1, <3>2, <3>3 DEF RunInv, JobsAreInOnePlace
      <4>4. QED
        BY <4>1, <4>2, <4>3 DEF JobsAreInOnePlace
    <3>5. UnsettledHasNotSucceeded'
      BY <2>4, <3>1, <3>2, <3>3 DEF RunInv, UnsettledHasNotSucceeded, Runner
    <3>6. QED
      BY <3>1, <3>2, <3>4, <3>5 DEF RunInv, JobKept
  <2>6. CASE ~ Runs(j)
    <3>1. UNCHANGED <<job, worker, request>> /\ \A v \in Workers : Runner(v)' = Runner(v)
      BY <2>1, <2>6 DEF StartJob, Runner
    <3>2. QED
      BY <2>2, <3>1 DEF RunInv, JobsAreInOnePlace, UnsettledHasNotSucceeded, JobKept
  <2>7. QED
    BY <2>5, <2>6
<1>5. CASE Build(w) \/ Deploy(w) \/ RemoveContainer(w)
  <2>1. PICK pc : pc \notin {"idle", "return"} /\ Goto(w, pc)
    BY <1>5 DEF Build, Deploy, RemoveContainer
  <2>2. worker[w].pc \notin {"idle", "return"} /\ UNCHANGED <<request, waiting, job>>
    BY <1>5 DEF Build, Deploy, RemoveContainer
  <2>3. QED
    BY <1>2, <1>3, <2>1, <2>2
<1>6. CASE LoadTool(w) \/ OpenTool(w) \/ Publish(w) \/ Reject(w)
  <2>1. worker[w].pc \notin {"idle", "return"} /\ UNCHANGED <<request, waiting, job>>
    BY <1>6 DEF LoadTool, OpenTool, Publish, Reject
  <2>2. \E x : x.pc \notin {"idle", "return"} /\ x.job = worker[w].job /\ worker' = [worker EXCEPT ![w] = x]
    <3>1. CASE LoadTool(w)
      <4> DEFINE x == [worker[w] EXCEPT !.pc = "open", !.endpoint = tool.endpoint,
                          !.changes = Changed([tool EXCEPT !.status = "processing"])]
      <4>1. x.pc = "open" /\ x.job = worker[w].job
        BY <1>1, <2>1 DEF IsWorker
      <4>2. worker' = [worker EXCEPT ![w] = x]
        BY <1>1, <3>1 DEF LoadTool
      <4> HIDE DEF x
      <4>3. QED
        BY <4>1, <4>2
    <3>2. CASE OpenTool(w)
      <4> DEFINE x == [worker[w] EXCEPT !.pc = "build", !.changes = NoChange]
      <4>1. x.pc = "build" /\ x.job = worker[w].job
        BY <1>1, <2>1 DEF IsWorker
      <4>2. worker' = [worker EXCEPT ![w] = x]
        BY <1>1, <3>2 DEF OpenTool
      <4> HIDE DEF x
      <4>3. QED
        BY <4>1, <4>2
    <3>3. CASE Publish(w) \/ Reject(w)
      <4>1. PICK pc \in {"succeed", "fail"} : Outcome(w, pc)
        BY <3>3 DEF Publish, Reject
      <4> DEFINE x == [worker[w] EXCEPT !.pc = pc, !.port = NoPort, !.endpoint = NoPort,
                                        !.changes = NoChange]
      <4>2. x.pc = pc /\ x.job = worker[w].job
        BY <1>1, <2>1 DEF IsWorker
      <4>3. worker' = [worker EXCEPT ![w] = x]
        BY <1>1, <4>1 DEF Outcome
      <4> HIDE DEF x
      <4>4. QED
        BY <4>2, <4>3
    <3>4. QED
      BY <1>6, <3>1, <3>2, <3>3
  <2>3. QED
    BY <1>2, <2>1, <2>2
<1>7. CASE Allocate(w) \/ BuildError(w) \/ ReleasePort(w)
  <2>1. worker[w].pc \notin {"idle", "return"} /\ UNCHANGED <<request, waiting, job>>
    BY <1>7 DEF Allocate, BuildError, ReleasePort
  <2>2. ASSUME NEW pc \in {"deploy", "reject", "cleanup"}, NEW p,
               worker' = [worker EXCEPT ![w] = [@ EXCEPT !.pc = pc, !.port = p]]
        PROVE  \E x : x.pc \notin {"idle", "return"} /\ x.job = worker[w].job /\ worker' = [worker EXCEPT ![w] = x]
    <3> DEFINE x == [worker[w] EXCEPT !.pc = pc, !.port = p]
    <3>1. x.pc = pc /\ x.job = worker[w].job
      BY <1>1, <2>1 DEF IsWorker
    <3>2. worker' = [worker EXCEPT ![w] = x]
      BY <1>1, <2>2
    <3> HIDE DEF x
    <3>3. QED
      BY <3>1, <3>2
  <2>3. ASSUME NEW pc \in {"deploy", "reject", "cleanup"}, NEW c,
               worker' = [worker EXCEPT ![w] = [@ EXCEPT !.pc = pc, !.changes = c]]
        PROVE  \E x : x.pc \notin {"idle", "return"} /\ x.job = worker[w].job /\ worker' = [worker EXCEPT ![w] = x]
    <3> DEFINE x == [worker[w] EXCEPT !.pc = pc, !.changes = c]
    <3>1. x.pc = pc /\ x.job = worker[w].job
      BY <1>1, <2>1 DEF IsWorker
    <3>2. worker' = [worker EXCEPT ![w] = x]
      BY <1>1, <2>3
    <3> HIDE DEF x
    <3>3. QED
      BY <3>1, <3>2
  <2>4. \E x : x.pc \notin {"idle", "return"} /\ x.job = worker[w].job /\ worker' = [worker EXCEPT ![w] = x]
    <3>1. CASE Allocate(w)
      <4>1. CASE \E p : worker' = [worker EXCEPT ![w] = [@ EXCEPT !.pc = "deploy", !.port = p]]
        BY <2>2, <4>1
      <4>2. CASE Goto(w, "reject")
        BY <1>3, <2>1, <4>2
      <4>3. QED
        BY <3>1, <4>1, <4>2 DEF Allocate
    <3>2. CASE BuildError(w)
      <4>1. PICK pc \in {"reject", "cleanup"} : \E c :
               worker' = [worker EXCEPT ![w] = [@ EXCEPT !.pc = pc, !.changes = c]]
        BY <3>2 DEF BuildError
      <4>2. QED
        BY <2>3, <4>1
    <3>3. CASE ReleasePort(w)
      BY <2>2, <3>3 DEF ReleasePort
    <3>4. QED
      BY <1>7, <3>1, <3>2, <3>3
  <2>5. QED
    BY <1>2, <2>1, <2>4
<1>8. CASE Settle(w)
  <2>1. /\ worker[w].pc \in {"succeed", "fail"} /\ UNCHANGED <<request, waiting>>
        /\ \E s \in {"succeeded", "failed", "retrying"}, pc \in {"return", "retry"} :
              /\ job' = [job EXCEPT ![worker[w].job] = s] /\ Goto(w, pc)
              /\ s = "succeeded" => pc = "return"
    <3>1. CASE worker[w].pc = "succeed"
      BY <1>8, <3>1 DEF Settle
    <3>2. CASE worker[w].pc = "fail"
      BY <1>8, <3>2 DEF Settle
    <3>3. QED
      BY <1>8, <3>1, <3>2 DEF Settle
  <2>2. PICK s \in {"succeeded", "failed", "retrying"}, pc \in {"return", "retry"} :
              /\ job' = [job EXCEPT ![worker[w].job] = s] /\ Goto(w, pc)
              /\ s = "succeeded" => pc = "return"
    BY <2>1
  <2>3. PICK x : x.pc = pc /\ x.job = worker[w].job /\ worker' = [worker EXCEPT ![w] = x]
    BY <1>3, <2>1, <2>2
  <2>4. QED
    BY <2>1, <2>2, <2>3, WorkerGoes
<1>9. CASE FinishJob(w) \/ DeferJob(w) \/ WorkerCrash(w) \/ AbortJob(w)
  <2>1. /\ worker[w].pc # "idle" /\ worker' = [worker EXCEPT ![w] = Idle]
        /\ UNCHANGED <<request, job>> /\ waiting' \in {waiting, waiting \cup {worker[w].job}}
    BY <1>9 DEF FinishJob, DeferJob, WorkerCrash, AbortJob
  <2>2. QED
    BY <2>1, WorkerStops
<1>10. QED
  BY <1>4, <1>5, <1>6, <1>7, <1>8, <1>9 DEF WorkerProgress

LEMMA RunStep == ToolTypes /\ RunInv /\ [Next]_vars => RunInv' /\ JobKept
<1>1. ASSUME RunInv, UNCHANGED vars PROVE RunInv' /\ JobKept
  BY <1>1 DEF vars, RunInv, JobsAreInOnePlace, UnsettledHasNotSucceeded, Enqueuing, Runner, JobKept
<1>2. ASSUME RunInv, NEW j \in Job, ExpireJob(j) PROVE RunInv' /\ JobKept
  BY <1>2 DEF ExpireJob, RunInv, JobsAreInOnePlace, UnsettledHasNotSucceeded, Enqueuing, Runner, JobKept
<1>3. QED
  BY <1>1, <1>2, RequestsRunOnce, JobsRunOnce DEF Next

LEMMA RunHolds == Spec => []RunInv
<1>1. Init => RunInv
  BY DEF Init, RunInv, JobsAreInOnePlace, UnsettledHasNotSucceeded, Enqueuing, Runner, Idle
<1>2. ToolTypes /\ RunInv /\ [Next]_vars => RunInv'
  BY RunStep
<1>3. QED
  BY <1>1, <1>2, ToolTypesHold, PTL DEF Spec

\* No job is built by two workers at once, nor built while it waits in the queue: a
\* worker that dies or defers its job gives it back before another takes it
\* (process_tool_upload_job).
THEOREM JobsHaveOnePlace == Spec => []JobsAreInOnePlace
<1>1. RunInv => JobsAreInOnePlace
  BY DEF RunInv
<1>2. QED
  BY <1>1, RunHolds, PTL

\* While its row says that it succeeded, a job is neither run again nor settled
\* otherwise: whatever workers and requests there are, and whichever of them die, time
\* out or find the queue out of order, no step moves it but the mark_job_failed of a
\* request whose enqueue raised and which read the job before it succeeded. That step
\* does occur, and a job it failed may be
\* built again (process_tool_upload_job, enqueue_tool_processing).
THEOREM SuccessRunsOnce == Spec => SucceededIsNotRerun
<1>1. ToolTypes /\ RunInv /\ [Next]_vars => [JobKept]_vars
  BY RunStep
<1>2. QED
  BY <1>1, ToolTypesHold, RunHolds, PTL DEF Spec, SucceededIsNotRerun, JobKept
=============================================================================
