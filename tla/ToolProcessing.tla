----------------------------- MODULE ToolProcessing -----------------------------
(***************************************************************************)
(* The life of one tool: its seller uploads source, configures and pauses  *)
(* it, an administrator reviews it and retries failed submissions, and     *)
(* arq workers build it, deploy it (into a local container behind a port,  *)
(* or on Render) and write the outcome into its row.                       *)
(*                                                                         *)
(* A commit writes the columns that the session changed since it loaded    *)
(* the row over whatever the row says by then (Flush).                     *)
(***************************************************************************)
EXTENDS Naturals

CONSTANTS
    Requests,      \* concurrent API requests
    Workers,       \* concurrent arq worker slots
    MaxTries,      \* worker_job_max_attempts: arq max_tries, job max_attempts
    MaxJobs,       \* bound of the model on the processing jobs
    MaxPort,       \* the port range of the container host is 1 .. MaxPort
    MaxFaults      \* bound of the model on the faults that may strike

ASSUME TriesAssumption  == MaxTries \in Nat \ {0}
ASSUME JobsAssumption   == MaxJobs \in Nat
ASSUME FaultsAssumption == MaxFaults \in Nat

ToolStatus == {"draft", "processing", "live", "paused", "rejected"}
JobStatus  == {"queued", "running", "retrying", "succeeded", "failed"}

ASSUME PortAssumption == MaxPort \in Nat

Ports == 1 .. MaxPort
NoPort == 0
External == MaxPort + 1   \* an endpoint on Render or one the seller runs
Endpoint == {NoPort, External} \cup Ports

Tool == [status: ToolStatus, endpoint: Endpoint, uploaded: BOOLEAN, command: BOOLEAN]

Job == 1 .. MaxJobs

VARIABLES
    tool,        \* the row of the tool
    job,         \* the tool_processing_jobs table
    request,     \* API requests
    worker,      \* worker slots
    waiting,     \* jobs in the arq queue that no worker holds
    tries,       \* arq's retry counter of each job
    dropped,     \* jobs arq gave up on: timed out, expired, or out of tries
    ports,       \* Redis: allocated ports
    container,   \* the port the tool's container listens on
    faults       \* faults that struck

vars == <<tool, job, request, worker, waiting, tries, dropped, ports, container,
          faults>>
hosting == <<ports, container>>

Idle == [pc |-> "idle"]

Kind == {"upload", "configure", "review", "pause", "retry"}

WorkerPC == {"load", "open", "build", "allocate", "deploy", "publish", "cleanup", "release",
             "reject", "succeed", "fail", "return", "retry"}
RequestPC == {"commit", "start", "find", "insert", "enqueue", "queue_error", "fail", "reject"}

\* The columns of "changes", and those of "rest" that it does not mention.
Over(changes, rest) ==
    [column \in DOMAIN changes \cup DOMAIN rest |->
        IF column \in DOMAIN changes THEN changes[column] ELSE rest[column]]

\* The row after a session commits the columns it changed.
Flush(changes) == Over(changes, tool)

\* A bug OnlyReviewPromotes catches: every column is written back, changed or not.
ChangedAll(new) == new

\* The columns that differ between the row as loaded and as assigned.
Changed(new) == [column \in {c \in DOMAIN tool : new[c] # tool[c]} |-> new[column]]

NoChange == [column \in {} |-> column]
Status(s) == [status |-> s]

TypeOK ==
    /\ tool \in Tool
    /\ job \in [Job -> JobStatus \cup {"none"}]
    /\ \A r \in Requests : request[r] # Idle =>
          /\ request[r].pc \in RequestPC /\ request[r].kind \in Kind
          /\ request[r].then \in {"reply", "start", "find"}
          /\ request[r].job \in 0 .. MaxJobs
          /\ Flush(request[r].changes) \in Tool
    /\ \A w \in Workers : worker[w] # Idle =>
          /\ worker[w].pc \in WorkerPC /\ worker[w].job \in Job
          /\ worker[w].try \in 1 .. MaxTries
          /\ worker[w].port \in {NoPort} \cup Ports
          /\ worker[w].endpoint \in Endpoint
          /\ Flush(worker[w].changes) \in Tool
    /\ waiting \subseteq Job
    /\ tries \in [Job -> 0 .. MaxTries]
    /\ dropped \subseteq Job
    /\ ports \subseteq Ports
    /\ container \in {NoPort} \cup Ports
    /\ faults \in 0 .. MaxFaults

Init ==
    /\ tool = [status |-> "draft", endpoint |-> NoPort, uploaded |-> FALSE, command |-> FALSE]
    /\ job = [j \in Job |-> "none"]
    /\ request = [r \in Requests |-> Idle]
    /\ worker = [w \in Workers |-> Idle]
    /\ waiting = {}
    /\ tries = [j \in Job |-> 0]
    /\ dropped = {}
    /\ ports = {}
    /\ container = NoPort
    /\ faults = 0

Strike ==
    /\ faults < MaxFaults
    /\ faults' = faults + 1

-----------------------------------------------------------------------------
(* API requests: load the tool, decide, commit.                            *)

\* The request loaded the tool and goes on to commit "new".
Open(r, kind, new, then) ==
    /\ request[r].pc = "idle"
    /\ request' = [request EXCEPT ![r] =
          [pc |-> "commit", kind |-> kind, then |-> then, job |-> 0,
           changes |-> Changed(new)]]
    /\ UNCHANGED <<tool, job, worker, waiting, tries, dropped, hosting, faults>>

\* upload_tool_source: processing starts if the runtime is configured already.
Upload(r) ==
    Open(r, "upload",
         [tool EXCEPT !.uploaded = TRUE,
                      !.status = IF tool.command THEN "processing" ELSE "draft"],
         IF tool.command THEN "find" ELSE "reply")

\* configure_tool: with a deployment URL the tool waits for review; without one the
\* endpoint goes, and a draft or rejected tool with source starts processing.
Configure(r, url, command) ==
    /\ url \/ command \/ tool.uploaded
    /\ Open(r, "configure",
            [tool EXCEPT !.endpoint = IF url THEN External ELSE NoPort,
                         !.command = @ \/ command,
                         !.status = IF url THEN "draft" ELSE @],
            IF ~ url /\ tool.status \in {"draft", "rejected"} /\ tool.uploaded
            THEN "start" ELSE "reply")

\* update_admin_tool_review
Review(r, status) ==
    /\ status = "live" => tool.endpoint # NoPort
    /\ Open(r, "review", [tool EXCEPT !.status = status], "reply")

\* delete_tool
Pause(r) == Open(r, "pause", [tool EXCEPT !.status = "paused"], "reply")

\* retry_failed_tool_processing_job: the status is assigned, and committed by
\* whatever commits next.
Retry(r, j) ==
    /\ request[r].pc = "idle"
    /\ job[j] = "failed"
    /\ request' = [request EXCEPT ![r] =
          [pc |-> "find", kind |-> "retry", then |-> "find", job |-> 0,
           changes |-> Changed([tool EXCEPT !.status = "processing"])]]
    /\ UNCHANGED <<tool, job, worker, waiting, tries, dropped, hosting, faults>>

Committed(r, pc, changes) ==
    [request EXCEPT ![r] = [@ EXCEPT !.pc = pc, !.changes = changes]]

Commit(r) ==
    LET q == request[r] IN
    /\ q.pc = "commit"
    /\ tool' = Flush(q.changes)
    /\ request' = CASE q.then = "reply" -> [request EXCEPT ![r] = Idle]
                    [] q.then = "start" -> Committed(r, "start", Status("processing"))
                    [] OTHER            -> Committed(r, "find", NoChange)
    /\ UNCHANGED <<job, worker, waiting, tries, dropped, hosting, faults>>

\* configure_tool's second update: the tool is processing from now on.
StartProcessing(r) ==
    /\ request[r].pc = "start"
    /\ tool' = Flush(request[r].changes)
    /\ request' = Committed(r, "find", NoChange)
    /\ UNCHANGED <<job, worker, waiting, tries, dropped, hosting, faults>>

-----------------------------------------------------------------------------
(* API requests: create_tool_processing_job and enqueue_tool_processing.   *)

Active == {j \in Job : job[j] \in {"queued", "running", "retrying"}}
Unused == {j \in Job : job[j] = "none"}

\* An active job is reused, whatever source it builds; the retry's audit entry
\* commits the status it assigned.
FindJob(r) ==
    LET q == request[r] IN
    /\ q.pc = "find"
    /\ IF Active = {}
       THEN /\ request' = [request EXCEPT ![r].pc = "insert"]
            /\ UNCHANGED tool
       ELSE /\ request' = [request EXCEPT ![r] = Idle]
            /\ tool' = Flush(q.changes)
    /\ UNCHANGED <<job, worker, waiting, tries, dropped, hosting, faults>>

\* The queued job is committed before Redis can hand it to a fast worker.
InsertJob(r) ==
    LET q == request[r] IN
    /\ q.pc = "insert"
    /\ \E j \in Unused :
         /\ \A k \in Unused : j <= k
         /\ job' = [job EXCEPT ![j] = "queued"]
         /\ request' = [request EXCEPT ![r] =
                [@ EXCEPT !.pc = "enqueue", !.changes = NoChange, !.job = j]]
    /\ tool' = Flush(q.changes)
    /\ UNCHANGED <<worker, waiting, tries, dropped, hosting, faults>>

Enqueue(r) ==
    /\ request[r].pc = "enqueue"
    /\ waiting' = waiting \cup {request[r].job}
    /\ request' = [request EXCEPT ![r] = Idle]
    /\ UNCHANGED <<tool, job, worker, tries, dropped, hosting, faults>>

\* The enqueue raises; the job may have reached Redis all the same.
EnqueueError(r) ==
    /\ request[r].pc = "enqueue"
    /\ Strike
    /\ waiting' \in {waiting, waiting \cup {request[r].job}}
    /\ request' = [request EXCEPT ![r].pc = "queue_error"]
    /\ UNCHANGED <<tool, job, worker, tries, dropped, hosting>>

\* The error is answered; uploads and configurations reject the tool first.
Refuse(r) == IF request[r].kind = "retry"
             THEN [request EXCEPT ![r] = Idle]
             ELSE Committed(r, "reject", Status("rejected"))

\* The job is read again, and failed unless it succeeded meanwhile.
RefreshAfterError(r) ==
    /\ request[r].pc = "queue_error"
    /\ request' = IF job[request[r].job] = "succeeded" THEN Refuse(r)
                  ELSE [request EXCEPT ![r].pc = "fail"]
    /\ UNCHANGED <<tool, job, worker, waiting, tries, dropped, hosting, faults>>

FailJob(r) ==
    /\ request[r].pc = "fail"
    /\ job' = [job EXCEPT ![request[r].job] = "failed"]
    /\ request' = Refuse(r)
    /\ UNCHANGED <<tool, worker, waiting, tries, dropped, hosting, faults>>

\* _enqueue_processing_job
RejectTool(r) ==
    /\ request[r].pc = "reject"
    /\ tool' = Flush(request[r].changes)
    /\ request' = [request EXCEPT ![r] = Idle]
    /\ UNCHANGED <<job, worker, waiting, tries, dropped, hosting, faults>>

ApiCrash(r) ==
    /\ request[r].pc # "idle"
    /\ Strike
    /\ request' = [request EXCEPT ![r] = Idle]
    /\ UNCHANGED <<tool, job, worker, waiting, tries, dropped, hosting>>

-----------------------------------------------------------------------------
(* Workers: process_tool_upload_job and process_upload.                    *)

Goto(w, pc) == worker' = [worker EXCEPT ![w].pc = pc]

\* A bug TypeOK catches: nothing counts the tries.
NoTryLimit(j) == job[j] # "succeeded"

\* A bug SucceededIsNotRerun catches: a job that succeeded is run once more.
RunsAnyway(j) == tries[j] < MaxTries

\* arq runs the function unless the job is out of tries; it returns at once for a
\* job that succeeded.
Runs(j) == tries[j] < MaxTries /\ job[j] # "succeeded"

\* The job is loaded and marked running.
StartJob(w, j) ==
    /\ worker[w].pc = "idle"
    /\ j \in waiting
    /\ waiting' = waiting \ {j}
    /\ IF Runs(j)
       THEN /\ tries' = [tries EXCEPT ![j] = @ + 1]
            /\ job' = [job EXCEPT ![j] = "running"]
            /\ worker' = [worker EXCEPT ![w] =
                   [pc |-> "load", job |-> j, try |-> tries[j] + 1, port |-> NoPort,
                    endpoint |-> NoPort, changes |-> NoChange]]
            /\ UNCHANGED dropped
       ELSE /\ dropped' = IF job[j] = "succeeded" THEN dropped ELSE dropped \cup {j}
            /\ UNCHANGED <<tries, job, worker>>
    /\ UNCHANGED <<tool, request, hosting, faults>>

\* process_upload loads the tool,
LoadTool(w) ==
    /\ worker[w].pc = "load"
    /\ worker' = [worker EXCEPT ![w] = [@ EXCEPT
          !.pc = "open", !.endpoint = tool.endpoint,
          !.changes = Changed([tool EXCEPT !.status = "processing"])]]
    /\ UNCHANGED <<tool, job, request, waiting, tries, dropped, hosting, faults>>

\* and commits that it is processing.
OpenTool(w) ==
    /\ worker[w].pc = "open"
    /\ tool' = Flush(worker[w].changes)
    /\ worker' = [worker EXCEPT ![w] = [@ EXCEPT !.pc = "build", !.changes = NoChange]]
    /\ UNCHANGED <<job, request, waiting, tries, dropped, hosting, faults>>

\* The source as loaded is fetched and built for the local host, or handed to Render,
\* as the settings have it.
Build(w) ==
    /\ worker[w].pc = "build"
    /\ \E next \in {"allocate", "publish"} : Goto(w, next)
    /\ UNCHANGED <<tool, job, request, waiting, tries, dropped, hosting, faults>>

\* A free port of the range, or none is left.
Allocate(w) ==
    /\ worker[w].pc = "allocate"
    /\ \/ \E p \in Ports \ ports :
            /\ ports' = ports \cup {p}
            /\ worker' = [worker EXCEPT ![w] = [@ EXCEPT !.pc = "deploy", !.port = p]]
       \/ /\ ports = Ports
          /\ Goto(w, "reject")
          /\ UNCHANGED ports
    /\ UNCHANGED <<tool, job, request, waiting, tries, dropped, container, faults>>

\* The tool's container is replaced and becomes healthy.
Deploy(w) ==
    /\ worker[w].pc = "deploy"
    /\ container' = worker[w].port
    /\ Goto(w, "publish")
    /\ UNCHANGED <<tool, job, request, waiting, tries, dropped, ports, faults>>

\* The endpoint, assigned unless the row as loaded has it already.
NewEndpoint(w) ==
    LET url == IF worker[w].port = NoPort THEN External ELSE worker[w].port
    IN  IF url = worker[w].endpoint THEN NoChange ELSE [endpoint |-> url]

\* A worker that is done with the tool and has the outcome of its job to record.
Outcome(w, pc) ==
    worker' = [worker EXCEPT ![w] = [@ EXCEPT
        !.pc = pc, !.port = NoPort, !.endpoint = NoPort, !.changes = NoChange]]

\* A built tool is ready for review, not public.
Publish(w) ==
    /\ worker[w].pc = "publish"
    /\ tool' = Flush(Over(NewEndpoint(w), [status |-> "draft", command |-> TRUE]))
    /\ Outcome(w, "succeed")
    /\ UNCHANGED <<job, request, waiting, tries, dropped, hosting, faults>>

\* Fetching, building or starting the tool raises, or listing its files does: then
\* the endpoint is assigned already, and the next commit writes it.
BuildError(w) ==
    /\ worker[w].pc \in {"build", "deploy", "publish"}
    /\ Strike
    /\ worker' = [worker EXCEPT ![w] = [@ EXCEPT
          !.pc = IF worker[w].port = NoPort THEN "reject" ELSE "cleanup",
          !.changes = IF worker[w].pc = "publish" THEN NewEndpoint(w) ELSE NoChange]]
    /\ UNCHANGED <<tool, job, request, waiting, tries, dropped, hosting>>

\* A bug PortReserved catches: the port is free before its container is gone.
RemoveContainerLast(w) ==
    /\ worker[w].pc = "cleanup"
    /\ ports' = ports \ {worker[w].port}
    /\ Goto(w, "release")
    /\ UNCHANGED <<tool, job, request, waiting, tries, dropped, container, faults>>

\* The container goes first (by name, whichever job started it), then the port.
RemoveContainer(w) ==
    /\ worker[w].pc = "cleanup"
    /\ container' = NoPort
    /\ Goto(w, "release")
    /\ UNCHANGED <<tool, job, request, waiting, tries, dropped, ports, faults>>

ReleasePort(w) ==
    /\ worker[w].pc = "release"
    /\ ports' = ports \ {worker[w].port}
    /\ worker' = [worker EXCEPT ![w] = [@ EXCEPT !.pc = "reject", !.port = NoPort]]
    /\ UNCHANGED <<tool, job, request, waiting, tries, dropped, container, faults>>

\* The tool is rejected after the last try, and else stays processing.
Reject(w) ==
    /\ worker[w].pc = "reject"
    /\ tool' = Flush(Over(worker[w].changes,
                          IF worker[w].try >= MaxTries THEN Status("rejected") ELSE NoChange))
    /\ Outcome(w, "fail")
    /\ UNCHANGED <<job, request, waiting, tries, dropped, hosting, faults>>

\* A bug JobSettles catches: the last failed try is marked retrying, too.
SettleRetrying(w) ==
    /\ worker[w].pc \in {"succeed", "fail"}
    /\ job' = [job EXCEPT ![worker[w].job] =
                  IF worker[w].pc = "succeed" THEN "succeeded" ELSE "retrying"]
    /\ Goto(w, IF worker[w].pc = "succeed" \/ worker[w].try >= MaxTries
               THEN "return" ELSE "retry")
    /\ UNCHANGED <<tool, request, waiting, tries, dropped, hosting, faults>>

\* The job is loaded again and gets the outcome: succeeded, retrying, or failed.
Settle(w) ==
    LET last == worker[w].try >= MaxTries IN
    /\ worker[w].pc \in {"succeed", "fail"}
    /\ job' = [job EXCEPT ![worker[w].job] =
                  CASE worker[w].pc = "succeed"       -> "succeeded"
                    [] worker[w].pc = "fail" /\ last -> "failed"
                    [] OTHER                         -> "retrying"]
    /\ Goto(w, IF worker[w].pc = "succeed" \/ last THEN "return" ELSE "retry")
    /\ UNCHANGED <<tool, request, waiting, tries, dropped, hosting, faults>>

FinishJob(w) ==
    /\ worker[w].pc = "return"
    /\ worker' = [worker EXCEPT ![w] = Idle]
    /\ UNCHANGED <<tool, job, request, waiting, tries, dropped, hosting, faults>>

DeferJob(w) ==
    /\ worker[w].pc = "retry"
    /\ waiting' = waiting \cup {worker[w].job}
    /\ worker' = [worker EXCEPT ![w] = Idle]
    /\ UNCHANGED <<tool, job, request, tries, dropped, hosting, faults>>

\* The worker dies: the job is still in the queue, its port stays allocated.
WorkerCrash(w) ==
    /\ worker[w].pc # "idle"
    /\ Strike
    /\ waiting' = waiting \cup {worker[w].job}
    /\ worker' = [worker EXCEPT ![w] = Idle]
    /\ UNCHANGED <<tool, job, request, tries, dropped, hosting>>

\* job_timeout cancels the function; no except clause of its catches that.
AbortJob(w) ==
    /\ worker[w].pc \notin {"idle", "return", "retry"}
    /\ Strike
    /\ dropped' = dropped \cup {worker[w].job}
    /\ worker' = [worker EXCEPT ![w] = Idle]
    /\ UNCHANGED <<tool, job, request, waiting, tries, hosting>>

\* The job waited longer than its expiry.
ExpireJob(j) ==
    /\ j \in waiting
    /\ Strike
    /\ waiting' = waiting \ {j}
    /\ dropped' = dropped \cup {j}
    /\ UNCHANGED <<tool, job, request, worker, tries, hosting>>

-----------------------------------------------------------------------------
RequestProgress(r) ==
    \/ Commit(r) \/ StartProcessing(r) \/ FindJob(r) \/ InsertJob(r) \/ Enqueue(r)
    \/ RefreshAfterError(r) \/ FailJob(r) \/ RejectTool(r)

WorkerProgress(w) ==
    \/ \E j \in Job : StartJob(w, j)
    \/ LoadTool(w) \/ OpenTool(w) \/ Build(w) \/ Allocate(w) \/ Deploy(w) \/ Publish(w)
    \/ RemoveContainer(w) \/ ReleasePort(w) \/ Reject(w)
    \/ Settle(w) \/ FinishJob(w) \/ DeferJob(w)

Next ==
    \/ \E r \in Requests :
        \/ Upload(r)
        \/ \E url, command \in BOOLEAN : Configure(r, url, command)
        \/ \E status \in ToolStatus : Review(r, status)
        \/ Pause(r)
        \/ \E j \in Job : Retry(r, j)
        \/ RequestProgress(r)
        \/ EnqueueError(r)
        \/ ApiCrash(r)
    \/ \E w \in Workers :
        \/ WorkerProgress(w)
        \/ BuildError(w)
        \/ WorkerCrash(w)
        \/ AbortJob(w)
    \/ \E j \in Job : ExpireJob(j)

Spec == Init /\ [][Next]_vars

-----------------------------------------------------------------------------
(* Safety.                                                                 *)

PromotedByReview ==
    tool.status # "live" /\ tool'.status = "live" =>
        \E r \in Requests :
            /\ request[r].pc = "commit" /\ request[r].kind = "review"
            /\ "status" \in DOMAIN request[r].changes
            /\ request[r].changes.status = "live"
            /\ request'[r].pc = "idle"

\* Only a review promotes a seller's tool to live: no late flush of a worker or of
\* another request does (the comment of process_upload: "Admin review is the only path
\* that promotes a tool to live."). The platform's own tools, which bootstrap_service
\* makes live, are not modelled.
OnlyReviewPromotes == [][PromotedByReview]_vars

\* The port of the running container stays reserved, and no two deployments are
\* given the same port, through failures, retries, timeouts and crashes.
PortReserved ==
    /\ container # NoPort => container \in ports
    /\ \A w \in Workers : worker[w].pc # "idle" /\ worker[w].port # NoPort =>
          /\ worker[w].port \in ports
          /\ \A v \in Workers \ {w} :
                worker[v].pc # "idle" => worker[v].port # worker[w].port

\* The request whose enqueue raised, and which read the job before it succeeded, marks
\* it failed.
FailedLate(j) ==
    /\ job'[j] = "failed"
    /\ \E r \in Requests : request[r].pc = "fail" /\ request[r].job = j

\* While its row says that it succeeded, a job is neither run again (also when its
\* worker dies before arq hears of the success and hands the job out once more) nor
\* settled otherwise by a worker. The one step that takes the success from the row is
\* the late mark_job_failed of the request whose enqueue raised; after it a worker's
\* death does have the job built again. (The test
\* test_fast_tool_worker_completion_is_not_overwritten is of an enqueue that returns.)
SucceededIsNotRerun ==
    [][\A j \in Job : job[j] = "succeeded" => job'[j] = "succeeded" \/ FailedLate(j)]_vars

-----------------------------------------------------------------------------
(* Liveness.                                                               *)

\* Requests and workers take their next step, and arq polls its queue.
Fairness ==
    /\ \A r \in Requests : WF_vars(RequestProgress(r))
    /\ \A w \in Workers : WF_vars(WorkerProgress(w))

FairSpec == Spec /\ Fairness

\* A job that Redis has is settled in its row in the end, unless arq drops it: then
\* only the operations health report shows it.
JobSettles ==
    \A j \in Job :
        (j \in waiting) ~> (job[j] \in {"succeeded", "failed"} \/ j \in dropped)
=============================================================================
