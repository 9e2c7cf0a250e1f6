------------------------------ MODULE Submissions ------------------------------
(***************************************************************************)
(* How the front end reads a tool as a submission (apps/web/src/lib/       *)
(* submission-adapter.ts): its stage, from the status of the tool and of   *)
(* its latest processing job.                                              *)
(***************************************************************************)

ToolStatus == {"draft", "processing", "live", "paused", "rejected"}
\* active is queued, running or retrying.
JobStatus  == {"none", "active", "failed", "succeeded"}
Stages     == {"testing", "manual_review", "listed", "rejected", "revoked"}

ToSubmissionStage(status, job) ==
    CASE job = "active" -> "testing"
      [] job = "failed" -> "rejected"
      [] OTHER -> CASE status = "processing" -> "testing"
                    [] status = "live" -> "listed"
                    [] status = "rejected" -> "rejected"
                    [] status = "paused" -> "revoked"
                    [] status = "draft" -> "manual_review"

\* The last error of the job, or the processing error of the tool.
RejectionReason(tool) == tool.job = "failed" \/ tool.reason

\* What sellers and workers do to a tool (see ToolProcessing): a job is queued, and
\* succeeds or fails.
JobEvents(tool) ==
    IF tool.job = "active"
    THEN {[tool EXCEPT !.status = "draft", !.job = "succeeded"],
          [tool EXCEPT !.status = "draft", !.job = "failed", !.reason = TRUE]}
    ELSE {[tool EXCEPT !.status = "processing", !.job = "active", !.reason = FALSE]}
================================================================================
