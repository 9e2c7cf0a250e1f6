------------------------------- MODULE StatusPage -------------------------------
(***************************************************************************)
(* The seller's view of one submission (apps/web/src/app/submit/[id]/      *)
(* status).                                                                *)
(*                                                                         *)
(* An effect, run again whenever the account's context changes, loads the  *)
(* submission at once and then every five seconds, whether or not earlier  *)
(* loads have come back.  Whichever lands last is shown, an error in place *)
(* of the submission included.                                             *)
(***************************************************************************)
EXTENDS Naturals, FiniteSets, Submissions

CONSTANTS
    MaxPolls,  \* bound: loads at the same time
    MaxNews    \* bound: changes of the tool and of the account, and failures, together

ASSUME StatusAssumption == {MaxPolls, MaxNews} \subseteq Nat \ {0}

\* Loads that are equally far and have seen the same are one load in the model.
VARIABLES
    reader,    \* useCurrentAccount: loading, guest, the tool's seller or somebody else
    page,      \* the stage shown, none before the first, or what is shown instead
    polls,     \* loadSubmission calls in progress
    tool,      \* the server's tool
    news       \* bound, see MaxNews

statusVars == <<reader, page, polls, tool, news>>

SignedIn == reader \in {"seller", "other"}

Polling(r) == {[user |-> u, active |-> TRUE, saw |-> "nothing", reason |-> FALSE] : u \in {r} \ {"loading", "guest"}}

\* What a load without an account comes to at once.
Shown(r, p) == IF r = "guest" THEN [stage |-> "sign in", reason |-> FALSE] ELSE p

StatusInit ==
    /\ reader \in {"loading", "guest", "seller", "other"}
    /\ page = Shown(reader, [stage |-> "loading", reason |-> FALSE])
    /\ polls = Polling(reader)
    /\ tool = [status |-> "processing", job |-> "active", reason |-> FALSE]
    /\ news = 0

News == news < MaxNews /\ news' = news + 1

\* The effect cleans up and runs again.
ReaderChanges ==
    /\ News
    /\ \E r \in {"guest", "seller", "other"} :
          /\ reader' = r
          /\ page' = Shown(r, page)
          /\ polls' = {[l EXCEPT !.active = FALSE] : l \in polls} \cup Polling(r)
    /\ tool' = tool

\* Mutant: the interval loads until the submission is there.
IntervalUntilShown ==
    /\ page.stage \notin Stages
    /\ SignedIn /\ Cardinality(polls) < MaxPolls
    /\ polls' = polls \cup Polling(reader)
    /\ UNCHANGED <<reader, page, tool, news>>

Interval ==
    /\ SignedIn /\ Cardinality(polls) < MaxPolls
    /\ polls' = polls \cup Polling(reader)
    /\ UNCHANGED <<reader, page, tool, news>>

\* The server answers with the tool and its latest job; to others it says not found.
Answered(l) ==
    /\ l.saw = "nothing"
    /\ polls' = (polls \ {l}) \cup
          {IF l.user = "seller"
           THEN [l EXCEPT !.saw = ToSubmissionStage(tool.status, tool.job), !.reason = RejectionReason(tool)]
           ELSE [l EXCEPT !.saw = "not found"]}
    /\ UNCHANGED <<reader, page, tool, news>>

Takes(l, p) ==
    /\ polls' = polls \ {l}
    /\ page' = IF l.active THEN p ELSE page

\* An error takes the place of the submission.
SubmissionLands(l) ==
    /\ l.saw # "nothing"
    /\ Takes(l, [stage |-> l.saw, reason |-> l.reason])
    /\ UNCHANGED <<reader, tool, news>>

PollFails(l) ==
    /\ News
    /\ Takes(l, [stage |-> "not found", reason |-> FALSE])
    /\ UNCHANGED <<reader, tool>>

ToolJobEvent ==
    /\ News
    /\ tool' \in JobEvents(tool)
    /\ UNCHANGED <<reader, page, polls>>

\* An approver decides (ApproverPage).
ToolReviewed ==
    /\ News
    /\ tool' \in {[tool EXCEPT !.status = s, !.reason = s # "live"] : s \in {"live", "rejected", "paused"}}
    /\ UNCHANGED <<reader, page, polls>>

StatusNext ==
    \/ ReaderChanges
    \/ Interval
    \/ \E l \in polls : Answered(l) \/ SubmissionLands(l) \/ PollFails(l)
    \/ ToolJobEvent \/ ToolReviewed

PollMoves(answered) ==
    \E l \in polls : (l.saw # "nothing") = answered /\ (Answered(l) \/ SubmissionLands(l))

\* The interval fires and calls settle (ApiClient).
StatusSpec ==
    /\ StatusInit /\ [][StatusNext]_statusVars
    /\ WF_statusVars(Interval)
    /\ \A answered \in BOOLEAN : WF_statusVars(PollMoves(answered))

--------------------------------------------------------------------------------

\* The index of the current row of the pipeline.
StageIndex(stage) ==
    CASE stage = "submitted" -> 1
      [] stage = "testing" -> 2
      [] stage \in {"manual_review", "rejected"} -> 3
      [] stage \in {"listed", "revoked"} -> 4

RowState(i, stage) ==
    CASE i < StageIndex(stage) -> "complete"
      [] i > StageIndex(stage) -> "pending"
      [] i = StageIndex(stage) /\ stage \in {"rejected", "revoked"} -> stage
      [] OTHER -> "current"

Rows(stage) == [i \in 1..4 |-> RowState(i, stage)]

\* Loads land out of order, fail and blank the page, yet once the tool no longer changes
\* its seller comes to see the rows of its stage, with a rejection or a pause a reason,
\* and keeps seeing them (loadSubmission and its interval).
StageConverges ==
    <>[](reader = "seller" =>
            /\ page.stage \in Stages
            /\ Rows(page.stage) = Rows(ToSubmissionStage(tool.status, tool.job))
            /\ page.stage \in {"rejected", "revoked"} => page.reason)
================================================================================
