-------------------------------- MODULE WebPages --------------------------------
(***************************************************************************)
(* The pages of apps/web, one of which is open in a browser at a time.     *)
(*                                                                         *)
(* A page keeps its state in its own components, so the modules share no   *)
(* variable, but for the gate that the approver's and the administrator's  *)
(* page have in common.  What is chosen here is which page the browser     *)
(* opens (ApiClient stands for a page that makes a single call); the       *)
(* variables of the others keep one initial value.                         *)
(***************************************************************************)
EXTENDS ApiClient, ApproverPage, AdminPage, KeysPanel, DashboardPage,
        SubmitPage, StatusPage, MarketplacePage, DemoPage, DemoPipelines

VARIABLE open  \* the page that is open

webVars == <<open, clientVars, approverVars, adminVars, keysVars, dashVars,
             submitVars, statusVars, marketVars, demoVars, pipeVars>>

Screens == {"client", "approver", "admin", "keys", "dashboard", "submit", "status",
            "marketplace", "playground", "demo"}

Closed(screens) == open \notin screens

WebInit ==
    /\ open \in Screens
    /\ ClientInit    /\ (Closed({"client"}) => call.method = "GET")
    /\ ApproverInit  /\ (Closed({"approver", "admin"}) => viewer = "guest")
    /\ AdminInit
    /\ KeysInit      /\ (Closed({"keys"}) => owner = "guest")
    /\ DashInit      /\ (Closed({"dashboard"}) => person = "guest")
    /\ SubmitInit    /\ (Closed({"submit"}) => ~signedIn)
    /\ StatusInit    /\ (Closed({"status"}) => reader = "guest")
    /\ MarketInit    /\ (Closed({"marketplace"}) => stock = CHOOSE s \in [1..3 -> Stock] : TRUE)
    /\ DemoInit      /\ (Closed({"playground"}) => demo.kind = "text")
    /\ PipelinesInit /\ (Closed({"demo"}) => play.tool = "authforge")

--------------------------------------------------------------------------------

\* The page is open, and what belongs to no part of it does not change.
InClient ==
    /\ open = "client"
    /\ UNCHANGED <<open, approverVars, adminVars, keysVars, dashVars,
                   submitVars, statusVars, marketVars, demoVars, pipeVars>>

InApprover ==
    /\ open = "approver"
    /\ UNCHANGED <<open, clientVars, view, reads, calls, server, tangled, steps, keysVars, dashVars,
                   submitVars, statusVars, marketVars, demoVars, pipeVars>>

InAdmin ==
    /\ open = "admin"
    /\ UNCHANGED <<open, clientVars, queue, panel, loads, decisions, tools, turns, keysVars, dashVars,
                   submitVars, statusVars, marketVars, demoVars, pipeVars>>

InKeys ==
    /\ open = "keys"
    /\ UNCHANGED <<open, clientVars, approverVars, adminVars, dashVars,
                   submitVars, statusVars, marketVars, demoVars, pipeVars>>

InDashboard ==
    /\ open = "dashboard"
    /\ UNCHANGED <<open, clientVars, approverVars, adminVars, keysVars,
                   submitVars, statusVars, marketVars, demoVars, pipeVars>>

InSubmit ==
    /\ open = "submit"
    /\ UNCHANGED <<open, clientVars, approverVars, adminVars, keysVars,
                   dashVars, statusVars, marketVars, demoVars, pipeVars>>

InStatus ==
    /\ open = "status"
    /\ UNCHANGED <<open, clientVars, approverVars, adminVars, keysVars,
                   dashVars, submitVars, marketVars, demoVars, pipeVars>>

InMarketplace ==
    /\ open = "marketplace"
    /\ UNCHANGED <<open, clientVars, approverVars, adminVars, keysVars,
                   dashVars, submitVars, statusVars, demoVars, pipeVars>>

InPlayground ==
    /\ open = "playground"
    /\ UNCHANGED <<open, clientVars, approverVars, adminVars, keysVars,
                   dashVars, submitVars, statusVars, marketVars, pipeVars>>

InDemo ==
    /\ open = "demo"
    /\ UNCHANGED <<open, clientVars, approverVars, adminVars, keysVars,
                   dashVars, submitVars, statusVars, marketVars, demoVars>>

\* The page that is open stays open: leaving it starts another with fresh state.
WebNext ==
    \/ InClient /\ ClientNext
    \/ InApprover /\ ApproverNext
    \/ InAdmin /\ AdminNext
    \/ InKeys /\ KeysNext
    \/ InDashboard /\ DashNext
    \/ InSubmit /\ SubmitNext
    \/ InStatus /\ StatusNext
    \/ InMarketplace /\ MarketNext
    \/ InPlayground /\ DemoNext
    \/ InDemo /\ PipelinesNext

\* The fairness of each page, as its module states it, while it is open.
WebFairness ==
    /\ WF_webVars(InClient /\ ClientAnswers)
    /\ WF_webVars(InApprover /\ Poll)
    /\ \A pc \in {"reading", "tools", "jobs", "read"} : WF_webVars(InApprover /\ LoadMoves(pc))
    /\ WF_webVars(InDashboard /\ FetchMoves)
    /\ WF_webVars(InStatus /\ Interval)
    /\ \A answered \in BOOLEAN : WF_webVars(InStatus /\ PollMoves(answered))

WebSpec == WebInit /\ [][WebNext]_webVars /\ WebFairness

--------------------------------------------------------------------------------

\* Reads land out of order and fail, yet once the tools no longer change the approver's
\* queue comes to show the stage of each and keeps it (loadQueue and its interval).
QueueConverges == <>[](open = "approver" => QueueIsCurrent)

\* Loading comes to an end: a single call settles, retries included, and so do both modes
\* of the dashboard; the review queue and the status of a submission come to show what
\* the server holds (requestWithRetry; Promise.allSettled in loadAccountDashboards; the
\* intervals of loadQueue and loadSubmission).
PagesSettle == CallSettles /\ DashboardSettles /\ QueueConverges /\ StageConverges

\* The playground keeps its limit and what is typed, but for an automatic run, pages left
\* with calls in flight and text typed while a file is read (DemoRunner, DynamicForm); the
\* interactive demos show what their pipelines did, but for pipelines cut off by another
\* and files that land late (usePipelineRunner, their resets).
DemosAreSound == DemoIsSound /\ PipelinesAreSound
================================================================================
