------------------------------ MODULE ApproverPage ------------------------------
(***************************************************************************)
(* The approver's review queue (apps/web/src/app/approver).                *)
(*                                                                         *)
(* Behind the gate (AdminGate) the queue reads tools and jobs again every  *)
(* ten seconds, and after every decision, whether or not earlier reads     *)
(* have come back; whichever lands last is shown.  One panel, that of the  *)
(* focused tool's stage, sends decisions; nothing is kept per tool, so     *)
(* that what was typed for one is still there for the next.                *)
(*                                                                         *)
(* Between two awaits JavaScript is atomic, effects that follow a state    *)
(* change included.  Messages are left out.                                *)
(***************************************************************************)
EXTENDS AdminGate, Submissions

CONSTANTS
    ReviewTools,
    MaxLoads,  \* bound: reads of the queue at the same time
    MaxTurns   \* bound: decisions sent, reads failed, job events and changes of
               \* the account, together

ASSUME ApproverAssumption == {MaxLoads, MaxTurns} \subseteq Nat \ {0}

VARIABLES
    queue,      \* what Dashboard shows: list, status and focus
    panel,      \* the state of the panel shown
    loads,      \* loadQueue calls in progress
    decisions,  \* updateToolReviewStatus calls in progress
    tools,      \* the server's tools
    turns       \* bound, see MaxTurns

approverVars == <<gateVars, queue, panel, loads, decisions, tools, turns>>

StageOf(t) == ToSubmissionStage(tools[t].status, tools[t].job)

NoPanel == [form |-> "closed", confirming |-> FALSE, pending |-> "none"]
Unread  == [t \in ReviewTools |-> "unread"]
\* A read of the queue for the call by, or for nobody; saw: what it has seen so far.
NewLoad(silent, by) == [pc |-> "reading", silent |-> silent, by |-> by, saw |-> Unread]
Empty   == [list |-> [t \in ReviewTools |-> "absent"], status |-> "loading", focus |-> "none"]

ApproverInit ==
    /\ GateInit
    /\ queue = Empty
    /\ panel = NoPanel
    /\ loads = {}
    /\ decisions = {}
    /\ tools = [t \in ReviewTools |-> [status |-> "draft", job |-> "none", reason |-> FALSE]]
    /\ turns = 0

--------------------------------------------------------------------------------
(* The gate                                                                *)

\* Dashboard unmounts: the answers of its calls are for nobody, but what was sent may
\* still reach the server.
Unmount ==
    /\ queue' = Empty
    /\ panel' = NoPanel
    /\ loads' = {}
    /\ decisions' = {[d EXCEPT !.pc = "lost", !.here = FALSE] : d \in {e \in decisions : ~e.ran}}

ApproverAccountChanges ==
    /\ turns < MaxTurns
    /\ \E a \in Viewers : AccountChanges(a)
    /\ Unmount
    /\ turns' = turns + 1
    /\ tools' = tools

\* The queue opens with the tool that the address asks for, if any.
OpenQueue ==
    /\ \E c \in checks : VerifyAdmin(c)
    /\ IF Opens
       THEN /\ \E t \in ReviewTools \cup {"none"} : queue' = [Empty EXCEPT !.focus = t]
            /\ loads' = {NewLoad(FALSE, 0)}
       ELSE UNCHANGED <<queue, loads>>
    /\ UNCHANGED <<panel, decisions, tools, turns>>

--------------------------------------------------------------------------------
(* The queue                                                               *)

StartLoad(silent, by) ==
    /\ Cardinality(loads) < MaxLoads
    /\ loads' = loads \cup {NewLoad(silent, by)}

\* Mutant: the interval stops with the first list.
PollUntilReady ==
    /\ Mounted /\ queue.status # "ready"
    /\ StartLoad(TRUE, 0)
    /\ UNCHANGED <<gateVars, queue, panel, decisions, tools, turns>>

\* The interval of ten seconds.
Poll ==
    /\ Mounted
    /\ StartLoad(TRUE, 0)
    /\ UNCHANGED <<gateVars, queue, panel, decisions, tools, turns>>

\* The retry button hands its click event to loadQueue, which takes it for silent.
RetryLoad ==
    /\ Mounted /\ queue.status = "error" /\ queue.focus = "none"
    /\ StartLoad(TRUE, 0)
    /\ UNCHANGED <<gateVars, queue, panel, decisions, tools, turns>>

\* The two reads of a load see the server each at its own time.
Read(l, pc, saw) ==
    /\ l \in loads
    /\ loads' = (loads \ {l}) \cup {[l EXCEPT !.pc = pc, !.saw = saw]}
    /\ UNCHANGED <<gateVars, queue, panel, decisions, tools, turns>>

ReadTools(l) ==
    \/ l.pc = "reading" /\ Read(l, "tools", [t \in ReviewTools |-> tools[t].status])
    \/ l.pc = "jobs" /\ Read(l, "read", [t \in ReviewTools |->
                                           ToSubmissionStage(tools[t].status, l.saw[t])])

ReadJobs(l) ==
    \/ l.pc = "reading" /\ Read(l, "jobs", [t \in ReviewTools |-> tools[t].job])
    \/ l.pc = "tools" /\ Read(l, "read", [t \in ReviewTools |->
                                            ToSubmissionStage(l.saw[t], tools[t].job)])

\* The panel of a stage; a card of the queue leads to the first three.
PanelOf(stage) ==
    CASE stage = "testing" -> "TestingPanel"
      [] stage = "manual_review" -> "ReviewPanel"
      [] stage = "listed" -> "LivePanel"
      [] OTHER -> "ArchivedPanel"

PanelShown(q) ==
    IF q.focus = "none" THEN "nothing"
    ELSE IF q.list[q.focus] = "absent" THEN "nothing" ELSE PanelOf(q.list[q.focus])

In(list, stage) == {t \in ReviewTools : list[t] = stage}

\* The default focus: the first tool to review, else in testing, else live.
DefaultFocus(list) ==
    IF In(list, "manual_review") # {} THEN CHOOSE t \in In(list, "manual_review") : TRUE
    ELSE IF In(list, "testing") # {} THEN CHOOSE t \in In(list, "testing") : TRUE
    ELSE IF In(list, "listed") # {} THEN CHOOSE t \in In(list, "listed") : TRUE
    ELSE "none"

Refocused(q) ==
    LET default == DefaultFocus(q.list)
        lost == IF q.focus = "none" THEN TRUE ELSE q.list[q.focus] = "absent"
    IN IF lost /\ default # "none" THEN [q EXCEPT !.focus = default] ELSE q

\* The call that waits for a read is over with it: its panel, if it is still there, is
\* ready for the next, and what was typed in it is gone.
Waiting(l) == {d \in decisions : d.pc = "listing" /\ d.nr = l.by}

Settled(d, p) ==
    IF ~d.here THEN p
    ELSE IF d.status = "live" THEN [p EXCEPT !.pending = "none", !.confirming = FALSE]
    ELSE [p EXCEPT !.pending = "none", !.form = "closed"]

\* The page shows q once the calls in over are done; a panel of another kind starts afresh.
Show(q, over) ==
    LET moved == PanelShown(q) # PanelShown(queue)
        left  == {d \in decisions \ over : d.pc = "listing" => ~moved}
    IN /\ queue' = q
       /\ panel' = IF moved THEN NoPanel
                   ELSE IF over = {} THEN panel ELSE Settled(CHOOSE d \in over : TRUE, panel)
       /\ decisions' = IF moved THEN {[d EXCEPT !.here = FALSE] : d \in left} ELSE left

Land(l) ==
    /\ l \in loads /\ l.pc = "read"
    /\ Show(Refocused([queue EXCEPT !.list = l.saw, !.status = "ready"]), Waiting(l))
    /\ loads' = loads \ {l}
    /\ UNCHANGED <<gateVars, tools, turns>>

\* A silent read that fails leaves the list as it is.
LoadFails(l) ==
    /\ l \in loads /\ l.pc # "read" /\ turns < MaxTurns
    /\ Show([queue EXCEPT !.status = IF l.silent THEN @ ELSE "error"], Waiting(l))
    /\ loads' = loads \ {l}
    /\ turns' = turns + 1
    /\ UNCHANGED <<gateVars, tools>>

\* A click on a card of the queue.
SelectTool(t) ==
    /\ Mounted /\ queue.list[t] \in {"testing", "manual_review", "listed"}
    /\ Show([queue EXCEPT !.focus = t], {})
    /\ UNCHANGED <<gateVars, loads, tools, turns>>

--------------------------------------------------------------------------------
(* The panels                                                              *)

Shows(kinds) == Mounted /\ PanelShown(queue) \in kinds

Edit(p) ==
    /\ panel' = p
    /\ UNCHANGED <<gateVars, queue, loads, decisions, tools, turns>>

\* The form of the reason, in the review and the live panel: open, type, cancel.
OpenForm   == /\ Shows({"ReviewPanel", "LivePanel"})
              /\ Edit([panel EXCEPT !.form = IF @ = "closed" THEN "blank" ELSE @,
                                    !.confirming = FALSE])
TypeReason == /\ Shows({"ReviewPanel", "LivePanel"}) /\ panel.form # "closed"
              /\ \E text \in {"blank", "typed"} : Edit([panel EXCEPT !.form = text])
CancelForm == /\ Shows({"ReviewPanel", "LivePanel"}) /\ panel.form # "closed"
              /\ Edit([panel EXCEPT !.form = "closed"])

AskApproval    == Shows({"ReviewPanel"}) /\ panel.pending = "none" /\ Edit([panel EXCEPT !.confirming = TRUE])
CancelApproval == Shows({"ReviewPanel"}) /\ panel.confirming /\ Edit([panel EXCEPT !.confirming = FALSE])

\* A decision on the focused tool is sent.
Decide(action, status, reason) ==
    /\ turns < MaxTurns
    /\ panel' = [panel EXCEPT !.pending = action]
    /\ decisions' = decisions \cup
          {[nr |-> CHOOSE n \in 1..MaxTurns : \A d \in decisions : d.nr # n,
            tool |-> queue.focus, status |-> status, reason |-> reason,
            pc |-> "sent", ran |-> FALSE, here |-> TRUE]}
    /\ turns' = turns + 1
    /\ UNCHANGED <<gateVars, queue, loads, tools>>

Approve == Shows({"ReviewPanel"}) /\ panel.confirming /\ panel.pending # "approve"
           /\ Decide("approve", "live", FALSE)

Reject == Shows({"ReviewPanel"}) /\ panel.form = "typed" /\ panel.pending # "reject"
          /\ Decide("reject", "rejected", TRUE)

Revoke == Shows({"LivePanel"}) /\ panel.form = "typed" /\ panel.pending # "revoke"
          /\ Decide("revoke", "paused", TRUE)

\* Mutant: the status is set, and the reason of an earlier decision kept.
ReviewedStatusOnly(tool, d) == [tool EXCEPT !.status = d.status, !.reason = @ \/ d.reason]

\* update_tool_review_status writes status and reason of any tool, whatever its status.
Reviewed(tool, d) == [tool EXCEPT !.status = d.status, !.reason = d.reason]

\* The server takes the decision, perhaps after the page has given up waiting.
DecisionRuns(d) ==
    /\ d \in decisions /\ d.pc \in {"sent", "lost"} /\ ~d.ran
    /\ tools' = [tools EXCEPT ![d.tool] = Reviewed(@, d)]
    /\ decisions' = (decisions \ {d}) \cup
          (IF d.pc = "lost" THEN {} ELSE {[d EXCEPT !.ran = TRUE]})
    /\ UNCHANGED <<gateVars, queue, panel, loads, turns>>

\* The answer: a message and a new read of the queue, which the panel waits for.
DecisionAnswered(d) ==
    /\ d \in decisions /\ d.pc = "sent" /\ d.ran
    /\ StartLoad(FALSE, IF d.here THEN d.nr ELSE 0)
    /\ decisions' = (decisions \ {d}) \cup (IF d.here THEN {[d EXCEPT !.pc = "listing"]} ELSE {})
    /\ queue' = [queue EXCEPT !.status = "loading"]
    /\ UNCHANGED <<gateVars, panel, tools, turns>>

\* No answer, or a refusal (a tool without an endpoint is not approved): a message, and
\* the panel goes on as after a success.  The request may still be on its way.
DecisionFails(d) ==
    /\ d \in decisions /\ d.pc = "sent"
    /\ panel' = Settled(d, panel)
    /\ \/ decisions' = decisions \ {d}
       \/ ~d.ran /\ decisions' = (decisions \ {d}) \cup {[d EXCEPT !.pc = "lost", !.here = FALSE]}
    /\ UNCHANGED <<gateVars, queue, loads, tools, turns>>

JobEvent(t) ==
    /\ turns < MaxTurns
    /\ \E tool \in JobEvents(tools[t]) : tools' = [tools EXCEPT ![t] = tool]
    /\ turns' = turns + 1
    /\ UNCHANGED <<gateVars, queue, panel, loads, decisions>>

--------------------------------------------------------------------------------

ApproverNext ==
    \/ ApproverAccountChanges
    \/ OpenQueue
    \/ Poll
    \/ RetryLoad
    \/ \E l \in loads : ReadTools(l) \/ ReadJobs(l) \/ Land(l) \/ LoadFails(l)
    \/ \E t \in ReviewTools : SelectTool(t) \/ JobEvent(t)
    \/ OpenForm \/ TypeReason \/ CancelForm
    \/ AskApproval \/ CancelApproval
    \/ Approve \/ Reject \/ Revoke
    \/ \E d \in decisions : DecisionRuns(d) \/ DecisionAnswered(d) \/ DecisionFails(d)

\* The interval fires and reads end; people need not act.
LoadMoves(pc) == \E l \in loads : l.pc = pc /\ (ReadTools(l) \/ ReadJobs(l) \/ Land(l))

ApproverSpec ==
    /\ ApproverInit /\ [][ApproverNext]_approverVars
    /\ WF_approverVars(Poll)
    /\ \A pc \in {"reading", "tools", "jobs", "read"} : WF_approverVars(LoadMoves(pc))

--------------------------------------------------------------------------------

\* What an approver made public carries no reason of a rejection, and what one rejected
\* or revoked carries one, in whatever order concurrent decisions reach the server
\* (updateToolReviewStatus sends status and processing_error together).
DecisionsCarryReason ==
    \A t \in ReviewTools :
        /\ tools[t].status = "live" => ~tools[t].reason
        /\ tools[t].status \in {"rejected", "paused"} => tools[t].reason

\* The open queue shows the stage of every tool.
QueueIsCurrent == Mounted => \A t \in ReviewTools : queue.list[t] = StageOf(t)
================================================================================
