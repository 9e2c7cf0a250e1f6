--------------------------- MODULE AccountPagesProofs ---------------------------
(***************************************************************************)
(* The pages of people who sign in, for any number of accounts, tools,     *)
(* users, keys, repositories, calls, retries and failures, and the client  *)
(* that carries their calls.                                               *)
(***************************************************************************)
EXTENDS ApiClient, ApproverPage, AdminPage, KeysPanel, DashboardPage, SubmitPage,
        FiniteSetTheorems, TLAPS

(***************************************************************************)
(* The gate.                                                               *)
(***************************************************************************)

\* A check that still counts is one of the account signed in now.
ActiveIsCurrent ==
    \A c \in checks :
        /\ {"user", "active"} \subseteq DOMAIN c
        /\ c.active => c.user = viewer

GateInv ==
    /\ {"access", "token"} \subseteq DOMAIN gate
    /\ ActiveIsCurrent
    /\ GateIsGuarded

\* The effect closes the page and leaves no check of another account active.
LEMMA AccountStep ==
    ASSUME GateInv, NEW a, AccountChanges(a)
    PROVE  GateInv'
<1>1. gate' = Gate(a, gate.token) /\ viewer' = a /\ checks' = Deactivated \cup Check(a)
  BY DEF AccountChanges
<1>2. {"access", "token"} \subseteq DOMAIN gate' /\ gate'.access # "ready"
  BY <1>1 DEF Gate
<1>3. ASSUME NEW c \in checks'
      PROVE  {"user", "active"} \subseteq DOMAIN c /\ (c.active => c.user = a)
  <2>1. CASE c \in Check(a)
    BY <2>1 DEF Check
  <2>2. CASE c \in Deactivated
    <3>1. PICK d \in checks : c = [d EXCEPT !.active = FALSE]
      BY <2>2 DEF Deactivated
    <3>2. {"user", "active"} \subseteq DOMAIN c /\ ~c.active
      BY <3>1 DEF GateInv, ActiveIsCurrent
    <3>3. QED
      BY <3>2
  <2>3. QED
    BY <1>1, <2>1, <2>2
<1>4. QED
  BY <1>1, <1>2, <1>3 DEF GateInv, ActiveIsCurrent, GateIsGuarded, Mounted

\* A check opens the page only for the account that is signed in now.
LEMMA VerdictStep ==
    ASSUME GateInv, NEW c \in checks, VerifyAdmin(c)
    PROVE  GateInv'
<1>1. /\ checks' \subseteq checks /\ viewer' = viewer
      /\ IF c.active THEN gate' \in Verdicts(c) ELSE gate' = gate
  BY DEF VerifyAdmin
<1>2. ActiveIsCurrent'
  BY <1>1 DEF GateInv, ActiveIsCurrent
<1>3. CASE c.active
  <2>1. c.user = viewer
    BY <1>3 DEF GateInv, ActiveIsCurrent
  <2>2. /\ {"access", "token"} \subseteq DOMAIN gate'
        /\ gate'.access = "ready" => gate'.token = viewer /\ viewer \in Admins
    BY <1>1, <1>3, <2>1 DEF Verdicts
  <2>3. QED
    BY <1>1, <1>2, <2>2 DEF GateInv, GateIsGuarded, Mounted
<1>4. CASE ~c.active
  BY <1>1, <1>2, <1>4 DEF GateInv, GateIsGuarded, Mounted
<1>5. QED
  BY <1>3, <1>4

LEMMA GateStarts == GateInit => GateInv
<1> SUFFICES ASSUME GateInit PROVE GateInv
  OBVIOUS
<1>1. {"access", "token"} \subseteq DOMAIN gate /\ gate.access # "ready"
  BY DEF GateInit, Gate
<1>2. ActiveIsCurrent
  BY DEF GateInit, Check, ActiveIsCurrent
<1>3. QED
  BY <1>1, <1>2 DEF GateInv, GateIsGuarded, Mounted

LEMMA GateRests == GateInv /\ UNCHANGED gateVars => GateInv'
BY DEF GateInv, gateVars, ActiveIsCurrent, GateIsGuarded, Mounted

LEMMA ApproverGateStep == GateInv /\ [ApproverNext]_approverVars => GateInv'
<1> SUFFICES ASSUME GateInv, [ApproverNext]_approverVars PROVE GateInv'
  OBVIOUS
<1>1. CASE ApproverAccountChanges
  BY <1>1, AccountStep DEF ApproverAccountChanges
<1>2. CASE OpenQueue
  BY <1>2, VerdictStep DEF OpenQueue
<1>3. ASSUME Poll \/ RetryLoad \/ OpenForm \/ TypeReason \/ CancelForm \/ AskApproval
               \/ CancelApproval \/ Approve \/ Reject \/ Revoke \/ UNCHANGED approverVars
      PROVE  UNCHANGED gateVars
  BY <1>3 DEF Poll, RetryLoad, OpenForm, TypeReason, CancelForm, AskApproval, CancelApproval,
              Approve, Reject, Revoke, Edit, Decide, approverVars
<1>4. ASSUME NEW l \in loads, ReadTools(l) \/ ReadJobs(l) \/ Land(l) \/ LoadFails(l)
      PROVE  UNCHANGED gateVars
  BY <1>4 DEF ReadTools, ReadJobs, Read, Land, LoadFails
<1>5. ASSUME NEW t \in ReviewTools, SelectTool(t) \/ JobEvent(t)
      PROVE  UNCHANGED gateVars
  BY <1>5 DEF SelectTool, JobEvent
<1>6. ASSUME NEW d \in decisions, DecisionRuns(d) \/ DecisionAnswered(d) \/ DecisionFails(d)
      PROVE  UNCHANGED gateVars
  BY <1>6 DEF DecisionRuns, DecisionAnswered, DecisionFails
<1>7. QED
  BY <1>1, <1>2, <1>3, <1>4, <1>5, <1>6, GateRests DEF ApproverNext

LEMMA AdminGateStep == GateInv /\ [AdminNext]_adminVars => GateInv'
<1> SUFFICES ASSUME GateInv, [AdminNext]_adminVars PROVE GateInv'
  OBVIOUS
<1>1. CASE AdminAccountChanges
  BY <1>1, AccountStep DEF AdminAccountChanges
<1>2. CASE OpenAdmin
  BY <1>2, VerdictStep DEF OpenAdmin
<1>3. CASE Refresh \/ UNCHANGED adminVars
  BY <1>3, GateRests DEF Refresh, adminVars
<1>4. ASSUME NEW l \in reads, ReadUsers(l) \/ ReadRuns(l) \/ LoadLands(l) \/ AdminLoadFails(l)
      PROVE  UNCHANGED gateVars
  BY <1>4 DEF ReadUsers, ReadRuns, LoadLands, AdminLoadFails
<1>5. ASSUME NEW u \in Users, UpdateUser(u)
      PROVE  UNCHANGED gateVars
  BY <1>5 DEF UpdateUser, Send
<1>6. ASSUME NEW r \in Runs, RetryRun(r) \/ RunFails(r)
      PROVE  UNCHANGED gateVars
  BY <1>6 DEF RetryRun, RunFails, Send
<1>7. ASSUME NEW c \in calls, Serve(c) \/ UserAnswered(c) \/ RunAnswered(c) \/ CallFails(c)
      PROVE  UNCHANGED gateVars
  BY <1>7 DEF Serve, UserAnswered, RunAnswered, CallFails
<1>8. QED
  BY <1>1, <1>2, <1>3, <1>4, <1>5, <1>6, <1>7, GateRests DEF AdminNext

\* The review queue is open only for the administrator who is signed in (verifyAdmin of
\* the approver's page).
THEOREM ApproverIsGuarded == ApproverSpec => []GateIsGuarded
<1>1. ApproverInit => GateInv
  BY GateStarts DEF ApproverInit
<1>2. GateInv => GateIsGuarded
  BY DEF GateInv
<1>3. QED
  BY <1>1, <1>2, ApproverGateStep, PTL DEF ApproverSpec

\* So is the operations page (verifyAdmin of the administrators' page).
THEOREM AdminIsGuarded == AdminSpec => []GateIsGuarded
<1>1. AdminInit => GateInv
  BY GateStarts DEF AdminInit
<1>2. GateInv => GateIsGuarded
  BY DEF GateInv
<1>3. QED
  BY <1>1, <1>2, AdminGateStep, PTL DEF AdminSpec

(***************************************************************************)
(* Decisions and their reasons.                                            *)
(***************************************************************************)

\* What is public has no reason of a rejection, what was rejected or revoked has one.
Reasoned(x) ==
    /\ x.reason \in BOOLEAN
    /\ x.status = "live" => ~x.reason
    /\ x.status \in {"rejected", "paused"} => x.reason

Decision(d) == {"pc", "here", "ran", "status", "reason"} \subseteq DOMAIN d /\ Reasoned(d)
Decisions(D) == \A d \in D : Decision(d)

ReasonInv ==
    /\ tools = [t \in ReviewTools |-> tools[t]]
    /\ \A t \in ReviewTools :
           {"status", "job", "reason"} \subseteq DOMAIN tools[t] /\ Reasoned(tools[t])
    /\ Decisions(decisions)

\* Changes of where a decision is leave what it decides.
LEMMA MovedDecision ==
    ASSUME NEW d, Decision(d), NEW pc, NEW here
    PROVE  /\ Decision([d EXCEPT !.pc = pc])
           /\ Decision([d EXCEPT !.here = here])
           /\ Decision([d EXCEPT !.ran = TRUE])
           /\ Decision([d EXCEPT !.pc = pc, !.here = here])
BY DEF Decision, Reasoned

\* What Show leaves of the decisions.
LEMMA ShowKeeps ==
    ASSUME NEW q, NEW over, Decisions(decisions), Show(q, over)
    PROVE  Decisions(decisions')
<1> DEFINE moved == PanelShown(q) # PanelShown(queue)
           left  == {d \in decisions \ over : d.pc = "listing" => ~moved}
<1>1. decisions' = IF moved THEN {[d EXCEPT !.here = FALSE] : d \in left} ELSE left
  BY DEF Show
<1>2. left \subseteq decisions
  OBVIOUS
<1> HIDE DEF left, moved
<1>3. ASSUME NEW e \in {[d EXCEPT !.here = FALSE] : d \in left}
      PROVE  Decision(e)
  <2>1. PICK d \in left : e = [d EXCEPT !.here = FALSE]
    BY <1>3
  <2>2. Decision(d)
    BY <1>2 DEF Decisions
  <2>3. QED
    BY <2>1, <2>2, MovedDecision
<1>4. QED
  BY <1>1, <1>2, <1>3 DEF Decisions

\* What the workers and the seller write comes with its reason.
LEMMA JobEventReasoned ==
    ASSUME ReasonInv, NEW t \in ReviewTools, NEW tool \in JobEvents(tools[t])
    PROVE  {"status", "job", "reason"} \subseteq DOMAIN tool /\ Reasoned(tool)
BY DEF ReasonInv, JobEvents, Reasoned

\* A write to one tool.
LEMMA WriteTool ==
    ASSUME ReasonInv, NEW t, NEW tool,
           {"status", "job", "reason"} \subseteq DOMAIN tool /\ Reasoned(tool),
           tools' = [tools EXCEPT ![t] = tool], Decisions(decisions')
    PROVE  ReasonInv'
BY DEF ReasonInv

\* No step breaks the invariant.
LEMMA ReasonStep == ReasonInv /\ [ApproverNext]_approverVars => ReasonInv'
<1> SUFFICES ASSUME ReasonInv, [ApproverNext]_approverVars PROVE ReasonInv'
  OBVIOUS
<1>0. Decisions(decisions)
  BY DEF ReasonInv
<1>1. CASE ApproverAccountChanges
  <2>1. decisions' = {[d EXCEPT !.pc = "lost", !.here = FALSE] : d \in {e \in decisions : ~e.ran}}
        /\ tools' = tools
    BY <1>1 DEF ApproverAccountChanges, Unmount
  <2>2. ASSUME NEW f \in decisions' PROVE Decision(f)
    <3>1. PICK d \in decisions : f = [d EXCEPT !.pc = "lost", !.here = FALSE]
      BY <2>1, <2>2
    <3>2. Decision(d)
      BY <1>0 DEF Decisions
    <3>3. Decision([d EXCEPT !.pc = "lost", !.here = FALSE])
      BY <3>2, MovedDecision
    <3>4. QED
      BY <3>1, <3>3
  <2>3. QED
    BY <2>1, <2>2 DEF ReasonInv, Decisions
<1>2. ASSUME OpenQueue \/ Poll \/ RetryLoad \/ OpenForm \/ TypeReason \/ CancelForm \/ AskApproval
               \/ CancelApproval \/ UNCHANGED approverVars
      PROVE  UNCHANGED <<tools, decisions>>
  BY <1>2 DEF OpenQueue, Poll, RetryLoad, OpenForm, TypeReason, CancelForm, AskApproval,
              CancelApproval, Edit, approverVars
<1>3. ASSUME NEW l \in loads, ReadTools(l) \/ ReadJobs(l)
      PROVE  UNCHANGED <<tools, decisions>>
  BY <1>3 DEF ReadTools, ReadJobs, Read
<1>4. ASSUME NEW l \in loads, Land(l) \/ LoadFails(l)
      PROVE  Decisions(decisions') /\ tools' = tools
  BY <1>0, <1>4, ShowKeeps DEF Land, LoadFails
<1>5. ASSUME NEW t \in ReviewTools, SelectTool(t)
      PROVE  Decisions(decisions') /\ tools' = tools
  BY <1>0, <1>5, ShowKeeps DEF SelectTool
<1>6. ASSUME NEW t \in ReviewTools, JobEvent(t)
      PROVE  ReasonInv'
  <2>1. PICK tool \in JobEvents(tools[t]) : tools' = [tools EXCEPT ![t] = tool]
    BY <1>6 DEF JobEvent
  <2>2. decisions' = decisions
    BY <1>6 DEF JobEvent
  <2>3. QED
    BY <1>0, <2>1, <2>2, JobEventReasoned, WriteTool
<1>7. ASSUME Approve \/ Reject \/ Revoke
      PROVE  Decisions(decisions') /\ tools' = tools
  <2>1. ASSUME NEW action, NEW verdict, NEW reason \in BOOLEAN, Decide(action, verdict, reason),
               (verdict = "live" /\ ~reason) \/ (verdict \in {"rejected", "paused"} /\ reason)
        PROVE  Decisions(decisions') /\ tools' = tools
    <3>1. PICK nr : decisions' = decisions \cup
             {[nr |-> nr, tool |-> queue.focus, status |-> verdict, reason |-> reason,
               pc |-> "sent", ran |-> FALSE, here |-> TRUE]}
      BY <2>1 DEF Decide
    <3>2. tools' = tools
      BY <2>1 DEF Decide
    <3>3. QED
      BY <1>0, <2>1, <3>1, <3>2 DEF Decisions, Decision, Reasoned
  <2>2. QED
    BY <1>7, <2>1 DEF Approve, Reject, Revoke
<1>8. ASSUME NEW d \in decisions, DecisionRuns(d)
      PROVE  ReasonInv'
  <2>1. tools' = [tools EXCEPT ![d.tool] = Reviewed(tools[d.tool], d)]
    BY <1>8 DEF DecisionRuns
  <2>2. Decisions(decisions')
    <3>1. Decision([d EXCEPT !.ran = TRUE])
      BY <1>0, MovedDecision DEF Decisions
    <3>2. QED
      BY <1>0, <1>8, <3>1 DEF DecisionRuns, Decisions
  <2>3. CASE d.tool \in ReviewTools
    <3>1. {"status", "job", "reason"} \subseteq DOMAIN Reviewed(tools[d.tool], d)
          /\ Reasoned(Reviewed(tools[d.tool], d))
      BY <1>0, <2>3 DEF ReasonInv, Reviewed, Reasoned, Decisions, Decision
    <3>2. QED
      BY <2>1, <2>2, <3>1, WriteTool
  <2>4. CASE d.tool \notin ReviewTools
    <3>1. tools' = tools
      BY <2>1, <2>4 DEF ReasonInv
    <3>2. QED
      BY <2>2, <3>1 DEF ReasonInv
  <2>5. QED
    BY <2>3, <2>4
<1>9. ASSUME NEW d \in decisions, DecisionAnswered(d) \/ DecisionFails(d)
      PROVE  Decisions(decisions') /\ tools' = tools
  <2>1. Decision([d EXCEPT !.pc = "listing"])
        /\ Decision([d EXCEPT !.pc = "lost", !.here = FALSE])
    <3>1. Decision(d)
      BY <1>0 DEF Decisions
    <3>2. QED
      BY <3>1, MovedDecision
  <2>2. decisions' \subseteq decisions \cup {[d EXCEPT !.pc = "listing"]}
                                      \cup {[d EXCEPT !.pc = "lost", !.here = FALSE]}
    BY <1>9 DEF DecisionAnswered, DecisionFails
  <2>3. tools' = tools
    BY <1>9 DEF DecisionAnswered, DecisionFails
  <2>4. QED
    BY <1>0, <2>1, <2>2, <2>3 DEF Decisions
<1>10. UNCHANGED <<tools, decisions>> => ReasonInv'
  BY DEF ReasonInv
<1>11. Decisions(decisions') /\ tools' = tools => ReasonInv'
  BY DEF ReasonInv
<1>12. QED
  BY <1>1, <1>2, <1>3, <1>4, <1>5, <1>6, <1>7, <1>8, <1>9, <1>10, <1>11 DEF ApproverNext

LEMMA ReasonStarts == ApproverInit => ReasonInv
<1> SUFFICES ASSUME ApproverInit PROVE ReasonInv
  OBVIOUS
<1> DEFINE draft == [status |-> "draft", job |-> "none", reason |-> FALSE]
<1>1. {"status", "job", "reason"} \subseteq DOMAIN draft /\ Reasoned(draft)
  BY DEF Reasoned
<1>2. tools = [t \in ReviewTools |-> draft] /\ decisions = {}
  BY DEF ApproverInit
<1> HIDE DEF draft
<1>3. QED
  BY <1>1, <1>2 DEF ReasonInv, Decisions

LEMMA ReasonsShow == ReasonInv => DecisionsCarryReason
BY DEF ReasonInv, Reasoned, DecisionsCarryReason

\* In whatever order decisions reach the server, a tool that is public has no reason of a
\* rejection and one that was rejected or revoked has one (updateToolReviewStatus).
THEOREM ReasonsAreCarried == ApproverSpec => []DecisionsCarryReason
BY ReasonStarts, ReasonsShow, ReasonStep, PTL DEF ApproverSpec

(***************************************************************************)
(* The API client.                                                         *)
(***************************************************************************)

Writes == call.method \notin {"GET", "HEAD"}

\* A call that writes never leaves its first attempt.
WriteInv ==
    /\ {"method", "pc", "attempt", "status", "result"} \subseteq DOMAIN call
    /\ Writes =>
           /\ call.pc # "delay"
           /\ call.pc = "idle" => wire = {} /\ ran = {}
           /\ wire \subseteq {0} /\ ran \subseteq {0}

\* No step breaks the invariant.
LEMMA WriteStep == WriteInv /\ [ClientNext]_clientVars => WriteInv'
<1> SUFFICES ASSUME WriteInv, [ClientNext]_clientVars PROVE WriteInv'
  OBVIOUS
<1>1. CASE Request
  BY <1>1 DEF Request, Fetch, WriteInv, Writes
<1>2. CASE SkipFetch
  BY <1>2 DEF SkipFetch, Settle, WriteInv, Writes
<1>3. ASSUME NEW i \in Attempts, Execute(i) PROVE WriteInv'
  BY <1>3 DEF Execute, WriteInv, Writes
<1>4. ASSUME NEW i \in Attempts, Lose(i) PROVE WriteInv'
  BY <1>4 DEF Lose, WriteInv, Writes
<1>5. ASSUME NEW code \in Statuses, Respond(code) PROVE WriteInv'
  BY <1>5 DEF Respond, WriteInv, Writes
<1>6. CASE NoAnswer
  BY <1>6 DEF NoAnswer, Settle, WriteInv, Writes
<1>7. CASE ReadBody
  BY <1>7 DEF ReadBody, Settle, Retries, WriteInv, Writes
<1>8. CASE RetryDelayEnds
  BY <1>8 DEF RetryDelayEnds, Fetch, WriteInv, Writes
<1>9. CASE UNCHANGED clientVars
  BY <1>9 DEF clientVars, WriteInv, Writes
<1>10. QED
  BY <1>1, <1>2, <1>3, <1>4, <1>5, <1>6, <1>7, <1>8, <1>9 DEF ClientNext

\* Whatever the scheduling.
LEMMA ClientRunsSafely == ClientInit /\ [][ClientNext]_clientVars => []WriteOnce
<1>1. ClientInit => WriteInv
  BY DEF ClientInit, WriteInv
<1>2. WriteInv => WriteOnce
  <2> SUFFICES ASSUME WriteInv, Writes PROVE Cardinality(ran) <= 1
    BY DEF Writes, WriteOnce
  <2>1. IsFiniteSet({0}) /\ Cardinality({0}) = 1
    BY FS_Singleton
  <2>2. ran \in SUBSET {0}
    BY DEF WriteInv
  <2>3. QED
    BY <2>1, <2>2, FS_Subset
<1>3. QED
  BY <1>1, <1>2, WriteStep, PTL

\* However a call that writes ends for its caller, the server carries it out at most once
\* (requestWithRetry repeats only GET and HEAD).
THEOREM WritesRunOnce == ClientSpec => []WriteOnce
BY ClientRunsSafely, PTL DEF ClientSpec

(***************************************************************************)
(* The list of users.                                                      *)
(***************************************************************************)

\* The check that counts is the only one, and has not ended.
OneCheckCounts ==
    /\ checks \subseteq [user : Accounts, active : BOOLEAN]
    /\ \A c \in checks : c.active => c.user = viewer /\ gate.access # "ready"

RowStates == {"absent", "unread", "active", "suspended", "failed", "queued"}

RowLists == [users : [Users -> RowStates], runs : [Runs -> RowStates]]

ButtonCalls == [kind : {"user", "run"}, target : Users \cup Runs, value : RowStates,
                saw : RowStates \cup {"nothing"}, heard : BOOLEAN, list : [Users -> RowStates]]

AdminTypes ==
    /\ view \in [users : [Users -> RowStates], runs : [Runs -> RowStates], status : {"loading", "ready", "error"}]
    /\ server \in RowLists
    /\ reads \subseteq RowLists
    /\ calls \subseteq ButtonCalls
    /\ \A c \in calls : c.kind = "user" => c.target \in Users
    /\ tangled \in BOOLEAN /\ steps \in Nat

\* As long as nothing overlaps, each call is the only one for its row and the page hears
\* of it, ...
CallsAreApart ==
    /\ ~Mounted => calls = {}
    /\ \A c \in calls :
          /\ c.heard
          /\ c.saw # "nothing" /\ c.kind = "user" => server.users[c.target] = c.saw
          /\ \A d \in calls : d.kind = c.kind /\ d.target = c.target => d = c

\* ... a load runs alone and reads what the server has until it lands, ...
LoadIsAlone ==
    \A l \in reads : reads = {l} /\ calls = {} /\ l.users \in {NewRead.users, server.users}

\* ... and a row differs from the server's only while the answer to its call is on the way.
RowsAreCurrent ==
    view.status = "ready" => \A u \in Users :
        \/ view.users[u] = server.users[u]
        \/ \E c \in calls : c.kind = "user" /\ c.target = u /\ c.saw = server.users[u]

AdminInv ==
    /\ OneCheckCounts
    /\ AdminTypes
    /\ ~tangled => CallsAreApart /\ LoadIsAlone /\ RowsAreCurrent

\* The gate's step.
LEMMA ChecksStep == OneCheckCounts /\ [AdminNext]_adminVars => OneCheckCounts'
<1> SUFFICES ASSUME OneCheckCounts, [AdminNext]_adminVars PROVE OneCheckCounts'
  OBVIOUS
<1>1. CASE AdminAccountChanges
  <2>1. PICK a : gate'.access # "ready" /\ viewer' = a /\ checks' = Deactivated \cup Check(a)
    BY <1>1 DEF AdminAccountChanges, AccountChanges, Gate
  <2>2. \A c \in Deactivated : c \in [user : Accounts, active : BOOLEAN] /\ ~c.active
    BY DEF Deactivated, OneCheckCounts
  <2>3. \A c \in Check(a) : c \in [user : Accounts, active : BOOLEAN] /\ c.user = a
    <3> SUFFICES ASSUME NEW c \in Check(a)
                 PROVE  c \in [user : Accounts, active : BOOLEAN] /\ c.user = a
      OBVIOUS
    <3>1. PICK u \in {a} \cap Accounts : c = [user |-> u, active |-> TRUE]
      BY DEF Check
    <3>2. QED
      BY <3>1
  <2>4. QED
    BY <2>1, <2>2, <2>3 DEF OneCheckCounts
<1>2. CASE OpenAdmin
  <2>1. PICK c \in checks : VerifyAdmin(c)
    BY <1>2 DEF OpenAdmin
  <2>2. /\ checks' = checks \ {c} /\ viewer' = viewer
        /\ ~c.active => gate' = gate
    BY <2>1 DEF VerifyAdmin
  <2>3. c.active => \A d \in checks' : ~d.active
    BY <2>2 DEF OneCheckCounts
  <2>4. QED
    BY <2>2, <2>3 DEF OneCheckCounts
<1>3. CASE UNCHANGED gateVars
  BY <1>3 DEF gateVars, OneCheckCounts
<1>4. QED
  BY <1>1, <1>2, <1>3 DEF AdminNext, adminVars, Refresh, ReadUsers, ReadRuns, LoadLands, AdminLoadFails,
     UpdateUser, RetryRun, Send, RunFails, Serve, UserAnswered, RunAnswered, CallFails

\* No step leaves the types.
LEMMA AdminTypesStep == AdminTypes /\ [AdminNext]_adminVars => AdminTypes'
<1> SUFFICES ASSUME AdminTypes, [AdminNext]_adminVars PROVE AdminTypes'
  OBVIOUS
<1> DEFINE Views == [users : [Users -> RowStates], runs : [Runs -> RowStates], status : {"loading", "ready", "error"}]
<1>0. NoView \in Views /\ NewRead \in RowLists
  BY DEF NoView, NewRead, RowStates, RowLists
<1>1. /\ view \in Views /\ server \in RowLists /\ reads \subseteq RowLists
      /\ calls \subseteq ButtonCalls /\ (\A c \in calls : c.kind = "user" => c.target \in Users)
      /\ tangled \in BOOLEAN /\ steps \in Nat
      /\ view.users \in [Users -> RowStates]
  BY DEF AdminTypes
<1>2. ASSUME view' \in Views, server' \in RowLists, reads' \subseteq RowLists,
             calls' \subseteq ButtonCalls, \A c \in calls' : c.kind = "user" => c.target \in Users,
             tangled' \in BOOLEAN, steps' \in Nat
      PROVE  AdminTypes'
  BY <1>2 DEF AdminTypes
<1>3. ASSUME NEW others, Load(others) PROVE reads' \subseteq RowLists /\ tangled' \in BOOLEAN
  BY <1>0, <1>1, <1>3 DEF Load
<1>4. Step => steps' \in Nat
  BY <1>1 DEF Step
<1> HIDE DEF Views
<1>5. CASE AdminAccountChanges
  <2>1. calls' \subseteq ButtonCalls /\ \A c \in calls' : c.kind = "user" => c.target \in Users
    BY <1>1, <1>5, ZenonT(40) DEF AdminAccountChanges, ButtonCalls
  <2>2. QED
    BY <1>0, <1>1, <1>2, <1>4, <1>5, <2>1 DEF AdminAccountChanges
<1>6. CASE OpenAdmin
  BY <1>0, <1>1, <1>2, <1>6 DEF OpenAdmin
<1>7. CASE Refresh
  <2>1. view' \in Views
    BY <1>1, <1>7 DEF Refresh, Views
  <2>2. QED
    BY <1>1, <1>2, <1>3, <1>4, <1>7, <2>1 DEF Refresh
<1>8. ASSUME NEW l \in reads, ReadUsers(l) \/ ReadRuns(l) \/ LoadLands(l) \/ AdminLoadFails(l)
      PROVE  AdminTypes'
  <2>1. l \in RowLists
    BY <1>1
  <2>2. [l EXCEPT !.users = server.users] \in RowLists /\ [l EXCEPT !.runs = server.runs] \in RowLists
    BY <1>1, <2>1 DEF RowLists
  <2>3. [users |-> l.users, runs |-> l.runs, status |-> "ready"] \in Views
        /\ [view EXCEPT !.status = "error"] \in Views
    BY <1>1, <2>1 DEF RowLists, Views
  <2>4. QED
    BY <1>1, <1>2, <1>4, <1>8, <2>2, <2>3 DEF ReadUsers, ReadRuns, LoadLands, AdminLoadFails
<1>9. ASSUME NEW kind \in {"user", "run"}, NEW target \in Users \cup Runs, NEW value \in RowStates,
             kind = "user" => target \in Users, Send(kind, target, value)
      PROVE  AdminTypes'
  <2> DEFINE new == [kind |-> kind, target |-> target, value |-> value,
                     saw |-> "nothing", heard |-> TRUE, list |-> view.users]
  <2>1. new \in ButtonCalls /\ (new.kind = "user" => new.target \in Users)
    BY <1>1, <1>9 DEF ButtonCalls
  <2>2. calls' = calls \cup {new} /\ tangled' \in BOOLEAN /\ steps' \in Nat /\ UNCHANGED <<view, reads, server>>
    BY <1>1, <1>4, <1>9 DEF Send
  <2> HIDE DEF new
  <2>3. QED
    BY <1>1, <1>2, <2>1, <2>2
<1>10. ASSUME NEW u \in Users, UpdateUser(u) PROVE AdminTypes'
  <2>1. (IF view.users[u] = "active" THEN "suspended" ELSE "active") \in RowStates
    BY DEF RowStates
  <2>2. QED
    BY <1>9, <1>10, <2>1 DEF UpdateUser
<1>11. ASSUME NEW r \in Runs, RetryRun(r) PROVE AdminTypes'
  BY <1>9, <1>11 DEF RetryRun, RowStates
<1>12. ASSUME NEW r \in Runs, RunFails(r) PROVE AdminTypes'
  <2>1. [server EXCEPT !.runs[r] = "failed"] \in RowLists
    BY <1>1 DEF RowLists, RowStates
  <2>2. QED
    BY <1>1, <1>2, <1>4, <1>12, <2>1 DEF RunFails
<1>13. ASSUME NEW c \in calls, Serve(c) PROVE AdminTypes'
  <2>1. c \in ButtonCalls /\ c.value \in RowStates
    BY <1>1 DEF ButtonCalls
  <2>2. [c EXCEPT !.saw = c.value] \in ButtonCalls
        /\ [c EXCEPT !.saw = c.value].kind = c.kind /\ [c EXCEPT !.saw = c.value].target = c.target
    BY <2>1 DEF ButtonCalls
  <2>3. server' \in RowLists
    BY <1>1, <1>13, <2>1 DEF Serve, RowLists, RowStates
  <2>4. QED
    BY <1>1, <1>2, <1>13, <2>2, <2>3 DEF Serve
<1>14. ASSUME NEW c \in calls, UserAnswered(c) \/ RunAnswered(c) PROVE AdminTypes'
  <2>1. c.saw \in RowStates
    BY <1>1, <1>14 DEF ButtonCalls, UserAnswered, RunAnswered
  <2>2. view' \in Views
    <3>1. CASE UserAnswered(c)
      <4>1. Merged(c) \in [Users -> RowStates]
        BY <1>1, <2>1 DEF Merged
      <4>2. QED
        BY <1>1, <3>1, <4>1 DEF UserAnswered, Views
    <3>2. CASE RunAnswered(c)
      <4>1. view' = [view EXCEPT !.runs = [view.runs EXCEPT ![c.target] = c.saw], !.status = "loading"]
        BY <1>1, <3>2 DEF RunAnswered, Views
      <4>2. [view.runs EXCEPT ![c.target] = c.saw] \in [Runs -> RowStates]
        BY <1>1, <2>1 DEF Views
      <4>3. QED
        BY <1>1, <4>1, <4>2 DEF Views
    <3>3. QED
      BY <1>14, <3>1, <3>2
  <2>3. QED
    BY <1>1, <1>2, <1>3, <1>14, <2>2 DEF UserAnswered, RunAnswered
<1>15. ASSUME NEW c \in calls, CallFails(c) PROVE AdminTypes'
  <2>1. [c EXCEPT !.heard = FALSE] \in ButtonCalls
        /\ [c EXCEPT !.heard = FALSE].kind = c.kind /\ [c EXCEPT !.heard = FALSE].target = c.target
    BY <1>1 DEF ButtonCalls
  <2>2. QED
    BY <1>1, <1>2, <1>15, <2>1 DEF CallFails
<1>16. CASE UNCHANGED adminVars
  BY <1>1, <1>2, <1>16 DEF adminVars
<1>17. QED
  BY <1>5, <1>6, <1>7, <1>8, <1>10, <1>11, <1>12, <1>13, <1>14, <1>15, <1>16 DEF AdminNext

\* No step breaks the invariant.
LEMMA AdminStep == AdminInv /\ [AdminNext]_adminVars => AdminInv'
<1> SUFFICES ASSUME AdminInv, [AdminNext]_adminVars, ~tangled'
             PROVE  CallsAreApart' /\ LoadIsAlone' /\ RowsAreCurrent'
  BY ChecksStep, AdminTypesStep DEF AdminInv
<1> DEFINE Parts == CallsAreApart' /\ LoadIsAlone' /\ RowsAreCurrent'
<1>0. /\ OneCheckCounts /\ calls \subseteq ButtonCalls
      /\ \A c \in calls : c.kind = "user" => c.target \in Users
      /\ view.users \in [Users -> RowStates] /\ server.users \in [Users -> RowStates]
      /\ ~tangled => CallsAreApart /\ LoadIsAlone /\ RowsAreCurrent
      /\ tangled \in BOOLEAN /\ view = [view EXCEPT !.status = view.status]
      /\ DOMAIN view = {"users", "runs", "status"}
      /\ reads \subseteq RowLists
      /\ server \in RowLists
  BY DEF AdminInv, AdminTypes, RowLists
<1>1. CASE AdminAccountChanges
  <2>1. calls' = {} /\ reads' = {} /\ view' = NoView
    BY <1>1 DEF AdminAccountChanges
  <2>2. QED
    BY <2>1 DEF NoView, CallsAreApart, LoadIsAlone, RowsAreCurrent
\* Everything else keeps what got tangled.
<1>2. CASE ~tangled /\ OpenAdmin
  <2>1. PICK c \in checks : VerifyAdmin(c)
    BY <1>2 DEF OpenAdmin
  <2>2. /\ ~c.active => gate' = gate
        /\ UNCHANGED <<view, calls, server>>
        /\ reads' = IF Opens THEN {NewRead} ELSE reads
    BY <1>2, <2>1 DEF OpenAdmin, VerifyAdmin
  <2>3. CASE Mounted
    <3>1. gate' = gate
      BY <1>0, <2>2, <2>3 DEF OneCheckCounts, Mounted
    <3>2. ~Opens /\ Mounted'
      BY <2>3, <3>1 DEF Opens, Mounted
    <3>3. QED
      BY <1>0, <1>2, <2>2, <2>3, <3>2 DEF CallsAreApart, LoadIsAlone, RowsAreCurrent
  <2>4. CASE ~Mounted
    <3>1. calls = {}
      BY <1>0, <1>2, <2>4 DEF CallsAreApart
    <3>2. \A l \in reads' : reads' = {l} /\ l.users \in {NewRead.users, server.users}
      BY <1>0, <1>2, <2>2 DEF LoadIsAlone
    <3>3. QED
      BY <1>0, <1>2, <2>2, <3>1, <3>2 DEF CallsAreApart, LoadIsAlone, RowsAreCurrent
  <2>5. QED
    BY <2>3, <2>4
<1>3. ASSUME UNCHANGED gateVars PROVE Mounted' <=> Mounted
  BY <1>3 DEF gateVars, Mounted
<1>4. CASE Refresh
  <2>1. /\ ~tangled /\ calls = {} /\ reads = {} /\ reads' = {NewRead} /\ UNCHANGED <<calls, server>>
        /\ view'.status = "loading" /\ UNCHANGED gateVars
    BY <1>0, <1>4 DEF Refresh, Load
  <2>2. QED
    BY <1>3, <2>1 DEF CallsAreApart, LoadIsAlone, RowsAreCurrent
<1>5. ASSUME ~tangled, NEW l \in reads, ReadUsers(l) \/ ReadRuns(l) PROVE Parts
  <2>1. l \in RowLists /\ reads = {l} /\ calls = {} /\ l.users \in {NewRead.users, server.users}
    BY <1>0, <1>5 DEF LoadIsAlone
  <2>2. PICK m : reads' = {m} /\ m.users \in {l.users, server.users}
    <3>1. [l EXCEPT !.users = server.users].users = server.users
          /\ [l EXCEPT !.runs = server.runs].users = l.users
      BY <2>1 DEF RowLists
    <3>2. reads' = {[l EXCEPT !.users = server.users]} \/ reads' = {[l EXCEPT !.runs = server.runs]}
      BY <1>5, <2>1 DEF ReadUsers, ReadRuns
    <3>3. QED
      BY <3>1, <3>2
  <2>3. UNCHANGED <<gateVars, view, calls, server>>
    BY <1>5 DEF ReadUsers, ReadRuns
  <2>4. QED
    BY <1>0, <1>3, <1>5, <2>1, <2>2, <2>3 DEF CallsAreApart, LoadIsAlone, RowsAreCurrent
<1>6. ASSUME ~tangled, NEW l \in reads, LoadLands(l) \/ AdminLoadFails(l) PROVE Parts
  <2>1. reads = {l} /\ calls = {} /\ l.users \in {NewRead.users, server.users}
    BY <1>0, <1>6 DEF LoadIsAlone
  <2>2. reads' = {} /\ UNCHANGED <<gateVars, calls, server>>
    BY <1>6, <2>1 DEF LoadLands, AdminLoadFails
  <2>3. view'.users = server.users \/ view'.status = "error"
    BY <1>0, <1>6, <2>1 DEF LoadLands, AdminLoadFails
  <2>4. QED
    BY <1>3, <1>6, <2>1, <2>2, <2>3 DEF CallsAreApart, LoadIsAlone, RowsAreCurrent
<1>7. ASSUME NEW kind, NEW target, NEW value, Send(kind, target, value) PROVE Parts
  <2>1. /\ ~tangled /\ reads = {} /\ Mounted
        /\ \A c \in calls : ~(c.kind = kind /\ c.target = target)
        /\ UNCHANGED <<gateVars, view, reads, server>>
    BY <1>0, <1>7 DEF Send
  <2>2. PICK new : /\ calls' = calls \cup {new} /\ new.kind = kind /\ new.target = target
                   /\ new.saw = "nothing" /\ new.heard
    <3> DEFINE n == [kind |-> kind, target |-> target, value |-> value,
                     saw |-> "nothing", heard |-> TRUE, list |-> view.users]
    <3>1. calls' = calls \cup {n} /\ n.kind = kind /\ n.target = target /\ n.saw = "nothing" /\ n.heard
      BY <1>7 DEF Send
    <3> HIDE DEF n
    <3>2. QED
      BY <3>1
  <2>3. CallsAreApart'
    BY <1>0, <1>3, <2>1, <2>2 DEF CallsAreApart
  <2>4. QED
    BY <1>0, <2>1, <2>2, <2>3 DEF LoadIsAlone, RowsAreCurrent
<1>8. ASSUME ~tangled, NEW r \in Runs, RunFails(r) PROVE Parts
  <2>1. UNCHANGED <<gateVars, view, reads, calls>> /\ server'.users = server.users
    BY <1>0, <1>8 DEF RunFails, RowLists
  <2>2. QED
    BY <1>0, <1>3, <1>8, <2>1 DEF CallsAreApart, LoadIsAlone, RowsAreCurrent
<1>9. ASSUME ~tangled, NEW c \in calls, Serve(c) PROVE Parts
  <2>1. /\ c \in ButtonCalls /\ c.heard /\ Mounted /\ reads = {}
        /\ UNCHANGED <<gateVars, view, reads>>
    BY <1>0, <1>9 DEF Serve, CallsAreApart, LoadIsAlone
  <2> DEFINE e == [c EXCEPT !.saw = c.value]
  <2>2. /\ calls' = (calls \ {c}) \cup {e}
        /\ e.kind = c.kind /\ e.target = c.target /\ e.saw = c.value /\ e.heard
    BY <1>9, <2>1 DEF Serve, ButtonCalls
  <2> HIDE DEF e
  <2>3. \A d \in calls \ {c} : d.kind = c.kind => d.target # c.target
    BY <1>0, <1>9 DEF CallsAreApart
  <2>4. CASE c.kind = "run"
    <3>1. server'.users = server.users
      BY <1>0, <1>9, <2>4 DEF Serve, RowLists
    <3>2. CallsAreApart'
      BY <1>0, <1>3, <1>9, <2>1, <2>2, <2>3, <2>4, <3>1 DEF CallsAreApart
    <3>3. RowsAreCurrent'
      BY <1>0, <1>9, <2>1, <2>2, <2>4, <3>1 DEF RowsAreCurrent
    <3>4. QED
      BY <2>1, <3>2, <3>3 DEF LoadIsAlone
  <2>5. CASE c.kind = "user"
    <3>1. server'.users = [server.users EXCEPT ![c.target] = c.value]
      BY <1>0, <1>9, <2>5 DEF Serve, RowLists
    <3>2. CallsAreApart'
      <4>1. \A d \in calls \ {c} : d.kind = "user" => server'.users[d.target] = server.users[d.target]
        BY <1>0, <2>3, <2>5, <3>1
      <4>2. server'.users[e.target] = e.saw
        BY <1>0, <1>9, <2>2, <2>5, <3>1
      <4>3. QED
        BY <1>0, <1>3, <1>9, <2>1, <2>2, <2>3, <4>1, <4>2 DEF CallsAreApart
    <3>3. RowsAreCurrent'
      <4> SUFFICES ASSUME view.status = "ready", NEW u \in Users
                   PROVE  \/ view.users[u] = server'.users[u]
                          \/ \E d \in calls' : d.kind = "user" /\ d.target = u /\ d.saw = server'.users[u]
        BY <2>1 DEF RowsAreCurrent
      <4>1. CASE u = c.target
        BY <1>0, <2>2, <2>5, <3>1, <4>1
      <4>2. CASE u # c.target
        <5>1. server'.users[u] = server.users[u]
          BY <1>0, <3>1, <4>2
        <5>2. QED
          BY <1>0, <1>9, <2>2, <4>2, <5>1 DEF RowsAreCurrent
      <4>3. QED
        BY <4>1, <4>2
    <3>4. QED
      BY <2>1, <3>2, <3>3 DEF LoadIsAlone
  <2>6. QED
    BY <2>1, <2>4, <2>5 DEF ButtonCalls
<1>10. ASSUME ~tangled, NEW c \in calls, UserAnswered(c) PROVE Parts
  <2>1. /\ reads = {} /\ calls' = calls \ {c} /\ UNCHANGED <<gateVars, reads, server>>
        /\ c.saw = server.users[c.target] /\ c.kind = "user"
    BY <1>0, <1>10 DEF UserAnswered, CallsAreApart, LoadIsAlone
  <2>2. /\ view'.users = [view.users EXCEPT ![c.target] = c.saw] /\ view'.status = view.status
    BY <1>0, <1>10 DEF UserAnswered, Merged
  <2>3. CallsAreApart' /\ LoadIsAlone'
    BY <1>0, <1>3, <1>10, <2>1 DEF CallsAreApart, LoadIsAlone
  <2>4. RowsAreCurrent'
    <3> SUFFICES ASSUME view.status = "ready", NEW u \in Users
                 PROVE  \/ view'.users[u] = server.users[u]
                        \/ \E d \in calls' : d.kind = "user" /\ d.target = u /\ d.saw = server.users[u]
      BY <2>1, <2>2 DEF RowsAreCurrent
    <3>1. CASE u = c.target
      BY <1>0, <2>1, <2>2, <3>1
    <3>2. CASE u # c.target
      BY <1>0, <1>10, <2>1, <2>2, <3>2 DEF RowsAreCurrent
    <3>3. QED
      BY <3>1, <3>2
  <2>5. QED
    BY <2>3, <2>4
<1>11. ASSUME NEW c \in calls, RunAnswered(c) PROVE Parts
  <2>1. /\ calls' = {} /\ reads' = {NewRead} /\ UNCHANGED <<gateVars, server>>
        /\ view'.status = "loading"
    BY <1>0, <1>11 DEF RunAnswered, Load
  <2>2. QED
    BY <1>3, <2>1 DEF CallsAreApart, LoadIsAlone, RowsAreCurrent
<1>12. ASSUME NEW c \in calls, CallFails(c) PROVE FALSE
  BY <1>12 DEF CallFails
<1>13. CASE ~tangled /\ UNCHANGED adminVars
  BY <1>0, <1>3, <1>13 DEF adminVars, CallsAreApart, LoadIsAlone, RowsAreCurrent
<1>14. tangled => \/ AdminAccountChanges \/ Refresh
                  \/ \E u \in Users : UpdateUser(u)
                  \/ \E r \in Runs : RetryRun(r)
                  \/ \E c \in calls : RunAnswered(c) \/ CallFails(c)
  BY DEF AdminNext, adminVars, OpenAdmin, ReadUsers, ReadRuns, LoadLands, AdminLoadFails, RunFails,
         Serve, UserAnswered
<1>15. ASSUME (\E u \in Users : UpdateUser(u)) \/ (\E r \in Runs : RetryRun(r)) PROVE Parts
  BY <1>7, <1>15 DEF UpdateUser, RetryRun
<1>16. CASE tangled
  BY <1>1, <1>4, <1>11, <1>12, <1>14, <1>15, <1>16
<1>17. CASE ~tangled
  BY <1>1, <1>2, <1>4, <1>5, <1>6, <1>8, <1>9, <1>10, <1>11, <1>12, <1>13, <1>15, <1>17 DEF AdminNext
<1>18. QED
  BY <1>16, <1>17

LEMMA AdminStarts == AdminInit => AdminInv
<1> SUFFICES ASSUME AdminInit PROVE AdminInv
  OBVIOUS
<1>1. OneCheckCounts
  <2>1. \A c \in checks : c \in [user : Accounts, active : BOOLEAN] /\ c.user = viewer
    <3> SUFFICES ASSUME NEW c \in Check(viewer)
                 PROVE  c \in [user : Accounts, active : BOOLEAN] /\ c.user = viewer
      BY DEF AdminInit, GateInit
    <3>1. PICK u \in {viewer} \cap Accounts : c = [user |-> u, active |-> TRUE]
      BY DEF Check
    <3>2. QED
      BY <3>1
  <2>2. gate.access # "ready"
    BY DEF AdminInit, GateInit, Gate
  <2>3. QED
    BY <2>1, <2>2 DEF OneCheckCounts
<1>2. AdminTypes
  BY DEF AdminInit, NoView, AdminTypes, RowLists, RowStates
<1>3. CallsAreApart /\ LoadIsAlone /\ RowsAreCurrent
  BY DEF AdminInit, NoView, CallsAreApart, LoadIsAlone, RowsAreCurrent
<1>4. QED
  BY <1>1, <1>2, <1>3 DEF AdminInv

LEMMA AdminShows == AdminInv => UsersAreCurrent
<1> SUFFICES ASSUME AdminInv, view.status = "ready", calls = {}, ~tangled
             PROVE  view.users = server.users
  BY DEF UsersAreCurrent
<1>1. \A u \in Users : view.users[u] = server.users[u]
  BY DEF AdminInv, RowsAreCurrent
<1>2. view.users \in [Users -> RowStates] /\ server.users \in [Users -> RowStates]
  BY DEF AdminInv, AdminTypes, RowLists
<1>3. QED
  BY <1>1, <1>2

\* The list of users comes to be the server's in whatever order the answers come, for any
\* number of users and overlapping calls (updateUser).
THEOREM UsersStayCurrent == AdminSpec => []UsersAreCurrent
BY AdminStarts, AdminShows, AdminStep, PTL DEF AdminSpec

(***************************************************************************)
(* The dashboard.                                                          *)
(***************************************************************************)

\* A fetch that counts is for the account signed in now, and has got its data or failed.
FetchesAreOwn ==
    \A f \in fetches :
        /\ {"user", "active", "synced", "got"} \subseteq DOMAIN f
        /\ f.got = [m \in Modes |-> f.got[m]]
        /\ \A m \in Modes : f.got[m] \in {"nothing", "failed", f.user}
        /\ f.active => f.user = person

DashInv ==
    /\ mode \in Modes
    /\ FetchesAreOwn
    /\ \A m \in Modes : /\ status[m] = "ready" => summary[m] = person
                        /\ status[m] # "loading" => summary[m] \in {"none", person}
                        /\ status[m] = "idle" => person = "loading"

\* What the effect starts is for the account it runs for, and what it cleans up counts
\* no more.
LEMMA EffectFetches ==
    ASSUME FetchesAreOwn, NEW u, person' = u, fetches' = Cancelled \cup Fetching(u)
    PROVE  FetchesAreOwn'
<1> SUFFICES ASSUME NEW f \in fetches'
             PROVE  /\ {"user", "active", "synced", "got"} \subseteq DOMAIN f
                    /\ f.got = [m \in Modes |-> f.got[m]]
                    /\ \A m \in Modes : f.got[m] \in {"nothing", "failed", f.user}
                    /\ f.active => f.user = u
  BY DEF FetchesAreOwn
<1>1. CASE f \in Fetching(u)
  BY <1>1 DEF Fetching, Both
<1>2. CASE f \in Cancelled
  <2>1. PICK g \in fetches : f = [g EXCEPT !.active = FALSE]
    BY <1>2 DEF Cancelled
  <2>2. f.user = g.user /\ f.got = g.got /\ DOMAIN f = DOMAIN g /\ ~f.active
    BY <2>1 DEF FetchesAreOwn
  <2>3. QED
    BY <2>2 DEF FetchesAreOwn
<1>3. QED
  BY <1>1, <1>2

\* One fetch goes on, with no change but in what it has got.
LEMMA FetchGoesOn ==
    ASSUME FetchesAreOwn, person' = person, NEW f \in fetches, NEW g,
           fetches' = (fetches \ {f}) \cup {g},
           DOMAIN g = DOMAIN f, g.user = f.user, g.active = f.active,
           g.got = [m \in Modes |-> g.got[m]],
           \A m \in Modes : g.got[m] \in {f.got[m], "failed", f.user}
    PROVE  FetchesAreOwn'
BY DEF FetchesAreOwn

LEMMA DashStep == DashInv /\ [DashNext]_dashVars => DashInv'
<1> SUFFICES ASSUME DashInv, [DashNext]_dashVars PROVE DashInv'
  OBVIOUS
<1>0. FetchesAreOwn
  BY DEF DashInv
<1>1. CASE PersonChanges
  <2>1. PICK u \in People \cup {"guest"} :
            /\ person' = u
            /\ status' = Both(IF u = "guest" THEN "guest" ELSE "loading")
            /\ fetches' = Cancelled \cup Fetching(u)
            /\ u = "guest" => summary' = Both("none")
    BY <1>1 DEF PersonChanges
  <2>2. FetchesAreOwn'
    BY <1>0, <2>1, EffectFetches
  <2>3. \A m \in Modes : \/ status'[m] = "loading"
                         \/ status'[m] = "guest" /\ summary'[m] = "none"
    <3>1. u = "guest" => summary' = Both("none")
      BY <2>1
    <3>2. QED
      BY <2>1, <3>1 DEF Both
  <2>4. mode' = mode
    BY <1>1 DEF PersonChanges
  <2>5. QED
    BY <2>2, <2>3, <2>4 DEF DashInv
<1>2. CASE Retry
  <2>1. FetchesAreOwn'
    BY <1>0, <1>2, EffectFetches DEF Retry
  <2>2. \A m \in Modes : status'[m] = "loading"
    BY <1>2 DEF Retry, Both
  <2>3. QED
    BY <1>2, <2>1, <2>2 DEF DashInv, Retry
<1>3. CASE ChooseMode
  BY <1>3 DEF ChooseMode, DashInv, FetchesAreOwn
<1>4. ASSUME NEW f \in fetches, Synced(f)
      PROVE  DashInv'
  <2>1. FetchesAreOwn'
    <3> DEFINE g == [f EXCEPT !.synced = TRUE]
    <3>1. DOMAIN g = DOMAIN f /\ g.user = f.user /\ g.active = f.active /\ g.got = f.got
      BY <1>0 DEF FetchesAreOwn
    <3>2. fetches' = (fetches \ {f}) \cup {g} /\ person' = person
      BY <1>4 DEF Synced
    <3> HIDE DEF g
    <3>3. QED
      BY <1>0, <3>1, <3>2, FetchGoesOn DEF FetchesAreOwn
  <2>2. QED
    BY <1>4, <2>1 DEF Synced, DashInv
<1>5. ASSUME NEW f \in fetches, SyncFails(f)
      PROVE  DashInv'
  <2>1. FetchesAreOwn'
    BY <1>0, <1>5 DEF FetchesAreOwn, SyncFails
  <2>2. \A m \in Modes : \/ status'[m] = "error" /\ summary'[m] = "none"
                         \/ status'[m] = status[m] /\ summary'[m] = summary[m]
    BY <1>5 DEF SyncFails, Both
  <2>3. QED
    BY <1>5, <2>1, <2>2 DEF SyncFails, DashInv
<1>6. ASSUME NEW f \in fetches, NEW m \in Modes, SummaryComes(f, m) \/ SummaryFails(f, m)
      PROVE  DashInv'
  <2>1. PICK d \in {"failed", f.user} : fetches' = (fetches \ {f}) \cup {[f EXCEPT !.got[m] = d]}
    BY <1>6 DEF SummaryComes, SummaryFails
  <2>2. FetchesAreOwn'
    <3> DEFINE g == [f EXCEPT !.got[m] = d]
    <3>1. /\ DOMAIN g = DOMAIN f /\ g.user = f.user /\ g.active = f.active
          /\ g.got = [f.got EXCEPT ![m] = d]
      BY <1>0 DEF FetchesAreOwn
    <3>2. /\ g.got = [n \in Modes |-> g.got[n]]
          /\ \A n \in Modes : g.got[n] \in {f.got[n], "failed", f.user}
      BY <1>0, <3>1 DEF FetchesAreOwn
    <3>3. person' = person
      BY <1>6 DEF SummaryComes, SummaryFails
    <3> HIDE DEF g
    <3>4. QED
      BY <1>0, <2>1, <3>1, <3>2, <3>3, FetchGoesOn DEF g
  <2>3. QED
    BY <1>6, <2>2 DEF SummaryComes, SummaryFails, DashInv
<1>7. ASSUME NEW f \in fetches, FetchSettles(f)
      PROVE  DashInv'
  <2>1. FetchesAreOwn'
    BY <1>0, <1>7 DEF FetchesAreOwn, FetchSettles
  <2>2. CASE f.active
    <3>1. \A m \in Modes : status'[m] = "ready" => summary'[m] = person
      <4> SUFFICES ASSUME NEW m \in Modes, status'[m] = "ready"
                   PROVE  summary'[m] = person
        OBVIOUS
      <4>1. /\ status' = Outcomes(f)
            /\ summary' = [n \in Modes |-> IF f.got[n] = "failed" THEN "none" ELSE f.got[n]]
        BY <1>7, <2>2 DEF FetchSettles, Counts
      <4>2. f.got[m] # "failed"
        BY <4>1 DEF Outcomes
      <4>3. summary'[m] = f.got[m]
        BY <4>1, <4>2
      <4>4. f.got[m] # "nothing"
        BY <1>7 DEF FetchSettles
      <4>5. f.got[m] = f.user /\ f.user = person
        BY <1>0, <1>7, <2>2, <4>2, <4>4 DEF FetchesAreOwn
      <4>6. QED
        BY <4>3, <4>5
    <3>2. \A m \in Modes : /\ status'[m] # "idle"
                           /\ status'[m] # "ready" => summary'[m] = "none"
      BY <1>7, <2>2 DEF FetchSettles, Counts, Outcomes
    <3>3. QED
      BY <1>7, <2>1, <3>1, <3>2 DEF FetchSettles, DashInv
  <2>3. CASE ~f.active
    BY <1>7, <2>1, <2>3 DEF FetchSettles, Counts, DashInv
  <2>4. QED
    BY <2>2, <2>3
<1>8. CASE UNCHANGED dashVars
  BY <1>8 DEF dashVars, DashInv, FetchesAreOwn
<1>9. QED
  BY <1>1, <1>2, <1>3, <1>4, <1>5, <1>6, <1>7, <1>8 DEF DashNext

LEMMA DashboardRunsSafely == DashInit /\ [][DashNext]_dashVars => []OwnDataOnly
<1>1. DashInit => DashInv
  <2> SUFFICES ASSUME DashInit PROVE DashInv
    OBVIOUS
  <2>1. FetchesAreOwn
    BY DEF DashInit, FetchesAreOwn, Fetching, Both
  <2>2. QED
    BY <2>1 DEF DashInit, DashInv, Both, Modes
<1>2. DashInv => OwnDataOnly
  <2> SUFFICES ASSUME DashInv PROVE OwnDataOnly
    OBVIOUS
  <2>0. Header \notin {"none", person} => status["seller"] = "loading"
    BY DEF DashInv, Header, Modes
  <2>1. mode # "none" /\ mode \in Modes
    BY DEF DashInv, Modes
  <2>2. CASE status[mode] = "ready"
    <3>1. Panels # "none" /\ summary[mode] = person
      BY <2>1, <2>2 DEF DashInv, Panels
    <3>2. Notice = "none"
      BY <2>2 DEF Notice
    <3>3. QED
      BY <2>0, <3>1, <3>2 DEF OwnDataOnly
  <2>3. CASE status[mode] # "ready"
    <3>1. Panels = "none"
      BY <2>3 DEF Panels
    <3>2. person # "loading" => status[mode] # "idle"
      BY <2>1 DEF DashInv
    <3>3. person # "loading" => Notice # "none"
      BY <2>3, <3>2 DEF Notice
    <3>4. QED
      BY <2>0, <3>1, <3>3 DEF OwnDataOnly
  <2>4. QED
    BY <2>2, <2>3
<1>3. QED
  BY <1>1, <1>2, DashStep, PTL

\* The dashboard's panels only ever show data of the account that is signed in, a page
\* without panels says why, and the seller's figures in the header are of that account
\* unless its data is loading (loadAccountDashboards with its active flag,
\* DashboardDataNotice).
THEOREM PanelsAreOwn == DashSpec => []OwnDataOnly
BY DashboardRunsSafely, PTL DEF DashSpec

(***************************************************************************)
(* The API keys.                                                           *)
(***************************************************************************)

CallFields == {"pc", "user", "keys", "key"}

KeyShapes ==
    /\ DOMAIN shown = {"keys", "status", "secret", "asking"}
    /\ shown.status \in {"idle", "loading", "ready", "error"}
    /\ shown.status = "idle" => owner = "guest"
    /\ \A l \in listing : {"user", "active", "saw", "keys"} = DOMAIN l
    /\ creating # NoCall => DOMAIN creating = CallFields /\ creating.pc \in {"sent", "issued"}
    /\ revoking # NoCall => DOMAIN revoking = CallFields /\ revoking.pc \in {"sent", "revoked"}
    /\ issued = [k \in Keys |-> issued[k]]
    /\ \A k \in Keys : DOMAIN issued[k] = {"status", "user"}

\* While nothing untidy has happened: a load that counts has the account's keys, or will;
ListingsAreCurrent ==
    /\ \A l \in listing : l.active => l.user = owner
    /\ \A l \in listing : l.active /\ l.saw = "keys" => l.keys = KeysOf(owner)
    /\ shown.status = "loading" => \E l \in listing : l.active
    /\ shown.status = "error" => shown.keys = NoKeys

\* a call is alone, of this account, and copied the list that is shown;
CallIsAlone(c, other) ==
    c # NoCall =>
        /\ other = NoCall /\ listing = {} /\ shown.status = "ready"
        /\ c.user = owner /\ c.keys = shown.keys
        /\ c.pc = "sent" => shown.keys = KeysOf(owner)

\* and what it will show is what the server holds by then.
CallShows(c, pc, becomes) ==
    c # NoCall /\ c.pc = pc =>
        c.key \in Keys /\ [shown.keys EXCEPT ![c.key] = becomes] = KeysOf(owner)

Tidy ==
    /\ ListingsAreCurrent
    /\ CallIsAlone(creating, revoking)
    /\ CallIsAlone(revoking, creating)
    /\ revoking # NoCall => revoking.key \in Keys
    /\ CallShows(creating, "issued", "active")
    /\ CallShows(revoking, "revoked", "revoked")
    /\ shown.status = "ready" /\ creating = NoCall /\ revoking = NoCall => shown.keys = KeysOf(owner)

KeysInv == KeyShapes /\ (~untidy => Tidy)

LEMMA KeysStart == KeysInit => KeysInv
<1> SUFFICES ASSUME KeysInit PROVE KeysInv
  OBVIOUS
<1>1. KeyShapes
  BY DEF KeysInit, KeyShapes, Blank
<1>2. ListingsAreCurrent
  <2>1. shown.status = "loading" => owner \in Owners
    BY DEF KeysInit, Blank
  <2>2. /\ listing = {[user |-> u, active |-> TRUE, saw |-> "nothing", keys |-> NoKeys] : u \in {owner} \cap Owners}
        /\ shown.status # "error"
    BY DEF KeysInit, Blank
  <2>3. \A l \in listing : l.user = owner /\ l.saw = "nothing"
    BY <2>2
  <2>4. ASSUME shown.status = "loading" PROVE \E l \in listing : l.active
    <3> DEFINE l == [user |-> owner, active |-> TRUE, saw |-> "nothing", keys |-> NoKeys]
    <3>1. l \in listing
      BY <2>1, <2>2, <2>4
    <3>2. l.active
      OBVIOUS
    <3> HIDE DEF l
    <3>3. QED
      BY <3>1, <3>2
  <2>5. QED
    BY <2>2, <2>3, <2>4 DEF ListingsAreCurrent
<1>3. shown.status # "ready" /\ creating = NoCall /\ revoking = NoCall
  BY DEF KeysInit, Blank
<1>4. QED
  BY <1>1, <1>2, <1>3 DEF KeysInv, Tidy, CallIsAlone, CallShows

LEMMA KeyShapesStep == KeyShapes /\ [KeysNext]_keysVars => KeyShapes'
<1> SUFFICES ASSUME KeyShapes, [KeysNext]_keysVars PROVE KeyShapes'
  OBVIOUS
<1> USE DEF KeyShapes, CallFields
<1>1. CASE OwnerChanges
  BY <1>1 DEF OwnerChanges
<1>2. ASSUME NEW l \in listing, ListKeys(l) \/ KeysListed(l) \/ ListingFails(l)
      PROVE  KeyShapes'
  <2>1. CASE ListKeys(l)
    BY <2>1 DEF ListKeys
  <2>2. CASE KeysListed(l)
    BY <2>2 DEF KeysListed
  <2>3. CASE ListingFails(l)
    BY <2>3 DEF ListingFails
  <2>4. QED
    BY <1>2, <2>1, <2>2, <2>3
<1>3. CASE CreateKey
  BY <1>3 DEF CreateKey
<1>4. CASE Created
  BY <1>4 DEF Created, NoCall
<1>5. CASE CreationFails
  BY <1>5 DEF CreationFails
<1>6. ASSUME NEW k \in Keys, Issue(k)
      PROVE  KeyShapes'
  BY <1>6 DEF Issue, NoCall
<1>7. ASSUME NEW k \in Keys, AskRevoke(k)
      PROVE  KeyShapes'
  BY <1>7 DEF AskRevoke
<1>8. ASSUME NEW k \in Keys, RevokeKey(k)
      PROVE  KeyShapes'
  BY <1>8 DEF RevokeKey
<1>9. CASE CancelRevoke
  BY <1>9 DEF CancelRevoke
<1>10. CASE Revoked
  BY <1>10 DEF Revoked, NoCall
<1>11. CASE RevocationAnswered
  BY <1>11 DEF RevocationAnswered, NoCall
<1>12. CASE RevocationFails
  BY <1>12 DEF RevocationFails
<1>13. CASE DismissSecret
  BY <1>13 DEF DismissSecret
<1>14. CASE UNCHANGED keysVars
  BY <1>14 DEF keysVars
<1>15. QED
  BY <1>1, <1>2, <1>3, <1>4, <1>5, <1>6, <1>7, <1>8, <1>9, <1>10, <1>11, <1>12, <1>13, <1>14
     DEF KeysNext

\* A step of the panel: whoever signs in, while nothing is untidy, the calls are over.
LEMMA OwnerChangesTidily ==
    ASSUME KeyShapes, Tidy, OwnerChanges, ~untidy'
    PROVE  Tidy'
<1>1. creating = NoCall /\ revoking = NoCall /\ creating' = NoCall /\ revoking' = NoCall
  BY DEF OwnerChanges
<1>2. PICK u \in Owners \cup {"guest"} :
        /\ owner' = u
        /\ shown' = IF u = "guest" THEN [shown EXCEPT !.keys = NoKeys, !.status = "idle"]
                    ELSE [shown EXCEPT !.status = "loading"]
        /\ listing' = {[l EXCEPT !.active = FALSE] : l \in listing} \cup
              {[user |-> v, active |-> TRUE, saw |-> "nothing", keys |-> NoKeys] : v \in {u} \cap Owners}
  BY DEF OwnerChanges
<1>3. shown'.status = IF u = "guest" THEN "idle" ELSE "loading"
  BY <1>2 DEF KeyShapes
<1>4. \A l \in listing' : l.active => l.user = u /\ l.saw = "nothing"
  BY <1>2 DEF KeyShapes
<1>5. ASSUME shown'.status = "loading" PROVE \E l \in listing' : l.active
  <2> DEFINE l == [user |-> u, active |-> TRUE, saw |-> "nothing", keys |-> NoKeys]
  <2>1. u \in Owners
    BY <1>2, <1>3, <1>5
  <2>2. l \in listing'
    BY <1>2, <2>1
  <2>3. l.active
    OBVIOUS
  <2> HIDE DEF l
  <2>4. QED
    BY <2>2, <2>3
<1>6. ListingsAreCurrent'
  BY <1>2, <1>3, <1>4, <1>5 DEF ListingsAreCurrent
<1>7. QED
  BY <1>1, <1>3, <1>6 DEF Tidy, CallIsAlone, CallShows

\* One load goes on.
LEMMA ListsTidily ==
    ASSUME KeyShapes, Tidy, NEW l \in listing, ListKeys(l)
    PROVE  Tidy'
<1> DEFINE g == [l EXCEPT !.saw = "keys", !.keys = KeysOf(l.user)]
<1>1. /\ listing' = (listing \ {l}) \cup {g}
      /\ UNCHANGED <<owner, shown, creating, revoking, issued>>
  BY DEF ListKeys
<1>2. g.user = l.user /\ g.active = l.active /\ g.keys = KeysOf(l.user)
  BY DEF KeyShapes
<1> HIDE DEF g
<1>3. KeysOf(owner)' = KeysOf(owner) /\ NoKeys' = NoKeys
  BY <1>1 DEF KeysOf, NoKeys
<1>4. creating = NoCall /\ revoking = NoCall
  BY DEF Tidy, CallIsAlone
<1>5. ListingsAreCurrent'
  BY <1>1, <1>2, <1>3 DEF Tidy, ListingsAreCurrent
<1>6. QED
  BY <1>1, <1>3, <1>4, <1>5 DEF Tidy, CallIsAlone, CallShows

LEMMA ListedTidily ==
    ASSUME KeyShapes, Tidy, NEW l \in listing, KeysListed(l) \/ ListingFails(l)
    PROVE  Tidy'
<1>1. /\ listing' = listing \ {l}
      /\ UNCHANGED <<owner, creating, revoking, issued>>
  BY DEF KeysListed, ListingFails
<1>2. KeysOf(owner)' = KeysOf(owner) /\ NoKeys' = NoKeys
  BY <1>1 DEF KeysOf, NoKeys
<1>3. creating = NoCall /\ revoking = NoCall
  BY DEF Tidy, CallIsAlone
<1>4. CASE ~l.active
  <2>1. shown' = shown
    BY <1>4 DEF KeysListed, ListingFails, Current
  <2>2. ListingsAreCurrent'
    BY <1>1, <1>2, <1>4, <2>1 DEF Tidy, ListingsAreCurrent
  <2>3. QED
    BY <1>1, <1>2, <1>3, <2>1, <2>2 DEF Tidy, CallIsAlone, CallShows
<1>5. CASE l.active /\ KeysListed(l)
  <2>1. shown'.status = "ready" /\ shown'.keys = KeysOf(owner)
    BY <1>5 DEF KeysListed, Current, KeyShapes, Tidy, ListingsAreCurrent
  <2>2. ListingsAreCurrent'
    BY <1>1, <1>2, <2>1 DEF Tidy, ListingsAreCurrent
  <2>3. QED
    BY <1>1, <1>2, <1>3, <2>1, <2>2 DEF Tidy, CallIsAlone, CallShows
<1>6. CASE l.active /\ ListingFails(l)
  <2>1. shown'.status = "error" /\ shown'.keys = NoKeys
    BY <1>6 DEF ListingFails, Current, KeyShapes
  <2>2. ListingsAreCurrent'
    BY <1>1, <1>2, <2>1 DEF Tidy, ListingsAreCurrent
  <2>3. QED
    BY <1>1, <1>2, <1>3, <2>1, <2>2 DEF Tidy, CallIsAlone, CallShows
<1>7. QED
  BY <1>4, <1>5, <1>6

\* A call is sent: nothing else is in progress, and the list is the server's.
LEMMA SendsTidily ==
    ASSUME KeyShapes, Tidy, ~untidy', CreateKey \/ \E k \in Keys : RevokeKey(k)
    PROVE  Tidy'
<1>1. UNCHANGED <<owner, shown, listing, issued>>
  BY DEF CreateKey, RevokeKey
<1>2. KeysOf(owner)' = KeysOf(owner) /\ NoKeys' = NoKeys
  BY <1>1 DEF KeysOf, NoKeys
<1>3. creating = NoCall /\ revoking = NoCall /\ listing = {} /\ owner # "guest"
  BY DEF CreateKey, RevokeKey, Busy
<1>4. ListingsAreCurrent'
  BY <1>1, <1>2 DEF Tidy, ListingsAreCurrent
<1>5. CASE CreateKey
  <2>1. /\ creating' = [pc |-> "sent", user |-> owner, keys |-> shown.keys, key |-> "none"]
        /\ revoking' = NoCall /\ shown.status = "ready"
    BY <1>3, <1>5 DEF CreateKey
  <2>2. creating' # NoCall /\ creating'.pc = "sent" /\ creating'.user = owner /\ creating'.keys = shown.keys
    BY <2>1 DEF NoCall
  <2>3. shown.keys = KeysOf(owner)
    BY <1>3, <2>1 DEF Tidy
  <2>4. QED
    BY <1>1, <1>2, <1>3, <1>4, <2>1, <2>2, <2>3 DEF Tidy, CallIsAlone, CallShows
<1>6. ASSUME NEW k \in Keys, RevokeKey(k)
      PROVE  Tidy'
  <2>1. /\ revoking' = [pc |-> "sent", user |-> owner, keys |-> shown.keys, key |-> k]
        /\ creating' = NoCall /\ shown.keys[k] = "active"
    BY <1>3, <1>6 DEF RevokeKey
  <2>2. /\ revoking' # NoCall /\ revoking'.pc = "sent" /\ revoking'.user = owner
        /\ revoking'.keys = shown.keys /\ revoking'.key = k
    BY <2>1 DEF NoCall
  <2>3. shown.status = "ready"
    BY <1>3, <2>1 DEF KeyShapes, Tidy, ListingsAreCurrent, NoKeys
  <2>4. shown.keys = KeysOf(owner)
    BY <1>3, <2>3 DEF Tidy
  <2>5. QED
    BY <1>1, <1>2, <1>3, <1>4, <2>1, <2>2, <2>3, <2>4 DEF Tidy, CallIsAlone, CallShows
<1>7. QED
  BY <1>5, <1>6

\* The server runs a call: what the list becomes with its answer is what the server has.
LEMMA RunsTidily ==
    ASSUME KeyShapes, Tidy, Revoked \/ \E k \in Keys : Issue(k)
    PROVE  Tidy'
<1>1. UNCHANGED <<owner, shown, listing>>
  BY DEF Issue, Revoked
<1>2. listing = {} /\ shown.status = "ready" /\ ListingsAreCurrent'
  <2>0. creating.pc = "sent" \/ revoking.pc = "sent"
    BY DEF Issue, Revoked
  <2>1. creating # NoCall \/ revoking # NoCall
    BY <2>0 DEF NoCall
  <2>2. listing = {} /\ shown.status = "ready"
    BY <2>1 DEF Tidy, CallIsAlone
  <2>3. listing' = {} /\ shown'.status = "ready"
    BY <1>1, <2>2
  <2>4. ListingsAreCurrent'
    BY <2>3 DEF ListingsAreCurrent
  <2>5. QED
    BY <2>2, <2>4
<1>3. ASSUME NEW k \in Keys, Issue(k)
      PROVE  Tidy'
  <2>0. creating.pc = "sent"
    BY <1>3 DEF Issue
  <2>1. creating # NoCall /\ DOMAIN creating = CallFields
    <3>1. creating # NoCall
      BY <2>0 DEF NoCall
    <3>2. QED
      BY <3>1 DEF KeyShapes
  <2>2. /\ revoking = NoCall /\ revoking' = NoCall /\ creating.user = owner
        /\ creating.keys = shown.keys /\ shown.keys = KeysOf(owner)
    BY <1>3, <2>0, <2>1 DEF Issue, Tidy, CallIsAlone
  <2>3. /\ creating' # NoCall /\ creating'.pc = "issued" /\ creating'.key = k
        /\ creating'.user = owner /\ creating'.keys = shown.keys
    BY <1>3, <2>1, <2>2 DEF Issue, CallFields, NoCall
  <2>4. [shown.keys EXCEPT ![k] = "active"] = KeysOf(owner)'
    <3>1. issued' = [issued EXCEPT ![k] = [status |-> "active", user |-> owner]]
      BY <1>3, <2>2 DEF Issue
    <3>2. \A j \in Keys : issued'[j] = IF j = k THEN [status |-> "active", user |-> owner] ELSE issued[j]
      BY <3>1 DEF KeyShapes
    <3>3. QED
      BY <1>1, <2>2, <3>2 DEF KeysOf
  <2>5. QED
    BY <1>1, <1>2, <2>2, <2>3, <2>4 DEF Tidy, CallIsAlone, CallShows
<1>4. CASE Revoked
  <2>0. revoking.pc = "sent"
    BY <1>4 DEF Revoked
  <2>1. revoking # NoCall /\ DOMAIN revoking = CallFields
    <3>1. revoking # NoCall
      BY <2>0 DEF NoCall
    <3>2. QED
      BY <3>1 DEF KeyShapes
  <2>2. /\ creating = NoCall /\ creating' = NoCall /\ revoking.user = owner
        /\ revoking.keys = shown.keys /\ shown.keys = KeysOf(owner) /\ revoking.key \in Keys
    BY <1>4, <2>0, <2>1 DEF Revoked, Tidy, CallIsAlone
  <2> DEFINE k == revoking.key
  <2>3. /\ revoking' # NoCall /\ revoking'.pc = "revoked" /\ revoking'.key = k
        /\ revoking'.user = owner /\ revoking'.keys = shown.keys
    BY <1>4, <2>1, <2>2 DEF Revoked, CallFields, NoCall
  <2>4. [shown.keys EXCEPT ![k] = "revoked"] = KeysOf(owner)'
    <3>1. issued' = [issued EXCEPT ![k].status = "revoked"] /\ issued[k].user = owner
      BY <1>4, <2>2 DEF Revoked
    <3>2. \A j \in Keys : issued'[j] = IF j = k THEN [issued[k] EXCEPT !.status = "revoked"] ELSE issued[j]
      BY <2>2, <3>1 DEF KeyShapes
    <3>3. issued'[k].status = "revoked" /\ issued'[k].user = owner
      BY <2>2, <3>1, <3>2 DEF KeyShapes
    <3> HIDE DEF k
    <3>4. k \in Keys
      BY <2>2 DEF k
    <3>5. QED
      BY <1>1, <2>2, <3>2, <3>3, <3>4 DEF KeysOf
  <2>5. QED
    BY <1>1, <1>2, <2>2, <2>3, <2>4 DEF Tidy, CallIsAlone, CallShows
<1>5. QED
  BY <1>3, <1>4

\* An answer comes, or fails to before the server ran the call.
LEMMA AnswersTidily ==
    ASSUME KeyShapes, Tidy, ~untidy',
           Created \/ CreationFails \/ RevocationAnswered \/ RevocationFails
    PROVE  Tidy'
<1>1. UNCHANGED <<owner, listing, issued>>
  BY DEF Created, CreationFails, RevocationAnswered, RevocationFails
<1>2. KeysOf(owner)' = KeysOf(owner) /\ NoKeys' = NoKeys
  BY <1>1 DEF KeysOf, NoKeys
<1>3. /\ listing = {} /\ shown.status = "ready"
      /\ creating' = NoCall /\ revoking' = NoCall
  <2>1. creating # NoCall \/ revoking # NoCall
    BY DEF Created, CreationFails, RevocationAnswered, RevocationFails, NoCall
  <2>2. listing = {} /\ shown.status = "ready" /\ (creating = NoCall \/ revoking = NoCall)
    BY <2>1 DEF Tidy, CallIsAlone
  <2>3. CASE Created \/ CreationFails
    <3>1. creating # NoCall
      BY <2>3 DEF Created, CreationFails, NoCall
    <3>2. QED
      BY <2>2, <2>3, <3>1 DEF Created, CreationFails
  <2>4. CASE RevocationAnswered \/ RevocationFails
    <3>1. revoking # NoCall
      BY <2>4 DEF RevocationAnswered, RevocationFails, NoCall
    <3>2. QED
      BY <2>2, <2>4, <3>1 DEF RevocationAnswered, RevocationFails
  <2>5. QED
    BY <2>2, <2>3, <2>4
<1>4. shown'.status = "ready" /\ shown'.keys = KeysOf(owner)
  <2>1. CASE Created
    <3>1. creating # NoCall /\ creating.pc = "issued"
      BY <2>1 DEF Created, NoCall
    <3>2. [creating.keys EXCEPT ![creating.key] = "active"] = KeysOf(owner)
      BY <3>1 DEF Tidy, CallIsAlone, CallShows
    <3>3. QED
      BY <2>1, <3>2 DEF Created, KeyShapes
  <2>2. CASE RevocationAnswered
    <3>1. revoking # NoCall /\ revoking.pc = "revoked"
      BY <2>2 DEF RevocationAnswered, NoCall
    <3>2. [revoking.keys EXCEPT ![revoking.key] = "revoked"] = KeysOf(owner)
      BY <3>1 DEF Tidy, CallIsAlone, CallShows
    <3>3. QED
      BY <1>3, <2>2, <3>2 DEF RevocationAnswered, KeyShapes
  <2>3. CASE CreationFails
    <3>1. creating # NoCall /\ creating.pc = "sent" /\ shown' = shown
      BY <2>3 DEF CreationFails, KeyShapes
    <3>2. QED
      BY <1>3, <3>1 DEF Tidy, CallIsAlone
  <2>4. CASE RevocationFails
    <3>1. revoking # NoCall /\ revoking.pc = "sent" /\ shown' = shown
      BY <2>4 DEF RevocationFails, KeyShapes
    <3>2. QED
      BY <1>3, <3>1 DEF Tidy, CallIsAlone
  <2>5. QED
    BY <2>1, <2>2, <2>3, <2>4
<1>5. ListingsAreCurrent'
  BY <1>1, <1>3, <1>4 DEF ListingsAreCurrent
<1>6. QED
  BY <1>2, <1>3, <1>4, <1>5 DEF Tidy, CallIsAlone, CallShows

\* Steps that touch neither the list nor a call.
LEMMA RestsTidily ==
    ASSUME KeyShapes, Tidy,
           DismissSecret \/ CancelRevoke \/ (\E k \in Keys : AskRevoke(k)) \/ UNCHANGED keysVars
    PROVE  Tidy'
<1>1. UNCHANGED <<owner, listing, issued, creating, revoking>>
  BY DEF DismissSecret, CancelRevoke, AskRevoke, keysVars
<1>2. KeysOf(owner)' = KeysOf(owner) /\ NoKeys' = NoKeys
  BY <1>1 DEF KeysOf, NoKeys
<1>3. shown'.status = shown.status /\ shown'.keys = shown.keys
  BY DEF DismissSecret, CancelRevoke, AskRevoke, keysVars, KeyShapes
<1>4. ListingsAreCurrent'
  BY <1>1, <1>2, <1>3 DEF Tidy, ListingsAreCurrent
<1>5. QED
  BY <1>1, <1>2, <1>3, <1>4 DEF Tidy, CallIsAlone, CallShows

LEMMA KeysStep == KeysInv /\ [KeysNext]_keysVars => KeysInv'
<1> SUFFICES ASSUME KeysInv, [KeysNext]_keysVars PROVE KeysInv'
  OBVIOUS
<1>1. KeyShapes /\ KeyShapes'
  BY KeyShapesStep DEF KeysInv
<1> SUFFICES ASSUME ~untidy' PROVE Tidy'
  BY <1>1 DEF KeysInv
<1>2. ~untidy
  BY DEF KeysNext, keysVars, OwnerChanges, ListKeys, KeysListed, ListingFails, CreateKey, Created,
         CreationFails, Issue, AskRevoke, RevokeKey, CancelRevoke, Revoked, RevocationAnswered,
         RevocationFails, DismissSecret
<1>3. Tidy
  BY <1>2 DEF KeysInv
<1>4. QED
  BY <1>1, <1>3, OwnerChangesTidily, ListsTidily, ListedTidily, SendsTidily, RunsTidily,
     AnswersTidily, RestsTidily DEF KeysNext

\* When nothing is in progress the list is that of the account signed in now, as the
\* server has it (ApiKeyManager's loads with their active flag, and its captured lists).
THEOREM KeysStayCurrent == KeysSpec => []KeysAreCurrent
<1>1. KeysInv => KeysAreCurrent
  BY DEF KeysInv, Tidy, KeysAreCurrent, Busy
<1>2. QED
  BY <1>1, KeysStart, KeysStep, PTL DEF KeysSpec

(***************************************************************************)
(* The submission of a tool.                                               *)
(***************************************************************************)

Url == Repos \cup {"none", "bad"}
Numbers == 0..MaxAnalyses

Forms == [phase : {"input", "analyzing", "review", "done"}, url : Url, error : BOOLEAN,
          animated : BOOLEAN, listing : Numbers, filled : SUBSET {"fields", "price"},
          answer : Numbers, ready : BOOLEAN, failed : BOOLEAN, saving : BOOLEAN, record : Numbers]

Drafts == [repo : Url, owned : BOOLEAN, listed : BOOLEAN, uploaded : Url, queued : BOOLEAN]

Analyses == [nr : DraftIds, repo : Repos, signed : BOOLEAN, pc : {"token", "sent", "drafted", "lost"}]

Sends == [nr : Nat, tool : Numbers, url : Url,
                pc : {"token", "put", "upload", "configure", "configured", "lost"}]

SubmitTypes ==
    /\ form \in Forms
    /\ drafts \in [DraftIds -> Drafts]
    /\ analyses \subseteq Analyses
    /\ submissions \subseteq Sends
    /\ analysed \in Numbers /\ submitted \in Nat
    /\ {strayed, signedIn} \subseteq BOOLEAN

\* What the page shows while it analyses and reviews.
PageIsFilled ==
    /\ form.phase \in {"analyzing", "review"} => form.url \in Repos \ {"none"}
    /\ form.phase = "review" => form.listing \in DraftIds

\* What a submission's calls have done at the server so far.
Carried(s) ==
    /\ s.tool \in DraftIds /\ s.url # "none"
    /\ s.pc \in {"upload", "configure", "configured"} => drafts[s.tool].listed
    /\ s.pc \in {"configure", "configured"} => drafts[s.tool].uploaded # "none"
    /\ s.pc = "configured" => drafts[s.tool].queued

AtServer(n) == drafts[n].listed /\ drafts[n].uploaded # "none" /\ drafts[n].queued

CarriedInv ==
    /\ SubmitTypes /\ PageIsFilled
    /\ \A s \in submissions : Carried(s)
    /\ form.phase = "done" /\ form.record # 0 => AtServer(form.record)

\* The page waits for the one analysis that goes on, which is of the address it holds.
WaitedFor(a) ==
    /\ form.phase = "analyzing" /\ ~form.ready /\ form.answer = 0
    /\ a.repo = form.url /\ a.nr = analysed
    /\ drafts[a.nr].repo = (IF a.pc = "drafted" THEN form.url ELSE "none")
    /\ \A b \in analyses : b.pc # "lost" => b = a

AnalysesAreAwaited ==
    /\ \A n \in DraftIds : n > analysed => drafts[n].repo = "none"
    /\ \A a \in analyses : a.pc # "lost" => WaitedFor(a)

\* The listing that is reviewed, or about to be, was drafted from the address.
ListingIsOfAddress ==
    /\ form.phase = "analyzing" /\ form.answer # 0 => drafts[form.answer].repo = form.url
    /\ form.phase = "review" => drafts[form.listing].repo = form.url

\* So was the tool of every submission, wherever the page is by now.
SubmissionsAreOfAddress == \A s \in submissions : drafts[s.tool].repo = s.url

MadeAsDrafted == \A n \in DraftIds : drafts[n].uploaded \in {"none", drafts[n].repo}

\* As long as no submission moved the page away while an address was being analysed.
DraftsInv ==
    /\ AnalysesAreAwaited /\ ListingIsOfAddress
    /\ SubmissionsAreOfAddress /\ MadeAsDrafted

SubmitInv == CarriedInv /\ (~strayed => DraftsInv)

\* What the actions write into the form keeps it one.
LEMMA FormEdits ==
    ASSUME NEW f \in Forms, NEW b1 \in BOOLEAN, NEW b2 \in BOOLEAN,
           NEW n \in Numbers, NEW set \in SUBSET {"fields", "price"}
    PROVE  /\ [f EXCEPT !.phase = "analyzing", !.error = FALSE, !.failed = FALSE,
                         !.animated = FALSE, !.answer = 0, !.ready = FALSE] \in Forms
           /\ [f EXCEPT !.error = TRUE] \in Forms
           /\ [f EXCEPT !.animated = TRUE] \in Forms /\ [f EXCEPT !.filled = set] \in Forms
           /\ [f EXCEPT !.answer = n, !.ready = TRUE] \in Forms
           /\ [f EXCEPT !.ready = TRUE] \in Forms
           /\ [f EXCEPT !.phase = "input", !.error = TRUE, !.animated = FALSE] \in Forms
           /\ [f EXCEPT !.phase = "review", !.listing = f.answer, !.filled = set] \in Forms
           /\ [f EXCEPT !.failed = FALSE, !.saving = TRUE] \in Forms
           /\ [f EXCEPT !.failed = FALSE, !.phase = "done", !.record = 0] \in Forms
<1>1. 0 \in Numbers
  BY SubmitAssumption DEF Numbers
<1>2. QED
  BY <1>1 DEF Forms

\* No step leaves the types.
LEMMA SubmitTypesStep == SubmitTypes /\ [SubmitNext]_submitVars => SubmitTypes'
<1> SUFFICES ASSUME SubmitTypes, [SubmitNext]_submitVars PROVE SubmitTypes'
  OBVIOUS
<1> USE SubmitAssumption DEF SubmitTypes, Url, Numbers, DraftIds
<1>0. /\ form = [form EXCEPT !.url = form.url] /\ MaxAnalyses \in Nat /\ MaxSubmits \in Nat
      /\ NoDraft \in Drafts /\ Fresh \in Forms
  BY DEF Forms, NoDraft, Drafts, Fresh
<1>1. CASE SignInOrOut
  BY <1>1 DEF SignInOrOut
<1>2. ASSUME NEW u \in Repos \cup {"none", "bad"}, EditUrl(u) PROVE SubmitTypes'
  BY <1>2 DEF EditUrl, Forms
<1>3. CASE Analyze
  <2>1. form' \in Forms
    <3>1. CASE form.url \in Repos
      BY <1>3, <3>1, FormEdits DEF Analyze
    <3>2. CASE form.url \notin Repos
      BY <1>3, <3>2, FormEdits DEF Analyze
    <3>3. QED
      BY <3>1, <3>2
  <2>2. analyses' \subseteq Analyses /\ analysed' \in Numbers
    BY <1>3, <1>0 DEF Analyze, Analyses
  <2>3. QED
    BY <1>3, <2>1, <2>2 DEF Analyze
<1>4. ASSUME NEW a \in analyses, AnalysisToken(a) \/ DraftTool(a) \/ AnalysisSettles(a)
      PROVE  SubmitTypes'
  <2>0. a \in Analyses
    OBVIOUS
  <2>1. ASSUME NEW pc \in {"token", "sent", "drafted", "lost"}, Becomes(a, pc)
        PROVE  analyses' \subseteq Analyses
    BY <2>0, <2>1 DEF Becomes, Analyses
  <2>2. CASE AnalysisToken(a)
    BY <2>1, <2>2 DEF AnalysisToken
  <2>3. CASE DraftTool(a)
    <3>1. analyses' \subseteq Analyses
      BY <2>1, <2>3 DEF DraftTool
    <3>2. a.nr \in DraftIds /\ a.repo \in Url /\ a.signed \in BOOLEAN
      BY <2>0 DEF Analyses
    <3>3. PICK owned \in {FALSE, a.signed} :
             drafts' = [drafts EXCEPT ![a.nr].repo = a.repo, ![a.nr].owned = owned]
      BY <2>3 DEF DraftTool
    <3>4. drafts' \in [DraftIds -> Drafts]
      BY <3>2, <3>3, ZenonT(40) DEF Drafts
    <3>5. QED
      BY <2>3, <3>1, <3>4 DEF DraftTool
  <2>4. CASE AnalysisSettles(a)
    <3>1. a.nr \in Numbers
      BY <2>0 DEF Analyses
    <3>2. form' \in Forms
      BY <2>4, <3>1, FormEdits, ZenonT(40) DEF AnalysisSettles
    <3>3. QED
      BY <2>4, <3>2 DEF AnalysisSettles
  <2>5. QED
    BY <1>4, <2>2, <2>3, <2>4
<1>5. CASE AnimationEnds \/ EditFields \/ EditPrice
  <2>1. \/ form' = [form EXCEPT !.animated = TRUE]
        \/ \E x \in {"fields", "price"} : form' = [form EXCEPT !.filled = Toggled(x, form.filled)]
    BY <1>5 DEF AnimationEnds, EditFields, EditPrice
  <2>2. \A x \in {"fields", "price"} : Toggled(x, form.filled) \in SUBSET {"fields", "price"}
    BY DEF Toggled, Forms
  <2>3. form' \in Forms
    <3>1. CASE form' = [form EXCEPT !.animated = TRUE]
      BY <3>1, FormEdits
    <3>2. CASE \E x \in {"fields", "price"} : form' = [form EXCEPT !.filled = Toggled(x, form.filled)]
      BY <2>2, <3>2, FormEdits
    <3>3. QED
      BY <2>1, <3>1, <3>2
  <2>4. QED
    BY <1>5, <2>3 DEF AnimationEnds, EditFields, EditPrice
<1>6. CASE Gated
  <2>1. form' \in Forms
    <3>1. CASE form.answer = 0
      BY <1>6, <3>1, FormEdits DEF Gated
    <3>2. CASE form.answer # 0
      <4>1. PICK price \in SUBSET {"price"} :
               form' = [form EXCEPT !.phase = "review", !.listing = form.answer,
                                    !.filled = (@ \cap {"price"}) \cup {"fields"} \cup price]
        BY <1>6, <3>2 DEF Gated
      <4>2. (form.filled \cap {"price"}) \cup {"fields"} \cup price \in SUBSET {"fields", "price"}
        BY <4>1
      <4>3. QED
        BY <4>1, <4>2, FormEdits
    <3>3. QED
      BY <3>1, <3>2
  <2>2. QED
    BY <1>6, <2>1 DEF Gated
<1>7. CASE SubmitForReview
  <2>1. form' \in Forms
    BY <1>7, FormEdits DEF SubmitForReview
  <2>2. submissions' \subseteq Sends /\ submitted' \in Nat
    <3>1. [nr |-> submitted + 1, tool |-> form.listing, url |-> form.url, pc |-> "token"] \in Sends
      BY DEF Sends, Forms
    <3>2. QED
      BY <1>7, <3>1 DEF SubmitForReview
  <2>3. QED
    BY <1>7, <2>1, <2>2 DEF SubmitForReview
<1>8. ASSUME NEW s \in submissions,
             \/ SubmissionToken(s) \/ PutListing(s) \/ UploadRepo(s)
             \/ Configure(s) \/ SubmissionDone(s) \/ SubmissionFails(s)
      PROVE  SubmitTypes'
  <2>0. s \in Sends
    OBVIOUS
  <2>1. ASSUME NEW pc \in {"token", "put", "upload", "configure", "configured", "lost"}, Moves(s, pc)
        PROVE  submissions' \subseteq Sends
    BY <2>0, <2>1 DEF Moves, Sends
  <2>2. CASE SubmissionToken(s)
    BY <2>1, <2>2 DEF SubmissionToken
  <2>3. CASE PutListing(s) \/ UploadRepo(s) \/ Configure(s)
    <3>1. submissions' \subseteq Sends
      BY <2>1, <2>3 DEF PutListing, UploadRepo, Configure
    <3>2. drafts' \in [DraftIds -> Drafts]
      <4>1. s.url \in Url
        BY <2>0 DEF Sends
      <4>2. ASSUME NEW n \in DraftIds
            PROVE  /\ [drafts[n] EXCEPT !.listed = TRUE] \in Drafts
                   /\ [drafts[n] EXCEPT !.uploaded = s.url] \in Drafts
                   /\ [drafts[n] EXCEPT !.queued = TRUE] \in Drafts
        BY <4>1 DEF Drafts
      <4>3. QED
        BY <2>3, <4>2 DEF PutListing, UploadRepo, Configure
    <3>3. QED
      BY <2>3, <3>1, <3>2 DEF PutListing, UploadRepo, Configure
  <2>4. CASE SubmissionDone(s) \/ SubmissionFails(s)
    BY <2>0, <2>4, ZenonT(40) DEF SubmissionDone, SubmissionFails, Forms, Sends
  <2>5. QED
    BY <1>8, <2>2, <2>3, <2>4
<1>9. CASE StartOver
  BY <1>0, <1>9 DEF StartOver
<1>10. CASE UNCHANGED submitVars
  BY <1>10 DEF submitVars
<1>11. QED
  BY <1>1, <1>2, <1>3, <1>4, <1>5, <1>6, <1>7, <1>8, <1>9, <1>10 DEF SubmitNext

\* What the three calls did to a tool stays done, and every step is one of these.
LEMMA DraftsGain ==
    ASSUME SubmitTypes, \A s \in submissions : s.url # "none", [SubmitNext]_submitVars, NEW n \in DraftIds
    PROVE  /\ drafts[n].listed => drafts'[n].listed
           /\ drafts[n].uploaded # "none" => drafts'[n].uploaded # "none"
           /\ drafts[n].queued => drafts'[n].queued
<1> USE DEF SubmitTypes
<1>1. ASSUME NEW a \in analyses, DraftTool(a)
      PROVE  /\ drafts'[n].listed = drafts[n].listed /\ drafts'[n].uploaded = drafts[n].uploaded
             /\ drafts'[n].queued = drafts[n].queued
  BY <1>1 DEF DraftTool, Drafts, Analyses
<1>2. ASSUME NEW s \in submissions, PutListing(s) \/ UploadRepo(s) \/ Configure(s)
      PROVE  /\ drafts[n].listed => drafts'[n].listed
             /\ drafts[n].uploaded # "none" => drafts'[n].uploaded # "none"
             /\ drafts[n].queued => drafts'[n].queued
  BY <1>2 DEF PutListing, UploadRepo, Configure, Drafts
<1>3. CASE UNCHANGED drafts
  BY <1>3
<1>4. QED
  BY <1>1, <1>2, <1>3
     DEF SubmitNext, SignInOrOut, EditUrl, Analyze, AnalysisToken, AnalysisSettles, AnimationEnds,
         EditFields, EditPrice, Gated, SubmitForReview, SubmissionToken, SubmissionDone,
         SubmissionFails, StartOver, submitVars

\* A submission is a new one of what is reviewed, or one that did its next call.
LEMMA SubmissionsGoOn ==
    ASSUME CarriedInv, [SubmitNext]_submitVars, NEW t \in submissions'
    PROVE  Carried(t)'
<1> USE DEF CarriedInv
<1>1. \A n \in DraftIds : /\ drafts[n].listed => drafts'[n].listed
                          /\ drafts[n].uploaded # "none" => drafts'[n].uploaded # "none"
                          /\ drafts[n].queued => drafts'[n].queued
  BY DraftsGain DEF Carried
<1>2. CASE t \in submissions
  BY <1>1, <1>2 DEF Carried
<1>3. CASE SubmitForReview /\ t \notin submissions
  <2>1. t = [nr |-> submitted + 1, tool |-> form.listing, url |-> form.url, pc |-> "token"]
        /\ form.phase = "review"
    BY <1>3 DEF SubmitForReview
  <2>2. t.tool = form.listing /\ t.url = form.url /\ t.pc = "token"
    BY <2>1
  <2>3. QED
    BY <2>1, <2>2 DEF Carried, PageIsFilled
<1>4. ASSUME NEW s \in submissions, NEW pc, Moves(s, pc), t \notin submissions
      PROVE  t = [s EXCEPT !.pc = pc] /\ t.tool = s.tool /\ t.url = s.url /\ t.pc = pc /\ s \in Sends
  BY <1>4 DEF Moves, SubmitTypes, Sends
<1>5. ASSUME NEW s \in submissions, SubmissionToken(s), t \notin submissions PROVE Carried(t)'
  BY <1>4, <1>5 DEF SubmissionToken, Carried
<1>6. ASSUME NEW s \in submissions, PutListing(s), t \notin submissions PROVE Carried(t)'
  <2>1. t.tool = s.tool /\ t.url = s.url /\ t.pc = "upload" /\ s.tool \in DraftIds
    BY <1>4, <1>6 DEF PutListing, Carried
  <2>2. drafts'[s.tool].listed
    BY <1>6, <2>1 DEF PutListing, SubmitTypes, Drafts
  <2>3. QED
    BY <2>1, <2>2 DEF Carried
<1>7. ASSUME NEW s \in submissions, UploadRepo(s), t \notin submissions PROVE Carried(t)'
  <2>1. t.tool = s.tool /\ t.url = s.url /\ t.pc = "configure" /\ s.tool \in DraftIds
        /\ drafts[s.tool].listed
    BY <1>4, <1>7 DEF UploadRepo, Carried
  <2>2. drafts'[s.tool].uploaded = s.url
    BY <1>7, <2>1 DEF UploadRepo, SubmitTypes, Drafts
  <2>3. QED
    BY <1>1, <2>1, <2>2 DEF Carried
<1>8. ASSUME NEW s \in submissions, Configure(s), t \notin submissions PROVE Carried(t)'
  <2>1. t.tool = s.tool /\ t.url = s.url /\ t.pc = "configured" /\ s.tool \in DraftIds
        /\ drafts[s.tool].listed /\ drafts[s.tool].uploaded # "none"
    BY <1>4, <1>8 DEF Configure, Carried
  <2>2. drafts'[s.tool].queued
    BY <1>8, <2>1 DEF Configure, SubmitTypes, Drafts
  <2>3. QED
    BY <1>1, <2>1, <2>2 DEF Carried
<1>9. CASE submissions' \subseteq submissions
  BY <1>2, <1>9
<1>10. QED
  BY <1>2, <1>3, <1>5, <1>6, <1>7, <1>8, <1>9
     DEF SubmitNext, SignInOrOut, EditUrl, Analyze, AnalysisToken, DraftTool, AnalysisSettles,
         AnimationEnds, EditFields, EditPrice, Gated, SubmissionDone, SubmissionFails, StartOver, submitVars

\* What a step does to the form, as far as the invariants look at it.
Phases ==
    \/ /\ form.phase = "input" /\ form'.phase = "input"
    \/ /\ form.phase = "input" /\ form'.phase = "analyzing" /\ form'.answer = 0 /\ ~form'.ready
       /\ form'.url = form.url /\ form.url \in Repos \ {"none"}
    \/ /\ form'.phase = form.phase /\ form.phase # "input" /\ form'.url = form.url
       /\ form'.listing = form.listing /\ form'.record = form.record
       /\ form'.answer = form.answer /\ form'.ready = form.ready
    \/ /\ form.phase = "analyzing" /\ form.ready /\ form.answer = 0 /\ form'.phase = "input"
    \/ /\ form.phase = "analyzing" /\ form.ready /\ form.answer # 0 /\ form'.phase = "review"
       /\ form'.url = form.url /\ form'.listing = form.answer
    \/ /\ form.phase = "review" /\ form'.phase = "done" /\ form'.record = 0
    \/ /\ form.phase \in {"review", "done"} /\ form'.phase = "input"

LEMMA FormSteps ==
    ASSUME SubmitTypes,
           \/ SignInOrOut \/ \E u \in Repos \cup {"none", "bad"} : EditUrl(u)
           \/ Analyze \/ \E a \in analyses : AnalysisToken(a) \/ DraftTool(a)
           \/ AnimationEnds \/ Gated \/ EditFields \/ EditPrice \/ SubmitForReview
           \/ \E s \in submissions :
                 SubmissionToken(s) \/ PutListing(s) \/ UploadRepo(s) \/ Configure(s) \/ SubmissionFails(s)
           \/ StartOver \/ UNCHANGED submitVars
    PROVE  Phases
<1> form \in Forms
  BY DEF SubmitTypes
<1> USE DEF Phases
<1>0. form.phase \in {"input", "analyzing", "review", "done"}
  BY DEF Forms
<1>1. CASE UNCHANGED form
  BY <1>0, <1>1
<1>2. ASSUME NEW u, EditUrl(u) PROVE Phases
  BY <1>2 DEF EditUrl, Forms
<1>3. CASE Analyze
  BY <1>3, ZenonT(40) DEF Analyze, Forms
<1>4. CASE AnimationEnds
  BY <1>4 DEF AnimationEnds, Forms
<1>5. CASE EditFields \/ EditPrice
  BY <1>5 DEF EditFields, EditPrice, Forms
<1>6. CASE Gated
  BY <1>6, ZenonT(40) DEF Gated, Forms
<1>7. CASE SubmitForReview
  BY <1>7, ZenonT(40) DEF SubmitForReview, Forms
<1>8. ASSUME NEW s \in submissions, SubmissionFails(s) PROVE Phases
  BY <1>0, <1>8 DEF SubmissionFails, Forms
<1>9. CASE StartOver
  BY <1>9 DEF StartOver, Fresh
<1>10. QED
  BY <1>1, <1>2, <1>3, <1>4, <1>5, <1>6, <1>7, <1>8, <1>9
     DEF SignInOrOut, AnalysisToken, DraftTool, SubmissionToken, PutListing, UploadRepo, Configure, submitVars

\* The two that answer move it whatever it shows.
LEMMA Answers ==
    ASSUME SubmitTypes
    PROVE  /\ \A a \in analyses : AnalysisSettles(a) =>
                 /\ form'.phase = form.phase /\ form'.url = form.url
                 /\ form'.listing = form.listing /\ form'.record = form.record
                 /\ form'.answer = form.answer \/ (a.pc = "drafted" /\ form'.answer = a.nr)
           /\ \A s \in submissions : SubmissionDone(s) =>
                 form'.phase = "done" /\ form'.record = s.tool
<1> form \in Forms
  BY DEF SubmitTypes
<1>1. ASSUME NEW a \in analyses, AnalysisSettles(a)
      PROVE  /\ form'.phase = form.phase /\ form'.url = form.url
             /\ form'.listing = form.listing /\ form'.record = form.record
             /\ form'.answer = form.answer \/ (a.pc = "drafted" /\ form'.answer = a.nr)
  BY <1>1 DEF AnalysisSettles, Forms
<1>2. ASSUME NEW s \in submissions, SubmissionDone(s) PROVE form'.phase = "done" /\ form'.record = s.tool
  BY <1>2 DEF SubmissionDone, Forms
<1>3. QED
  BY <1>1, <1>2

LEMMA CarriedStep == CarriedInv /\ [SubmitNext]_submitVars => CarriedInv'
<1> SUFFICES ASSUME CarriedInv, [SubmitNext]_submitVars PROVE CarriedInv'
  OBVIOUS
<1>0. SubmitTypes /\ SubmitTypes' /\ MaxAnalyses \in Nat /\ form \in Forms /\ form' \in Forms
  BY SubmitTypesStep, SubmitAssumption DEF CarriedInv, SubmitTypes
<1>1. \A s \in submissions' : Carried(s)'
  BY SubmissionsGoOn
<1>2. \A n \in DraftIds : AtServer(n) => AtServer(n)'
  BY DraftsGain DEF CarriedInv, Carried, AtServer
<1>3. form.answer # 0 => form.answer \in DraftIds
  BY <1>0 DEF Forms, Numbers, DraftIds
<1>4. form.record # 0 => form.record \in DraftIds
  BY <1>0 DEF Forms, Numbers, DraftIds
<1> DEFINE Said == form.phase = "done" /\ form.record # 0 => AtServer(form.record)
<1>5. CASE Phases
  <2>1. PageIsFilled'
    BY <1>3, <1>5 DEF Phases, PageIsFilled, CarriedInv
  <2>2. form'.phase = "done" /\ form'.record # 0 => form.phase = "done" /\ form'.record = form.record
    BY <1>5 DEF Phases
  <2>3. Said'
    BY <1>2, <1>4, <2>2 DEF CarriedInv
  <2>4. QED
    BY <1>0, <1>1, <2>1, <2>3 DEF CarriedInv
<1>6. ASSUME NEW a \in analyses, AnalysisSettles(a) PROVE CarriedInv'
  <2>1. PageIsFilled'
    BY <1>0, <1>6, Answers DEF PageIsFilled, CarriedInv
  <2>2. Said'
    BY <1>0, <1>2, <1>4, <1>6, Answers DEF CarriedInv
  <2>3. QED
    BY <1>0, <1>1, <2>1, <2>2 DEF CarriedInv
<1>7. ASSUME NEW s \in submissions, SubmissionDone(s) PROVE CarriedInv'
  <2>1. form'.phase = "done" /\ form'.record = s.tool /\ s.pc = "configured"
    BY <1>0, <1>7, Answers DEF SubmissionDone
  <2>2. AtServer(s.tool) /\ s.tool \in DraftIds
    BY <2>1 DEF AtServer, Carried, CarriedInv
  <2>3. PageIsFilled' /\ Said'
    BY <1>2, <2>1, <2>2 DEF PageIsFilled
  <2>4. QED
    BY <1>0, <1>1, <2>3 DEF CarriedInv
<1>8. QED
  BY <1>0, <1>5, <1>6, <1>7, FormSteps DEF SubmitNext

\* The analysis that goes on is the one of a page that analyses.
LEMMA OneGoesOn ==
    ASSUME CarriedInv, DraftsInv, NEW a \in analyses, a.pc # "lost"
    PROVE  /\ form.phase = "analyzing" /\ ~form.ready /\ form.answer = 0
           /\ a.repo = form.url /\ a.nr = analysed /\ a.nr \in DraftIds /\ a \in Analyses
           /\ drafts[a.nr].repo = (IF a.pc = "drafted" THEN form.url ELSE "none")
           /\ form.url # "none"
           /\ \A b \in analyses : b # a => b.pc = "lost"
BY DEF DraftsInv, AnalysesAreAwaited, WaitedFor, CarriedInv, SubmitTypes, Analyses, PageIsFilled

\* A tool keeps the repository it was drafted from.
LEMMA RepoIsKept ==
    ASSUME CarriedInv, DraftsInv, [SubmitNext]_submitVars, NEW n \in DraftIds
    PROVE  /\ drafts[n].repo # "none" => drafts'[n].repo = drafts[n].repo
           /\ (\A a \in analyses : DraftTool(a) => n # a.nr) => drafts'[n].repo = drafts[n].repo
<1> USE DEF CarriedInv, SubmitTypes
<1>1. ASSUME NEW a \in analyses, DraftTool(a)
      PROVE  (n = a.nr => drafts[n].repo = "none") /\ (n # a.nr => drafts'[n].repo = drafts[n].repo)
  <2>1. drafts[a.nr].repo = "none"
    BY <1>1, OneGoesOn DEF DraftTool
  <2>2. n # a.nr => drafts'[n] = drafts[n]
    BY <1>1, ZenonT(40) DEF DraftTool
  <2>3. QED
    BY <2>1, <2>2
<1>2. ASSUME NEW s \in submissions, PutListing(s) \/ UploadRepo(s) \/ Configure(s)
      PROVE  drafts'[n].repo = drafts[n].repo
  BY <1>2 DEF PutListing, UploadRepo, Configure, Drafts
<1>3. CASE UNCHANGED drafts
  BY <1>3
<1>4. QED
  BY <1>1, <1>2, <1>3
     DEF SubmitNext, SignInOrOut, EditUrl, Analyze, AnalysisToken, AnalysisSettles, AnimationEnds,
         EditFields, EditPrice, Gated, SubmitForReview, SubmissionToken, SubmissionDone,
         SubmissionFails, StartOver, submitVars

\* What is made of a tool is what it was drafted from.
LEMMA MadeStep ==
    ASSUME CarriedInv, DraftsInv, [SubmitNext]_submitVars
    PROVE  MadeAsDrafted'
<1> SUFFICES ASSUME NEW n \in DraftIds PROVE drafts'[n].uploaded \in {"none", drafts'[n].repo}
  BY DEF MadeAsDrafted, DraftIds
<1>1. drafts'[n].uploaded = drafts[n].uploaded
      \/ \E s \in submissions : UploadRepo(s) /\ s.tool = n /\ drafts'[n].uploaded = s.url
  <2> USE DEF CarriedInv, SubmitTypes
  <2>1. ASSUME NEW a \in analyses, DraftTool(a) PROVE drafts'[n].uploaded = drafts[n].uploaded
    BY <2>1 DEF DraftTool, Drafts, Analyses
  <2>2. ASSUME NEW s \in submissions, PutListing(s) \/ Configure(s)
        PROVE  drafts'[n].uploaded = drafts[n].uploaded
    BY <2>2 DEF PutListing, Configure, Drafts
  <2>3. ASSUME NEW s \in submissions, UploadRepo(s)
        PROVE  drafts'[n].uploaded = drafts[n].uploaded \/ (s.tool = n /\ drafts'[n].uploaded = s.url)
    BY <2>3 DEF UploadRepo, Drafts
  <2>4. CASE UNCHANGED drafts
    BY <2>4
  <2>5. QED
    BY <2>1, <2>2, <2>3, <2>4
       DEF SubmitNext, SignInOrOut, EditUrl, Analyze, AnalysisToken, AnalysisSettles, AnimationEnds,
           EditFields, EditPrice, Gated, SubmitForReview, SubmissionToken, SubmissionDone,
           SubmissionFails, StartOver, submitVars
<1>2. ASSUME NEW s \in submissions, s.tool = n PROVE drafts[n].repo = s.url /\ s.url # "none"
  BY <1>2 DEF DraftsInv, SubmissionsAreOfAddress, CarriedInv, Carried
<1>3. drafts[n].uploaded \in {"none", drafts[n].repo}
  BY DEF DraftsInv, MadeAsDrafted
<1>4. drafts[n].repo # "none" => drafts'[n].repo = drafts[n].repo
  BY RepoIsKept
<1>5. QED
  BY <1>1, <1>2, <1>3, <1>4

\* The tools of the submissions keep the repositories they were drafted from.
LEMMA AddressesStep ==
    ASSUME CarriedInv, DraftsInv, [SubmitNext]_submitVars
    PROVE  SubmissionsAreOfAddress'
<1> SUFFICES ASSUME NEW t \in submissions' PROVE drafts'[t.tool].repo = t.url
  BY DEF SubmissionsAreOfAddress
<1>1. ASSUME NEW s \in submissions, t.tool = s.tool, t.url = s.url PROVE drafts'[t.tool].repo = t.url
  BY <1>1, RepoIsKept DEF DraftsInv, SubmissionsAreOfAddress, CarriedInv, Carried
<1>2. ASSUME NEW s \in submissions, NEW pc, Moves(s, pc)
      PROVE  \E r \in submissions : t.tool = r.tool /\ t.url = r.url
  BY <1>2 DEF Moves, CarriedInv, SubmitTypes, Sends
<1>3. CASE SubmitForReview /\ t \notin submissions
  <2>1. t = [nr |-> submitted + 1, tool |-> form.listing, url |-> form.url, pc |-> "token"]
        /\ form.phase = "review"
    BY <1>3 DEF SubmitForReview
  <2>2. t.tool = form.listing /\ t.url = form.url
    BY <2>1
  <2>3. form.listing \in DraftIds /\ drafts[form.listing].repo = form.url /\ form.url # "none"
    BY <2>1 DEF DraftsInv, ListingIsOfAddress, CarriedInv, PageIsFilled
  <2>4. QED
    BY <2>2, <2>3, RepoIsKept
<1>4. CASE t \in submissions
  BY <1>1, <1>4
<1>5. QED
  BY <1>1, <1>2, <1>3, <1>4
     DEF SubmitNext, SignInOrOut, EditUrl, Analyze, AnalysisToken, DraftTool, AnalysisSettles,
         AnimationEnds, EditFields, EditPrice, Gated, SubmissionToken, PutListing, UploadRepo, Configure,
         SubmissionDone, SubmissionFails, StartOver, submitVars

\* The listing, and the answer the gate is to show, are of the address on the page.
LEMMA ListingStep ==
    ASSUME CarriedInv, DraftsInv, [SubmitNext]_submitVars
    PROVE  ListingIsOfAddress'
<1>0. SubmitTypes /\ MaxAnalyses \in Nat /\ form \in Forms
  BY SubmitAssumption DEF CarriedInv, SubmitTypes
<1>1. \A n \in DraftIds : drafts[n].repo = form.url /\ form.url # "none" => drafts'[n].repo = form.url
  BY RepoIsKept
<1>2. form.answer # 0 => form.answer \in DraftIds
  BY <1>0 DEF Forms, Numbers, DraftIds
<1>3. form.phase \in {"analyzing", "review"} => form.url # "none"
  BY DEF CarriedInv, PageIsFilled
<1>4. form.phase = "review" => form.listing \in DraftIds
  BY DEF CarriedInv, PageIsFilled
<1>5. CASE Phases
  BY <1>1, <1>2, <1>3, <1>4, <1>5 DEF Phases, DraftsInv, ListingIsOfAddress
<1>6. ASSUME NEW a \in analyses, AnalysisSettles(a) PROVE ListingIsOfAddress'
  <2>1. form'.answer = 0 \/ (form'.answer = a.nr /\ drafts[a.nr].repo = form.url /\ a.nr \in DraftIds)
    BY <1>0, <1>6, Answers, OneGoesOn DEF AnalysisSettles
  <2>2. form'.phase = "analyzing" /\ form'.url = form.url /\ form.phase = "analyzing"
    BY <1>0, <1>6, Answers, OneGoesOn DEF AnalysisSettles
  <2>3. QED
    BY <1>1, <1>3, <2>1, <2>2 DEF ListingIsOfAddress
<1>7. ASSUME NEW s \in submissions, SubmissionDone(s) PROVE ListingIsOfAddress'
  BY <1>0, <1>7, Answers DEF ListingIsOfAddress
<1>8. QED
  BY <1>0, <1>5, <1>6, <1>7, FormSteps DEF SubmitNext

\* The analysis that goes on is the one the page waits for.
LEMMA AnalysesStep ==
    ASSUME CarriedInv, DraftsInv, [SubmitNext]_submitVars, ~strayed'
    PROVE  AnalysesAreAwaited'
<1>0. /\ SubmitTypes /\ MaxAnalyses \in Nat /\ form \in Forms /\ analysed \in Nat
      /\ drafts \in [DraftIds -> Drafts]
      /\ \A n \in DraftIds : n > analysed => drafts[n].repo = "none"
      /\ \A a \in analyses : a.pc # "lost" => WaitedFor(a)
  BY SubmitAssumption DEF CarriedInv, SubmitTypes, Numbers, DraftsInv, AnalysesAreAwaited
<1>1. ASSUME NEW a \in analyses, DraftTool(a) PROVE AnalysesAreAwaited'
  <2>1. /\ a.pc = "sent" /\ analyses' = (analyses \ {a}) \cup {[a EXCEPT !.pc = "drafted"]}
        /\ UNCHANGED <<form, analysed>>
    BY <1>1 DEF DraftTool, Becomes
  <2>2. /\ form.phase = "analyzing" /\ ~form.ready /\ form.answer = 0
        /\ a.repo = form.url /\ a.nr = analysed /\ a.nr \in DraftIds /\ a \in Analyses
        /\ \A b \in analyses : b # a => b.pc = "lost"
    BY <2>1, OneGoesOn
  <2>3. drafts'[a.nr].repo = a.repo /\ \A n \in DraftIds : n # a.nr => drafts'[n] = drafts[n]
    BY <1>0, <1>1, <2>2 DEF DraftTool, Drafts
  <2>4. \A b \in analyses' : b.pc # "lost" => b = [a EXCEPT !.pc = "drafted"]
    BY <2>1, <2>2
  <2>5. [a EXCEPT !.pc = "drafted"].nr = a.nr /\ [a EXCEPT !.pc = "drafted"].repo = a.repo
        /\ [a EXCEPT !.pc = "drafted"].pc = "drafted"
    BY <2>2 DEF Analyses
  <2>6. \A b \in analyses' : b.pc # "lost" => WaitedFor(b)'
    BY <2>1, <2>2, <2>3, <2>4, <2>5 DEF WaitedFor
  <2>7. \A n \in DraftIds : n > analysed => drafts'[n].repo = "none"
    BY <1>0, <2>2, <2>3 DEF DraftIds
  <2>8. QED
    BY <2>1, <2>6, <2>7 DEF AnalysesAreAwaited
<1>2. ASSUME ~\E a \in analyses : DraftTool(a), NEW n \in DraftIds PROVE drafts'[n].repo = drafts[n].repo
  BY <1>2, RepoIsKept
<1>3. CASE Analyze
  <2>1. /\ form.phase = "input" /\ form.url # "none" /\ UNCHANGED drafts
        /\ \A a \in analyses : a.pc = "lost"
    BY <1>3, OneGoesOn DEF Analyze
  <2>2. CASE form.url \in Repos
    <3>0. PICK b : b = [nr |-> analysed + 1, repo |-> form.url, signed |-> signedIn,
                        pc |-> IF signedIn THEN "token" ELSE "sent"]
      OBVIOUS
    <3>1. /\ form'.phase = "analyzing" /\ form'.url = form.url /\ ~form'.ready /\ form'.answer = 0
          /\ analysed < MaxAnalyses /\ analysed' = analysed + 1 /\ analyses' = analyses \cup {b}
      BY <1>0, <1>3, <2>1, <2>2, <3>0, ZenonT(40) DEF Analyze, Forms
    <3>2. b.nr = analysed + 1 /\ b.repo = form.url /\ b.pc # "drafted"
      BY <3>0
    <3>3. analysed + 1 \in DraftIds /\ analysed + 1 > analysed
      BY <1>0, <3>1 DEF DraftIds
    <3>4. drafts'[b.nr].repo = "none"
      BY <1>0, <2>1, <3>2, <3>3
    <3>5. \A a \in analyses' : a.pc # "lost" => a = b
      BY <2>1, <3>1
    <3>6. WaitedFor(b)'
      BY <3>1, <3>2, <3>4, <3>5 DEF WaitedFor
    <3>7. \A n \in DraftIds : n > analysed' => drafts'[n].repo = "none"
      BY <1>0, <2>1, <3>1 DEF DraftIds
    <3>8. QED
      BY <3>5, <3>6, <3>7 DEF AnalysesAreAwaited
  <2>3. CASE form.url \notin Repos
    <3>1. UNCHANGED <<analyses, analysed>>
      BY <1>3, <2>3 DEF Analyze
    <3>2. QED
      BY <1>0, <2>1, <3>1 DEF AnalysesAreAwaited
  <2>4. QED
    BY <2>2, <2>3
\* The others draft nothing, and leave the analyses that go on, or end them.
<1>4. ASSUME analysed' = analysed, ~\E a \in analyses : DraftTool(a),
             \A b \in analyses' : b.pc # "lost" =>
                 \E a \in analyses : /\ a.pc # "lost" /\ b.nr = a.nr /\ b.repo = a.repo
                                     /\ (b.pc = "drafted") = (a.pc = "drafted")
                                     /\ \A c \in analyses' : c.pc # "lost" => c = b,
             (\E b \in analyses' : b.pc # "lost") =>
                 /\ form'.phase = form.phase /\ form'.ready = form.ready
                 /\ form'.answer = form.answer /\ form'.url = form.url
      PROVE  AnalysesAreAwaited'
  <2>1. \A n \in DraftIds : drafts'[n].repo = drafts[n].repo
    BY <1>2, <1>4
  <2>2. ASSUME NEW b \in analyses', b.pc # "lost" PROVE WaitedFor(b)'
    <3>1. PICK a \in analyses : /\ a.pc # "lost" /\ b.nr = a.nr /\ b.repo = a.repo
                                /\ (b.pc = "drafted") = (a.pc = "drafted")
                                /\ \A c \in analyses' : c.pc # "lost" => c = b
      BY <1>4, <2>2
    <3>2. /\ form.phase = "analyzing" /\ ~form.ready /\ form.answer = 0
          /\ a.repo = form.url /\ a.nr = analysed /\ a.nr \in DraftIds
          /\ drafts[a.nr].repo = (IF a.pc = "drafted" THEN form.url ELSE "none")
      BY <3>1, OneGoesOn
    <3>3. QED
      BY <1>4, <2>1, <2>2, <3>1, <3>2 DEF WaitedFor
  <2>3. QED
    BY <1>0, <1>4, <2>1, <2>2 DEF AnalysesAreAwaited, DraftIds
<1>5. ASSUME NEW a \in analyses, AnalysisToken(a) PROVE AnalysesAreAwaited'
  <2>1. PICK pc \in {"sent", "lost"} : analyses' = (analyses \ {a}) \cup {[a EXCEPT !.pc = pc]}
    BY <1>5 DEF AnalysisToken, Becomes
  <2>2. a.pc = "token" /\ UNCHANGED <<form, drafts, analysed>>
    BY <1>5 DEF AnalysisToken
  <2>3. a \in Analyses /\ \A b \in analyses : b # a => b.pc = "lost"
    BY <2>2, OneGoesOn
  <2>4. [a EXCEPT !.pc = pc].nr = a.nr /\ [a EXCEPT !.pc = pc].repo = a.repo /\ [a EXCEPT !.pc = pc].pc = pc
    BY <2>3 DEF Analyses
  <2>5. \A b \in analyses' : b.pc # "lost" => b = [a EXCEPT !.pc = pc]
    BY <2>1, <2>3
  <2>6. WaitedFor(a)
    BY <1>0, <2>2
  <2>7. \A b \in analyses' : b.pc # "lost" => WaitedFor(b)'
    BY <2>2, <2>4, <2>5, <2>6 DEF WaitedFor
  <2>8. QED
    BY <1>0, <2>2, <2>7 DEF AnalysesAreAwaited
<1>6. ASSUME NEW a \in analyses, AnalysisSettles(a) PROVE AnalysesAreAwaited'
  <2>1. a.pc # "lost" /\ analyses' = analyses \ {a} /\ UNCHANGED <<drafts, analysed>>
    BY <1>6 DEF AnalysisSettles
  <2>2. \A b \in analyses' : b.pc = "lost"
    BY <2>1, OneGoesOn
  <2>3. QED
    BY <1>0, <2>1, <2>2 DEF AnalysesAreAwaited
<1>7. ASSUME UNCHANGED <<analyses, analysed>>, ~\E a \in analyses : DraftTool(a),
             (\E a \in analyses : a.pc # "lost") =>
                 /\ form'.phase = form.phase /\ form'.ready = form.ready
                 /\ form'.answer = form.answer /\ form'.url = form.url
      PROVE  AnalysesAreAwaited'
  <2>1. ASSUME NEW a \in analyses, a.pc # "lost" PROVE \A c \in analyses : c.pc # "lost" => c = a
    BY <1>0, <2>1 DEF WaitedFor
  <2>2. QED
    BY <1>4, <1>7, <2>1
<1>8. ASSUME Phases, UNCHANGED <<analyses, analysed>>, ~\E a \in analyses : DraftTool(a)
      PROVE  AnalysesAreAwaited'
  <2>1. ASSUME NEW a \in analyses, a.pc # "lost"
        PROVE  /\ form'.phase = form.phase /\ form'.ready = form.ready
               /\ form'.answer = form.answer /\ form'.url = form.url
    <3>1. form.phase = "analyzing" /\ ~form.ready
      BY <2>1, OneGoesOn
    <3>2. QED
      BY <1>8, <3>1 DEF Phases
  <2>2. QED
    BY <1>7, <1>8, <2>1
<1>9. ASSUME NEW s \in submissions, SubmissionDone(s), ~\E a \in analyses : DraftTool(a)
      PROVE  AnalysesAreAwaited'
  <2>1. UNCHANGED <<analyses, analysed>> /\ \A a \in analyses : a.pc = "lost"
    BY <1>9, OneGoesOn DEF SubmissionDone
  <2>2. QED
    BY <1>7, <1>9, <2>1
<1>10. SignInOrOut \/ (\E u \in Repos \cup {"none", "bad"} : EditUrl(u)) \/ AnimationEnds \/ Gated
       \/ EditFields \/ EditPrice \/ SubmitForReview \/ StartOver \/ UNCHANGED submitVars
       \/ (\E s \in submissions : SubmissionToken(s) \/ PutListing(s) \/ UploadRepo(s) \/ Configure(s)
                                  \/ SubmissionFails(s))
       => Phases /\ UNCHANGED <<analyses, analysed>>
  <2>1. SignInOrOut \/ (\E u \in Repos \cup {"none", "bad"} : EditUrl(u)) \/ AnimationEnds \/ Gated
        \/ EditFields \/ EditPrice \/ SubmitForReview \/ StartOver \/ UNCHANGED submitVars
        \/ (\E s \in submissions : SubmissionToken(s) \/ PutListing(s) \/ UploadRepo(s) \/ Configure(s)
                                   \/ SubmissionFails(s))
        => UNCHANGED <<analyses, analysed>>
    BY DEF SignInOrOut, EditUrl, AnimationEnds, EditFields, EditPrice, Gated, SubmitForReview,
           SubmissionToken, PutListing, UploadRepo, Configure, SubmissionFails, StartOver, submitVars
  <2>2. QED
    BY <1>0, <2>1, FormSteps
<1>11. QED
  BY <1>1, <1>3, <1>5, <1>6, <1>8, <1>9, <1>10 DEF SubmitNext

LEMMA SubmitStep == SubmitInv /\ [SubmitNext]_submitVars => SubmitInv'
<1> SUFFICES ASSUME SubmitInv, [SubmitNext]_submitVars PROVE SubmitInv'
  OBVIOUS
<1>1. CarriedInv /\ CarriedInv'
  BY CarriedStep DEF SubmitInv
<1>2. ASSUME ~strayed' PROVE DraftsInv'
  <2>1. ~strayed
    BY <1>2 DEF SubmitNext, SignInOrOut, EditUrl, Analyze, AnalysisToken, DraftTool, AnalysisSettles,
                AnimationEnds, EditFields, EditPrice, Gated, SubmitForReview, SubmissionToken, PutListing,
                UploadRepo, Configure, SubmissionDone, SubmissionFails, StartOver, submitVars
  <2>2. DraftsInv
    BY <2>1 DEF SubmitInv
  <2>3. QED
    BY <1>1, <1>2, <2>2, AnalysesStep, ListingStep, AddressesStep, MadeStep DEF DraftsInv
<1>3. QED
  BY <1>1, <1>2 DEF SubmitInv

\* What the page calls submitted is at the server, whatever went on behind "Start over";
\* and a tool whose listing one repository gave is never made of another, unless such a
\* submission moved the page away during an analysis: for any number of repositories,
\* analyses and submissions (submitForReview and the gate of the review).
THEOREM ListingsAreReviewed == SubmitSpec => []SubmittedAsReviewed
<1>1. SubmitInit => SubmitInv
  <2> SUFFICES ASSUME SubmitInit PROVE SubmitInv
    OBVIOUS
  <2>1. Fresh \in Forms /\ NoDraft \in Drafts
    BY SubmitAssumption DEF Fresh, Forms, NoDraft, Drafts, Url, Numbers
  <2>2. SubmitTypes
    <3>1. drafts \in [DraftIds -> Drafts] /\ form \in Forms
      BY <2>1 DEF SubmitInit
    <3>2. analysed \in Numbers /\ submitted \in Nat
      BY SubmitAssumption DEF SubmitInit, Numbers
    <3>3. QED
      BY <3>1, <3>2 DEF SubmitInit, SubmitTypes
  <2>3. CarriedInv
    BY <2>2 DEF SubmitInit, CarriedInv, PageIsFilled, Fresh
  <2>4. DraftsInv
    BY DEF SubmitInit, DraftsInv, Fresh, NoDraft, AnalysesAreAwaited, ListingIsOfAddress,
           SubmissionsAreOfAddress, MadeAsDrafted
  <2>5. QED
    BY <2>3, <2>4 DEF SubmitInv
<1>2. SubmitInv => SubmittedAsReviewed
  BY DEF SubmitInv, CarriedInv, AtServer, DraftsInv, MadeAsDrafted, SubmittedAsReviewed
<1>3. QED
  BY <1>1, <1>2, SubmitStep, PTL DEF SubmitSpec
================================================================================
