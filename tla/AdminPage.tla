------------------------------- MODULE AdminPage -------------------------------
(***************************************************************************)
(* The administrators' operations page (apps/web/src/app/admin).           *)
(*                                                                         *)
(* Behind the gate (AdminGate) one load fetches health, users, jobs,       *)
(* payment events and the audit trail and shows all of them or none.       *)
(* Suspending a user merges the answer into the list; a retry of a failed  *)
(* job or payment event does too and loads everything again.  No button    *)
(* is disabled while a call is in progress.                                *)
(*                                                                         *)
(* Jobs and payment events are handled alike and are one set here; health  *)
(* and audit trail are only shown and are left out.                        *)
(***************************************************************************)
EXTENDS AdminGate

CONSTANTS
    Users,     \* users that are not administrators
    Runs,      \* processing jobs and payment events
    MaxSteps   \* bound: calls, loads, changes elsewhere and of the account, together

ASSUME AdminAssumption == MaxSteps \in Nat

VARIABLES
    view,     \* the lists and the status that AdminOperations shows
    reads,    \* load calls in progress: what they have seen
    calls,    \* updateUser, retryJob and retryStripeEvent calls in progress
    server,   \* the server's users and runs
    tangled,  \* history: calls or loads overlapped, or an answer was lost
    steps     \* bound, see MaxSteps

adminVars == <<gateVars, view, reads, calls, server, tangled, steps>>

NoView == [users |-> [u \in Users |-> "absent"], runs |-> [r \in Runs |-> "absent"],
           status |-> "loading"]
NewRead == [users |-> [u \in Users |-> "unread"], runs |-> [r \in Runs |-> "unread"]]

AdminInit ==
    /\ GateInit
    /\ view = NoView
    /\ reads = {}
    /\ calls = {}
    /\ server = [users |-> [u \in Users |-> "active"], runs |-> [r \in Runs |-> "failed"]]
    /\ tangled = FALSE
    /\ steps = 0

Step == steps < MaxSteps /\ steps' = steps + 1

--------------------------------------------------------------------------------
(* The gate and the loads                                                  *)

AdminAccountChanges ==
    /\ Step
    /\ \E a \in Viewers : AccountChanges(a)
    /\ view' = NoView
    /\ reads' = {}
    /\ calls' = {[c EXCEPT !.heard = FALSE] : c \in {d \in calls : d.saw = "nothing"}}
    /\ tangled' = (calls' # {})
    /\ UNCHANGED server

OpenAdmin ==
    /\ \E c \in checks : VerifyAdmin(c)
    /\ reads' = IF Opens THEN {NewRead} ELSE reads
    /\ UNCHANGED <<view, calls, server, tangled, steps>>

\* A load starts next to the calls and loads of others.
Load(others) ==
    /\ reads' = reads \cup {NewRead}
    /\ tangled' = (tangled \/ others # {} \/ reads # {})

Refresh ==
    /\ Mounted /\ Step
    /\ Load(calls)
    /\ view' = [view EXCEPT !.status = "loading"]
    /\ UNCHANGED <<gateVars, calls, server>>

ReadUsers(l) ==
    /\ l \in reads /\ l.users = NewRead.users
    /\ reads' = (reads \ {l}) \cup {[l EXCEPT !.users = server.users]}
    /\ UNCHANGED <<gateVars, view, calls, server, tangled, steps>>

ReadRuns(l) ==
    /\ l \in reads /\ l.runs = NewRead.runs
    /\ reads' = (reads \ {l}) \cup {[l EXCEPT !.runs = server.runs]}
    /\ UNCHANGED <<gateVars, view, calls, server, tangled, steps>>

\* Promise.all: the lists are replaced together.
LoadLands(l) ==
    /\ l \in reads /\ l.users # NewRead.users /\ l.runs # NewRead.runs
    /\ view' = [users |-> l.users, runs |-> l.runs, status |-> "ready"]
    /\ reads' = reads \ {l}
    /\ UNCHANGED <<gateVars, calls, server, tangled, steps>>

AdminLoadFails(l) ==
    /\ l \in reads /\ Step
    /\ view' = [view EXCEPT !.status = "error"]
    /\ reads' = reads \ {l}
    /\ UNCHANGED <<gateVars, calls, server, tangled>>

--------------------------------------------------------------------------------
(* The buttons                                                             *)

\* heard: the page that sent the call is still there; saw: the row the server answers;
\* list: the users the page showed when the call was sent.
Send(kind, target, value) ==
    /\ Mounted /\ Step
    /\ calls' = calls \cup {[kind |-> kind, target |-> target, value |-> value,
                             saw |-> "nothing", heard |-> TRUE, list |-> view.users]}
    /\ tangled' = (tangled \/ reads # {} \/ \E c \in calls : c.kind = kind /\ c.target = target)
    /\ UNCHANGED <<gateVars, view, reads, server>>

\* Suspend or reactivate, as the row says.
UpdateUser(u) ==
    /\ view.users[u] # "absent"
    /\ Send("user", u, IF view.users[u] = "active" THEN "suspended" ELSE "active")

RetryRun(r) == view.runs[r] = "failed" /\ Send("run", r, "queued")

\* The server takes the call, or for a run that has not failed refuses it.
Serve(c) ==
    /\ c \in calls /\ c.saw = "nothing"
    /\ IF c.kind = "user"
       THEN server' = [server EXCEPT !.users[c.target] = c.value]
       ELSE server.runs[c.target] = "failed" /\ server' = [server EXCEPT !.runs[c.target] = "queued"]
    /\ calls' = (calls \ {c}) \cup (IF c.heard THEN {[c EXCEPT !.saw = c.value]} ELSE {})
    /\ UNCHANGED <<gateVars, view, reads, tangled, steps>>

\* Mutant: the answer is merged into the list the page showed when the call was sent.
MergedStale(c) == [c.list EXCEPT ![c.target] = c.saw]

\* setUsers merges the answer into the list of now.
Merged(c) == [view.users EXCEPT ![c.target] = c.saw]

UserAnswered(c) ==
    /\ c \in calls /\ c.saw # "nothing" /\ c.kind = "user"
    /\ view' = [view EXCEPT !.users = Merged(c)]
    /\ calls' = calls \ {c}
    /\ UNCHANGED <<gateVars, reads, server, tangled, steps>>

\* A retry's answer is merged, and everything is loaded again.
RunAnswered(c) ==
    /\ c \in calls /\ c.saw # "nothing" /\ c.kind = "run"
    /\ view' = [view EXCEPT !.runs[c.target] = c.saw, !.status = "loading"]
    /\ calls' = calls \ {c}
    /\ Load(calls \ {c})
    /\ UNCHANGED <<gateVars, server, steps>>

\* A message, and nothing else; the server may have taken the call, or may yet.
CallFails(c) ==
    /\ c \in calls /\ c.heard
    /\ calls' = (calls \ {c}) \cup (IF c.saw = "nothing" THEN {[c EXCEPT !.heard = FALSE]} ELSE {})
    /\ tangled' = TRUE
    /\ UNCHANGED <<gateVars, view, reads, server, steps>>

\* Workers take up what is queued and fail.
RunFails(r) ==
    /\ Step /\ server.runs[r] = "queued"
    /\ server' = [server EXCEPT !.runs[r] = "failed"]
    /\ UNCHANGED <<gateVars, view, reads, calls, tangled>>

AdminNext ==
    \/ AdminAccountChanges
    \/ OpenAdmin
    \/ Refresh
    \/ \E l \in reads : ReadUsers(l) \/ ReadRuns(l) \/ LoadLands(l) \/ AdminLoadFails(l)
    \/ \E u \in Users : UpdateUser(u)
    \/ \E r \in Runs : RetryRun(r) \/ RunFails(r)
    \/ \E c \in calls : Serve(c) \/ UserAnswered(c) \/ RunAnswered(c) \/ CallFails(c)

AdminSpec == AdminInit /\ [][AdminNext]_adminVars

--------------------------------------------------------------------------------

\* Several users suspended or reactivated at once, in whatever order the answers come,
\* leave the list as the server has it, unless a load or a second call for the same user
\* overlapped or an answer was lost (updateUser merges into the list of now).
UsersAreCurrent ==
    (Mounted /\ view.status = "ready" /\ calls = {} /\ reads = {} /\ ~tangled)
        => view.users = server.users
================================================================================
