----------------------------- MODULE DashboardPage -----------------------------
(***************************************************************************)
(* The account's dashboard (apps/web/src/app/dashboard).                   *)
(*                                                                         *)
(* One effect synchronises the account and then fetches the buyer's and    *)
(* the seller's summary side by side; it runs again for another account    *)
(* and on a retry, and what an earlier run still fetches must not be       *)
(* shown.  The panels of the mode chosen are there only when its data is;  *)
(* the seller's figures in the header are there whenever any are held.     *)
(***************************************************************************)
EXTENDS Naturals, FiniteSets

CONSTANTS
    People,     \* accounts
    MaxReloads  \* bound: changes of the account, retries and failures, together

ASSUME DashboardAssumption == MaxReloads \in Nat

VARIABLES
    person,    \* useCurrentAccount
    mode,      \* the dashboard chosen
    summary,   \* per mode, the account whose data is held, or none
    status,    \* remoteStatuses
    fetches,   \* loadAccountDashboards calls in progress
    reloads    \* bound, see MaxReloads

dashVars == <<person, mode, summary, status, fetches, reloads>>

Modes  == {"buyer", "seller"}
Both(x) == [m \in Modes |-> x]

\* A run of the effect for u, which has synchronised the account yet or not.
Fetching(u) == {[user |-> v, active |-> TRUE, synced |-> FALSE, got |-> Both("nothing")] : v \in {u} \cap People}

DashInit ==
    /\ person \in People \cup {"loading", "guest"}
    /\ mode = "buyer"
    /\ summary = Both("none")
    /\ status = Both(IF person = "guest" THEN "guest" ELSE IF person = "loading" THEN "idle" ELSE "loading")
    /\ fetches = Fetching(person)
    /\ reloads = 0

Reload == reloads < MaxReloads /\ reloads' = reloads + 1

\* The cleanup of the effect.
Cancelled == {[f EXCEPT !.active = FALSE] : f \in fetches}

\* The effect runs, with the render that schedules it: a guest has no data; what was
\* held for an account stays until the data of the next one lands or fails to. The
\* panels do not show it while loading, the header does (see Header).
PersonChanges ==
    /\ Reload
    /\ \E u \in People \cup {"guest"} :
          /\ person' = u
          /\ status' = Both(IF u = "guest" THEN "guest" ELSE "loading")
          /\ summary' = IF u = "guest" THEN Both("none") ELSE summary
          /\ fetches' = Cancelled \cup Fetching(u)
    /\ mode' = mode

\* The retry button of the notice.
Retry ==
    /\ person \in People /\ status[mode] = "error" /\ Reload
    /\ status' = Both("loading")
    /\ fetches' = Cancelled \cup Fetching(person)
    /\ UNCHANGED <<person, mode, summary>>

ChooseMode ==
    /\ mode' \in Modes \ {mode}
    /\ UNCHANGED <<person, summary, status, fetches, reloads>>

\* getToken and syncCurrentUser.
Synced(f) ==
    /\ f \in fetches /\ ~f.synced
    /\ fetches' = (fetches \ {f}) \cup {[f EXCEPT !.synced = TRUE]}
    /\ UNCHANGED <<person, mode, summary, status, reloads>>

SyncFails(f) ==
    /\ f \in fetches /\ ~f.synced /\ Reload
    /\ fetches' = fetches \ {f}
    /\ IF f.active THEN summary' = Both("none") /\ status' = Both("error")
       ELSE UNCHANGED <<summary, status>>
    /\ UNCHANGED <<person, mode>>

\* One of the two summaries comes, or fails to.
SummaryComes(f, m) ==
    /\ f \in fetches /\ f.synced /\ f.got[m] = "nothing"
    /\ fetches' = (fetches \ {f}) \cup {[f EXCEPT !.got[m] = f.user]}
    /\ UNCHANGED <<person, mode, summary, status, reloads>>

SummaryFails(f, m) ==
    /\ f \in fetches /\ f.synced /\ f.got[m] = "nothing" /\ Reload
    /\ fetches' = (fetches \ {f}) \cup {[f EXCEPT !.got[m] = "failed"]}
    /\ UNCHANGED <<person, mode, summary, status>>

\* Mutant: the effect does not see that it has been cleaned up.
AnyCounts(f) == TRUE

Counts(f) == f.active

\* Mutant: one summary that fails leaves both loading (Promise.all without a catch).
OutcomesOfBoth(f) ==
    IF \E m \in Modes : f.got[m] = "failed" THEN status
    ELSE [m \in Modes |-> IF f.got[m] = "failed" THEN "error" ELSE "ready"]

\* Promise.allSettled: either summary may fail alone.
Outcomes(f) == [m \in Modes |-> IF f.got[m] = "failed" THEN "error" ELSE "ready"]

FetchSettles(f) ==
    /\ f \in fetches /\ \A m \in Modes : f.got[m] # "nothing"
    /\ fetches' = fetches \ {f}
    /\ IF Counts(f)
       THEN /\ summary' = [m \in Modes |-> IF f.got[m] = "failed" THEN "none" ELSE f.got[m]]
            /\ status' = Outcomes(f)
       ELSE UNCHANGED <<summary, status>>
    /\ UNCHANGED <<person, mode, reloads>>

DashNext ==
    \/ PersonChanges \/ Retry \/ ChooseMode
    \/ \E f \in fetches :
          \/ Synced(f) \/ SyncFails(f) \/ FetchSettles(f)
          \/ \E m \in Modes : SummaryComes(f, m) \/ SummaryFails(f, m)

\* Calls settle (ApiClient), and so does the run of the effect that counts.
FetchMoves ==
    \E f \in fetches : f.active /\
        (Synced(f) \/ FetchSettles(f) \/ \E m \in Modes : SummaryComes(f, m))

DashSpec == DashInit /\ [][DashNext]_dashVars /\ WF_dashVars(FetchMoves)

--------------------------------------------------------------------------------

\* What the page shows: the panels of the mode, or the notice that stands for them.
Panels == IF status[mode] = "ready" THEN mode ELSE "none"

\* The account whose requests and earnings the header shows: in the seller's mode, of
\* whatever summary is held, also while another is loading.
Header == IF mode = "seller" THEN summary["seller"] ELSE "none"

Notice ==
    IF status[mode] \in {"ready", "idle"} THEN "none"
    ELSE IF person \notin People \/ status[mode] = "guest" THEN "sign in"
    ELSE IF status[mode] = "loading" THEN "loading"
    ELSE "retry"

\* The panels only ever show data of the account that is signed in now, whatever fetches
\* of another account or an earlier try come back late, and a page without panels says
\* why (the active flag; DashboardDataNotice). The seller's figures in the header may be
\* those of the account before, but only until the load for the present one ends: the
\* effect does not clear sellerSummary when it starts, only for a guest.
OwnDataOnly ==
    /\ Panels # "none" => summary[mode] = person
    /\ Header \notin {"none", person} => status["seller"] = "loading"
    /\ person # "loading" => (Panels # "none") # (Notice # "none")

\* Signed in, each mode comes to an end of loading: data, or a notice with a retry.
DashboardSettles == []<>(person \in People => \A m \in Modes : status[m] \in {"ready", "error"})
================================================================================
