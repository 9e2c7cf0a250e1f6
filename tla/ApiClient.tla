------------------------------- MODULE ApiClient -------------------------------
(***************************************************************************)
(* One call of the web front end's API client (apps/web/src/lib/api.ts).   *)
(*                                                                         *)
(* The client waits for the headers of an answer under a timer that        *)
(* aborts the request; it then reads the body without one.  A GET or HEAD  *)
(* answered with 502, 503 or 504 is sent again after a pause, twice at     *)
(* most.  An aborted request may have reached the server all the same.     *)
(***************************************************************************)
EXTENDS Naturals, FiniteSets

CONSTANT MaxRetries  \* MAX_RETRIES

ASSUME ClientAssumption == MaxRetries \in Nat

VARIABLES
    call,  \* method, pc, attempt and result of the call; status: that of its headers
    wire,  \* attempts on their way to the server
    ran    \* attempts the server carried out

clientVars == <<call, wire, ran>>

Methods   == {"GET", "HEAD", "POST", "PUT", "PATCH", "DELETE"}
\* no_content is 204, unavailable one of RETRYABLE_STATUS_CODES, failed any other error.
Statuses  == {"ok", "no_content", "unavailable", "failed"}
Attempts  == 0..MaxRetries

ClientInit ==
    /\ \E method \in Methods :
          call = [method |-> method, pc |-> "idle", attempt |-> 0,
                  status |-> "none", result |-> "none"]
    /\ wire = {}
    /\ ran = {}

Settle(result) == call' = [call EXCEPT !.pc = "done", !.result = result]

\* fetchWithTimeout, from the first attempt or a later one.
Fetch(attempt) ==
    /\ call' = [call EXCEPT !.pc = "fetch", !.attempt = attempt]
    /\ wire' = wire \cup {attempt}
    /\ ran' = ran

Request == call.pc = "idle" /\ Fetch(0)

\* A build of the site skips services on the same machine.
SkipFetch ==
    /\ call.pc = "idle"
    /\ Settle("skipped")
    /\ UNCHANGED <<wire, ran>>

\* The server carries out an attempt, which the client may have given up by now.
Execute(i) ==
    /\ i \in wire
    /\ wire' = wire \ {i}
    /\ ran' = ran \cup {i}
    /\ call' = call

Lose(i) ==
    /\ i \in wire
    /\ wire' = wire \ {i}
    /\ UNCHANGED <<call, ran>>

\* A proxy may say that the server is unavailable whether or not the server got it.
Respond(status) ==
    /\ call.pc = "fetch"
    /\ status # "unavailable" => call.attempt \in ran
    /\ call' = [call EXCEPT !.pc = IF status = "no_content" THEN "done" ELSE "body",
                            !.result = IF status = "no_content" THEN "ok" ELSE @,
                            !.status = status]
    /\ UNCHANGED <<wire, ran>>

\* The abort (504 REQUEST_TIMEOUT) and NETWORK_ERROR are thrown, not answered.
NoAnswer ==
    /\ call.pc = "fetch"
    /\ \E result \in {"timeout", "unreachable"} : Settle(result)
    /\ UNCHANGED <<wire, ran>>

\* Mutant: every method is sent again.
RetriesAll == call.status = "unavailable" /\ call.attempt < MaxRetries

Retries ==
    /\ call.status = "unavailable"
    /\ call.attempt < MaxRetries
    /\ call.method \in {"GET", "HEAD"}

\* A body that breaks off or is not the JSON it says it is raises before the status
\* is looked at.
ReadBody ==
    /\ call.pc = "body"
    /\ \/ Settle("unreadable")
       \/ call.status = "ok" /\ Settle("ok")
       \/ call.status # "ok" /\ ~Retries /\ Settle("error")
       \/ call.status # "ok" /\ Retries /\ call' = [call EXCEPT !.pc = "delay"]
    /\ UNCHANGED <<wire, ran>>

\* Mutant: the next attempt keeps its number.
SameAttempt == call.attempt

NextAttempt == call.attempt + 1

RetryDelayEnds == call.pc = "delay" /\ Fetch(NextAttempt)

ClientNext ==
    \/ Request
    \/ SkipFetch
    \/ \E i \in Attempts : Execute(i) \/ Lose(i)
    \/ \E status \in Statuses : Respond(status)
    \/ NoAnswer
    \/ ReadBody
    \/ RetryDelayEnds

\* The timer aborts a fetch; that a body ends is up to the network.
ClientAnswers == NoAnswer \/ ReadBody \/ RetryDelayEnds

ClientSpec == ClientInit /\ [][ClientNext]_clientVars /\ WF_clientVars(ClientAnswers)

--------------------------------------------------------------------------------

\* However a call that writes ends for its caller, with an answer, a timeout or a retry
\* of the proxy's error, the server carries it out at most once (requestWithRetry).
WriteOnce == call.method \notin {"GET", "HEAD"} => Cardinality(ran) <= 1

\* Every call settles, retries included, given that bodies end (requestWithRetry).
CallSettles == call.pc # "idle" ~> call.pc = "done"
================================================================================
