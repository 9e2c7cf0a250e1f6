------------------------------ MODULE HomeChecker ------------------------------
(***************************************************************************)
(* The home accessibility checker, an Express process behind the gateway   *)
(* (apps/seller-tools/home-accessibility-checker).                         *)
(*                                                                         *)
(* A request passes the check of its origin and of the gateway's signature *)
(* (GatewayVerifier), a rate limit with a fixed window and the body parser *)
(* (POST / the body parser first); then its handler stores, converts or    *)
(* downloads images one by one and asks the AI provider about each of them *)
(* and once more, for the overall answer, about the first.  An analysis    *)
(* races a timer: the answer is then sent, but nothing stops the work,     *)
(* which goes on and whose result nobody reads.  Signals let the process   *)
(* drain for ten seconds.                                                  *)
(*                                                                         *)
(* JavaScript runs one turn of the event loop at a time, so that a step    *)
(* of the model is what happens between two awaits.                        *)
(***************************************************************************)
EXTENDS GatewayVerifier

CONSTANTS
    Slots,         \* requests in progress
    MaxImages,     \* maxFiles and maxInlineImages
    MaxHits,       \* rateLimitMaxRequests
    MaxRedirects,  \* MAX_REDIRECTS of the listing scraper
    MaxCalls       \* bound of the model on the requests received

ASSUME CheckerAssumption ==
    {MaxImages, MaxHits, MaxRedirects, MaxCalls} \subseteq Nat \ {0}

VARIABLES
    req,       \* the requests
    hits,      \* the limiter's counter of this window
    provider,  \* OPENROUTER_API_KEY is set
    process,   \* see Process
    calls      \* bound: requests received

hvars == <<req, hits, provider, process, calls>>
vars  == <<vvars, hvars>>

\* POST /api/upload, /api/upload-and-analyze, /api/analyze, POST /, /api/scrape, and
\* whatever else is under /api/.
Route   == {"upload", "uploadAnalyze", "analyze", "root", "scrape", "unknown"}
Analyze == {"analyze", "root"}   \* createAnalyzeHandler
Process == {"up", "draining", "exit0", "exit1"}
Working == {"body", "files", "inline", "listing", "download", "vision", "synthesis"}

\* A report says how many images were asked for and analysed, and whether it is
\* partial; seen and overall are history: how many images got a vision result of their
\* own, and how many the overall answer is about.
NoReport == [images |-> 0, analyzed |-> 0, partial |-> FALSE, seen |-> 0, overall |-> 0]

\* todo, good, bad: images of the current loop; hops: redirects followed; stored: the
\* uploads multer wrote and nobody removed; ans: the status sent, 0 if none.
Idle == [pc |-> "idle", route |-> "unknown", todo |-> 0, good |-> 0, bad |-> 0,
         hops |-> 0, stored |-> 0, ans |-> 0, report |-> NoReport]

HomeInit ==
    /\ VerifierInit
    /\ req = [r \in Slots |-> Idle]
    /\ hits = 0
    /\ provider \in BOOLEAN
    /\ process = "up"
    /\ calls = 0

--------------------------------------------------------------------------------
(* How a request moves on                                                  *)

Runs == process \in {"up", "draining"}

Set(r, x) == req' = [req EXCEPT ![r] = x]

\* The handler ends, and its local variables with it.
Over(x) == [Idle EXCEPT !.pc = "over", !.stored = x.stored]

\* Mutant: the late result is sent over the timeout's answer.
SendAnyway(x, status, report) == [Over(x) EXCEPT !.ans = status, !.report = report]

\* Promise.race: whoever settles first answers; a result after a timeout is dropped.
SendReport(x, status, report) ==
    IF x.ans = 0 THEN [Over(x) EXCEPT !.ans = status, !.report = report]
    ELSE [Over(x) EXCEPT !.ans = x.ans]

Send(x, status) == SendReport(x, status, NoReport)

\* A loop over n images starts.
Loop(x, pc, n) == [x EXCEPT !.pc = pc, !.todo = n, !.good = 0, !.bad = 0]

\* One image of the loop is done, and was of use or not.
Counted(x, useful) ==
    [x EXCEPT !.todo = @ - 1, !.good = IF useful THEN @ + 1 ELSE @,
              !.bad = IF useful THEN @ ELSE @ + 1]

\* analyzeImages: nothing is asked of a provider that has no key.
Analyse(x, n) ==
    IF provider THEN Loop(x, "vision", n) ELSE Send(x, 503)

--------------------------------------------------------------------------------
(* Middleware                                                              *)

Refusal(verdict) ==
    CASE verdict = "not_configured" -> 503
      [] verdict = "replayed" -> 409
      [] OTHER -> 401

Arrives(r) ==
    /\ process = "up" /\ req[r].pc = "idle" /\ calls < MaxCalls
    /\ calls' = calls + 1

\* cors refuses a browser's request from an origin that is not configured.
RefuseOrigin(r) ==
    /\ Arrives(r)
    /\ Set(r, Send(Idle, 403))
    /\ UNCHANGED <<vvars, hits, provider, process>>

\* The limiter counts the request, and then answers it or lets it go on to y.
Limited(x, y) == IF hits >= MaxHits THEN Send(x, 429) ELSE y

\* The middleware in front of the body parser runs in one turn; the limiter is part of
\* it under /api/ only.
Receive(r, route, id, timestamp, signing) ==
    LET verdict == Verdict(id, timestamp, signing)
        through == verdict \in {"accepted", "bypassed"}
        x == [Idle EXCEPT !.route = route]
        body == [x EXCEPT !.pc = "body"]
    IN /\ Arrives(r)
       /\ Verify(id, timestamp, signing)
       /\ hits' = IF through /\ route # "root" THEN hits + 1 ELSE hits
       /\ Set(r, IF ~through THEN Send(x, Refusal(verdict))
                 ELSE IF route = "root" THEN body ELSE Limited(x, body))
       /\ UNCHANGED <<provider, process>>

\* The window of the limiter ends.
WindowEnds ==
    /\ Runs /\ hits > 0
    /\ hits' = 0
    /\ UNCHANGED <<vvars, req, provider, process, calls>>

\* A body that does not parse, multer's limits, a file that is not an image (a plain
\* Error, hence 500): the error handler answers, and multer removes what it stored.
BodyError(x) ==
    IF x.route \in {"upload", "uploadAnalyze"}
    THEN {Send(x, 400), Send(x, 500)} ELSE {Send(x, 400), Send(x, 413)}

\* The schemas of ValidationService: a listing URL, or one to MaxImages inline images,
\* which win over a URL beside them.
Validated(x) ==
    {[x EXCEPT !.pc = "listing"]} \cup
    (IF x.route \in Analyze THEN {Loop(x, "inline", n) : n \in 1 .. MaxImages} ELSE {})

\* The body is in; the handler starts, or answers 400 for an invalid or empty request.
Started(x) ==
    CASE x.route = "unknown" -> {Send(x, 404)}
      [] x.route \in {"upload", "uploadAnalyze"} ->
             {Send(x, 400)} \cup
             {[Loop(x, "files", n) EXCEPT !.stored = n] : n \in 1 .. MaxImages}
      [] OTHER -> {Send(x, 400)} \cup Validated(x)

\* POST / meets the limiter here, after its body was parsed.
Body(r) ==
    LET x == req[r] IN
    /\ Runs /\ x.pc = "body"
    /\ \/ /\ \E y \in BodyError(x) \cup (IF x.route = "root" THEN {} ELSE Started(x)) : Set(r, y)
          /\ UNCHANGED hits
       \/ /\ x.route = "root"
          /\ \E y \in Started(x) : Set(r, Limited(x, y))
          /\ hits' = hits + 1
    /\ UNCHANGED <<vvars, provider, process, calls>>

--------------------------------------------------------------------------------
(* Images                                                                  *)

\* What follows when no upload is left to do.
AfterFiles(x) ==
    IF x.todo > 0 THEN x
    ELSE IF x.good = 0 THEN Send(x, 400)
    ELSE IF x.route = "upload" THEN Send(x, 200)
    ELSE Analyse(x, x.good)

\* Mutant: the upload is removed only when it could be converted.
RemovedIfUseful(x, useful) == IF useful THEN x.stored - 1 ELSE x.stored

\* cleanupFileIfPresent in the finally block; that an unlink can fail is left out.
Removed(x, useful) == x.stored - 1

\* What sharp makes of a picture: a small JPEG is kept as it is.
Optimised == {"kept", "resized", "failed"}

\* processUploadedFiles: one file is optimised, converted and removed.
ProcessFile(r) ==
    /\ Runs /\ req[r].pc = "files"
    /\ \E o \in Optimised :
           LET useful == o # "failed" IN
           Set(r, AfterFiles([Counted(req[r], useful) EXCEPT
                                  !.stored = Removed(req[r], useful)]))
    /\ UNCHANGED <<vvars, hits, provider, process, calls>>

\* resolveImagesForAnalysis with inline images: one that does not decode ends it all.
InlineImage(r) ==
    LET x == Counted(req[r], TRUE) IN
    /\ Runs /\ req[r].pc = "inline"
    /\ \E o \in Optimised :
           Set(r, IF o = "failed" THEN Send(req[r], 400)
                  ELSE IF x.todo > 0 THEN x ELSE Analyse(x, x.good))
    /\ UNCHANGED <<vvars, hits, provider, process, calls>>

\* assertPublicHttpsUrl: what a URL turns out to be; only the last may be fetched.
Url == {"not_https", "other_host", "unresolved", "private", "public"}
Safe(url) == url = "public"

\* readResponseBuffer, readResponseText: the body is read up to a size limit.
Read == {"complete", "oversized", "timeout"}

\* fetchListingHtml, after a hop that is no redirect: 404, 503: the site's own status;
\* 502: blocked, redirected too often or to nowhere, not HTML, too large or too late.
ListingFails(x) == {Send(x, s) : s \in {404, 502, 503}}

ListingRedirects(x) ==
    IF x.hops < MaxRedirects THEN {[x EXCEPT !.hops = @ + 1]} ELSE {}

ListingFound(x) ==
    {Send(x, 404)} \cup
    (IF x.route = "scrape" THEN {Send(x, 200)}
     ELSE {Loop(x, "download", n) : n \in 1 .. MaxImages})

Listing(r) ==
    /\ Runs /\ req[r].pc = "listing"
    /\ \/ \E url \in Url : ~Safe(url) /\ Set(r, Send(req[r], 400))
       \/ \E x \in ListingFails(req[r]) \cup ListingRedirects(req[r]) : Set(r, x)
       \/ \E read \in Read :
              \E x \in IF read = "complete" THEN ListingFound(req[r])
                                             ELSE {Send(req[r], 502)} : Set(r, x)
    /\ UNCHANGED <<vvars, hits, provider, process, calls>>

\* fetchImageAsPayload: a safe URL, no redirect, an image type, not too large, decodable.
Payload(url, read, o) == Safe(url) /\ read = "complete" /\ o # "failed"

\* One scraped image; a failed one is skipped.
Download(r) ==
    /\ Runs /\ req[r].pc = "download"
    /\ \E url \in Url, read \in Read, o \in Optimised :
           LET x == Counted(req[r], Payload(url, read, o)) IN
           Set(r, IF x.todo > 0 THEN x
                  ELSE IF x.good = 0 THEN Send(x, 502)
                  ELSE Analyse(x, x.good))
    /\ UNCHANGED <<vvars, hits, provider, process, calls>>

--------------------------------------------------------------------------------
(* Analysis                                                                *)

\* What the provider sends for one question, after the client's own retry.
Answer == {"json", "labelled", "empty", "no_score", "bad_score", "no_findings",
           "timeout", "failure"}

\* The two services parse alike: a JSON object, bare, fenced or inside prose, or text
\* with labels, is a result if it has a score from 0 to 100 and at least one finding.
Parses(a)   == a \in {"json", "labelled"}
SeesWith(a) == a \in {"json", "labelled"}

\* normalizeProviderError
ProviderStatus(a) ==
    CASE a = "timeout" -> 504
      [] a = "failure" -> 503
      [] OTHER -> 502

\* visionService.analyzeAccessibility for one image; a failure is noted.
Vision(r) ==
    /\ Runs /\ req[r].pc = "vision"
    /\ \E a \in Answer :
           LET x == Counted(req[r], SeesWith(a)) IN
           Set(r, IF x.todo > 0 THEN x ELSE [x EXCEPT !.pc = "synthesis"])
    /\ UNCHANGED <<vvars, hits, provider, process, calls>>

Report(x, partial, analyzed, overall) ==
    [images |-> x.good + x.bad, analyzed |-> analyzed, partial |-> partial,
     seen |-> x.good, overall |-> overall]

\* Mutant: a report is partial only if no image could be seen.
SynthesizedBlind(x) == Report(x, x.good = 0, IF x.good = 0 THEN 1 ELSE x.good, 1)

\* synthesizeResults: the overall answer counts as an image if none could be seen.
Synthesized(x) == Report(x, x.bad > 0, IF x.good = 0 THEN 1 ELSE x.good, 1)

\* createVisionOnlyAnalysis
VisionOnly(x) == Report(x, TRUE, x.good, 0)

\* The overall question is asked with images[0], whichever images could be seen.
Synthesis(r) ==
    LET x == req[r] IN
    /\ Runs /\ x.pc = "synthesis"
    /\ \E a \in Answer :
           Set(r, IF Parses(a) THEN SendReport(x, 200, Synthesized(x))
                  ELSE IF x.good = 0 THEN Send(x, ProviderStatus(a))
                  ELSE SendReport(x, 200, VisionOnly(x)))
    /\ UNCHANGED <<vvars, hits, provider, process, calls>>

\* Mutant: only an inline or listing analysis is raced against the timer.
TimedUnlessUploaded(x) == x.route \in Analyze /\ x.pc \in Working \ {"body"}

\* withTimeout covers an analysis; uploads are stored and converted before it starts.
Timed(x) ==
    \/ x.route \in Analyze /\ x.pc \in Working \ {"body"}
    \/ x.route = "uploadAnalyze" /\ x.pc \in {"vision", "synthesis"}

Timeout(r) ==
    /\ Runs /\ Timed(req[r]) /\ req[r].ans = 0
    /\ Set(r, [req[r] EXCEPT !.ans = 504])
    /\ UNCHANGED <<vvars, hits, provider, process, calls>>

\* The connection is free for another request.
Close(r) ==
    /\ Runs /\ req[r].pc = "over"
    /\ Set(r, Idle)
    /\ UNCHANGED <<vvars, hits, provider, process, calls>>

--------------------------------------------------------------------------------
(* The process                                                             *)

\* SIGTERM, SIGINT or an uncaught exception: gracefulShutdown, once.
Signal ==
    /\ process = "up"
    /\ process' = "draining"
    /\ UNCHANGED <<vvars, req, hits, provider, calls>>

\* server.close calls back when no connection is open.
Open(r) == req[r].pc \in Working /\ req[r].ans = 0

Drained ==
    /\ process = "draining" /\ \A r \in Slots : ~Open(r)
    /\ process' = "exit0"
    /\ UNCHANGED <<vvars, req, hits, provider, calls>>

\* The timer of ten seconds.
ForcedExit ==
    /\ process = "draining"
    /\ process' = "exit1"
    /\ UNCHANGED <<vvars, req, hits, provider, calls>>

\* The platform starts a new process.
StartServer ==
    /\ process \in {"exit0", "exit1"} /\ calls < MaxCalls
    /\ process' = "up"
    /\ req' = [r \in Slots |-> Idle]
    /\ hits' = 0
    /\ ForgetReplays
    /\ UNCHANGED <<provider, calls>>

HomeNext ==
    \/ \E r \in Slots :
           \/ \E route \in Route, id \in Ids, timestamp \in 0 .. MaxTime, signing \in Signing :
                  Receive(r, route, id, timestamp, signing)
           \/ RefuseOrigin(r)
           \/ Body(r) \/ ProcessFile(r) \/ InlineImage(r) \/ Listing(r) \/ Download(r)
           \/ Vision(r) \/ Synthesis(r) \/ Timeout(r) \/ Close(r)
    \/ Tick /\ UNCHANGED hvars
    \/ WindowEnds \/ Signal \/ Drained \/ ForcedExit \/ StartServer

\* Timers fire; nothing else is assumed, not even that the provider ever answers.
HomeFairness ==
    /\ \A r \in Slots : WF_vars(Timeout(r))
    /\ WF_vars(ForcedExit)

HomeSpec == HomeInit /\ [][HomeNext]_vars /\ HomeFairness

--------------------------------------------------------------------------------
(* Properties                                                              *)

HomeTypeOK ==
    /\ VerifierTypeOK
    /\ \A r \in Slots :
           /\ req[r].pc \in Working \cup {"idle", "over"}
           /\ req[r].route \in Route
           /\ req[r].todo + req[r].good + req[r].bad <= MaxImages
           /\ req[r].hops <= MaxRedirects
    /\ hits \in Nat
    /\ process \in Process

\* A report that is not marked partial has a result for every image of the analysis and
\* an overall answer besides (which the code asks about the first image only); and what
\* a report gives as the number of images analysed is no more than were asked for, nor
\* than the answers it was made from.
HonestReport ==
    \A r \in Slots : LET report == req[r].report IN
        report # NoReport =>
            /\ ~report.partial => (report.seen = report.images /\ report.overall = 1)
            /\ report.analyzed \in 1 .. report.images
            /\ report.analyzed <= report.seen + report.overall

\* When a request has its answer, or its analysis runs, no upload of it is on disk,
\* but for what a failed unlink or optimisation left.
UploadsAreRemoved ==
    \A r \in Slots : req[r].pc \notin {"body", "files"} => req[r].stored = 0

\* A status that was sent stays: work that outlives its timeout changes nothing.
AnswerStays ==
    [][\A r \in Slots :
           (req[r].ans # 0 /\ req'[r].pc # "idle") => req'[r].ans = req[r].ans]_vars

\* The handlers that analyse, once they have the request and its uploads are converted:
\* they read inline images, a listing or its pictures, or ask the provider.
UnderAnalysis(x) ==
    /\ x.route \in Analyze \cup {"uploadAnalyze"}
    /\ x.pc \in Working \ {"body", "files"}

\* Whatever the provider, the listing site and the hosts of its pictures do, also if
\* they never answer, an analysis is answered, or the process ends. (No timer covers the
\* reading of a body, the conversion of uploads, or /api/scrape.)
AnalysisIsAnswered ==
    \A r \in Slots : UnderAnalysis(req[r]) ~> (req[r].ans # 0 \/ ~Runs)

================================================================================
