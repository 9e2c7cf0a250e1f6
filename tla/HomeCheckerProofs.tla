---------------------------- MODULE HomeCheckerProofs ----------------------------
(***************************************************************************)
(* The accessibility checker for any number of requests, images,           *)
(* redirects and calls: it uses the gateway check as GatewayVerifier says, *)
(* its reports are honest, its uploads are removed, and a status that was  *)
(* sent stays.                                                             *)
(***************************************************************************)
EXTENDS HomeChecker, GatewayVerifierProofs

USE CheckerAssumption

(***************************************************************************)
(* Request.                                                               *)
(***************************************************************************)

Reports == [images : Nat, analyzed : Nat, partial : BOOLEAN, seen : Nat, overall : Nat]

Fields == {"pc", "route", "todo", "good", "bad", "hops", "stored", "ans", "report"}

\* The type of a request, field by field.
Request(x) ==
    /\ DOMAIN x = Fields
    /\ x.pc \in Working \cup {"idle", "over"}
    /\ x.route \in Route
    /\ x.todo \in Nat /\ x.good \in Nat /\ x.bad \in Nat
    /\ x.hops \in Nat /\ x.stored \in Nat /\ x.ans \in Nat
    /\ x.report \in Reports

Loops == {"files", "inline", "download", "vision"}

Honest(report) ==
    report # NoReport =>
        /\ ~report.partial => (report.seen = report.images /\ report.overall = 1)
        /\ report.analyzed \in 1 .. report.images
        /\ report.analyzed <= report.seen + report.overall

\* What holds of every request: a loop has an image to do, the uploads on disk are those
\* that the loop over them has to do, and only a request that is over has a report.
Good(x) ==
    /\ Request(x)
    /\ x.todo + x.good + x.bad <= MaxImages
    /\ x.hops <= MaxRedirects
    /\ x.pc = "idle" => x.ans = 0
    /\ x.pc \in Loops => x.todo > 0
    /\ x.pc = "synthesis" => x.good + x.bad > 0
    /\ x.stored = IF x.pc = "files" THEN x.todo ELSE 0
    /\ x.pc # "over" => x.report = NoReport
    /\ Honest(x.report)

\* A request without uploads on disk, from which an answer or a new loop may follow.
Ready(x) ==
    Request(x) /\ x.stored = 0 /\ x.hops <= MaxRedirects /\ x.report = NoReport

\* A request moves on from x to y, and keeps the status that it sent.
Follows(x, y) == Good(y) /\ ((x.ans # 0 /\ y.pc # "idle") => y.ans = x.ans)

HomeInv ==
    /\ req = [r \in Slots |-> req[r]]
    /\ \A r \in Slots : Good(req[r])
    /\ calls \in 0 .. MaxCalls /\ hits \in Nat
    /\ process \in Process
    /\ provider \in BOOLEAN

\* A fresh request of any route is fine.
LEMMA IdleGood ==
    /\ Good(Idle)
    /\ \A route \in Route : LET x == [Idle EXCEPT !.route = route] IN
           Good(x) /\ Ready(x) /\ x.ans = 0
<1>1. NoReport \in Reports /\ Honest(NoReport)
  BY DEF NoReport, Reports, Honest
<1>2. Request(Idle)
  BY <1>1 DEF Idle, Request, Route, Fields
<1>3. QED
  BY <1>1, <1>2 DEF Idle, Request, Good, Ready, Loops, Working, Fields

\* Whoever settles first answers; an honest report stays honest.
LEMMA SendReportFollows ==
    ASSUME NEW x, Ready(x),
           NEW status \in Nat, NEW report \in Reports, Honest(report)
    PROVE  Follows(x, SendReport(x, status, report))
<1> DEFINE y == SendReport(x, status, report)
<1>1. NoReport \in Reports /\ Honest(NoReport)
  BY DEF NoReport, Reports, Honest
<1>2. x.route \in Route /\ x.ans \in Nat
  BY DEF Ready, Request
<1>3. /\ y.pc = "over" /\ y.route = "unknown" /\ y.todo = 0 /\ y.good = 0 /\ y.bad = 0
      /\ y.hops = 0 /\ y.stored = 0
      /\ y.ans = IF x.ans = 0 THEN status ELSE x.ans
      /\ y.report = IF x.ans = 0 THEN report ELSE NoReport
  BY DEF Ready, SendReport, Over, Idle
<1>4. Request(y)
  <2>1. DOMAIN y = Fields
    BY DEF SendReport, Over, Idle, Fields
  <2>2. QED
    BY <1>1, <1>2, <1>3, <2>1 DEF Request, Working, Route
<1>5. QED
  BY <1>1, <1>2, <1>3, <1>4 DEF Good, Follows, Loops

\* An answer without a report.
LEMMA SendFollows ==
    ASSUME NEW x, Ready(x), NEW status \in Nat
    PROVE  Follows(x, Send(x, status))
<1>1. NoReport \in Reports /\ Honest(NoReport)
  BY DEF NoReport, Reports, Honest
<1>2. QED
  BY <1>1, SendReportFollows DEF Send

\* A loop over downloads, inline images or questions starts.
LEMMA LoopFollows ==
    ASSUME NEW x, Ready(x),
           NEW pc \in Loops \ {"files"}, NEW n \in 1 .. MaxImages
    PROVE  Follows(x, Loop(x, pc, n))
<1> DEFINE y == Loop(x, pc, n)
<1>1. DOMAIN y = DOMAIN x
  BY DEF Loop
<1>2. /\ y.pc = pc /\ y.todo = n /\ y.good = 0 /\ y.bad = 0 /\ y.hops = x.hops
      /\ y.stored = 0 /\ y.ans = x.ans /\ y.report = NoReport /\ y.route = x.route
  BY DEF Loop, Ready, Request, Fields
<1>3. pc \in Working /\ n \in Nat
  BY DEF Loops, Working
<1> HIDE DEF y
<1>4. Request(y)
  BY <1>1, <1>2, <1>3 DEF Request, Ready
<1>5. Follows(x, y)
  <2>1. NoReport \in Reports /\ Honest(NoReport)
    BY DEF NoReport, Reports, Honest
  <2>2. QED
    BY <1>1, <1>2, <1>3, <1>4, <2>1 DEF Good, Ready, Follows, Loops, Request
<1>6. QED
  BY <1>5 DEF y

\* An analysis of some images starts, or is refused.
LEMMA AnalyseFollows ==
    ASSUME NEW x, Ready(x), NEW n \in 1 .. MaxImages
    PROVE  Follows(x, Analyse(x, n))
BY LoopFollows, SendFollows DEF Analyse, Loops

(***************************************************************************)
(* The steps of a handler.                                                 *)
(***************************************************************************)

\* The steps whose outcome is one of Send and Loop are covered by the lemmas above; the
\* others count an image or follow a redirect.
LEMMA CountedGood ==
    ASSUME NEW x, Good(x), x.pc \in Loops, NEW useful \in BOOLEAN
    PROVE  LET y == Counted(x, useful) IN
           /\ DOMAIN y = DOMAIN x
           /\ y.pc = x.pc /\ y.route = x.route /\ y.hops = x.hops /\ y.stored = x.stored
           /\ y.ans = x.ans /\ y.report = NoReport
           /\ y.todo \in Nat /\ y.todo = x.todo - 1
           /\ y.good = x.good + (IF useful THEN 1 ELSE 0)
           /\ y.bad = x.bad + (IF useful THEN 0 ELSE 1)
BY DEF Counted, Good, Request, Fields, Loops

\* One image of the loop over downloads, inline images or questions is done.
LEMMA CountedFollows ==
    ASSUME NEW x, Good(x), x.pc \in Loops \ {"files"}, NEW useful \in BOOLEAN
    PROVE  LET y == Counted(x, useful) IN
           /\ Ready(y) /\ y.ans = x.ans /\ y.pc = x.pc /\ y.todo \in Nat
           /\ y.good \in 0 .. MaxImages /\ y.bad \in 0 .. MaxImages
           /\ y.good + y.bad > 0 /\ y.good + y.bad <= MaxImages
           /\ useful => y.good > 0
           /\ y.todo > 0 => Follows(x, y)
<1> DEFINE y == Counted(x, useful)
<1>1. /\ DOMAIN y = DOMAIN x
      /\ y.pc = x.pc /\ y.route = x.route /\ y.hops = x.hops /\ y.stored = x.stored
      /\ y.ans = x.ans /\ y.report = NoReport
      /\ y.todo \in Nat /\ y.todo = x.todo - 1
      /\ y.good = x.good + (IF useful THEN 1 ELSE 0)
      /\ y.bad = x.bad + (IF useful THEN 0 ELSE 1)
  BY CountedGood
<1>2. NoReport \in Reports /\ Honest(NoReport)
  BY DEF NoReport, Reports, Honest
<1> HIDE DEF y
<1>3. x.todo \in Nat /\ x.good \in Nat /\ x.bad \in Nat /\ x.todo + x.good + x.bad <= MaxImages
  BY DEF Good, Request
<1>4. /\ y.todo + y.good + y.bad <= MaxImages /\ y.good \in Nat /\ y.bad \in Nat
      /\ y.good + y.bad > 0 /\ (useful => y.good > 0)
      /\ y.good \in 0 .. MaxImages /\ y.bad \in 0 .. MaxImages
      /\ y.good + y.bad <= MaxImages
  BY <1>1, <1>3
<1>5. Ready(y)
  BY <1>1, <1>2, <1>4 DEF Good, Request, Ready
<1>6. y.todo > 0 => Follows(x, y)
  BY <1>1, <1>2, <1>4, <1>5 DEF Good, Ready, Follows, Loops
<1>7. QED
  BY <1>1, <1>4, <1>5, <1>6 DEF y

StatusKept ==
    \A q \in Slots : (req[q].ans # 0 /\ req'[q].pc # "idle") => req'[q].ans = req[q].ans

\* A step in which one request moves on keeps the invariant and the statuses sent.
LEMMA MovesAndCounts ==
    ASSUME HomeInv, NEW r \in Slots, NEW y, Follows(req[r], y), Set(r, y),
           hits' \in Nat, UNCHANGED <<vvars, provider, process, calls>>
    PROVE  HomeInv' /\ StatusKept
<1>1. req' = [q \in Slots |-> IF q = r THEN y ELSE req[q]]
  BY DEF HomeInv, Set
<1>2. QED
  BY <1>1 DEF HomeInv, Follows, StatusKept

\* The same of a step that does not touch the limiter.
LEMMA Moves ==
    ASSUME HomeInv, NEW r \in Slots, NEW y, Follows(req[r], y), Set(r, y),
           UNCHANGED <<vvars, hits, provider, process, calls>>
    PROVE  HomeInv' /\ StatusKept
<1>1. hits' \in Nat
  BY DEF HomeInv
<1>2. QED
  BY <1>1, MovesAndCounts

\* The body: refused, or on to a loop or a listing.
LEMMA BodyStep ==
    ASSUME HomeInv, NEW r \in Slots, Body(r) PROVE HomeInv' /\ StatusKept
<1> DEFINE x == req[r]
<1>1. Good(x) /\ x.pc = "body" /\ x.stored = 0 /\ x.report = NoReport
  BY DEF HomeInv, Body, Good
<1> Ready(x)
  BY <1>1 DEF Good, Ready
<1>2. \A status \in Nat : Follows(x, Send(x, status))
  BY SendFollows
<1>3. ASSUME NEW y \in BodyError(x) PROVE Follows(x, y)
  BY <1>2, <1>3 DEF BodyError
<1>4. ASSUME NEW y \in Validated(x) PROVE Follows(x, y)
  <2>1. Follows(x, [x EXCEPT !.pc = "listing"])
    BY <1>1 DEF Good, Follows, Request, Fields, Working, Loops
  <2>2. \A n \in 1 .. MaxImages : Follows(x, Loop(x, "inline", n))
    BY LoopFollows DEF Loops
  <2>3. QED
    BY <1>4, <2>1, <2>2 DEF Validated
<1>5. ASSUME NEW n \in 1 .. MaxImages
      PROVE  Follows(x, [Loop(x, "files", n) EXCEPT !.stored = n])
  <2> DEFINE y == [Loop(x, "files", n) EXCEPT !.stored = n]
  <2>1. DOMAIN y = DOMAIN x
    BY DEF Loop
  <2>2. /\ y.pc = "files" /\ y.todo = n /\ y.good = 0 /\ y.bad = 0 /\ y.hops = x.hops
        /\ y.stored = n /\ y.ans = x.ans /\ y.report = NoReport /\ y.route = x.route
    BY <1>1 DEF Loop, Good, Request, Fields
  <2> HIDE DEF y
  <2>3. Follows(x, y)
    BY <1>1, <2>1, <2>2 DEF Good, Follows, Loops, Request, Working
  <2>4. QED
    BY <2>3 DEF y
<1>6. ASSUME NEW y \in Started(x) PROVE Follows(x, y)
  BY <1>2, <1>4, <1>5, <1>6 DEF Started
<1>7. ASSUME NEW y \in Started(x) PROVE Follows(x, Limited(x, y))
  BY <1>2, <1>6, <1>7 DEF Limited
<1>8. PICK y : Set(r, y) /\ Follows(x, y)
  BY <1>3, <1>6, <1>7 DEF Body
<1>9. hits' \in Nat
  BY DEF Body, HomeInv
<1>10. QED
  BY <1>8, <1>9, MovesAndCounts DEF Body

\* One upload is done, and removed whatever became of it.
LEMMA ProcessFileStep ==
    ASSUME HomeInv, NEW r \in Slots, ProcessFile(r) PROVE HomeInv' /\ StatusKept
<1> DEFINE x == req[r]
<1>1. Good(x) /\ x.pc = "files" /\ x.stored = x.todo
  BY DEF HomeInv, ProcessFile, Good
<1>2. PICK o \in Optimised :
          Set(r, AfterFiles([Counted(x, o # "failed") EXCEPT !.stored = Removed(x, o # "failed")]))
  BY DEF ProcessFile
<1> DEFINE u == Counted(x, o # "failed")
           y == [u EXCEPT !.stored = x.stored - 1]
<1>3. /\ DOMAIN u = DOMAIN x
      /\ u.pc = "files" /\ u.route = x.route /\ u.hops = x.hops
      /\ u.ans = x.ans /\ u.report = NoReport
      /\ u.todo \in Nat /\ u.todo = x.todo - 1
      /\ u.good = x.good + (IF o # "failed" THEN 1 ELSE 0)
      /\ u.bad = x.bad + (IF o # "failed" THEN 0 ELSE 1)
  BY <1>1, CountedGood DEF Loops
<1> HIDE DEF u
<1>4. /\ DOMAIN y = DOMAIN x
      /\ y.pc = "files" /\ y.route = x.route /\ y.hops = x.hops /\ y.stored = u.todo
      /\ y.ans = x.ans /\ y.report = NoReport
      /\ y.todo \in Nat /\ y.todo = u.todo
      /\ y.good \in Nat /\ y.bad \in Nat /\ y.todo + y.good + y.bad <= MaxImages
  BY <1>1, <1>3 DEF Good, Request, Fields
<1> HIDE DEF y
<1>5. NoReport \in Reports /\ Honest(NoReport)
  BY DEF NoReport, Reports, Honest
<1>6. CASE y.todo > 0
  <2>1. Follows(x, y)
    BY <1>1, <1>4, <1>5, <1>6 DEF Good, Request, Follows, Loops
  <2>2. Set(r, y)
    BY <1>2, <1>6 DEF AfterFiles, Removed, y, u
  <2>3. QED
    BY <2>1, <2>2, Moves DEF ProcessFile
<1>7. CASE y.todo = 0
  <2> DEFINE z == AfterFiles(y)
  <2>1. Ready(y)
    BY <1>1, <1>4, <1>5, <1>7 DEF Good, Ready, Request
  <2>2. y.good # 0 => y.good \in 1 .. MaxImages
    BY <1>4
  <2>3. Follows(y, z)
    BY <1>7, <2>1, <2>2, SendFollows, AnalyseFollows DEF AfterFiles
  <2>4. Follows(x, z)
    BY <1>4, <2>3 DEF Follows
  <2>5. Set(r, z)
    BY <1>2 DEF Removed, y, u
  <2>6. QED
    BY <2>4, <2>5, Moves DEF ProcessFile
<1>8. QED
  BY <1>4, <1>6, <1>7

\* One inline image is decoded, or ends the request.
LEMMA InlineImageStep ==
    ASSUME HomeInv, NEW r \in Slots, InlineImage(r) PROVE HomeInv' /\ StatusKept
<1> DEFINE x == req[r]
           u == Counted(x, TRUE)
<1>1. Good(x) /\ x.pc = "inline"
  BY DEF HomeInv, InlineImage
<1>2. Ready(x)
  BY <1>1 DEF Good, Ready
<1>3. /\ Ready(u) /\ u.ans = x.ans /\ u.good \in 1 .. MaxImages
      /\ u.todo > 0 => Follows(x, u)
  <2>1. x.pc \in Loops \ {"files"}
    BY <1>1 DEF Loops
  <2> HIDE DEF x
  <2>2. /\ Ready(u) /\ u.ans = x.ans /\ u.good \in 0 .. MaxImages /\ u.good > 0
        /\ u.todo > 0 => Follows(x, u)
    BY <1>1, <2>1, CountedFollows
  <2> HIDE DEF u
  <2>3. QED
    BY <2>2
<1>4. PICK o \in Optimised :
          Set(r, IF o = "failed" THEN Send(x, 400)
                 ELSE IF u.todo > 0 THEN u ELSE Analyse(u, u.good))
  BY DEF InlineImage
<1> HIDE DEF u
<1>5. Follows(x, Send(x, 400))
  BY <1>2, SendFollows
<1>6. Follows(x, Analyse(u, u.good))
  <2>1. Follows(u, Analyse(u, u.good))
    BY <1>3, AnalyseFollows
  <2>2. QED
    BY <1>3, <2>1 DEF Follows
<1>7. QED
  BY <1>3, <1>4, <1>5, <1>6, Moves DEF InlineImage

\* A hop of a listing: refused, followed, failed or read.
LEMMA ListingStep ==
    ASSUME HomeInv, NEW r \in Slots, Listing(r) PROVE HomeInv' /\ StatusKept
<1> DEFINE x == req[r]
<1>1. Good(x) /\ x.pc = "listing"
  BY DEF HomeInv, Listing
<1>2. Ready(x)
  BY <1>1 DEF Good, Ready
<1>3. \A status \in Nat : Follows(x, Send(x, status))
  BY <1>2, SendFollows
<1>4. ASSUME NEW y \in ListingFails(x) PROVE Follows(x, y)
  BY <1>3, <1>4 DEF ListingFails
<1>5. ASSUME NEW y \in ListingRedirects(x) PROVE Follows(x, y)
  <2>1. y = [x EXCEPT !.hops = @ + 1] /\ x.hops < MaxRedirects
    BY <1>5 DEF ListingRedirects
  <2>2. QED
    BY <1>1, <2>1 DEF Good, Follows, Request, Fields, Loops
<1>6. ASSUME NEW y \in ListingFound(x) PROVE Follows(x, y)
  <2>1. \A n \in 1 .. MaxImages : Follows(x, Loop(x, "download", n))
    BY <1>2, LoopFollows DEF Loops
  <2>2. QED
    BY <1>3, <1>6, <2>1 DEF ListingFound
<1>7. PICK y : Set(r, y) /\ Follows(x, y)
  BY <1>3, <1>4, <1>5, <1>6 DEF Listing
<1>8. QED
  BY <1>7, Moves DEF Listing

\* One picture of a listing is downloaded or skipped.
LEMMA DownloadStep ==
    ASSUME HomeInv, NEW r \in Slots, Download(r) PROVE HomeInv' /\ StatusKept
<1> DEFINE x == req[r]
<1>1. Good(x) /\ x.pc = "download" /\ x.pc \in Loops \ {"files"}
  BY DEF HomeInv, Download, Loops
<1>2. PICK url \in Url, read \in Read, o \in Optimised :
          LET u == Counted(x, Payload(url, read, o)) IN
          Set(r, IF u.todo > 0 THEN u
                 ELSE IF u.good = 0 THEN Send(u, 502) ELSE Analyse(u, u.good))
  BY DEF Download
<1> DEFINE u == Counted(x, Payload(url, read, o))
<1>3. /\ Ready(u) /\ u.ans = x.ans /\ u.good \in 0 .. MaxImages
      /\ u.todo > 0 => Follows(x, u)
  <2>1. Payload(url, read, o) \in BOOLEAN
    BY DEF Payload, Safe
  <2> HIDE DEF x
  <2>2. QED
    BY <1>1, <2>1, CountedFollows
<1> HIDE DEF u
<1>4. Follows(u, Send(u, 502)) /\ (u.good # 0 => Follows(u, Analyse(u, u.good)))
  BY <1>3, SendFollows, AnalyseFollows
<1>5. Follows(x, Send(u, 502)) /\ (u.good # 0 => Follows(x, Analyse(u, u.good)))
  BY <1>3, <1>4 DEF Follows
<1>6. Set(r, IF u.todo > 0 THEN u
             ELSE IF u.good = 0 THEN Send(u, 502) ELSE Analyse(u, u.good))
  BY <1>2 DEF u
<1>7. QED
  BY <1>3, <1>5, <1>6, Moves DEF Download

\* The provider answers about one image; after the last, the overall answer is asked for.
LEMMA VisionStep ==
    ASSUME HomeInv, NEW r \in Slots, Vision(r) PROVE HomeInv' /\ StatusKept
<1> DEFINE x == req[r]
<1>1. Good(x) /\ x.pc = "vision" /\ x.pc \in Loops \ {"files"}
  BY DEF HomeInv, Vision, Loops
<1>2. PICK a \in Answer :
          LET u == Counted(x, SeesWith(a)) IN
          Set(r, IF u.todo > 0 THEN u ELSE [u EXCEPT !.pc = "synthesis"])
  BY DEF Vision
<1> DEFINE u == Counted(x, SeesWith(a))
           y == [u EXCEPT !.pc = "synthesis"]
<1>3. /\ Ready(u) /\ u.ans = x.ans /\ u.good \in 0 .. MaxImages /\ u.bad \in 0 .. MaxImages
      /\ u.good + u.bad > 0 /\ u.good + u.bad <= MaxImages /\ u.todo \in Nat
      /\ u.todo > 0 => Follows(x, u)
  <2>1. SeesWith(a) \in BOOLEAN
    BY DEF SeesWith
  <2> HIDE DEF x
  <2>2. QED
    BY <1>1, <2>1, CountedFollows
<1> HIDE DEF u
<1>4. u.todo = 0 => Follows(x, y)
  <2>1. NoReport \in Reports /\ Honest(NoReport)
    BY DEF NoReport, Reports, Honest
  <2>2. /\ DOMAIN y = DOMAIN u
        /\ y.pc = "synthesis" /\ y.route = u.route /\ y.hops = u.hops /\ y.stored = 0
        /\ y.todo = u.todo /\ y.good = u.good /\ y.bad = u.bad
        /\ y.ans = x.ans /\ y.report = NoReport
    BY <1>3 DEF Ready, Request, Fields
  <2> HIDE DEF y
  <2>3. QED
    BY <1>3, <2>1, <2>2 DEF Good, Ready, Request, Follows, Loops, Working
<1>5. Set(r, IF u.todo > 0 THEN u ELSE y)
  BY <1>2 DEF u
<1> HIDE DEF y
<1>6. QED
  BY <1>3, <1>4, <1>5, Moves DEF Vision

\* The report: partial unless every image was seen, and never of more images than asked.
LEMMA SynthesisStep ==
    ASSUME HomeInv, NEW r \in Slots, Synthesis(r) PROVE HomeInv' /\ StatusKept
<1> DEFINE x == req[r]
<1>1. Good(x) /\ x.pc = "synthesis" /\ x.good + x.bad > 0 /\ x.good \in Nat /\ x.bad \in Nat
  BY DEF HomeInv, Synthesis, Good, Request
<1>2. Ready(x)
  BY <1>1 DEF Good, Ready
<1> HIDE DEF x
<1>3. Synthesized(x) \in Reports /\ Honest(Synthesized(x))
  <2> DEFINE y == Synthesized(x)
  <2>1. y = [images |-> x.good + x.bad, analyzed |-> IF x.good = 0 THEN 1 ELSE x.good,
             partial |-> x.bad > 0, seen |-> x.good, overall |-> 1]
    BY DEF Synthesized, Report
  <2> HIDE DEF y
  <2>2. y \in Reports
    BY <1>1, <2>1 DEF Reports
  <2>3. y.analyzed \in 1 .. y.images /\ y.analyzed <= y.seen + y.overall
    BY <1>1, <2>1
  <2>4. ~y.partial => (y.seen = y.images /\ y.overall = 1)
    <3>1. y.partial = (x.bad > 0)
      BY <2>1, Zenon
    <3>2. y.overall = 1
      BY <2>1
    <3>3. x.bad = 0 => y.seen = y.images
      BY <1>1, <2>1
    <3>4. ~y.partial => ~(x.bad > 0)
      BY <3>1
    <3>5. ~(x.bad > 0) => x.bad = 0
      BY <1>1
    <3>6. QED
      BY <3>2, <3>3, <3>4, <3>5
  <2>5. QED
    BY <2>2, <2>3, <2>4 DEF Honest, y
<1>4. x.good # 0 => VisionOnly(x) \in Reports /\ Honest(VisionOnly(x))
  BY <1>1 DEF VisionOnly, Report, Reports, Honest
<1>5. Follows(x, SendReport(x, 200, Synthesized(x)))
  BY <1>2, <1>3, SendReportFollows
<1>6. x.good # 0 => Follows(x, SendReport(x, 200, VisionOnly(x)))
  BY <1>2, <1>4, SendReportFollows
<1>7. \A a \in Answer : Follows(x, Send(x, ProviderStatus(a)))
  <2>1. \A a \in Answer : ProviderStatus(a) \in Nat
    BY DEF ProviderStatus
  <2>2. QED
    BY <1>2, <2>1, SendFollows
<1>8. PICK a \in Answer :
          Set(r, IF Parses(a) THEN SendReport(x, 200, Synthesized(x))
                 ELSE IF x.good = 0 THEN Send(x, ProviderStatus(a))
                 ELSE SendReport(x, 200, VisionOnly(x)))
  BY DEF Synthesis, x
<1>9. PICK y : Set(r, y) /\ Follows(x, y)
  BY <1>5, <1>6, <1>7, <1>8
<1>10. QED
  BY <1>9, Moves DEF Synthesis, x

\* The timer answers once; a connection is given back.
LEMMA TimeoutStep ==
    ASSUME HomeInv, NEW r \in Slots, Timeout(r) \/ Close(r) PROVE HomeInv' /\ StatusKept
<1> DEFINE x == req[r]
<1>1. Good(x)
  BY DEF HomeInv
<1>2. CASE Timeout(r)
  <2> DEFINE y == [x EXCEPT !.ans = 504]
  <2>1. x.ans = 0 /\ x.pc # "idle" /\ Set(r, y)
    BY <1>2 DEF Timeout, Timed, Working
  <2>2. Follows(x, y)
    BY <1>1, <2>1 DEF Good, Follows, Request, Fields, Loops
  <2>3. QED
    BY <1>2, <2>1, <2>2, Moves DEF Timeout
<1>3. CASE Close(r)
  <2>1. Follows(x, Idle)
    BY IdleGood DEF Follows, Idle
  <2>2. QED
    BY <1>3, <2>1, Moves DEF Close
<1>4. QED
  BY <1>2, <1>3

\* A request comes in: refused for its origin or by the gateway check, limited, or on to
\* its body.
LEMMA ReceiveStep ==
    ASSUME HomeInv, NEW r \in Slots,
           \/ RefuseOrigin(r)
           \/ \E route \in Route, id \in Ids, timestamp \in 0 .. MaxTime, signing \in Signing :
                  Receive(r, route, id, timestamp, signing)
    PROVE  HomeInv' /\ StatusKept
<1>1. CASE RefuseOrigin(r)
  <2>1. Follows(Idle, Send(Idle, 403))
    <3>1. Ready(Idle)
      BY IdleGood DEF Good, Ready, Idle
    <3>2. QED
      BY <3>1, SendFollows
  <2>2. req' = [q \in Slots |-> IF q = r THEN Send(Idle, 403) ELSE req[q]]
    BY <1>1 DEF HomeInv, RefuseOrigin, Set
  <2>3. req[r].ans = 0
    BY <1>1 DEF HomeInv, Good, RefuseOrigin, Arrives
  <2>4. calls' \in 0 .. MaxCalls
    BY <1>1 DEF RefuseOrigin, Arrives, HomeInv
  <2>5. StatusKept
    BY <2>2, <2>3 DEF StatusKept
  <2>6. QED
    BY <1>1, <2>1, <2>2, <2>4, <2>5 DEF HomeInv, Follows, RefuseOrigin
<1>2. CASE \E route \in Route, id \in Ids, timestamp \in 0 .. MaxTime, signing \in Signing :
               Receive(r, route, id, timestamp, signing)
  <2>1. PICK route \in Route, id \in Ids, timestamp \in 0 .. MaxTime, signing \in Signing :
            Receive(r, route, id, timestamp, signing)
    BY <1>2
  <2> DEFINE verdict == Verdict(id, timestamp, signing)
             x == [Idle EXCEPT !.route = route]
             body == [x EXCEPT !.pc = "body"]
  <2>2. Good(x) /\ Ready(x) /\ x.ans = 0
    BY IdleGood
  <2>3. Refusal(verdict) \in Nat
    BY DEF Refusal
  <2>4. Follows(x, Send(x, Refusal(verdict))) /\ Follows(x, Send(x, 429))
    BY <2>2, <2>3, SendFollows
  <2>5. Follows(x, body)
    BY <2>2 DEF Good, Ready, Follows, Request, Fields, Working, Loops, Idle
  <2>6. Follows(x, Limited(x, body))
    BY <2>4, <2>5 DEF Limited
  <2>7. PICK y : Set(r, y) /\ Follows(x, y)
    BY <2>1, <2>4, <2>5, <2>6 DEF Receive
  <2>8. req[r].ans = 0
    BY <2>1 DEF HomeInv, Good, Receive, Arrives
  <2>9. /\ req' = [req' EXCEPT ![r] = y] /\ req' = [q \in Slots |-> req'[q]]
        /\ \A q \in Slots : IF q = r THEN req'[q] = y ELSE req'[q] = req[q]
    BY <2>7 DEF HomeInv, Set
  <2>10. \A q \in Slots : Good(req'[q])
    BY <2>7, <2>9 DEF HomeInv, Follows
  <2>11. calls' \in 0 .. MaxCalls /\ hits' \in Nat
    <3>1. calls' = calls + 1 /\ calls < MaxCalls /\ calls \in 0 .. MaxCalls /\ hits \in Nat
      BY <2>1 DEF Receive, Arrives, HomeInv
    <3>2. hits' = hits + 1 \/ hits' = hits
      BY <2>1 DEF Receive
    <3>3. QED
      BY <3>1, <3>2
  <2>12. StatusKept
    BY <2>8, <2>9 DEF StatusKept
  <2>13. QED
    BY <2>1, <2>9, <2>10, <2>11, <2>12 DEF HomeInv, Receive
<1>3. QED
  BY <1>1, <1>2

(***************************************************************************)
(* The specification.                                                      *)
(***************************************************************************)

\* No step breaks the invariant or takes back a status.
LEMMA HomeStep == HomeInv /\ [HomeNext]_vars => HomeInv' /\ StatusKept
<1> SUFFICES ASSUME HomeInv, [HomeNext]_vars PROVE HomeInv' /\ StatusKept
  OBVIOUS
<1>1. ASSUME NEW r \in Slots,
             \/ \E route \in Route, id \in Ids, timestamp \in 0 .. MaxTime, signing \in Signing :
                    Receive(r, route, id, timestamp, signing)
             \/ RefuseOrigin(r)
             \/ Body(r) \/ ProcessFile(r) \/ InlineImage(r) \/ Listing(r) \/ Download(r)
             \/ Vision(r) \/ Synthesis(r) \/ Timeout(r) \/ Close(r)
      PROVE  HomeInv' /\ StatusKept
  BY <1>1, ReceiveStep, BodyStep, ProcessFileStep, InlineImageStep, ListingStep, DownloadStep,
     VisionStep, SynthesisStep, TimeoutStep
<1>2. CASE \/ Tick /\ UNCHANGED hvars
           \/ WindowEnds \/ Signal \/ Drained \/ ForcedExit \/ UNCHANGED vars
  BY <1>2 DEF WindowEnds, Signal, Drained, ForcedExit, vars, hvars, HomeInv, StatusKept, Process
<1>3. CASE StartServer
  <2>1. req' = [r \in Slots |-> Idle] /\ \A r \in Slots : req'[r] = Idle
    BY <1>3 DEF StartServer
  <2>2. \A r \in Slots : req'[r].pc = "idle"
    BY <2>1 DEF Idle
  <2>3. QED
    BY <1>3, <2>1, <2>2, IdleGood DEF StartServer, HomeInv, StatusKept, Process
<1>4. QED
  BY <1>1, <1>2, <1>3 DEF HomeNext

\* The inductive invariant of the checker.
THEOREM HomeCorrect == HomeSpec => []HomeInv
<1>1. HomeInit => HomeInv
  BY IdleGood DEF HomeInit, HomeInv, Process
<1>2. QED
  BY <1>1, HomeStep, PTL DEF HomeSpec

\* A report that is not marked partial has a result for every image, besides an overall
\* answer about the first, and none counts more images than were asked for, nor more than
\* the answers it was made from (analyzeImages, synthesizeResults,
\* createVisionOnlyAnalysis).
THEOREM ReportsAreHonest == HomeSpec => []HonestReport
<1>1. HomeInv => HonestReport
  BY DEF HomeInv, Good, Honest, HonestReport
<1>2. QED
  BY <1>1, HomeCorrect, PTL

\* No upload outlives the loop that converts it (processUploadedFiles).
THEOREM UploadsGo == HomeSpec => []UploadsAreRemoved
<1>1. HomeInv => UploadsAreRemoved
  BY DEF HomeInv, Good, UploadsAreRemoved
<1>2. QED
  BY <1>1, HomeCorrect, PTL

\* A status that was sent stays, although the work goes on after its timeout
\* (withTimeout races the analysis, nothing stops it).
THEOREM AnswersStay == HomeSpec => AnswerStays
<1>1. HomeInv /\ [HomeNext]_vars => [\A r \in Slots :
          (req[r].ans # 0 /\ req'[r].pc # "idle") => req'[r].ans = req[r].ans]_vars
  BY HomeStep DEF StatusKept
<1>2. QED
  BY <1>1, HomeCorrect, PTL DEF HomeSpec, AnswerStays

\* The checker does to the gateway check only what GatewayVerifier says.
THEOREM UsesVerifier == HomeSpec => VerifierSpec
<1>1. HomeInit => VerifierInit
  BY DEF HomeInit
<1>2. [HomeNext]_vars => [VerifierNext]_vvars
  <2> SUFFICES ASSUME [HomeNext]_vars PROVE [VerifierNext]_vvars
    OBVIOUS
  <2>1. ASSUME NEW r \in Slots, NEW route \in Route, NEW id \in Ids,
               NEW timestamp \in 0 .. MaxTime, NEW signing \in Signing,
               Receive(r, route, id, timestamp, signing)
        PROVE  VerifierNext
    BY <2>1 DEF Receive, VerifierNext
  <2>2. ASSUME NEW r \in Slots,
               \/ RefuseOrigin(r)
               \/ Body(r) \/ ProcessFile(r) \/ InlineImage(r) \/ Listing(r) \/ Download(r)
               \/ Vision(r) \/ Synthesis(r) \/ Timeout(r) \/ Close(r)
        PROVE  UNCHANGED vvars
    BY <2>2 DEF RefuseOrigin, Body, ProcessFile, InlineImage, Listing, Download, Vision, Synthesis,
                Timeout, Close
  <2>3. WindowEnds \/ Signal \/ Drained \/ ForcedExit \/ UNCHANGED vars => UNCHANGED vvars
    BY DEF WindowEnds, Signal, Drained, ForcedExit, vars
  <2>4. Tick \/ StartServer => VerifierNext
    BY DEF StartServer, VerifierNext
  <2>5. QED
    BY <2>1, <2>2, <2>3, <2>4 DEF HomeNext
<1>3. QED
  BY <1>1, <1>2, PTL DEF HomeSpec, VerifierSpec

\* Hence a signed request is processed once within the limits of the cache.
THEOREM NoEarlyRepeats == HomeSpec => []NoEarlyRepeat
BY UsesVerifier, RepeatsAreLate, PTL

\* Every reachable state of the checker is well typed: loops over images and redirects
\* stay within their limits.
THEOREM HomeTypes == HomeSpec => []HomeTypeOK
<1>1. HomeInv /\ VerifierInv => HomeTypeOK
  <2> SUFFICES ASSUME HomeInv, VerifierInv PROVE HomeTypeOK
    OBVIOUS
  <2>1. hits \in Nat
    BY DEF HomeInv
  <2>2. QED
    BY <2>1 DEF HomeInv, VerifierInv, HomeTypeOK, Good, Request
<1>2. QED
  BY <1>1, HomeCorrect, UsesVerifier, VerifierCorrect, PTL
================================================================================
