------------------------------- MODULE SubmitPage -------------------------------
(***************************************************************************)
(* Submitting a repository (apps/web/src/app/submit/page.tsx).             *)
(*                                                                         *)
(* The page goes from the address of a repository through its analysis,    *)
(* which drafts a tool on the server, and a review of the listing to the   *)
(* submission: three calls one after the other that write the listing,     *)
(* upload the repository and queue its processing.  "Start over" is there  *)
(* throughout the review, and abandons neither analyses nor submissions:   *)
(* each goes on with what it captured and then moves the page.             *)
(*                                                                         *)
(* Of the listing's fields only their being filled in is kept.             *)
(***************************************************************************)
EXTENDS Naturals, FiniteSets

CONSTANTS
    Repos,         \* addresses that validateGithubUrl accepts
    MaxAnalyses,   \* bound: analyses, each of which drafts at most one tool
    MaxSubmits     \* bound: submissions

ASSUME SubmitAssumption == {MaxAnalyses, MaxSubmits} \subseteq Nat

VARIABLES
    signedIn,     \* account.isSignedIn
    form,         \* phase, address, its error, the animation, the listing, ...
    analyses,     \* analyze calls in progress
    submissions,  \* submitForReview calls in progress
    drafts,       \* the server's tools: the repository each was drafted from, and what
                  \* the three calls did to it
    strayed,      \* history: a submission that went on behind "Start over" moved the page
                  \* away while an address was being analysed
    analysed,     \* bound: analyses so far
    submitted     \* bound: submissions so far

submitVars == <<signedIn, form, analyses, submissions, drafts, strayed, analysed, submitted>>

DraftIds == 1..MaxAnalyses

\* listing and answer (apiResponse) are the number of the tool they are of, or 0.
Fresh == [phase |-> "input", url |-> "none", error |-> FALSE, animated |-> FALSE,
          listing |-> 0, filled |-> {}, answer |-> 0, ready |-> FALSE,
          failed |-> FALSE, saving |-> FALSE, record |-> 0]

NoDraft == [repo |-> "none", owned |-> FALSE, listed |-> FALSE, uploaded |-> "none", queued |-> FALSE]

SubmitInit ==
    /\ signedIn \in BOOLEAN
    /\ form = Fresh
    /\ analyses = {}
    /\ submissions = {}
    /\ drafts = [n \in DraftIds |-> NoDraft]
    /\ strayed = FALSE
    /\ analysed = 0
    /\ submitted = 0

SignInOrOut ==
    /\ signedIn' = ~signedIn
    /\ UNCHANGED <<form, analyses, submissions, drafts, strayed, analysed, submitted>>

--------------------------------------------------------------------------------
(* From the address to the listing                                         *)

\* Typing, or an example; "bad" is an address that is refused.
EditUrl(u) ==
    /\ form.phase = "input"
    /\ form' = [form EXCEPT !.url = u, !.error = FALSE]
    /\ UNCHANGED <<signedIn, analyses, submissions, drafts, strayed, analysed, submitted>>

Analyze ==
    /\ form.phase = "input" /\ form.url # "none"
    /\ IF form.url \in Repos
       THEN /\ analysed < MaxAnalyses
            /\ form' = [form EXCEPT !.phase = "analyzing", !.error = FALSE, !.failed = FALSE,
                                    !.animated = FALSE, !.answer = 0, !.ready = FALSE]
            /\ analyses' = analyses \cup
                  {[nr |-> analysed + 1, repo |-> form.url, signed |-> signedIn,
                   pc |-> IF signedIn THEN "token" ELSE "sent"]}
            /\ analysed' = analysed + 1
       ELSE form' = [form EXCEPT !.error = TRUE] /\ UNCHANGED <<analyses, analysed>>
    /\ UNCHANGED <<signedIn, submissions, drafts, strayed, submitted>>

Becomes(a, pc) == analyses' = (analyses \ {a}) \cup {[a EXCEPT !.pc = pc]}

\* getToken, outside of any try: when it raises, nobody learns of it.
AnalysisToken(a) ==
    /\ a.pc = "token"
    /\ Becomes(a, "sent") \/ Becomes(a, "lost")
    /\ UNCHANGED <<signedIn, form, submissions, drafts, strayed, analysed, submitted>>

\* The server reads the repository and drafts a tool; what is sent without a token is
\* nobody's (outside production).
DraftTool(a) ==
    /\ a.pc = "sent"
    /\ \E owned \in {FALSE, a.signed} :
          drafts' = [drafts EXCEPT ![a.nr].repo = a.repo, ![a.nr].owned = owned]
    /\ Becomes(a, "drafted")
    /\ UNCHANGED <<signedIn, form, submissions, strayed, analysed, submitted>>

\* The answer, or an error, is kept for the gate whatever the page shows by now.
AnalysisSettles(a) ==
    /\ a.pc \in {"sent", "drafted"}
    /\ \/ a.pc = "drafted" /\ form' = [form EXCEPT !.answer = a.nr, !.ready = TRUE]
       \/ form' = [form EXCEPT !.ready = TRUE]
    /\ analyses' = analyses \ {a}
    /\ UNCHANGED <<signedIn, submissions, drafts, strayed, analysed, submitted>>

AnimationEnds ==
    /\ form.phase = "analyzing" /\ ~form.animated
    /\ form' = [form EXCEPT !.animated = TRUE]
    /\ UNCHANGED <<signedIn, analyses, submissions, drafts, strayed, analysed, submitted>>

\* The analysis may suggest a price.
Gated ==
    /\ form.phase = "analyzing" /\ form.animated /\ form.ready
    /\ IF form.answer = 0
       THEN form' = [form EXCEPT !.phase = "input", !.error = TRUE, !.animated = FALSE]
       ELSE \E price \in SUBSET {"price"} :
               form' = [form EXCEPT !.phase = "review", !.listing = form.answer,
                                    !.filled = (@ \cap {"price"}) \cup {"fields"} \cup price]
    /\ UNCHANGED <<signedIn, analyses, submissions, drafts, strayed, analysed, submitted>>

Toggled(x, set) == (set \cup {x}) \ (set \cap {x})

\* Name, description, category, stack and contract, and how the seller is paid.
EditFields ==
    /\ form.phase = "review"
    /\ form' = [form EXCEPT !.filled = Toggled("fields", @)]
    /\ UNCHANGED <<signedIn, analyses, submissions, drafts, strayed, analysed, submitted>>

EditPrice ==
    /\ form.phase = "review"
    /\ form' = [form EXCEPT !.filled = Toggled("price", @)]
    /\ UNCHANGED <<signedIn, analyses, submissions, drafts, strayed, analysed, submitted>>

CanSubmit == form.filled = {"fields", "price"}

--------------------------------------------------------------------------------
(* The submission                                                          *)

\* Signed in, the listing and the address are captured; a guest's listing is saved nowhere.
SubmitForReview ==
    /\ form.phase = "review" /\ CanSubmit /\ ~form.saving
    /\ submitted < MaxSubmits
    /\ submitted' = submitted + 1
    /\ IF signedIn
       THEN /\ submissions' = submissions \cup
                  {[nr |-> submitted + 1, tool |-> form.listing, url |-> form.url, pc |-> "token"]}
            /\ form' = [form EXCEPT !.failed = FALSE, !.saving = TRUE]
       ELSE /\ form' = [form EXCEPT !.failed = FALSE, !.phase = "done", !.record = 0]
            /\ submissions' = submissions
    /\ UNCHANGED <<signedIn, analyses, drafts, strayed, analysed>>

Moves(s, pc) == submissions' = (submissions \ {s}) \cup {[s EXCEPT !.pc = pc]}

\* When getToken raises here, the button says "Saving" until "Start over".
SubmissionToken(s) ==
    /\ s.pc = "token"
    /\ Moves(s, "put") \/ Moves(s, "lost")
    /\ UNCHANGED <<signedIn, form, analyses, drafts, strayed, analysed, submitted>>

\* The three calls; the server refuses those on a tool that is not the account's.
PutListing(s) ==
    /\ s.pc = "put" /\ drafts[s.tool].owned
    /\ drafts' = [drafts EXCEPT ![s.tool].listed = TRUE]
    /\ Moves(s, "upload")
    /\ UNCHANGED <<signedIn, form, analyses, strayed, analysed, submitted>>

\* Mutant: the upload takes the address from the page as it is by now.
UploadShown(s) ==
    /\ s.pc = "upload"
    /\ drafts' = [drafts EXCEPT ![s.tool].uploaded = form.url]
    /\ Moves(s, "configure")
    /\ UNCHANGED <<signedIn, form, analyses, strayed, analysed, submitted>>

UploadRepo(s) ==
    /\ s.pc = "upload"
    /\ drafts' = [drafts EXCEPT ![s.tool].uploaded = s.url]
    /\ Moves(s, "configure")
    /\ UNCHANGED <<signedIn, form, analyses, strayed, analysed, submitted>>

Configure(s) ==
    /\ s.pc = "configure"
    /\ drafts' = [drafts EXCEPT ![s.tool].queued = TRUE]
    /\ Moves(s, "configured")
    /\ UNCHANGED <<signedIn, form, analyses, strayed, analysed, submitted>>

\* Whatever the page shows by now.
SubmissionDone(s) ==
    /\ s.pc = "configured"
    /\ form' = [form EXCEPT !.phase = "done", !.record = s.tool, !.saving = FALSE]
    /\ submissions' = submissions \ {s}
    /\ strayed' = (strayed \/ (form.phase = "analyzing" /\ \E a \in analyses : a.pc # "lost"))
    /\ UNCHANGED <<signedIn, analyses, drafts, analysed, submitted>>

\* No token, a refusal, an error or no answer, the call having been taken or not.
SubmissionFails(s) ==
    /\ s.pc \in {"put", "upload", "configure", "configured"}
    /\ form' = [form EXCEPT !.failed = TRUE, !.saving = FALSE]
    /\ submissions' = submissions \ {s}
    /\ UNCHANGED <<signedIn, analyses, drafts, strayed, analysed, submitted>>

\* "Start over" in the review, "Submit another" at the end.
StartOver ==
    /\ form.phase \in {"review", "done"}
    /\ form' = Fresh
    /\ UNCHANGED <<signedIn, analyses, submissions, drafts, strayed, analysed, submitted>>

SubmitNext ==
    \/ SignInOrOut
    \/ \E u \in Repos \cup {"none", "bad"} : EditUrl(u)
    \/ Analyze
    \/ \E a \in analyses : AnalysisToken(a) \/ DraftTool(a) \/ AnalysisSettles(a)
    \/ AnimationEnds \/ Gated \/ EditFields \/ EditPrice
    \/ SubmitForReview
    \/ \E s \in submissions :
          \/ SubmissionToken(s) \/ PutListing(s) \/ UploadRepo(s)
          \/ Configure(s) \/ SubmissionDone(s) \/ SubmissionFails(s)
    \/ StartOver

SubmitSpec == SubmitInit /\ [][SubmitNext]_submitVars

--------------------------------------------------------------------------------

\* The page says "Submitted for review" of a tool only when its listing, its repository and
\* its processing are at the server, whatever went on behind "Start over"; and a tool whose
\* listing one repository gave is never made of another, unless such a submission moved the
\* page away while an address was being analysed (analyze, the gate of the review and
\* submitForReview, each with what it captured).
SubmittedAsReviewed ==
    /\ (form.phase = "done" /\ form.record # 0) =>
          LET tool == drafts[form.record] IN tool.listed /\ tool.uploaded # "none" /\ tool.queued
    /\ ~strayed => \A n \in DraftIds : drafts[n].uploaded \in {"none", drafts[n].repo}
================================================================================
