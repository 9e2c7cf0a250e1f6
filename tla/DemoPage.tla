-------------------------------- MODULE DemoPage --------------------------------
(***************************************************************************)
(* The playground of a tool's page (apps/web/src/components/demo), and its *)
(* budget of free calls in one browser session.                            *)
(*                                                                         *)
(* The number of calls is kept in the session's storage and counts only    *)
(* calls that succeeded, when they do.  A converter-hosted tool runs once  *)
(* by itself, 700 ms after its page opens.  Calls of a page that has been  *)
(* left go on.  Files are read asynchronously into the form they were      *)
(* chosen for.                                                             *)
(***************************************************************************)
EXTENDS Naturals, FiniteSets

CONSTANTS
    SessionLimit,  \* SESSION_LIMIT
    MaxVisits,     \* bound: pages opened
    MaxReads       \* bound: files being read

ASSUME DemoAssumption == SessionLimit \in Nat \ {0} /\ {MaxVisits, MaxReads} \subseteq Nat

VARIABLES
    demo,    \* the page: its kind of input, calls used as it knows, running, error, timer
    entry,   \* what the form holds, per field
    reading, \* the forms, as they were when a file was chosen, whose file is being read
    trials,  \* calls in flight, of this page and of those left
    stored,  \* calls used, in the session's storage
    past,    \* history: whether a page has run by itself, the calls in flight of pages left
    edited,  \* history: the text last typed, and whether that was while a file was read
    visits   \* bound, see MaxVisits

demoVars == <<demo, entry, reading, trials, stored, past, edited, visits>>

\* A tool with fields, one hosted by the converter too, and one that takes JSON, a text
\* (or an address), a file (or an image).
Kinds == {"fields", "converter", "json", "text", "file"}

\* smartDefault fills what it can; JSON may be malformed, and Run does not wait for it.
Texts(kind) == IF kind = "json" THEN {"malformed", "typed"} ELSE {"", "typed", "other"}

Page(kind, used) ==
    [kind |-> kind, used |-> used, running |-> FALSE, error |-> "none", timer |-> kind = "converter"]

BlankForm(kind) ==
    [text |-> IF kind = "converter" THEN "typed" ELSE IF kind = "json" THEN "malformed" ELSE "", file |-> "none"]

DemoInit ==
    /\ \E kind \in Kinds :
          /\ demo = Page(kind, 0) /\ entry = BlankForm(kind)
          /\ past = [auto |-> kind = "converter", left |-> 0]
          /\ edited = [text |-> BlankForm(kind).text, raced |-> FALSE]
    /\ reading = {}
    /\ trials = [here |-> 0, away |-> 0]
    /\ stored = 0
    /\ visits = 1

Limited(used) == used >= SessionLimit

--------------------------------------------------------------------------------
(* The form                                                                *)

\* Fields are disabled while a call runs and once the calls are used up.
Enabled == ~demo.running /\ ~Limited(demo.used)

TypeText(text) ==
    /\ Enabled /\ demo.kind # "file" /\ text # entry.text
    /\ entry' = [entry EXCEPT !.text = text]
    /\ edited' = [text |-> text, raced |-> reading # {}]
    /\ UNCHANGED <<demo, reading, trials, stored, past, visits>>

ChooseFile ==
    /\ Enabled /\ demo.kind \notin {"json", "text"} /\ Cardinality(reading) < MaxReads
    /\ reading' = reading \cup {entry}
    /\ UNCHANGED <<demo, entry, trials, stored, past, edited, visits>>

\* Mutant: the file of one field empties the others.
OnlyFile(form) == [BlankForm(demo.kind) EXCEPT !.file = "read"]

\* A tool with fields has one object for all: the one rendered when the file was chosen,
\* with the file.
WithFile(form) == [form EXCEPT !.file = "read"]

\* A file that cannot be read, or is too large, leaves the form as it is.
FileRead(form) ==
    /\ form \in reading
    /\ reading' = reading \ {form}
    /\ entry' \in {WithFile(form), entry}
    /\ UNCHANGED <<demo, trials, stored, past, edited, visits>>

--------------------------------------------------------------------------------
(* Calls                                                                   *)

\* runDemo: over the limit it only says so; a payload that cannot be built ends the run
\* at once, whatever else is in flight.
RunDemo(page) ==
    IF Limited(page.used) THEN demo' = [page EXCEPT !.error = "limit"] /\ trials' = trials
    ELSE IF page.kind = "json" /\ entry.text = "malformed"
    THEN demo' = [page EXCEPT !.running = FALSE, !.error = "failed"] /\ trials' = trials
    ELSE /\ demo' = [page EXCEPT !.running = TRUE, !.error = "none"]
         /\ trials' = [trials EXCEPT !.here = @ + 1]

\* Mutant: the button is not disabled while a call runs.
NotLimited == ~Limited(demo.used)

RunEnabled == ~demo.running /\ ~Limited(demo.used)

Run ==
    /\ RunEnabled
    /\ RunDemo(demo)
    /\ UNCHANGED <<entry, reading, stored, past, edited, visits>>

\* The timer of the page that runs by itself does not look whether a call runs.
AutoRun ==
    /\ demo.timer
    /\ RunDemo([demo EXCEPT !.timer = FALSE])
    /\ UNCHANGED <<entry, reading, stored, past, edited, visits>>

\* A successful call is counted.  The last free one changes runDemo, for which the effect
\* clears its timer and does not set it again.
Succeeds ==
    /\ trials.here > 0
    /\ trials' = [trials EXCEPT !.here = @ - 1]
    /\ stored' = stored + 1
    /\ demo' = [demo EXCEPT !.used = stored', !.running = FALSE,
                            !.timer = @ /\ (Limited(stored') = Limited(demo.used))]
    /\ UNCHANGED <<entry, reading, past, edited, visits>>

\* An error of the tool, or no answer.
Fails ==
    /\ trials.here > 0
    /\ trials' = [trials EXCEPT !.here = @ - 1]
    /\ demo' = [demo EXCEPT !.running = FALSE, !.error = "failed"]
    /\ UNCHANGED <<entry, reading, stored, past, edited, visits>>

\* A page that has been left cannot show its answer, but counts it.
EndsAway ==
    /\ trials.away > 0
    /\ trials' = [trials EXCEPT !.away = @ - 1]
    /\ stored' \in {stored, stored + 1}
    /\ UNCHANGED <<demo, entry, reading, past, edited, visits>>

\* Another tool's page: a new form, and the count as it is stored now.
Visit(kind) ==
    /\ visits < MaxVisits
    /\ visits' = visits + 1
    /\ demo' = Page(kind, stored) /\ entry' = BlankForm(kind)
    /\ reading' = {}
    /\ trials' = [here |-> 0, away |-> trials.here + trials.away]
    /\ past' = [auto |-> past.auto \/ kind = "converter", left |-> past.left + trials.here]
    /\ edited' = [text |-> BlankForm(kind).text, raced |-> FALSE]
    /\ stored' = stored

DemoNext ==
    \/ \E text \in Texts(demo.kind) : TypeText(text)
    \/ ChooseFile
    \/ \E form \in reading : FileRead(form)
    \/ Run \/ AutoRun \/ Succeeds \/ Fails \/ EndsAway
    \/ \E kind \in Kinds : Visit(kind)

DemoSpec == DemoInit /\ [][DemoNext]_demoVars

--------------------------------------------------------------------------------

\* The session makes at most as many successful calls as its limit says, but for one more,
\* once, of a page that runs by itself, and one more for each call that was in flight when its
\* page was left; the page never shows more calls used than were, nor too few by more than
\* those left in flight.
DemoLimit ==
    /\ stored <= SessionLimit + past.left + (IF past.auto THEN 1 ELSE 0)
    /\ demo.used <= stored /\ stored <= demo.used + past.left

\* What was typed last is what the form holds, unless it was typed while a file was being
\* read: the form then becomes what it was when the file was chosen, and the text is lost.
EditsKept == ~edited.raced => entry.text = edited.text

\* The playground counts its calls, by hand, by timer or left behind, and keeps what is typed,
\* with the exceptions above (DemoRunner, DynamicForm).
DemoIsSound == DemoLimit /\ EditsKept
================================================================================
