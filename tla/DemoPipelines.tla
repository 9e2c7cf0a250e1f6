----------------------------- MODULE DemoPipelines ------------------------------
(***************************************************************************)
(* The interactive demos of ten tools (apps/web/src/components/demos).     *)
(*                                                                         *)
(* A demo calls no service: its buttons start pipelines, chains of timers  *)
(* that end by changing what it shows.  Starting a pipeline clears the     *)
(* timers of the one before (usePipelineRunner and the demos' own          *)
(* clearTimers); Reset clears them too.  The steps of a pipeline, which    *)
(* only its progress bar shows, are left out.  Timers fire in the order in *)
(* which they are due, and files are read asynchronously.  When they are   *)
(* due is counted from the start of the pipeline.                          *)
(***************************************************************************)
EXTENDS Naturals, FiniteSets, Sequences, FiniteSetsExt

CONSTANTS
    MaxFiles,    \* files that VectorVault takes (3)
    MaxTour,     \* steps that a tour may have (5)
    Errors,      \* errors that SentinelLog streams
    MaxCount,    \* bound: usage recorded
    MaxReadings  \* bound: choices of files being read at once

ASSUME PipelinesAssumption ==
    /\ MaxFiles >= 2
    /\ {MaxFiles, MaxTour, Errors} \subseteq Nat \ {0}
    /\ {MaxCount, MaxReadings} \subseteq Nat

VARIABLES
    play,     \* the demo: tool, phase, timers that wait, what says it is running, results, inputs
    readings, \* choices of files being read
    tracks    \* history: reset and not used since, pipelines cut off, results out of step

pipeVars == <<play, readings, tracks>>

\* Milliseconds that the steps of each channel of NotifyStack take.
Channels == [email |-> 320, sms |-> 280, push |-> 190, inapp |-> 45]

\* A demo as it is mounted.  "items" are the steps of a tour, the files of VectorVault or
\* the data of DataPour; "count" is what has come of them.
Opened(tool) ==
    [tool |-> tool, timers |-> {}, busy |-> {}, done |-> {}, count |-> 0,
     items |-> IF tool = "onboardkit" THEN 2 ELSE 0,
     given |-> CASE tool = "authforge" -> {"email"}
                 [] tool = "notifystack" -> DOMAIN Channels
                 [] tool = "formcraft" -> {"inquiry", "priority", "inquiry!"}
                 [] OTHER -> {},
     phase |-> CASE tool = "authforge" -> "login"
                 [] tool \in {"paypipe", "cronpilot"} -> "configure"
                 [] tool \in {"mailmerge", "notifystack"} -> "compose"
                 [] tool = "sentinellog" -> "capture"
                 [] tool \in {"formcraft", "onboardkit"} -> "edit"
                 [] tool \in {"datapour", "vectorvault"} -> "upload"]

Demos == {"authforge", "cronpilot", "datapour", "formcraft", "mailmerge", "notifystack",
          "onboardkit", "paypipe", "sentinellog", "vectorvault"}

PipelinesInit ==
    /\ \E tool \in Demos : play = Opened(tool)
    /\ readings = 0
    /\ tracks = [fresh |-> TRUE, cut |-> {}, raced |-> FALSE]

--------------------------------------------------------------------------------
(* The panels, one for each phase of a demo that has something to click      *)

At(tool, phase) == play.tool = tool /\ play.phase = phase

PlanPanel     == At("paypipe", "configure")
CustomerPanel == At("paypipe", "customer")
LoginScreen   == At("authforge", "login")
SentScreen    == At("authforge", "sent")
Dashboard     == At("authforge", "dashboard")
JobPanel      == At("cronpilot", "configure")
MonitorPanel  == At("cronpilot", "monitor")
CapturePanel  == At("sentinellog", "capture")
IssuesPanel   == At("sentinellog", "issues")
FieldsPanel   == At("formcraft", "edit")
FormPanel     == At("formcraft", "preview")
ComposePanel  == At("mailmerge", "compose")
TrackPanel    == At("mailmerge", "track")
TourEditor    == At("onboardkit", "edit")
TourPanel     == At("onboardkit", "preview")
ChannelsPanel == At("notifystack", "compose")
ReportPanel   == At("notifystack", "report")
DataPanel     == At("datapour", "upload")
ResultsPanel  == At("datapour", "results")
UploadPhase   == At("vectorvault", "upload")

\* The query bar comes with the index, and stays.
QueryBar == play.tool = "vectorvault" /\ "ready" \in play.done

\* An input changes; no timer is touched.
Input(demo) ==
    /\ play' = demo
    /\ tracks' = [tracks EXCEPT !.fresh = FALSE]
    /\ UNCHANGED readings

\* One timer after the other from now on, which change what their names say.
Later(now, names) == {[what |-> names[i], at |-> now + i] : i \in DOMAIN names}

After(names) == Later(0, names)

\* What the timers that wait will change.
Awaited == {t.what : t \in play.timers}

\* run, with the clear that it begins with: whatever was to end later does not.
Start(demo, timers) ==
    /\ play' = [demo EXCEPT !.timers = timers]
    /\ tracks' = [tracks EXCEPT !.fresh = FALSE,
                                !.cut = @ \cup (play.busy \cap Awaited)]
    /\ UNCHANGED readings

Flipped(x) == IF x \in play.given THEN play.given \ {x} ELSE play.given \cup {x}

Toggle(x) == Input([play EXCEPT !.given = Flipped(x)])

--------------------------------------------------------------------------------
(* PayPipe: one runner for the plan, the subscription and the usage          *)

Meter == PlanPanel /\ Toggle("metered")

CreatePlan ==
    /\ PlanPanel
    /\ Start([play EXCEPT !.phase = "creating", !.done = @ \ {"live"}], After(<<"live">>))

Subscribe ==
    /\ CustomerPanel /\ "subscribed" \notin play.busy
    /\ Start([play EXCEPT !.busy = @ \cup {"subscribed"}, !.done = @ \ {"subscribed"}], After(<<"subscribed">>))

RecordUsage ==
    /\ CustomerPanel /\ "metered" \in play.given /\ "used" \notin play.busy
    /\ play.count < MaxCount
    /\ Start([play EXCEPT !.busy = @ \cup {"used"}], After(<<"used">>))

--------------------------------------------------------------------------------
(* AuthForge                                                                *)

EditEmail == LoginScreen /\ Toggle("email")

\* The address may still be edited while the link is being sent.
SendMagicLink ==
    /\ LoginScreen /\ "email" \in play.given /\ "sent" \notin play.busy
    /\ Start([play EXCEPT !.busy = {"sent"}], After(<<"sent">>))

OpenMagicLink ==
    /\ SentScreen /\ "verified" \notin play.busy
    /\ Start([play EXCEPT !.busy = {"verified"}], After(<<"verified">>))

--------------------------------------------------------------------------------
(* CronPilot, SentinelLog                                                   *)

Schedule ==
    /\ JobPanel
    /\ Start([play EXCEPT !.phase = "schedule"], After(<<"scheduled">>))

\* Offered until the first error has come.
Simulate ==
    /\ CapturePanel /\ play.count = 0 /\ "errors" \notin play.busy
    /\ Start([play EXCEPT !.busy = {"errors"}], After([i \in 1..Errors |-> IF i < Errors THEN "error" ELSE "errors"]))

AnalyzeErrors ==
    /\ CapturePanel /\ play.count > 0 /\ "errors" \notin play.busy
    /\ Start([play EXCEPT !.phase = "analyze"], After(<<"grouped">>))

SendAlert ==
    /\ IssuesPanel /\ "alerted" \notin play.done
    /\ Start([play EXCEPT !.done = @ \cup {"alerted"}], After(<<"alert">>))

--------------------------------------------------------------------------------
(* FormCraft: a field, and one that shows when the first says "support"      *)

Required == [inquiry |-> "inquiry!", priority |-> "priority!"]

Fields == DOMAIN Required

ToggleRequired(f) == FieldsPanel /\ f \in play.given /\ Toggle(Required[f])

RemoveField(f) ==
    /\ FieldsPanel /\ f \in play.given
    /\ Input([play EXCEPT !.given = @ \ {f, Required[f]}])

\* The values are forgotten, the fields kept.
Blanked == play.given \ {"support", "general", "low"}

Preview ==
    /\ FieldsPanel /\ Fields \cap play.given # {}
    /\ Start([play EXCEPT !.phase = "compile", !.given = Blanked, !.done = {}], After(<<"previewed">>))

VisibleFields == {f \in Fields \cap play.given : f = "priority" => "support" \in play.given}

Filled(f) == play.given \cap (IF f = "inquiry" THEN {"support", "general"} ELSE {"low"}) # {}

FieldErrors == {f \in VisibleFields : Required[f] \in play.given /\ ~Filled(f)}

Values == {"support", "general", "", "low"}

\* The inquiry is chosen from a list, where it can be unset again; the priority by a button.
SetValue(v) ==
    /\ FormPanel
    /\ v \notin play.given
    /\ \/ v = "low" /\ "priority" \in VisibleFields /\ Input([play EXCEPT !.given = @ \cup {v}])
       \/ /\ v # "low" /\ "inquiry" \in VisibleFields
          /\ Input([play EXCEPT !.given = (@ \ {"support", "general"}) \cup ({v} \ {""})])

SubmitForm ==
    /\ FormPanel /\ "submitted" \notin play.done /\ FieldErrors = {}
    /\ Input([play EXCEPT !.done = @ \cup {"submitted"}])

--------------------------------------------------------------------------------
(* MailMerge, OnboardKit                                                    *)

SendMail ==
    /\ ComposePanel
    /\ Start([play EXCEPT !.phase = "send", !.done = {}], After(<<"delivered">>))

RemoveTourStep ==
    /\ TourEditor /\ play.items > 0
    /\ Input([play EXCEPT !.items = @ - 1])

AddTourStep ==
    /\ TourEditor /\ play.items < MaxTour
    /\ Input([play EXCEPT !.items = @ + 1])

CompileTour ==
    /\ TourEditor /\ play.items > 0
    /\ Start([play EXCEPT !.phase = "compile", !.count = 0, !.done = {}], After(<<"previewed">>))

NextTourStep ==
    /\ TourPanel /\ "toured" \notin play.done
    /\ Input(IF play.count < play.items - 1 THEN [play EXCEPT !.count = @ + 1]
             ELSE [play EXCEPT !.done = @ \cup {"toured"}])

PreviousTourStep ==
    /\ TourPanel /\ "toured" \notin play.done /\ play.count > 0
    /\ Input([play EXCEPT !.count = @ - 1])

--------------------------------------------------------------------------------
(* NotifyStack                                                              *)

ToggleChannel(c) == ChannelsPanel /\ Toggle(c)

\* Mutant: the report comes when the last step of the slowest channel does.
ReportAtLast == Max({Channels[c] : c \in play.given})

\* The report comes a while after the last channel is done.
ReportAt == Max({Channels[c] : c \in play.given}) + 400

Due == {[what |-> c, at |-> Channels[c] + 80] : c \in play.given} \cup {[what |-> "report", at |-> ReportAt]}

Notify ==
    /\ ChannelsPanel /\ play.given # {}
    /\ Start([play EXCEPT !.phase = "delivery", !.done = {}], Due)

--------------------------------------------------------------------------------
(* DataPour, VectorVault                                                    *)

\* One file (DataPour) or several are chosen; the input is shown until there is data (DataPour) or the list is full.
ReadFile ==
    /\ readings < MaxReadings
    /\ \/ DataPanel /\ play.items = 0
       \/ UploadPhase /\ play.items < MaxFiles
    /\ readings' = readings + 1
    /\ tracks' = [tracks EXCEPT !.fresh = FALSE]
    /\ UNCHANGED play

\* What was chosen lands in whatever phase the demo is by now, also after Reset: a file, which
\* is not the sample (item 1) of DataPour, or files, as many as VectorVault has room for.
FileLands ==
    /\ readings > 0
    /\ readings' = readings - 1
    /\ \/ play.tool = "datapour" /\ play' = [play EXCEPT !.items = 2]
       \/ /\ play.tool = "vectorvault"
          /\ \E n \in 1..MaxFiles :
                play' = [play EXCEPT !.items = Min({@ + n, MaxFiles}), !.given = @ \ {"samples"}]
    /\ UNCHANGED tracks

LoadSample ==
    /\ DataPanel /\ play.items = 0
    /\ Input([play EXCEPT !.items = 1])

ValidateRows ==
    /\ DataPanel /\ play.items # 0
    /\ play' = [play EXCEPT !.phase = "validate", !.count = play.items, !.timers = After(<<"results">>)]
    /\ tracks' = [tracks EXCEPT !.fresh = FALSE, !.raced = readings > 0]
    /\ UNCHANGED readings

\* There are two sample documents.
LoadSamples ==
    /\ UploadPhase /\ play.items = 0
    /\ Input([play EXCEPT !.items = 2, !.given = @ \cup {"samples"}])

RemoveFile ==
    /\ UploadPhase /\ play.items > 0
    /\ Input([play EXCEPT !.items = @ - 1])

StartProcessing ==
    /\ UploadPhase /\ play.items > 0
    /\ play' = [play EXCEPT !.phase = "processing", !.count = play.items, !.timers = After(<<"ready">>)]
    /\ tracks' = [tracks EXCEPT !.fresh = FALSE, !.raced = readings > 0]
    /\ UNCHANGED readings

EditQuery == QueryBar /\ Toggle("query")

RunQuery ==
    /\ QueryBar
    /\ "query" \in play.given /\ "answered" \notin play.busy
    /\ Start([play EXCEPT !.phase = "query", !.busy = {"answered"}, !.done = @ \ {"answered"}], After(<<"answered">>))

--------------------------------------------------------------------------------
(* Timers, Reset, leaving                                                   *)

\* The phase that a pipeline ends in.
PhaseAfter(t) ==
    CASE t = "live" -> "customer"
      [] t \in {"sent", "results", "report"} -> t
      [] t = "verified" -> "dashboard"
      [] t = "scheduled" -> "monitor"
      [] t = "grouped" -> "issues"
      [] t = "previewed" -> "preview"
      [] t = "delivered" -> "track"
      [] OTHER -> play.phase

\* startMonitor: three runs, the last of which fails and is retried.
Monitored(t) ==
    CASE t.what = "scheduled" -> Later(t.at, <<"run", "run", "failing">>)
      [] t.what = "failing" -> Later(t.at, <<"retried">>)
      [] OTHER -> {}

\* What the recipient does with a mail that was delivered.
Tracked(t) == IF t.what = "delivered" THEN Later(t.at, <<"opened", "clicked">>) ELSE {}

TimerFires(t) ==
    /\ t \in play.timers /\ \A u \in play.timers : t.at <= u.at
    /\ play' = [play EXCEPT !.timers = (@ \ {t}) \cup Monitored(t) \cup Tracked(t),
                            !.phase = PhaseAfter(t.what),
                            !.busy = @ \ {t.what},
                            !.done = @ \cup {t.what},
                            !.count = IF t.what \in {"used", "error", "errors", "run", "failing"} THEN @ + 1 ELSE @]
    /\ UNCHANGED <<readings, tracks>>

\* Inputs that Reset keeps; VectorVault has no Reset.
Kept == IF play.tool = "formcraft" THEN Blanked ELSE play.given

ResetOffered ==
    \/ CustomerPanel \/ Dashboard \/ MonitorPanel \/ IssuesPanel \/ FormPanel
    \/ TrackPanel \/ TourPanel \/ ReportPanel \/ ResultsPanel
    \/ DataPanel /\ play.items # 0
    \/ CapturePanel /\ play.count > 0 /\ "errors" \notin play.busy

\* A file being read is not called off.
Reset ==
    /\ ResetOffered
    /\ play' = [Opened(play.tool) EXCEPT !.given = Kept, !.items = IF play.tool = "onboardkit" THEN play.items ELSE @]
    /\ tracks' = [fresh |-> TRUE, cut |-> {}, raced |-> FALSE]
    /\ UNCHANGED readings

\* The other tab, and back: the demo is mounted again.
SwitchTabs ==
    /\ play' = Opened(play.tool)
    /\ readings' = 0
    /\ tracks' = [fresh |-> TRUE, cut |-> {}, raced |-> FALSE]

PipelinesNext ==
    \/ Meter \/ CreatePlan \/ Subscribe \/ RecordUsage
    \/ EditEmail \/ SendMagicLink \/ OpenMagicLink
    \/ Schedule \/ Simulate \/ AnalyzeErrors \/ SendAlert
    \/ \E f \in Fields : ToggleRequired(f) \/ RemoveField(f)
    \/ Preview \/ SubmitForm \/ (\E v \in Values : SetValue(v))
    \/ SendMail \/ RemoveTourStep \/ AddTourStep \/ CompileTour \/ NextTourStep \/ PreviousTourStep
    \/ (\E c \in DOMAIN Channels : ToggleChannel(c)) \/ Notify
    \/ ReadFile \/ FileLands \/ LoadSample \/ ValidateRows
    \/ LoadSamples \/ RemoveFile \/ StartProcessing \/ EditQuery \/ RunQuery
    \/ (\E t \in play.timers : TimerFires(t)) \/ Reset \/ SwitchTabs

--------------------------------------------------------------------------------

\* What says that it is running will end, unless another pipeline of its demo cut it off:
\* what was cut off goes on saying so until it is started again, or the demo is reset.
BusyEnds == play.busy \subseteq Awaited \cup tracks.cut

\* After Reset no timer of an earlier run changes what the demo shows (a file that was being
\* read does still land).
ResetIsFinal == tracks.fresh => play.phase = Opened(play.tool).phase /\ play.done = {} /\ play.busy = {}

\* What is shown as a result is of all the input shown: no channel is reported before it is
\* done, no issues before every error has come, no step of a tour is past its last; rows
\* and chunks are of the data shown, unless a file was being read when they were made.
ResultsMatchInput ==
    /\ ReportPanel => play.given \subseteq play.done
    /\ play.tool = "sentinellog" /\ play.phase # "capture" => play.count = Errors
    /\ TourPanel => play.count < play.items
    /\ play.tool \in {"datapour", "vectorvault"} /\ play.phase # "upload" /\ ~tracks.raced =>
           play.count = play.items

\* The demos show what their pipelines did, but for pipelines that cut one another off and
\* files still being read (usePipelineRunner, the demos' reset).
PipelinesAreSound == BusyEnds /\ ResetIsFinal /\ ResultsMatchInput
================================================================================
