----------------------------- MODULE MarketplacePage -----------------------------
(***************************************************************************)
(* The marketplace (apps/web/src/app/marketplace/MarketplaceClient.tsx):   *)
(* a search, which asks the discovery endpoint, then the list of tools,    *)
(* which it ranks itself (NlpSearch), and in development a converter       *)
(* service; quick matches while the query is typed; and a catalogue to     *)
(* browse.  None of the three keeps its calls in order: of answers that    *)
(* overlap the last to land is shown.                                      *)
(***************************************************************************)
EXTENDS NlpSearch

CONSTANTS
    Stock,     \* tools
    Queries,   \* sets of terms
    Filters,   \* category and order, chosen together here
    Fallback,  \* ALLOW_CONVERTER_CATALOG_FALLBACK
    MaxAsks    \* bound: searches, changes of the filter and of the typed query, failures

ASSUME MarketAssumption ==
    /\ Stock \subseteq [category : Categories, corpus : SUBSET Terms, requests : Nat]
    /\ \A q \in Queries : q # {} /\ q \subseteq Terms
    /\ Fallback \in BOOLEAN /\ MaxAsks \in Nat

VARIABLES
    stock,     \* the tools of the server's list, in its order
    market,    \* the discovery section: phase, query, animation, apiReady, matched
    searches,  \* fetchAndMatch calls in progress
    example,   \* the query of an example that waits for its timer
    typed,     \* the query typed, its timer, and the query of the quick matches
    previews,  \* quick match calls in progress
    browse,    \* the catalogue: filter and page chosen, those shown, loading, error
    lists,     \* fetchTools calls in progress
    crossed,   \* history: per section, whether calls overlapped
    asks       \* bound, see MaxAsks

searchVars == <<market, searches, example>>
typedVars  == <<typed, previews>>
browseVars == <<browse, lists>>
marketVars == <<stock, searchVars, typedVars, browseVars, crossed, asks>>

\* No page of the catalogue is shown.
Nothing == <<"nothing", 0>>

NoMatch == [query |-> {}, by |-> "nobody", rows |-> <<>>]

MarketInit ==
    /\ stock \in [1..3 -> Stock]
    /\ market = [phase |-> "input", query |-> {}, animated |-> FALSE, ready |-> FALSE, matched |-> NoMatch]
    /\ searches = {}
    /\ example = {}
    /\ typed = [query |-> {}, timer |-> FALSE, shows |-> {}]
    /\ previews = {}
    /\ browse = [filter |-> "all", page |-> 1, shows |-> <<"all", 1>>, loading |-> FALSE, error |-> FALSE]
    /\ lists = {}
    /\ crossed = {}
    /\ asks = 0

Ask == asks < MaxAsks /\ asks' = asks + 1

Crosses(section, others) == crossed' = IF others = {} THEN crossed ELSE crossed \cup {section}

--------------------------------------------------------------------------------
(* The search                                                              *)

Submit(query) ==
    /\ market' = [market EXCEPT !.phase = "thinking", !.query = query, !.ready = FALSE, !.animated = FALSE]
    /\ searches' = searches \cup {[query |-> query, pc |-> "discover"]}
    /\ Crosses("search", searches)

\* From the composer, or "See all" under the quick matches.
Find(query) ==
    /\ market.phase = "input" /\ Ask
    /\ Submit(query)
    /\ UNCHANGED <<stock, example, typedVars, browseVars>>

\* An example is submitted 220 ms after the click, whatever happened in between.
PickExample(query) ==
    /\ market.phase = "input" /\ example = {} /\ Ask
    /\ example' = query
    /\ UNCHANGED <<stock, market, searches, typedVars, browseVars, crossed>>

ExampleTimer ==
    /\ example # {}
    /\ example' = {}
    /\ Submit(example)
    /\ UNCHANGED <<stock, typedVars, browseVars, asks>>

Turn(s, pc) == searches' = (searches \ {s}) \cup {[s EXCEPT !.pc = pc]}

\* Whatever is on the page by now.
Matched(s, by, rows) ==
    /\ market' = [market EXCEPT !.matched = [query |-> s.query, by |-> by, rows |-> rows], !.ready = TRUE]
    /\ searches' = searches \ {s}
    /\ UNCHANGED <<stock, example, typedVars, browseVars, crossed, asks>>

\* The discovery endpoint has matches, in an order of its own.
Discovered(s) == s.pc = "discover" /\ Matched(s, "discover", <<>>)

\* No match or no answer there, or no answer from the list in development.
NextSource(s) ==
    /\ \/ s.pc = "discover" /\ Turn(s, "list")
       \/ s.pc = "list" /\ Fallback /\ Turn(s, "converter")
    /\ UNCHANGED <<stock, market, example, typedVars, browseVars, crossed, asks>>

\* A list of tools comes and is ranked here; an empty list or none at all leaves no rows.
Ranked(s) ==
    /\ s.pc \in {"list", "converter"}
    /\ Matched(s, "page", MatchTools(s.query, stock)) \/ Matched(s, "nobody", <<>>)

\* The steps of the animation.
ThinkingEnds ==
    /\ market.phase = "thinking" /\ ~market.animated
    /\ market' = [market EXCEPT !.animated = TRUE]
    /\ UNCHANGED <<stock, searches, example, typedVars, browseVars, crossed, asks>>

ResultsReady == market.animated /\ market.ready

ShowResults ==
    /\ market.phase = "thinking" /\ ResultsReady
    /\ market' = [market EXCEPT !.phase = "results"]
    /\ UNCHANGED <<stock, searches, example, typedVars, browseVars, crossed, asks>>

\* "Refine search" keeps the query, "New search" does not; the matches stay.
LeaveResults(query) ==
    /\ market.phase = "results"
    /\ market' = [market EXCEPT !.phase = "input", !.query = query]
    /\ UNCHANGED <<stock, searches, example, typedVars, browseVars, crossed, asks>>

--------------------------------------------------------------------------------
(* Quick matches                                                           *)

\* A key is pressed: the timer starts again, and too short a query shows nothing; calls
\* for what was typed before go on.
Type(query) ==
    /\ market.phase = "input" /\ Ask
    /\ typed' = [query |-> query, timer |-> query # {}, shows |-> IF query = {} THEN {} ELSE typed.shows]
    /\ Crosses("preview", previews)
    /\ UNCHANGED <<stock, searchVars, previews, browseVars>>

\* 120 ms later.
PreviewTimer ==
    /\ typed.timer
    /\ typed' = [typed EXCEPT !.timer = FALSE]
    /\ previews' = previews \cup {typed.query}
    /\ UNCHANGED <<stock, searchVars, browseVars, crossed, asks>>

\* The matches come, or an error in their place, for whatever is typed by now.
PreviewLands(query) ==
    /\ query \in previews
    /\ \E shows \in {query, {}} : typed' = [typed EXCEPT !.shows = shows]
    /\ previews' = previews \ {query}
    /\ UNCHANGED <<stock, searchVars, browseVars, crossed, asks>>

--------------------------------------------------------------------------------
(* The catalogue                                                           *)

\* fetchTools, from chosen, what is selected.
FetchTools(chosen, filter, page) ==
    /\ market.phase = "input" /\ Ask
    /\ browse' = [chosen EXCEPT !.loading = TRUE, !.error = FALSE]
    /\ lists' = lists \cup {<<filter, page>>}
    /\ Crosses("browse", lists)
    /\ UNCHANGED <<stock, searchVars, typedVars>>

\* handleCategory and handleSort.
ChooseFilter(filter) == FetchTools([browse EXCEPT !.filter = filter, !.page = 1], filter, 1)

ChoosePage(page) ==
    /\ browse.shows # Nothing /\ page # browse.shows[2]
    /\ FetchTools([browse EXCEPT !.page = page], browse.filter, page)

RetryTools == browse.error /\ FetchTools(browse, browse.filter, browse.page)

\* "Reset filters" under an empty catalogue forgets the page, though it fetches the first.
ResetFilters == ~browse.loading /\ FetchTools([browse EXCEPT !.filter = "all"], "all", 1)

\* The server's page, the converter's, or an empty one.
ToolsLand(l) ==
    /\ l \in lists
    /\ browse' = [browse EXCEPT !.shows = l, !.loading = FALSE]
    /\ lists' = lists \ {l}
    /\ UNCHANGED <<stock, searchVars, typedVars, crossed, asks>>

ToolsFail(l) ==
    /\ l \in lists
    /\ browse' = [browse EXCEPT !.shows = Nothing, !.loading = FALSE, !.error = TRUE]
    /\ lists' = lists \ {l}
    /\ UNCHANGED <<stock, searchVars, typedVars, crossed, asks>>

MarketNext ==
    \/ \E q \in Queries : Find(q) \/ PickExample(q) \/ PreviewLands(q)
    \/ ExampleTimer
    \/ \E s \in searches : Discovered(s) \/ NextSource(s) \/ Ranked(s)
    \/ ThinkingEnds \/ ShowResults
    \/ \E q \in {{}, market.query} : LeaveResults(q)
    \/ \E q \in Queries \cup {{}} : Type(q)
    \/ PreviewTimer
    \/ \E f \in Filters : ChooseFilter(f)
    \/ \E n \in 1..2 : ChoosePage(n)
    \/ RetryTools \/ ResetFilters
    \/ \E l \in lists : ToolsLand(l) \/ ToolsFail(l)

MarketSpec == MarketInit /\ [][MarketNext]_marketVars

--------------------------------------------------------------------------------

\* The results are those of the query above them, and when the page ranked them itself
\* they are a ranking of the list it was given.
ResultsAreSound ==
    (market.phase = "results" /\ "search" \notin crossed) =>
        /\ market.matched.query = market.query
        /\ market.matched.by = "page" => IsRanking(market.matched.rows, market.query, stock)

\* Quick matches are of what is typed once its call is over, or there are none.
PreviewIsCurrent ==
    (~typed.timer /\ previews = {} /\ "preview" \notin crossed) => typed.shows \in {typed.query, {}}

\* The catalogue shows the chosen filter.
BrowseIsCurrent ==
    (lists = {} /\ "browse" \notin crossed) => browse.shows = Nothing \/ browse.shows[1] = browse.filter

\* Each of the three sections shows what was last asked of it, soundly ranked, as long as
\* its calls do not overlap (fetchAndMatch, handleLiveChange, fetchTools; matchTools).
ShowsWhatWasAsked == ResultsAreSound /\ PreviewIsCurrent /\ BrowseIsCurrent
================================================================================
