------------------------------- MODULE NlpSearch -------------------------------
(***************************************************************************)
(* How the front end ranks a list of tools for a query when the discovery  *)
(* endpoint finds none (matchTools in apps/web/src/lib/nlpSearch.ts).      *)
(*                                                                         *)
(* A query is the set of the terms found in it, a tool its category, the   *)
(* terms its name, texts and category hold, and its number of requests.    *)
(***************************************************************************)
EXTENDS Naturals, FiniteSets, Sequences

CONSTANTS
    TopResults,   \* 8
    FallbackSize  \* 6

ASSUME SearchAssumption == {TopResults, FallbackSize} \subseteq Nat \ {0}

\* A keyword of two words and one of one word, tagged with a category each, and a word
\* that is no keyword.
Terms == {"object detection", "sentiment", "invoices"}
TermCategory == [t \in {"object detection", "sentiment"} |->
                    IF t = "sentiment" THEN "nlp" ELSE "computer_vision"]
Categories == {"nlp", "computer_vision"}

\* Two for each word of a keyword, and one for each word of the query.
TermScore == [t \in Terms |-> CASE t = "object detection" -> 6 [] t = "sentiment" -> 3 [] OTHER -> 1]

TagCategories(query) == {TermCategory[t] : t \in query \cap DOMAIN TermCategory}

\* What a term counts for, if the query and the tool both hold it.
Worth(t, tool, query) == IF t \in query \cap tool.corpus THEN TermScore[t] ELSE 0

ScoreOf(tool, query) ==
    (IF tool.category \in TagCategories(query) THEN 4 ELSE 0)
        + Worth("object detection", tool, query) + Worth("sentiment", tool, query)
        + Worth("invoices", tool, query)

\* Math.round of a percentage.
Percent(score, max) == (200 * score + max) \div (2 * max)

\* Mutant: tools are ordered by requests, those with as many by score.
ByRequests(tools, query, i, j) ==
    LET si == ScoreOf(tools[i], query) sj == ScoreOf(tools[j], query)
        ri == tools[i].requests rj == tools[j].requests
    IN ri > rj \/ (ri = rj /\ si > sj) \/ (ri = rj /\ si = sj /\ i < j)

\* The order of the sort, which keeps what is equal in place.
Before(tools, query, i, j) ==
    LET si == ScoreOf(tools[i], query) sj == ScoreOf(tools[j], query)
    IN \/ si > sj
       \/ si = sj /\ tools[i].requests > tools[j].requests
       \/ si = sj /\ tools[i].requests = tools[j].requests /\ i < j

Smaller(m, n) == IF m < n THEN m ELSE n

\* Positions of the tools that score, the place of each among them, and who has a place.
Scored(query, tools) == {i \in DOMAIN tools : ScoreOf(tools[i], query) > 0}

PlaceOf(query, tools, i) == 1 + Cardinality({j \in Scored(query, tools) : Before(tools, query, j, i)})

ToolAt(query, tools, k) == CHOOSE i \in Scored(query, tools) : PlaceOf(query, tools, i) = k

\* Rows of the position of a tool in the list and its score.
MatchTools(query, tools) ==
    LET best  == tools[ToolAt(query, tools, 1)]
        row(k) == [tool |-> ToolAt(query, tools, k),
                   score |-> Percent(ScoreOf(tools[ToolAt(query, tools, k)], query), ScoreOf(best, query))]
    IN IF query = {} \/ tools = <<>> THEN <<>>
       ELSE IF Scored(query, tools) = {}
       THEN [k \in 1..Smaller(FallbackSize, Len(tools)) |-> [tool |-> k, score |-> 0]]
       ELSE [k \in 1..Smaller(TopResults, Cardinality(Scored(query, tools))) |-> row(k)]

--------------------------------------------------------------------------------

\* What a ranking owes its reader: no tool twice, the best first with 100 and none worse
\* in front of a better one, nothing left out that is better than what is there, and
\* something to look at unless there is nothing.
IsRanking(rows, query, tools) ==
    LET score(k) == ScoreOf(tools[rows[k].tool], query)
        listed   == {rows[k].tool : k \in DOMAIN rows}
    IN /\ query # {} /\ tools # <<>> => rows # <<>>
       /\ Cardinality(listed) = Len(rows)
       /\ \A k \in DOMAIN rows : rows[k].score \in 0..100
       /\ \A k, l \in DOMAIN rows : k < l => score(k) >= score(l) /\ rows[k].score >= rows[l].score
       /\ \A k \in DOMAIN rows, i \in DOMAIN tools \ listed : score(k) >= ScoreOf(tools[i], query)
       /\ rows # <<>> => rows[1].score = (IF score(1) = 0 THEN 0 ELSE 100)
================================================================================
