----------------------------- MODULE WebPagesProofs -----------------------------
(***************************************************************************)
(* The pages that anybody may open, for any list of tools, any number of  *)
(* searches, calls, visits, files and pipelines, and all pages together.   *)
(***************************************************************************)
EXTENDS WebPages, AccountPagesProofs, SequenceTheorems

(***************************************************************************)
(* The ranking.                                                            *)
(***************************************************************************)

LEMMA ScoreIsNat == ASSUME NEW item, NEW query PROVE ScoreOf(item, query) \in Nat
<1>1. ASSUME NEW t \in Terms PROVE TermScore[t] \in Nat
  <2>1. CASE t = "object detection"
    BY <2>1 DEF TermScore, Terms
  <2>2. CASE t = "sentiment"
    BY <2>2 DEF TermScore, Terms
  <2>3. CASE t = "invoices"
    BY <2>3 DEF TermScore, Terms
  <2>4. QED
    BY <2>1, <2>2, <2>3 DEF Terms
<1>2. ASSUME NEW t \in Terms PROVE Worth(t, item, query) \in Nat
  BY <1>1, <1>2 DEF Worth
<1>3. /\ Worth("object detection", item, query) \in Nat
      /\ Worth("sentiment", item, query) \in Nat /\ Worth("invoices", item, query) \in Nat
  BY <1>2 DEF Terms
<1> DEFINE bonus == IF item.category \in TagCategories(query) THEN 4 ELSE 0
           a == Worth("object detection", item, query)
           b == Worth("sentiment", item, query)
           c == Worth("invoices", item, query)
<1>4. bonus \in Nat
  OBVIOUS
<1>5. ScoreOf(item, query) = bonus + a + b + c
  BY DEF ScoreOf
<1> HIDE DEF bonus, a, b, c
<1>6. a \in Nat /\ b \in Nat /\ c \in Nat
  BY <1>3 DEF a, b, c
<1>7. QED
  BY <1>4, <1>5, <1>6

LEMMA DivIsMonotonic ==
    ASSUME NEW x \in Nat, NEW y \in Nat, x <= y, NEW d \in Nat \ {0}
    PROVE  x \div d <= y \div d /\ x \div d \in Nat
OBVIOUS

\* Percentages are percentages, are in the order of the scores, and end at 100.
LEMMA PercentRanks ==
    ASSUME NEW max \in Nat \ {0}, NEW a \in 0..max, NEW b \in 0..max, a <= b
    PROVE  /\ Percent(b, max) \in 0..100 /\ Percent(a, max) <= Percent(b, max)
           /\ Percent(max, max) = 100
<1>1. (200 * max + max) \div (2 * max) = 100
  OBVIOUS
<1>2. Percent(max, max) = 100
  BY <1>1 DEF Percent
<1>3. ASSUME NEW x \in 0..max, NEW y \in 0..max, x <= y
      PROVE  Percent(x, max) <= Percent(y, max) /\ Percent(x, max) \in Nat
  <2>1. x \in Nat /\ y \in Nat /\ max \in Nat /\ max > 0
    OBVIOUS
  <2>2. 200 * x + max \in Nat /\ 200 * y + max \in Nat /\ 2 * max \in Nat /\ 2 * max # 0
    BY <2>1
  <2>3. 200 * x + max <= 200 * y + max
    BY <1>3, <2>1
  <2>4. QED
    BY <2>2, <2>3, DivIsMonotonic DEF Percent
<1>4. Percent(b, max) <= 100 /\ Percent(b, max) \in Nat
  <2>1. max \in 0..max /\ b <= max
    OBVIOUS
  <2>2. Percent(b, max) <= Percent(max, max) /\ Percent(b, max) \in Nat
    BY <1>3, <2>1
  <2>3. QED
    BY <1>2, <2>2
<1>5. Percent(a, max) <= Percent(b, max)
  BY <1>3
<1>6. QED
  BY <1>2, <1>4, <1>5

ToolLists == Seq([category : Categories, corpus : SUBSET Terms, requests : Nat])

\* The list in front of one.
Ahead(query, list, i) == {j \in Scored(query, list) : Before(list, query, j, i)}

\* The sort has one outcome.
LEMMA BeforeIsOrder ==
    ASSUME NEW query, NEW list \in ToolLists,
           NEW i \in DOMAIN list, NEW j \in DOMAIN list, NEW k \in DOMAIN list
    PROVE  /\ ~Before(list, query, i, i)
           /\ Before(list, query, i, j) /\ Before(list, query, j, k) => Before(list, query, i, k)
           /\ i = j \/ Before(list, query, i, j) \/ Before(list, query, j, i)
           /\ Before(list, query, i, j) => ScoreOf(list[i], query) >= ScoreOf(list[j], query)
<1>1. \A n \in DOMAIN list : list[n].requests \in Nat /\ ScoreOf(list[n], query) \in Nat /\ n \in Nat
  <2>1. \A n \in DOMAIN list : list[n] \in [category : Categories, corpus : SUBSET Terms, requests : Nat]
                               /\ n \in Nat
    <3> DEFINE T == [category : Categories, corpus : SUBSET Terms, requests : Nat]
    <3>1. list \in Seq(T)
      BY DEF ToolLists
    <3> HIDE DEF T
    <3>2. \A n \in DOMAIN list : list[n] \in T /\ n \in Nat
      BY <3>1
    <3>3. QED
      BY <3>2 DEF T
  <2>2. QED
    BY <2>1, ScoreIsNat
<1> DEFINE si == ScoreOf(list[i], query)
           sj == ScoreOf(list[j], query)
           sk == ScoreOf(list[k], query)
           ri == list[i].requests
           rj == list[j].requests
           rk == list[k].requests
<1>2. /\ Before(list, query, i, i) <=> si > si \/ (si = si /\ ri > ri) \/ (si = si /\ ri = ri /\ i < i)
      /\ Before(list, query, i, j) <=> si > sj \/ (si = sj /\ ri > rj) \/ (si = sj /\ ri = rj /\ i < j)
      /\ Before(list, query, j, i) <=> sj > si \/ (sj = si /\ rj > ri) \/ (sj = si /\ rj = ri /\ j < i)
      /\ Before(list, query, j, k) <=> sj > sk \/ (sj = sk /\ rj > rk) \/ (sj = sk /\ rj = rk /\ j < k)
      /\ Before(list, query, i, k) <=> si > sk \/ (si = sk /\ ri > rk) \/ (si = sk /\ ri = rk /\ i < k)
  BY DEF Before
<1>3. /\ si \in Nat /\ sj \in Nat /\ sk \in Nat /\ ri \in Nat /\ rj \in Nat /\ rk \in Nat
      /\ i \in Nat /\ j \in Nat /\ k \in Nat
  BY <1>1
<1> HIDE DEF si, sj, sk, ri, rj, rk
<1>4. /\ ~Before(list, query, i, i)
      /\ Before(list, query, i, j) /\ Before(list, query, j, k) => Before(list, query, i, k)
      /\ i = j \/ Before(list, query, i, j) \/ Before(list, query, j, i)
      /\ Before(list, query, i, j) => si >= sj
  BY <1>2, <1>3
<1>5. QED
  BY <1>4 DEF si, sj

\* The places of the list that score are the numbers up to how many they are.
LEMMA PlacesAreNumbers ==
    ASSUME NEW query, NEW list \in ToolLists
    PROVE  /\ IsFiniteSet(Scored(query, list)) /\ Cardinality(Scored(query, list)) \in Nat
           /\ \A i \in Scored(query, list) :
                  PlaceOf(query, list, i) \in 1..Cardinality(Scored(query, list))
           /\ \A i, j \in Scored(query, list) :
                  Before(list, query, i, j) => PlaceOf(query, list, i) < PlaceOf(query, list, j)
           /\ \A k \in 1..Cardinality(Scored(query, list)) :
                  \E i \in Scored(query, list) : PlaceOf(query, list, i) = k
<1> DEFINE S == Scored(query, list)
           N == Cardinality(S)
<1>1. S \subseteq DOMAIN list /\ DOMAIN list = 1..Len(list) /\ Len(list) \in Nat
  BY DEF Scored, ToolLists
<1>2. IsFiniteSet(S) /\ N \in Nat
  <2>1. IsFiniteSet(1..Len(list))
    BY <1>1, FS_Interval
  <2>2. QED
    BY <1>1, <2>1, FS_Subset, FS_CardinalityType
<1>3. \A i \in S : Ahead(query, list, i) \in SUBSET (S \ {i}) /\ PlaceOf(query, list, i) = 1 + Cardinality(Ahead(query, list, i))
  BY <1>1, BeforeIsOrder DEF Ahead, PlaceOf
<1> HIDE DEF S, N
<1>4. ASSUME NEW i \in S PROVE PlaceOf(query, list, i) \in 1..N
  <2>1. IsFiniteSet(S \ {i}) /\ Cardinality(S \ {i}) = N - 1
    BY <1>2, FS_RemoveElement DEF N
  <2>2. /\ IsFiniteSet(Ahead(query, list, i))
        /\ Cardinality(Ahead(query, list, i)) <= N - 1
    BY <1>3, <2>1, FS_Subset
  <2>3. Cardinality(Ahead(query, list, i)) \in Nat
    BY <2>2, FS_CardinalityType
  <2>4. QED
    BY <1>2, <1>3, <2>2, <2>3
<1>5. ASSUME NEW i \in S, NEW j \in S, Before(list, query, i, j)
      PROVE  PlaceOf(query, list, i) < PlaceOf(query, list, j)
  <2>1. i \notin Ahead(query, list, i)
    BY <1>3
  <2>2. Ahead(query, list, i) \cup {i} \subseteq Ahead(query, list, j)
    BY <1>1, <1>5, BeforeIsOrder DEF Ahead, S
  <2>3. IsFiniteSet(Ahead(query, list, i)) /\ IsFiniteSet(Ahead(query, list, j))
    BY <1>2, <1>3, FS_Subset
  <2>4. Cardinality(Ahead(query, list, i) \cup {i}) = Cardinality(Ahead(query, list, i)) + 1
    BY <2>1, <2>3, FS_AddElement
  <2>5. Cardinality(Ahead(query, list, i) \cup {i}) <= Cardinality(Ahead(query, list, j))
    BY <2>2, <2>3, FS_Subset
  <2>6. Cardinality(Ahead(query, list, i)) \in Nat /\ Cardinality(Ahead(query, list, j)) \in Nat
    BY <2>3, FS_CardinalityType
  <2>7. QED
    BY <1>3, <2>4, <2>5, <2>6
<1>6. ASSUME NEW k \in 1..N PROVE \E i \in S : PlaceOf(query, list, i) = k
  <2> DEFINE f == [i \in S |-> PlaceOf(query, list, i)]
  <2>1. f \in [S -> 1..N]
    BY <1>4
  <2>2. ASSUME NEW i \in S, NEW j \in S, i # j PROVE f[i] # f[j]
    <3>1. Before(list, query, i, j) \/ Before(list, query, j, i)
      BY <1>1, <2>2, BeforeIsOrder
    <3>2. f[i] < f[j] \/ f[j] < f[i]
      BY <1>5, <3>1
    <3>3. f[i] \in Nat /\ f[j] \in Nat
      BY <2>1
    <3>4. QED
      BY <3>2, <3>3
  <2>3. IsFiniteSet(1..N) /\ Cardinality(1..N) = N
    BY <1>2, FS_Interval
  <2> HIDE DEF f
  <2>4. f \in Injection(S, 1..N)
    BY <2>1, <2>2 DEF Injection, IsInjective
  <2>5. f \in Surjection(S, 1..N)
    BY <2>3, <2>4, FS_Injection DEF N
  <2>6. PICK i \in S : f[i] = k
    BY <2>5 DEF Surjection
  <2>7. QED
    BY <2>6 DEF f
<1>7. QED
  BY <1>2, <1>4, <1>5, <1>6 DEF S, N

\* Whoever has a place is found by it, and comes after those with smaller places.
LEMMA ToolsHavePlaces ==
    ASSUME NEW query, NEW list \in ToolLists,
           NEW k \in 1..Cardinality(Scored(query, list))
    PROVE  /\ ToolAt(query, list, k) \in Scored(query, list)
           /\ PlaceOf(query, list, ToolAt(query, list, k)) = k
           /\ \A i \in Scored(query, list) :
                  /\ PlaceOf(query, list, i) = k => i = ToolAt(query, list, k)
                  /\ k < PlaceOf(query, list, i) => Before(list, query, ToolAt(query, list, k), i)
<1> DEFINE S == Scored(query, list)
<1>1. \E i \in S : PlaceOf(query, list, i) = k
  BY PlacesAreNumbers
<1>2. ToolAt(query, list, k) \in S /\ PlaceOf(query, list, ToolAt(query, list, k)) = k
  BY <1>1 DEF ToolAt
<1>3. Cardinality(S) \in Nat /\ \A i \in S : PlaceOf(query, list, i) \in Nat
  BY PlacesAreNumbers
<1>4. S \subseteq DOMAIN list
  BY DEF Scored
<1>5. ASSUME NEW i \in S, NEW j \in S
      PROVE  \/ i = j
             \/ PlaceOf(query, list, i) < PlaceOf(query, list, j) /\ Before(list, query, i, j)
             \/ PlaceOf(query, list, j) < PlaceOf(query, list, i) /\ Before(list, query, j, i)
  <2>1. i = j \/ Before(list, query, i, j) \/ Before(list, query, j, i)
    BY <1>4, BeforeIsOrder
  <2>2. QED
    BY <2>1, PlacesAreNumbers
<1> HIDE DEF S
<1>6. ASSUME NEW i \in S
      PROVE  /\ PlaceOf(query, list, i) = k => i = ToolAt(query, list, k)
             /\ k < PlaceOf(query, list, i) => Before(list, query, ToolAt(query, list, k), i)
  <2>1. k \in Nat /\ PlaceOf(query, list, i) \in Nat
    BY <1>2, <1>3
  <2>2. QED
    BY <1>2, <1>5, <2>1
<1>7. QED
  BY <1>2, <1>6 DEF S

\* What makes rows a ranking.
LEMMA RankingFrom ==
    ASSUME NEW rows, NEW query, NEW list, NEW m \in Nat \ {0}, DOMAIN rows = 1..m, Len(rows) = m,
           Cardinality({rows[k].tool : k \in DOMAIN rows}) = Len(rows),
           \A k \in 1..m : rows[k].score \in 0..100,
           \A k, l \in 1..m : k < l =>
               /\ ScoreOf(list[rows[k].tool], query) >= ScoreOf(list[rows[l].tool], query)
               /\ rows[k].score >= rows[l].score,
           \A k \in 1..m, i \in DOMAIN list \ {rows[k].tool : k \in DOMAIN rows} :
               ScoreOf(list[rows[k].tool], query) >= ScoreOf(list[i], query),
           rows[1].score = (IF ScoreOf(list[rows[1].tool], query) = 0 THEN 0 ELSE 100)
    PROVE  IsRanking(rows, query, list)
<1> DEFINE listed == {rows[k].tool : k \in DOMAIN rows}
<1>1. rows # <<>>
  <2>1. 1 \in DOMAIN rows /\ DOMAIN <<>> = {}
    OBVIOUS
  <2>2. QED
    BY <2>1
<1>2. \A k \in DOMAIN rows : rows[k].score \in 0..100
  <2> SUFFICES ASSUME NEW k \in DOMAIN rows PROVE rows[k].score \in 0..100
    OBVIOUS
  <2>1. k \in 1..m
    OBVIOUS
  <2>2. QED
    BY <2>1, \A l \in 1..m : rows[l].score \in 0..100
<1>3. \A k, l \in DOMAIN rows : k < l =>
         /\ ScoreOf(list[rows[k].tool], query) >= ScoreOf(list[rows[l].tool], query)
         /\ rows[k].score >= rows[l].score
  OBVIOUS
<1>4. \A k \in DOMAIN rows, i \in DOMAIN list \ listed :
         ScoreOf(list[rows[k].tool], query) >= ScoreOf(list[i], query)
  OBVIOUS
<1>5. Cardinality(listed) = Len(rows)
  OBVIOUS
<1> HIDE DEF listed
<1>6. QED
  <2> USE DEF listed
  <2>1. /\ query # {} /\ list # <<>> => rows # <<>>
        /\ rows # <<>> =>
               rows[1].score = (IF ScoreOf(list[rows[1].tool], query) = 0 THEN 0 ELSE 100)
    BY <1>1
  <2>2. QED
    BY <1>2, <1>3, <1>4, <1>5, <2>1, Zenon DEF IsRanking

\* The rows when some tool scores: no tool twice, the best ones first, percentages in order.
LEMMA ScoredRowsRank ==
    ASSUME NEW query, NEW list \in ToolLists, query # {}, list # <<>>,
           Scored(query, list) # {}
    PROVE  IsRanking(MatchTools(query, list), query, list)
<1> DEFINE S == Scored(query, list)
           N == Cardinality(S)
           m == Smaller(TopResults, N)
           at(k) == ToolAt(query, list, k)
           value(i) == ScoreOf(list[i], query)
           rows == [k \in 1..m |-> [tool |-> at(k), score |-> Percent(value(at(k)), value(at(1)))]]
           listed == {rows[k].tool : k \in DOMAIN rows}
<1>1. MatchTools(query, list) = rows
  BY DEF MatchTools
<1>2. N \in Nat \ {0} /\ IsFiniteSet(S)
  BY PlacesAreNumbers, FS_EmptySet
<1>3. m \in Nat \ {0} /\ m <= N /\ (m = N \/ m = TopResults) /\ 1..m \subseteq 1..N
  BY <1>2, SearchAssumption DEF Smaller
<1>4. \A i : value(i) \in Nat
  BY ScoreIsNat
<1>5. S \subseteq DOMAIN list /\ (\A i \in S : value(i) > 0) /\ (\A i \in DOMAIN list \ S : value(i) = 0)
  BY <1>4 DEF Scored
<1>6. \A k \in 1..N : at(k) \in S /\ PlaceOf(query, list, at(k)) = k
  BY ToolsHavePlaces
<1>7. ASSUME NEW k \in 1..N, NEW i \in S, k < PlaceOf(query, list, i)
      PROVE  value(at(k)) >= value(i)
  BY <1>5, <1>6, <1>7, ToolsHavePlaces, BeforeIsOrder
<1> HIDE DEF S, N, m
<1>8. \A k, l \in 1..m : k < l => value(at(k)) >= value(at(l))
  BY <1>3, <1>6, <1>7
<1>9. DOMAIN rows = 1..m /\ rows \in Seq([tool : DOMAIN list, score : 0..100]) /\ Len(rows) = m
      /\ \A k \in 1..m : rows[k].tool = at(k) /\ rows[k].score = Percent(value(at(k)), value(at(1)))
                           /\ rows[k].score \in 0..100
  <2>1. \A k \in 1..m : at(k) \in DOMAIN list /\ Percent(value(at(k)), value(at(1))) \in 0..100
    <3> SUFFICES ASSUME NEW k \in 1..m PROVE Percent(value(at(k)), value(at(1))) \in 0..100
      BY <1>3, <1>5, <1>6
    <3>1. 1 \in 1..m /\ k \in 1..N /\ 1 \in 1..N
      BY <1>3
    <3>2. k = 1 \/ 1 < k
      OBVIOUS
    <3>3. value(at(k)) <= value(at(1))
      BY <1>4, <1>8, <3>1, <3>2
    <3>4. value(at(1)) \in Nat \ {0} /\ value(at(k)) \in 0..value(at(1))
          /\ value(at(k)) <= value(at(k))
      BY <1>4, <1>5, <1>6, <3>1, <3>3
    <3> HIDE DEF value, at
    <3>5. QED
      BY <3>4, PercentRanks
  <2>2. DOMAIN rows = 1..m /\ Len(rows) = m
    BY <1>3, <2>1
  <2>3. rows \in Seq([tool : DOMAIN list, score : 0..100])
    BY <1>3, <2>1
  <2>4. \A k \in 1..m : rows[k] = [tool |-> at(k), score |-> Percent(value(at(k)), value(at(1)))]
    OBVIOUS
  <2> HIDE DEF rows, at, value
  <2>5. QED
    BY <2>1, <2>2, <2>3, <2>4
<1>10. Cardinality(listed) = Len(rows)
  <2> DEFINE f == [k \in 1..m |-> at(k)]
  <2>1. listed = {at(k) : k \in 1..m}
    BY <1>9
  <2> HIDE DEF listed, rows
  <2>2. f \in Bijection(1..m, listed)
    <3>1. \A k, l \in 1..m : f[k] = f[l] => k = l
      BY <1>3, <1>6
    <3>2. f \in [1..m -> listed] /\ \A i \in listed : \E k \in 1..m : f[k] = i
      BY <2>1
    <3> HIDE DEF f
    <3>3. QED
      BY <3>1, <3>2 DEF Bijection, Injection, Surjection, IsInjective
  <2>3. IsFiniteSet(1..m) /\ Cardinality(1..m) = m
    BY <1>3, FS_Interval
  <2> HIDE DEF f
  <2>4. ExistsBijection(1..m, listed)
    BY <2>2 DEF ExistsBijection
  <2>5. Cardinality(listed) = m
    BY <2>3, <2>4, FS_Bijection
  <2>6. QED
    BY <1>9, <2>5
<1>11. ASSUME NEW k \in 1..m, NEW i \in DOMAIN list \ listed PROVE value(at(k)) >= value(i)
  <2>1. CASE i \in S
    <3>1. PlaceOf(query, list, i) \in 1..N
      BY <2>1, PlacesAreNumbers DEF S, N
    <3>2. i = at(PlaceOf(query, list, i))
      BY <2>1, <3>1, ToolsHavePlaces DEF S, N
    <3>3. PlaceOf(query, list, i) \notin 1..m
      BY <1>9, <1>11, <3>2
    <3>4. k < PlaceOf(query, list, i)
      BY <1>2, <1>3, <3>1, <3>3
    <3>5. QED
      BY <1>3, <1>7, <2>1, <3>4
  <2>2. CASE i \notin S
    BY <1>4, <1>5, <1>11, <2>2
  <2>3. QED
    BY <2>1, <2>2
<1>12. ASSUME NEW k \in 1..m, NEW l \in 1..m, k < l
       PROVE  rows[k].score >= rows[l].score
  <2>1. 1 \in 1..m /\ 1 \in 1..N /\ k \in 1..N /\ l \in 1..N
    BY <1>3
  <2>2. value(at(l)) <= value(at(k)) /\ (k = 1 \/ 1 < k)
    BY <1>4, <1>8, <1>12
  <2>3. value(at(k)) <= value(at(1))
    BY <1>4, <1>8, <2>1, <2>2
  <2>4. /\ value(at(1)) \in Nat \ {0} /\ value(at(k)) \in 0..value(at(1)) /\ value(at(l)) \in 0..value(at(1))
    BY <1>4, <1>5, <1>6, <2>1, <2>2, <2>3
  <2>5. Percent(value(at(l)), value(at(1))) <= Percent(value(at(k)), value(at(1)))
    <3> HIDE DEF value, at
    <3>1. QED
      BY <2>2, <2>4, PercentRanks
  <2>6. QED
    BY <1>9, <2>5
<1>13. rows[1].score = 100 /\ value(at(1)) # 0 /\ 1 \in 1..m
  <2>1. 1 \in 1..m /\ 1 \in 1..N
    BY <1>3
  <2>2. value(at(1)) \in Nat \ {0} /\ value(at(1)) \in 0..value(at(1))
    BY <1>4, <1>5, <1>6, <2>1
  <2>3. Percent(value(at(1)), value(at(1))) = 100
    <3> HIDE DEF value, at
    <3>1. QED
      BY <2>2, PercentRanks
  <2>4. QED
    BY <1>9, <2>1, <2>2, <2>3
<1>14. ASSUME NEW k \in 1..m, NEW l \in 1..m, k < l
       PROVE  ScoreOf(list[rows[k].tool], query) >= ScoreOf(list[rows[l].tool], query)
  BY <1>8, <1>9, <1>14
<1>15. ASSUME NEW k \in 1..m, NEW i \in DOMAIN list \ listed
       PROVE  ScoreOf(list[rows[k].tool], query) >= ScoreOf(list[i], query)
  BY <1>9, <1>11, <1>15
<1>16. ScoreOf(list[rows[1].tool], query) # 0
  BY <1>9, <1>13
<1>17. rows[1].score = (IF ScoreOf(list[rows[1].tool], query) = 0 THEN 0 ELSE 100)
  BY <1>13, <1>16
<1>18. IsRanking(rows, query, list)
  <2> HIDE DEF rows
  <2>1. QED
    BY <1>3, <1>9, <1>10, <1>12, <1>14, <1>15, <1>17, RankingFrom
<1> HIDE DEF rows
<1>19. QED
  BY <1>1, <1>18

\* What matchTools lists is a ranking of the list it is given, for every query and list.
THEOREM MatchToolsRanks ==
    ASSUME NEW query, NEW list \in ToolLists
    PROVE  IsRanking(MatchTools(query, list), query, list)
<1>1. CASE query = {} \/ list = <<>>
  <2>1. MatchTools(query, list) = <<>>
    BY <1>1 DEF MatchTools
  <2>2. {MatchTools(query, list)[k].tool : k \in DOMAIN MatchTools(query, list)} = {}
    BY <2>1
  <2>3. Cardinality({}) = 0
    BY FS_EmptySet
  <2>4. QED
    BY <1>1, <2>1, <2>2, <2>3 DEF IsRanking
<1>2. CASE query # {} /\ list # <<>> /\ Scored(query, list) = {}
  <2> DEFINE m == Smaller(FallbackSize, Len(list))
             rows == [k \in 1..m |-> [tool |-> k, score |-> 0]]
             listed == {rows[k].tool : k \in DOMAIN rows}
  <2>1. MatchTools(query, list) = rows
    BY <1>2 DEF MatchTools
  <2>2. m \in Nat \ {0} /\ 1..m \subseteq DOMAIN list
    <3>1. Len(list) \in Nat \ {0} /\ DOMAIN list = 1..Len(list)
      BY <1>2 DEF ToolLists
    <3>2. QED
      BY <3>1, SearchAssumption DEF Smaller
  <2>3. \A i \in DOMAIN list : ScoreOf(list[i], query) = 0
    BY <1>2, ScoreIsNat DEF Scored
  <2> HIDE DEF m
  <2>4. DOMAIN rows = 1..m /\ rows \in Seq([tool : 1..m, score : {0}]) /\ Len(rows) = m
        /\ (\A k \in 1..m : rows[k].tool = k /\ rows[k].score = 0) /\ listed = 1..m /\ rows # <<>>
    BY <2>2
  <2>5. Cardinality(listed) = Len(rows)
    BY <2>2, <2>4, FS_Interval, 1 \in Int, m \in Int, Cardinality(1..m) = m
  <2>6. \A k \in 1..m : ScoreOf(list[rows[k].tool], query) = 0
    BY <2>2, <2>3, <2>4
  <2>7. IsRanking(rows, query, list)
    <3>1. 1 \in 1..m
      BY <2>2
    <3> HIDE DEF rows
    <3>2. QED
      <4>1. \A k \in 1..m : rows[k].score \in 0..100
        <5>1. 0 \in 0..100
          OBVIOUS
        <5>2. ASSUME NEW k \in 1..m PROVE rows[k].score = 0
          BY <2>4
        <5>3. QED
          BY <5>1, <5>2
      <4>2. \A k, l \in 1..m :
               /\ ScoreOf(list[rows[k].tool], query) >= ScoreOf(list[rows[l].tool], query)
               /\ rows[k].score >= rows[l].score
        <5> SUFFICES ASSUME NEW k \in 1..m, NEW l \in 1..m
                     PROVE  /\ ScoreOf(list[rows[k].tool], query) >= ScoreOf(list[rows[l].tool], query)
                            /\ rows[k].score >= rows[l].score
          OBVIOUS
        <5>1. /\ rows[k].score = 0 /\ rows[l].score = 0
              /\ ScoreOf(list[rows[k].tool], query) = 0 /\ ScoreOf(list[rows[l].tool], query) = 0
          BY <2>4, <2>6
        <5>2. QED
          BY <5>1
      <4>3. \A k \in 1..m, i \in DOMAIN list : ScoreOf(list[rows[k].tool], query) >= ScoreOf(list[i], query)
        BY <2>3, <2>6
      <4>4. rows[1].score = (IF ScoreOf(list[rows[1].tool], query) = 0 THEN 0 ELSE 100)
        BY <2>4, <2>6, <3>1
      <4>5. QED
        BY <2>2, <2>4, <2>5, <4>1, <4>2, <4>3, <4>4, RankingFrom
  <2> HIDE DEF rows
  <2>8. QED
    BY <2>1, <2>7
<1>3. QED
  BY <1>1, <1>2, ScoredRowsRank

(***************************************************************************)
(* The marketplace.                                                        *)
(***************************************************************************)

Query == Queries \cup {{}}

MarketTypes ==
    /\ stock \in ToolLists
    /\ {"phase", "query", "animated", "ready", "matched"} \subseteq DOMAIN market
    /\ \A s \in searches : {"query", "pc"} \subseteq DOMAIN s
    /\ typed \in [query : Query, timer : BOOLEAN, shows : Query]
    /\ {"filter", "page", "shows", "loading", "error"} \subseteq DOMAIN browse

SoundlyMatched ==
    /\ market.matched.query = market.query
    /\ market.matched.by = "page" => IsRanking(market.matched.rows, market.query, stock)

\* Until searches overlap, the one in progress is of the query above the animation, which
\* waits for it.
SearchIsAwaited ==
    /\ \A s \in searches : /\ searches = {s} /\ s.query = market.query
                           /\ market.phase = "thinking" /\ ~market.ready
    /\ market.phase = "results" \/ (market.phase = "thinking" /\ market.ready) => SoundlyMatched

\* Until quick matches overlap, the one in progress is of what is typed.
PreviewIsAwaited ==
    /\ previews \subseteq {typed.query}
    /\ typed.timer => previews = {}
    /\ ~typed.timer /\ previews = {} => typed.shows \in {typed.query, {}}

\* Until fetches overlap, they are of the chosen filter.
BrowseIsAwaited ==
    /\ \A l \in lists : l[1] = browse.filter
    /\ lists = {} => browse.shows = Nothing \/ browse.shows[1] = browse.filter

MarketInv ==
    /\ MarketTypes
    /\ "search" \notin crossed => SearchIsAwaited
    /\ "preview" \notin crossed => PreviewIsAwaited
    /\ "browse" \notin crossed => BrowseIsAwaited


SearchPart  == "search" \notin crossed => SearchIsAwaited
PreviewPart == "preview" \notin crossed => PreviewIsAwaited
BrowsePart  == "browse" \notin crossed => BrowseIsAwaited

\* A section that a step leaves alone stays as it is.
LEMMA SectionsKept ==
    ASSUME MarketInv, stock' = stock, crossed \subseteq crossed'
    PROVE  /\ UNCHANGED <<market, searches>> => SearchPart'
           /\ UNCHANGED typedVars => PreviewPart'
           /\ UNCHANGED browseVars => BrowsePart'
<1>1. UNCHANGED <<market, searches>> => SearchPart'
  <2>1. SUFFICES ASSUME UNCHANGED <<market, searches>>, "search" \notin crossed' PROVE SearchIsAwaited'
    BY DEF SearchPart
  <2>2. SearchIsAwaited
    BY <2>1 DEF MarketInv
  <2>3. SoundlyMatched' <=> SoundlyMatched
    BY <2>1 DEF SoundlyMatched
  <2>4. QED
    BY <2>1, <2>2, <2>3 DEF SearchIsAwaited
<1>2. UNCHANGED typedVars => PreviewPart'
  BY DEF MarketInv, PreviewPart, PreviewIsAwaited, typedVars
<1>3. UNCHANGED browseVars => BrowsePart'
  BY DEF MarketInv, BrowsePart, BrowseIsAwaited, browseVars
<1>4. QED
  BY <1>1, <1>2, <1>3

\* A submitted search.
LEMMA SubmitKeeps ==
    ASSUME MarketInv, stock' = stock, NEW q, Submit(q)
    PROVE  /\ SearchPart' /\ crossed \subseteq crossed'
           /\ {"phase", "query", "animated", "ready", "matched"} \subseteq DOMAIN market'
           /\ \A s \in searches' : {"query", "pc"} \subseteq DOMAIN s
<1>1. /\ market'.phase = "thinking" /\ market'.query = q /\ market'.ready = FALSE
      /\ {"phase", "query", "animated", "ready", "matched"} \subseteq DOMAIN market'
  BY DEF Submit, MarketInv, MarketTypes
<1> DEFINE new == [query |-> q, pc |-> "discover"]
<1>2. new.query = q /\ {"query", "pc"} \subseteq DOMAIN new
  OBVIOUS
<1>3. searches' = searches \cup {new}
  BY DEF Submit
<1> HIDE DEF new
<1>4. \A s \in searches' : {"query", "pc"} \subseteq DOMAIN s
  BY <1>2, <1>3 DEF MarketInv, MarketTypes
<1>5. crossed \subseteq crossed' /\ ("search" \notin crossed' => searches = {})
  BY DEF Submit, Crosses
<1>6. "search" \notin crossed' => SearchIsAwaited'
  BY <1>1, <1>2, <1>3, <1>5 DEF SearchIsAwaited
<1>7. QED
  BY <1>1, <1>4, <1>5, <1>6 DEF SearchPart

\* A search that ends.
LEMMA MatchedKeeps ==
    ASSUME MarketInv, NEW s \in searches, NEW by, NEW rows, Matched(s, by, rows),
           by = "page" => IsRanking(rows, s.query, stock)
    PROVE  MarketInv'
<1>1. UNCHANGED <<stock, typed, previews, browse, lists, crossed>>
  BY DEF Matched, typedVars, browseVars
<1> DEFINE found == [query |-> s.query, by |-> by, rows |-> rows]
<1>2. found.query = s.query /\ found.by = by /\ found.rows = rows
  OBVIOUS
<1>3. market' = [market EXCEPT !.matched = found, !.ready = TRUE] /\ searches' = searches \ {s}
  BY DEF Matched
<1> HIDE DEF found
<1>4. /\ market'.phase = market.phase /\ market'.query = market.query /\ market'.matched = found
      /\ {"phase", "query", "animated", "ready", "matched"} \subseteq DOMAIN market'
  BY <1>3 DEF MarketInv, MarketTypes
<1>5. MarketTypes'
  BY <1>1, <1>3, <1>4 DEF MarketInv, MarketTypes
<1>6. ASSUME "search" \notin crossed' PROVE SearchIsAwaited'
  <2>1. searches = {s} /\ s.query = market.query
    BY <1>1, <1>6 DEF MarketInv, SearchIsAwaited
  <2>2. searches' = {}
    BY <1>3, <2>1
  <2>3. SoundlyMatched'
    BY <1>1, <1>2, <1>4, <2>1 DEF SoundlyMatched
  <2>4. QED
    BY <2>2, <2>3 DEF SearchIsAwaited
<1>7. PreviewPart' /\ BrowsePart'
  BY <1>1, SectionsKept DEF typedVars, browseVars
<1>8. QED
  BY <1>5, <1>6, <1>7 DEF MarketInv, PreviewPart, BrowsePart

\* A fetch of the catalogue.
LEMMA FetchKeeps ==
    ASSUME MarketInv, NEW chosen, NEW f, NEW p, FetchTools(chosen, f, p),
           DOMAIN chosen = DOMAIN browse, chosen.filter = f
    PROVE  MarketInv'
<1>1. UNCHANGED <<stock, market, searches, typed, previews>>
  BY DEF FetchTools, searchVars, typedVars
<1>2. browse' = [chosen EXCEPT !.loading = TRUE, !.error = FALSE] /\ lists' = lists \cup {<<f, p>>}
  BY DEF FetchTools
<1>3. DOMAIN browse' = DOMAIN browse /\ browse'.filter = f
  BY <1>2 DEF MarketInv, MarketTypes
<1>4. crossed \subseteq crossed' /\ ("browse" \notin crossed' => lists = {})
  BY DEF FetchTools, Crosses
<1>5. MarketTypes'
  BY <1>1, <1>3 DEF MarketInv, MarketTypes
<1>6. BrowsePart'
  <2>1. SUFFICES ASSUME "browse" \notin crossed' PROVE BrowseIsAwaited'
    BY DEF BrowsePart
  <2>2. lists' = {<<f, p>>} /\ <<f, p>>[1] = f
    BY <1>2, <1>4, <2>1
  <2>3. QED
    BY <1>3, <2>2 DEF BrowseIsAwaited
<1>7. SearchPart' /\ PreviewPart'
  BY <1>1, <1>4, SectionsKept DEF typedVars
<1>8. QED
  BY <1>5, <1>6, <1>7 DEF MarketInv, SearchPart, PreviewPart, BrowsePart

\* A step that only turns the page of the section, or its search, to what it says.
LEMMA MarketKeeps ==
    ASSUME MarketInv, UNCHANGED <<stock, typedVars, browseVars>>, crossed \subseteq crossed',
           {"phase", "query", "animated", "ready", "matched"} \subseteq DOMAIN market',
           \A s \in searches' : {"query", "pc"} \subseteq DOMAIN s,
           SearchPart'
    PROVE  MarketInv'
<1>1. UNCHANGED <<stock, typed, previews, browse, lists>>
  BY DEF typedVars, browseVars
<1>2. MarketTypes'
  BY <1>1 DEF MarketInv, MarketTypes
<1>3. PreviewPart' /\ BrowsePart'
  BY <1>1, SectionsKept DEF typedVars, browseVars
<1>4. QED
  BY <1>2, <1>3 DEF MarketInv, SearchPart, PreviewPart, BrowsePart

LEMMA SearchActionsKeep ==
    ASSUME MarketInv,
           \/ \E q \in Queries : Find(q) \/ PickExample(q)
           \/ ExampleTimer
           \/ \E s \in searches : Discovered(s) \/ NextSource(s) \/ Ranked(s)
           \/ ThinkingEnds \/ ShowResults
           \/ \E q \in {{}, market.query} : LeaveResults(q)
    PROVE  MarketInv'
<1>a. /\ {"phase", "query", "animated", "ready", "matched"} \subseteq DOMAIN market
      /\ \A s \in searches : {"query", "pc"} \subseteq DOMAIN s
      /\ stock \in ToolLists
  BY DEF MarketInv, MarketTypes
<1>1. ASSUME NEW q \in Queries, Find(q) PROVE MarketInv'
  BY <1>1, SubmitKeeps, MarketKeeps DEF Find
<1>2. ASSUME NEW q \in Queries, PickExample(q) PROVE MarketInv'
  <2>1. UNCHANGED <<stock, market, searches, crossed, typedVars, browseVars>>
    BY <1>2 DEF PickExample
  <2>2. QED
    BY <1>a, <2>1, SectionsKept, MarketKeeps
<1>3. CASE ExampleTimer
  BY <1>3, SubmitKeeps, MarketKeeps DEF ExampleTimer
<1>4. ASSUME NEW s \in searches, Discovered(s) PROVE MarketInv'
  BY <1>4, MatchedKeeps DEF Discovered
<1>5. ASSUME NEW s \in searches, NextSource(s) PROVE MarketInv'
  <2>1. PICK pc : searches' = (searches \ {s}) \cup {[s EXCEPT !.pc = pc]}
    BY <1>5 DEF NextSource, Turn
  <2>2. UNCHANGED <<stock, market, crossed, typedVars, browseVars>>
    BY <1>5 DEF NextSource
  <2> DEFINE new == [s EXCEPT !.pc = pc]
  <2>3. DOMAIN new = DOMAIN s /\ new.query = s.query
    BY <1>a
  <2>4. searches' = (searches \ {s}) \cup {new}
    BY <2>1
  <2> HIDE DEF new
  <2>5. \A r \in searches' : {"query", "pc"} \subseteq DOMAIN r
    BY <1>a, <2>3, <2>4
  <2>6. ASSUME "search" \notin crossed' PROVE SearchIsAwaited'
    <3>1. SearchIsAwaited
      BY <2>2, <2>6 DEF MarketInv
    <3>2. searches = {s} /\ s.query = market.query /\ market.phase = "thinking" /\ ~market.ready
      BY <3>1 DEF SearchIsAwaited
    <3>3. searches' = {new}
      BY <2>4, <3>2
    <3>4. QED
      BY <2>2, <2>3, <3>2, <3>3 DEF SearchIsAwaited
  <2>7. QED
    BY <1>a, <2>2, <2>5, <2>6, MarketKeeps DEF SearchPart
<1>6. ASSUME NEW s \in searches, Ranked(s) PROVE MarketInv'
  <2>1. IsRanking(MatchTools(s.query, stock), s.query, stock)
    BY <1>a, MatchToolsRanks
  <2>2. CASE Matched(s, "page", MatchTools(s.query, stock))
    BY <2>1, <2>2, MatchedKeeps
  <2>3. CASE Matched(s, "nobody", <<>>)
    BY <2>3, MatchedKeeps
  <2>4. QED
    BY <1>6, <2>2, <2>3 DEF Ranked
<1>7. CASE ThinkingEnds
  <2>1. UNCHANGED <<stock, searches, crossed, typedVars, browseVars>> /\ market' = [market EXCEPT !.animated = TRUE]
    BY <1>7 DEF ThinkingEnds
  <2>2. /\ DOMAIN market' = DOMAIN market /\ market'.phase = market.phase /\ market'.query = market.query
        /\ market'.ready = market.ready /\ market'.matched = market.matched
    BY <1>a, <2>1
  <2>3. SearchPart'
    BY <2>1, <2>2 DEF MarketInv, SearchPart, SearchIsAwaited, SoundlyMatched
  <2>4. QED
    BY <1>a, <2>1, <2>2, <2>3, MarketKeeps
<1>8. CASE ShowResults
  <2>1. /\ UNCHANGED <<stock, searches, crossed, typedVars, browseVars>>
        /\ market' = [market EXCEPT !.phase = "results"] /\ market.phase = "thinking" /\ market.ready
    BY <1>8 DEF ShowResults, ResultsReady
  <2>2. /\ DOMAIN market' = DOMAIN market /\ market'.phase = "results" /\ market'.query = market.query
        /\ market'.ready = market.ready /\ market'.matched = market.matched
    BY <1>a, <2>1
  <2>3. SearchPart'
    BY <2>1, <2>2 DEF MarketInv, SearchPart, SearchIsAwaited, SoundlyMatched
  <2>4. QED
    BY <1>a, <2>1, <2>2, <2>3, MarketKeeps
<1>9. ASSUME NEW q, LeaveResults(q) PROVE MarketInv'
  <2>1. /\ UNCHANGED <<stock, searches, crossed, typedVars, browseVars>>
        /\ market' = [market EXCEPT !.phase = "input", !.query = q] /\ market.phase = "results"
    BY <1>9 DEF LeaveResults
  <2>2. DOMAIN market' = DOMAIN market /\ market'.phase = "input"
    BY <1>a, <2>1
  <2>3. SearchPart'
    BY <2>1, <2>2 DEF MarketInv, SearchPart, SearchIsAwaited
  <2>4. QED
    BY <1>a, <2>1, <2>2, <2>3, MarketKeeps
<1>10. QED
  BY <1>1, <1>2, <1>3, <1>4, <1>5, <1>6, <1>7, <1>8, <1>9

LEMMA PreviewActionsKeep ==
    ASSUME MarketInv, (\E q \in Query : Type(q)) \/ PreviewTimer \/ \E q \in Queries : PreviewLands(q)
    PROVE  MarketInv'
<1>a. typed \in [query : Query, timer : BOOLEAN, shows : Query]
  BY DEF MarketInv, MarketTypes
<1>b. ASSUME UNCHANGED <<stock, market, searches, browseVars>>, crossed \subseteq crossed',
             typed' \in [query : Query, timer : BOOLEAN, shows : Query], PreviewPart'
      PROVE  MarketInv'
  <2>1. UNCHANGED <<stock, market, searches, browse, lists>>
    BY <1>b DEF browseVars
  <2>2. MarketTypes'
    BY <1>b, <2>1 DEF MarketInv, MarketTypes
  <2>3. SearchPart' /\ BrowsePart'
    BY <1>b, <2>1, SectionsKept
  <2>4. QED
    BY <1>b, <2>2, <2>3 DEF MarketInv, SearchPart, PreviewPart, BrowsePart
<1>1. ASSUME NEW q \in Query, Type(q) PROVE MarketInv'
  <2>1. /\ UNCHANGED <<stock, market, searches, browseVars>> /\ previews' = previews
        /\ typed' = [query |-> q, timer |-> q # {}, shows |-> IF q = {} THEN {} ELSE typed.shows]
    BY <1>1 DEF Type, searchVars
  <2>2. crossed \subseteq crossed' /\ ("preview" \notin crossed' => previews = {})
    BY <1>1 DEF Type, Crosses
  <2>3. /\ typed'.query = q /\ typed'.timer = (q # {})
        /\ typed'.shows = IF q = {} THEN {} ELSE typed.shows
    BY <2>1
  <2>4. typed' \in [query : Query, timer : BOOLEAN, shows : Query]
    BY <1>a, <2>1 DEF Query
  <2>5. PreviewPart'
    BY <2>1, <2>2, <2>3 DEF PreviewPart, PreviewIsAwaited
  <2>6. QED
    BY <1>b, <2>1, <2>2, <2>4, <2>5
<1>2. CASE PreviewTimer
  <2>1. /\ UNCHANGED <<stock, market, searches, browseVars, crossed>> /\ previews' = previews \cup {typed.query}
        /\ typed' = [typed EXCEPT !.timer = FALSE] /\ typed.timer
    BY <1>2 DEF PreviewTimer, searchVars
  <2>2. typed' \in [query : Query, timer : BOOLEAN, shows : Query] /\ typed'.query = typed.query /\ ~typed'.timer
    BY <1>a, <2>1
  <2>3. PreviewPart'
    BY <2>1, <2>2 DEF MarketInv, PreviewPart, PreviewIsAwaited
  <2>4. QED
    BY <1>b, <2>1, <2>2, <2>3
<1>3. ASSUME NEW q \in Queries, PreviewLands(q) PROVE MarketInv'
  <2>1. PICK shows \in {q, {}} : typed' = [typed EXCEPT !.shows = shows]
    BY <1>3 DEF PreviewLands
  <2>2. UNCHANGED <<stock, market, searches, browseVars, crossed>> /\ previews' = previews \ {q} /\ q \in previews
    BY <1>3 DEF PreviewLands, searchVars
  <2>3. /\ typed' \in [query : Query, timer : BOOLEAN, shows : Query] /\ typed'.query = typed.query
        /\ typed'.timer = typed.timer /\ typed'.shows = shows
    BY <1>a, <2>1 DEF Query
  <2>4. PreviewPart'
    BY <2>1, <2>2, <2>3 DEF MarketInv, PreviewPart, PreviewIsAwaited
  <2>5. QED
    BY <1>b, <2>2, <2>3, <2>4
<1>4. QED
  BY <1>1, <1>2, <1>3

LEMMA BrowseActionsKeep ==
    ASSUME MarketInv,
           \/ \E f \in Filters : ChooseFilter(f)
           \/ \E n \in 1..2 : ChoosePage(n)
           \/ RetryTools \/ ResetFilters
           \/ \E l \in lists : ToolsLand(l) \/ ToolsFail(l)
    PROVE  MarketInv'
<1>a. {"filter", "page", "shows", "loading", "error"} \subseteq DOMAIN browse
  BY DEF MarketInv, MarketTypes
<1>1. ASSUME NEW f \in Filters, ChooseFilter(f) PROVE MarketInv'
  <2> DEFINE chosen == [browse EXCEPT !.filter = f, !.page = 1]
  <2>1. DOMAIN chosen = DOMAIN browse /\ chosen.filter = f
    BY <1>a
  <2>2. FetchTools(chosen, f, 1)
    BY <1>1 DEF ChooseFilter
  <2> HIDE DEF chosen
  <2>3. QED
    BY <2>1, <2>2, FetchKeeps
<1>2. ASSUME NEW n, ChoosePage(n) PROVE MarketInv'
  <2> DEFINE chosen == [browse EXCEPT !.page = n]
  <2>1. DOMAIN chosen = DOMAIN browse /\ chosen.filter = browse.filter
    BY <1>a
  <2>2. FetchTools(chosen, browse.filter, n)
    BY <1>2 DEF ChoosePage
  <2> HIDE DEF chosen
  <2>3. QED
    BY <2>1, <2>2, FetchKeeps
<1>3. CASE RetryTools
  BY <1>3, FetchKeeps DEF RetryTools
<1>4. CASE ResetFilters
  <2> DEFINE chosen == [browse EXCEPT !.filter = "all"]
  <2>1. DOMAIN chosen = DOMAIN browse /\ chosen.filter = "all"
    BY <1>a
  <2>2. FetchTools(chosen, "all", 1)
    BY <1>4 DEF ResetFilters
  <2> HIDE DEF chosen
  <2>3. QED
    BY <2>1, <2>2, FetchKeeps
<1>5. ASSUME NEW l \in lists, ToolsLand(l) \/ ToolsFail(l) PROVE MarketInv'
  <2>1. UNCHANGED <<stock, market, searches, typedVars, crossed>> /\ lists' = lists \ {l}
    BY <1>5 DEF ToolsLand, ToolsFail, searchVars
  <2>2. /\ DOMAIN browse' = DOMAIN browse /\ browse'.filter = browse.filter
        /\ browse'.shows \in {l, Nothing}
    BY <1>5, <1>a DEF ToolsLand, ToolsFail
  <2>3. UNCHANGED <<typed, previews>>
    BY <2>1 DEF typedVars
  <2>4. MarketTypes'
    BY <2>1, <2>2, <2>3 DEF MarketInv, MarketTypes
  <2>5. BrowsePart'
    BY <2>1, <2>2 DEF MarketInv, BrowsePart, BrowseIsAwaited
  <2>6. SearchPart' /\ PreviewPart'
    BY <2>1, SectionsKept
  <2>7. QED
    BY <2>4, <2>5, <2>6 DEF MarketInv, SearchPart, PreviewPart, BrowsePart
<1>6. QED
  BY <1>1, <1>2, <1>3, <1>4, <1>5

\* Whatever overlaps, each of the marketplace's sections shows what was last asked of it, soundly
\* ranked, as long as its own calls do not overlap (fetchAndMatch, handleLiveChange, fetchTools).
THEOREM SectionsShowWhatWasAsked == MarketSpec => []ShowsWhatWasAsked
<1>1. MarketInit => MarketInv
  <2>1. SUFFICES ASSUME MarketInit PROVE MarketInv
    OBVIOUS
  <2>2. stock \in ToolLists
    <3> DEFINE Tool == [category : Categories, corpus : SUBSET Terms, requests : Nat]
    <3>1. stock \in [1..3 -> Tool]
      BY <2>1, MarketAssumption DEF MarketInit
    <3> HIDE DEF Tool
    <3>2. stock \in Seq(Tool)
      <4>1. stock \in UNION {[1..n -> Tool] : n \in Nat}
        <5>1. 3 \in Nat
          OBVIOUS
        <5>2. QED
          BY <3>1, <5>1
      <4>2. QED
        BY <4>1, SeqDef, Zenon
    <3>3. QED
      BY <3>2 DEF ToolLists, Tool
  <2>3. MarketTypes
    BY <2>1, <2>2 DEF MarketInit, MarketTypes, Query
  <2>4. SearchIsAwaited /\ PreviewIsAwaited
    BY <2>1 DEF MarketInit, SearchIsAwaited, PreviewIsAwaited
  <2>5. BrowseIsAwaited
    BY <2>1 DEF MarketInit, BrowseIsAwaited
  <2>6. QED
    BY <2>3, <2>4, <2>5 DEF MarketInv
<1>2. MarketInv /\ [MarketNext]_marketVars => MarketInv'
  <2>1. SUFFICES ASSUME MarketInv, [MarketNext]_marketVars PROVE MarketInv'
    OBVIOUS
  <2>2. CASE UNCHANGED marketVars
    <3>1. UNCHANGED <<stock, market, searches, typed, previews, browse, lists, crossed>>
      BY <2>2 DEF marketVars, searchVars, typedVars, browseVars
    <3>2. MarketTypes'
      BY <2>1, <3>1 DEF MarketInv, MarketTypes
    <3>3. SearchPart' /\ PreviewPart' /\ BrowsePart'
      BY <2>1, <3>1, SectionsKept DEF typedVars, browseVars
    <3>4. QED
      BY <3>2, <3>3 DEF MarketInv, SearchPart, PreviewPart, BrowsePart
  <2>3. CASE MarketNext
    BY <2>1, <2>3, SearchActionsKeep, PreviewActionsKeep, BrowseActionsKeep DEF MarketNext, Query
  <2>4. QED
    BY <2>1, <2>2, <2>3
<1>3. MarketInv => ShowsWhatWasAsked
  <2>1. SUFFICES ASSUME MarketInv PROVE ShowsWhatWasAsked
    OBVIOUS
  <2>2. ResultsAreSound
    BY <2>1 DEF MarketInv, SearchIsAwaited, SoundlyMatched, ResultsAreSound
  <2>3. PreviewIsCurrent
    BY <2>1 DEF MarketInv, PreviewIsAwaited, PreviewIsCurrent
  <2>4. BrowseIsCurrent
    BY <2>1 DEF MarketInv, BrowseIsAwaited, BrowseIsCurrent
  <2>5. QED
    BY <2>2, <2>3, <2>4 DEF ShowsWhatWasAsked
<1>4. QED
  BY <1>1, <1>2, <1>3, PTL DEF MarketSpec

(***************************************************************************)
(* The playground.                                                         *)
(***************************************************************************)

TrialForms == [text : {"", "typed", "other", "malformed"}, file : {"none", "read"}]

DemoTypes ==
    /\ demo \in [kind : Kinds, used : Nat, running : BOOLEAN,
                 error : {"none", "limit", "failed"}, timer : BOOLEAN]
    /\ trials \in [here : Nat, away : Nat]
    /\ stored \in Nat
    /\ past \in [auto : BOOLEAN, left : Nat]
    /\ entry \in TrialForms /\ reading \subseteq TrialForms
    /\ edited \in [text : {"", "typed", "other", "malformed"}, raced : BOOLEAN]

\* Only a page that has run by itself has two calls in flight, and then it says it runs.
CallsInFlight ==
    /\ demo.timer => demo.kind = "converter"
    /\ demo.kind = "converter" => past.auto
    /\ trials.here <= 2 /\ (trials.here = 2 => demo.running)
    /\ demo.kind # "converter" \/ demo.timer => trials.here <= 1 /\ (trials.here = 1 => demo.running)

\* What is in flight is counted already: the bounds hold when all of it succeeds.
CallsAreBudgeted ==
    /\ trials.away <= past.left
    /\ demo.used <= stored /\ stored + trials.away <= demo.used + past.left
    /\ stored + trials.here + trials.away <= SessionLimit + past.left + (IF past.auto THEN 1 ELSE 0)

\* Files are read into forms that hold what was typed last.
FilesKeepEdits ==
    ~edited.raced => /\ entry.text = edited.text
                     /\ \A held \in reading : held.text = edited.text

DemoInv == DemoTypes /\ CallsInFlight /\ CallsAreBudgeted /\ FilesKeepEdits

LEMMA FormTypes ==
    ASSUME NEW kind \in Kinds
    PROVE  /\ BlankForm(kind) \in TrialForms /\ Texts(kind) \subseteq {"", "typed", "other", "malformed"}
           /\ \A held \in TrialForms : WithFile(held) \in TrialForms /\ WithFile(held).text = held.text
<1>1. BlankForm(kind) \in TrialForms
  BY DEF BlankForm, TrialForms
<1>2. Texts(kind) \subseteq {"", "typed", "other", "malformed"}
  BY DEF Texts
<1>3. ASSUME NEW held \in TrialForms PROVE WithFile(held) \in TrialForms /\ WithFile(held).text = held.text
  BY DEF WithFile, TrialForms
<1>4. QED
  BY <1>1, <1>2, <1>3

LEMMA TrialTypesStep == DemoTypes /\ [DemoNext]_demoVars => DemoTypes'
<1> SUFFICES ASSUME DemoTypes, [DemoNext]_demoVars PROVE DemoTypes'
  OBVIOUS
<1>a. SessionLimit \in Nat
  BY DemoAssumption
<1>b. /\ demo \in [kind : Kinds, used : Nat, running : BOOLEAN,
                   error : {"none", "limit", "failed"}, timer : BOOLEAN]
      /\ demo.kind \in Kinds
  BY DEF DemoTypes
<1>c. trials \in [here : Nat, away : Nat] /\ stored \in Nat /\ past \in [auto : BOOLEAN, left : Nat]
  BY DEF DemoTypes
<1>d. /\ entry \in TrialForms /\ reading \subseteq TrialForms
      /\ edited \in [text : {"", "typed", "other", "malformed"}, raced : BOOLEAN]
  BY DEF DemoTypes
<1>e. ASSUME trials.here > 0, trials' = [trials EXCEPT !.here = @ - 1] PROVE trials' \in [here : Nat, away : Nat]
  BY <1>c, <1>e
<1>f. ASSUME trials.away > 0, trials' = [trials EXCEPT !.away = @ - 1] PROVE trials' \in [here : Nat, away : Nat]
  BY <1>c, <1>f
<1>1. CASE \E text \in Texts(demo.kind) : TypeText(text)
  <2>1. PICK text \in Texts(demo.kind) : TypeText(text)
    BY <1>1
  <2>2. text \in {"", "typed", "other", "malformed"}
    BY <2>1, <1>b, FormTypes
  <2>3. entry' = [entry EXCEPT !.text = text] /\ edited' = [text |-> text, raced |-> reading # {}]
    BY <2>1 DEF TypeText
  <2>4. UNCHANGED <<demo, reading, trials, stored, past>>
    BY <2>1 DEF TypeText
  <2>5. entry' \in TrialForms /\ edited' \in [text : {"", "typed", "other", "malformed"}, raced : BOOLEAN]
    BY <1>d, <2>2, <2>3 DEF TrialForms
  <2>6. QED
    BY <1>b, <1>c, <1>d, <2>4, <2>5 DEF DemoTypes
<1>2. CASE ChooseFile
  BY <1>2 DEF DemoTypes, ChooseFile
<1>3. CASE \E held \in reading : FileRead(held)
  BY <1>3, <1>b, FormTypes DEF DemoTypes, FileRead
<1>4. ASSUME NEW screen \in [kind : Kinds, used : Nat, running : BOOLEAN,
                           error : {"none", "limit", "failed"}, timer : BOOLEAN],
             RunDemo(screen), UNCHANGED <<entry, reading, stored, past, edited>>
      PROVE  DemoTypes'
  <2>1. \/ trials' = trials /\ demo' = [screen EXCEPT !.error = "limit"]
        \/ trials' = trials /\ demo' = [screen EXCEPT !.running = FALSE, !.error = "failed"]
        \/ /\ trials' = [trials EXCEPT !.here = @ + 1]
           /\ demo' = [screen EXCEPT !.running = TRUE, !.error = "none"]
    BY <1>4, Zenon DEF RunDemo
  <2>2. trials' \in [here : Nat, away : Nat]
    BY <1>c, <2>1
  <2>3. demo' \in [kind : Kinds, used : Nat, running : BOOLEAN,
                   error : {"none", "limit", "failed"}, timer : BOOLEAN]
    BY <1>4, <2>1
  <2>4. QED
    BY <1>4, <1>c, <1>d, <2>2, <2>3 DEF DemoTypes
<1>5. CASE Run
  BY <1>4, <1>5 DEF DemoTypes, Run
<1>6. CASE AutoRun
  <2> DEFINE screen == [demo EXCEPT !.timer = FALSE]
  <2>1. screen \in [kind : Kinds, used : Nat, running : BOOLEAN,
                  error : {"none", "limit", "failed"}, timer : BOOLEAN]
    BY DEF DemoTypes
  <2>2. RunDemo(screen) /\ UNCHANGED <<entry, reading, stored, past, edited>>
    BY <1>6 DEF AutoRun
  <2> HIDE DEF screen
  <2>3. QED
    BY <1>4, <2>1, <2>2
<1>7. CASE Succeeds
  <2>1. trials' \in [here : Nat, away : Nat] /\ stored' \in Nat
    BY <1>7, <1>c, <1>e DEF Succeeds
  <2> DEFINE on == demo.timer /\ (Limited(stored') = Limited(demo.used))
  <2>2. demo' = [demo EXCEPT !.used = stored', !.running = FALSE, !.timer = on]
    BY <1>7 DEF Succeeds
  <2>3. on \in BOOLEAN
    OBVIOUS
  <2> HIDE DEF on
  <2>4. QED
    BY <1>7, <2>1, <2>2, <2>3 DEF Succeeds, DemoTypes
<1>8. CASE Fails
  <2>1. trials' \in [here : Nat, away : Nat]
    BY <1>8, <1>e DEF Fails
  <2>2. QED
    BY <1>8, <1>b, <1>c, <1>d, <2>1 DEF Fails, DemoTypes
<1>9. CASE EndsAway
  <2>1. trials' \in [here : Nat, away : Nat] /\ stored' \in Nat
    BY <1>9, <1>c, <1>f DEF EndsAway
  <2>2. QED
    BY <1>9, <1>b, <1>c, <1>d, <2>1 DEF EndsAway, DemoTypes
<1>10. ASSUME NEW kind \in Kinds, Visit(kind) PROVE DemoTypes'
  <2>1. demo' \in [kind : Kinds, used : Nat, running : BOOLEAN,
                   error : {"none", "limit", "failed"}, timer : BOOLEAN]
    BY <1>10 DEF Visit, Page, DemoTypes
  <2>2. trials' \in [here : Nat, away : Nat] /\ stored' \in Nat
    <3>1. trials' = [here |-> 0, away |-> trials.here + trials.away] /\ stored' = stored
      BY <1>10 DEF Visit
    <3>2. trials.here + trials.away \in Nat
      BY <1>c
    <3>3. QED
      BY <1>c, <3>1, <3>2
  <2>3. past' \in [auto : BOOLEAN, left : Nat]
    <3>1. past' = [auto |-> past.auto \/ kind = "converter", left |-> past.left + trials.here]
      BY <1>10 DEF Visit
    <3>2. past.left + trials.here \in Nat
      BY <1>c
    <3>3. QED
      BY <3>1, <3>2
  <2>4. entry' \in TrialForms /\ reading' = {} /\ edited' = [text |-> entry'.text, raced |-> FALSE]
    BY <1>10, FormTypes DEF Visit
  <2>5. edited' \in [text : {"", "typed", "other", "malformed"}, raced : BOOLEAN]
    BY <2>4 DEF TrialForms
  <2>6. QED
    BY <2>1, <2>2, <2>3, <2>4, <2>5 DEF DemoTypes
<1>11. CASE UNCHANGED demoVars
  BY <1>11 DEF demoVars, DemoTypes
<1>12. QED
  BY <1>1, <1>2, <1>3, <1>5, <1>6, <1>7, <1>8, <1>9, <1>10, <1>11 DEF DemoNext

\* A call that starts, or does not: from the page as it is, or as its timer leaves it.
LEMMA RunKeeps ==
    ASSUME DemoInv, NEW screen, screen.kind = demo.kind, screen.used = demo.used, screen.running = demo.running,
           screen.timer \in {FALSE, demo.timer},
           screen \in [kind : Kinds, used : Nat, running : BOOLEAN,
                     error : {"none", "limit", "failed"}, timer : BOOLEAN],
           RunDemo(screen), UNCHANGED <<stored, past>>,
           \/ ~demo.running /\ screen.timer = demo.timer
           \/ demo.timer /\ ~screen.timer
    PROVE  CallsInFlight' /\ CallsAreBudgeted'
<1>a. SessionLimit \in Nat /\ past.auto \in BOOLEAN /\ past.left \in Nat
  BY DemoAssumption DEF DemoInv, DemoTypes
<1>b. /\ demo.kind \in Kinds /\ demo.used \in Nat /\ demo.running \in BOOLEAN /\ demo.timer \in BOOLEAN
      /\ trials.here \in Nat /\ trials.away \in Nat /\ stored \in Nat /\ DOMAIN trials = {"here", "away"}
  BY DEF DemoInv, DemoTypes
<1>c. CallsInFlight /\ CallsAreBudgeted
  BY DEF DemoInv
<1>1. CASE Limited(screen.used)
  <2>1. demo' = [screen EXCEPT !.error = "limit"] /\ trials' = trials
    BY <1>1 DEF RunDemo
  <2>2. demo'.kind = demo.kind /\ demo'.used = demo.used /\ demo'.running = demo.running /\ demo'.timer = screen.timer
    BY <2>1
  <2>3. QED
    BY <1>a, <1>b, <1>c, <2>1, <2>2 DEF CallsInFlight, CallsAreBudgeted
<1>2. CASE ~Limited(screen.used) /\ screen.kind = "json" /\ entry.text = "malformed"
  <2>1. demo' = [screen EXCEPT !.running = FALSE, !.error = "failed"] /\ trials' = trials
    BY <1>2 DEF RunDemo
  <2>2. demo'.kind = "json" /\ demo'.used = demo.used /\ ~demo'.running /\ demo'.timer = screen.timer
    BY <1>2, <2>1
  <2>3. ~demo.timer /\ ~demo.running
    BY <1>2, <1>c DEF CallsInFlight
  <2>4. QED
    BY <1>2, <1>a, <1>b, <1>c, <2>1, <2>2, <2>3 DEF CallsInFlight, CallsAreBudgeted
<1>3. CASE ~Limited(screen.used) /\ ~(screen.kind = "json" /\ entry.text = "malformed")
  <2>1. /\ demo' = [screen EXCEPT !.running = TRUE, !.error = "none"]
        /\ trials' = [trials EXCEPT !.here = @ + 1]
    BY <1>3 DEF RunDemo
  <2>2. /\ demo'.kind = demo.kind /\ demo'.used = demo.used /\ demo'.running /\ demo'.timer = screen.timer
        /\ trials'.here = trials.here + 1 /\ trials'.away = trials.away
    BY <1>b, <2>1
  <2>3. demo.used + 1 <= SessionLimit
    BY <1>3, <1>a, <1>b DEF Limited
  <2>4. trials.here <= 1 /\ (trials.here = 1 => demo.kind = "converter" /\ ~screen.timer)
    BY <1>b, <1>c DEF CallsInFlight
  <2>5. CallsInFlight'
    BY <1>b, <1>c, <2>2, <2>4 DEF CallsInFlight
  <2>6. CallsAreBudgeted'
    BY <1>a, <1>b, <1>c, <2>2, <2>3, <2>4 DEF CallsInFlight, CallsAreBudgeted
  <2>7. QED
    BY <2>5, <2>6
<1>4. QED
  BY <1>1, <1>2, <1>3

\* What is typed reaches the form, and files leave it there.
LEMMA EditsStep == DemoInv /\ [DemoNext]_demoVars => FilesKeepEdits'
<1> SUFFICES ASSUME DemoInv, [DemoNext]_demoVars PROVE FilesKeepEdits'
  OBVIOUS
<1>a. demo.kind \in Kinds /\ entry \in TrialForms /\ reading \subseteq TrialForms
  BY DEF DemoInv, DemoTypes
<1>b. FilesKeepEdits
  BY DEF DemoInv
<1>1. ASSUME NEW text, TypeText(text) PROVE FilesKeepEdits'
  <2>1. entry'.text = text /\ edited' = [text |-> text, raced |-> reading # {}] /\ reading' = reading
    BY <1>1, <1>a DEF TypeText, TrialForms
  <2>2. QED
    BY <2>1 DEF FilesKeepEdits
<1>2. CASE ChooseFile
  BY <1>2, <1>b DEF ChooseFile, FilesKeepEdits
<1>3. ASSUME NEW held \in reading, FileRead(held) PROVE FilesKeepEdits'
  <2>1. entry'.text \in {held.text, entry.text} /\ reading' \subseteq reading /\ edited' = edited
    BY <1>3, <1>a, FormTypes DEF FileRead
  <2>2. QED
    BY <1>b, <2>1 DEF FilesKeepEdits
<1>4. CASE Run \/ AutoRun \/ Succeeds \/ Fails \/ EndsAway \/ UNCHANGED demoVars
  <2>1. UNCHANGED <<entry, reading, edited>>
    BY <1>4 DEF Run, AutoRun, Succeeds, Fails, EndsAway, demoVars
  <2>2. QED
    BY <1>b, <2>1 DEF FilesKeepEdits
<1>5. ASSUME NEW kind \in Kinds, Visit(kind) PROVE FilesKeepEdits'
  BY <1>5 DEF Visit, FilesKeepEdits
<1>6. QED
  BY <1>1, <1>2, <1>3, <1>4, <1>5 DEF DemoNext

LEMMA CallsStep == DemoInv /\ [DemoNext]_demoVars => CallsInFlight' /\ CallsAreBudgeted'
<1> SUFFICES ASSUME DemoInv, [DemoNext]_demoVars PROVE CallsInFlight' /\ CallsAreBudgeted'
  OBVIOUS
<1>a. /\ demo \in [kind : Kinds, used : Nat, running : BOOLEAN,
                   error : {"none", "limit", "failed"}, timer : BOOLEAN]
      /\ trials \in [here : Nat, away : Nat] /\ stored \in Nat /\ past \in [auto : BOOLEAN, left : Nat]
  BY DEF DemoInv, DemoTypes
<1>b. CallsInFlight /\ CallsAreBudgeted /\ SessionLimit \in Nat
  BY DemoAssumption DEF DemoInv
<1>1. CASE \/ \E text \in Texts(demo.kind) : TypeText(text)
           \/ ChooseFile
           \/ \E held \in reading : FileRead(held)
           \/ UNCHANGED demoVars
  <2>1. UNCHANGED <<demo, trials, stored, past>>
    BY <1>1 DEF TypeText, ChooseFile, FileRead, demoVars
  <2>2. QED
    BY <1>b, <2>1 DEF CallsInFlight, CallsAreBudgeted
<1>2. CASE Run
  <2>1. RunDemo(demo) /\ ~demo.running /\ UNCHANGED <<stored, past>>
    BY <1>2 DEF Run, RunEnabled
  <2>2. QED
    BY <1>a, <2>1, RunKeeps
<1>3. CASE AutoRun
  <2> DEFINE screen == [demo EXCEPT !.timer = FALSE]
  <2>1. RunDemo(screen) /\ demo.timer /\ UNCHANGED <<stored, past>>
    BY <1>3 DEF AutoRun
  <2>2. /\ screen \in [kind : Kinds, used : Nat, running : BOOLEAN,
                     error : {"none", "limit", "failed"}, timer : BOOLEAN]
        /\ screen.kind = demo.kind /\ screen.used = demo.used /\ screen.running = demo.running /\ screen.timer = FALSE
    BY <1>a
  <2> HIDE DEF screen
  <2>3. QED
    BY <2>1, <2>2, RunKeeps
<1>4. CASE Succeeds
  <2>1. /\ trials.here > 0 /\ trials'.here = trials.here - 1 /\ trials'.away = trials.away
        /\ stored' = stored + 1 /\ past' = past
    BY <1>4, <1>a DEF Succeeds
  <2>2. /\ demo'.kind = demo.kind /\ demo'.used = stored' /\ demo'.running = FALSE
        /\ demo'.timer => demo.timer
    BY <1>4, <1>a DEF Succeeds
  <2>3. CallsInFlight'
    BY <1>a, <1>b, <2>1, <2>2 DEF CallsInFlight
  <2>4. CallsAreBudgeted'
    BY <1>a, <1>b, <2>1, <2>2 DEF CallsAreBudgeted
  <2>5. QED
    BY <2>3, <2>4
<1>5. CASE Fails
  <2>1. /\ trials.here > 0 /\ trials'.here = trials.here - 1 /\ trials'.away = trials.away
        /\ stored' = stored /\ past' = past
    BY <1>5, <1>a DEF Fails
  <2>2. /\ demo'.kind = demo.kind /\ demo'.used = demo.used /\ demo'.running = FALSE
        /\ demo'.timer = demo.timer
    BY <1>5, <1>a DEF Fails
  <2>3. CallsInFlight'
    BY <1>a, <1>b, <2>1, <2>2 DEF CallsInFlight
  <2>4. CallsAreBudgeted'
    BY <1>a, <1>b, <2>1, <2>2 DEF CallsAreBudgeted
  <2>5. QED
    BY <2>3, <2>4
<1>6. CASE EndsAway
  <2>1. /\ trials.away > 0 /\ trials'.here = trials.here /\ trials'.away = trials.away - 1
        /\ demo' = demo /\ past' = past /\ stored' \in {stored, stored + 1}
    BY <1>6, <1>a DEF EndsAway
  <2>2. CallsInFlight'
    BY <1>b, <2>1 DEF CallsInFlight
  <2>3. CallsAreBudgeted'
    BY <1>a, <1>b, <2>1 DEF CallsAreBudgeted
  <2>4. QED
    BY <2>2, <2>3
<1>7. ASSUME NEW kind \in Kinds, Visit(kind) PROVE CallsInFlight' /\ CallsAreBudgeted'
  <2>1. /\ demo' = Page(kind, stored) /\ stored' = stored
        /\ past' = [auto |-> past.auto \/ kind = "converter", left |-> past.left + trials.here]
        /\ trials' = [here |-> 0, away |-> trials.here + trials.away]
    BY <1>7 DEF Visit
  <2>2. (demo'.timer => kind = "converter") /\ demo'.kind = kind /\ demo'.used = stored
    BY <2>1 DEF Page
  <2>3. /\ (kind = "converter" => past'.auto) /\ (past.auto => past'.auto)
        /\ past'.left = past.left + trials.here
        /\ trials'.here = 0 /\ trials'.away = trials.here + trials.away
    BY <2>1
  <2>4. CallsInFlight'
    BY <2>2, <2>3 DEF CallsInFlight
  <2>5. CallsAreBudgeted'
    BY <1>a, <1>b, <2>1, <2>2, <2>3 DEF CallsAreBudgeted
  <2>6. QED
    BY <2>4, <2>5
<1>8. QED
  BY <1>1, <1>2, <1>3, <1>4, <1>5, <1>6, <1>7 DEF DemoNext

\* For any limit and any number of visits and files: the session's successful calls exceed
\* the limit by at most one, after a run by itself, and one for each call in flight on a page
\* that was left; the page's own count is behind by at most those; and the form holds what was
\* typed last, unless that was typed while a file was being read (DemoRunner, DynamicForm).
THEOREM PlaygroundIsSound == DemoSpec => []DemoIsSound
<1>1. DemoInit => DemoInv
  <2>1. SUFFICES ASSUME DemoInit PROVE DemoInv
    OBVIOUS
  <2>2. PICK kind \in Kinds : /\ demo = Page(kind, 0) /\ entry = BlankForm(kind)
                              /\ past = [auto |-> kind = "converter", left |-> 0]
                              /\ edited = [text |-> BlankForm(kind).text, raced |-> FALSE]
    BY <2>1 DEF DemoInit
  <2>3. trials = [here |-> 0, away |-> 0] /\ stored = 0 /\ reading = {}
    BY <2>1 DEF DemoInit
  <2>4. DemoTypes
    <3>1. entry \in TrialForms
      BY <2>2, FormTypes
    <3>2. edited \in [text : {"", "typed", "other", "malformed"}, raced : BOOLEAN]
      BY <2>2, <3>1 DEF TrialForms
    <3>3. QED
      BY <2>2, <2>3, <3>1, <3>2 DEF DemoTypes, Page
  <2>5. CallsInFlight /\ CallsAreBudgeted
    <3>1. /\ demo.kind = kind /\ demo.used = 0 /\ (demo.timer => kind = "converter")
          /\ (kind = "converter" => past.auto) /\ past.left = 0
          /\ trials.here = 0 /\ trials.away = 0
      BY <2>2, <2>3 DEF Page
    <3>2. SessionLimit \in Nat
      BY DemoAssumption
    <3>3. QED
      BY <2>3, <3>1, <3>2 DEF CallsInFlight, CallsAreBudgeted
  <2>6. FilesKeepEdits
    BY <2>2, <2>3 DEF FilesKeepEdits
  <2>7. QED
    BY <2>4, <2>5, <2>6 DEF DemoInv
<1>2. DemoInv /\ [DemoNext]_demoVars => DemoInv'
  BY TrialTypesStep, EditsStep, CallsStep DEF DemoInv
<1>3. DemoInv => DemoIsSound
  <2>1. SUFFICES ASSUME DemoInv PROVE DemoIsSound
    OBVIOUS
  <2>2. SessionLimit \in Nat /\ past.auto \in BOOLEAN /\ past.left \in Nat /\ trials.here \in Nat
        /\ trials.away \in Nat /\ stored \in Nat /\ demo.used \in Nat
    BY <2>1, DemoAssumption DEF DemoInv, DemoTypes
  <2>3. DemoLimit
    BY <2>1, <2>2 DEF DemoInv, CallsAreBudgeted, DemoLimit
  <2>4. EditsKept
    BY <2>1 DEF DemoInv, FilesKeepEdits, EditsKept
  <2>5. QED
    BY <2>3, <2>4 DEF DemoIsSound
<1>4. QED
  BY <1>1, <1>2, <1>3, PTL DEF DemoSpec

(***************************************************************************)
(* The interactive demos.                                                  *)
(***************************************************************************)

PlayFields == {"tool", "timers", "busy", "done", "count", "items", "given", "phase"}

PipeTypes ==
    /\ DOMAIN play = PlayFields /\ DOMAIN tracks = {"fresh", "cut", "raced"}
    /\ {play.items, play.count, readings} \subseteq Nat
    /\ readings > 0 => play.tool \in {"datapour", "vectorvault"}

\* After Reset no timer waits either.
NothingComes == tracks.fresh => play.timers = {}

\* The report waits for the time at which every channel is done.
ChannelsBeforeReport ==
    play.tool = "notifystack" =>
        /\ play.given \subseteq DOMAIN Channels
        /\ play.phase \in {"compose", "delivery", "report"}
        /\ play.phase = "compose" => play.timers = {}
        /\ play.phase # "compose" => play.given # {} /\ play.timers \subseteq Due
        /\ play.phase = "delivery" =>
               \A c \in play.given : c \in play.done \/ [what |-> c, at |-> Channels[c] + 80] \in play.timers
        /\ play.phase = "report" => play.given \subseteq play.done

\* The timers of the errors still to come.
ErrorsAfter(n) == {[what |-> IF i < Errors THEN "error" ELSE "errors", at |-> i] : i \in (n + 1)..Errors}

\* Errors stream until the last has come, and are grouped and reported after that.
ErrorsBeforeIssues ==
    play.tool = "sentinellog" =>
        /\ play.phase \in {"capture", "analyze", "issues"}
        /\ play.phase = "capture" =>
               \/ play.busy = {} /\ play.timers = {} /\ play.count \in {0, Errors}
               \/ /\ play.count < Errors /\ play.busy = {"errors"}
                  /\ play.timers = ErrorsAfter(play.count)
        /\ play.phase # "capture" => play.count = Errors /\ Awaited \subseteq {"grouped", "alert"}

\* No step is removed from a tour on its way to the preview.
TourIsFrozen ==
    play.tool = "onboardkit" =>
        /\ play.phase = "edit" => play.timers = {}
        /\ Awaited \subseteq {"previewed"}
        /\ play.phase # "edit" => play.count < play.items

\* What is made of the data is made of all of it, until a file lands that was being read.
DataIsFrozen ==
    play.tool \in {"datapour", "vectorvault"} =>
        /\ play.phase = "upload" => play.timers = {} /\ play.done = {} /\ play.busy = {}
        /\ Awaited \subseteq {"results", "ready", "answered"}
        /\ play.phase # "upload" /\ ~tracks.raced => readings = 0 /\ play.count = play.items

PipeCommon == PipeTypes /\ BusyEnds /\ ResetIsFinal /\ NothingComes

PipeInv == PipeCommon /\ ChannelsBeforeReport /\ ErrorsBeforeIssues /\ TourIsFrozen /\ DataIsFrozen

AllFields(new) == DOMAIN new = PlayFields /\ new.tool = play.tool /\ {new.items, new.count} \subseteq Nat

\* An input changes neither what waits nor what runs.
LEMMA InputKeeps ==
    ASSUME PipeCommon, NEW new, Input(new), AllFields(new), new.busy = play.busy, new.timers = play.timers
    PROVE  PipeCommon' /\ play' = new /\ UNCHANGED readings /\ tracks'.raced = tracks.raced
<1>1. play' = new /\ UNCHANGED readings /\ tracks' = [tracks EXCEPT !.fresh = FALSE]
  BY DEF Input
<1>2. /\ DOMAIN tracks' = {"fresh", "cut", "raced"} /\ tracks'.fresh = FALSE
      /\ tracks'.cut = tracks.cut /\ tracks'.raced = tracks.raced
  BY <1>1 DEF PipeCommon, PipeTypes
<1>3. PipeTypes'
  BY <1>1, <1>2 DEF PipeCommon, PipeTypes, AllFields
<1>4. BusyEnds'
  BY <1>1, <1>2 DEF PipeCommon, BusyEnds, Awaited
<1>5. ResetIsFinal' /\ NothingComes'
  BY <1>2 DEF ResetIsFinal, NothingComes
<1>6. QED
  BY <1>1, <1>2, <1>3, <1>4, <1>5 DEF PipeCommon

\* What ran and waited before a pipeline starts is cut off.
LEMMA StartKeeps ==
    ASSUME PipeCommon, NEW new, NEW timers, Start(new, timers), AllFields(new),
           new.busy \subseteq play.busy \cup {t.what : t \in timers}
    PROVE  /\ PipeCommon' /\ UNCHANGED readings /\ tracks'.raced = tracks.raced
           /\ play' = [new EXCEPT !.timers = timers] /\ DOMAIN play' = PlayFields
           /\ play'.timers = timers /\ Awaited' = {t.what : t \in timers}
<1>1. /\ play' = [new EXCEPT !.timers = timers] /\ UNCHANGED readings
      /\ tracks' = [tracks EXCEPT !.fresh = FALSE, !.cut = @ \cup (play.busy \cap Awaited)]
  BY DEF Start
<1>2. /\ DOMAIN tracks' = {"fresh", "cut", "raced"} /\ tracks'.fresh = FALSE
      /\ tracks'.cut = tracks.cut \cup (play.busy \cap Awaited) /\ tracks'.raced = tracks.raced
  BY <1>1 DEF PipeCommon, PipeTypes
<1>3. /\ DOMAIN play' = PlayFields /\ play'.timers = timers /\ play'.busy = new.busy
      /\ play'.tool = new.tool /\ play'.items = new.items /\ play'.count = new.count
  BY <1>1 DEF AllFields, PlayFields
<1>4. PipeTypes'
  BY <1>1, <1>2, <1>3 DEF PipeCommon, PipeTypes, AllFields
<1>5. Awaited' = {t.what : t \in timers}
  BY <1>3 DEF Awaited
<1>6. BusyEnds'
  BY <1>2, <1>3, <1>5 DEF PipeCommon, BusyEnds
<1>7. ResetIsFinal' /\ NothingComes'
  BY <1>2 DEF ResetIsFinal, NothingComes
<1>8. QED
  BY <1>1, <1>2, <1>3, <1>4, <1>5, <1>6, <1>7 DEF PipeCommon

LEMMA AfterOne == ASSUME NEW name PROVE After(<<name>>) = {[what |-> name, at |-> 1]}
<1>1. DOMAIN <<name>> = {1} /\ <<name>>[1] = name
  OBVIOUS
<1>2. 0 + 1 = 1
  OBVIOUS
<1> DEFINE names == <<name>>
<1> HIDE DEF names
<1>3. DOMAIN names = {1} /\ names[1] = name
  BY <1>1 DEF names
<1>4. Later(0, names) = {[what |-> name, at |-> 1]}
  BY <1>2, <1>3 DEF Later
<1>5. QED
  BY <1>4 DEF After, names

\* A pipeline of one timer.
LEMMA StartOneKeeps ==
    ASSUME PipeCommon, NEW new, NEW name, Start(new, After(<<name>>)), AllFields(new),
           new.busy \subseteq play.busy \cup {name}
    PROVE  /\ PipeCommon' /\ UNCHANGED readings /\ tracks'.raced = tracks.raced
           /\ play' = [new EXCEPT !.timers = {[what |-> name, at |-> 1]}] /\ DOMAIN play' = PlayFields
           /\ Awaited' = {name}
<1> DEFINE timers == {[what |-> name, at |-> 1]}
<1>1. After(<<name>>) = timers
  BY AfterOne
<1>2. {t.what : t \in timers} = {name}
  OBVIOUS
<1> HIDE DEF timers
<1>3. Start(new, timers)
  BY <1>1
<1>4. QED
  BY <1>2, <1>3, StartKeeps DEF timers

LEMMA ToggleKeeps ==
    ASSUME PipeCommon, NEW x, Toggle(x)
    PROVE  /\ PipeCommon' /\ UNCHANGED readings /\ tracks'.raced = tracks.raced
           /\ play' = [play EXCEPT !.given = Flipped(x)]
<1> DEFINE new == [play EXCEPT !.given = Flipped(x)]
<1>1. DOMAIN play = PlayFields /\ {play.items, play.count} \subseteq Nat
  BY DEF PipeCommon, PipeTypes
<1>2. AllFields(new) /\ new.busy = play.busy /\ new.timers = play.timers
  BY <1>1 DEF AllFields, PlayFields
<1>3. Input(new)
  BY DEF Toggle
<1> HIDE DEF new
<1>4. QED
  BY <1>2, <1>3, InputKeeps DEF new

\* The first of the timers that wait.
LEMMA TimerDoes ==
    ASSUME PipeTypes, NEW t, TimerFires(t)
    PROVE  /\ t \in play.timers /\ \A u \in play.timers : t.at <= u.at
           /\ DOMAIN play' = PlayFields /\ UNCHANGED <<readings, tracks>>
           /\ play'.tool = play.tool /\ play'.items = play.items /\ play'.given = play.given
           /\ play'.timers = (play.timers \ {t}) \cup Monitored(t) \cup Tracked(t)
           /\ play'.phase = PhaseAfter(t.what) /\ play'.busy = play.busy \ {t.what}
           /\ play'.done = play.done \cup {t.what}
           /\ play'.count = (IF t.what \in {"used", "error", "errors", "run", "failing"}
                             THEN play.count + 1 ELSE play.count)
           /\ (t.what \notin {"scheduled", "failing", "delivered"} => play'.timers = play.timers \ {t})
<1>1. DOMAIN play = PlayFields
  BY DEF PipeTypes
<1> DEFINE left == (play.timers \ {t}) \cup Monitored(t) \cup Tracked(t)
           phase == PhaseAfter(t.what)
           many == t.what \in {"used", "error", "errors", "run", "failing"}
<1>2. /\ t \in play.timers /\ \A u \in play.timers : t.at <= u.at
      /\ UNCHANGED <<readings, tracks>>
      /\ play' = [play EXCEPT !.timers = left, !.phase = phase, !.busy = play.busy \ {t.what},
                              !.done = play.done \cup {t.what},
                              !.count = IF many THEN play.count + 1 ELSE play.count]
  BY DEF TimerFires
<1>3. t.what \notin {"scheduled", "failing", "delivered"} => left = play.timers \ {t}
  BY DEF Monitored, Tracked
<1> HIDE DEF left, phase, many
<1>4. /\ DOMAIN play' = PlayFields
      /\ play'.tool = play.tool /\ play'.items = play.items /\ play'.given = play.given
      /\ play'.timers = left /\ play'.phase = phase /\ play'.busy = play.busy \ {t.what}
      /\ play'.done = play.done \cup {t.what}
      /\ play'.count = IF many THEN play.count + 1 ELSE play.count
  BY <1>1, <1>2 DEF PlayFields
<1>5. QED
  BY <1>2, <1>3, <1>4 DEF left, phase, many

LEMMA TimerKeeps ==
    ASSUME PipeCommon, NEW t, TimerFires(t)
    PROVE  PipeCommon'
<1>1. PipeTypes /\ BusyEnds /\ ResetIsFinal /\ NothingComes
  BY DEF PipeCommon
<1>2. /\ t \in play.timers
      /\ DOMAIN play' = PlayFields /\ UNCHANGED <<readings, tracks>>
      /\ play'.tool = play.tool /\ play'.items = play.items
      /\ play'.timers = (play.timers \ {t}) \cup Monitored(t) \cup Tracked(t)
      /\ play'.busy = play.busy \ {t.what}
      /\ play'.count \in {play.count + 1, play.count}
  BY <1>1, TimerDoes
<1>3. PipeTypes'
  BY <1>1, <1>2 DEF PipeTypes
<1>4. ASSUME NEW b \in play'.busy PROVE b \in Awaited' \cup tracks'.cut
  <2>1. b \in play.busy /\ b # t.what
    BY <1>2, <1>4
  <2>2. CASE b \in tracks.cut
    BY <1>2, <2>2
  <2>3. CASE b \in Awaited
    <3>1. PICK u \in play.timers : u.what = b
      BY <2>3 DEF Awaited
    <3>2. u \in play'.timers
      BY <1>2, <2>1, <3>1
    <3>3. QED
      BY <3>1, <3>2 DEF Awaited
  <2>4. QED
    BY <1>1, <2>1, <2>2, <2>3 DEF BusyEnds
<1>5. ~tracks.fresh
  BY <1>1, <1>2 DEF NothingComes
<1>6. ResetIsFinal' /\ NothingComes'
  BY <1>2, <1>5 DEF ResetIsFinal, NothingComes
<1>7. QED
  BY <1>3, <1>4, <1>6 DEF PipeCommon, BusyEnds

\* The demo is as it was opened, but for what Reset keeps.
LEMMA OpensAgain ==
    ASSUME PipeTypes, Reset \/ SwitchTabs
    PROVE  /\ DOMAIN play' = PlayFields /\ DOMAIN tracks' = {"fresh", "cut", "raced"}
           /\ play'.tool = play.tool /\ play'.timers = {} /\ play'.busy = {} /\ play'.done = {}
           /\ play'.count = 0 /\ play'.phase = Opened(play.tool).phase
           /\ play'.items \in Nat /\ readings' \in {readings, 0}
           /\ (play.tool = "notifystack" => play'.given \in {DOMAIN Channels, play.given})
           /\ ~tracks'.raced
<1>1. DOMAIN play = PlayFields /\ play.items \in Nat
  BY DEF PipeTypes
<1> DEFINE opened == Opened(play.tool)
<1>2. /\ DOMAIN opened = PlayFields /\ opened.tool = play.tool /\ opened.timers = {} /\ opened.busy = {}
      /\ opened.done = {} /\ opened.count = 0 /\ opened.items \in Nat
      /\ (play.tool = "notifystack" => opened.given = DOMAIN Channels)
  BY DEF Opened, PlayFields
<1>3. CASE SwitchTabs
  <2>1. play' = opened /\ readings' = 0 /\ tracks' = [fresh |-> TRUE, cut |-> {}, raced |-> FALSE]
    BY <1>3 DEF SwitchTabs
  <2>2. QED
    BY <1>2, <2>1
<1>4. CASE Reset
  <2> DEFINE given == Kept
             items == IF play.tool = "onboardkit" THEN play.items ELSE opened.items
  <2>1. /\ play' = [opened EXCEPT !.given = given, !.items = items]
        /\ UNCHANGED readings /\ tracks' = [fresh |-> TRUE, cut |-> {}, raced |-> FALSE]
    BY <1>4 DEF Reset
  <2>2. items \in Nat
    BY <1>1, <1>2
  <2>3. play.tool = "notifystack" => given = play.given
    BY DEF Kept
  <2> HIDE DEF given, items, opened
  <2>4. /\ DOMAIN play' = PlayFields /\ play'.tool = play.tool /\ play'.timers = {} /\ play'.busy = {}
        /\ play'.done = {} /\ play'.count = 0 /\ play'.phase = opened.phase /\ play'.items = items
        /\ play'.given = given
    BY <1>2, <2>1 DEF PlayFields
  <2>5. QED
    BY <2>1, <2>2, <2>3, <2>4 DEF opened
<1>5. QED
  BY <1>3, <1>4

LEMMA OpenedKeeps == ASSUME PipeCommon, Reset \/ SwitchTabs PROVE PipeCommon'
<1>1. PipeTypes
  BY DEF PipeCommon
<1>2. /\ DOMAIN play' = PlayFields /\ DOMAIN tracks' = {"fresh", "cut", "raced"}
      /\ play'.tool = play.tool /\ play'.timers = {} /\ play'.busy = {} /\ play'.done = {}
      /\ play'.count = 0 /\ play'.phase = Opened(play.tool).phase
      /\ play'.items \in Nat /\ readings' \in {readings, 0}
  BY <1>1, OpensAgain
<1>3. PipeTypes'
  BY <1>1, <1>2 DEF PipeTypes
<1>4. BusyEnds' /\ NothingComes'
  BY <1>2 DEF BusyEnds, NothingComes
<1>5. ResetIsFinal'
  BY <1>2 DEF ResetIsFinal
<1>6. QED
  BY <1>3, <1>4, <1>5 DEF PipeCommon

\* The demos whose results need no part of the invariant of their own.
PlainDemos == {"paypipe", "authforge", "cronpilot", "formcraft", "mailmerge"}

PlainActions ==
    \/ Meter \/ CreatePlan \/ Subscribe \/ RecordUsage
    \/ EditEmail \/ SendMagicLink \/ OpenMagicLink
    \/ Schedule \/ SendMail
    \/ \E f \in Fields : ToggleRequired(f) \/ RemoveField(f)
    \/ Preview \/ SubmitForm \/ \E v \in Values : SetValue(v)

LEMMA PlainActionsKeep ==
    ASSUME PipeCommon, PlainActions
    PROVE  PipeCommon' /\ play'.tool = play.tool /\ play.tool \in PlainDemos
<1>a. DOMAIN play = PlayFields /\ {play.items, play.count} \subseteq Nat
  BY DEF PipeCommon, PipeTypes
<1>b. ASSUME NEW x, Toggle(x) PROVE PipeCommon' /\ play'.tool = play.tool
  <2>1. [play EXCEPT !.given = Flipped(x)].tool = play.tool
    BY <1>a DEF PlayFields
  <2>2. QED
    BY <1>b, <2>1, ToggleKeeps
<1>c. ASSUME NEW new, NEW name, Start(new, After(<<name>>)), AllFields(new), new.busy \subseteq play.busy \cup {name}
      PROVE  PipeCommon' /\ play'.tool = play.tool
  <2>1. [new EXCEPT !.timers = {[what |-> name, at |-> 1]}].tool = play.tool
    BY <1>c DEF AllFields, PlayFields
  <2>2. QED
    BY <1>c, <2>1, StartOneKeeps
<1>d. ASSUME NEW new, Input(new), AllFields(new), new.busy = play.busy, new.timers = play.timers
      PROVE  PipeCommon' /\ play'.tool = play.tool
  BY <1>d, InputKeeps DEF AllFields
<1>1. CASE Meter \/ EditEmail \/ \E f \in Fields : ToggleRequired(f)
  <2>1. \E x : Toggle(x)
    BY <1>1 DEF Meter, EditEmail, ToggleRequired
  <2>2. play.tool \in PlainDemos
    BY <1>1 DEF Meter, EditEmail, ToggleRequired, PlanPanel, LoginScreen, FieldsPanel, At, PlainDemos
  <2>3. QED
    BY <1>b, <2>1, <2>2
<1>2. CASE CreatePlan
  BY <1>2, <1>a, <1>c DEF CreatePlan, AllFields, PlayFields, PlanPanel, At, PlainDemos
<1>3. CASE Subscribe
  BY <1>3, <1>a, <1>c DEF Subscribe, AllFields, PlayFields, CustomerPanel, At, PlainDemos
<1>4. CASE RecordUsage
  BY <1>4, <1>a, <1>c DEF RecordUsage, AllFields, PlayFields, CustomerPanel, At, PlainDemos
<1>5. CASE SendMagicLink
  BY <1>5, <1>a, <1>c DEF SendMagicLink, AllFields, PlayFields, LoginScreen, At, PlainDemos
<1>6. CASE OpenMagicLink
  BY <1>6, <1>a, <1>c DEF OpenMagicLink, AllFields, PlayFields, SentScreen, At, PlainDemos
<1>7. CASE Schedule
  BY <1>7, <1>a, <1>c DEF Schedule, AllFields, PlayFields, JobPanel, At, PlainDemos
<1>8. CASE SendMail
  BY <1>8, <1>a, <1>c DEF SendMail, AllFields, PlayFields, ComposePanel, At, PlainDemos
<1>9. CASE Preview
  BY <1>9, <1>a, <1>c DEF Preview, AllFields, PlayFields, FieldsPanel, At, PlainDemos
<1>10. CASE SubmitForm
  BY <1>10, <1>a, <1>d DEF SubmitForm, AllFields, PlayFields, FormPanel, At, PlainDemos
<1>11. ASSUME NEW f, RemoveField(f) PROVE PipeCommon' /\ play'.tool = play.tool /\ play.tool \in PlainDemos
  BY <1>11, <1>a, <1>d DEF RemoveField, AllFields, PlayFields, FieldsPanel, At, PlainDemos
<1>12. ASSUME NEW v, SetValue(v) PROVE PipeCommon' /\ play'.tool = play.tool /\ play.tool \in PlainDemos
  BY <1>12, <1>a, <1>d DEF SetValue, AllFields, PlayFields, FormPanel, At, PlainDemos
<1>13. QED
  BY <1>1, <1>2, <1>3, <1>4, <1>5, <1>6, <1>7, <1>8, <1>9, <1>10, <1>11, <1>12 DEF PlainActions

LEMMA ChannelsAreFour ==
    /\ DOMAIN Channels = {"email", "sms", "push", "inapp"}
    /\ Channels["email"] = 320 /\ Channels["sms"] = 280 /\ Channels["push"] = 190 /\ Channels["inapp"] = 45
BY DEF Channels

\* The slowest of the chosen channels bounds the others.
LEMMA ReportIsLast ==
    ASSUME play.given \subseteq DOMAIN Channels, play.given # {}
    PROVE  ReportAt \in Nat /\ \A c \in play.given : Channels[c] + 80 < ReportAt
<1> DEFINE S == {Channels[c] : c \in play.given}
<1>1. S \subseteq {320, 280, 190, 45} /\ S # {}
  BY ChannelsAreFour
<1>2. \E x \in S : \A y \in S : x >= y
  <2>1. CASE 320 \in S
    BY <1>1, <2>1
  <2>2. CASE 320 \notin S /\ 280 \in S
    BY <1>1, <2>2
  <2>3. CASE 320 \notin S /\ 280 \notin S /\ 190 \in S
    BY <1>1, <2>3
  <2>4. CASE 320 \notin S /\ 280 \notin S /\ 190 \notin S
    <3>1. S = {45}
      BY <1>1, <2>4
    <3>2. QED
      BY <3>1
  <2>5. QED
    BY <2>1, <2>2, <2>3, <2>4
<1>3. ReportAt = Max(S) + 400
  BY DEF ReportAt
<1>4. \A c \in play.given : Channels[c] \in S
  OBVIOUS
<1> HIDE DEF S
<1>5. Max(S) \in S /\ \A y \in S : Max(S) >= y
  BY <1>2 DEF Max
<1> DEFINE max == Max(S)
<1>6. max \in {320, 280, 190, 45} /\ ReportAt = max + 400 /\ \A y \in S : max >= y
  BY <1>1, <1>3, <1>5
<1> HIDE DEF max
<1>7. ASSUME NEW c \in play.given PROVE Channels[c] + 80 < ReportAt
  <2>1. Channels[c] \in {320, 280, 190, 45} /\ max >= Channels[c]
    BY <1>1, <1>4, <1>6
  <2>2. QED
    BY <1>6, <2>1
<1>8. QED
  BY <1>6, <1>7

LEMMA NotifyActionsKeep ==
    ASSUME PipeCommon, ChannelsBeforeReport, (\E c \in DOMAIN Channels : ToggleChannel(c)) \/ Notify
    PROVE  /\ PipeCommon' /\ play'.tool = play.tool /\ play.tool = "notifystack"
           /\ ChannelsBeforeReport'
<1>a. DOMAIN play = PlayFields /\ {play.items, play.count} \subseteq Nat
  BY DEF PipeCommon, PipeTypes
<1>1. ASSUME NEW c \in DOMAIN Channels, ToggleChannel(c)
      PROVE  /\ PipeCommon' /\ play'.tool = play.tool /\ play.tool = "notifystack"
             /\ ChannelsBeforeReport'
  <2>1. Toggle(c) /\ play.tool = "notifystack" /\ play.phase = "compose"
    BY <1>1 DEF ToggleChannel, ChannelsPanel, At
  <2>2. PipeCommon' /\ play' = [play EXCEPT !.given = Flipped(c)]
    BY <2>1, ToggleKeeps
  <2>3. /\ play'.tool = play.tool /\ play'.phase = play.phase /\ play'.timers = play.timers
        /\ play'.given = Flipped(c)
    BY <1>a, <2>2 DEF PlayFields
  <2>4. play.given \subseteq DOMAIN Channels /\ play.timers = {}
    BY <2>1 DEF ChannelsBeforeReport
  <2>5. Flipped(c) \subseteq DOMAIN Channels
    BY <1>1, <2>4 DEF Flipped
  <2>6. ChannelsBeforeReport'
    BY <2>1, <2>3, <2>4, <2>5 DEF ChannelsBeforeReport
  <2>7. QED
    BY <2>1, <2>2, <2>3, <2>6
<1>2. CASE Notify
  <2> DEFINE new == [play EXCEPT !.phase = "delivery", !.done = {}]
  <2>1. Start(new, Due) /\ play.tool = "notifystack" /\ play.given # {}
    BY <1>2 DEF Notify, ChannelsPanel, At
  <2>2. /\ AllFields(new) /\ new.busy = play.busy /\ new.phase = "delivery" /\ new.given = play.given
        /\ new.tool = play.tool
    BY <1>a DEF AllFields, PlayFields
  <2> HIDE DEF new
  <2>3. PipeCommon' /\ play' = [new EXCEPT !.timers = Due]
    BY <2>1, <2>2, StartKeeps
  <2> DEFINE due == Due
  <2> HIDE DEF due
  <2>4. play' = [new EXCEPT !.timers = due]
    BY <2>3 DEF due
  <2>5. play'.tool = play.tool /\ play'.phase = "delivery" /\ play'.timers = due /\ play'.given = play.given
    BY <2>2, <2>4 DEF AllFields, PlayFields
  <2>6. play.given \subseteq DOMAIN Channels
    BY <2>1 DEF ChannelsBeforeReport
  <2>7. Due' = Due
    BY <2>5 DEF Due, ReportAt
  <2>8. \A c \in play.given : [what |-> c, at |-> Channels[c] + 80] \in Due
    BY DEF Due
  <2>9. ChannelsBeforeReport'
    BY <2>1, <2>5, <2>6, <2>7, <2>8 DEF ChannelsBeforeReport, due
  <2>10. QED
    BY <2>1, <2>3, <2>5, <2>9
<1>3. QED
  BY <1>1, <1>2

LEMMA NotifyTimerKeeps ==
    ASSUME PipeCommon, ChannelsBeforeReport, play.tool = "notifystack", NEW t, TimerFires(t)
    PROVE  ChannelsBeforeReport'
<1>1. PipeTypes
  BY DEF PipeCommon
<1>2. /\ play.given \subseteq DOMAIN Channels
      /\ play.phase \in {"compose", "delivery", "report"}
      /\ play.phase = "compose" => play.timers = {}
      /\ play.phase # "compose" => play.given # {} /\ play.timers \subseteq Due
      /\ play.phase = "delivery" =>
             \A c \in play.given : c \in play.done \/ [what |-> c, at |-> Channels[c] + 80] \in play.timers
      /\ play.phase = "report" => play.given \subseteq play.done
  BY DEF ChannelsBeforeReport
<1>3. /\ t \in play.timers /\ \A u \in play.timers : t.at <= u.at
      /\ play'.tool = play.tool /\ play'.given = play.given
      /\ play'.phase = PhaseAfter(t.what) /\ play'.done = play.done \cup {t.what}
      /\ (t.what \notin {"scheduled", "failing", "delivered"} => play'.timers = play.timers \ {t})
  BY <1>1, TimerDoes
<1>4. play.phase \in {"delivery", "report"} /\ play.given # {} /\ play.timers \subseteq Due
  BY <1>2, <1>3
<1>5. ReportAt \in Nat /\ \A c \in play.given : Channels[c] + 80 < ReportAt
  BY <1>2, <1>4, ReportIsLast
<1>6. Due' = Due
  BY <1>3 DEF Due, ReportAt
<1>7. CASE t.what = "report"
  <2>1. t = [what |-> "report", at |-> ReportAt]
    <3>1. ASSUME NEW c \in play.given, t = [what |-> c, at |-> Channels[c] + 80] PROVE FALSE
      <4>1. t.what \in {"email", "sms", "push", "inapp"}
        BY <1>2, <3>1, ChannelsAreFour
      <4>2. QED
        BY <1>7, <4>1
    <3>2. t \in Due
      BY <1>3, <1>4
    <3>3. QED
      BY <3>1, <3>2 DEF Due
  <2>2. play'.phase = "report" /\ play'.timers = play.timers \ {t}
    BY <1>3, <1>7 DEF PhaseAfter
  <2>3. ASSUME NEW c \in play.given PROVE c \in play.done
    <3>1. CASE [what |-> c, at |-> Channels[c] + 80] \in play.timers
      <4>1. t.at <= Channels[c] + 80
        BY <1>3, <3>1
      <4>2. t.at = ReportAt /\ Channels[c] \in Nat
        BY <1>2, <2>1, ChannelsAreFour
      <4>3. QED
        BY <1>5, <4>1, <4>2
    <3>2. QED
      BY <1>2, <1>4, <3>1
  <2>4. QED
    BY <1>2, <1>3, <1>4, <1>6, <2>2, <2>3 DEF ChannelsBeforeReport
<1>8. CASE t.what # "report"
  <2>1. PICK c \in play.given : t = [what |-> c, at |-> Channels[c] + 80]
    <3>1. t \in Due
      BY <1>3, <1>4
    <3>2. t # [what |-> "report", at |-> ReportAt]
      BY <1>8
    <3>3. QED
      BY <3>1, <3>2 DEF Due
  <2>2. t.what \in {"email", "sms", "push", "inapp"} /\ t.what = c
    BY <1>2, <2>1, ChannelsAreFour
  <2>3. play'.phase = play.phase /\ play'.timers = play.timers \ {t}
    BY <1>3, <2>2 DEF PhaseAfter
  <2>4. ASSUME NEW d \in play.given, play.phase = "delivery"
        PROVE  d \in play'.done \/ [what |-> d, at |-> Channels[d] + 80] \in play'.timers
    <3>1. CASE d = c
      BY <1>3, <2>2, <3>1
    <3>2. CASE d # c
      <4>1. [what |-> d, at |-> Channels[d] + 80] # t
        BY <2>1, <3>2
      <4>2. QED
        BY <1>2, <1>3, <2>3, <2>4, <4>1
    <3>3. QED
      BY <3>1, <3>2
  <2>5. QED
    BY <1>2, <1>3, <1>4, <1>6, <2>3, <2>4 DEF ChannelsBeforeReport
<1>9. QED
  BY <1>7, <1>8

LEMMA NotifyOpensAgain ==
    ASSUME PipeCommon, ChannelsBeforeReport, Reset \/ SwitchTabs
    PROVE  ChannelsBeforeReport'
<1>1. SUFFICES ASSUME play.tool = "notifystack" PROVE ChannelsBeforeReport'
  BY OpensAgain DEF PipeCommon, ChannelsBeforeReport
<1>2. /\ play'.tool = play.tool /\ play'.timers = {} /\ play'.phase = Opened(play.tool).phase
      /\ play'.given \in {DOMAIN Channels, play.given}
  BY <1>1, OpensAgain DEF PipeCommon
<1>3. Opened(play.tool).phase = "compose"
  BY <1>1 DEF Opened
<1>4. play.given \subseteq DOMAIN Channels
  BY <1>1 DEF ChannelsBeforeReport
<1>5. QED
  BY <1>2, <1>3, <1>4 DEF ChannelsBeforeReport

LEMMA AllErrors == After([i \in 1..Errors |-> IF i < Errors THEN "error" ELSE "errors"]) = ErrorsAfter(0)
<1> DEFINE names == [i \in 1..Errors |-> IF i < Errors THEN "error" ELSE "errors"]
<1>1. DOMAIN names = 1..Errors /\ \A i \in 1..Errors : names[i] = IF i < Errors THEN "error" ELSE "errors"
  OBVIOUS
<1> HIDE DEF names
<1>2. 0 + 1 = 1 /\ \A i \in 1..Errors : 0 + i = i
  OBVIOUS
<1> DEFINE due(i) == [what |-> names[i], at |-> 0 + i]
           error(i) == [what |-> IF i < Errors THEN "error" ELSE "errors", at |-> i]
<1>3. ErrorsAfter(0) = {error(i) : i \in 1..Errors}
  BY <1>2 DEF ErrorsAfter
<1>4. Later(0, names) = {due(i) : i \in 1..Errors}
  BY <1>1 DEF Later
<1>5. \A i \in 1..Errors : due(i) = error(i)
  BY <1>1, <1>2
<1> HIDE DEF due, error
<1>6. Later(0, names) = ErrorsAfter(0)
  <2>1. {due(i) : i \in 1..Errors} = {error(i) : i \in 1..Errors}
    BY <1>5
  <2>2. QED
    BY <1>3, <1>4, <2>1
<1>7. QED
  BY <1>6 DEF After, names

\* The next error is the first of the timers that wait, and leaves the timers of the rest.
LEMMA NextError ==
    ASSUME NEW n \in 0..(Errors - 1), NEW t \in ErrorsAfter(n), \A u \in ErrorsAfter(n) : t.at <= u.at
    PROVE  /\ t.what = (IF n + 1 < Errors THEN "error" ELSE "errors")
           /\ ErrorsAfter(n) \ {t} = ErrorsAfter(n + 1)
<1>a. Errors \in Nat /\ n \in Nat /\ n < Errors
  BY PipelinesAssumption
<1> DEFINE T(i) == [what |-> IF i < Errors THEN "error" ELSE "errors", at |-> i]
<1>1. /\ ErrorsAfter(n) = {T(i) : i \in (n + 1)..Errors}
      /\ ErrorsAfter(n + 1) = {T(i) : i \in (n + 2)..Errors}
  BY <1>a DEF ErrorsAfter
<1>2. \A i : T(i).at = i /\ T(i).what = IF i < Errors THEN "error" ELSE "errors"
  OBVIOUS
<1> HIDE DEF T
<1>3. PICK k \in (n + 1)..Errors : t = T(k)
  BY <1>1
<1>4. n + 1 \in (n + 1)..Errors
  BY <1>a
<1>5. T(n + 1) \in ErrorsAfter(n)
  BY <1>1, <1>4
<1>6. k = n + 1
  <2>1. t.at = k /\ T(n + 1).at = n + 1 /\ t.at <= T(n + 1).at
    BY <1>2, <1>3, <1>5
  <2>2. QED
    BY <1>a, <1>3, <2>1
<1>7. t.what = IF n + 1 < Errors THEN "error" ELSE "errors"
  BY <1>2, <1>3, <1>6
<1>8. ASSUME NEW u PROVE u \in ErrorsAfter(n) /\ u # t <=> u \in ErrorsAfter(n + 1)
  <2>1. ASSUME u \in ErrorsAfter(n), u # t PROVE u \in ErrorsAfter(n + 1)
    <3>1. PICK i \in (n + 1)..Errors : u = T(i)
      BY <1>1, <2>1
    <3>2. i \in (n + 2)..Errors
      BY <1>a, <1>3, <1>6, <2>1, <3>1
    <3>3. QED
      BY <1>1, <3>1, <3>2
  <2>2. ASSUME u \in ErrorsAfter(n + 1) PROVE u \in ErrorsAfter(n) /\ u # t
    <3>1. PICK i \in (n + 2)..Errors : u = T(i)
      BY <1>1, <2>2
    <3>2. i \in (n + 1)..Errors /\ i # k
      BY <1>a, <1>6
    <3>3. u.at = i /\ t.at = k
      BY <1>2, <1>3, <3>1
    <3>4. QED
      BY <1>1, <3>1, <3>2, <3>3
  <2>3. QED
    BY <2>1, <2>2
<1>9. QED
  BY <1>7, <1>8

LEMMA SentinelActionsKeep ==
    ASSUME PipeCommon, ErrorsBeforeIssues, Simulate \/ AnalyzeErrors \/ SendAlert
    PROVE  /\ PipeCommon' /\ play'.tool = play.tool /\ play.tool = "sentinellog"
           /\ ErrorsBeforeIssues'
<1>a. DOMAIN play = PlayFields /\ {play.items, play.count} \subseteq Nat /\ Errors \in Nat \ {0}
  BY PipelinesAssumption DEF PipeCommon, PipeTypes
<1>b. play.tool = "sentinellog"
  BY DEF Simulate, AnalyzeErrors, SendAlert, CapturePanel, IssuesPanel, At
<1>c. /\ play.phase = "capture" =>
             \/ play.busy = {} /\ play.timers = {} /\ play.count \in {0, Errors}
             \/ /\ play.count < Errors /\ play.busy = {"errors"}
                /\ play.timers = ErrorsAfter(play.count)
      /\ play.phase # "capture" => play.count = Errors /\ Awaited \subseteq {"grouped", "alert"}
  BY <1>b DEF ErrorsBeforeIssues
<1>1. CASE Simulate
  <2> DEFINE new == [play EXCEPT !.busy = {"errors"}]
             timers == ErrorsAfter(0)
  <2>1. Start(new, timers) /\ play.phase = "capture" /\ play.count = 0 /\ "errors" \notin play.busy
    BY <1>1, AllErrors DEF Simulate, CapturePanel, At
  <2>2. /\ AllFields(new) /\ new.busy = {"errors"} /\ new.phase = play.phase /\ new.count = play.count
        /\ new.tool = play.tool
    BY <1>a DEF AllFields, PlayFields
  <2>3. "errors" \in {t.what : t \in timers}
    <3>1. [what |-> "errors", at |-> Errors] \in timers
      BY <1>a DEF ErrorsAfter
    <3>2. QED
      BY <3>1
  <2> HIDE DEF new, timers
  <2>4. PipeCommon' /\ play' = [new EXCEPT !.timers = timers]
    BY <2>1, <2>2, <2>3, StartKeeps
  <2>5. /\ play'.tool = play.tool /\ play'.phase = "capture" /\ play'.timers = timers
        /\ play'.busy = {"errors"} /\ play'.count = 0
    BY <2>1, <2>2, <2>4 DEF AllFields, PlayFields
  <2>6. ErrorsBeforeIssues'
    BY <1>a, <2>5 DEF ErrorsBeforeIssues, timers, ErrorsAfter
  <2>7. QED
    BY <1>b, <2>4, <2>5, <2>6
<1>2. CASE AnalyzeErrors
  <2> DEFINE new == [play EXCEPT !.phase = "analyze"]
  <2>1. Start(new, After(<<"grouped">>)) /\ play.phase = "capture" /\ play.count > 0 /\ "errors" \notin play.busy
    BY <1>2 DEF AnalyzeErrors, CapturePanel, At
  <2>2. /\ AllFields(new) /\ new.busy = play.busy /\ new.phase = "analyze" /\ new.count = play.count
        /\ new.tool = play.tool
    BY <1>a DEF AllFields, PlayFields
  <2> HIDE DEF new
  <2>3. PipeCommon' /\ play' = [new EXCEPT !.timers = {[what |-> "grouped", at |-> 1]}] /\ Awaited' = {"grouped"}
    BY <2>1, <2>2, StartOneKeeps
  <2>4. play'.tool = play.tool /\ play'.phase = "analyze" /\ play'.count = play.count
    BY <2>2, <2>3 DEF AllFields, PlayFields
  <2>5. play.count = Errors
    BY <1>a, <1>c, <2>1
  <2>6. ErrorsBeforeIssues'
    BY <2>3, <2>4, <2>5 DEF ErrorsBeforeIssues
  <2>7. QED
    BY <1>b, <2>3, <2>4, <2>6
<1>3. CASE SendAlert
  <2> DEFINE new == [play EXCEPT !.done = @ \cup {"alerted"}]
  <2>1. Start(new, After(<<"alert">>)) /\ play.phase = "issues"
    BY <1>3 DEF SendAlert, IssuesPanel, At
  <2>2. /\ AllFields(new) /\ new.busy = play.busy /\ new.phase = "issues" /\ new.count = play.count
        /\ new.tool = play.tool
    BY <1>a, <2>1 DEF AllFields, PlayFields
  <2> HIDE DEF new
  <2>3. PipeCommon' /\ play' = [new EXCEPT !.timers = {[what |-> "alert", at |-> 1]}] /\ Awaited' = {"alert"}
    BY <2>1, <2>2, StartOneKeeps
  <2>4. play'.tool = play.tool /\ play'.phase = "issues" /\ play'.count = play.count
    BY <2>2, <2>3 DEF AllFields, PlayFields
  <2>5. play.count = Errors
    BY <1>c, <2>1
  <2>6. ErrorsBeforeIssues'
    BY <2>3, <2>4, <2>5 DEF ErrorsBeforeIssues
  <2>7. QED
    BY <1>b, <2>3, <2>4, <2>6
<1>4. QED
  BY <1>1, <1>2, <1>3

LEMMA SentinelTimerKeeps ==
    ASSUME PipeCommon, ErrorsBeforeIssues, play.tool = "sentinellog", NEW t, TimerFires(t)
    PROVE  ErrorsBeforeIssues'
<1>a. PipeTypes /\ play.count \in Nat /\ Errors \in Nat \ {0}
  BY PipelinesAssumption DEF PipeCommon, PipeTypes
<1>1. /\ t \in play.timers /\ \A u \in play.timers : t.at <= u.at
      /\ play'.tool = play.tool
      /\ play'.phase = PhaseAfter(t.what) /\ play'.busy = play.busy \ {t.what}
      /\ play'.count = (IF t.what \in {"used", "error", "errors", "run", "failing"}
                        THEN play.count + 1 ELSE play.count)
      /\ (t.what \notin {"scheduled", "failing", "delivered"} => play'.timers = play.timers \ {t})
  BY <1>a, TimerDoes
<1>2. CASE play.phase = "capture"
  <2> DEFINE n == play.count
  <2>1. n < Errors /\ play.busy = {"errors"} /\ play.timers = ErrorsAfter(n)
    BY <1>1, <1>2 DEF ErrorsBeforeIssues
  <2>2. n \in 0..(Errors - 1)
    BY <1>a, <2>1
  <2>3. t.what = (IF n + 1 < Errors THEN "error" ELSE "errors") /\ ErrorsAfter(n) \ {t} = ErrorsAfter(n + 1)
    BY <1>1, <2>1, <2>2, NextError
  <2>4. /\ play'.phase = "capture" /\ play'.count = n + 1 /\ play'.timers = ErrorsAfter(n + 1)
    BY <1>1, <1>2, <2>1, <2>3 DEF PhaseAfter
  <2>5. CASE n + 1 < Errors
    <3>1. play'.busy = {"errors"}
      BY <1>1, <2>1, <2>3, <2>5
    <3>2. QED
      BY <1>1, <2>4, <2>5, <3>1 DEF ErrorsBeforeIssues
  <2>6. CASE ~(n + 1 < Errors)
    <3>1. n + 1 = Errors
      BY <1>a, <2>2, <2>6
    <3>2. play'.busy = {} /\ ErrorsAfter(n + 1) = {}
      BY <1>1, <1>a, <2>1, <2>3, <2>6, <3>1 DEF ErrorsAfter
    <3>3. QED
      BY <1>1, <2>4, <3>1, <3>2 DEF ErrorsBeforeIssues
  <2>7. QED
    BY <2>5, <2>6
<1>3. CASE play.phase # "capture"
  <2>1. /\ play.phase \in {"analyze", "issues"} /\ play.count = Errors
        /\ Awaited \subseteq {"grouped", "alert"}
    BY <1>3 DEF ErrorsBeforeIssues
  <2>2. t.what \in {"grouped", "alert"}
    BY <1>1, <2>1 DEF Awaited
  <2>3. play'.count = Errors /\ play'.phase \in {"issues", play.phase} /\ play'.timers = play.timers \ {t}
    BY <1>1, <2>1, <2>2 DEF PhaseAfter
  <2>4. Awaited' \subseteq {"grouped", "alert"}
    BY <2>1, <2>3 DEF Awaited
  <2>5. QED
    BY <1>1, <2>1, <2>3, <2>4 DEF ErrorsBeforeIssues
<1>4. QED
  BY <1>2, <1>3

LEMMA SentinelOpensAgain == ASSUME PipeCommon, Reset \/ SwitchTabs PROVE ErrorsBeforeIssues'
<1>1. /\ play'.tool = play.tool /\ play'.timers = {} /\ play'.busy = {} /\ play'.count = 0
      /\ play'.phase = Opened(play.tool).phase
  BY OpensAgain DEF PipeCommon
<1>2. SUFFICES ASSUME play.tool = "sentinellog" PROVE ErrorsBeforeIssues'
  BY <1>1 DEF ErrorsBeforeIssues
<1>3. Opened(play.tool).phase = "capture"
  BY <1>2 DEF Opened
<1>4. QED
  BY <1>1, <1>3 DEF ErrorsBeforeIssues

TourActions == RemoveTourStep \/ AddTourStep \/ CompileTour \/ NextTourStep \/ PreviousTourStep

LEMMA TourActionsKeep ==
    ASSUME PipeCommon, TourIsFrozen, TourActions
    PROVE  PipeCommon' /\ play'.tool = play.tool /\ play.tool = "onboardkit" /\ TourIsFrozen'
<1>a. DOMAIN play = PlayFields /\ play.items \in Nat /\ play.count \in Nat
  BY DEF PipeCommon, PipeTypes
<1>b. play.tool = "onboardkit"
  BY DEF TourActions, RemoveTourStep, AddTourStep, CompileTour, NextTourStep, PreviousTourStep, TourEditor, TourPanel, At
<1>c. /\ play.phase = "edit" => play.timers = {}
      /\ Awaited \subseteq {"previewed"}
      /\ play.phase # "edit" => play.count < play.items
  BY <1>b DEF TourIsFrozen
<1>1. ASSUME NEW new, Input(new), AllFields(new), new.busy = play.busy, new.timers = play.timers,
             new.phase = play.phase, play.phase # "edit" => new.count < new.items
      PROVE  PipeCommon' /\ play'.tool = play.tool /\ TourIsFrozen'
  <2>1. PipeCommon' /\ play' = new
    BY <1>1, InputKeeps
  <2>2. Awaited' = Awaited
    BY <1>1, <2>1 DEF Awaited
  <2>3. QED
    BY <1>1, <1>c, <2>1, <2>2 DEF TourIsFrozen, AllFields
<1>2. CASE RemoveTourStep
  <2> DEFINE new == [play EXCEPT !.items = play.items - 1]
  <2>1. Input(new) /\ play.phase = "edit" /\ play.items > 0
    BY <1>2 DEF RemoveTourStep, TourEditor, At
  <2>2. AllFields(new) /\ new.busy = play.busy /\ new.timers = play.timers /\ new.phase = play.phase
    BY <1>a, <2>1 DEF AllFields, PlayFields
  <2> HIDE DEF new
  <2>3. QED
    BY <1>1, <1>b, <2>1, <2>2
<1>3. CASE AddTourStep
  <2> DEFINE new == [play EXCEPT !.items = play.items + 1]
  <2>1. Input(new) /\ play.phase = "edit"
    BY <1>3 DEF AddTourStep, TourEditor, At
  <2>2. AllFields(new) /\ new.busy = play.busy /\ new.timers = play.timers /\ new.phase = play.phase
    BY <1>a DEF AllFields, PlayFields
  <2> HIDE DEF new
  <2>3. QED
    BY <1>1, <1>b, <2>1, <2>2
<1>4. CASE CompileTour
  <2> DEFINE new == [play EXCEPT !.phase = "compile", !.count = 0, !.done = {}]
  <2>1. Start(new, After(<<"previewed">>)) /\ play.items > 0
    BY <1>4 DEF CompileTour
  <2>2. /\ AllFields(new) /\ new.busy = play.busy /\ new.phase = "compile" /\ new.count = 0
        /\ new.items = play.items /\ new.tool = play.tool
    BY <1>a DEF AllFields, PlayFields
  <2> HIDE DEF new
  <2>3. /\ PipeCommon' /\ play' = [new EXCEPT !.timers = {[what |-> "previewed", at |-> 1]}]
        /\ Awaited' = {"previewed"}
    BY <2>1, <2>2, StartOneKeeps
  <2>4. play'.tool = play.tool /\ play'.phase = "compile" /\ play'.count = 0 /\ play'.items = play.items
    BY <2>2, <2>3 DEF AllFields, PlayFields
  <2>5. QED
    BY <1>a, <1>b, <2>1, <2>3, <2>4 DEF TourIsFrozen
<1>5. CASE NextTourStep
  <2>1. CASE play.count < play.items - 1
    <3> DEFINE new == [play EXCEPT !.count = play.count + 1]
    <3>1. Input(new)
      BY <1>5, <2>1 DEF NextTourStep
    <3>2. /\ AllFields(new) /\ new.busy = play.busy /\ new.timers = play.timers /\ new.phase = play.phase
          /\ new.count < new.items
      BY <1>a, <2>1 DEF AllFields, PlayFields
    <3> HIDE DEF new
    <3>3. QED
      BY <1>1, <1>b, <3>1, <3>2
  <2>2. CASE ~(play.count < play.items - 1)
    <3> DEFINE new == [play EXCEPT !.done = @ \cup {"toured"}]
    <3>1. Input(new)
      BY <1>5, <2>2 DEF NextTourStep
    <3>2. /\ AllFields(new) /\ new.busy = play.busy /\ new.timers = play.timers /\ new.phase = play.phase
          /\ new.count = play.count /\ new.items = play.items
      BY <1>a DEF AllFields, PlayFields
    <3> HIDE DEF new
    <3>3. QED
      BY <1>1, <1>b, <1>c, <3>1, <3>2
  <2>3. QED
    BY <2>1, <2>2
<1>6. CASE PreviousTourStep
  <2> DEFINE new == [play EXCEPT !.count = play.count - 1]
  <2>1. Input(new) /\ play.count > 0
    BY <1>6 DEF PreviousTourStep
  <2>2. AllFields(new) /\ new.busy = play.busy /\ new.timers = play.timers /\ new.phase = play.phase
    BY <1>a, <2>1 DEF AllFields, PlayFields
  <2>3. play.phase # "edit" => new.count < new.items
    BY <1>a, <1>c, <2>1 DEF PlayFields
  <2> HIDE DEF new
  <2>4. QED
    BY <1>1, <1>b, <2>1, <2>2, <2>3
<1>7. QED
  BY <1>2, <1>3, <1>4, <1>5, <1>6 DEF TourActions

LEMMA TourTimerKeeps ==
    ASSUME PipeCommon, TourIsFrozen, play.tool = "onboardkit", NEW t, TimerFires(t)
    PROVE  TourIsFrozen'
<1>1. /\ t \in play.timers /\ play'.tool = play.tool /\ play'.items = play.items
      /\ play'.phase = PhaseAfter(t.what)
      /\ play'.count = (IF t.what \in {"used", "error", "errors", "run", "failing"}
                        THEN play.count + 1 ELSE play.count)
      /\ (t.what \notin {"scheduled", "failing", "delivered"} => play'.timers = play.timers \ {t})
  BY TimerDoes DEF PipeCommon
<1>2. play.phase # "edit" /\ Awaited \subseteq {"previewed"} /\ play.count < play.items
  BY <1>1 DEF TourIsFrozen
<1>3. t.what = "previewed"
  BY <1>1, <1>2 DEF Awaited
<1>4. play'.timers = play.timers \ {t} /\ play'.phase = "preview" /\ play'.count = play.count
  BY <1>1, <1>3 DEF PhaseAfter
<1>5. Awaited' \subseteq {"previewed"}
  BY <1>2, <1>4 DEF Awaited
<1>6. QED
  BY <1>1, <1>2, <1>4, <1>5 DEF TourIsFrozen

LEMMA TourOpensAgain == ASSUME PipeCommon, Reset \/ SwitchTabs PROVE TourIsFrozen'
<1>1. play'.tool = play.tool /\ play'.timers = {} /\ play'.phase = Opened(play.tool).phase
  BY OpensAgain DEF PipeCommon
<1>2. Awaited' = {}
  BY <1>1 DEF Awaited
<1>3. play.tool = "onboardkit" => Opened(play.tool).phase = "edit"
  BY DEF Opened
<1>4. QED
  BY <1>1, <1>2, <1>3 DEF TourIsFrozen

DataActions ==
    \/ ReadFile \/ FileLands \/ LoadSample \/ ValidateRows
    \/ LoadSamples \/ RemoveFile \/ StartProcessing \/ EditQuery \/ RunQuery

\* Of the two demos that take data.
LEMMA DataActionsKeep ==
    ASSUME PipeCommon, DataIsFrozen, DataActions
    PROVE  /\ PipeCommon' /\ play'.tool = play.tool /\ play.tool \in {"datapour", "vectorvault"}
           /\ DataIsFrozen'
<1>a. /\ DOMAIN play = PlayFields /\ play.items \in Nat /\ play.count \in Nat /\ readings \in Nat
      /\ DOMAIN tracks = {"fresh", "cut", "raced"}
      /\ readings > 0 => play.tool \in {"datapour", "vectorvault"}
  BY DEF PipeCommon, PipeTypes
<1>b. play.tool \in {"datapour", "vectorvault"}
  BY <1>a DEF DataActions, ReadFile, FileLands, LoadSample, ValidateRows, LoadSamples, RemoveFile,
     StartProcessing, EditQuery, RunQuery, DataPanel, UploadPhase, QueryBar, At
<1>c. /\ play.phase = "upload" => play.timers = {} /\ play.done = {} /\ play.busy = {}
      /\ Awaited \subseteq {"results", "ready", "answered"}
      /\ play.phase # "upload" /\ ~tracks.raced => readings = 0 /\ play.count = play.items
  BY <1>b DEF DataIsFrozen
<1>d. BusyEnds /\ ResetIsFinal /\ NothingComes
  BY DEF PipeCommon
<1>1. ASSUME NEW new, Input(new), AllFields(new), new.busy = play.busy, new.timers = play.timers,
             new.phase = play.phase, new.done = play.done, new.count = play.count,
             play.phase # "upload" => new.items = play.items
      PROVE  PipeCommon' /\ play'.tool = play.tool /\ DataIsFrozen'
  <2>1. PipeCommon' /\ play' = new /\ UNCHANGED readings /\ tracks'.raced = tracks.raced
    BY <1>1, InputKeeps
  <2>2. Awaited' = Awaited
    BY <1>1, <2>1 DEF Awaited
  <2>3. QED
    BY <1>1, <1>c, <2>1, <2>2 DEF DataIsFrozen, AllFields
<1>2. CASE ReadFile
  <2>1. play' = play /\ readings' = readings + 1 /\ tracks' = [tracks EXCEPT !.fresh = FALSE] /\ play.phase = "upload"
    BY <1>2 DEF ReadFile, DataPanel, UploadPhase, At
  <2>2. /\ DOMAIN tracks' = {"fresh", "cut", "raced"} /\ tracks'.fresh = FALSE
        /\ tracks'.cut = tracks.cut /\ tracks'.raced = tracks.raced
    BY <1>a, <2>1
  <2>3. PipeTypes'
    BY <1>a, <1>b, <2>1, <2>2 DEF PipeTypes
  <2>4. Awaited' = Awaited
    BY <2>1 DEF Awaited
  <2>5. BusyEnds' /\ ResetIsFinal' /\ NothingComes'
    BY <1>d, <2>1, <2>2, <2>4 DEF BusyEnds, ResetIsFinal, NothingComes
  <2>6. DataIsFrozen'
    BY <1>c, <2>1, <2>4 DEF DataIsFrozen
  <2>7. QED
    BY <1>b, <2>1, <2>3, <2>5, <2>6 DEF PipeCommon
<1>3. CASE FileLands
  <2>1. readings > 0 /\ readings' = readings - 1 /\ UNCHANGED tracks
    BY <1>3 DEF FileLands
  <2>2. /\ DOMAIN play' = PlayFields /\ play'.tool = play.tool /\ play'.items \in Nat
        /\ play'.count = play.count /\ play'.timers = play.timers /\ play'.busy = play.busy
        /\ play'.done = play.done /\ play'.phase = play.phase
    <3>1. CASE play.tool = "datapour" /\ play' = [play EXCEPT !.items = 2]
      BY <1>a, <3>1 DEF PlayFields
    <3>2. ASSUME NEW n \in 1..MaxFiles,
                 play' = [play EXCEPT !.items = Min({@ + n, MaxFiles}), !.given = @ \ {"samples"}]
          PROVE  /\ DOMAIN play' = PlayFields /\ play'.tool = play.tool /\ play'.items \in Nat
                 /\ play'.count = play.count /\ play'.timers = play.timers /\ play'.busy = play.busy
                 /\ play'.done = play.done /\ play'.phase = play.phase
      <4> DEFINE more == Min({play.items + n, MaxFiles})
                 rest == play.given \ {"samples"}
      <4>1. play' = [play EXCEPT !.items = more, !.given = rest]
        BY <3>2
      <4>2. more \in Nat
        <5>1. play.items + n \in Nat /\ MaxFiles \in Nat
          BY <1>a, PipelinesAssumption
        <5>2. \E x \in {play.items + n, MaxFiles} : \A y \in {play.items + n, MaxFiles} : x <= y
          BY <5>1
        <5>3. QED
          BY <5>1, <5>2 DEF Min
      <4> HIDE DEF more, rest
      <4>3. QED
        BY <1>a, <4>1, <4>2 DEF PlayFields
    <3>3. QED
      BY <1>3, <3>1, <3>2 DEF FileLands
  <2>4. PipeTypes'
    BY <1>a, <1>b, <2>1, <2>2 DEF PipeTypes
  <2>5. Awaited' = Awaited
    BY <2>2 DEF Awaited
  <2>6. BusyEnds' /\ ResetIsFinal' /\ NothingComes'
    BY <1>d, <2>1, <2>2, <2>5 DEF BusyEnds, ResetIsFinal, NothingComes
  <2>7. play.phase # "upload" => tracks.raced
    BY <1>a, <1>c, <2>1
  <2>8. DataIsFrozen'
    BY <1>c, <2>1, <2>2, <2>5, <2>7 DEF DataIsFrozen
  <2>9. QED
    BY <1>b, <2>1, <2>2, <2>4, <2>6, <2>8 DEF PipeCommon
<1>4. CASE LoadSample
  <2> DEFINE new == [play EXCEPT !.items = 1]
  <2>1. Input(new) /\ play.phase = "upload"
    BY <1>4 DEF LoadSample, DataPanel, At
  <2>2. /\ AllFields(new) /\ new.busy = play.busy /\ new.timers = play.timers /\ new.phase = play.phase
        /\ new.done = play.done /\ new.count = play.count
    BY <1>a DEF AllFields, PlayFields
  <2> HIDE DEF new
  <2>3. QED
    BY <1>1, <1>b, <2>1, <2>2
<1>5. ASSUME NEW name \in {"results", "ready"}, NEW phase \in {"validate", "processing"}, play.phase = "upload",
             play' = [play EXCEPT !.phase = phase, !.count = play.items, !.timers = After(<<name>>)],
             tracks' = [tracks EXCEPT !.fresh = FALSE, !.raced = readings > 0], UNCHANGED readings
      PROVE  PipeCommon' /\ play'.tool = play.tool /\ DataIsFrozen'
  <2> DEFINE timers == {[what |-> name, at |-> 1]}
             raced == readings > 0
  <2>1. play' = [play EXCEPT !.phase = phase, !.count = play.items, !.timers = timers]
    BY <1>5, AfterOne
  <2>2. {t.what : t \in timers} = {name}
    OBVIOUS
  <2>3. tracks' = [tracks EXCEPT !.fresh = FALSE, !.raced = raced]
    BY <1>5
  <2> HIDE DEF timers, raced
  <2>4. /\ DOMAIN play' = PlayFields /\ play'.tool = play.tool /\ play'.phase = phase /\ play'.busy = play.busy
        /\ play'.items = play.items /\ play'.count = play.items /\ play'.timers = timers
    BY <1>a, <2>1 DEF PlayFields
  <2>5. /\ DOMAIN tracks' = {"fresh", "cut", "raced"} /\ tracks'.fresh = FALSE /\ tracks'.raced = raced
    BY <1>a, <2>3
  <2>6. PipeTypes'
    BY <1>a, <1>b, <1>5, <2>4, <2>5 DEF PipeTypes
  <2>7. Awaited' = {name} /\ play'.busy = {}
    BY <1>c, <1>5, <2>2, <2>4 DEF Awaited
  <2>8. BusyEnds' /\ ResetIsFinal' /\ NothingComes'
    BY <2>5, <2>7 DEF BusyEnds, ResetIsFinal, NothingComes
  <2>9. ~raced => readings' = 0
    BY <1>a, <1>5 DEF raced
  <2>10. DataIsFrozen'
    BY <1>5, <2>4, <2>5, <2>7, <2>9 DEF DataIsFrozen
  <2>11. QED
    BY <2>4, <2>6, <2>8, <2>10 DEF PipeCommon
<1>6. CASE ValidateRows
  BY <1>5, <1>6, <1>b DEF ValidateRows, DataPanel, At
<1>7. CASE LoadSamples
  <2> DEFINE new == [play EXCEPT !.items = 2, !.given = @ \cup {"samples"}]
  <2>1. Input(new) /\ play.phase = "upload"
    BY <1>7 DEF LoadSamples, UploadPhase, At
  <2>2. /\ AllFields(new) /\ new.busy = play.busy /\ new.timers = play.timers /\ new.phase = play.phase
        /\ new.done = play.done /\ new.count = play.count
    BY <1>a DEF AllFields, PlayFields
  <2> HIDE DEF new
  <2>3. QED
    BY <1>1, <1>b, <2>1, <2>2
<1>8. CASE RemoveFile
  <2> DEFINE new == [play EXCEPT !.items = play.items - 1]
  <2>1. Input(new) /\ play.phase = "upload" /\ play.items > 0
    BY <1>8 DEF RemoveFile, UploadPhase, At
  <2>2. /\ AllFields(new) /\ new.busy = play.busy /\ new.timers = play.timers /\ new.phase = play.phase
        /\ new.done = play.done /\ new.count = play.count
    BY <1>a, <2>1 DEF AllFields, PlayFields
  <2> HIDE DEF new
  <2>3. QED
    BY <1>1, <1>b, <2>1, <2>2
<1>9. CASE StartProcessing
  BY <1>5, <1>9, <1>b DEF StartProcessing, UploadPhase, At
<1>10. CASE EditQuery
  <2> DEFINE new == [play EXCEPT !.given = Flipped("query")]
  <2>1. Input(new)
    BY <1>10 DEF EditQuery, Toggle
  <2>2. /\ AllFields(new) /\ new.busy = play.busy /\ new.timers = play.timers /\ new.phase = play.phase
        /\ new.done = play.done /\ new.count = play.count /\ new.items = play.items
    BY <1>a DEF AllFields, PlayFields
  <2> HIDE DEF new
  <2>3. QED
    BY <1>1, <1>b, <2>1, <2>2
<1>11. CASE RunQuery
  <2> DEFINE new == [play EXCEPT !.phase = "query", !.busy = {"answered"}, !.done = @ \ {"answered"}]
  <2>1. Start(new, After(<<"answered">>)) /\ "ready" \in play.done
    BY <1>11 DEF RunQuery, QueryBar
  <2>2. /\ AllFields(new) /\ new.busy = {"answered"} /\ new.phase = "query" /\ new.count = play.count
        /\ new.items = play.items /\ new.tool = play.tool
    BY <1>a DEF AllFields, PlayFields
  <2> HIDE DEF new
  <2>3. /\ PipeCommon' /\ play' = [new EXCEPT !.timers = {[what |-> "answered", at |-> 1]}]
        /\ Awaited' = {"answered"} /\ UNCHANGED readings /\ tracks'.raced = tracks.raced
    BY <2>1, <2>2, StartOneKeeps
  <2>4. /\ play'.tool = play.tool /\ play'.phase = "query" /\ play'.count = play.count
        /\ play'.items = play.items
    BY <2>2, <2>3 DEF AllFields, PlayFields
  <2>5. play.phase # "upload"
    BY <1>c, <2>1
  <2>6. DataIsFrozen'
    BY <1>c, <2>3, <2>4, <2>5 DEF DataIsFrozen
  <2>7. QED
    BY <1>b, <2>3, <2>4, <2>6
<1>12. QED
  BY <1>2, <1>3, <1>4, <1>6, <1>7, <1>8, <1>9, <1>10, <1>11 DEF DataActions

LEMMA DataTimerKeeps ==
    ASSUME PipeCommon, DataIsFrozen, play.tool \in {"datapour", "vectorvault"}, NEW t, TimerFires(t)
    PROVE  DataIsFrozen'
<1>1. /\ t \in play.timers /\ play'.tool = play.tool /\ play'.items = play.items
      /\ play'.phase = PhaseAfter(t.what) /\ UNCHANGED <<readings, tracks>>
      /\ play'.count = (IF t.what \in {"used", "error", "errors", "run", "failing"}
                        THEN play.count + 1 ELSE play.count)
      /\ (t.what \notin {"scheduled", "failing", "delivered"} => play'.timers = play.timers \ {t})
  BY TimerDoes DEF PipeCommon
<1>2. /\ play.phase # "upload" /\ Awaited \subseteq {"results", "ready", "answered"}
      /\ ~tracks.raced => readings = 0 /\ play.count = play.items
  BY <1>1 DEF DataIsFrozen
<1>3. t.what \in {"results", "ready", "answered"}
  BY <1>1, <1>2 DEF Awaited
<1>4. play'.timers = play.timers \ {t} /\ play'.phase \in {"results", play.phase} /\ play'.count = play.count
  BY <1>1, <1>3 DEF PhaseAfter
<1>5. Awaited' \subseteq {"results", "ready", "answered"}
  BY <1>2, <1>4 DEF Awaited
<1>6. QED
  BY <1>1, <1>2, <1>4, <1>5 DEF DataIsFrozen

LEMMA DataOpensAgain == ASSUME PipeCommon, Reset \/ SwitchTabs PROVE DataIsFrozen'
<1>1. /\ play'.tool = play.tool /\ play'.timers = {} /\ play'.busy = {} /\ play'.done = {}
      /\ play'.phase = Opened(play.tool).phase
  BY OpensAgain DEF PipeCommon
<1>2. Awaited' = {}
  BY <1>1 DEF Awaited
<1>3. play.tool \in {"datapour", "vectorvault"} => Opened(play.tool).phase = "upload"
  BY DEF Opened
<1>4. QED
  BY <1>1, <1>2, <1>3 DEF DataIsFrozen

\* The parts of one demo say nothing of another.
LEMMA OtherDemos ==
    ASSUME play'.tool = play.tool
    PROVE  /\ play.tool # "notifystack" => ChannelsBeforeReport'
           /\ play.tool # "sentinellog" => ErrorsBeforeIssues'
           /\ play.tool # "onboardkit" => TourIsFrozen'
           /\ play.tool \notin {"datapour", "vectorvault"} => DataIsFrozen'
BY DEF ChannelsBeforeReport, ErrorsBeforeIssues, TourIsFrozen, DataIsFrozen

\* For any number of files, errors, tour steps and readings: what says that it is running
\* will end unless another pipeline of its demo cut it off, no timer of an earlier run comes in
\* after a reset, and results are of the whole input shown unless a file was being read when
\* they were made (usePipelineRunner, the demos' handlers and resets).
THEOREM InteractiveDemosAreSound ==
    PipelinesInit /\ [][PipelinesNext]_pipeVars => []PipelinesAreSound
<1>1. PipelinesInit => PipeInv
  <2>1. SUFFICES ASSUME PipelinesInit PROVE PipeInv
    OBVIOUS
  <2>2. PICK bench \in Demos : play = Opened(bench)
    BY <2>1 DEF PipelinesInit
  <2>3. readings = 0 /\ tracks = [fresh |-> TRUE, cut |-> {}, raced |-> FALSE]
    BY <2>1 DEF PipelinesInit
  <2>4. /\ DOMAIN play = PlayFields /\ play.tool = bench /\ play.timers = {} /\ play.busy = {}
        /\ play.done = {} /\ play.count = 0 /\ play.items \in Nat
        /\ (bench = "notifystack" => play.given = DOMAIN Channels /\ play.phase = "compose")
        /\ (bench = "sentinellog" => play.phase = "capture")
        /\ (bench = "onboardkit" => play.phase = "edit")
        /\ (bench \in {"datapour", "vectorvault"} => play.phase = "upload")
    BY <2>2 DEF Opened, PlayFields
  <2>5. Awaited = {}
    BY <2>4 DEF Awaited
  <2>6. PipeCommon
    BY <2>2, <2>3, <2>4 DEF PipeCommon, PipeTypes, BusyEnds, ResetIsFinal, NothingComes
  <2>7. ChannelsBeforeReport /\ ErrorsBeforeIssues /\ TourIsFrozen /\ DataIsFrozen
    BY <2>4, <2>5 DEF ChannelsBeforeReport, ErrorsBeforeIssues, TourIsFrozen, DataIsFrozen
  <2>8. QED
    BY <2>6, <2>7 DEF PipeInv
<1>2. PipeInv /\ [PipelinesNext]_pipeVars => PipeInv'
  <2> SUFFICES ASSUME PipeInv, [PipelinesNext]_pipeVars PROVE PipeInv'
    OBVIOUS
  <2>a. PipeCommon /\ PipeTypes /\ ChannelsBeforeReport /\ ErrorsBeforeIssues /\ TourIsFrozen /\ DataIsFrozen
    BY DEF PipeInv, PipeCommon
  <2>1. CASE PlainActions
    BY <2>a, <2>1, PlainActionsKeep, OtherDemos DEF PipeInv, PlainDemos
  <2>2. CASE (\E c \in DOMAIN Channels : ToggleChannel(c)) \/ Notify
    BY <2>a, <2>2, NotifyActionsKeep, OtherDemos DEF PipeInv
  <2>3. CASE Simulate \/ AnalyzeErrors \/ SendAlert
    BY <2>a, <2>3, SentinelActionsKeep, OtherDemos DEF PipeInv
  <2>4. CASE TourActions
    BY <2>a, <2>4, TourActionsKeep, OtherDemos DEF PipeInv
  <2>5. CASE DataActions
    BY <2>a, <2>5, DataActionsKeep, OtherDemos DEF PipeInv
  <2>6. ASSUME NEW t, TimerFires(t) PROVE PipeInv'
    <3>1. PipeCommon' /\ play'.tool = play.tool
      BY <2>a, <2>6, TimerKeeps, TimerDoes
    <3>2. QED
      BY <2>a, <2>6, <3>1, NotifyTimerKeeps, SentinelTimerKeeps, TourTimerKeeps, DataTimerKeeps,
         OtherDemos DEF PipeInv
  <2>7. CASE Reset \/ SwitchTabs
    BY <2>a, <2>7, OpenedKeeps, NotifyOpensAgain, SentinelOpensAgain, TourOpensAgain, DataOpensAgain DEF PipeInv
  <2>8. CASE UNCHANGED pipeVars
    <3>1. UNCHANGED <<play, readings, tracks>>
      BY <2>8 DEF pipeVars
    <3>2. Awaited' = Awaited /\ Due' = Due
      BY <3>1 DEF Awaited, Due, ReportAt
    <3>3. PipeCommon'
      BY <2>a, <3>1, <3>2 DEF PipeCommon, PipeTypes, BusyEnds, ResetIsFinal, NothingComes
    <3>4. ChannelsBeforeReport' /\ ErrorsBeforeIssues' /\ TourIsFrozen' /\ DataIsFrozen'
      BY <2>a, <3>1, <3>2 DEF ChannelsBeforeReport, ErrorsBeforeIssues, TourIsFrozen, DataIsFrozen
    <3>5. QED
      BY <3>3, <3>4 DEF PipeInv
  <2>9. QED
    BY <2>1, <2>2, <2>3, <2>4, <2>5, <2>6, <2>7, <2>8 DEF PipelinesNext, PlainActions, TourActions, DataActions
<1>3. PipeInv => PipelinesAreSound
  <2>1. SUFFICES ASSUME PipeInv PROVE ResultsMatchInput
    BY DEF PipeInv, PipeCommon, PipelinesAreSound
  <2>2. ReportPanel => play.given \subseteq play.done
    BY <2>1 DEF PipeInv, ChannelsBeforeReport, ReportPanel, At
  <2>3. play.tool = "sentinellog" /\ play.phase # "capture" => play.count = Errors
    BY <2>1 DEF PipeInv, ErrorsBeforeIssues
  <2>4. TourPanel => play.count < play.items
    BY <2>1 DEF PipeInv, TourIsFrozen, TourPanel, At
  <2>5. play.tool \in {"datapour", "vectorvault"} /\ play.phase # "upload" /\ ~tracks.raced =>
            play.count = play.items
    BY <2>1 DEF PipeInv, DataIsFrozen
  <2>6. QED
    BY <2>2, <2>3, <2>4, <2>5 DEF ResultsMatchInput
<1>4. QED
  BY <1>1, <1>2, <1>3, PTL

(***************************************************************************)
(* All pages together.                                                     *)
(***************************************************************************)

\* What the pages do while they are open is what their own modules let them do, and a page
\* that is closed rests; the approver's and the administrator's page share their gate.
PagesRest ==
    /\ [ClientNext]_clientVars /\ [KeysNext]_keysVars /\ [DashNext]_dashVars
    /\ [SubmitNext]_submitVars /\ [StatusNext]_statusVars /\ [MarketNext]_marketVars
    /\ [DemoNext]_demoVars /\ [PipelinesNext]_pipeVars

LEMMA PagesRestStep == [WebNext]_webVars => PagesRest
<1> SUFFICES ASSUME [WebNext]_webVars PROVE PagesRest
  OBVIOUS
<1>1. CASE InClient /\ ClientNext
  BY <1>1 DEF InClient, PagesRest
<1>2. CASE InApprover /\ ApproverNext
  BY <1>2 DEF InApprover, PagesRest
<1>3. CASE InAdmin /\ AdminNext
  BY <1>3 DEF InAdmin, PagesRest
<1>4. CASE InKeys /\ KeysNext
  BY <1>4 DEF InKeys, PagesRest
<1>5. CASE InDashboard /\ DashNext
  BY <1>5 DEF InDashboard, PagesRest
<1>6. CASE InSubmit /\ SubmitNext
  BY <1>6 DEF InSubmit, PagesRest
<1>7. CASE InStatus /\ StatusNext
  BY <1>7 DEF InStatus, PagesRest
<1>8. CASE InMarketplace /\ MarketNext
  BY <1>8 DEF InMarketplace, PagesRest
<1>9. CASE InPlayground /\ DemoNext
  BY <1>9 DEF InPlayground, PagesRest
<1>10. CASE InDemo /\ PipelinesNext
  BY <1>10 DEF InDemo, PagesRest
<1>11. CASE UNCHANGED webVars
  BY <1>11 DEF webVars, PagesRest
<1>12. QED
  BY <1>1, <1>2, <1>3, <1>4, <1>5, <1>6, <1>7, <1>8, <1>9, <1>10, <1>11 DEF WebNext

\* A page with variables of its own runs by its module whichever page is open.
LEMMA PagesRunAlone ==
    WebSpec => /\ ClientInit /\ [][ClientNext]_clientVars
               /\ KeysSpec /\ DashInit /\ [][DashNext]_dashVars
               /\ SubmitSpec /\ MarketSpec /\ DemoSpec
               /\ PipelinesInit /\ [][PipelinesNext]_pipeVars
<1>1. WebInit => /\ ClientInit /\ KeysInit /\ DashInit /\ SubmitInit /\ MarketInit /\ DemoInit
                 /\ PipelinesInit
  BY DEF WebInit
<1>2. [WebNext]_webVars => /\ [ClientNext]_clientVars /\ [KeysNext]_keysVars /\ [DashNext]_dashVars
                           /\ [SubmitNext]_submitVars /\ [MarketNext]_marketVars
                           /\ [DemoNext]_demoVars /\ [PipelinesNext]_pipeVars
  BY PagesRestStep DEF PagesRest
<1>3. QED
  BY <1>1, <1>2, PTL DEF WebSpec, KeysSpec, SubmitSpec, MarketSpec, DemoSpec

\* The two pages behind the gate: the gate holds on both, and the list of users is not
\* even loaded on another page.
GatedInv ==
    /\ GateInv /\ ReasonInv
    /\ open = "admin" => AdminInv
    /\ open # "admin" => view.status = "loading"

LEMMA GatedStep == GatedInv /\ [WebNext]_webVars => GatedInv'
<1> SUFFICES ASSUME GatedInv, [WebNext]_webVars PROVE GatedInv'
  OBVIOUS
<1>0. GateInv /\ ReasonInv
  BY DEF GatedInv
<1>1. CASE InApprover /\ ApproverNext
  <2>1. open = "approver" /\ open' = "approver" /\ view' = view
    BY <1>1 DEF InApprover
  <2>2. GateInv' /\ ReasonInv'
    BY <1>0, <1>1, ApproverGateStep, ReasonStep
  <2>3. QED
    BY <2>1, <2>2 DEF GatedInv
<1>2. CASE InAdmin /\ AdminNext
  <2>1. open = "admin" /\ open' = "admin" /\ UNCHANGED <<tools, decisions>>
    BY <1>2 DEF InAdmin
  <2>2. GateInv' /\ AdminInv'
    BY <1>0, <1>2, <2>1, AdminGateStep, AdminStep DEF GatedInv
  <2>3. ReasonInv'
    BY <1>0, <2>1 DEF ReasonInv
  <2>4. QED
    BY <2>1, <2>2, <2>3 DEF GatedInv
<1>3. CASE /\ UNCHANGED <<open, approverVars, adminVars>>
  <2>1. GateInv'
    <3>1. [ApproverNext]_approverVars
      BY <1>3
    <3>2. QED
      BY <1>0, <3>1, ApproverGateStep
  <2>2. ReasonInv'
    BY <1>0, <1>3, ReasonStep
  <2>3. open = "admin" => AdminInv'
    BY <1>3, AdminStep DEF GatedInv
  <2>4. view' = view /\ open' = open
    BY <1>3 DEF adminVars
  <2>5. QED
    BY <2>1, <2>2, <2>3, <2>4 DEF GatedInv
<1>4. QED
  <2>1. ASSUME ~(InApprover /\ ApproverNext), ~(InAdmin /\ AdminNext)
        PROVE  UNCHANGED <<open, approverVars, adminVars>>
    BY <2>1 DEF WebNext, webVars, InClient, InKeys, InDashboard, InSubmit, InStatus, InMarketplace,
                InPlayground, InDemo
  <2>2. QED
    BY <1>1, <1>2, <1>3, <2>1

\* What the two theorems say of the playground and of the interactive demos, with their
\* exceptions, whichever page is open (DemoRunner, DynamicForm,
\* usePipelineRunner and the demos' resets).
THEOREM DemosStaySound == WebSpec => []DemosAreSound
<1>1. DemoIsSound /\ PipelinesAreSound => DemosAreSound
  BY DEF DemosAreSound
<1>2. QED
  BY <1>1, PagesRunAlone, PlaygroundIsSound, InteractiveDemosAreSound, PTL

\* What each page promises holds of the whole front end.
PagesAreCorrect ==
    /\ WriteOnce /\ GateIsGuarded /\ DecisionsCarryReason /\ UsersAreCurrent /\ KeysAreCurrent
    /\ OwnDataOnly /\ SubmittedAsReviewed /\ ShowsWhatWasAsked /\ DemosAreSound

\* Every safety property of the pages, for any number of everything they count, under the
\* one specification of the front end.
THEOREM PagesStayCorrect == WebSpec => []PagesAreCorrect
<1>1. WebInit => GatedInv
  <2> SUFFICES ASSUME WebInit PROVE GatedInv
    OBVIOUS
  <2>1. ApproverInit /\ AdminInit
    BY DEF WebInit
  <2>2. GateInv /\ ReasonInv /\ AdminInv
    BY <2>1, GateStarts, ReasonStarts, AdminStarts DEF ApproverInit
  <2>3. view.status = "loading"
    BY <2>1 DEF AdminInit, NoView
  <2>4. QED
    BY <2>2, <2>3 DEF GatedInv
<1>2. GatedInv => GateIsGuarded /\ DecisionsCarryReason /\ UsersAreCurrent
  <2> SUFFICES ASSUME GatedInv PROVE GateIsGuarded /\ DecisionsCarryReason /\ UsersAreCurrent
    OBVIOUS
  <2>1. GateIsGuarded /\ DecisionsCarryReason
    BY ReasonsShow DEF GatedInv, GateInv
  <2>2. UsersAreCurrent
    <3>1. CASE open = "admin"
      BY <3>1, AdminShows DEF GatedInv
    <3>2. CASE open # "admin"
      BY <3>2 DEF GatedInv, UsersAreCurrent
    <3>3. QED
      BY <3>1, <3>2
  <2>3. QED
    BY <2>1, <2>2
<1>3. WebSpec => [](GateIsGuarded /\ DecisionsCarryReason /\ UsersAreCurrent)
  BY <1>1, <1>2, GatedStep, PTL DEF WebSpec
<1>4. WebSpec => [](WriteOnce /\ OwnDataOnly)
  BY PagesRunAlone, ClientRunsSafely, DashboardRunsSafely, PTL
<1>5. WebSpec => [](KeysAreCurrent /\ SubmittedAsReviewed /\ ShowsWhatWasAsked)
  BY PagesRunAlone, KeysStayCurrent, ListingsAreReviewed, SectionsShowWhatWasAsked, PTL
<1>6. /\ WriteOnce /\ GateIsGuarded /\ DecisionsCarryReason /\ UsersAreCurrent /\ KeysAreCurrent
      /\ OwnDataOnly /\ SubmittedAsReviewed /\ ShowsWhatWasAsked /\ DemosAreSound
      => PagesAreCorrect
  BY DEF PagesAreCorrect
<1>7. QED
  BY <1>3, <1>4, <1>5, <1>6, DemosStaySound, PTL
================================================================================
