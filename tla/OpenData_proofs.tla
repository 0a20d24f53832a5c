--------------------------- MODULE OpenData_proofs ---------------------------
(***************************************************************************)
(* Theorems about the open-data dashboard, for any datasets and whatever   *)
(* is counted of their records.                                            *)
(***************************************************************************)
EXTENDS OpenData, TLAPS, FiniteSetTheorems, WellFoundedInduction

\* A dataset has as many charts as fields to group by, and no fewer than one.
LEMMA DrawnCharts ==
  ASSUME NEW d \in Datasets
  PROVE  Len(ChartsOf(d)) = Groups[d] /\ ChartsOf(d) # <<>>
<1> DEFINE n == Groups[d]
<1>1. n \in Nat \ {0}
  BY GroupsAssumption
<1>2. /\ ChartsOf(d) = [g \in 1 .. n |-> ChartsOf(d)[g]]
      /\ DOMAIN ChartsOf(d) = 1 .. n
  BY DEF ChartsOf
<1> HIDE DEF n
<1>3. Len(ChartsOf(d)) = n
  BY <1>1, <1>2
<1>4. ChartsOf(d) # <<>>
  BY <1>1, <1>3
<1> QED
  BY <1>3, <1>4 DEF n

\* What a throw leaves is not nothing either.
LEMMA NoCut == \A d \in Datasets : \A n \in 1 .. Groups[d] : Cut(d, n) # <<>>
<1> SUFFICES ASSUME NEW d \in Datasets, NEW n \in 1 .. Groups[d] PROVE Cut(d, n) # <<>>
  OBVIOUS
<1>1. DOMAIN Cut(d, n) = 1 .. n /\ n \in 1 .. n
  BY GroupsAssumption DEF Cut
<1> QED
  BY <1>1

\* The empty page satisfies the invariant.
LEMMA OpenDataInit == DashboardInit => OpenDataInv
BY DEF DashboardInit, OpenDataInv, DashboardTypeOK, ChartsHaveTheirTag, ChartedIsStored, Charted,
       MapHasCharted

\* Clicks and answers preserve what it says of the charts and the tags.
PageInv == DashboardTypeOK /\ ChartsHaveTheirTag /\ ChartedIsStored

LEMMA PageNext == PageInv /\ [DashboardNext]_dashboard => PageInv'
<1> SUFFICES ASSUME PageInv, [DashboardNext]_dashboard PROVE PageInv'
  OBVIOUS
<1> USE DEF PageInv, DashboardTypeOK, ChartsHaveTheirTag, ChartedIsStored, Charted
<1>1. CASE UNCHANGED dashboard
  BY <1>1 DEF dashboard
<1>2. ASSUME NEW d \in Datasets, ClickItem(d)
      PROVE  PageInv'
  BY <1>2 DEF ClickItem
<1>3. ASSUME NEW d \in Datasets, Callback(d)
      PROVE  PageInv'
  <2>1. /\ asked' = [asked EXCEPT ![d] = @ - 1] /\ asked[d] > 0
        /\ dataJsons' = dataJsons \cup {d}
    BY <1>3 DEF Callback
  <2>2. asked' \in [Datasets -> Nat] /\ dataJsons' \subseteq Datasets
    BY <2>1
  <2>3. CASE UNCHANGED <<charts, tags>>
    BY <2>1, <2>2, <2>3
  <2>4. CASE /\ dataJsons' \cap Throwing = {}
             /\ charts[d] = <<>>
             /\ charts' = [charts EXCEPT ![d] = ChartsOf(d)]
             /\ tags' = [tags EXCEPT ![d] = @ + 1]
    <3>1. tags[d] = 0
      BY <2>4, DrawnCharts, NoCut
    <3>2. tags' \in [Datasets -> Nat] /\ DOMAIN charts' = Datasets
      BY <2>4
    <3>3. ChartsHaveTheirTag'
      BY <2>4, <3>1
    <3>4. ChartedIsStored'
      BY <2>1, <2>4
    <3> QED
      BY <2>2, <3>2, <3>3, <3>4
  <2>5. CASE /\ dataJsons' \cap Throwing = {}
             /\ charts[d] = <<>>
             /\ \E n \in 1 .. Groups[d] : charts' = [charts EXCEPT ![d] = Cut(d, n)]
             /\ UNCHANGED tags
    <3>1. tags[d] = 0
      BY <2>5, DrawnCharts, NoCut
    <3>2. DOMAIN charts' = Datasets /\ tags' = tags
      BY <2>5
    <3>3. ChartsHaveTheirTag'
      BY <2>5, <3>1
    <3>4. ChartedIsStored'
      BY <2>1, <2>5
    <3> QED
      BY <2>2, <3>2, <3>3, <3>4
  <2> QED
    BY <1>3, <2>3, <2>4, <2>5 DEF Callback, AddCharts
<1>4. ASSUME NEW d \in Datasets, NoAnswer(d)
      PROVE  PageInv'
  BY <1>4 DEF NoAnswer
<1>5. ASSUME NEW d \in Datasets, ClickTag(d)
      PROVE  PageInv'
  <2>1. tags[d] = 1
    BY <1>5 DEF ClickTag
  <2>2. /\ charts' = [charts EXCEPT ![d] = <<>>]
        /\ tags' = [tags EXCEPT ![d] = 0]
        /\ UNCHANGED <<asked, dataJsons>>
    BY <1>5, <2>1 DEF ClickTag
  <2> QED
    BY <2>2
<1> QED
  BY <1>1, <1>2, <1>3, <1>4, <1>5 DEF DashboardNext

\* And of the map: an answer that draws it has stored every dataset whose
\* charts are on the page, a click on a tag sets it back.
LEMMA MapNext == OpenDataInv /\ [DashboardNext]_dashboard => MapHasCharted'
<1> SUFFICES ASSUME OpenDataInv, [DashboardNext]_dashboard PROVE MapHasCharted'
  OBVIOUS
<1>1. PageInv /\ MapHasCharted
  BY DEF OpenDataInv, PageInv
<1>2. PageInv'
  BY <1>1, PageNext
<1>3. CASE UNCHANGED <<charts, map>>
  BY <1>1, <1>3, Zenon DEF MapHasCharted, Charted
<1>4. CASE map' = Default
  BY <1>4 DEF MapHasCharted
<1>5. CASE map' = getFormattedAllData(dataJsons')
  <2>1. dataJsons' \in SUBSET Datasets /\ Charted' \subseteq dataJsons'
    BY <1>2 DEF PageInv, DashboardTypeOK, ChartedIsStored
  <2> QED
    BY <1>5, <2>1, Zenon DEF MapHasCharted
<1>6. \/ UNCHANGED <<charts, map>>
      \/ map' = Default
      \/ map' = getFormattedAllData(dataJsons')
  <2>1. CASE UNCHANGED dashboard
    BY <2>1, Zenon DEF dashboard
  <2>2. ASSUME NEW d \in Datasets,
               ClickItem(d) \/ Callback(d) \/ NoAnswer(d) \/ ClickTag(d)
        PROVE  \/ UNCHANGED <<charts, map>>
               \/ map' = Default
               \/ map' = getFormattedAllData(dataJsons')
    BY <2>2, Zenon DEF ClickItem, Callback, SetData, NoAnswer, ClickTag
  <2> QED
    BY <2>1, <2>2 DEF DashboardNext
<1> QED
  BY <1>3, <1>4, <1>5, <1>6

LEMMA OpenDataNext == OpenDataInv /\ [DashboardNext]_dashboard => OpenDataInv'
BY PageNext, MapNext DEF OpenDataInv, PageInv

-----------------------------------------------------------------------------
\* A set of datasets is summed by taking its elements one by one.
Element(s) == CHOOSE x \in s : TRUE

\* f is the sum of w, as the fold computes it.
Sums(f, w, S) ==
  f = [s \in SUBSET S |->
         IF s = {} THEN 0 ELSE w[Element(s)] + f[s \ {Element(s)}]]

\* Two functions that sum w are one.
LEMMA OneSum ==
  ASSUME NEW S, IsFiniteSet(S), NEW w, NEW f, NEW g, Sums(f, w, S), Sums(g, w, S)
  PROVE  f = g
<1> DEFINE Bad == {s \in SUBSET S : f[s] # g[s]}
<1> SUFFICES ASSUME Bad # {} PROVE FALSE
  BY Zenon DEF Sums
<1>1. Bad \subseteq FiniteSubsetsOf(S)
  BY FS_FiniteSubsetsOfFinite, Zenon
<1>2. PICK s \in Bad : \A r \in Bad : <<r, s>> \notin StrictSubsetOrdering(S)
  <2> HIDE DEF Bad
  <2> QED
    BY <1>1, FS_StrictSubsetOrderingWellFounded, WFMin, Zenon
<1> DEFINE x == Element(s)
           r == s \ {x}
<1>3. s # {}
  BY <1>2 DEF Sums
<1>4. x \in s
  BY <1>3 DEF Element
<1>5. r \notin Bad
  <2>1. <<r, s>> \in StrictSubsetOrdering(S)
    BY <1>2, <1>4 DEF StrictSubsetOrdering
  <2> QED
    BY <1>2, <2>1
<1>6. r \in SUBSET S /\ s \in SUBSET S
  BY <1>2
<1>7. f[s] = w[x] + f[r] /\ g[s] = w[x] + g[r]
  BY <1>3, <1>6, Zenon DEF Sums
<1> QED
  BY <1>2, <1>5, <1>6, <1>7, Zenon

\* The records of a code in the datasets of T, each with its dataset.
RecordsWith(c, d) == {i \in DOMAIN Records[d] : Records[d][i].code = c}
Pairs(c, T) == UNION {{d} \X RecordsWith(c, d) : d \in T}
Counts(c) == [d \in Datasets |-> Cardinality(RecordsWith(c, d))]

\* They are finite in number.
LEMMA FiniteRecords ==
  ASSUME NEW c, NEW d \in Datasets
  PROVE  IsFiniteSet(RecordsWith(c, d)) /\ Counts(c)[d] \in Nat
<1>1. IsFiniteSet(DOMAIN Records[d]) /\ RecordsWith(c, d) \in SUBSET DOMAIN Records[d]
  BY RecordsAssumption, Zenon DEF RecordsWith
<1>2. IsFiniteSet(RecordsWith(c, d))
  BY <1>1, FS_Subset, Zenon
<1> QED
  BY <1>2, FS_CardinalityType, Zenon DEF Counts

\* As many pairs as records.
LEMMA PairsOfOne ==
  ASSUME NEW c, NEW d \in Datasets
  PROVE  /\ IsFiniteSet({d} \X RecordsWith(c, d))
         /\ Cardinality({d} \X RecordsWith(c, d)) = Counts(c)[d]
<1> DEFINE R == RecordsWith(c, d)
           P == {d} \X R
           f == [i \in R |-> <<d, i>>]
<1>1. f \in Bijection(R, P)
  <2>1. f \in [R -> P]
    OBVIOUS
  <2>2. \A i, j \in R : f[i] = f[j] => i = j
    OBVIOUS
  <2>3. \A p \in P : \E i \in R : f[i] = p
    OBVIOUS
  <2> HIDE DEF f, P, R
  <2> QED
    BY <2>1, <2>2, <2>3, Zenon DEF Bijection, Injection, Surjection, IsInjective
<1>2. ExistsBijection(R, P)
  BY <1>1, Zenon DEF ExistsBijection
<1>3. IsFiniteSet(R)
  BY FiniteRecords
<1>4. IsFiniteSet(P) /\ Cardinality(P) = Cardinality(R)
  <2> HIDE DEF P, R
  <2> QED
    BY <1>2, <1>3, FS_Bijection, Zenon
<1> QED
  BY <1>4, Zenon DEF Counts

\* The pairs are finite in number.
LEMMA FinitePairs ==
  ASSUME NEW c, NEW T \in SUBSET Datasets
  PROVE  IsFiniteSet(Pairs(c, T)) /\ Cardinality(Pairs(c, T)) \in Nat
<1> DEFINE all == {{d} \X RecordsWith(c, d) : d \in T}
<1>1. IsFiniteSet(T)
  BY TableAssumption, FS_Subset
<1>2. IsFiniteSet(all)
  <2> DEFINE f == [d \in T |-> {d} \X RecordsWith(c, d)]
  <2>1. f \in Surjection(T, all)
    BY Zenon DEF Surjection
  <2> HIDE DEF f, all
  <2> QED
    BY <1>1, <2>1, FS_Surjection, Zenon
<1>3. \A P \in all : IsFiniteSet(P)
  <2>1. \A d \in T : IsFiniteSet({d} \X RecordsWith(c, d))
    BY PairsOfOne
  <2> QED
    BY <2>1, Zenon
<1> HIDE DEF all
<1>4. IsFiniteSet(UNION all)
  BY <1>2, <1>3, FS_UNION, Zenon
<1>5. IsFiniteSet(Pairs(c, T))
  BY <1>4, Zenon DEF Pairs, all
<1> QED
  BY <1>5, FS_CardinalityType, Zenon

\* A dataset adds its own.
LEMMA PairsOfMore ==
  ASSUME NEW c, NEW T \in SUBSET Datasets, NEW d \in T
  PROVE  Cardinality(Pairs(c, T)) =
           Counts(c)[d] + Cardinality(Pairs(c, T \ {d}))
<1> DEFINE P == {d} \X RecordsWith(c, d)
           Q == Pairs(c, T \ {d})
<1>1. IsFiniteSet(P) /\ Cardinality(P) = Counts(c)[d] /\ Counts(c)[d] \in Nat
  BY PairsOfOne, FiniteRecords
<1>2. IsFiniteSet(Q) /\ Cardinality(Q) \in Nat
  BY FinitePairs
<1>3. P \cap Q = {}
  BY DEF Pairs
<1>4. Pairs(c, T) = P \cup Q
  BY DEF Pairs
<1> HIDE DEF P, Q
<1>5. Cardinality(P \cup Q) = Cardinality(P) + Cardinality(Q) - Cardinality(P \cap Q)
  BY <1>1, <1>2, FS_Union, Zenon
<1>6. Cardinality(P \cap Q) = 0
  BY <1>3, FS_EmptySet
<1>7. Cardinality(Pairs(c, T)) = Counts(c)[d] + Cardinality(Q)
  BY <1>1, <1>2, <1>4, <1>5, <1>6
<1> QED
  BY <1>7 DEF Q

\* So the number of pairs sums the counts.
LEMMA PairsSum ==
  ASSUME NEW c, NEW S \in SUBSET Datasets
  PROVE  Sums([s \in SUBSET S |-> Cardinality(Pairs(c, s))], Counts(c), S)
<1> DEFINE f == [s \in SUBSET S |-> Cardinality(Pairs(c, s))]
<1>1. ASSUME NEW s \in SUBSET S
      PROVE  f[s] = IF s = {} THEN 0
                    ELSE Counts(c)[Element(s)] + f[s \ {Element(s)}]
  <2>1. CASE s = {}
    <3>1. Pairs(c, {}) = {}
      BY DEF Pairs
    <3> QED
      BY <2>1, <3>1, FS_EmptySet
  <2>2. CASE s # {}
    <3>1. Element(s) \in s
      BY <2>2 DEF Element
    <3>2. Cardinality(Pairs(c, s)) = Counts(c)[Element(s)]
                                     + Cardinality(Pairs(c, s \ {Element(s)}))
      BY <3>1, PairsOfMore
    <3> QED
      BY <2>2, <3>2
  <2> QED
    BY <2>1, <2>2
<1> QED
  BY <1>1, Zenon DEF Sums

\* The sum that MapCountsCharted names.
LEMMA SumOfCounts ==
  ASSUME NEW c, NEW S \in SUBSET Datasets
  PROVE  MapThenSumSet(LAMBDA d : Cardinality({i \in DOMAIN Records[d] :
                                                 Records[d][i].code = c}), S)
           = Cardinality(Pairs(c, S))
<1> DEFINE tot == [s \in SUBSET S |-> Cardinality(Pairs(c, s))]
           Fold(f) ==
             f = [s \in SUBSET S |->
                    IF s = {} THEN 0
                    ELSE Cardinality({i \in DOMAIN Records[CHOOSE x \in s : TRUE] :
                            Records[CHOOSE x \in s : TRUE][i].code = c})
                         + f[s \ {CHOOSE x \in s : TRUE}]]
           iter == CHOOSE f : Fold(f)
<1>1. \A f : Fold(f) <=> Sums(f, Counts(c), S)
  <2>1. \A s \in SUBSET S : s # {} =>
          Counts(c)[Element(s)] = Cardinality({i \in DOMAIN Records[Element(s)] :
                                       Records[Element(s)][i].code = c})
    BY Zenon DEF Counts, RecordsWith, Element
  <2> DEFINE pick(s) == CHOOSE x \in s : TRUE
  <2>2. ASSUME NEW f, NEW s \in SUBSET S
        PROVE  (IF s = {} THEN 0
                ELSE Cardinality({i \in DOMAIN Records[pick(s)] :
                                    Records[pick(s)][i].code = c})
                     + f[s \ {pick(s)}])
                 = (IF s = {} THEN 0
                    ELSE Counts(c)[Element(s)] + f[s \ {Element(s)}])
    <3>1. CASE s = {}
      BY <3>1, Zenon
    <3>2. CASE s # {}
      <4>1. pick(s) = Element(s)
        BY Zenon DEF Element
      <4>2. Cardinality({i \in DOMAIN Records[pick(s)] :
                                   Records[pick(s)][i].code = c}) = Counts(c)[Element(s)]
        BY <2>1, <3>2, <4>1, Zenon
      <4> HIDE DEF pick
      <4> QED
        BY <3>2, <4>1, <4>2, Zenon
    <3> QED
      BY <3>1, <3>2, Zenon
  <2> QED
    BY <2>2, Zenon DEF Sums
<1>2. Sums(tot, Counts(c), S)
  BY PairsSum
<1>3. Sums(iter, Counts(c), S)
  <2> HIDE DEF Fold, tot
  <2> QED
    BY <1>1, <1>2, Zenon
<1>4. iter = tot
  <2>1. IsFiniteSet(S)
    BY TableAssumption, FS_Subset
  <2> HIDE DEF iter, tot
  <2> QED
    BY <1>2, <1>3, <2>1, OneSum, Zenon
<1>5. MapThenSumSet(LAMBDA d : Cardinality({i \in DOMAIN Records[d] :
                                                 Records[d][i].code = c}), S) = iter[S]
  BY Zenon DEF MapThenSumSet, MapThenFoldSet
<1> QED
  BY <1>4, <1>5, Zenon

\* The count that the map is given of a code of the table is of all records
\* with the code.
LEMMA MapCounts ==
  ASSUME NEW c \in Table, NEW d \in Datasets
  PROVE  getFormattedData(d)[c] = Counts(c)[d]
<1> DEFINE kept == {i \in DOMAIN Records[d] : Records[d][i].code \notin Beyond}
<1>1. {i \in kept : Records[d][i].code = c} = RecordsWith(c, d)
  BY TableAssumption DEF RecordsWith
<1>2. getFormattedData(d)[c] = Cardinality({i \in kept : Records[d][i].code = c})
  BY Zenon DEF getFormattedData
<1> QED
  BY <1>1, <1>2, Zenon DEF Counts

\* So a code's count on the map is the number of its pairs.
LEMMA SumOfMap ==
  ASSUME NEW c \in Table, NEW S \in SUBSET Datasets
  PROVE  getFormattedAllData(S)[c] = Cardinality(Pairs(c, S))
<1> DEFINE tot == [s \in SUBSET S |-> Cardinality(Pairs(c, s))]
           Fold(f) ==
             f = [s \in SUBSET S |->
                    IF s = {} THEN 0
                    ELSE getFormattedData(CHOOSE x \in s : TRUE)[c]
                         + f[s \ {CHOOSE x \in s : TRUE}]]
           iter == CHOOSE f : Fold(f)
<1>1. \A f : Fold(f) <=> Sums(f, Counts(c), S)
  <2>1. \A s \in SUBSET S : s # {} => Element(s) \in Datasets
    BY DEF Element
  <2>2. \A s \in SUBSET S : s # {} =>
          Counts(c)[Element(s)] = getFormattedData(Element(s))[c]
    BY <2>1, MapCounts
  <2> DEFINE pick(s) == CHOOSE x \in s : TRUE
  <2>3. ASSUME NEW f, NEW s \in SUBSET S
        PROVE  (IF s = {} THEN 0 ELSE getFormattedData(pick(s))[c] + f[s \ {pick(s)}])
                 = (IF s = {} THEN 0
                    ELSE Counts(c)[Element(s)] + f[s \ {Element(s)}])
    <3>1. CASE s = {}
      BY <3>1, Zenon
    <3>2. CASE s # {}
      <4>1. pick(s) = Element(s)
        BY Zenon DEF Element
      <4>2. getFormattedData(pick(s))[c] = Counts(c)[Element(s)]
        BY <2>2, <3>2, <4>1, Zenon
      <4> HIDE DEF pick
      <4> QED
        BY <3>2, <4>1, <4>2, Zenon
    <3> QED
      BY <3>1, <3>2, Zenon
  <2> QED
    BY <2>3, Zenon DEF Sums
<1>2. Sums(tot, Counts(c), S)
  BY PairsSum
<1>3. Sums(iter, Counts(c), S)
  <2> HIDE DEF Fold, tot
  <2> QED
    BY <1>1, <1>2, Zenon
<1>4. iter = tot
  <2>1. IsFiniteSet(S)
    BY TableAssumption, FS_Subset
  <2> HIDE DEF iter, tot
  <2> QED
    BY <1>2, <1>3, <2>1, OneSum, Zenon
<1>5. getFormattedAllData(S)[c] = iter[S]
  BY Zenon DEF getFormattedAllData, MapThenSumSet, MapThenFoldSet
<1> QED
  BY <1>4, <1>5, Zenon

\* A map of datasets that include those with charts counts their records.
LEMMA MapCountsMore == MapHasCharted => MapCountsCharted
<1> SUFFICES ASSUME MapHasCharted, map # Default, NEW c \in Table
             PROVE  map[c] >= MapThenSumSet(
                      LAMBDA d : Cardinality({i \in DOMAIN Records[d] :
                                                Records[d][i].code = c}), Charted)
  BY Zenon DEF MapCountsCharted
<1>1. PICK S \in SUBSET Datasets :
        Charted \subseteq S /\ map = getFormattedAllData(S)
  BY DEF MapHasCharted
<1>2. map[c] = Cardinality(Pairs(c, S))
  BY <1>1, SumOfMap
<1>3. Charted \in SUBSET Datasets
  BY DEF Charted
<1>4. MapThenSumSet(LAMBDA d : Cardinality({i \in DOMAIN Records[d] :
                                              Records[d][i].code = c}), Charted)
        = Cardinality(Pairs(c, Charted))
  BY <1>3, SumOfCounts
<1>5. IsFiniteSet(Pairs(c, S)) /\ Cardinality(Pairs(c, S)) \in Nat
  BY FinitePairs
<1>6. Pairs(c, Charted) \in SUBSET Pairs(c, S)
  BY <1>1 DEF Pairs
<1>7. /\ Cardinality(Pairs(c, Charted)) <= Cardinality(Pairs(c, S))
      /\ Cardinality(Pairs(c, Charted)) \in Nat
  BY <1>3, <1>5, <1>6, FS_Subset, FinitePairs
<1>8. Cardinality(Pairs(c, S)) >= Cardinality(Pairs(c, Charted))
  BY <1>5, <1>7
<1> QED
  BY <1>2, <1>4, <1>8, Zenon

-----------------------------------------------------------------------------
\* The invariant of the dashboard holds in every state.
THEOREM OpenDataInvariant == DashboardSpec => []OpenDataInv
<1>1. DashboardInit => OpenDataInv
  BY OpenDataInit
<1>2. OpenDataInv /\ [DashboardNext]_dashboard => OpenDataInv'
  BY OpenDataNext
<1> QED
  BY <1>1, <1>2, PTL DEF DashboardSpec

(***************************************************************************)
(* Whatever the order of clicks and answers and whatever fails to be       *)
(* drawn, a dataset has all its charts and one tag, or neither, or no tag  *)
(* and the charts that a throw left, the last of them undrawn.             *)
(***************************************************************************)
THEOREM TagsStandForCharts == DashboardSpec => []ChartsHaveTheirTag
<1>1. OpenDataInv => ChartsHaveTheirTag
  BY DEF OpenDataInv
<1> QED
  BY <1>1, OpenDataInvariant, PTL

(***************************************************************************)
(* A map that is not the default one counts, for each code of the table,   *)
(* at least the records of every dataset whose charts are on the page.     *)
(***************************************************************************)
THEOREM MapCountsTheCharted == DashboardSpec => []MapCountsCharted
<1>1. OpenDataInv => MapCountsCharted
  BY MapCountsMore DEF OpenDataInv
<1> QED
  BY <1>1, OpenDataInvariant, PTL
=============================================================================
