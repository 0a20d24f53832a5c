------------------------------ MODULE OpenData ------------------------------
(***************************************************************************)
(* The open-data dashboard: an item of the list asks for a dataset with    *)
(* getJSON (events.js); an answer, which may come late and twice, adds it  *)
(* to dataJsons (dataManager.js), draws the map again and, if the page has *)
(* no chart of it, its charts and a tag; a click on the tag removes them.  *)
(* The elements of the dashboard are commented out in views/index.html.    *)
(***************************************************************************)
EXTENDS Naturals, Sequences, FiniteSets, FiniteSetsExt

CONSTANTS
  Datasets,
  Records,      (* of each dataset: its records, see RecordsAssumption     *)
  Groups,       (* of each dataset: the number of fields in data-group-by  *)
  Table,        (* the codes 75101 to 75120 that getFormattedData lists    *)
  Beyond,       (* the codes over 75120                                    *)
  Throwing,     (* datasets with a record that the code formatter cannot   *)
                (* read, such as an address without " - "                  *)
  NaN,
  Undrawn,      (* an element for a chart that is not drawn                *)
  Default,      (* the map's own data                                      *)
  MaxRequests   (* bound on the unanswered requests for a dataset          *)

ASSUME TableAssumption == Table \cap Beyond = {} /\ IsFiniteSet(Datasets)
ASSUME GroupsAssumption == Groups \in [Datasets -> Nat \ {0}]
\* code is what the formatter makes of the joinner, by[g] the value of the
\* g-th field of data-group-by.
ASSUME RecordsAssumption ==
  /\ DOMAIN Records = Datasets
  /\ \A d \in Datasets :
       /\ IsFiniteSet(DOMAIN Records[d])
       /\ \A i \in DOMAIN Records[d] :
            DOMAIN Records[d][i].by = 1 .. Groups[d]
ASSUME BoundAssumption == MaxRequests \in Nat

VARIABLES
  asked,        (* unanswered requests for each dataset                    *)
  dataJsons,    (* the datasets that addDataJson has stored                *)
  charts,       (* the data of the chart elements of each dataset          *)
  tags,         (* the number of its tags                                  *)
  map           (* Default, or the data that setData was last given        *)

dashboard == <<asked, dataJsons, charts, tags, map>>

-----------------------------------------------------------------------------
(***************************************************************************)
(* dataManager.  No item of the list has a value key: a record counts one. *)
(***************************************************************************)
getFormattedData(d) ==
  LET kept == {i \in DOMAIN Records[d] : Records[d][i].code \notin Beyond}
  IN  [c \in Table \cup {Records[d][i].code : i \in kept} |->
         Cardinality({i \in kept : Records[d][i].code = c})]

\* A code that the table lacks is undefined in the sum.
getFormattedAllData(S) ==
  [c \in Table \cup UNION {DOMAIN getFormattedData(d) : d \in S} |->
     IF c \in Table
     THEN MapThenSumSet(LAMBDA d : getFormattedData(d)[c], S)
     ELSE NaN]

\* Also getColumnChartFormattedData, which gives the keys and the counts in
\* two lists.
getChartFormattedData(d, g) ==
  [v \in {Records[d][i].by[g] : i \in DOMAIN Records[d]} |->
     Cardinality({i \in DOMAIN Records[d] : Records[d][i].by[g] = v})]

ChartsOf(d) == [g \in 1 .. Groups[d] |-> getChartFormattedData(d, g)]

-----------------------------------------------------------------------------
ClickItem(d) ==
  /\ asked[d] < MaxRequests
  /\ asked' = [asked EXCEPT ![d] = @ + 1]
  /\ UNCHANGED <<dataJsons, charts, tags, map>>

\* The charts on the page when the n-th could not be drawn: it has been
\* appended and given the class, those after it have not.
Cut(d, n) == [g \in 1 .. n |-> IF g = n THEN Undrawn ELSE ChartsOf(d)[g]]

\* Mutant: charts and tag are added without a look at the page.
UntestedAddCharts(d) ==
  /\ charts' = [charts EXCEPT ![d] = @ \o ChartsOf(d)]
  /\ tags' = [tags EXCEPT ![d] = @ + 1]

\* Only if no element has the class of the dataset.  The call that draws a
\* chart may throw: the KPI that index.html:21 makes has no such function.
AddCharts(d) ==
  IF charts[d] = <<>>
  THEN \/ /\ charts' = [charts EXCEPT ![d] = ChartsOf(d)]
          /\ tags' = [tags EXCEPT ![d] = @ + 1]
       \/ /\ \E n \in 1 .. Groups[d] : charts' = [charts EXCEPT ![d] = Cut(d, n)]
          /\ UNCHANGED tags
  ELSE UNCHANGED <<charts, tags>>

\* Mutant: the map gets the data of the answer alone.
LastSetData(d) == map' = getFormattedAllData({d})

SetData(d) == map' = getFormattedAllData(dataJsons')

\* The callback of getJSON.  It stops after addDataJson if any dataset that
\* was ever stored cannot be formatted.
Callback(d) ==
  /\ asked[d] > 0
  /\ asked' = [asked EXCEPT ![d] = @ - 1]
  /\ dataJsons' = dataJsons \cup {d}
  /\ IF dataJsons' \cap Throwing = {}
     THEN SetData(d) /\ AddCharts(d)
     ELSE UNCHANGED <<charts, tags, map>>

\* getJSON has no callback for a failure.
NoAnswer(d) ==
  /\ asked[d] > 0
  /\ asked' = [asked EXCEPT ![d] = @ - 1]
  /\ UNCHANGED <<dataJsons, charts, tags, map>>

\* The charts of the dataset go, and the tag that was clicked; dataJsons
\* keeps the data.
ClickTag(d) ==
  /\ tags[d] > 0
  /\ charts' = [charts EXCEPT ![d] = <<>>]
  /\ tags' = [tags EXCEPT ![d] = @ - 1]
  /\ map' = Default
  /\ UNCHANGED <<asked, dataJsons>>

DashboardInit ==
  /\ asked = [d \in Datasets |-> 0]
  /\ dataJsons = {}
  /\ charts = [d \in Datasets |-> <<>>]
  /\ tags = [d \in Datasets |-> 0]
  /\ map = Default

DashboardNext ==
  \E d \in Datasets : ClickItem(d) \/ Callback(d) \/ NoAnswer(d) \/ ClickTag(d)

DashboardSpec == DashboardInit /\ [][DashboardNext]_dashboard

-----------------------------------------------------------------------------
DashboardTypeOK ==
  /\ asked \in [Datasets -> Nat]
  /\ dataJsons \subseteq Datasets
  /\ DOMAIN charts = Datasets
  /\ tags \in [Datasets -> Nat]

Charted == {d \in Datasets : charts[d] # <<>>}

(***************************************************************************)
(* Whatever the order of clicks and answers, the charts of a dataset are   *)
(* on the page whole under exactly one tag, or not at all and without a    *)
(* tag, or they end with the one whose drawing threw: those have no tag,   *)
(* nothing removes them, and line 53 keeps every later answer of the       *)
(* dataset from adding its charts until the page is loaded again.          *)
(***************************************************************************)
ChartsHaveTheirTag ==
  \A d \in Datasets :
    \/ charts[d] = <<>> /\ tags[d] = 0
    \/ charts[d] = ChartsOf(d) /\ tags[d] = 1
    \/ tags[d] = 0 /\ \E n \in 1 .. Groups[d] : charts[d] = Cut(d, n)

(***************************************************************************)
(* A map that is not the default one counts, for each code of the table,   *)
(* at least the records of every dataset whose charts are on the page,     *)
(* though datasets come and go (events.js:46-47, 87-90).                   *)
(***************************************************************************)
MapCountsCharted ==
  map # Default =>
    \A c \in Table :
      map[c] >= MapThenSumSet(
                  LAMBDA d : Cardinality({i \in DOMAIN Records[d] :
                                            Records[d][i].code = c}), Charted)

\* Why: the charts on the page are of stored datasets (once one that cannot be
\* formatted is stored no charts are added), and the map was drawn of a set of
\* datasets that had them all.
ChartedIsStored == Charted \subseteq dataJsons \ Throwing

MapHasCharted ==
  map # Default =>
    \E S \in SUBSET Datasets :
      Charted \subseteq S /\ map = getFormattedAllData(S)

OpenDataInv ==
  DashboardTypeOK /\ ChartsHaveTheirTag /\ ChartedIsStored /\ MapHasCharted
=============================================================================
