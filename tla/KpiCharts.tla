----------------------------- MODULE KpiCharts ------------------------------
(***************************************************************************)
(* What the page draws from a response of the KPI service: the line chart  *)
(* of its series over its categories, and the pie chart of their totals    *)
(* (highchartsUtils.js).                                                   *)
(***************************************************************************)
EXTENDS KpiResponse

\* The label of the k-th point of a series; Highcharts has none of its own
\* for a point beyond the categories.
Label(categories, k) ==
  IF k <= Len(categories) THEN categories[k] ELSE Null

\* createLineChart: a point is drawn over the category of its position.
LinePoints(response) ==
  UNION {{[ident |-> response.series[i].name,
           axis  |-> Label(response.categories, k),
           res   |-> response.series[i].data[k]] :
             k \in DOMAIN response.series[i].data} : i \in DOMAIN response.series}

\* total += this, point by point.
RunningTotal(data) ==
  LET total[k \in 0 .. Len(data)] == IF k = 0 THEN 0 ELSE total[k - 1] + data[k]
  IN  total

Total(data) == RunningTotal(data)[Len(data)]

\* Mutant: total is declared outside of the loop over the series.
RunningPieChart(response) ==
  [i \in DOMAIN response.series |->
     [name  |-> response.series[i].name,
      total |-> Total([j \in 1 .. i |-> Total(response.series[j].data)])]]

\* dataPie: a slice for each series, two for a name that comes twice.
PieChart(response) ==
  [i \in DOMAIN response.series |->
     [name  |-> response.series[i].name,
      total |-> Total(response.series[i].data)]]
=============================================================================
