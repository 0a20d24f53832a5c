----------------------------- MODULE ResultSets -----------------------------
(***************************************************************************)
(* KpiResponse and KpiCharts on every result set of at most MaxRows rows.  *)
(* The rows come one by one, so that a state is a result set.              *)
(***************************************************************************)
EXTENDS KpiCharts, FiniteSets, SequencesExt

CONSTANTS
  RowIdents,   (* the values of the column IDENT                           *)
  MaxRows      (* bound on the rows                                        *)

VARIABLE rows

\* RES numbers the row, so that no two series of the chart are equal.
RowsInit == rows = <<>>
RowsNext ==
  /\ Len(rows) < MaxRows
  /\ \E g \in RowIdents, v \in {0, 1} :
       rows' = Append(rows, [ident |-> g, axis |-> v, res |-> Len(rows)])
RowsSpec == RowsInit /\ [][RowsNext]_rows

Sent == {Response(rows).series[i] : i \in 1 .. Len(Response(rows).series)}

\* A last series of a single row is the only one that is lost.
LostSeries ==
  IF rows # <<>> /\ Len(rows) \in Begins(rows)
  THEN {SeriesFrom(rows, Len(rows))} ELSE {}

(***************************************************************************)
(* The series sent are those of the chart, each once and whole, but for a  *)
(* last series of one row (StoredProcedure.java:168-193 puts a series when *)
(* the next begins, and the last only from the branch that continues it).  *)
(* What the loss means for a call is in KpiService, SendsEveryGroup.       *)
(***************************************************************************)
SendsTheChart ==
  ~Response(rows).failed =>
    /\ Sent = Chart(rows) \ LostSeries
    /\ Len(Response(rows).series) = Cardinality(Sent)

(***************************************************************************)
(* The call answers 503 exactly when a null IDENT is followed by a row, or *)
(* when the first IDENT is the empty string that previousId starts with.   *)
(***************************************************************************)
FailsOnNullOrEmpty ==
  Response(rows).failed <=>
    \/ rows # <<>> /\ rows[1].ident = Empty
    \/ \E i \in 1 .. Len(rows) - 1 : rows[i].ident = Null

\* The AXIS of the rows of the series that begins at row i.
AxesFrom(i) ==
  [k \in DOMAIN SeriesFrom(rows, i).data |-> rows[i + k - 1].axis]

\* No series skips an AXIS that the first one has.
Regular ==
  /\ rows # <<>> => IsInjective(AxesFrom(1))
  /\ \A i \in Begins(rows) : IsPrefix(AxesFrom(i), AxesFrom(1))

SentRows ==
  LET n == IF LostSeries = {} THEN Len(rows) ELSE Len(rows) - 1
  IN  {rows[i] : i \in 1 .. n}

(***************************************************************************)
(* The points of a series are drawn over the categories in order, whatever *)
(* the AXIS of their rows was.  If no series skips one, each row that was  *)
(* sent is drawn once and over its own AXIS (StoredProcedure.java:159-199, *)
(* highchartsUtils.js:125-159).                                            *)
(***************************************************************************)
PointsOverTheirAxis ==
  ~Response(rows).failed /\ Regular => LinePoints(Response(rows)) = SentRows

(***************************************************************************)
(* The slices of an IDENT add up to its rows that were sent, also when it  *)
(* comes in several series (highchartsUtils.js:46-57).                     *)
(***************************************************************************)
PieAddsUp ==
  LET pie == PieChart(Response(rows))
  IN  ~Response(rows).failed =>
        \A g \in RowIdents :
          Total([i \in DOMAIN pie |-> IF pie[i].name = g THEN pie[i].total ELSE 0])
            = Total([i \in DOMAIN rows |->
                       IF rows[i] \in SentRows /\ rows[i].ident = g
                       THEN rows[i].res ELSE 0])
=============================================================================
