---------------------------- MODULE KpiResponse -----------------------------
(***************************************************************************)
(* How StoredProcedure.call turns a result set of three columns (IDENT,    *)
(* AXIS, RES) into the series of a line chart: one pass over the rows, a   *)
(* series being put in the response when the next one begins, or when the  *)
(* last row continues it.                                                  *)
(***************************************************************************)
EXTENDS Naturals, Sequences

CONSTANTS
  Null,      (* the NULL of SQL, null in Java                              *)
  Empty      (* the empty string, the initial previousId                   *)

ASSUME NullAssumption == Null # Empty

NoSeries == [name |-> Null, data |-> <<>>]

\* The locals of the loop; open is j with data, failed an exception.
Start ==
  [previousId |-> Empty, open |-> NoSeries, started |-> FALSE,
   series |-> <<>>, categories |-> <<>>, failed |-> FALSE]

\* Mutant: a sorted set in place of the list.
SortedWithCategory(categories, axis) ==
  SelectSeq(categories, LAMBDA c : c < axis) \o <<axis>>
    \o SelectSeq(categories, LAMBDA c : c > axis)

WithCategory(categories, axis) ==
  IF \E i \in 1 .. Len(categories) : categories[i] = axis
  THEN categories
  ELSE Append(categories, axis)

\* previousId.equals(currentId) is false: isFirst decides whether the open
\* series is put.
NewSeries(acc, row, isFirst) ==
  [open   |-> [name |-> row.ident, data |-> <<row.res>>],
   series |-> IF isFirst THEN acc.series ELSE Append(acc.series, acc.open)]

Continued(acc, row) ==
  [name |-> acc.open.name, data |-> Append(acc.open.data, row.res)]

\* Mutant: the continued series is put whether the row is the last or not.
EagerSameSeries(acc, row, isLast) ==
  [open   |-> Continued(acc, row),
   series |-> Append(acc.series, Continued(acc, row))]

\* It is true.
SameSeries(acc, row, isLast) ==
  [open   |-> Continued(acc, row),
   series |-> IF isLast THEN Append(acc.series, Continued(acc, row)) ELSE acc.series]

\* Mutant: equals called on the constant side, which accepts a null.
NullSafeThrows(acc, row) == acc.previousId = row.ident /\ ~acc.started

\* NullPointerException: on previousId, or on data, which is null until a
\* series has begun.
Throws(acc, row) ==
  \/ acc.previousId = Null
  \/ acc.previousId = row.ident /\ ~acc.started

Failed == [Start EXCEPT !.failed = TRUE]

Row(rows, n, acc) ==
  LET row == rows[n]
      put == IF acc.previousId # row.ident
             THEN NewSeries(acc, row, n = 1)
             ELSE SameSeries(acc, row, n = Len(rows))
  IN  IF acc.failed \/ Throws(acc, row)
      THEN Failed
      ELSE [previousId |-> row.ident, open |-> put.open, started |-> TRUE,
            series |-> put.series,
            categories |-> WithCategory(acc.categories, row.axis), failed |-> FALSE]

\* The locals after each row.
After(rows) ==
  LET after[n \in 0 .. Len(rows)] ==
        IF n = 0 THEN Start ELSE Row(rows, n, after[n - 1])
  IN  after

\* What the response holds after the loop; failed stands for a 503.
Response(rows) == After(rows)[Len(rows)]

-----------------------------------------------------------------------------
(***************************************************************************)
(* What a line chart of the rows would hold: a series for each maximal run *)
(* of rows with the same IDENT.                                            *)
(***************************************************************************)
Begins(rows) == {i \in 1 .. Len(rows) : i = 1 \/ rows[i].ident # rows[i - 1].ident}

SeriesFrom(rows, i) ==
  LET later == {j \in Begins(rows) : j > i}
      last  == IF later = {} THEN Len(rows)
               ELSE (CHOOSE j \in later : \A k \in later : j <= k) - 1
  IN  [name |-> rows[i].ident,
       data |-> [k \in 1 .. last - i + 1 |-> rows[i + k - 1].res]]

Chart(rows) == {SeriesFrom(rows, i) : i \in Begins(rows)}
=============================================================================
