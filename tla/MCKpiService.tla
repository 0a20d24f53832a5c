---------------------------- MODULE MCKpiService ----------------------------
(***************************************************************************)
(* A small race with a KPI service: three participants of two departments. *)
(* Once, instead of a race, the result sets of ResultSets are gone         *)
(* through: a set that has rows excludes every other step, until it is     *)
(* full and the first one comes back.                                      *)
(***************************************************************************)
EXTENDS KpiService, ResultSets

CONSTANTS p1, p2, p3, nice, cannes

MCParticipants == {p1, p2, p3}
MCIdents == <<cannes, nice>>
MCIdentOf == [p \in MCParticipants |-> IF p = p1 THEN cannes ELSE nice]

MCInit == Init /\ RowsInit

MCNext ==
  \/ rows = <<>> /\ Next /\ UNCHANGED rows
  \/ Init /\ RowsNext /\ UNCHANGED vars
  \/ Len(rows) = MaxRows /\ rows' = <<>> /\ UNCHANGED vars

\* The race and the calls alone.
KpiSpec == Init /\ RowsInit /\ [][Next /\ UNCHANGED rows]_<<vars, rows>>

MCSpec ==
  /\ MCInit /\ [][MCNext]_<<vars, rows>>
  /\ WF_<<vars, rows>>(rows = <<>> /\ (Select \/ ProcedureEnds \/ Respond) /\ UNCHANGED rows)
=============================================================================
