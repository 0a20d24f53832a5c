---------------------------- MODULE MCDashboards ----------------------------
(***************************************************************************)
(* The two dashboards that were made from other applications, one page     *)
(* open at a time: they share no state.                                    *)
(*                                                                         *)
(* "home": a topper zone of each kind, answers with duplicates and more    *)
(* rows than the max, charts with a point more than their list, and a      *)
(* square zone over even and uneven tables.                                *)
(* "data": three datasets.  The first has two charts and records of one    *)
(* code twice, of a code over 75120 and of one that the table lacks; the   *)
(* second shares a code with it; the third cannot be formatted.            *)
(***************************************************************************)
EXTENDS AdminHome, OpenData

CONSTANTS e1, e2, e3

VARIABLE page

MCRowLists == {<<>>, <<e1>>, <<e1, e1, e2>>, <<e1, e2, e1>>, <<e2, e3, e1, e3>>}
MCLowest == -3

Record(c, by) == [code |-> c, by |-> by]

MCDatasets == {"distributeurs", "centres", "adresses"}
MCGroups == [d \in MCDatasets |-> IF d = "centres" THEN 2 ELSE 1]
MCRecords ==
  [centres |-> <<Record(1, <<1, "a">>), Record(1, <<1, "b">>),
                 Record(30, <<30, "a">>), Record(0, <<0, "b">>)>>,
   distributeurs |-> <<Record(1, <<1>>), Record(2, <<2>>)>>,
   adresses |-> <<Record(2, <<"x">>)>>]

MCvars == <<vars, dashboard, page>>

MCInit == page \in {"home", "data"} /\ Init /\ DashboardInit

MCNext ==
  \/ page = "home" /\ Next /\ UNCHANGED <<dashboard, page>>
  \/ page = "data" /\ DashboardNext /\ UNCHANGED <<vars, page>>

MCSpec ==
  /\ MCInit /\ [][MCNext]_MCvars
  /\ WF_MCvars((GoNext \/ GoPrevious) /\ UNCHANGED <<square, dashboard, page>>)
=============================================================================
