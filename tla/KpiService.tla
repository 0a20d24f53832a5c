----------------------------- MODULE KpiService -----------------------------
(***************************************************************************)
(* One call of the KPI web service (StoredProcedure.call) for the          *)
(* histogram of lap counts, while the race goes on: the stored procedure   *)
(* nbCoureurDepartement, or nbCoureurSexe, runs one SELECT for each lap    *)
(* count, and the stations insert rows between any two of them.            *)
(***************************************************************************)
EXTENDS RaceLedger, KpiResponse

CONSTANTS
  Idents,        (* the values of the grouping column, in collation order  *)
  IdentOf,       (* PART_ORIGINE, or PART_SEXE, of each participant        *)
  MaxCount,      (* the bound of the procedure's loop: 10 in rdf.sql       *)
  MaxPassages    (* bound on the rows of passage                           *)

ASSUME IdentsAssumption ==
  /\ Len(Idents) \in Nat
  /\ \A i, j \in 1 .. Len(Idents) : Idents[i] = Idents[j] => i = j
ASSUME IdentOfAssumption ==
  IdentOf \in [Participants -> {Idents[i] : i \in 1 .. Len(Idents)}]
ASSUME CountAssumption == MaxCount \in Nat /\ MaxPassages \in Nat

VARIABLES
  pc,                      (* where the call is                            *)
  v1,                      (* the procedure's loop variable                *)
  sets,                    (* sets[i]: the participants that the SELECT of *)
                           (* lap count i - 1 has matched                  *)
  response                 (* what the client got                          *)

call == <<pc, v1, sets, response>>
vars == <<race, call>>

NoResponse == [status |-> 0, categories |-> <<>>, series |-> <<>>]
Unavailable == [NoResponse EXCEPT !.status = 503]

-----------------------------------------------------------------------------
(***************************************************************************)
(* The SELECT of the procedure, on the snapshot of the statement.          *)
(***************************************************************************)
WithCount(v) == {p \in Participants : nbTourCoureur(carte, passage, p) = v}

\* Its rows, in order: a group for each IDENT, by its index, that has a
\* participant.
Groups(matched) ==
  {i \in 1 .. Len(Idents) : \E p \in matched : IdentOf[p] = Idents[i]}

RowsOf(matched, v) ==
  LET groups == Groups(matched)
      at(k)  == CHOOSE i \in groups : Cardinality({j \in groups : j <= i}) = k
  IN  [k \in 1 .. Cardinality(groups) |->
         [ident |-> Idents[at(k)],
          axis  |-> v,
          res   |-> Cardinality({p \in matched : IdentOf[p] = Idents[at(k)]})]]

-----------------------------------------------------------------------------
\* prepareCall and the connection; any failure is a 503.
Call ==
  /\ pc = "idle"
  /\ \/ pc' = "procedure" /\ UNCHANGED response
     \/ pc' = "done" /\ response' = Unavailable
  /\ v1' = 0
  /\ sets' = <<>>
  /\ UNCHANGED race

\* Mutant: the loop runs from the highest count down.
DownwardSelect ==
  /\ pc = "procedure"
  /\ v1 <= MaxCount
  /\ sets' = <<WithCount(MaxCount - v1)>> \o sets
  /\ v1' = v1 + 1
  /\ UNCHANGED <<race, pc, response>>

\* Mutant: SET v1 left out; the endless result sets are not kept.
StuckSelect ==
  /\ pc = "procedure"
  /\ v1 <= MaxCount
  /\ UNCHANGED vars

\* An iteration of WHILE v1 <= 10.
Select ==
  /\ pc = "procedure"
  /\ v1 <= MaxCount
  /\ sets' = Append(sets, WithCount(v1))
  /\ v1' = v1 + 1
  /\ UNCHANGED <<race, pc, response>>

\* Mutant: WHILE v1 < 10.
EarlyProcedureEnds ==
  /\ pc = "procedure"
  /\ v1 >= MaxCount
  /\ pc' = "rows"
  /\ UNCHANGED <<race, v1, sets, response>>

ProcedureEnds ==
  /\ pc = "procedure"
  /\ v1 > MaxCount
  /\ pc' = "rows"
  /\ UNCHANGED <<race, v1, sets, response>>

\* Mutant: the service asks for getMoreResults and keeps the last set.
LastSetRespond ==
  LET out == Response(RowsOf(sets[Len(sets)], MaxCount)) IN
  /\ pc = "rows"
  /\ pc' = "done"
  /\ response' = IF out.failed THEN Unavailable
                 ELSE [status |-> 200, categories |-> out.categories,
                       series |-> out.series]
  /\ UNCHANGED <<race, v1, sets>>

\* executeQuery gives the first result set; the loop over its rows is local.
Respond ==
  LET out == Response(RowsOf(sets[1], 0)) IN
  /\ pc = "rows"
  /\ pc' = "done"
  /\ response' = IF out.failed THEN Unavailable
                 ELSE [status |-> 200, categories |-> out.categories,
                       series |-> out.series]
  /\ UNCHANGED <<race, v1, sets>>

\* The connection is lost while the procedure runs.
Break ==
  /\ pc = "procedure"
  /\ pc' = "done"
  /\ response' = Unavailable
  /\ UNCHANGED <<race, v1, sets>>

\* The client is done with the response and calls again.
Again ==
  /\ pc = "done"
  /\ pc' = "idle"
  /\ response' = NoResponse
  /\ v1' = 0
  /\ sets' = <<>>
  /\ UNCHANGED race

RaceStep ==
  /\ RaceNext
  /\ Len(passage') <= MaxPassages
  /\ UNCHANGED call

Init ==
  /\ RaceInit
  /\ pc = "idle"
  /\ v1 = 0
  /\ sets = <<>>
  /\ response = NoResponse

Next ==
  \/ Call
  \/ Select
  \/ ProcedureEnds
  \/ Respond
  \/ Break
  \/ Again
  \/ RaceStep

Spec == Init /\ [][Next]_vars

\* The server goes on with a statement, whatever the stations do.
FairSpec == Spec /\ WF_vars(Select \/ ProcedureEnds \/ Respond)

-----------------------------------------------------------------------------
\* The types of the tables and of the call.
TypeOK ==
  /\ RaceTypeOK
  /\ pc \in {"idle", "procedure", "rows", "done"}
  /\ v1 \in Nat
  /\ sets \in Seq(SUBSET Participants)
  /\ response.status \in {0, 200, 503}

Counted(p) == \E i \in 1 .. Len(sets) : p \in sets[i]

(***************************************************************************)
(* The eleven SELECTs see eleven states of the race, but a runner whose    *)
(* laps go up meanwhile is met at least once: lap counts never go down and *)
(* the loop goes up, so a runner not yet counted has at least v1 laps.     *)
(***************************************************************************)
NobodyMissed ==
  pc = "rows" =>
    \A p \in Participants :
      nbTourCoureur(carte, passage, p) <= MaxCount => Counted(p)

\* Why it holds: the invariant of the procedure's loop.
UncountedAreAhead ==
  pc \in {"procedure", "rows"} =>
    \A p \in Participants :
      ~Counted(p) => nbTourCoureur(carte, passage, p) >= v1

ProcedureOver == pc = "rows" => v1 > MaxCount

KpiInv == TypeOK /\ UncountedAreAhead /\ ProcedureOver

(***************************************************************************)
(* No step of the race takes a lap from a runner.                          *)
(***************************************************************************)
LapsOnlyGrow ==
  [][\A p \in Participants :
       nbTourCoureur(carte, passage, p)' >= nbTourCoureur(carte, passage, p)]_vars

Lapless == {p \in Participants : nbTourCoureur(carte, passage, p) = 0}

AllButLast(groups) == {i \in groups : \E j \in groups : i < j}

GroupSeries(matched, i) ==
  [name |-> Idents[i],
   data |-> <<Cardinality({p \in matched : IdentOf[p] = Idents[i]})>>]

(***************************************************************************)
(* Of the eleven lap counts the response holds 0 alone, and of its groups  *)
(* all but the last, which is one row and is lost at line 187: a series    *)
(* each, with the number of those who had no lap at the SELECT.  They are  *)
(* all that have no lap by the time the response comes, with some that     *)
(* have one by then (StoredProcedure.java:108, 157-199).                   *)
(***************************************************************************)
SendsFirstCount ==
  response.status = 200 =>
    /\ \A j \in 1 .. Len(response.categories) : response.categories[j] = 0
    /\ Lapless \subseteq sets[1]
    /\ Lapless # {} => response.categories # <<>>
    /\ {response.series[k] : k \in 1 .. Len(response.series)}
         = {GroupSeries(sets[1], i) : i \in AllButLast(Groups(sets[1]))}

(***************************************************************************)
(* StoredProcedure.java:47-48, "@return La reponse de la procedure         *)
(* stockee": each group of the result set that the response was made from  *)
(* has its series in it.                                                   *)
(***************************************************************************)
SendsEveryGroup ==
  response.status = 200 =>
    \A i \in Groups(sets[1]) :
      \E k \in 1 .. Len(response.series) : response.series[k].name = Idents[i]

(***************************************************************************)
(* A call is answered, though stations write all the while.                *)
(***************************************************************************)
CallIsAnswered == pc = "procedure" ~> pc = "done"
=============================================================================
