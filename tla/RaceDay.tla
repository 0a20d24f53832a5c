------------------------------- MODULE RaceDay -------------------------------
(***************************************************************************)
(* The registration site and the card stations on one table: while people  *)
(* register, a station gives them cards.  saveCardID takes, of the rows    *)
(* with the number that is typed, the one that comes last; the query has   *)
(* no order, and two rows may have one number.  CardStation has the steps  *)
(* of the station, for any row it may find; here they are one step.        *)
(***************************************************************************)
EXTENDS Registration

CONSTANT Cards

VARIABLE carte   (* carte[k]: the row that has the card, or None           *)

dayVars == <<vars, carte>>

\* bearer and found are history: who was at the station, and whether the
\* SELECT found a row.
Given == [row : Row, bearer : People, found : BOOLEAN]

\* Mutant: the SELECT has no condition.
UnconditionalSaveCardID(p, k) ==
  /\ carte[k] = None
  /\ \E r \in Rows :
       carte' = [carte EXCEPT ![k] = [row |-> r, bearer |-> p, found |-> TRUE]]

\* With no row, id is not initialised: the INSERT fails, or the id of an
\* earlier SELECT is still in its place.
saveCardID(p, k) ==
  LET numbered == RowsNumbered(NumberOf[p]) IN
  /\ carte[k] = None
  /\ \E r \in IF numbered # {} THEN numbered ELSE Rows :
       carte' = [carte EXCEPT ![k] =
                   [row |-> r, bearer |-> p, found |-> numbered # {}]]

DayInit == Init /\ carte = [k \in Cards |-> None]

DayNext ==
  \/ Next /\ UNCHANGED carte
  \/ /\ \E p \in People, k \in Cards : saveCardID(p, k)
     /\ UNCHANGED vars

DaySpec == DayInit /\ [][DayNext]_dayVars

-----------------------------------------------------------------------------
CartesOK == carte \in [Cards -> Given \cup {None}]

(***************************************************************************)
(* clientWebS.cpp:25: a card whose bearer has registered is given to a row *)
(* that the bearer sent, whichever of the rows of a number comes last and  *)
(* whoever registers meanwhile.                                            *)
(***************************************************************************)
CardIsOwn ==
  \A k \in Cards :
    carte[k] # None /\ carte[k].found => carte[k].row.by = carte[k].bearer
=============================================================================
