----------------------------- MODULE TopRunners -----------------------------
(***************************************************************************)
(* The zone "Top des coureurs" of views/index.html: the SquareZone of      *)
(* highchartsUtils.js asks the KPI service for topRunner, whose rows it    *)
(* appends when they come, and moves _begin when its arrows are clicked,   *)
(* while the race goes on.                                                 *)
(*                                                                         *)
(* The arrows' handlers are those of a page that holds the zone in an      *)
(* element of class adminHomeWrapper.  They pass the wrapper's id where    *)
(* _UpdateWithNextsCommunity takes the index, and an id is no number: the  *)
(* service answers them with 503, for which there is no callback.  So a    *)
(* click only moves _begin.                                                *)
(***************************************************************************)
EXTENDS RaceLedger

CONSTANTS
  Begin, Top, Max,   (* data-begin, data-top and data-max of the zone      *)
  PageRows,          (* indexmax of topRunner                              *)
  MaxPassages        (* bound on the rows of passage                       *)

ASSUME ZoneAssumption ==
  /\ Begin \in Nat \ {0} /\ Top \in Nat /\ Max \in Nat
  /\ Begin + Top <= Max
ASSUME PageAssumption == PageRows \in Nat /\ PageRows <= Top
ASSUME CardsAssumption == IsFiniteSet(CardIds)
ASSUME BoundAssumption == MaxPassages \in Nat

VARIABLES
  begin, max,        (* _begin and _max of the zone                        *)
  request,           (* that of initArrow: "sent", "answered" once         *)
                     (* topRunner has run for it, or "none"                *)
  answer,            (* its rows, until they are appended                  *)
  rows,              (* the rows appended to the zone                      *)
  table              (* history: when topRunner ran last for the page, the *)
                     (* laps of the runner of each card                    *)

zone == <<begin, max, request, answer, rows, table>>
vars == <<race, zone>>

-----------------------------------------------------------------------------
(***************************************************************************)
(* topRunner: participant joined with carte, a row for each card, in an    *)
(* order that ends where lap counts are equal.                             *)
(***************************************************************************)

\* Mutant: every passage counts for a lap.
PassageRowOf(k) ==
  [ident |-> carte[k], res |-> Cardinality(PassagesOf(carte, passage, carte[k]))]

RowOf(k) ==
  [ident |-> carte[k], res |-> nbTourCoureur(carte, passage, carte[k])]

\* Mutant: ORDER BY res DESC.
DescendingOrders ==
  {o \in [1 .. Cardinality(DOMAIN carte) -> DOMAIN carte] :
     \A i, j \in DOMAIN o :
       i < j => o[i] # o[j] /\ RowOf(o[i]).res >= RowOf(o[j]).res}

Orders ==
  {o \in [1 .. Cardinality(DOMAIN carte) -> DOMAIN carte] :
     \A i, j \in DOMAIN o :
       i < j => o[i] # o[j] /\ RowOf(o[i]).res <= RowOf(o[j]).res}

\* The pages that LIMIT indexx - 1, indexmax may give.
topRunner(indexx) ==
  LET left == Cardinality(DOMAIN carte) - indexx + 1
      n    == IF left < PageRows THEN left ELSE PageRows
  IN  {[i \in 1 .. n |-> RowOf(o[indexx - 1 + i])] : o \in Orders}

-----------------------------------------------------------------------------
\* generateKPI, when the page is loaded.
Load ==
  /\ begin' = Begin
  /\ max' = Max
  /\ request' = "sent"
  /\ answer' = <<>>
  /\ rows' = <<>>
  /\ table' = <<>>
  /\ UNCHANGED race

\* The server reads the tables for the page.
Select ==
  /\ request = "sent"
  /\ request' = "answered"
  /\ answer' \in topRunner(1)
  /\ table' = [k \in DOMAIN carte |-> RowOf(k).res]
  /\ UNCHANGED <<race, begin, max, rows>>

\* _fillSquareKPI, the callback: remove does not find the old columns, which
\* stay; _max is counted from what _begin is by then.
FillSquareKPI ==
  /\ request = "answered"
  /\ request' = "none"
  /\ rows' = rows \o answer
  /\ answer' = <<>>
  /\ max' = begin + Len(answer)
  /\ UNCHANGED <<race, begin, table>>

\* A 503, or a connection that is lost before or after the SELECT: there is
\* no callback for it.
Fail ==
  /\ request # "none"
  /\ request' = "none"
  /\ answer' = <<>>
  /\ UNCHANGED <<race, begin, max, rows, table>>

\* Mutant: the first branch does not test that there is a page left.
UntestedPrevious ==
  /\ \/ /\ begin + 2 * Top - 1 >= max
        /\ begin' = max - Top
     \/ /\ begin + 2 * Top - 1 < max
        /\ begin' = begin + Top
  /\ UNCHANGED <<race, max, request, answer, rows, table>>

Previous ==
  /\ begin + Top < max
  /\ begin' = IF begin + 2 * Top - 1 >= max THEN max - Top ELSE begin + Top
  /\ UNCHANGED <<race, max, request, answer, rows, table>>

NextArrow ==
  /\ begin # 1
  /\ begin' = IF begin - Top < 1 /\ begin > 1 THEN 1 ELSE begin - Top
  /\ UNCHANGED <<race, max, request, answer, rows, table>>

RaceStep ==
  /\ RaceNext
  /\ Len(passage') <= MaxPassages
  /\ UNCHANGED zone

Init ==
  /\ RaceInit
  /\ begin = Begin
  /\ max = Max
  /\ request = "sent"
  /\ answer = <<>>
  /\ rows = <<>>
  /\ table = <<>>

Next ==
  \/ Load
  \/ Select
  \/ FillSquareKPI
  \/ Fail
  \/ Previous
  \/ NextArrow
  \/ RaceStep

Spec == Init /\ [][Next]_vars

-----------------------------------------------------------------------------
TypeOK ==
  /\ RaceTypeOK
  /\ begin \in Nat
  /\ max \in Nat
  /\ request \in {"none", "sent", "answered"}
  /\ answer \in Seq([ident : Participants, res : Nat])
  /\ rows \in Seq([ident : Participants, res : Nat])
  /\ DOMAIN table \subseteq DOMAIN carte

(***************************************************************************)
(* The arrows never leave the range that the page declares, whenever the   *)
(* answer comes and from whatever _begin it then counts _max.              *)
(***************************************************************************)
BeginInRange == 1 <= begin /\ begin + Top <= Max

\* Why: the answer can only lower _max.
MaxInRange == max <= Max /\ Len(answer) <= PageRows

Reached(page) ==
  \A i \in 1 .. Len(page) :
    page[i].res <= nbTourCoureur(carte, passage, page[i].ident)

(***************************************************************************)
(* What the zone shows is old, but never more than true: a runner has at   *)
(* least the laps he is shown with, however the race went on since the     *)
(* rows were read.                                                         *)
(***************************************************************************)
ShownIsReached == Reached(rows)

\* A runner who had a card when topRunner ran and is not on the page.
LeftOut(page) ==
  {k \in DOMAIN table : \A i \in 1 .. Len(page) : page[i].ident # carte[k]}

LowestOf(page) ==
  \A i \in 1 .. Len(page), k \in LeftOut(page) :
    page[i].res <= nbTourCoureur(carte, passage, carte[k])

(***************************************************************************)
(* rdf.sql:66: the page holds the lowest lap counts, a runner once for     *)
(* each of his cards.  However long the answer takes and the rows stay: a  *)
(* runner who is not on it, and had a card when topRunner ran, has as many *)
(* laps as any that is shown.  Cards given since then are not looked at.   *)
(***************************************************************************)
PageIsTheBottom == LowestOf(rows)

(***************************************************************************)
(* views/index.html:109, "Top des coureurs.": of the runners who had a     *)
(* card when topRunner ran, those left out had no more laps than any shown.*)
(***************************************************************************)
PageIsTheTop ==
  \A i \in 1 .. Len(rows), k \in LeftOut(rows) : rows[i].res >= table[k]

TopInv ==
  /\ TypeOK
  /\ BeginInRange /\ MaxInRange
  /\ Reached(answer) /\ ShownIsReached
  /\ LowestOf(answer) /\ PageIsTheBottom
  /\ request # "answered" => answer = <<>>
  /\ request # "none" => rows = <<>>
=============================================================================
