---------------------------- MODULE SquarePager -----------------------------
(***************************************************************************)
(* The SquareZone of HoozinAdminHome.js: its arrows ask for another page   *)
(* of a table of max rows, and begin is set by the script of the answer    *)
(* (AdminReportingContentEntitiesSquareView.xslt:48-51).  Clicks go on     *)
(* while requests are under way, and answers come in any order.            *)
(***************************************************************************)
EXTENDS Integers

CONSTANTS
  Top,               (* the rows of a page                                 *)
  Totals,            (* the MaxRow of the tables                           *)
  Lowest             (* bound: no page below is asked for                  *)

ASSUME TopAssumption == Top \in Nat \ {0} /\ Lowest \in Int
ASSUME TotalsAssumption == Totals \subseteq Nat

VARIABLES
  begin, max,        (* _begin and _max                                    *)
  pages              (* the begin of each request under way                *)

square == <<begin, max, pages>>

\* What the script of the first answer sets; before it, lines 794-796 have
\* all of them at 0 and the zone has no arrows yet.
SquareInit == begin = 1 /\ max \in Totals /\ pages = {}

_UpdateWithNextsCommunity(asked) ==
  /\ \A b \in asked : b >= Lowest
  /\ pages' = pages \cup asked
  /\ UNCHANGED <<begin, max>>

\* Mutant: the second branch does not test that there is a page left.
EagerPreviousPage ==
  _UpdateWithNextsCommunity(
    {IF begin + 2 * Top - 1 >= max /\ begin + Top < max THEN max - Top ELSE begin + Top})

PreviousPage ==
  /\ begin + Top < max
  /\ _UpdateWithNextsCommunity(
       {IF begin + 2 * Top - 1 >= max THEN max - Top ELSE begin + Top})

\* Mutant: the second test is begin # 0.
OffByOneNextPage ==
  _UpdateWithNextsCommunity(
    {b \in {1} : begin - Top < 1 /\ begin > 1} \cup {b \in {begin - Top} : begin # 0})

\* Two ifs and no else: near the start both requests are sent.
NextPage ==
  /\ begin # 1
  /\ _UpdateWithNextsCommunity(
       {b \in {1} : begin - Top < 1 /\ begin > 1} \cup {begin - Top})

Answer ==
  \E b \in pages :
    /\ pages' = pages \ {b}
    /\ begin' = b
    /\ UNCHANGED max

SquareNext == PreviousPage \/ NextPage \/ Answer

-----------------------------------------------------------------------------
SquareTypeOK == begin \in Int /\ max \in Totals /\ pages \subseteq Int

Fits(b) == b = 1 \/ b + Top <= max

(***************************************************************************)
(* Whatever is clicked while pages are under way, and in whatever order    *)
(* they come, no page goes past the last row (lines 825-828).              *)
(***************************************************************************)
PagesFit == \A b \in pages \cup {begin} : Fits(b)

(***************************************************************************)
(* The page goes below row 1 only in a table that does not end where a     *)
(* page would: there the click that asks for page 1 also asks for the one  *)
(* below (836-839), and the later answer wins.                             *)
(***************************************************************************)
BelowOneIsUneven == begin < 1 => (max - 1) % Top # 0
=============================================================================
