----------------------------- MODULE TopperZone -----------------------------
(***************************************************************************)
(* The topper zones of HoozinAdminHome.js: each shows one entity of a      *)
(* list, which its arrows and the click on a point of a chart walk.  A     *)
(* page has one thread: while a handler runs, nothing else does.           *)
(*                                                                         *)
(* A zone is replaced as a whole when its answer comes, with a script      *)
(* that clears its list and adds the rows of the answer one by one.  The   *)
(* zones of CommunitiesMonthlyTopperZone.xslt open on the last row, the    *)
(* others on the first; those of TopperZone.xslt open on a message if all  *)
(* values are 0, and those of PostTopperZone.xslt pass a max.              *)
(***************************************************************************)
EXTENDS Integers, Sequences

CONSTANTS
  Zones,
  Monthly,           (* the zones that open on their last row              *)
  Summed,            (* those that have a message for values of 0          *)
  Capped,            (* those that pass a max                              *)
  Ids,               (* ids of entities                                    *)
  RowLists,          (* what an answer may hold, as ids in their order     *)
  MaxEntities,       (* the max that they pass                             *)
  MaxPoint,          (* bound on the x of a chart's points                 *)
  None               (* no entity                                          *)

ASSUME ZonesAssumption ==
  /\ Monthly \cup Summed \cup Capped \subseteq Zones
  /\ Monthly \cap (Summed \cup Capped) = {}
ASSUME RowListsAssumption == RowLists \subseteq Seq(Ids)
ASSUME MaxAssumption == MaxEntities \in Nat \ {0} /\ MaxPoint \in Nat
ASSUME NoneAssumption == None \notin Ids

VARIABLES
  entities,          (* _entities[id].entities; empty when undefined       *)
  index,             (* _entities[id].index                                *)
  arrows,            (* the arrows of class activeArrow                    *)
  shown,             (* the entity that the zone displays, None if it has  *)
                     (* no place for one                                   *)
  at,                (* what runs: "script", the loop of _nextEvent or of  *)
                     (* _previousEvent, or nothing                         *)
  zone, rows, to     (* its zone, the rows left to add, the index asked    *)

lists  == <<entities, index, arrows, shown>>
thread == <<at, zone, rows, to>>
topper == <<lists, thread>>

\* The rows of one month come together.
Grouped(d) ==
  \A i, j \in DOMAIN d : d[i] = d[j] => \A k \in i .. j : d[k] = d[i]

Answers(z) == {d \in RowLists : z \in Monthly => Grouped(d)}

\* The arrow of class "active" when the zone opens.
Opening(z) == IF z \in Monthly THEN "previous" ELSE "next"

TopperInit ==
  /\ entities = [z \in Zones |-> <<>>]
  /\ index = [z \in Zones |-> 0]
  /\ arrows = [z \in Zones |-> {}]
  /\ shown = [z \in Zones |-> None]
  /\ at = "idle" /\ zone \in Zones /\ rows = <<>> /\ to = 0

Return == at' = "idle" /\ to' = 0 /\ UNCHANGED <<zone, rows>>

-----------------------------------------------------------------------------
\* The row that the style sheet writes.
Written(z, d) ==
  IF d = <<>> THEN None ELSE IF z \in Monthly THEN d[Len(d)] ELSE d[1]

\* The answer: the zone is replaced, and clearEntities called.  Where all
\* values are 0 a zone of TopperZone.xslt is written with a message in place
\* of the elements of a row; its script adds the rows all the same.
Refresh(z) ==
  /\ at = "idle"
  /\ \E d \in Answers(z) :
       /\ \/ shown' = [shown EXCEPT ![z] = Written(z, d)]
          \/ z \in Summed /\ shown' = [shown EXCEPT ![z] = None]
       /\ rows' = d
  /\ entities' = [entities EXCEPT ![z] = <<>>]
  /\ index' = [index EXCEPT ![z] = 0]
  /\ arrows' = [arrows EXCEPT ![z] = {}]
  /\ at' = "script" /\ zone' = z
  /\ UNCHANGED to

Full(z) == z \in Capped /\ Len(entities[z]) = MaxEntities

\* An entity that is there already, or one too many, is left out.
addEntity ==
  /\ at = "script" /\ rows # <<>>
  /\ rows' = Tail(rows)
  /\ LET old == entities[zone] IN
       IF Full(zone) \/ \E i \in DOMAIN old : old[i] = Head(rows)
       THEN UNCHANGED <<entities, arrows>>
       ELSE /\ entities' = [entities EXCEPT ![zone] = Append(old, Head(rows))]
            /\ arrows' = [arrows EXCEPT ![zone] =
                 IF old # <<>> THEN @ \cup {Opening(zone)} ELSE @]
  /\ UNCHANGED <<index, shown, at, zone, to>>

\* Mutant: a monthly zone keeps the index 0.
ScriptKeepsIndex ==
  /\ at = "script" /\ rows = <<>>
  /\ Return
  /\ UNCHANGED lists

ScriptEnds ==
  /\ at = "script" /\ rows = <<>>
  /\ index' = [index EXCEPT ![zone] =
       IF zone \in Monthly /\ entities[zone] # <<>>
       THEN Len(entities[zone]) - 1 ELSE @]
  /\ Return
  /\ UNCHANGED <<entities, arrows, shown>>

-----------------------------------------------------------------------------
\* The index that _getNextEntity and _getPreviousEntity leave.
NextIndex(z) == IF index[z] + 1 < Len(entities[z]) THEN index[z] + 1 ELSE index[z]
PreviousIndex(z) == IF index[z] > 0 THEN index[z] - 1 ELSE index[z]

\* The handlers write into the elements of a row: without them, nothing.
Rewritten(z, i) == IF shown[z] = None THEN None ELSE entities[z][i + 1]

\* Mutant: the other arrow is not lit.
DarkAfterNext(z, i) ==
  /\ index' = [index EXCEPT ![z] = i]
  /\ shown' = [shown EXCEPT ![z] = Rewritten(z, i)]
  /\ arrows' = [arrows EXCEPT ![z] = @ \ {a \in {"next"} : i = Len(entities[z]) - 1}]
  /\ UNCHANGED entities

\* _nextEvent and _previousEvent, once they have their entity.
AfterNext(z, i) ==
  /\ index' = [index EXCEPT ![z] = i]
  /\ shown' = [shown EXCEPT ![z] = Rewritten(z, i)]
  /\ arrows' = [arrows EXCEPT ![z] =
       (@ \ {a \in {"next"} : i = Len(entities[z]) - 1})
         \cup {a \in {"previous"} : i # 0}]
  /\ UNCHANGED entities

AfterPrevious(z, i) ==
  /\ index' = [index EXCEPT ![z] = i]
  /\ shown' = [shown EXCEPT ![z] = Rewritten(z, i)]
  /\ arrows' = [arrows EXCEPT ![z] =
       (@ \ {a \in {"previous"} : i = 0})
         \cup {a \in {"next"} : i # Len(entities[z]) - 1}]
  /\ UNCHANGED entities

ClickNext(z) ==
  /\ at = "idle" /\ NextIndex(z) # index[z]
  /\ AfterNext(z, NextIndex(z))
  /\ UNCHANGED thread

ClickPrevious(z) ==
  /\ at = "idle" /\ PreviousIndex(z) # index[z]
  /\ AfterPrevious(z, PreviousIndex(z))
  /\ UNCHANGED thread

\* Mutant: the two tests are swapped.
SwappedChangeTopper(z) ==
  /\ at = "idle" /\ entities[z] # <<>>
  /\ \E x \in 0 .. MaxPoint :
       /\ x # index[z]
       /\ at' = IF index[z] > x THEN "next" ELSE "previous"
       /\ to' = x
  /\ zone' = z
  /\ UNCHANGED <<lists, rows>>

\* A click on the point of abscissa x of the chart that drives the zone.
changeTopper(z) ==
  /\ at = "idle" /\ entities[z] # <<>>
  /\ \E x \in 0 .. MaxPoint :
       /\ x # index[z]
       /\ at' = IF index[z] < x THEN "next" ELSE "previous"
       /\ to' = x
  /\ zone' = z
  /\ UNCHANGED <<lists, rows>>

\* Mutant: the index is not put back where there is no entity.
RunawayNext ==
  /\ at = "next"
  /\ IF index[zone] + 1 = to /\ to < Len(entities[zone])
     THEN AfterNext(zone, to) /\ Return
     ELSE /\ index' = [index EXCEPT ![zone] = @ + 1]
          /\ UNCHANGED <<entities, arrows, shown, thread>>

\* One turn of do { } while (_entities[id].index != index).
GoNext ==
  /\ at = "next"
  /\ IF NextIndex(zone) = to
     THEN AfterNext(zone, to) /\ Return
     ELSE /\ index' = [index EXCEPT ![zone] = NextIndex(zone)]
          /\ UNCHANGED <<entities, arrows, shown, thread>>

GoPrevious ==
  /\ at = "previous"
  /\ IF PreviousIndex(zone) = to
     THEN AfterPrevious(zone, to) /\ Return
     ELSE /\ index' = [index EXCEPT ![zone] = PreviousIndex(zone)]
          /\ UNCHANGED <<entities, arrows, shown, thread>>

TopperNext ==
  \/ addEntity
  \/ ScriptEnds
  \/ GoNext
  \/ GoPrevious
  \/ \E z \in Zones : Refresh(z) \/ ClickNext(z) \/ ClickPrevious(z) \/ changeTopper(z)

-----------------------------------------------------------------------------
TopperTypeOK ==
  /\ entities \in [Zones -> Seq(Ids)]
  /\ index \in [Zones -> Nat]
  /\ arrows \in [Zones -> SUBSET {"next", "previous"}]
  /\ shown \in [Zones -> Ids \cup {None}]
  /\ at \in {"idle", "script", "next", "previous"}
  /\ zone \in Zones /\ rows \in Seq(Ids) /\ to \in Nat

\* No handler is at work on the zone.
Rests(z) == at = "idle" \/ zone # z

(***************************************************************************)
(* The index of a zone points into its list, in and after every loop of    *)
(* the handlers (the ++ and -- of _getNextEntity and _getPreviousEntity).  *)
(***************************************************************************)
IndexInRange == \A z \in Zones : index[z] = 0 \/ index[z] < Len(entities[z])

(***************************************************************************)
(* An arrow of a zone is lit if and only if it has an entity to go to,     *)
(* however arrows, charts and answers alternate (lines 631-634, 659-663    *)
(* and 767-768, and the .index of CommunitiesMonthlyTopperZone.xslt:113).  *)
(***************************************************************************)
ArrowsAgree ==
  \A z \in Zones : Rests(z) =>
    arrows[z] = {a \in {"previous"} : index[z] > 0}
                  \cup {a \in {"next"} : index[z] + 1 < Len(entities[z])}

(***************************************************************************)
(* A zone that displays an entity displays the one at its index: what the  *)
(* style sheet writes, what its script adds and what the handlers write    *)
(* agree, though duplicates and rows over the max are left out.  None is   *)
(* displayed over a list only where TopperZone.xslt:217 has found all      *)
(* values 0: the message stays while the arrows walk the list.             *)
(***************************************************************************)
ShownIsIndexed ==
  \A z \in Zones : Rests(z) /\ entities[z] # <<>> =>
    \/ shown[z] = entities[z][index[z] + 1]
    \/ shown[z] = None /\ z \in Summed

(***************************************************************************)
(* A click on a chart that asks for an entity of the list ends its loop.   *)
(* One that asks for more never does, and the page hangs.                  *)
(***************************************************************************)
ChangeTopperReturns ==
  (at \in {"next", "previous"} /\ to < Len(entities[zone])) ~> at = "idle"
=============================================================================
