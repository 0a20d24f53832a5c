-------------------------- MODULE AdminHome_proofs --------------------------
(***************************************************************************)
(* For any zones, answers and charts: the index of a zone is in its list,  *)
(* its arrows say where it can go, and a loop runs towards the index asked *)
(* for.  For any page size and tables, no page goes past the last row.     *)
(***************************************************************************)
EXTENDS AdminHome, TLAPS

\* The arrows of a zone at the index i of a list of length n.
Lit(i, n) == {a \in {"previous"} : i > 0} \cup {a \in {"next"} : i + 1 < n}

(***************************************************************************)
(* While a script adds rows, the index is 0 and the arrow it lights is the *)
(* one that the zone opens with.  While a loop runs, the arrows are those  *)
(* of the index it started from, and the index asked for is ahead.         *)
(***************************************************************************)
ScriptInv ==
  at = "script" =>
    /\ index[zone] = 0
    /\ arrows[zone] = {a \in {Opening(zone)} : Len(entities[zone]) > 1}

LoopInv ==
  /\ at = "next" =>
       /\ index[zone] < to
       /\ index[zone] + 1 < Len(entities[zone]) => "next" \in arrows[zone]
       /\ "previous" \in arrows[zone] => index[zone] > 0
  /\ at = "previous" =>
       /\ to < index[zone]
       /\ index[zone] > 0 => "previous" \in arrows[zone]
       /\ "next" \in arrows[zone] => index[zone] + 1 < Len(entities[zone])

ArrowsInv == \A z \in Zones : Rests(z) => arrows[z] = Lit(index[z], Len(entities[z]))

TopperInv == TopperTypeOK /\ IndexInRange /\ ScriptInv /\ LoopInv /\ ArrowsInv

-----------------------------------------------------------------------------
LEMMA ArrowsInvMeaning == ArrowsInv <=> ArrowsAgree
BY DEF ArrowsInv, ArrowsAgree, Lit

LEMMA Start == TopperInit => TopperInv
<1> SUFFICES ASSUME TopperInit PROVE TopperInv
  OBVIOUS
<1>1. TopperTypeOK
  BY DEF TopperInit, TopperTypeOK
<1>2. IndexInRange /\ ScriptInv /\ LoopInv
  BY DEF TopperInit, IndexInRange, ScriptInv, LoopInv
<1>3. ArrowsInv
  BY DEF TopperInit, ArrowsInv, Lit
<1> QED BY <1>1, <1>2, <1>3 DEF TopperInv

\* The indexes stay in the list.
LEMMA Steps ==
  ASSUME TopperTypeOK, IndexInRange, NEW z \in Zones
  PROVE  /\ NextIndex(z) \in Nat /\ PreviousIndex(z) \in Nat
         /\ NextIndex(z) # index[z] =>
              NextIndex(z) = index[z] + 1 /\ NextIndex(z) < Len(entities[z])
         /\ PreviousIndex(z) # index[z] =>
              PreviousIndex(z) = index[z] - 1 /\ PreviousIndex(z) + 1 < Len(entities[z])
<1>1. index[z] \in Nat /\ Len(entities[z]) \in Nat
  BY DEF TopperTypeOK
<1> QED BY <1>1 DEF NextIndex, PreviousIndex, IndexInRange

\* What the two handlers leave, from arrows of the index they started from.
LEMMA NextIsLit ==
  ASSUME NEW A \in SUBSET {"next", "previous"}, NEW i \in Nat, NEW n \in Nat,
         i # 0, i < n, "next" \in A
  PROVE  (A \ {a \in {"next"} : i = n - 1}) \cup {a \in {"previous"} : i # 0} = Lit(i, n)
<1>1. i > 0 /\ (i = n - 1 <=> ~(i + 1 < n))
  OBVIOUS
<1> QED BY <1>1, Zenon DEF Lit

LEMMA PreviousIsLit ==
  ASSUME NEW A \in SUBSET {"next", "previous"}, NEW i \in Nat, NEW n \in Nat,
         i < n - 1, "previous" \in A
  PROVE  (A \ {a \in {"previous"} : i = 0}) \cup {a \in {"next"} : i # n - 1} = Lit(i, n)
<1>1. i # n - 1 /\ i + 1 < n /\ (i = 0 <=> ~(i > 0))
  OBVIOUS
<1> QED BY <1>1, Zenon DEF Lit

\* The common end of the arrow's click and of the loop.
LEMMA NextLands ==
  ASSUME TopperInv, NEW z \in Zones, NEW i \in Nat, i # 0, i < Len(entities[z]),
         "next" \in arrows[z], AfterNext(z, i)
  PROVE  /\ index' \in [Zones -> Nat] /\ entities' \in [Zones -> Seq(Ids)]
         /\ arrows' \in [Zones -> SUBSET {"next", "previous"}]
         /\ shown' \in [Zones -> Ids \cup {None}]
         /\ IndexInRange'
         /\ arrows'[z] = Lit(index'[z], Len(entities'[z]))
         /\ \A y \in Zones \ {z} : arrows'[y] = arrows[y] /\ index'[y] = index[y]
<1> USE DEF TopperInv, TopperTypeOK, AfterNext
<1>1. entities[z][i + 1] \in Ids /\ Len(entities[z]) \in Nat
  OBVIOUS
<1>2. index' \in [Zones -> Nat] /\ entities' \in [Zones -> Seq(Ids)]
  OBVIOUS
<1>3. shown' \in [Zones -> Ids \cup {None}]
  BY <1>1 DEF Rewritten
<1>4. arrows' \in [Zones -> SUBSET {"next", "previous"}]
  OBVIOUS
<1>5. IndexInRange'
  BY DEF IndexInRange
<1>6. arrows'[z] =
        (arrows[z] \ {a \in {"next"} : i = Len(entities[z]) - 1}) \cup {a \in {"previous"} : i # 0}
  OBVIOUS
<1>7. arrows'[z] = Lit(i, Len(entities[z]))
  <2>1. arrows[z] \in SUBSET {"next", "previous"}
    OBVIOUS
  <2> HIDE DEF TopperInv, TopperTypeOK, AfterNext
  <2>2. (arrows[z] \ {a \in {"next"} : i = Len(entities[z]) - 1})
          \cup {a \in {"previous"} : i # 0}
          = Lit(i, Len(entities[z]))
    <3>1. \A n \in Nat : i < n =>
            (arrows[z] \ {a \in {"next"} : i = n - 1}) \cup {a \in {"previous"} : i # 0}
              = Lit(i, n)
      BY <2>1, NextIsLit
    <3> QED BY <1>1, <3>1
  <2> QED BY <1>6, <2>2
<1>8. index'[z] = i /\ entities' = entities
  OBVIOUS
<1>9. \A y \in Zones \ {z} : arrows'[y] = arrows[y] /\ index'[y] = index[y]
  OBVIOUS
<1> QED BY <1>2, <1>3, <1>4, <1>5, <1>7, <1>8, <1>9

LEMMA PreviousLands ==
  ASSUME TopperInv, NEW z \in Zones, NEW i \in Nat, i < Len(entities[z]) - 1,
         "previous" \in arrows[z], AfterPrevious(z, i)
  PROVE  /\ index' \in [Zones -> Nat] /\ entities' \in [Zones -> Seq(Ids)]
         /\ arrows' \in [Zones -> SUBSET {"next", "previous"}]
         /\ shown' \in [Zones -> Ids \cup {None}]
         /\ IndexInRange'
         /\ arrows'[z] = Lit(index'[z], Len(entities'[z]))
         /\ \A y \in Zones \ {z} : arrows'[y] = arrows[y] /\ index'[y] = index[y]
<1> USE DEF TopperInv, TopperTypeOK, AfterPrevious
<1>1. entities[z][i + 1] \in Ids /\ Len(entities[z]) \in Nat
  OBVIOUS
<1>2. index' \in [Zones -> Nat] /\ entities' \in [Zones -> Seq(Ids)]
  OBVIOUS
<1>3. shown' \in [Zones -> Ids \cup {None}]
  BY <1>1 DEF Rewritten
<1>4. arrows' \in [Zones -> SUBSET {"next", "previous"}]
  OBVIOUS
<1>5. IndexInRange'
  BY DEF IndexInRange
<1>6. arrows'[z] =
        (arrows[z] \ {a \in {"previous"} : i = 0}) \cup {a \in {"next"} : i # Len(entities[z]) - 1}
  OBVIOUS
<1>7. arrows'[z] = Lit(i, Len(entities[z]))
  <2>1. arrows[z] \in SUBSET {"next", "previous"}
    OBVIOUS
  <2> HIDE DEF TopperInv, TopperTypeOK, AfterPrevious
  <2>2. (arrows[z] \ {a \in {"previous"} : i = 0})
          \cup {a \in {"next"} : i # Len(entities[z]) - 1}
          = Lit(i, Len(entities[z]))
    <3>1. \A n \in Nat : i < n - 1 =>
            (arrows[z] \ {a \in {"previous"} : i = 0}) \cup {a \in {"next"} : i # n - 1}
              = Lit(i, n)
      BY <2>1, PreviousIsLit
    <3> QED BY <1>1, <3>1
  <2> QED BY <1>6, <2>2
<1>8. index'[z] = i /\ entities' = entities
  OBVIOUS
<1>9. \A y \in Zones \ {z} : arrows'[y] = arrows[y] /\ index'[y] = index[y]
  OBVIOUS
<1> QED BY <1>2, <1>3, <1>4, <1>5, <1>7, <1>8, <1>9

-----------------------------------------------------------------------------
\* When a handler ends on z and nothing runs, the parts are those of z.
LEMMA Settles ==
  ASSUME TopperInv, NEW z \in Zones, at' = "idle", at = "idle" \/ zone = z,
         entities' = entities, to' \in Nat, rows' = rows, zone' = zone,
         index' \in [Zones -> Nat], entities' \in [Zones -> Seq(Ids)],
         arrows' \in [Zones -> SUBSET {"next", "previous"}],
         shown' \in [Zones -> Ids \cup {None}], IndexInRange',
         arrows'[z] = Lit(index'[z], Len(entities'[z])),
         \A y \in Zones \ {z} : arrows'[y] = arrows[y] /\ index'[y] = index[y]
  PROVE  TopperInv'
<1>1. TopperTypeOK'
  BY DEF TopperInv, TopperTypeOK
<1>2. ScriptInv' /\ LoopInv'
  BY DEF ScriptInv, LoopInv
<1>3. ArrowsInv'
  <2> SUFFICES ASSUME NEW y \in Zones
               PROVE  arrows'[y] = Lit(index'[y], Len(entities'[y]))
    BY DEF ArrowsInv, Lit
  <2>1. CASE y = z
    BY <2>1
  <2>2. CASE y # z
    <3>1. Rests(y)
      BY <2>2 DEF Rests
    <3> QED BY <2>2, <3>1 DEF TopperInv, ArrowsInv
  <2> QED BY <2>1, <2>2
<1> QED BY <1>1, <1>2, <1>3 DEF TopperInv

LEMMA RefreshKeeps ==
  ASSUME TopperInv, NEW z \in Zones, Refresh(z)
  PROVE  TopperInv'
<1> PICK d \in Answers(z) :
      /\ \/ shown' = [shown EXCEPT ![z] = Written(z, d)]
         \/ shown' = [shown EXCEPT ![z] = None]
      /\ rows' = d
  BY DEF Refresh
<1> USE DEF TopperInv, TopperTypeOK
<1>1. d \in Seq(Ids)
  BY RowListsAssumption DEF Answers
<1>2. Written(z, d) \in Ids \cup {None}
  BY <1>1 DEF Written
<1>3. shown' \in [Zones -> Ids \cup {None}]
  BY <1>2
<1>4. index' \in [Zones -> Nat] /\ entities' \in [Zones -> Seq(Ids)]
  BY DEF Refresh
<1>5. arrows' \in [Zones -> SUBSET {"next", "previous"}]
  BY DEF Refresh
<1>6. TopperTypeOK'
  BY <1>1, <1>3, <1>4, <1>5 DEF Refresh
<1>7. IndexInRange'
  BY DEF Refresh, IndexInRange
<1>8. ScriptInv' /\ LoopInv'
  BY DEF Refresh, ScriptInv, LoopInv
<1>9. ArrowsInv'
  <2> SUFFICES ASSUME NEW y \in Zones, y # z
               PROVE  arrows'[y] = Lit(index'[y], Len(entities'[y]))
    BY DEF ArrowsInv, Rests, Refresh, Lit
  <2> QED BY DEF ArrowsInv, Rests, Refresh
<1> QED BY <1>6, <1>7, <1>8, <1>9

LEMMA AddKeeps ==
  ASSUME TopperInv, addEntity
  PROVE  TopperInv'
<1> USE DEF TopperInv, TopperTypeOK
<1>1. rows' \in Seq(Ids) /\ Head(rows) \in Ids /\ zone \in Zones
  BY DEF addEntity
<1>2. CASE UNCHANGED <<entities, arrows>>
  <2>1. TopperTypeOK'
    BY <1>1, <1>2 DEF addEntity
  <2>2. IndexInRange' /\ ScriptInv' /\ LoopInv'
    BY <1>2 DEF addEntity, IndexInRange, ScriptInv, LoopInv, Opening
  <2>3. ArrowsInv'
    BY <1>2 DEF addEntity, ArrowsInv, Rests, Lit
  <2> QED BY <2>1, <2>2, <2>3
<1>3. CASE ~ UNCHANGED <<entities, arrows>>
  <2> DEFINE old == entities[zone]
  <2>1. /\ entities' = [entities EXCEPT ![zone] = Append(old, Head(rows))]
        /\ arrows' = [arrows EXCEPT ![zone] =
             IF old # <<>> THEN @ \cup {Opening(zone)} ELSE @]
    BY <1>3 DEF addEntity
  <2>2. old \in Seq(Ids) /\ Len(Append(old, Head(rows))) = Len(old) + 1
    BY <1>1
  <2>3. Opening(zone) \in {"next", "previous"}
    BY DEF Opening
  <2>4. TopperTypeOK'
    <3>1. entities' \in [Zones -> Seq(Ids)]
      BY <1>1, <2>1, <2>2
    <3>2. arrows' \in [Zones -> SUBSET {"next", "previous"}]
      BY <1>1, <2>1, <2>3
    <3> QED BY <1>1, <3>1, <3>2 DEF addEntity
  <2>5. entities'[zone] = Append(old, Head(rows)) /\ Len(entities'[zone]) = Len(old) + 1
    BY <1>1, <2>1, <2>2
  <2>6. \A y \in Zones \ {zone} :
          entities'[y] = entities[y] /\ arrows'[y] = arrows[y] /\ index'[y] = index[y]
    BY <2>1 DEF addEntity
  <2>7. index' = index /\ at' = "script" /\ zone' = zone /\ at = "script"
    BY DEF addEntity
  <2>8. IndexInRange'
    BY <2>6, <2>7 DEF IndexInRange, ScriptInv
  <2>9. ScriptInv' /\ LoopInv'
    <3>1. old = <<>> <=> Len(old) = 0
      BY <2>2
    <3>2. arrows'[zone] = IF old # <<>> THEN arrows[zone] \cup {Opening(zone)} ELSE arrows[zone]
      BY <1>1, <2>1
    <3>3. arrows[zone] = {a \in {Opening(zone)} : Len(old) > 1}
      BY <2>7 DEF ScriptInv
    <3>4. arrows'[zone] = {a \in {Opening(zone)} : Len(entities'[zone]) > 1}
      BY <2>2, <2>5, <3>1, <3>2, <3>3
    <3> QED BY <2>7, <3>4 DEF ScriptInv, LoopInv, Opening
  <2>10. ArrowsInv'
    <3> SUFFICES ASSUME NEW y \in Zones, y # zone
                 PROVE  arrows'[y] = Lit(index'[y], Len(entities'[y]))
      BY <2>7 DEF ArrowsInv, Rests, Lit
    <3> QED BY <2>6 DEF ArrowsInv, Rests
  <2> QED BY <2>4, <2>8, <2>9, <2>10
<1> QED BY <1>2, <1>3

LEMMA ScriptEndKeeps ==
  ASSUME TopperInv, ScriptEnds
  PROVE  TopperInv'
<1> USE DEF TopperInv, TopperTypeOK
<1> DEFINE n == Len(entities[zone])
<1>1. zone \in Zones /\ n \in Nat /\ (entities[zone] = <<>> <=> n = 0)
  OBVIOUS
<1>2. index'[zone] = IF zone \in Monthly /\ entities[zone] # <<>> THEN n - 1 ELSE 0
  BY <1>1 DEF ScriptEnds, ScriptInv
<1>3. \A y \in Zones \ {zone} : index'[y] = index[y]
  BY DEF ScriptEnds
<1>4. index' \in [Zones -> Nat]
  BY <1>1 DEF ScriptEnds
<1>5. IndexInRange'
  BY <1>1, <1>2, <1>3 DEF ScriptEnds, IndexInRange
<1>6. arrows[zone] = {a \in {Opening(zone)} : n > 1}
  BY DEF ScriptEnds, ScriptInv
<1>7. arrows[zone] = Lit(index'[zone], n)
  <2>1. CASE zone \in Monthly
    <3>1. n > 0 => index'[zone] = n - 1
      BY <1>1, <1>2, <2>1
    <3>2. n = 0 => index'[zone] = 0
      BY <1>1, <1>2
    <3>3. Opening(zone) = "previous"
      BY <2>1 DEF Opening
    <3> QED BY <1>1, <1>6, <3>1, <3>2, <3>3 DEF Lit
  <2>2. CASE zone \notin Monthly
    <3>1. index'[zone] = 0 /\ Opening(zone) = "next"
      BY <1>2, <2>2 DEF Opening
    <3> QED BY <1>1, <1>6, <3>1 DEF Lit
  <2> QED BY <2>1, <2>2
<1> QED BY <1>3, <1>4, <1>5, <1>7, Settles DEF ScriptEnds, Return

LEMMA ClickKeeps ==
  ASSUME TopperInv, NEW z \in Zones, ClickNext(z) \/ ClickPrevious(z)
  PROVE  TopperInv'
<1>1. index[z] \in Nat /\ Len(entities[z]) \in Nat /\ arrows[z] \in SUBSET {"next", "previous"}
  BY DEF TopperInv, TopperTypeOK
<1>2. arrows[z] = Lit(index[z], Len(entities[z]))
  BY DEF TopperInv, ArrowsInv, Rests, ClickNext, ClickPrevious
<1>3. CASE ClickNext(z)
  <2>1. /\ NextIndex(z) \in Nat /\ NextIndex(z) = index[z] + 1
        /\ NextIndex(z) < Len(entities[z])
    BY <1>3, Steps DEF TopperInv, ClickNext
  <2>2. "next" \in arrows[z]
    BY <1>1, <1>2, <2>1 DEF Lit
  <2>3. NextIndex(z) # 0 /\ AfterNext(z, NextIndex(z))
    BY <1>1, <1>3, <2>1 DEF ClickNext
  <2> QED BY <1>3, <2>1, <2>2, <2>3, NextLands, Settles
          DEF ClickNext, AfterNext, thread, TopperInv, TopperTypeOK
<1>4. CASE ClickPrevious(z)
  <2>1. /\ PreviousIndex(z) \in Nat /\ PreviousIndex(z) = index[z] - 1
        /\ PreviousIndex(z) + 1 < Len(entities[z])
    BY <1>4, Steps DEF TopperInv, ClickPrevious
  <2>2. "previous" \in arrows[z]
    BY <1>1, <1>2, <2>1 DEF Lit
  <2>3. PreviousIndex(z) < Len(entities[z]) - 1 /\ AfterPrevious(z, PreviousIndex(z))
    BY <1>1, <1>4, <2>1 DEF ClickPrevious
  <2> QED BY <1>4, <2>1, <2>2, <2>3, PreviousLands, Settles
          DEF ClickPrevious, AfterPrevious, thread, TopperInv, TopperTypeOK
<1> QED BY <1>3, <1>4

LEMMA ChangeKeeps ==
  ASSUME TopperInv, NEW z \in Zones, changeTopper(z)
  PROVE  TopperInv'
<1> PICK x \in 0 .. MaxPoint :
      /\ x # index[z]
      /\ at' = IF index[z] < x THEN "next" ELSE "previous"
      /\ to' = x
  BY DEF changeTopper
<1>1. x \in Nat /\ index[z] \in Nat /\ Len(entities[z]) \in Nat
  BY MaxAssumption DEF TopperInv, TopperTypeOK
<1>2. zone' = z /\ UNCHANGED <<lists, rows>> /\ at = "idle"
  BY DEF changeTopper
<1>3. TopperTypeOK'
  BY <1>1, <1>2 DEF TopperInv, TopperTypeOK, lists
<1>4. IndexInRange'
  BY <1>2 DEF TopperInv, IndexInRange, lists
<1>5. ScriptInv'
  BY DEF ScriptInv
<1>6. ArrowsInv'
  BY <1>2 DEF TopperInv, ArrowsInv, Rests, Lit, lists
<1>7. LoopInv'
  <2>1. arrows[z] = Lit(index[z], Len(entities[z]))
    BY <1>2 DEF TopperInv, ArrowsInv, Rests
  <2>2. /\ index[z] + 1 < Len(entities[z]) <=> "next" \in arrows[z]
        /\ "previous" \in arrows[z] <=> index[z] > 0
    BY <1>1, <2>1 DEF Lit
  <2>3. /\ at' = "next" => index[z] < x
        /\ at' = "previous" => x < index[z]
    BY <1>1
  <2> QED BY <1>2, <2>2, <2>3 DEF LoopInv, lists
<1> QED BY <1>3, <1>4, <1>5, <1>6, <1>7 DEF TopperInv

LEMMA GoKeeps ==
  ASSUME TopperInv, GoNext \/ GoPrevious
  PROVE  TopperInv'
<1>1. /\ zone \in Zones /\ index[zone] \in Nat /\ Len(entities[zone]) \in Nat /\ to \in Nat
      /\ arrows[zone] \in SUBSET {"next", "previous"}
  BY DEF TopperInv, TopperTypeOK
<1>2. /\ NextIndex(zone) \in Nat /\ PreviousIndex(zone) \in Nat
      /\ NextIndex(zone) # index[zone] =>
           NextIndex(zone) = index[zone] + 1 /\ NextIndex(zone) < Len(entities[zone])
      /\ PreviousIndex(zone) # index[zone] =>
           PreviousIndex(zone) = index[zone] - 1 /\ PreviousIndex(zone) + 1 < Len(entities[zone])
  BY <1>1, Steps DEF TopperInv
<1>3. at = "next" =>
       /\ index[zone] < to
       /\ index[zone] + 1 < Len(entities[zone]) => "next" \in arrows[zone]
       /\ "previous" \in arrows[zone] => index[zone] > 0
  BY DEF TopperInv, LoopInv
<1>4. at = "previous" =>
       /\ to < index[zone]
       /\ index[zone] > 0 => "previous" \in arrows[zone]
       /\ "next" \in arrows[zone] => index[zone] + 1 < Len(entities[zone])
  BY DEF TopperInv, LoopInv
<1>5. CASE GoNext /\ NextIndex(zone) = to
  <2>1. at = "next" /\ AfterNext(zone, to) /\ Return
    BY <1>5 DEF GoNext
  <2>2. to # 0 /\ to < Len(entities[zone]) /\ "next" \in arrows[zone]
    BY <1>1, <1>2, <1>3, <1>5, <2>1
  <2> QED BY <1>1, <2>1, <2>2, NextLands, Settles DEF AfterNext, Return
<1>6. CASE GoPrevious /\ PreviousIndex(zone) = to
  <2>1. at = "previous" /\ AfterPrevious(zone, to) /\ Return
    BY <1>6 DEF GoPrevious
  <2>2. to < Len(entities[zone]) - 1 /\ "previous" \in arrows[zone]
    BY <1>1, <1>2, <1>4, <1>6, <2>1
  <2> QED BY <1>1, <2>1, <2>2, PreviousLands, Settles DEF AfterPrevious, Return
<1>7. ASSUME NEW i \in Nat, index' = [index EXCEPT ![zone] = i],
             at \in {"next", "previous"}, UNCHANGED <<entities, arrows, shown, thread>>,
             i = index[zone] \/ i < Len(entities[zone]),
             at = "next" => i < to /\ i >= index[zone],
             at = "previous" => to < i /\ i <= index[zone]
      PROVE  TopperInv'
  <2>1. index'[zone] = i /\ \A y \in Zones \ {zone} : index'[y] = index[y]
    BY <1>1, <1>7 DEF TopperInv, TopperTypeOK
  <2>2. TopperTypeOK'
    BY <1>7 DEF TopperInv, TopperTypeOK, thread
  <2>3. IndexInRange'
    BY <1>7, <2>1 DEF TopperInv, IndexInRange
  <2>4. ScriptInv'
    BY <1>7 DEF ScriptInv, thread
  <2>5. LoopInv'
    <3>1. CASE at = "next"
      BY <1>1, <1>3, <1>7, <2>1, <3>1 DEF LoopInv, thread
    <3>2. CASE at = "previous"
      BY <1>1, <1>4, <1>7, <2>1, <3>2 DEF LoopInv, thread
    <3> QED BY <1>7, <3>1, <3>2
  <2>6. ArrowsInv'
    <3> SUFFICES ASSUME NEW y \in Zones, y # zone
                 PROVE  arrows'[y] = Lit(index'[y], Len(entities'[y]))
      BY <1>7 DEF ArrowsInv, Rests, thread, Lit
    <3> QED BY <1>7, <2>1 DEF TopperInv, ArrowsInv, Rests, thread
  <2> QED BY <2>2, <2>3, <2>4, <2>5, <2>6 DEF TopperInv
<1>8. CASE GoNext /\ NextIndex(zone) # to
  <2>1. at = "next" /\ index' = [index EXCEPT ![zone] = NextIndex(zone)]
        /\ UNCHANGED <<entities, arrows, shown, thread>>
    BY <1>8 DEF GoNext
  <2>2. NextIndex(zone) < to /\ NextIndex(zone) >= index[zone]
    BY <1>1, <1>2, <1>3, <1>8, <2>1
  <2> QED BY <1>2, <1>7, <2>1, <2>2
<1>9. CASE GoPrevious /\ PreviousIndex(zone) # to
  <2>1. at = "previous" /\ index' = [index EXCEPT ![zone] = PreviousIndex(zone)]
        /\ UNCHANGED <<entities, arrows, shown, thread>>
    BY <1>9 DEF GoPrevious
  <2>2. to < PreviousIndex(zone) /\ PreviousIndex(zone) <= index[zone]
    BY <1>1, <1>2, <1>4, <1>9, <2>1
  <2>3. PreviousIndex(zone) = index[zone] \/ PreviousIndex(zone) < Len(entities[zone])
    BY <1>1, <1>2
  <2> QED BY <1>2, <1>7, <2>1, <2>2, <2>3
<1> QED BY <1>5, <1>6, <1>8, <1>9

LEMMA TopperStep == TopperInv /\ [Next]_vars => TopperInv'
<1> SUFFICES ASSUME TopperInv, [Next]_vars PROVE TopperInv'
  OBVIOUS
<1>1. CASE UNCHANGED topper
  BY <1>1 DEF topper, lists, thread, TopperInv, TopperTypeOK, IndexInRange, ScriptInv,
              LoopInv, ArrowsInv, Rests, Lit, Opening
<1>2. CASE TopperNext
  BY <1>2, AddKeeps, ScriptEndKeeps, GoKeeps, RefreshKeeps, ClickKeeps, ChangeKeeps
     DEF TopperNext
<1> QED BY <1>1, <1>2 DEF Next, vars

(***************************************************************************)
(* The invariant of the topper zones, whatever the answers hold and        *)
(* however many zones, rows and points there are.                          *)
(***************************************************************************)
THEOREM TopperInvariant == Spec => []TopperInv
<1>1. Init => TopperInv
  BY Start DEF Init
<1> QED BY <1>1, TopperStep, PTL DEF Spec

(***************************************************************************)
(* The index of a zone is in its list, in every turn of every loop, also   *)
(* of a loop that does not end.                                            *)
(***************************************************************************)
THEOREM IndexStaysInRange == Spec => []IndexInRange
<1>1. TopperInv => IndexInRange
  BY DEF TopperInv
<1> QED BY <1>1, TopperInvariant, PTL

(***************************************************************************)
(* The arrows of a zone at rest are lit exactly where it can go.           *)
(***************************************************************************)
THEOREM ArrowsTellTheTruth == Spec => []ArrowsAgree
<1>1. TopperInv => ArrowsAgree
  BY ArrowsInvMeaning DEF TopperInv
<1> QED BY <1>1, TopperInvariant, PTL

(***************************************************************************)
(* The part of ChangeTopperReturns that needs no fairness: no turn of a    *)
(* loop passes the index it was asked for.                                 *)
(***************************************************************************)
THEOREM LoopsDoNotPass ==
  Spec => []((at = "next" => index[zone] < to) /\ (at = "previous" => to < index[zone]))
<1>1. TopperInv => (at = "next" => index[zone] < to) /\ (at = "previous" => to < index[zone])
  BY DEF TopperInv, LoopInv
<1> QED BY <1>1, TopperInvariant, PTL

-----------------------------------------------------------------------------
(***************************************************************************)
(* Why a zone shows the entity at its index.  While a script adds the      *)
(* rows, the zone already shows the row it will open on: the first one of  *)
(* the list, or the last one that is left to add.  Rows of one month come  *)
(* together, so that a row that is left out is one of the last entity.     *)
(* Over a list that is not empty, or has rows still to come, only a zone   *)
(* that sums its values shows nothing.                                     *)
(***************************************************************************)
Silent(z) == shown[z] = None /\ z \in Summed

PlainShows ==
  \/ Silent(zone)
  \/ /\ entities[zone] = <<>> /\ rows # <<>> => rows[1] = shown[zone]
     /\ entities[zone] # <<>> => entities[zone][1] = shown[zone]

MonthlyShows ==
  /\ Grouped(rows)
  /\ rows # <<>> => rows[Len(rows)] = shown[zone]
  /\ rows = <<>> /\ entities[zone] # <<>> =>
       entities[zone][Len(entities[zone])] = shown[zone]
  /\ \A i \in DOMAIN rows, j \in DOMAIN entities[zone] :
       rows[i] = entities[zone][j] =>
         j = Len(entities[zone]) /\ \A k \in 1 .. i : rows[k] = rows[i]

ScriptShows ==
  at = "script" => IF zone \in Monthly THEN MonthlyShows ELSE PlainShows

Filled(z) == entities[z] # <<>> \/ (at = "script" /\ zone = z /\ rows # <<>>)

MessageInv == \A z \in Zones : Filled(z) /\ shown[z] = None => z \in Summed

ShownInv == ShownIsIndexed /\ ScriptShows /\ MessageInv

\* What is left of the rows is grouped as they were.
LEMMA TailIsGrouped ==
  ASSUME NEW d \in Seq(Ids), d # <<>>, Grouped(d)
  PROVE  /\ Grouped(Tail(d))
         /\ Len(Tail(d)) = Len(d) - 1
         /\ \A i \in DOMAIN Tail(d) : i + 1 \in DOMAIN d /\ Tail(d)[i] = d[i + 1]
<1>1. /\ Len(Tail(d)) = Len(d) - 1 /\ Len(d) \in Nat \ {0}
      /\ DOMAIN Tail(d) = 1 .. Len(d) - 1 /\ DOMAIN d = 1 .. Len(d)
      /\ \A i \in 1 .. Len(d) - 1 : Tail(d)[i] = d[i + 1]
  OBVIOUS
<1>2. ASSUME NEW i \in 1 .. Len(d) - 1, NEW j \in 1 .. Len(d) - 1,
             d[i + 1] = d[j + 1], NEW k \in i .. j
      PROVE  d[k + 1] = d[i + 1]
  <2>1. i + 1 \in DOMAIN d /\ j + 1 \in DOMAIN d /\ k + 1 \in (i + 1) .. (j + 1)
    BY <1>1
  <2> QED BY <1>2, <2>1 DEF Grouped
<1>3. Grouped(Tail(d))
  <2> SUFFICES ASSUME NEW i \in DOMAIN Tail(d), NEW j \in DOMAIN Tail(d),
                      Tail(d)[i] = Tail(d)[j], NEW k \in i .. j
               PROVE  Tail(d)[k] = Tail(d)[i]
    BY DEF Grouped
  <2>1. i \in 1 .. Len(d) - 1 /\ j \in 1 .. Len(d) - 1 /\ k \in 1 .. Len(d) - 1
    BY <1>1
  <2>2. d[i + 1] = d[j + 1]
    BY <1>1, <2>1
  <2>3. d[k + 1] = d[i + 1]
    BY <1>2, <2>1, <2>2
  <2> QED BY <1>1, <2>1, <2>3
<1> QED BY <1>1, <1>3

\* What is added at the end does not change what comes first.
LEMMA AppendKeepsFirst ==
  ASSUME NEW s \in Seq(Ids), s # <<>>, NEW e \in Ids
  PROVE  Append(s, e) # <<>> /\ Append(s, e)[1] = s[1]
OBVIOUS

LEMMA RefreshShows ==
  ASSUME TopperInv, ShownInv, NEW z \in Zones, Refresh(z)
  PROVE  ShownInv'
<1> PICK d \in Answers(z) :
      /\ \/ shown' = [shown EXCEPT ![z] = Written(z, d)]
         \/ z \in Summed /\ shown' = [shown EXCEPT ![z] = None]
      /\ rows' = d
  BY DEF Refresh
<1>1. d \in Seq(Ids) /\ (z \in Monthly => Grouped(d))
  BY RowListsAssumption DEF Answers
<1>2. /\ zone' = z /\ at = "idle" /\ at' = "script"
      /\ shown'[z] = Written(z, d) \/ (z \in Summed /\ shown'[z] = None)
      /\ entities'[z] = <<>>
      /\ \A y \in Zones \ {z} :
           shown'[y] = shown[y] /\ entities'[y] = entities[y] /\ index'[y] = index[y]
  BY DEF Refresh, TopperInv, TopperTypeOK
<1>3. ShownIsIndexed'
  <2> SUFFICES ASSUME NEW y \in Zones, y # z, entities'[y] # <<>>
               PROVE  \/ shown'[y] = entities'[y][index'[y] + 1]
                      \/ shown'[y] = None /\ y \in Summed
    BY <1>2 DEF ShownIsIndexed, Rests
  <2> QED BY <1>2 DEF ShownInv, ShownIsIndexed, Rests
<1>4. MessageInv'
  <2> SUFFICES ASSUME NEW y \in Zones, Filled(y)', shown'[y] = None
               PROVE  y \in Summed
    BY DEF MessageInv
  <2>1. CASE y = z
    <3>1. d # <<>>
      BY <1>2, <2>1 DEF Filled
    <3>2. Written(z, d) \in Ids
      BY <1>1, <3>1 DEF Written
    <3> QED BY <1>2, <2>1, <3>2, NoneAssumption
  <2>2. CASE y # z
    BY <1>2, <2>2 DEF Filled, ShownInv, MessageInv
  <2> QED BY <2>1, <2>2
<1>5. CASE z \in Monthly
  <2>1. Grouped(rows')
    BY <1>1, <1>5 DEF Grouped
  <2>2. \A j \in DOMAIN entities'[z] : FALSE
    BY <1>2
  <2>3. shown'[z] = Written(z, d)
    BY <1>2, <1>5, ZonesAssumption
  <2>4. MonthlyShows'
    BY <1>2, <1>5, <2>1, <2>2, <2>3 DEF MonthlyShows, Written
  <2> QED BY <1>2, <1>3, <1>4, <1>5, <2>4 DEF ShownInv, ScriptShows
<1>6. CASE z \notin Monthly
  <2>1. PlainShows'
    BY <1>2, <1>6 DEF PlainShows, Written, Silent
  <2> QED BY <1>2, <1>3, <1>4, <1>6, <2>1 DEF ShownInv, ScriptShows
<1> QED BY <1>5, <1>6

LEMMA AddShows ==
  ASSUME TopperInv, ShownInv, addEntity
  PROVE  ShownInv'
<1> DEFINE old == entities[zone]
           h   == Head(rows)
<1>1. /\ zone \in Zones /\ old \in Seq(Ids) /\ rows \in Seq(Ids) /\ rows # <<>>
      /\ at = "script" /\ at' = "script" /\ zone' = zone
      /\ rows' = Tail(rows) /\ shown' = shown /\ index' = index
      /\ entities \in [Zones -> Seq(Ids)]
  BY DEF addEntity, TopperInv, TopperTypeOK
<1>2. /\ h = rows[1] /\ Len(rows) \in Nat \ {0} /\ Len(old) \in Nat
      /\ DOMAIN rows = 1 .. Len(rows) /\ DOMAIN old = 1 .. Len(old)
      /\ (old = <<>> <=> Len(old) = 0)
  BY <1>1
<1>3. \/ /\ Full(zone) \/ \E i \in DOMAIN old : old[i] = h
         /\ entities' = entities
      \/ /\ ~ Full(zone) /\ \A i \in DOMAIN old : old[i] # h
         /\ entities' = [entities EXCEPT ![zone] = Append(old, h)]
  BY DEF addEntity
<1>4. ShownIsIndexed'
  <2> SUFFICES ASSUME NEW y \in Zones, y # zone, entities'[y] # <<>>
               PROVE  \/ shown'[y] = entities'[y][index'[y] + 1]
                      \/ shown'[y] = None /\ y \in Summed
    BY <1>1 DEF ShownIsIndexed, Rests
  <2>1. entities'[y] = entities[y]
    BY <1>1, <1>3
  <2> QED BY <1>1, <2>1 DEF ShownInv, ShownIsIndexed, Rests
<1>5. MessageInv'
  <2> SUFFICES ASSUME NEW y \in Zones, Filled(y)', shown'[y] = None
               PROVE  y \in Summed
    BY DEF MessageInv
  <2>1. Filled(y)
    <3>1. CASE y = zone
      BY <1>1, <3>1 DEF Filled
    <3>2. CASE y # zone
      <4>1. entities'[y] = entities[y]
        BY <1>1, <1>3, <3>2
      <4> QED BY <1>1, <3>2, <4>1 DEF Filled
    <3> QED BY <3>1, <3>2
  <2> QED BY <1>1, <2>1 DEF ShownInv, MessageInv
<1>6. CASE zone \notin Monthly
  <2>1. PlainShows
    BY <1>1, <1>6 DEF ShownInv, ScriptShows
  <2>4. CASE Silent(zone)
    BY <1>1, <1>4, <1>5, <1>6, <2>4 DEF ShownInv, ScriptShows, PlainShows, Silent
  <2>2. CASE ~ Silent(zone) /\ old = <<>>
    <3>1. ~ Full(zone) /\ \A i \in DOMAIN old : old[i] # h
      BY <1>2, <2>2, MaxAssumption DEF Full
    <3>2. entities'[zone] = Append(old, h)
      BY <1>1, <1>3, <3>1
    <3>3. entities'[zone] = <<h>>
      BY <2>2, <3>2
    <3> QED BY <1>1, <1>2, <1>4, <1>5, <1>6, <2>1, <2>2, <3>3 DEF ShownInv, ScriptShows, PlainShows
  <2>3. CASE ~ Silent(zone) /\ old # <<>>
    <3>1. entities'[zone] = old \/ entities'[zone] = Append(old, h)
      BY <1>1, <1>3
    <3>2. h \in Ids
      BY <1>1
    <3>3. Append(old, h) # <<>> /\ Append(old, h)[1] = old[1]
      BY <1>1, <2>3, <3>2, AppendKeepsFirst
    <3>4. entities'[zone] # <<>> /\ entities'[zone][1] = old[1]
      BY <2>3, <3>1, <3>3
    <3> QED BY <1>1, <1>4, <1>5, <1>6, <2>1, <2>3, <3>4 DEF ShownInv, ScriptShows, PlainShows
  <2> QED BY <2>2, <2>3, <2>4
<1>7. CASE zone \in Monthly
  <2>1. MonthlyShows
    BY <1>1, <1>7 DEF ShownInv, ScriptShows
  <2>2. /\ Grouped(rows') /\ Len(rows') = Len(rows) - 1
        /\ \A i \in DOMAIN rows' : i + 1 \in DOMAIN rows /\ rows'[i] = rows[i + 1]
    BY <1>1, <2>1, TailIsGrouped DEF MonthlyShows, Grouped
  <2>3. rows' \in Seq(Ids) /\ DOMAIN rows' = 1 .. Len(rows')
    BY <1>1
  <2>4. rows' # <<>> => rows'[Len(rows')] = shown[zone]
    <3> SUFFICES ASSUME rows' # <<>> PROVE rows'[Len(rows')] = shown[zone]
      OBVIOUS
    <3>1. Len(rows') \in DOMAIN rows'
      BY <2>3
    <3>2. rows'[Len(rows')] = rows[Len(rows)]
      BY <1>2, <2>2, <3>1
    <3> QED BY <1>1, <2>1, <3>2 DEF MonthlyShows
  <2>5. rows' = <<>> => h = shown[zone]
    <3> SUFFICES ASSUME rows' = <<>> PROVE h = shown[zone]
      OBVIOUS
    <3>1. Len(rows') = 0
      OBVIOUS
    <3>2. Len(rows) = 1
      <4>1. Len(rows') = Len(rows) - 1 /\ Len(rows) \in Nat
        BY <1>2, <2>2, Zenon
      <4> QED BY <3>1, <4>1
    <3>3. rows[Len(rows)] = shown[zone]
      BY <1>1, <2>1 DEF MonthlyShows
    <3> QED BY <1>2, <3>2, <3>3
  <2>6. ASSUME NEW i \in DOMAIN rows', NEW j \in DOMAIN old, rows'[i] = old[j]
        PROVE  j = Len(old) /\ h = old[j] /\ \A k \in 1 .. i : rows'[k] = rows'[i]
    <3>1. i + 1 \in DOMAIN rows /\ rows[i + 1] = old[j]
      BY <2>2, <2>6
    <3>2. j = Len(old) /\ \A k \in 1 .. i + 1 : rows[k] = rows[i + 1]
      BY <2>1, <3>1 DEF MonthlyShows
    <3>3. \A k \in 1 .. i : rows'[k] = rows[k + 1] /\ k + 1 \in 1 .. i + 1
      BY <2>2, <2>3
    <3>4. 1 \in 1 .. i + 1
      BY <2>3
    <3>5. h = old[j]
      BY <1>2, <3>1, <3>2, <3>4
    <3>6. \A k \in 1 .. i : rows'[k] = rows'[i]
      BY <2>2, <3>2, <3>3
    <3> QED BY <3>2, <3>5, <3>6
  <2>7. CASE entities' = entities /\ \E i \in DOMAIN old : old[i] = h
    <3>1. old[Len(old)] = h
      <4>1. PICK j \in DOMAIN old : old[j] = h
        BY <2>7
      <4>2. 1 \in DOMAIN rows
        BY <1>2
      <4> QED BY <1>2, <2>1, <4>1, <4>2 DEF MonthlyShows
    <3>2. entities'[zone] = old
      BY <2>7
    <3>3. MonthlyShows'
      BY <1>1, <2>2, <2>4, <2>5, <2>6, <3>1, <3>2 DEF MonthlyShows
    <3> QED BY <1>1, <1>4, <1>5, <1>7, <3>3 DEF ShownInv, ScriptShows
  <2>8. CASE /\ entities' = [entities EXCEPT ![zone] = Append(old, h)]
             /\ \A i \in DOMAIN old : old[i] # h
    <3>1. entities'[zone] = Append(old, h)
      BY <1>1, <2>8
    <3>2. /\ Len(entities'[zone]) = Len(old) + 1
          /\ entities'[zone][Len(old) + 1] = h
          /\ DOMAIN entities'[zone] = 1 .. Len(old) + 1
          /\ \A j \in 1 .. Len(old) : entities'[zone][j] = old[j]
      BY <1>1, <1>2, <3>1
    <3>3. ASSUME NEW i \in DOMAIN rows', NEW j \in DOMAIN entities'[zone],
                 rows'[i] = entities'[zone][j]
          PROVE  j = Len(entities'[zone]) /\ \A k \in 1 .. i : rows'[k] = rows'[i]
      <4>1. CASE j = Len(old) + 1
        <5>1. i + 1 \in DOMAIN rows /\ rows[i + 1] = rows[1] /\ 1 \in DOMAIN rows
          BY <1>2, <2>2, <3>2, <3>3, <4>1
        <5>2. \A k \in 1 .. i + 1 : rows[k] = rows[1]
          BY <2>1, <5>1 DEF MonthlyShows, Grouped
        <5>3. \A k \in 1 .. i : rows'[k] = rows[k + 1] /\ k + 1 \in 1 .. i + 1
          BY <2>2, <2>3
        <5>4. \A k \in 1 .. i : rows'[k] = rows[1]
          BY <5>2, <5>3
        <5> QED BY <2>2, <3>2, <4>1, <5>1, <5>4
      <4>2. CASE j \in 1 .. Len(old)
        <5>1. rows'[i] = old[j]
          BY <3>2, <3>3, <4>2
        <5> QED BY <1>2, <2>6, <2>8, <4>2, <5>1
      <4> QED BY <1>2, <3>2, <4>1, <4>2
    <3>4. MonthlyShows'
      BY <1>1, <2>2, <2>4, <2>5, <3>2, <3>3 DEF MonthlyShows
    <3> QED BY <1>1, <1>4, <1>5, <1>7, <3>4 DEF ShownInv, ScriptShows
  <2> QED BY <1>3, <1>7, <2>7, <2>8, ZonesAssumption DEF Full
<1> QED BY <1>6, <1>7

LEMMA ScriptEndShows ==
  ASSUME TopperInv, ShownInv, ScriptEnds
  PROVE  ShownInv'
<1>1. /\ at = "script" /\ rows = <<>> /\ at' = "idle" /\ zone' = zone /\ zone \in Zones
      /\ entities' = entities /\ shown' = shown
      /\ index \in [Zones -> Nat] /\ entities[zone] \in Seq(Ids)
      /\ index' = [index EXCEPT ![zone] =
           IF zone \in Monthly /\ entities[zone] # <<>>
           THEN Len(entities[zone]) - 1 ELSE @]
  BY DEF ScriptEnds, Return, TopperInv, TopperTypeOK
<1>2. ScriptShows'
  BY <1>1 DEF ScriptShows
<1>3. entities[zone] # <<>> /\ ~ Silent(zone) =>
        shown[zone] = entities[zone][index'[zone] + 1]
  <2> SUFFICES ASSUME entities[zone] # <<>>, ~ Silent(zone)
               PROVE  shown[zone] = entities[zone][index'[zone] + 1]
    OBVIOUS
  <2>1. Len(entities[zone]) \in Nat /\ index[zone] = 0
    BY <1>1 DEF TopperInv, ScriptInv
  <2>2. CASE zone \in Monthly
    <3>1. index'[zone] + 1 = Len(entities[zone])
      BY <1>1, <2>1, <2>2
    <3> QED BY <1>1, <2>2, <3>1 DEF ShownInv, ScriptShows, MonthlyShows
  <2>3. CASE zone \notin Monthly
    <3>1. index'[zone] + 1 = 1
      BY <1>1, <2>1, <2>3
    <3> QED BY <1>1, <2>3, <3>1 DEF ShownInv, ScriptShows, PlainShows
  <2> QED BY <2>2, <2>3
<1>4. ShownIsIndexed'
  <2> SUFFICES ASSUME NEW y \in Zones, entities'[y] # <<>>
               PROVE  \/ shown'[y] = entities'[y][index'[y] + 1]
                      \/ shown'[y] = None /\ y \in Summed
    BY DEF ShownIsIndexed
  <2>1. CASE y = zone
    BY <1>1, <1>3, <2>1 DEF Silent
  <2>2. CASE y # zone
    BY <1>1, <2>2 DEF ShownInv, ShownIsIndexed, Rests
  <2> QED BY <2>1, <2>2
<1>5. MessageInv'
  BY <1>1 DEF ShownInv, MessageInv, Filled
<1> QED BY <1>2, <1>4, <1>5 DEF ShownInv

\* A handler ends, or a loop goes on, and z shows what is at its index.
LEMMA LandsShown ==
  ASSUME TopperInv, TopperInv', ShownInv, NEW z \in Zones, NEW i \in Nat,
         at = "idle" \/ zone = z, at' = "idle",
         index' = [index EXCEPT ![z] = i],
         shown' = [shown EXCEPT ![z] = Rewritten(z, i)],
         entities' = entities
  PROVE  ShownInv'
<1>1. /\ shown'[z] = Rewritten(z, i) /\ index'[z] = i
      /\ \A y \in Zones \ {z} :
           Rests(y) /\ shown'[y] = shown[y] /\ index'[y] = index[y]
  BY DEF Rests, TopperInv, TopperTypeOK
<1>2. ScriptShows'
  BY DEF ScriptShows
<1>3. MessageInv'
  <2> SUFFICES ASSUME NEW y \in Zones, entities[y] # <<>>, shown'[y] = None
               PROVE  y \in Summed
    BY DEF MessageInv, Filled
  <2>1. shown[y] = None
    <3>1. CASE y = z
      <4>1. i < Len(entities[z]) /\ entities[z] \in Seq(Ids)
        <5>1. entities[z] \in Seq(Ids) /\ Len(entities[z]) > 0
          BY <3>1 DEF TopperInv, TopperTypeOK
        <5>2. i = 0 \/ i < Len(entities[z])
          BY <1>1 DEF TopperInv, IndexInRange
        <5> QED BY <5>1, <5>2
      <4>2. entities[z][i + 1] \in Ids
        BY <4>1
      <4> QED BY <1>1, <3>1, <4>2, NoneAssumption DEF Rewritten
    <3>2. CASE y # z
      BY <1>1, <3>2
    <3> QED BY <3>1, <3>2
  <2> QED BY <2>1 DEF ShownInv, MessageInv, Filled
<1>4. ShownIsIndexed'
  <2> SUFFICES ASSUME NEW y \in Zones, entities'[y] # <<>>
               PROVE  \/ shown'[y] = entities'[y][index'[y] + 1]
                      \/ shown'[y] = None /\ y \in Summed
    BY DEF ShownIsIndexed
  <2>1. CASE y = z
    <3>1. shown[z] = None => z \in Summed
      BY <2>1 DEF ShownInv, MessageInv, Filled
    <3> QED BY <1>1, <2>1, <3>1 DEF Rewritten
  <2>2. CASE y # z
    BY <1>1, <2>2 DEF ShownInv, ShownIsIndexed
  <2> QED BY <2>1, <2>2
<1> QED BY <1>2, <1>3, <1>4 DEF ShownInv

LEMMA ShownStep == TopperInv /\ ShownInv /\ [Next]_vars => ShownInv'
<1> SUFFICES ASSUME TopperInv, ShownInv, [Next]_vars PROVE ShownInv'
  OBVIOUS
<1>1. TopperInv'
  BY TopperStep
<1>2. CASE UNCHANGED topper
  BY <1>2 DEF topper, lists, thread, ShownInv, ShownIsIndexed, ScriptShows, Rests,
              PlainShows, MonthlyShows, Grouped, MessageInv, Filled, Silent
<1>3. ASSUME NEW z \in Zones, ClickNext(z) \/ ClickPrevious(z) PROVE ShownInv'
  <2>1. /\ NextIndex(z) \in Nat
        /\ PreviousIndex(z) \in Nat
    BY Steps DEF TopperInv
  <2> QED BY <1>1, <1>3, <2>1, LandsShown
          DEF ClickNext, ClickPrevious, AfterNext, AfterPrevious, thread
<1>4. ASSUME NEW z \in Zones, changeTopper(z) PROVE ShownInv'
  <2>1. UNCHANGED lists /\ at = "idle" /\ at' # "script"
    BY <1>4 DEF changeTopper
  <2> QED BY <2>1 DEF lists, ShownInv, ShownIsIndexed, ScriptShows, Rests, MessageInv, Filled
<1>5. CASE GoNext \/ GoPrevious
  <2>1. to \in Nat /\ zone \in Zones /\ at # "idle" /\ at # "script"
    BY <1>5 DEF TopperInv, TopperTypeOK, GoNext, GoPrevious
  <2>2. CASE Return
    BY <1>1, <1>5, <2>1, <2>2, LandsShown DEF GoNext, GoPrevious, AfterNext, AfterPrevious, Return, thread
  <2>3. CASE UNCHANGED <<entities, arrows, shown, thread>>
    <3>1. \A y \in Zones \ {zone} : index'[y] = index[y]
      BY <1>5, <2>1, <2>3 DEF GoNext, GoPrevious, AfterNext, AfterPrevious, Return,
                              thread, TopperInv, TopperTypeOK
    <3> QED BY <2>1, <2>3, <3>1 DEF thread, ShownInv, ShownIsIndexed, ScriptShows, Rests,
                                    MessageInv, Filled
  <2> QED BY <1>5, <2>2, <2>3 DEF GoNext, GoPrevious
<1> QED BY <1>2, <1>3, <1>4, <1>5, RefreshShows, AddShows, ScriptEndShows
        DEF Next, TopperNext, vars

(***************************************************************************)
(* A zone at rest that shows an entity shows the one at its index,         *)
(* whatever duplicates and rows over the max its answer held, and only a   *)
(* zone that sums its values shows none over a list.                       *)
(***************************************************************************)
THEOREM ZonesShowTheirIndex == Spec => []ShownIsIndexed
<1>1. Init => ShownInv
  BY DEF Init, TopperInit, ShownInv, ShownIsIndexed, ScriptShows, MessageInv, Filled
<1>2. ShownInv => ShownIsIndexed
  BY DEF ShownInv
<1> QED BY <1>1, <1>2, ShownStep, TopperInvariant, PTL DEF Spec

-----------------------------------------------------------------------------
SquareInv == SquareTypeOK /\ PagesFit

LEMMA SquareStep == SquareInv /\ [Next]_vars => SquareInv'
<1> SUFFICES ASSUME SquareInv, [Next]_vars PROVE SquareInv'
  OBVIOUS
<1> USE DEF SquareInv, SquareTypeOK, PagesFit, Fits
<1>1. Top \in Nat /\ Top > 0 /\ max \in Nat /\ begin \in Int
  BY TopAssumption, TotalsAssumption
<1>2. CASE UNCHANGED square
  BY <1>2 DEF square
<1>3. ASSUME NEW asked \in SUBSET Int, _UpdateWithNextsCommunity(asked),
             \A b \in asked : Fits(b)
      PROVE  SquareInv'
  BY <1>3 DEF _UpdateWithNextsCommunity
<1>4. CASE PreviousPage
  <2> DEFINE b == IF begin + 2 * Top - 1 >= max THEN max - Top ELSE begin + Top
  <2>1. b \in Int /\ b + Top <= max
    BY <1>1, <1>4 DEF PreviousPage
  <2> QED BY <1>3, <1>4, <2>1 DEF PreviousPage
<1>5. CASE NextPage
  <2> DEFINE asked == {b \in {1} : begin - Top < 1 /\ begin > 1} \cup {begin - Top}
  <2>1. begin + Top <= max
    BY <1>5 DEF NextPage
  <2>2. asked \in SUBSET Int /\ \A b \in asked : Fits(b)
    BY <1>1, <2>1
  <2> QED BY <1>3, <1>5, <2>2 DEF NextPage
<1>6. CASE Answer
  BY <1>6 DEF Answer
<1> QED BY <1>2, <1>4, <1>5, <1>6 DEF Next, SquareNext, vars

(***************************************************************************)
(* No page goes past the last row, for any page size and table, whatever   *)
(* is clicked meanwhile and in whatever order the answers come.            *)
(***************************************************************************)
THEOREM PagesAlwaysFit == Spec => []PagesFit
<1>1. Init => SquareInv
  BY DEF Init, SquareInit, SquareInv, SquareTypeOK, PagesFit, Fits
<1>2. SquareInv => PagesFit
  BY DEF SquareInv
<1> QED BY <1>1, <1>2, SquareStep, PTL DEF Spec

-----------------------------------------------------------------------------
(***************************************************************************)
(* Why a table that ends where a page does is never shown from below its   *)
(* first row: all its pages begin where a page of Top rows would.          *)
(***************************************************************************)
Starts == {1 + Top * j : j \in Nat}

EvenPages == (max - 1) % Top = 0 => pages \cup {begin} \subseteq Starts

\* From the begin of a page, one page on, and one back unless it is the first.
LEMMA StartsStep ==
  /\ 1 \in Starts
  /\ \A b \in Starts : b \in Nat /\ b >= 1 /\ b + Top \in Starts
  /\ \A b \in Starts : b # 1 => b >= 1 + Top /\ b - Top \in Starts
<1>1. 1 + Top * 0 = 1
  BY TopAssumption
<1>2. ASSUME NEW b \in Starts PROVE b \in Nat /\ b >= 1 /\ b + Top \in Starts
  <2>1. PICK j \in Nat : b = 1 + Top * j
    BY DEF Starts
  <2>2. Top * j \in Nat /\ Top * (j + 1) = Top * j + Top
    BY TopAssumption
  <2>3. b + Top = 1 + Top * (j + 1)
    BY <2>1, <2>2, TopAssumption
  <2> QED BY <2>1, <2>2, <2>3 DEF Starts
<1>3. ASSUME NEW b \in Starts, b # 1 PROVE b >= 1 + Top /\ b - Top \in Starts
  <2>1. PICK j \in Nat : b = 1 + Top * j
    BY DEF Starts
  <2>2. j # 0
    BY <1>1, <1>3, <2>1
  <2>3. j - 1 \in Nat /\ Top * (j - 1) \in Nat /\ Top * j = Top * (j - 1) + Top
    BY <2>2, TopAssumption
  <2>4. b - Top = 1 + Top * (j - 1) /\ b >= 1 + Top
    BY <2>1, <2>3, TopAssumption
  <2> QED BY <2>3, <2>4 DEF Starts
<1> QED BY <1>1, <1>2, <1>3 DEF Starts

LEMMA EvenTotal ==
  ASSUME NEW m \in Nat, m >= 1, (m - 1) % Top = 0
  PROVE  m \in Starts
<1> DEFINE j == (m - 1) \div Top
<1>1. m - 1 \in Nat /\ Top \in Nat /\ Top > 0
  BY TopAssumption
<1>2. j \in Nat
  BY <1>1
<1>3. m - 1 = Top * j + ((m - 1) % Top)
  BY <1>1
<1> HIDE DEF j
<1>4. Top * j \in Nat
  BY <1>1, <1>2
<1>5. m = 1 + Top * j
  BY <1>3, <1>4
<1> QED BY <1>2, <1>5 DEF Starts

LEMMA EvenStep == SquareInv /\ EvenPages /\ [Next]_vars => EvenPages'
<1>a. [Next]_vars => max' = max
  <2>1. SquareNext => max' = max
    BY Zenon DEF SquareNext, PreviousPage, NextPage, Answer, _UpdateWithNextsCommunity
  <2> QED BY <2>1 DEF Next, vars, square
<1> SUFFICES ASSUME SquareInv, EvenPages, [Next]_vars, (max - 1) % Top = 0
             PROVE  pages' \cup {begin'} \subseteq Starts
  BY <1>a DEF EvenPages
<1>1. pages \cup {begin} \subseteq Starts
  BY DEF EvenPages
<1>2. max \in Nat /\ Top \in Nat /\ Top > 0 /\ begin \in Starts /\ begin \in Nat /\ begin >= 1
  BY <1>1, StartsStep, TopAssumption, TotalsAssumption DEF SquareInv, SquareTypeOK
<1>3. ASSUME NEW asked, _UpdateWithNextsCommunity(asked), asked \subseteq Starts
      PROVE  pages' \cup {begin'} \subseteq Starts
  BY <1>1, <1>3 DEF _UpdateWithNextsCommunity
<1>4. CASE PreviousPage
  <2>1. begin + Top < max
    BY <1>4 DEF PreviousPage
  <2>2. max >= 1 /\ max # 1
    BY <1>2, <2>1
  <2>3. begin + Top \in Starts /\ max - Top \in Starts
    BY <1>2, <2>2, StartsStep, EvenTotal
  <2> QED BY <1>3, <1>4, <2>3 DEF PreviousPage
<1>5. CASE NextPage
  <2>1. begin - Top \in Starts /\ 1 \in Starts
    BY <1>2, <1>5, StartsStep DEF NextPage
  <2>2. {b \in {1} : begin - Top < 1 /\ begin > 1} \cup {begin - Top} \subseteq Starts
    BY <2>1
  <2> QED BY <1>3, <1>5, <2>2 DEF NextPage
<1>6. CASE Answer
  BY <1>1, <1>6 DEF Answer
<1> QED BY <1>1, <1>4, <1>5, <1>6 DEF Next, SquareNext, vars, square

(***************************************************************************)
(* Only a table that does not end where a page would is ever shown from    *)
(* below its first row, for any page size.                                 *)
(***************************************************************************)
THEOREM EvenTablesStartAtOne == Spec => []BelowOneIsUneven
<1>1. Init => SquareInv /\ EvenPages
  BY StartsStep DEF Init, SquareInit, SquareInv, SquareTypeOK, PagesFit, Fits, EvenPages
<1>2. SquareInv /\ EvenPages => BelowOneIsUneven
  BY StartsStep DEF SquareInv, SquareTypeOK, EvenPages, BelowOneIsUneven
<1> QED BY <1>1, <1>2, SquareStep, EvenStep, PTL DEF Spec
=============================================================================
