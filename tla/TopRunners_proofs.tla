-------------------------- MODULE TopRunners_proofs -------------------------
(***************************************************************************)
(* Theorems about the zone of the top runners, for any race, any size of   *)
(* its pages and any number of cards.                                      *)
(***************************************************************************)
EXTENDS TopRunners, RaceLedger_proofs, FunctionTheorems

\* What topRunner gives for the first page: at most PageRows rows, each of a
\* participant, with the laps he has.
LEMMA PageRowsAreTrue ==
  ASSUME RaceTypeOK, NEW page \in topRunner(1)
  PROVE  /\ page \in Seq([ident : Participants, res : Nat])
         /\ Len(page) \in 0 .. PageRows
         /\ \A i \in 1 .. Len(page) :
              page[i].res = nbTourCoureur(carte, passage, page[i].ident)
<1> DEFINE cards == Cardinality(DOMAIN carte)
           left  == cards - 1 + 1
           n     == IF left < PageRows THEN left ELSE PageRows
<1>1. cards \in Nat
  BY CardsAssumption, FS_Subset, FS_CardinalityType DEF RaceTypeOK, IsCarte
<1>2. n \in Nat /\ n <= PageRows /\ n <= cards
  <2> HIDE DEF cards
  <2> QED
    BY <1>1, PageAssumption
<1>3. PICK o \in Orders : page = [i \in 1 .. n |-> RowOf(o[1 - 1 + i])]
  BY DEF topRunner
<1>4. ASSUME NEW i \in 1 .. n
      PROVE  /\ page[i] \in [ident : Participants, res : Nat]
             /\ page[i].res = nbTourCoureur(carte, passage, page[i].ident)
  <2>1. 1 - 1 + i = i /\ i \in 1 .. cards
    <3> HIDE DEF cards, n
    <3> QED
      BY <1>1, <1>2
  <2>2. o[i] \in DOMAIN carte
    <3>1. o \in [1 .. cards -> DOMAIN carte]
      BY DEF Orders
    <3> HIDE DEF cards
    <3> QED
      BY <2>1, <3>1
  <2>3. page[i] = RowOf(o[i])
    <3> HIDE DEF n
    <3> QED
      BY <1>3, <2>1
  <2>4. nbTourCoureur(carte, passage, carte[o[i]]) \in Nat
    BY LapsNat DEF RaceTypeOK
  <2> QED
    BY <2>2, <2>3, <2>4 DEF RowOf, RaceTypeOK, IsCarte
<1>5. page \in Seq([ident : Participants, res : Nat]) /\ Len(page) = n
  <2> DEFINE R == [ident : Participants, res : Nat]
  <2>1. page = [i \in 1 .. n |-> page[i]]
    BY <1>3
  <2>2. \A i \in 1 .. n : page[i] \in R
    BY <1>4
  <2> HIDE DEF n, R
  <2>3. page \in Seq(R) /\ Len(page) = n
    BY <1>2, <2>1, <2>2
  <2> QED
    BY <2>3 DEF R
<1> QED
  <2> HIDE DEF n
  <2> QED
    BY <1>2, <1>4, <1>5, PageAssumption

\* An order of the cards that names none twice names all of them.
LEMMA OrdersNameAll ==
  ASSUME RaceTypeOK, NEW o \in Orders
  PROVE  /\ o \in [1 .. Cardinality(DOMAIN carte) -> DOMAIN carte]
         /\ \A k \in DOMAIN carte : \E i \in 1 .. Cardinality(DOMAIN carte) : o[i] = k
         /\ \A i, j \in 1 .. Cardinality(DOMAIN carte) :
              i < j => RowOf(o[i]).res <= RowOf(o[j]).res
<1> DEFINE C == DOMAIN carte
           n == Cardinality(C)
<1>1. IsFiniteSet(C) /\ n \in Nat
  <2>1. C \subseteq CardIds
    BY DEF RaceTypeOK, IsCarte
  <2> HIDE DEF C
  <2>2. IsFiniteSet(C)
    BY <2>1, CardsAssumption, FS_Subset, Zenon
  <2> QED
    BY <2>2, FS_CardinalityType, Zenon
<1>2. /\ o \in [1 .. n -> C]
      /\ \A i, j \in 1 .. n : i < j => o[i] # o[j] /\ RowOf(o[i]).res <= RowOf(o[j]).res
  BY DEF Orders
<1> HIDE DEF C
<1>3. IsFiniteSet(1 .. n) /\ Cardinality(1 .. n) = n
  BY <1>1, FS_Interval
<1>4. \A i, j \in 1 .. n : o[i] = o[j] => i = j
  BY <1>1, <1>2
<1>5. o \in Injection(1 .. n, C)
  BY <1>2, <1>4, Fun_IsInj
<1>6. o \in Surjection(1 .. n, C)
  BY <1>1, <1>3, <1>5, FS_Injection
<1>7. \A k \in C : \E i \in 1 .. n : o[i] = k
  BY <1>6, Zenon DEF Surjection
<1> QED
  BY <1>2, <1>7 DEF C

\* A card whose runner is not on the first page has no fewer laps than any on it.
LEMMA PageIsLowest ==
  ASSUME RaceTypeOK, NEW page \in topRunner(1), NEW k \in DOMAIN carte,
         \A i \in 1 .. Len(page) : page[i].ident # carte[k]
  PROVE  \A i \in 1 .. Len(page) :
           page[i].res <= nbTourCoureur(carte, passage, carte[k])
<1> DEFINE cards == Cardinality(DOMAIN carte)
           left  == cards - 1 + 1
           n     == IF left < PageRows THEN left ELSE PageRows
<1>1. cards \in Nat
  BY CardsAssumption, FS_Subset, FS_CardinalityType DEF RaceTypeOK, IsCarte
<1>2. n \in Nat /\ n <= cards
  <2> HIDE DEF cards
  <2> QED
    BY <1>1, PageAssumption
<1>3. PICK o \in Orders : page = [i \in 1 .. n |-> RowOf(o[1 - 1 + i])]
  BY DEF topRunner
<1>4. PICK j \in 1 .. cards : o[j] = k
  BY OrdersNameAll
<1>5. \A i \in 1 .. cards : i < j => RowOf(o[i]).res <= RowOf(k).res
  BY <1>4, OrdersNameAll
<1> HIDE DEF cards, n
<1>6. \A i \in 1 .. n : page[i] = RowOf(o[i]) /\ i \in 1 .. cards
  <2>1. \A i \in 1 .. n : 1 - 1 + i = i /\ i \in 1 .. cards
    BY <1>1, <1>2
  <2> QED
    BY <1>3, <2>1
<1>7. Len(page) = n
  BY <1>2, <1>3
<1>8. j \notin 1 .. n
  <2> SUFFICES ASSUME j \in 1 .. n PROVE FALSE
    OBVIOUS
  <2>1. page[j] = RowOf(k)
    BY <1>4, <1>6, Zenon
  <2>2. page[j].ident = carte[k]
    BY <2>1 DEF RowOf
  <2> QED
    BY <1>7, <2>2
<1>9. \A i \in 1 .. n : i < j
  BY <1>1, <1>2, <1>4, <1>8
<1> QED
  BY <1>5, <1>6, <1>7, <1>9 DEF RowOf

\* The page that topRunner gives is true, and the lowest.
LEMMA PageIsGood ==
  ASSUME RaceTypeOK, Select
  PROVE  /\ answer' \in Seq([ident : Participants, res : Nat])
         /\ Len(answer') <= PageRows
         /\ DOMAIN table' \subseteq DOMAIN carte'
         /\ Reached(answer)' /\ LowestOf(answer)'
<1>1. /\ answer' \in topRunner(1) /\ UNCHANGED <<carte, passage>>
      /\ DOMAIN table' = DOMAIN carte
  BY DEF Select, race
<1>2. /\ answer' \in Seq([ident : Participants, res : Nat])
      /\ Len(answer') \in 0 .. PageRows
      /\ \A i \in 1 .. Len(answer') :
           answer'[i].res = nbTourCoureur(carte, passage, answer'[i].ident)
  BY <1>1, PageRowsAreTrue
<1>3. Reached(answer)'
  <2> SUFFICES ASSUME NEW i \in 1 .. Len(answer')
               PROVE  answer'[i].res <= nbTourCoureur(carte, passage, answer'[i].ident)
    BY <1>1 DEF Reached
  <2>1. nbTourCoureur(carte, passage, answer'[i].ident) \in Nat
    BY LapsNat DEF RaceTypeOK
  <2> QED
    BY <1>2, <2>1
<1>4. LowestOf(answer)'
  <2> SUFFICES ASSUME NEW k \in DOMAIN carte,
                      \A i \in 1 .. Len(answer') : answer'[i].ident # carte[k]
               PROVE  \A i \in 1 .. Len(answer') :
                        answer'[i].res <= nbTourCoureur(carte, passage, carte[k])
    BY <1>1 DEF LowestOf, LeftOut
  <2> QED
    BY <1>1, PageIsLowest
<1> QED
  BY <1>1, <1>2, <1>3, <1>4, PageAssumption

\* What was true of a page stays so while the race goes on.
LEMMA PageStaysGood ==
  ASSUME RaceTypeOK, RaceNext, UNCHANGED table, DOMAIN table \subseteq DOMAIN carte,
         NEW page \in Seq([ident : Participants, res : Nat]),
         Reached(page), LowestOf(page)
  PROVE  /\ \A i \in 1 .. Len(page) :
              page[i].res <= nbTourCoureur(carte', passage', page[i].ident)
         /\ \A i \in 1 .. Len(page), k \in DOMAIN table' :
              (\A j \in 1 .. Len(page) : page[j].ident # carte'[k])
                => page[i].res <= nbTourCoureur(carte', passage', carte'[k])
<1>1. /\ RaceTypeOK'
      /\ \A p \in Participants : nbTourCoureur(carte', passage', p)
                                   >= nbTourCoureur(carte, passage, p)
  BY RaceStepGrows
<1>2. \A k \in DOMAIN carte : carte'[k] = carte[k] /\ carte[k] \in Participants
  BY RaceStepKeepsCards DEF RaceTypeOK, IsCarte
<1>3. \A p : /\ nbTourCoureur(carte, passage, p) \in Nat
             /\ nbTourCoureur(carte', passage', p) \in Nat
  BY <1>1, LapsNat DEF RaceTypeOK
<1>4. \A i \in 1 .. Len(page) : page[i].ident \in Participants /\ page[i].res \in Nat
  <2> DEFINE R == [ident : Participants, res : Nat]
  <2>1. \A i \in 1 .. Len(page) : page[i] \in R
    <3>1. page \in Seq(R)
      OBVIOUS
    <3> HIDE DEF R
    <3> QED
      BY <3>1
  <2> QED
    BY <2>1
<1>5. ASSUME NEW i \in 1 .. Len(page)
      PROVE  page[i].res <= nbTourCoureur(carte', passage', page[i].ident)
  <2>1. page[i].res <= nbTourCoureur(carte, passage, page[i].ident)
    BY DEF Reached
  <2> QED
    BY <1>1, <1>3, <1>4, <2>1
<1>6. ASSUME NEW i \in 1 .. Len(page), NEW k \in DOMAIN table',
             \A j \in 1 .. Len(page) : page[j].ident # carte'[k]
      PROVE  page[i].res <= nbTourCoureur(carte', passage', carte'[k])
  <2>1. k \in DOMAIN carte /\ k \in DOMAIN table
    OBVIOUS
  <2>2. carte'[k] = carte[k] /\ carte[k] \in Participants
    BY <1>2, <2>1
  <2>3. k \in LeftOut(page)
    BY <1>6, <2>1, <2>2, Zenon DEF LeftOut
  <2>4. page[i].res <= nbTourCoureur(carte, passage, carte[k])
    BY <2>3 DEF LowestOf
  <2> QED
    BY <1>1, <1>3, <1>4, <2>2, <2>4
<1> QED
  BY <1>5, <1>6, Zenon

\* The initial states satisfy the invariant.
LEMMA TopInit == Init => TopInv
BY ZoneAssumption, PageAssumption
DEF Init, RaceInit, TopInv, TypeOK, RaceTypeOK, IsCarte, BeginInRange, MaxInRange,
    Reached, ShownIsReached, LowestOf, LeftOut, PageIsTheBottom

\* Every step of the page or of the race preserves it.
LEMMA TopNext == TopInv /\ [Next]_vars => TopInv'
<1> SUFFICES ASSUME TopInv, [Next]_vars PROVE TopInv'
  OBVIOUS
<1> USE ZoneAssumption, PageAssumption DEF TopInv
<1> DEFINE R == [ident : Participants, res : Nat]
<1>0. /\ RaceTypeOK /\ answer \in Seq(R) /\ rows \in Seq(R)
      /\ begin \in Nat /\ max \in Nat /\ DOMAIN table \subseteq DOMAIN carte
  BY DEF TypeOK
<1>1. CASE UNCHANGED vars
  <2>1. UNCHANGED <<race, zone>>
    BY <1>1 DEF vars
  <2>2. TypeOK' /\ BeginInRange' /\ MaxInRange'
    BY <2>1 DEF race, zone, TypeOK, RaceTypeOK, IsCarte, BeginInRange, MaxInRange
  <2>3. Reached(answer)' /\ ShownIsReached' /\ LowestOf(answer)' /\ PageIsTheBottom'
    BY <2>1 DEF race, zone, Reached, ShownIsReached, LowestOf, LeftOut, PageIsTheBottom
  <2> QED
    BY <2>1, <2>2, <2>3 DEF zone
<1>2. CASE Load
  <2>1. TypeOK' /\ BeginInRange' /\ MaxInRange'
    BY <1>2 DEF Load, race, TypeOK, RaceTypeOK, IsCarte, BeginInRange, MaxInRange
  <2>2. Reached(answer)' /\ ShownIsReached' /\ LowestOf(answer)' /\ PageIsTheBottom'
    BY <1>2 DEF Load, Reached, ShownIsReached, LowestOf, LeftOut, PageIsTheBottom
  <2> QED
    BY <1>2, <2>1, <2>2 DEF Load
<1>3. CASE Select
  <2>1. /\ answer' \in Seq(R) /\ Len(answer') <= PageRows
        /\ DOMAIN table' \subseteq DOMAIN carte'
        /\ Reached(answer)' /\ LowestOf(answer)'
    BY <1>0, <1>3, PageIsGood
  <2>2. /\ UNCHANGED <<race, begin, max, rows>> /\ request' = "answered"
        /\ rows = <<>>
    BY <1>3 DEF Select
  <2>3. TypeOK'
    BY <2>1, <2>2 DEF race, TypeOK, RaceTypeOK, IsCarte
  <2>4. BeginInRange' /\ MaxInRange'
    BY <2>1, <2>2 DEF BeginInRange, MaxInRange
  <2>5. ShownIsReached' /\ PageIsTheBottom'
    BY <2>2 DEF ShownIsReached, Reached, PageIsTheBottom, LowestOf
  <2> QED
    BY <2>1, <2>2, <2>3, <2>4, <2>5
<1>4. CASE FillSquareKPI
  <2>1. /\ UNCHANGED <<race, begin, table>> /\ request' = "none" /\ answer' = <<>>
        /\ max' = begin + Len(answer) /\ rows' = rows \o answer /\ rows = <<>>
    BY <1>4 DEF FillSquareKPI
  <2>2. rows' = answer /\ Len(answer) \in Nat
    <3> HIDE DEF R
    <3> QED
      BY <1>0, <2>1
  <2>3. TypeOK'
    <3>1. RaceTypeOK' /\ DOMAIN table' \subseteq DOMAIN carte'
      BY <1>0, <2>1 DEF race, RaceTypeOK, IsCarte
    <3>2. answer' \in Seq(R) /\ rows' \in Seq(R)
      BY <1>0, <2>1, <2>2
    <3> QED
      BY <1>0, <2>1, <2>2, <3>1, <3>2 DEF TypeOK
  <2>4. BeginInRange' /\ MaxInRange'
    BY <1>0, <2>1, <2>2 DEF BeginInRange, MaxInRange
  <2>5. ShownIsReached' /\ PageIsTheBottom'
    BY <2>1, <2>2 DEF race, ShownIsReached, Reached, PageIsTheBottom, LowestOf, LeftOut
  <2>6. Reached(answer)' /\ LowestOf(answer)'
    BY <2>1 DEF Reached, LowestOf
  <2> QED
    BY <2>1, <2>3, <2>4, <2>5, <2>6
<1>5. CASE Fail
  <2>1. TypeOK' /\ BeginInRange' /\ MaxInRange'
    BY <1>5 DEF Fail, race, TypeOK, RaceTypeOK, IsCarte, BeginInRange, MaxInRange
  <2>2. UNCHANGED <<carte, passage, rows, table>> /\ answer' = <<>>
    BY <1>5 DEF Fail, race
  <2>3. Reached(answer)' /\ LowestOf(answer)'
    BY <2>2 DEF Reached, LowestOf
  <2>4. ShownIsReached' /\ PageIsTheBottom'
    BY <2>2 DEF ShownIsReached, Reached, PageIsTheBottom, LowestOf, LeftOut
  <2> QED
    BY <1>5, <2>1, <2>3, <2>4 DEF Fail
<1>6. CASE Previous
  <2>1. UNCHANGED <<race, max, request, answer, rows, table>>
    BY <1>6 DEF Previous
  <2>2. begin' \in Nat /\ BeginInRange'
    BY <1>6 DEF Previous, TypeOK, BeginInRange, MaxInRange
  <2> QED
    BY <2>1, <2>2 DEF race, TypeOK, RaceTypeOK, IsCarte, MaxInRange,
                      Reached, ShownIsReached, LowestOf, LeftOut, PageIsTheBottom
<1>7. CASE NextArrow
  <2>1. UNCHANGED <<race, max, request, answer, rows, table>>
    BY <1>7 DEF NextArrow
  <2>2. begin' \in Nat /\ BeginInRange'
    BY <1>7 DEF NextArrow, TypeOK, BeginInRange
  <2> QED
    BY <2>1, <2>2 DEF race, TypeOK, RaceTypeOK, IsCarte, MaxInRange,
                      Reached, ShownIsReached, LowestOf, LeftOut, PageIsTheBottom
<1>8. CASE RaceStep
  <2>1. RaceNext /\ UNCHANGED zone
    BY <1>8 DEF RaceStep
  <2>2. RaceTypeOK' /\ DOMAIN table' \subseteq DOMAIN carte'
    BY <1>0, <2>1, RaceStepGrows, RaceStepKeepsCards DEF zone
  <2>3. UNCHANGED table
    BY <2>1 DEF zone
  <2>4. Reached(answer)' /\ LowestOf(answer)'
    <3>1. /\ \A i \in 1 .. Len(answer) :
               answer[i].res <= nbTourCoureur(carte', passage', answer[i].ident)
          /\ \A i \in 1 .. Len(answer), k \in DOMAIN table' :
               (\A j \in 1 .. Len(answer) : answer[j].ident # carte'[k])
                 => answer[i].res <= nbTourCoureur(carte', passage', carte'[k])
      <4>1. Reached(answer) /\ LowestOf(answer)
        BY DEF ShownIsReached, PageIsTheBottom
      <4> QED
        BY <1>0, <2>1, <2>3, <4>1, PageStaysGood
    <3>2. answer' = answer
      BY <2>1 DEF zone
    <3> QED
      BY <3>1, <3>2, Zenon DEF Reached, LowestOf, LeftOut
  <2>5. ShownIsReached' /\ PageIsTheBottom'
    <3>1. /\ \A i \in 1 .. Len(rows) :
               rows[i].res <= nbTourCoureur(carte', passage', rows[i].ident)
          /\ \A i \in 1 .. Len(rows), k \in DOMAIN table' :
               (\A j \in 1 .. Len(rows) : rows[j].ident # carte'[k])
                 => rows[i].res <= nbTourCoureur(carte', passage', carte'[k])
      <4>1. Reached(rows) /\ LowestOf(rows)
        BY DEF ShownIsReached, PageIsTheBottom
      <4> QED
        BY <1>0, <2>1, <2>3, <4>1, PageStaysGood
    <3>2. rows' = rows
      BY <2>1 DEF zone
    <3> QED
      BY <3>1, <3>2, Zenon DEF ShownIsReached, PageIsTheBottom, Reached, LowestOf, LeftOut
  <2>6. TypeOK' /\ BeginInRange' /\ MaxInRange'
    BY <2>1, <2>2 DEF zone, TypeOK, BeginInRange, MaxInRange
  <2> QED
    BY <2>1, <2>4, <2>5, <2>6 DEF zone
<1> QED
  BY <1>1, <1>2, <1>3, <1>4, <1>5, <1>6, <1>7, <1>8 DEF Next

(***************************************************************************)
(* The invariant of the zone holds in every state.                         *)
(***************************************************************************)
THEOREM TopInvariant == Spec => []TopInv
<1>1. Init => TopInv
  BY TopInit
<1>2. TopInv /\ [Next]_vars => TopInv'
  BY TopNext
<1> QED
  BY <1>1, <1>2, PTL DEF Spec

(***************************************************************************)
(* The arrows keep _begin in the range that the page declares, whenever    *)
(* the answer of the service comes.                                        *)
(***************************************************************************)
THEOREM BeginStaysInRange == Spec => []BeginInRange
<1>1. TopInv => BeginInRange
  BY DEF TopInv
<1> QED
  BY <1>1, TopInvariant, PTL

(***************************************************************************)
(* A runner has at least the laps he is shown with.                        *)
(***************************************************************************)
THEOREM ShownLapsAreReached == Spec => []ShownIsReached
<1>1. TopInv => ShownIsReached
  BY DEF TopInv
<1> QED
  BY <1>1, TopInvariant, PTL

(***************************************************************************)
(* However long the answer takes, a runner who had a card when topRunner   *)
(* ran and is not shown has as many laps as any that is: for any number of *)
(* cards, whatever the order of equal lap counts.                          *)
(***************************************************************************)
THEOREM PagesAreTheBottom == Spec => []PageIsTheBottom
<1>1. TopInv => PageIsTheBottom
  BY DEF TopInv
<1> QED
  BY <1>1, TopInvariant, PTL
=============================================================================
