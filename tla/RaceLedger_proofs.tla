------------------------- MODULE RaceLedger_proofs --------------------------
(***************************************************************************)
(* What a step of the race does to lap counts, for the modules that read   *)
(* them while the race goes on.                                            *)
(***************************************************************************)
EXTENDS RaceLedger, FiniteSetTheorems, TLAPS

\* The passages of a runner are finitely many.
LEMMA PassagesFinite ==
  ASSUME NEW c, NEW q \in Seq(DOMAIN c), NEW p
  PROVE  /\ IsFiniteSet(PassagesOf(c, q, p))
         /\ Cardinality(PassagesOf(c, q, p)) \in Nat
<1>1. Len(q) \in Nat
  OBVIOUS
<1>2. IsFiniteSet(1 .. Len(q))
  BY <1>1, FS_Interval
<1>3. PassagesOf(c, q, p) \subseteq 1 .. Len(q)
  BY DEF PassagesOf
<1> QED
  BY <1>2, <1>3, FS_Subset, FS_CardinalityType

\* Nor does a runner lose a lap when the set of his passages grows.
LEMMA MorePassagesMoreLaps ==
  ASSUME NEW c, NEW q \in Seq(DOMAIN c), NEW d, NEW r \in Seq(DOMAIN d), NEW p,
         PassagesOf(c, q, p) \subseteq PassagesOf(d, r, p)
  PROVE  nbTourCoureur(d, r, p) >= nbTourCoureur(c, q, p)
<1> DEFINE m == Cardinality(PassagesOf(c, q, p))
           n == Cardinality(PassagesOf(d, r, p))
<1>1. m \in Nat /\ n \in Nat
  BY PassagesFinite
<1>2. m <= n
  BY PassagesFinite, FS_Subset
<1>3. (m \div 2) <= (n \div 2)
  <2> HIDE DEF m, n
  <2> QED
    BY <1>1, <1>2
<1>4. (m \div 2) \in Nat /\ (n \div 2) \in Nat
  <2> HIDE DEF m, n
  <2> QED
    BY <1>1
<1> QED
  BY <1>3, <1>4 DEF nbTourCoureur

\* A lap count is a number.
LEMMA LapsNat ==
  ASSUME NEW c, NEW q \in Seq(DOMAIN c), NEW p
  PROVE  nbTourCoureur(c, q, p) \in Nat
<1> DEFINE m == Cardinality(PassagesOf(c, q, p))
<1>1. m \in Nat
  BY PassagesFinite
<1>2. (m \div 2) \in Nat
  <2> HIDE DEF m
  <2> QED
    BY <1>1
<1> QED
  BY <1>2 DEF nbTourCoureur

\* A step of the race takes no card back.
LEMMA RaceStepKeepsCards ==
  ASSUME RaceTypeOK, RaceNext
  PROVE  /\ DOMAIN carte \subseteq DOMAIN carte'
         /\ \A k \in DOMAIN carte : carte'[k] = carte[k]
<1>1. ASSUME NEW s \in Stations, NEW k \in CardIds, NEW part \in Participants,
             Bind(s, k, part)
      PROVE  /\ DOMAIN carte \subseteq DOMAIN carte'
             /\ \A x \in DOMAIN carte : carte'[x] = carte[x]
  BY <1>1 DEF Bind, With
<1>2. CASE UNCHANGED carte
  BY <1>2
<1> QED
  BY <1>1, <1>2 DEF RaceNext, Show, Drop, Pass

\* A step of the race keeps the tables well formed and takes no lap.
LEMMA RaceStepGrows ==
  ASSUME RaceTypeOK, RaceNext
  PROVE  /\ RaceTypeOK'
         /\ \A p \in Participants : nbTourCoureur(carte, passage, p)'
                                      >= nbTourCoureur(carte, passage, p)
<1> USE DEF RaceTypeOK
<1> DEFINE Grows == \A p \in Participants :
                       PassagesOf(carte, passage, p)
                         \subseteq PassagesOf(carte', passage', p)
<1>1. Len(passage) \in Nat /\ \A i \in 1 .. Len(passage) : passage[i] \in DOMAIN carte
  OBVIOUS
<1>2. CASE UNCHANGED <<carte, passage>>
  <2>1. Grows
    BY <1>2
  <2> QED
    BY <1>2, <2>1, MorePassagesMoreLaps
<1>3. ASSUME NEW s \in Stations, NEW k \in CardIds, NEW part \in Participants,
             Bind(s, k, part)
      PROVE  /\ IsCarte(carte, CardIds)'
             /\ passage' \in Seq(DOMAIN carte')
             /\ Grows
  <2> USE <1>3 DEF Bind, With
  <2>1. DOMAIN carte' = DOMAIN carte \cup {k}
    OBVIOUS
  <2>2. IsCarte(carte, CardIds)'
    BY <2>1 DEF IsCarte
  <2>3. passage' \in Seq(DOMAIN carte')
    BY <2>1
  <2>4. \A x \in DOMAIN carte : carte'[x] = carte[x]
    OBVIOUS
  <2>5. Grows
    BY <1>1, <2>4 DEF PassagesOf
  <2> QED
    BY <2>2, <2>3, <2>5
<1>4. ASSUME NEW s \in Stations, NEW k \in CardIds, Pass(s, k)
      PROVE  /\ IsCarte(carte, CardIds)'
             /\ passage' \in Seq(DOMAIN carte')
             /\ Grows
  <2> USE <1>4 DEF Pass
  <2>1. IsCarte(carte, CardIds)'
    BY DEF IsCarte
  <2>2. passage' \in Seq(DOMAIN carte')
    OBVIOUS
  <2>3. /\ Len(passage') = Len(passage) + 1
        /\ \A i \in 1 .. Len(passage) : passage'[i] = passage[i]
    OBVIOUS
  <2>4. Grows
    BY <1>1, <2>3 DEF PassagesOf
  <2> QED
    BY <2>1, <2>2, <2>4
<1>5. CASE ~ UNCHANGED <<carte, passage>>
  <2>1. /\ IsCarte(carte, CardIds)'
        /\ passage' \in Seq(DOMAIN carte')
        /\ Grows
    BY <1>3, <1>4, <1>5 DEF RaceNext, Drop, Show
  <2> QED
    BY <2>1, MorePassagesMoreLaps
<1> QED
  BY <1>2, <1>5
=============================================================================
