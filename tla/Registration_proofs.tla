------------------------ MODULE Registration_proofs -------------------------
(***************************************************************************)
(* Theorems about the registration site and the cards given to its rows,   *)
(* for any people and any forms.                                           *)
(***************************************************************************)
EXTENDS RaceDay, TLAPS

\* A row that p sends is a row.
LEMMA NewRowType ==
  ASSUME TypeOK, RequestIsTyped, NEW p \in People, pc[p] # "idle"
  PROVE  NewRow(p) \in Row
BY NumberAssumption, LoginAssumption DEF TypeOK, RequestIsTyped, NewRow, Row

\* The initial states satisfy the invariant.
LEMMA RegistrationInit == Init => RegistrationInv
BY DEF Init, RegistrationInv, TypeOK, RequestIsTyped, SessionIsRow, StoredAsTyped, Kinds

\* Storing a file preserves it.
LEMMA MoveInv ==
  ASSUME RegistrationInv, NEW p \in People, NEW kind \in Kinds,
         NEW ext \in Exts \cup {None}, Move(p, kind, ext)
  PROVE  /\ files' \in [Kinds -> [Numbers -> [Exts -> People \cup {None}]]]
         /\ \A k \in Kinds, n \in Numbers, e \in Exts :
              files'[k][n][e] # None => NumberOf[files'[k][n][e]] = n
<1> USE DEF RegistrationInv, TypeOK, StoredAsTyped
<1>1. CASE UNCHANGED files
  BY <1>1
<1>2. CASE ext # None /\ files' = [files EXCEPT ![kind][NumberOf[p]][ext] = p]
  <2>1. NumberOf[p] \in Numbers /\ ext \in Exts
    BY <1>2, NumberAssumption
  <2>2. files' \in [Kinds -> [Numbers -> [Exts -> People \cup {None}]]]
    BY <1>2, <2>1
  <2>3. ASSUME NEW k \in Kinds, NEW n \in Numbers, NEW e \in Exts,
               files'[k][n][e] # None
        PROVE  NumberOf[files'[k][n][e]] = n
    <3>1. CASE k = kind /\ n = NumberOf[p] /\ e = ext
      BY <1>2, <2>1, <3>1
    <3>2. CASE ~ (k = kind /\ n = NumberOf[p] /\ e = ext)
      <4>1. files'[k][n][e] = files[k][n][e]
        BY <1>2, <2>1, <3>2
      <4> QED
        BY <2>3, <4>1
    <3> QED
      BY <3>1, <3>2
  <2> QED
    BY <2>2, <2>3
<1> QED
  BY <1>1, <1>2 DEF Move

\* Every step of the site preserves the invariant.
LEMMA RegistrationNext == RegistrationInv /\ [Next]_vars => RegistrationInv'
<1> SUFFICES ASSUME RegistrationInv, [Next]_vars PROVE RegistrationInv'
  OBVIOUS
<1> USE DEF RegistrationInv, RequestIsTyped, Goto, Done, form
<1>1. CASE UNCHANGED vars
  BY <1>1 DEF vars, TypeOK, SessionIsRow, StoredAsTyped, Rows
<1>2. ASSUME NEW p \in People, Submit(p) PROVE RegistrationInv'
  <2> USE <1>2 DEF Submit
  <2>1. PICK l \in LoginsOf[p] : login' = [login EXCEPT ![p] = l]
    OBVIOUS
  <2>2. l \in Logins
    BY LoginAssumption
  <2>3. TypeOK'
    <3> HIDE DEF Row
    <3> QED
      BY <2>1, <2>2 DEF TypeOK
  <2>4. RequestIsTyped'
    BY <2>1 DEF TypeOK
  <2> QED
    BY <2>3, <2>4 DEF SessionIsRow, StoredAsTyped, Rows
<1>3. ASSUME NEW p \in People, UploadAvatar(p) PROVE RegistrationInv'
  <2> USE <1>3 DEF UploadAvatar
  <2>1. photo[p] \in Exts \cup {None} /\ "avatar" \in Kinds
    BY DEF TypeOK, Kinds
  <2>2. TypeOK'
    BY <2>1, MoveInv DEF TypeOK
  <2>3. StoredAsTyped'
    BY <2>1, MoveInv DEF StoredAsTyped
  <2>4. RequestIsTyped'
    BY DEF TypeOK
  <2> QED
    BY <2>2, <2>3, <2>4 DEF SessionIsRow, Rows
<1>4. ASSUME NEW p \in People, UploadCertif(p) PROVE RegistrationInv'
  <2> USE <1>4 DEF UploadCertif
  <2>1. certif[p] \in Exts \cup {None} /\ "certif" \in Kinds
    BY DEF TypeOK, Kinds
  <2>2. TypeOK'
    BY <2>1, MoveInv DEF TypeOK
  <2>3. StoredAsTyped'
    BY <2>1, MoveInv DEF StoredAsTyped
  <2>4. RequestIsTyped'
    BY DEF TypeOK
  <2> QED
    BY <2>2, <2>3, <2>4 DEF SessionIsRow, Rows
<1>5. ASSUME NEW p \in People, Insert(p) PROVE RegistrationInv'
  <2> USE <1>5 DEF Insert
  <2>0. RequestIsTyped'
    BY DEF TypeOK
  <2>1. CASE UNCHANGED participant
    <3>1. TypeOK'
      BY <2>1 DEF TypeOK
    <3> QED
      BY <2>0, <2>1, <3>1 DEF SessionIsRow, StoredAsTyped, Rows
  <2>2. CASE participant' = Append(participant, NewRow(p))
    <3>1. NewRow(p) \in Row
      BY NewRowType
    <3>2. /\ participant \in Seq(Row)
          /\ participant' \in Seq(Row)
          /\ Len(participant') = Len(participant) + 1
          /\ participant'[Len(participant) + 1] = NewRow(p)
          /\ \A i \in 1 .. Len(participant) : participant'[i] = participant[i]
      <4> HIDE DEF Row
      <4> QED
        BY <2>2, <3>1 DEF TypeOK
    <3>3. TypeOK'
      BY <3>2 DEF TypeOK
    <3>4. Rows \subseteq Rows'
      BY <3>2 DEF Rows
    <3>5. SessionIsRow'
      BY <3>4 DEF SessionIsRow
    <3>6. NewRow(p).number = NumberOf[NewRow(p).by]
          /\ NewRow(p).login \in LoginsOf[NewRow(p).by]
      BY DEF NewRow, RequestIsTyped
    <3>7. \A i \in 1 .. Len(participant') :
             i \in 1 .. Len(participant) \/ i = Len(participant) + 1
      BY <3>2
    <3>8. StoredAsTyped'
      BY <3>2, <3>6, <3>7 DEF StoredAsTyped
    <3> QED
      BY <2>0, <3>3, <3>5, <3>8
  <2> QED
    BY <2>1, <2>2
<1>6. ASSUME NEW p \in People, NEW r \in Rows,
             r.number = NumberOf[p] \/ r.login \in LoginsOf[p],
             session' = [session EXCEPT ![p] = r],
             UNCHANGED <<files, participant>>
      PROVE  /\ session' \in [People -> Row \cup {None}]
             /\ SessionIsRow'
             /\ StoredAsTyped'
  <2>1. r \in Row
    <3> HIDE DEF Row
    <3> QED
      BY DEF Rows, TypeOK
  <2>2. session' \in [People -> Row \cup {None}]
    BY <1>6, <2>1 DEF TypeOK
  <2>3. SessionIsRow'
    BY <1>6 DEF SessionIsRow, Rows, TypeOK
  <2> QED
    BY <1>6, <2>2, <2>3 DEF StoredAsTyped
<1>7. ASSUME NEW p \in People, Select(p) PROVE RegistrationInv'
  <2> USE <1>7 DEF Select
  <2>1. CASE UNCHANGED session
    BY <2>1 DEF TypeOK, SessionIsRow, StoredAsTyped, Rows
  <2>2. ASSUME NEW r \in RowsNumbered(NumberOf[p]),
               session' = [session EXCEPT ![p] = r]
        PROVE  RegistrationInv'
    <3>1. /\ session' \in [People -> Row \cup {None}]
          /\ SessionIsRow'
          /\ StoredAsTyped'
      BY <1>6, <2>2 DEF RowsNumbered
    <3> QED
      BY <3>1 DEF TypeOK
  <2> QED
    BY <2>1, <2>2
<1>8. ASSUME NEW p \in People, Connexion(p) PROVE RegistrationInv'
  <2> USE <1>8 DEF Connexion
  <2>1. /\ session' \in [People -> Row \cup {None}]
        /\ SessionIsRow'
        /\ StoredAsTyped'
    BY <1>6
  <2> QED
    BY <2>1 DEF TypeOK
<1>9. ASSUME NEW p \in People, Logout(p) PROVE RegistrationInv'
  BY <1>9 DEF Logout, TypeOK, SessionIsRow, StoredAsTyped, Rows
<1> QED
  BY <1>1, <1>2, <1>3, <1>4, <1>5, <1>7, <1>8, <1>9 DEF Next

(***************************************************************************)
(* The invariant holds in every state.                                     *)
(***************************************************************************)
THEOREM RegistrationInvariant == Spec => []RegistrationInv
<1>1. Init => RegistrationInv
  BY RegistrationInit
<1>2. RegistrationInv /\ [Next]_vars => RegistrationInv'
  BY RegistrationNext
<1> QED
  BY <1>1, <1>2, PTL DEF Spec

(***************************************************************************)
(* If no two persons type the same number, nor the same e-mail and         *)
(* password, every session is on a row that its own person sent.           *)
(***************************************************************************)
THEOREM ProfilesAreOwn ==
  ASSUME Distinct
  PROVE  Spec => []ProfileIsOwn
<1>1. RegistrationInv => ProfileIsOwn
  <2> SUFFICES ASSUME RegistrationInv, NEW p \in People, session[p] # None
               PROVE  session[p].by = p
    BY DEF ProfileIsOwn
  <2> DEFINE r == session[p]
  <2>1. r \in Rows /\ (r.number = NumberOf[p] \/ r.login \in LoginsOf[p])
    BY DEF RegistrationInv, SessionIsRow
  <2>2. r.by \in People /\ r.number = NumberOf[r.by] /\ r.login \in LoginsOf[r.by]
    <3>1. PICK i \in 1 .. Len(participant) : r = participant[i]
      BY <2>1 DEF Rows
    <3>2. participant[i] \in Row
      <4> HIDE DEF Row
      <4> QED
        BY DEF RegistrationInv, TypeOK
    <3> QED
      BY <3>1, <3>2 DEF RegistrationInv, StoredAsTyped, Row
  <2> QED
    BY <2>1, <2>2 DEF Distinct
<1> QED
  BY <1>1, RegistrationInvariant, PTL

(***************************************************************************)
(* If no two persons type the same number, the certificate stored for a    *)
(* row is the one that its own person sent.                                *)
(***************************************************************************)
THEOREM CertificatesAreOwn ==
  ASSUME Distinct
  PROVE  Spec => []CertificateIsOwn
<1>1. RegistrationInv => CertificateIsOwn
  <2> SUFFICES ASSUME RegistrationInv, NEW i \in 1 .. Len(participant),
                      participant[i].certif # None
               PROVE  CertificateOf(participant[i]) \in {participant[i].by, None}
    BY DEF CertificateIsOwn
  <2> DEFINE r == participant[i]
             f == files["certif"][r.number][r.certif]
  <2>1. r \in Row
    <3> HIDE DEF Row
    <3> QED
      BY DEF RegistrationInv, TypeOK
  <2>2. r.by \in People /\ r.number \in Numbers /\ r.certif \in Exts
    BY <2>1 DEF Row
  <2>3. f \in People \cup {None}
    BY <2>2 DEF RegistrationInv, TypeOK, Kinds
  <2>4. f # None => NumberOf[f] = r.number
    BY <2>2 DEF RegistrationInv, StoredAsTyped, Kinds
  <2>5. r.number = NumberOf[r.by]
    BY DEF RegistrationInv, StoredAsTyped
  <2>6. f # None => f = r.by
    BY <2>2, <2>3, <2>4, <2>5 DEF Distinct
  <2> QED
    BY <2>6 DEF CertificateOf
<1> QED
  BY <1>1, RegistrationInvariant, PTL

-----------------------------------------------------------------------------
\* A step of the day is one of the site, or leaves it alone.
LEMMA DayIsRegistration == DaySpec => Spec
<1>1. DayInit => Init
  BY DEF DayInit
<1>2. [DayNext]_dayVars => [Next]_vars
  BY DEF DayNext, dayVars
<1> QED
  BY <1>1, <1>2, PTL DEF DaySpec, Spec

\* Rows stay; a row with a number was sent by who types it.
LEMMA RowsOfNumber ==
  ASSUME Distinct, RegistrationInv, NEW p \in People,
         NEW r \in RowsNumbered(NumberOf[p])
  PROVE  r \in Row /\ r.by = p
<1>1. PICK i \in 1 .. Len(participant) : r = participant[i] /\ r.number = NumberOf[p]
  BY DEF RowsNumbered, Rows
<1>2. r \in Row
  <2> HIDE DEF Row
  <2> QED
    BY <1>1 DEF RegistrationInv, TypeOK
<1>3. r.by \in People /\ NumberOf[r.by] = NumberOf[p]
  BY <1>1, <1>2 DEF RegistrationInv, StoredAsTyped, Row
<1> QED
  BY <1>2, <1>3 DEF Distinct

(***************************************************************************)
(* If no two persons type the same number, a card whose bearer has a row   *)
(* is given to a row that the bearer sent.                                 *)
(***************************************************************************)
THEOREM CardsAreOwn ==
  ASSUME Distinct
  PROVE  DaySpec => []CardIsOwn
<1>1. DayInit => CardIsOwn
  BY DEF DayInit, CardIsOwn
<1>2. RegistrationInv /\ CardIsOwn /\ CartesOK /\ [DayNext]_dayVars => CardIsOwn' /\ CartesOK'
  <2> SUFFICES ASSUME RegistrationInv, CardIsOwn, CartesOK, [DayNext]_dayVars
               PROVE  CardIsOwn' /\ CartesOK'
    OBVIOUS
  <2>1. CASE UNCHANGED carte
    BY <2>1 DEF CardIsOwn, CartesOK
  <2>2. ASSUME NEW p \in People, NEW k \in Cards, saveCardID(p, k)
        PROVE  CardIsOwn' /\ CartesOK'
    <3> DEFINE numbered == RowsNumbered(NumberOf[p])
    <3>1. PICK r \in IF numbered # {} THEN numbered ELSE Rows :
            carte' = [carte EXCEPT ![k] =
                        [row |-> r, bearer |-> p, found |-> numbered # {}]]
      BY <2>2 DEF saveCardID
    <3>2. r \in Row
      <4>1. r \in Rows
        BY <3>1 DEF RowsNumbered
      <4> HIDE DEF Row
      <4> QED
        BY <4>1 DEF Rows, RegistrationInv, TypeOK
    <3>3. numbered # {} => r.by = p
      BY <3>1, RowsOfNumber
    <3> DEFINE given == [row |-> r, bearer |-> p, found |-> numbered # {}]
    <3>4. given \in Given
      BY <3>2, Zenon DEF Given
    <3>5. given.found => given.row.by = given.bearer
      BY <3>3
    <3>6. carte' = [carte EXCEPT ![k] = given]
      BY <3>1
    <3> HIDE DEF given
    <3>7. CartesOK'
      BY <3>4, <3>6 DEF CartesOK
    <3>8. CardIsOwn'
      BY <3>5, <3>6 DEF CardIsOwn, CartesOK
    <3> QED
      BY <3>7, <3>8
  <2> QED
    BY <2>1, <2>2 DEF DayNext, dayVars
<1>3. DayInit => CartesOK
  BY DEF DayInit, CartesOK
<1> QED
  BY <1>1, <1>2, <1>3, RegistrationInvariant, DayIsRegistration, PTL DEF DaySpec
=============================================================================
