------------------------- MODULE CardStation_proofs -------------------------
(***************************************************************************)
(* Theorems about the card stations, for any number of stations, cards and *)
(* participants.                                                           *)
(***************************************************************************)
EXTENDS CardStation, TLAPS, WellFoundedInduction

(***************************************************************************)
(* Card ids.                                                               *)
(***************************************************************************)

\* A set of numbers has a least element.
LEMMA LeastNumber ==
  ASSUME NEW T \in SUBSET Nat, T # {}
  PROVE  \E m \in T : \A k \in T : m <= k
<1>1. PICK m \in T : \A k \in T : <<k, m>> \notin OpToRel(<, Nat)
  BY WFMin, NatLessThanWellFounded, Zenon
<1>2. \A k \in T : ~(k < m)
  BY <1>1, Zenon DEF OpToRel
<1>3. T \subseteq Nat
  OBVIOUS
<1> QED
  BY <1>2, <1>3, SMT

\* The bytes shown end where the text does or before a zero byte, and hold
\* none.
LEMMA CStringShows ==
  ASSUME NEW bytes \in Seq(Byte)
  PROVE  \E n \in 0 .. Len(bytes) :
           /\ CString(bytes) = SubSeq(bytes, 1, n)
           /\ \A i \in 1 .. n : bytes[i] # 0
           /\ n < Len(bytes) => bytes[n + 1] = 0
<1> DEFINE shown == {n \in 0 .. Len(bytes) : \A i \in 1 .. n : bytes[i] # 0}
           last == CHOOSE n \in shown : \A m \in shown : m <= n
<1>1. Len(bytes) \in Nat
  OBVIOUS
<1>2. \E n \in shown : \A m \in shown : m <= n
  <2> DEFINE zeros == {i \in 1 .. Len(bytes) : bytes[i] = 0}
  <2>1. CASE zeros = {}
    <3>1. Len(bytes) \in shown /\ \A m \in shown : m <= Len(bytes)
      BY <1>1, <2>1
    <3> QED
      BY <3>1
  <2>2. CASE zeros # {}
    <3>1. PICK z \in zeros : \A y \in zeros : z <= y
      <4>1. zeros \subseteq Nat
        BY <1>1
      <4> HIDE DEF zeros
      <4> QED
        BY <2>2, <4>1, LeastNumber
    <3>2. z - 1 \in shown
      BY <1>1, <3>1
    <3>3. \A m \in shown : m <= z - 1
      BY <1>1, <3>1
    <3> QED
      BY <3>2, <3>3
  <2> QED
    BY <2>1, <2>2
<1>3. last \in shown /\ \A m \in shown : m <= last
  BY <1>2
<1>4. ASSUME last < Len(bytes), bytes[last + 1] # 0 PROVE FALSE
  <2>1. last + 1 \in 0 .. Len(bytes)
    BY <1>1, <1>3, <1>4
  <2>2. \A i \in 1 .. last + 1 : bytes[i] # 0
    <3>1. last \in Nat /\ \A i \in 1 .. last : bytes[i] # 0
      BY <1>1, <1>3
    <3> HIDE DEF last
    <3> QED
      BY <1>4, <3>1
  <2>3. last + 1 \in shown
    BY <2>1, <2>2
  <2>4. last + 1 <= last /\ last \in Nat
    <3>1. last + 1 <= last
      BY <1>3, <2>3, Zenon
    <3>2. \A n \in shown : n \in Nat
      BY <1>1
    <3> QED
      BY <1>3, <3>1, <3>2, Zenon
  <2> HIDE DEF last
  <2> QED
    BY <2>4
<1>5. CString(bytes) = SubSeq(bytes, 1, last)
  BY Zenon DEF CString
<1> HIDE DEF last
<1> QED
  BY <1>3, <1>4, <1>5

\* The card id of a serial number: the weights of what main received, up to
\* the first zero byte.
LEMMA KeyShows ==
  ASSUME NEW u \in Uids
  PROVE  /\ u \in Seq(Byte)
         /\ \E n \in 0 .. Len(u) + 1 :
              /\ CardKey[u] = [i \in 1 .. n |-> Weight[Apdu(u)[i]]]
              /\ \A i \in 1 .. n : Apdu(u)[i] # 0
              /\ Apdu(u)[n + 1] = 0
<1> DEFINE text == Append(u, SW1)
<1>1. u \in Seq(Byte)
  BY UidsAssumption DEF Byte, Quote
<1>2. text \in Seq(Byte) /\ Len(text) = Len(u) + 1 /\ Len(u) \in Nat
  BY <1>1 DEF SW1, Byte
<1>3. /\ \A i \in 1 .. Len(u) + 1 : Apdu(u)[i] = text[i]
      /\ Apdu(u)[Len(u) + 2] = 0
  BY <1>1 DEF Apdu
<1>4. u # NoUid
  BY <1>1, NoUidAssumption
<1>5. CardKey[u] = [i \in 1 .. Len(CString(text)) |-> Weight[CString(text)[i]]]
  BY <1>4 DEF CardKey
<1> HIDE DEF text
<1>6. PICK n \in 0 .. Len(text) :
        /\ CString(text) = SubSeq(text, 1, n)
        /\ \A i \in 1 .. n : text[i] # 0
        /\ n < Len(text) => text[n + 1] = 0
  BY <1>2, CStringShows
<1>7. Len(CString(text)) = n /\ \A i \in 1 .. n : CString(text)[i] = text[i]
  BY <1>2, <1>6
<1>8. \A i \in 1 .. n : CString(text)[i] = Apdu(u)[i] /\ Apdu(u)[i] # 0
  BY <1>2, <1>3, <1>6, <1>7
<1>9. CardKey[u] = [i \in 1 .. n |-> Weight[Apdu(u)[i]]]
  BY <1>5, <1>7, <1>8
<1>10. Apdu(u)[n + 1] = 0
  <2>1. CASE n = Len(text)
    BY <1>2, <1>3, <2>1
  <2>2. CASE n < Len(text)
    BY <1>2, <1>3, <1>6, <2>2
  <2> QED
    BY <1>2, <1>6, <2>1, <2>2
<1> QED
  BY <1>1, <1>2, <1>6, <1>8, <1>9, <1>10

\* Two serial numbers with one card id are alike.
LEMMA OneKeyAlike ==
  ASSUME NEW u \in Uids, NEW v \in Uids, CardKey[u] = CardKey[v]
  PROVE  Alike(u, v)
<1>1. u \in Seq(Byte) /\ v \in Seq(Byte)
  BY KeyShows
<1>2. PICK n \in 0 .. Len(u) + 1 :
        /\ CardKey[u] = [i \in 1 .. n |-> Weight[Apdu(u)[i]]]
        /\ \A i \in 1 .. n : Apdu(u)[i] # 0
        /\ Apdu(u)[n + 1] = 0
  BY KeyShows
<1>3. PICK m \in 0 .. Len(v) + 1 :
        /\ CardKey[v] = [i \in 1 .. m |-> Weight[Apdu(v)[i]]]
        /\ \A i \in 1 .. m : Apdu(v)[i] # 0
        /\ Apdu(v)[m + 1] = 0
  BY KeyShows
<1>4. n \in Nat /\ m \in Nat
  BY <1>1
<1>5. 1 .. n = 1 .. m
  BY <1>2, <1>3
<1>6. n = m
  BY <1>4, <1>5
<1>7. \A i \in 1 .. n : Weight[Apdu(u)[i]] = Weight[Apdu(v)[i]]
  <2> SUFFICES ASSUME NEW i \in 1 .. n
               PROVE  Weight[Apdu(u)[i]] = Weight[Apdu(v)[i]]
    OBVIOUS
  <2>1. CardKey[u][i] = Weight[Apdu(u)[i]]
    BY <1>2, Zenon
  <2>2. CardKey[v][i] = Weight[Apdu(v)[i]]
    BY <1>3, <1>5, Zenon
  <2> QED
    BY <2>1, <2>2
<1>8. n <= Len(v) + 1
  BY <1>1, <1>6
<1> QED
  BY <1>2, <1>3, <1>6, <1>7, <1>8 DEF Alike

(***************************************************************************)
(* The inductive invariant.                                                *)
(***************************************************************************)

\* The initial states satisfy it: no card, no row, every program stopped.
LEMMA InvInit == Init => StationInv
BY DEF Init, StationInv, TypeOK, Labels, IsCarte, LinkNeedsCard,
       AnswersNeedLink, BufferIsAnswer, CarteIsBound, LapsAreOfCards

\* A card id that a statement would be built from is one of Keys.
LEMMA KeyInKeys == ASSUME NEW b \in Uids \cup {NoUid} PROVE CardKey[b] \in Keys
BY DEF Keys

\* A step that stops the program, whatever becomes of its connection,
\* preserves it.
LEMMA StopInv ==
  ASSUME StationInv, NEW s \in Stations, Forget(s), UNCHANGED reader,
         NEW l \in {"key", "exited"}, pc' = [pc EXCEPT ![s] = l],
         NEW b \in BOOLEAN, live' = [live EXCEPT ![s] = b],
         b => reader[s] # None
  PROVE  StationInv'
<1> USE DEF StationInv, Forget, tables
<1>1. TypeOK'
  BY DEF TypeOK, Labels, IsCarte
<1>2. LinkNeedsCard'
  BY DEF TypeOK, LinkNeedsCard
<1>3. AnswersNeedLink'
  BY DEF TypeOK, AnswersNeedLink
<1>4. BufferIsAnswer'
  BY DEF TypeOK, BufferIsAnswer
<1>5. CarteIsBound'
  BY DEF CarteIsBound
<1>6. LapsAreOfCards'
  BY DEF LapsAreOfCards
<1> QED
  BY <1>1, <1>2, <1>3, <1>4, <1>5, <1>6

\* So do an error that ends main, and the end of the process.
LEMMA ErrorInv ==
  ASSUME StationInv, NEW s \in Stations, ExitOnError(s), UNCHANGED reader
  PROVE  StationInv'
<1>1. live[s] \in BOOLEAN /\ live' = [live EXCEPT ![s] = live[s]]
  BY DEF StationInv, TypeOK, ExitOnError
<1>2. live[s] => reader[s] # None
  BY DEF StationInv, LinkNeedsCard
<1> QED
  BY <1>1, <1>2, StopInv DEF ExitOnError, Goto

LEMMA ExitInv ==
  ASSUME StationInv, NEW s \in Stations, Exit(s), UNCHANGED reader
  PROVE  StationInv'
BY StopInv DEF Exit, Goto

\* A step that leaves the tables alone preserves what the invariant says of
\* them.
LEMMA TablesInv ==
  ASSUME CarteIsBound, LapsAreOfCards, UNCHANGED tables
  PROVE  CarteIsBound' /\ LapsAreOfCards'
BY DEF CarteIsBound, LapsAreOfCards, tables

\* Every step of the system preserves it.
LEMMA InvNext == StationInv /\ [Next]_vars => StationInv'
<1> SUFFICES ASSUME StationInv, [Next]_vars PROVE StationInv'
  OBVIOUS
<1> USE DEF StationInv, Goto, Labels, AfterBody
<1>1. CASE UNCHANGED vars
  BY <1>1 DEF vars, local, tables, TypeOK, IsCarte, LinkNeedsCard,
              AnswersNeedLink, BufferIsAnswer, CarteIsBound, LapsAreOfCards
<1>2. ASSUME NEW s \in Stations, PCSC_Connect(s) PROVE StationInv'
  <2>1. CASE ExitOnError(s)
    BY <1>2, <2>1, ErrorInv DEF PCSC_Connect
  <2>2. CASE pc' = [pc EXCEPT ![s] = "wait"] /\ UNCHANGED <<live, local, tables>>
    <3> USE <1>2, <2>2 DEF PCSC_Connect, local
    <3>1. TypeOK'
      BY DEF TypeOK, IsCarte, tables
    <3>2. LinkNeedsCard' /\ AnswersNeedLink' /\ BufferIsAnswer'
      BY DEF TypeOK, LinkNeedsCard, AnswersNeedLink, BufferIsAnswer
    <3> QED
      BY <3>1, <3>2, TablesInv
  <2> QED
    BY <1>2, <2>1, <2>2 DEF PCSC_Connect
<1>3. ASSUME NEW s \in Stations, PCSC_WaitForCardPresent(s) PROVE StationInv'
  <2> USE <1>3 DEF PCSC_WaitForCardPresent, local
  <2>1. TypeOK'
    BY DEF TypeOK, IsCarte, tables
  <2>2. LinkNeedsCard'
    BY DEF LinkNeedsCard
  <2>3. AnswersNeedLink'
    BY DEF TypeOK, AnswersNeedLink
  <2>4. BufferIsAnswer'
    BY DEF TypeOK, BufferIsAnswer
  <2> QED
    BY <2>1, <2>2, <2>3, <2>4, TablesInv
<1>4. ASSUME NEW s \in Stations, PCSC_ActivateCard(s) PROVE StationInv'
  <2>1. CASE ExitOnError(s)
    BY <1>4, <2>1, ErrorInv DEF PCSC_ActivateCard
  <2>2. CASE /\ reader[s] # None
             /\ ~live[s]
             /\ live' = [live EXCEPT ![s] = TRUE]
             /\ pc' = [pc EXCEPT ![s] = "atr"]
             /\ UNCHANGED <<local, tables>>
    <3> USE <1>4, <2>2 DEF PCSC_ActivateCard, local
    <3>1. TypeOK'
      BY DEF TypeOK, IsCarte, tables
    <3>2. LinkNeedsCard' /\ AnswersNeedLink' /\ BufferIsAnswer'
      BY DEF TypeOK, LinkNeedsCard, AnswersNeedLink, BufferIsAnswer
    <3> QED
      BY <3>1, <3>2, TablesInv
  <2>3. CASE /\ reader[s] # None
             /\ live' = [live EXCEPT ![s] = TRUE]
             /\ pc' = [pc EXCEPT ![s] = "key"]
             /\ Forget(s)
    BY <1>4, <2>3, StopInv DEF PCSC_ActivateCard
  <2> QED
    BY <1>4, <2>1, <2>2, <2>3 DEF PCSC_ActivateCard, Connected
<1>5. ASSUME NEW s \in Stations, PCSC_GetAtrString(s) PROVE StationInv'
  <2>1. CASE ExitOnError(s)
    BY <1>5, <2>1, ErrorInv DEF PCSC_GetAtrString
  <2>2. CASE /\ live[s]
             /\ pc' = [pc EXCEPT ![s] = "exchange"]
             /\ UNCHANGED <<live, local, tables>>
    <3> USE <1>5, <2>2 DEF PCSC_GetAtrString, local
    <3>1. TypeOK'
      BY DEF TypeOK, IsCarte, tables
    <3>2. LinkNeedsCard' /\ AnswersNeedLink' /\ BufferIsAnswer'
      BY DEF TypeOK, LinkNeedsCard, AnswersNeedLink, BufferIsAnswer
    <3> QED
      BY <3>1, <3>2, TablesInv
  <2> QED
    BY <1>5, <2>1, <2>2 DEF PCSC_GetAtrString
<1>6. ASSUME NEW s \in Stations, PCSC_Exchange(s) PROVE StationInv'
  <2> USE <1>6 DEF PCSC_Exchange, Iterate
  <2>1. answers[s] = 0 /\ (live[s] => reader[s] \in Uids)
    BY DEF AnswersNeedLink, LinkNeedsCard, TypeOK
  <2>2. \/ answers' = answers
        \/ live[s] /\ answers' = [answers EXCEPT ![s] = 1]
    <3>1. CASE live[s]
      <4>1. answers' = [answers EXCEPT ![s] = answers[s] + 1]
        BY <3>1
      <4>2. answers[s] + 1 = 1
        BY <2>1
      <4> QED
        BY <3>1, <4>1, <4>2
    <3>2. CASE ~live[s]
      BY <3>2
    <3> QED
      BY <3>1, <3>2
  <2>3. /\ buf' \in [Stations -> Uids \cup {NoUid}]
        /\ got' \in [Stations -> Uids \cup {None}]
        /\ \/ pc' = [pc EXCEPT ![s] = "prompt"]
           \/ pc' = [pc EXCEPT ![s] = "wait"]
           \/ pc' = [pc EXCEPT ![s] = "disconnect"]
    BY <2>1 DEF TypeOK, Answered, BadStatus, Failed
  <2>4. TypeOK'
    <3>1. answers' \in [Stations -> Nat]
      BY <2>2 DEF TypeOK
    <3>2. pc' \in [Stations -> Labels]
      BY <2>3 DEF TypeOK
    <3> QED
      BY <2>3, <3>1, <3>2 DEF TypeOK, IsCarte, tables
  <2>5. LinkNeedsCard'
    BY DEF LinkNeedsCard
  <2>6. AnswersNeedLink'
    <3> SUFFICES ASSUME NEW t \in Stations
                 PROVE  /\ answers'[t] \in {0, 1}
                        /\ answers'[t] = 1 =>
                             live'[t] /\ pc'[t] \notin {"atr", "exchange"}
      BY DEF AnswersNeedLink
    <3>1. CASE t = s
      BY <2>1, <2>2, <2>3, <3>1 DEF TypeOK
    <3>2. CASE t # s
      BY <2>2, <2>3, <3>2 DEF AnswersNeedLink, TypeOK
    <3> QED
      BY <3>1, <3>2
  <2>7. BufferIsAnswer'
    BY DEF BufferIsAnswer, TypeOK, Answered, BadStatus, Failed
  <2> QED
    BY <2>4, <2>5, <2>6, <2>7, TablesInv
<1>7. ASSUME NEW s \in Stations, Prompt(s) PROVE StationInv'
  <2> USE <1>7 DEF Prompt, TypesNumber, TypesWord
  <2>1. TypeOK'
    <3>1. option' \in [Stations -> 0 .. 3]
      BY ChoicesAssumption DEF TypeOK
    <3>2. jammed' \in [Stations -> BOOLEAN] /\ pc' \in [Stations -> Labels]
      BY DEF TypeOK
    <3> QED
      BY <3>1, <3>2 DEF TypeOK, IsCarte, tables
  <2>2. LinkNeedsCard'
    BY DEF LinkNeedsCard
  <2>3. AnswersNeedLink'
    BY DEF TypeOK, AnswersNeedLink
  <2>4. BufferIsAnswer'
    BY DEF TypeOK, BufferIsAnswer
  <2> QED
    BY <2>1, <2>2, <2>3, <2>4, TablesInv
<1>8. ASSUME NEW s \in Stations, Dispatch(s) PROVE StationInv'
  <2> USE <1>8 DEF Dispatch, Iterate
  <2>1. TypeOK'
    <3>1. pc' \in [Stations -> Labels] /\ got' \in [Stations -> Uids \cup {None}]
      BY DEF TypeOK
    <3> QED
      BY <3>1 DEF TypeOK, IsCarte, tables
  <2>2. LinkNeedsCard'
    BY DEF LinkNeedsCard
  <2>3. AnswersNeedLink'
    BY DEF TypeOK, AnswersNeedLink
  <2>4. BufferIsAnswer'
    BY DEF TypeOK, BufferIsAnswer
  <2> QED
    BY <2>1, <2>2, <2>3, <2>4, TablesInv
<1>9. ASSUME NEW s \in Stations, Student(s) PROVE StationInv'
  <2> USE <1>9 DEF Student, Iterate
  <2>1. TypeOK'
    <3>1. pc' \in [Stations -> Labels] /\ got' \in [Stations -> Uids \cup {None}]
      BY DEF TypeOK
    <3>2. jammed' \in [Stations -> BOOLEAN]
      BY DEF TypeOK
    <3>3. id' \in [Stations -> Participants \cup {None}]
      <4>1. CASE \E part \in Participants : id' = [id EXCEPT ![s] = part]
        <5> HIDE <1>9 DEF StationInv, Student
        <5> QED
          BY <4>1 DEF StationInv, TypeOK
      <4>2. CASE id' = id
        <5> HIDE <1>9 DEF Student
        <5> QED
          BY <4>2 DEF TypeOK
      <4> QED
        BY <4>1, <4>2
    <3> QED
      BY <3>1, <3>2, <3>3 DEF TypeOK, IsCarte, tables
  <2>2. LinkNeedsCard'
    BY DEF LinkNeedsCard
  <2>3. AnswersNeedLink'
    BY DEF TypeOK, AnswersNeedLink
  <2>4. BufferIsAnswer'
    BY DEF TypeOK, BufferIsAnswer
  <2> QED
    BY <2>1, <2>2, <2>3, <2>4, TablesInv
<1>10. ASSUME NEW s \in Stations, InsertCard(s) PROVE StationInv'
  <2> USE <1>10 DEF InsertCard, Iterate
  <2> DEFINE key == CardKey[buf[s]]
  <2>1. buf[s] \in Uids \cup {NoUid} /\ key \in Keys
    BY KeyInKeys DEF TypeOK
  <2>2. LinkNeedsCard' /\ AnswersNeedLink' /\ BufferIsAnswer'
    BY DEF TypeOK, LinkNeedsCard, AnswersNeedLink, BufferIsAnswer
  <2>3. CASE UNCHANGED <<carte, boundBy>>
    <3>1. TypeOK'
      BY <2>3 DEF TypeOK, IsCarte
    <3> QED
      BY <2>2, <2>3, <3>1, TablesInv DEF tables
  <2>4. CASE /\ CarteAccepts(carte, key, id[s])
             /\ carte' = With(carte, key, id[s])
             /\ boundBy' = With(boundBy, key, got[s])
    <3>1. DOMAIN carte' = DOMAIN carte \cup {key} /\ key \notin DOMAIN carte
      BY <2>4 DEF With, CarteAccepts
    <3>2. IsCarte(carte, Keys)'
      BY <2>1, <2>4, <3>1 DEF TypeOK, IsCarte, With, CarteAccepts
    <3>3. boundBy' \in [DOMAIN carte' -> Uids \cup {None}]
      BY <2>1, <2>4, <3>1 DEF TypeOK, With
    <3>4. TypeOK'
      BY <3>2, <3>3 DEF TypeOK
    <3>5. CarteIsBound'
      BY <2>4, <3>1 DEF TypeOK, CarteIsBound, BufferIsAnswer, With
    <3>6. LapsAreOfCards'
      BY <3>1 DEF LapsAreOfCards
    <3> QED
      BY <2>2, <3>4, <3>5, <3>6
  <2> QED
    BY <2>3, <2>4
<1>11. ASSUME NEW s \in Stations, InsertLap(s) PROVE StationInv'
  <2> USE <1>11 DEF InsertLap, Iterate
  <2> DEFINE key == CardKey[buf[s]]
             row == [got |-> got[s], chosen |-> ~jammed[s]]
  <2>1. key \in Keys
    BY KeyInKeys DEF TypeOK
  <2>2. LinkNeedsCard' /\ AnswersNeedLink' /\ BufferIsAnswer'
    BY DEF TypeOK, LinkNeedsCard, AnswersNeedLink, BufferIsAnswer
  <2>3. CarteIsBound'
    BY DEF CarteIsBound
  <2>4. CASE UNCHANGED <<passage, lapOf>>
    <3>1. TypeOK'
      BY <2>4 DEF TypeOK, IsCarte
    <3> QED
      BY <2>2, <2>4, <3>1, TablesInv DEF tables
  <2>5. CASE /\ PassageAccepts(carte, key)
             /\ passage' = Append(passage, key)
             /\ lapOf' = Append(lapOf, row)
    <3>1. row \in [got : Uids \cup {None}, chosen : BOOLEAN]
      BY DEF TypeOK
    <3>2. passage' \in Seq(Keys)
      BY <2>1, <2>5 DEF TypeOK
    <3>3. lapOf' \in Seq([got : Uids \cup {None}, chosen : BOOLEAN])
      BY <2>5, <3>1 DEF TypeOK
    <3>4. TypeOK'
      BY <3>2, <3>3 DEF TypeOK, IsCarte
    <3>5. key \in DOMAIN carte /\ (row.got # None => key = CardKey[row.got])
      BY <2>5 DEF PassageAccepts, BufferIsAnswer
    <3>6. LapsAreOfCards'
      BY <2>5, <3>5 DEF LapsAreOfCards, TypeOK
    <3> QED
      BY <2>2, <2>3, <3>4, <3>6
  <2> QED
    BY <2>4, <2>5
<1>12. ASSUME NEW s \in Stations, PCSC_Disconnect(s) PROVE StationInv'
  <2>1. CASE UNCHANGED live
    BY <1>12, <2>1, ErrorInv DEF PCSC_Disconnect, ExitOnError
  <2>2. CASE live' = [live EXCEPT ![s] = FALSE]
    BY <1>12, <2>2, StopInv DEF PCSC_Disconnect
  <2> QED
    BY <1>12, <2>1, <2>2 DEF PCSC_Disconnect
<1>13. ASSUME NEW s \in Stations, Crash(s) PROVE StationInv'
  BY <1>13, ExitInv DEF Crash
<1>14. ASSUME NEW s \in Stations, Restart(s) PROVE StationInv'
  <2> USE <1>14 DEF Restart
  <2>1. TypeOK'
    BY ChoicesAssumption DEF TypeOK, IsCarte, tables
  <2>2. LinkNeedsCard'
    BY DEF LinkNeedsCard
  <2>3. AnswersNeedLink'
    BY DEF TypeOK, AnswersNeedLink
  <2>4. BufferIsAnswer'
    BY DEF TypeOK, BufferIsAnswer
  <2> QED
    BY <2>1, <2>2, <2>3, <2>4, TablesInv
<1>15. ASSUME NEW s \in Stations, NEW u \in Uids, PlaceCard(s, u)
       PROVE  StationInv'
  <2> USE <1>15 DEF PlaceCard, local
  <2>1. TypeOK'
    BY DEF TypeOK, IsCarte, tables
  <2>2. LinkNeedsCard'
    BY NoneAssumption DEF TypeOK, LinkNeedsCard
  <2>3. AnswersNeedLink' /\ BufferIsAnswer'
    BY DEF AnswersNeedLink, BufferIsAnswer
  <2> QED
    BY <2>1, <2>2, <2>3, TablesInv
<1>16. ASSUME NEW s \in Stations, RemoveCard(s) PROVE StationInv'
  <2> USE <1>16 DEF RemoveCard
  <2>1. TypeOK'
    BY DEF TypeOK, IsCarte, tables
  <2>2. LinkNeedsCard'
    BY DEF TypeOK, LinkNeedsCard
  <2>3. AnswersNeedLink'
    <3> SUFFICES ASSUME NEW t \in Stations
                 PROVE  /\ answers'[t] \in {0, 1}
                        /\ answers'[t] = 1 =>
                             live'[t] /\ pc'[t] \notin {"atr", "exchange"}
      BY DEF AnswersNeedLink
    <3>1. CASE t = s
      BY <3>1 DEF TypeOK
    <3>2. CASE t # s
      BY <3>2 DEF TypeOK, AnswersNeedLink
    <3> QED
      BY <3>1, <3>2
  <2>4. BufferIsAnswer'
    BY DEF TypeOK, BufferIsAnswer
  <2> QED
    BY <2>1, <2>2, <2>3, <2>4, TablesInv
<1>17. ASSUME NEW s \in Stations, WaitAgain(s) PROVE StationInv'
  <2> USE <1>17 DEF WaitAgain, local
  <2>1. TypeOK'
    BY DEF TypeOK, IsCarte, tables
  <2>2. LinkNeedsCard' /\ AnswersNeedLink' /\ BufferIsAnswer'
    BY DEF TypeOK, LinkNeedsCard, AnswersNeedLink, BufferIsAnswer
  <2> QED
    BY <2>1, <2>2, TablesInv
<1>18. ASSUME NEW s \in Stations, KeyPressed(s) PROVE StationInv'
  BY <1>18, ExitInv DEF KeyPressed
<1> QED
  BY <1>1, <1>2, <1>3, <1>4, <1>5, <1>6, <1>7, <1>8, <1>9, <1>10, <1>11,
     <1>12, <1>13, <1>14, <1>15, <1>16, <1>17, <1>18 DEF Next, Card

(***************************************************************************)
(* The invariant holds in every state.                                     *)
(***************************************************************************)
THEOREM StationInvariant == Spec => []StationInv
<1>1. Init => StationInv
  BY InvInit
<1>2. StationInv /\ [Next]_vars => StationInv'
  BY InvNext
<1> QED
  BY <1>1, <1>2, PTL DEF Spec

(***************************************************************************)
(* The variables of main and the tables of rdf.sql keep their types.       *)
(***************************************************************************)
THEOREM TypeCorrect == Spec => []TypeOK
<1>1. StationInv => TypeOK
  BY DEF StationInv
<1> QED
  BY <1>1, StationInvariant, PTL

(***************************************************************************)
(* The exclusive connection of PCSC_ActivateCard lets a placement answer   *)
(* at most once to one run of the program.                                 *)
(***************************************************************************)
THEOREM OneAnswer == Spec => []OneAnswerPerPlacement
<1>1. StationInv => OneAnswerPerPlacement
  BY DEF StationInv, AnswersNeedLink, OneAnswerPerPlacement
<1> QED
  BY <1>1, StationInvariant, PTL

(***************************************************************************)
(* Whatever the serial numbers are, a passage of a card that answered is   *)
(* counted for a runner to whom, if a card answered when it was given, one *)
(* like it was given: cards that the tables tell apart are never confused. *)
(***************************************************************************)
THEOREM OnlyAlikeAreCredited == Spec => []LapCreditsCardRead
<1>1. StationInv => LapCreditsCardRead
  <2> SUFFICES ASSUME StationInv, NEW i \in 1 .. Len(passage)
               PROVE  /\ passage[i] \in DOMAIN carte
                      /\ boundBy[passage[i]] # None /\ lapOf[i].got # None
                           => Alike(boundBy[passage[i]], lapOf[i].got)
    BY DEF LapCreditsCardRead
  <2>1. /\ passage[i] \in DOMAIN carte
        /\ lapOf[i].got # None => passage[i] = CardKey[lapOf[i].got]
    BY DEF StationInv, LapsAreOfCards
  <2>2. boundBy[passage[i]] # None => CardKey[boundBy[passage[i]]] = passage[i]
    BY <2>1 DEF StationInv, CarteIsBound
  <2>3. boundBy[passage[i]] \in Uids \cup {None}
    BY <2>1 DEF StationInv, TypeOK
  <2>4. lapOf[i].got \in Uids \cup {None}
    <3> DEFINE Rows == [got : Uids \cup {None}, chosen : BOOLEAN]
    <3>1. i \in 1 .. Len(lapOf)
      BY DEF StationInv, LapsAreOfCards
    <3>2. lapOf \in Seq(Rows)
      BY DEF StationInv, TypeOK
    <3>3. lapOf[i] \in Rows
      <4> HIDE DEF Rows
      <4> QED
        BY <3>1, <3>2
    <3> QED
      BY <3>3
  <2> QED
    BY <2>1, <2>2, <2>3, <2>4, OneKeyAlike
<1> QED
  BY <1>1, StationInvariant, PTL

(***************************************************************************)
(* No step changes the runner for whom a recorded passage is counted.      *)
(***************************************************************************)
THEOREM CreditsStay == Spec => CreditIsPermanent
<1> DEFINE Keeps == /\ Len(passage') >= Len(passage)
                    /\ \A i \in 1 .. Len(passage) : Credit(i)' = Credit(i)
<1>1. StationInv /\ [Next]_vars => [Keeps]_vars
  <2> SUFFICES ASSUME StationInv, Next PROVE Keeps
    OBVIOUS
  <2>1. Len(passage) \in Nat /\ passage \in Seq(Keys)
    BY DEF StationInv, TypeOK
  <2>2. \A i \in 1 .. Len(passage) : passage[i] \in DOMAIN carte
    BY DEF StationInv, LapsAreOfCards
  <2>3. CASE UNCHANGED <<carte, passage>>
    BY <2>1, <2>3 DEF Credit
  <2>4. ASSUME NEW s \in Stations, InsertCard(s) PROVE Keeps
    <3>1. CASE UNCHANGED carte
      BY <2>3, <2>4, <3>1 DEF InsertCard
    <3>2. CASE /\ CarteAccepts(carte, CardKey[buf[s]], id[s])
               /\ carte' = With(carte, CardKey[buf[s]], id[s])
      <4>1. \A k \in DOMAIN carte : carte'[k] = carte[k]
        BY <3>2 DEF With, CarteAccepts
      <4>2. passage' = passage
        BY <2>4 DEF InsertCard
      <4> QED
        BY <2>1, <2>2, <4>1, <4>2 DEF Credit
    <3> QED
      BY <2>4, <3>1, <3>2 DEF InsertCard
  <2>5. ASSUME NEW s \in Stations, InsertLap(s) PROVE Keeps
    <3>1. CASE UNCHANGED passage
      BY <2>3, <2>5, <3>1 DEF InsertLap
    <3>2. CASE passage' = Append(passage, CardKey[buf[s]])
      <4>1. /\ Len(passage') = Len(passage) + 1
            /\ \A i \in 1 .. Len(passage) : passage'[i] = passage[i]
        BY <2>1, <3>2
      <4>2. carte' = carte
        BY <2>5 DEF InsertLap
      <4> QED
        BY <2>1, <4>1, <4>2 DEF Credit
    <3> QED
      BY <2>5, <3>1, <3>2 DEF InsertLap
  <2>6. CASE \E s \in Stations : InsertCard(s) \/ InsertLap(s)
    BY <2>4, <2>5, <2>6
  <2>7. CASE ~ \E s \in Stations : InsertCard(s) \/ InsertLap(s)
    <3>1. UNCHANGED <<carte, passage>>
      BY <2>7 DEF Next, Card, tables, Exit, ExitOnError, Forget, PCSC_Connect,
            PCSC_WaitForCardPresent, WaitAgain, Connected, PCSC_ActivateCard,
            PCSC_GetAtrString, PCSC_Exchange, Prompt, Dispatch, Student,
            PCSC_Disconnect, KeyPressed, Crash, Restart, PlaceCard, RemoveCard
    <3> QED
      BY <2>3, <3>1
  <2> QED
    BY <2>6, <2>7
<1> QED
  BY <1>1, StationInvariant, PTL DEF Spec, CreditIsPermanent

(***************************************************************************)
(* The stations implement the ledger.                                      *)
(***************************************************************************)

\* What a step of station s to label l shows.
LEMMA ShownStep ==
  ASSUME TypeOK, NEW s \in Stations, NEW l,
         pc' = [pc EXCEPT ![s] = l],
         \A t \in Stations \ {s} : buf'[t] = buf[t]
  PROVE  Shown' = [Shown EXCEPT ![s] =
                     IF l \in Showing THEN <<CardKey[buf'[s]]>> ELSE <<>>]
BY DEF TypeOK, Shown

\* A step of one station that leaves the tables alone begins or ends a
\* display, or is a stutter of the ledger.
LEMMA LedgerDisplay ==
  ASSUME TypeOK, NEW s \in Stations, NEW l,
         pc' = [pc EXCEPT ![s] = l],
         buf' \in [Stations -> Uids \cup {NoUid}],
         \A t \in Stations \ {s} : buf'[t] = buf[t],
         pc[s] \in Showing /\ l \in Showing => buf'[s] = buf[s],
         UNCHANGED <<carte, passage>>
  PROVE  Ledger!RaceNext \/ UNCHANGED Ledger!race
<1> DEFINE new == IF l \in Showing THEN <<CardKey[buf'[s]]>> ELSE <<>>
<1>1. Shown' = [Shown EXCEPT ![s] = new]
  BY ShownStep
<1>2. Shown[s] = IF pc[s] \in Showing THEN <<CardKey[buf[s]]>> ELSE <<>>
  BY DEF Shown
<1>3. CardKey[buf'[s]] \in Keys
  BY KeyInKeys
<1>4. CASE pc[s] \notin Showing /\ l \in Showing
  <2>1. Ledger!Show(s, CardKey[buf'[s]])
    BY <1>1, <1>2, <1>4 DEF Ledger!Show
  <2> QED
    BY <1>3, <2>1 DEF Ledger!RaceNext
<1>5. CASE pc[s] \in Showing /\ l \notin Showing
  <2>1. Ledger!Drop(s)
    BY <1>1, <1>2, <1>5 DEF Ledger!Drop, Ledger!Hide
  <2> QED
    BY <2>1 DEF Ledger!RaceNext
<1>6. CASE (pc[s] \in Showing) <=> (l \in Showing)
  <2>1. new = Shown[s]
    BY <1>2, <1>6
  <2>2. Shown' = Shown
    BY <1>1, <2>1 DEF Shown
  <2> QED
    BY <2>2 DEF Ledger!race
<1> QED
  BY <1>4, <1>5, <1>6

\* So is one that stops the program.
LEMMA LedgerStop ==
  ASSUME TypeOK, NEW s \in Stations, Forget(s),
         NEW l \in {"key", "exited"}, pc' = [pc EXCEPT ![s] = l]
  PROVE  Ledger!RaceNext \/ UNCHANGED Ledger!race
<1>1. UNCHANGED <<carte, passage>> /\ buf' = [buf EXCEPT ![s] = NoUid]
  BY DEF Forget, tables
<1>2. buf' \in [Stations -> Uids \cup {NoUid}]
  BY <1>1 DEF TypeOK
<1>3. \A t \in Stations \ {s} : buf'[t] = buf[t]
  BY <1>1 DEF TypeOK
<1>4. l \notin Showing
  BY DEF Showing
<1> QED
  BY <1>1, <1>2, <1>3, <1>4, LedgerDisplay

(***************************************************************************)
(* Whatever the readers, the operators and the crashes do, the tables only *)
(* change as the ledger says: one row at most for each card shown, a       *)
(* runner given once to a card, passages of known cards only.              *)
(***************************************************************************)
THEOREM StationsImplementLedger == Spec => ImplementsLedger
<1>1. Init => Ledger!RaceInit
  BY DEF Init, Ledger!RaceInit, Shown, Showing
<1>2. StationInv /\ [Next]_vars => [Ledger!RaceNext]_(Ledger!race)
  <2> SUFFICES ASSUME StationInv, [Next]_vars
               PROVE  Ledger!RaceNext \/ UNCHANGED Ledger!race
    OBVIOUS
  <2> USE DEF StationInv
  <2> DEFINE Goal == Ledger!RaceNext \/ UNCHANGED Ledger!race
  <2>1. CASE UNCHANGED vars
    BY <2>1 DEF vars, local, tables, Ledger!race, Shown
  <2>2. ASSUME NEW s \in Stations, PCSC_Connect(s) PROVE Goal
    <3>1. CASE ExitOnError(s)
      BY <3>1, LedgerStop DEF ExitOnError, Goto
    <3>2. CASE ~ExitOnError(s)
      <4>1. /\ pc' = [pc EXCEPT ![s] = "wait"]
            /\ buf' = buf
            /\ UNCHANGED <<carte, passage>>
        BY <2>2, <3>2 DEF PCSC_Connect, Goto, local, tables
      <4>2. "wait" \notin Showing /\ buf \in [Stations -> Uids \cup {NoUid}]
        BY DEF Showing, TypeOK
      <4> QED
        BY <4>1, <4>2, LedgerDisplay
    <3> QED
      BY <3>1, <3>2
  <2>3. ASSUME NEW s \in Stations, PCSC_WaitForCardPresent(s) PROVE Goal
    BY <2>3, LedgerDisplay
       DEF PCSC_WaitForCardPresent, Goto, local, tables, TypeOK, Showing
  <2>4. ASSUME NEW s \in Stations, PCSC_ActivateCard(s) PROVE Goal
    <3>1. CASE Forget(s) /\ pc' = [pc EXCEPT ![s] = "key"]
      BY <3>1, LedgerStop
    <3>2. CASE /\ pc' = [pc EXCEPT ![s] = "atr"]
               /\ UNCHANGED <<local, tables>>
      <4>1. buf' = buf /\ UNCHANGED <<carte, passage>>
        BY <3>2 DEF local, tables
      <4>2. "atr" \notin Showing /\ buf \in [Stations -> Uids \cup {NoUid}]
        BY DEF Showing, TypeOK
      <4> QED
        BY <3>2, <4>1, <4>2, LedgerDisplay
    <3> QED
      BY <2>4, <3>1, <3>2 DEF PCSC_ActivateCard, Connected, ExitOnError, Goto
  <2>5. ASSUME NEW s \in Stations, PCSC_GetAtrString(s) PROVE Goal
    <3>1. CASE ExitOnError(s)
      BY <3>1, LedgerStop DEF ExitOnError, Goto
    <3>2. CASE ~ExitOnError(s)
      <4>1. /\ pc' = [pc EXCEPT ![s] = "exchange"]
            /\ buf' = buf
            /\ UNCHANGED <<carte, passage>>
        BY <2>5, <3>2 DEF PCSC_GetAtrString, Goto, local, tables
      <4>2. "exchange" \notin Showing /\ buf \in [Stations -> Uids \cup {NoUid}]
        BY DEF Showing, TypeOK
      <4> QED
        BY <4>1, <4>2, LedgerDisplay
    <3> QED
      BY <3>1, <3>2
  <2>6. ASSUME NEW s \in Stations, PCSC_Exchange(s) PROVE Goal
    <3>1. pc[s] \notin Showing /\ UNCHANGED <<carte, passage>>
      BY <2>6 DEF PCSC_Exchange, Showing, tables
    <3>2. live[s] => reader[s] \in Uids
      BY DEF LinkNeedsCard, TypeOK
    <3>3. /\ buf' \in [Stations -> Uids \cup {NoUid}]
          /\ \A t \in Stations \ {s} : buf'[t] = buf[t]
      BY <2>6, <3>2 DEF PCSC_Exchange, Answered, BadStatus, Failed, TypeOK
    <3>4. PICK l : pc' = [pc EXCEPT ![s] = l]
      BY <2>6 DEF PCSC_Exchange, Answered, BadStatus, Failed, Iterate, Goto
    <3> QED
      BY <3>1, <3>3, <3>4, LedgerDisplay
  <2>7. ASSUME NEW s \in Stations, Prompt(s) PROVE Goal
    BY <2>7, LedgerDisplay
       DEF Prompt, TypesNumber, TypesWord, Goto, tables, TypeOK
  <2>8. ASSUME NEW s \in Stations, Dispatch(s) PROVE Goal
    BY <2>8, LedgerDisplay DEF Dispatch, Iterate, Goto, tables, TypeOK
  <2>9. ASSUME NEW s \in Stations, Student(s) PROVE Goal
    BY <2>9, LedgerDisplay DEF Student, Iterate, Goto, tables, TypeOK
  <2>10. ASSUME NEW s \in Stations, InsertCard(s) PROVE Goal
    <3> DEFINE key == CardKey[buf[s]]
    <3>1. CASE UNCHANGED carte
      BY <2>10, <3>1, LedgerDisplay DEF InsertCard, Iterate, Goto, TypeOK
    <3>2. CASE /\ CarteAccepts(carte, key, id[s])
               /\ carte' = With(carte, key, id[s])
      <4>1. pc[s] = "insertCard" /\ pc' = [pc EXCEPT ![s] = AfterBody(option[s])]
        BY <2>10 DEF InsertCard, Iterate, Goto
      <4>2. AfterBody(option[s]) \notin Showing
        BY DEF AfterBody, Showing
      <4>3. Shown' = [Shown EXCEPT ![s] = <<>>]
        BY <2>10, <4>1, <4>2, ShownStep DEF InsertCard
      <4>4. Shown[s] = <<key>>
        BY <4>1 DEF Shown, Showing
      <4>5. id[s] \in Participants /\ key \notin DOMAIN carte
        BY <3>2 DEF CarteAccepts
      <4>6. passage' = passage
        BY <2>10 DEF InsertCard
      <4>7. Ledger!Bind(s, key, id[s])
        BY <3>2, <4>3, <4>4, <4>5, <4>6 DEF Ledger!Bind, Ledger!Hide, Ledger!With,
              With
      <4>8. key \in Keys
        BY KeyInKeys DEF TypeOK
      <4> QED
        BY <4>5, <4>7, <4>8 DEF Ledger!RaceNext
    <3> QED
      BY <2>10, <3>1, <3>2 DEF InsertCard
  <2>11. ASSUME NEW s \in Stations, InsertLap(s) PROVE Goal
    <3> DEFINE key == CardKey[buf[s]]
    <3>1. CASE UNCHANGED passage
      BY <2>11, <3>1, LedgerDisplay DEF InsertLap, Iterate, Goto, TypeOK
    <3>2. CASE PassageAccepts(carte, key) /\ passage' = Append(passage, key)
      <4>1. pc[s] = "insertLap" /\ pc' = [pc EXCEPT ![s] = AfterBody(option[s])]
        BY <2>11 DEF InsertLap, Iterate, Goto
      <4>2. AfterBody(option[s]) \notin Showing
        BY DEF AfterBody, Showing
      <4>3. Shown' = [Shown EXCEPT ![s] = <<>>]
        BY <2>11, <4>1, <4>2, ShownStep DEF InsertLap
      <4>4. Shown[s] = <<key>>
        BY <4>1 DEF Shown, Showing
      <4>5. carte' = carte
        BY <2>11 DEF InsertLap
      <4>6. Ledger!Pass(s, key)
        BY <3>2, <4>3, <4>4, <4>5 DEF Ledger!Pass, Ledger!Hide, PassageAccepts
      <4>7. key \in Keys
        BY KeyInKeys DEF TypeOK
      <4> QED
        BY <4>6, <4>7 DEF Ledger!RaceNext
    <3> QED
      BY <2>11, <3>1, <3>2 DEF InsertLap
  <2>12. ASSUME NEW s \in Stations, PCSC_Disconnect(s) PROVE Goal
    BY <2>12, LedgerStop DEF PCSC_Disconnect, Goto
  <2>13. ASSUME NEW s \in Stations, Crash(s) PROVE Goal
    BY <2>13, LedgerStop DEF Crash, Exit, Goto
  <2>14. ASSUME NEW s \in Stations, Restart(s) PROVE Goal
    BY <2>14, LedgerDisplay DEF Restart, Goto, tables, TypeOK
  <2>15. ASSUME NEW s \in Stations, NEW u \in Uids, PlaceCard(s, u) PROVE Goal
    BY <2>15 DEF PlaceCard, local, tables, Ledger!race, Shown
  <2>16. ASSUME NEW s \in Stations, RemoveCard(s) PROVE Goal
    BY <2>16 DEF RemoveCard, tables, Ledger!race, Shown
  <2>17. ASSUME NEW s \in Stations, WaitAgain(s) PROVE Goal
    BY <2>17, LedgerDisplay DEF WaitAgain, Goto, local, tables, TypeOK, Showing
  <2>18. ASSUME NEW s \in Stations, KeyPressed(s) PROVE Goal
    BY <2>18, LedgerStop DEF KeyPressed, Exit, Goto
  <2> QED
    BY <2>1, <2>2, <2>3, <2>4, <2>5, <2>6, <2>7, <2>8, <2>9, <2>10, <2>11,
       <2>12, <2>13, <2>14, <2>15, <2>16, <2>17, <2>18 DEF Next, Card
<1> QED
  BY <1>1, <1>2, StationInvariant, PTL DEF Spec, ImplementsLedger, Ledger!RaceSpec
=============================================================================
