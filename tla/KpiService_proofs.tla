------------------------- MODULE KpiService_proofs --------------------------
(***************************************************************************)
(* Theorems about the KPI service, for any race and any bound of the       *)
(* procedure's loop, and about the response for any result set.            *)
(***************************************************************************)
EXTENDS KpiService, ResultSets, RaceLedger_proofs, FunctionTheorems

\* A set of numbers has a least element.
LEMMA Least ==
  ASSUME NEW T \in SUBSET Nat, T # {}
  PROVE  \E m \in T : \A k \in T : m <= k
<1>1. PICK m \in T : \A k \in T : <<k, m>> \notin OpToRel(<, Nat)
  BY WFMin, NatLessThanWellFounded, Zenon
<1>2. \A k \in T : ~(k < m)
  BY <1>1, Zenon DEF OpToRel
<1>3. T \subseteq Nat
  OBVIOUS
<1> QED
  BY <1>2, <1>3, SMT

\* Induction, for a set of numbers.
LEMMA Induct ==
  ASSUME NEW S, 0 \in S, \A n \in Nat : n \in S => n + 1 \in S
  PROVE  Nat \subseteq S
<1> DEFINE T == Nat \ S
<1>1. SUFFICES ASSUME T # {} PROVE FALSE
  OBVIOUS
<1>2. PICK m \in T : \A k \in T : m <= k
  <2>1. T \in SUBSET Nat
    OBVIOUS
  <2> HIDE DEF T
  <2> QED
    BY <1>1, <2>1, Least
<1>3. m - 1 \in Nat /\ m - 1 + 1 = m
  BY <1>2
<1>4. m - 1 \in S
  BY <1>2, <1>3
<1> QED
  BY <1>2, <1>3, <1>4

-----------------------------------------------------------------------------
\* The loop, row by row.
LEMMA AfterRows ==
  ASSUME NEW q, Len(q) \in Nat
  PROVE  /\ After(q)[0] = Start
         /\ \A n \in 1 .. Len(q) : After(q)[n] = Row(q, n, After(q)[n - 1])
<1> DEFINE F(f, n) == f = [i \in 0 .. n |-> IF i = 0 THEN Start ELSE Row(q, i, f[i - 1])]
           S == {n \in Nat : \E f : F(f, n)}
<1>1. 0 \in S
  <2>1. F([i \in 0 .. 0 |-> Start], 0)
    OBVIOUS
  <2> QED
    BY <2>1
<1>2. ASSUME NEW n \in Nat, n \in S PROVE n + 1 \in S
  <2>1. PICK f : F(f, n)
    BY <1>2
  <2> DEFINE g == [i \in 0 .. n + 1 |-> IF i = n + 1 THEN Row(q, n + 1, f[n]) ELSE f[i]]
  <2>2. g[0] = Start /\ DOMAIN g = 0 .. n + 1
    BY <2>1
  <2>3. \A i \in 0 .. n + 1 : i # 0 => g[i] = Row(q, i, g[i - 1])
    <3> SUFFICES ASSUME NEW i \in 0 .. n + 1, i # 0 PROVE g[i] = Row(q, i, g[i - 1])
      OBVIOUS
    <3>1. g[i - 1] = f[i - 1]
      OBVIOUS
    <3>2. CASE i = n + 1
      BY <3>1, <3>2
    <3>3. CASE i # n + 1
      BY <2>1, <3>1, <3>3
    <3> QED
      BY <3>2, <3>3
  <2>4. F(g, n + 1)
    <3> HIDE DEF g
    <3>1. g = [i \in 0 .. n + 1 |-> g[i]]
      BY DEF g
    <3> QED
      BY <2>2, <2>3, <3>1
  <2> HIDE DEF F, g
  <2> QED
    BY <2>4
<1>3. \E f : F(f, Len(q))
  <2> HIDE DEF S
  <2>1. Len(q) \in S
    BY <1>1, <1>2, Induct
  <2> QED
    BY <2>1 DEF S
<1>4. After(q) = CHOOSE f : F(f, Len(q))
  BY DEF After
<1>5. F(After(q), Len(q))
  <2> HIDE DEF F
  <2> QED
    BY <1>3, <1>4, Zenon
<1>6. \A n \in 1 .. Len(q) : n \in 0 .. Len(q) /\ n # 0
  OBVIOUS
<1> QED
  BY <1>5, <1>6

-----------------------------------------------------------------------------
(***************************************************************************)
(* The loop puts the series of the rows, in their order.                   *)
(***************************************************************************)
\* The first points of the series that begins at row b, up to row n.
Points(q, b, n) == [k \in 1 .. n - b + 1 |-> q[b + k - 1].res]

\* The rows from b to e are a maximal run.
Run(q, b, e) ==
  /\ b \in Begins(q) /\ e \in b .. Len(q)
  /\ e = Len(q) \/ e + 1 \in Begins(q)
  /\ \A k \in b + 1 .. e : k \notin Begins(q)

\* s holds the series that begin at the rows of P, in order.
Puts(q, s, P) ==
  /\ s \in Seq({SeriesFrom(q, i) : i \in Begins(q)})
  /\ \E f \in [1 .. Len(s) -> P] :
       /\ \A i, j \in 1 .. Len(s) : i < j => f[i] < f[j]
       /\ \A x \in P : \E i \in 1 .. Len(s) : f[i] = x
       /\ \A i \in 1 .. Len(s) : s[i] = SeriesFrom(q, f[i])

LEMMA RunSeries ==
  ASSUME NEW q, Len(q) \in Nat, NEW b, NEW e, Run(q, b, e)
  PROVE  SeriesFrom(q, b) = [name |-> q[b].ident, data |-> Points(q, b, e)]
<1> DEFINE later == {j \in Begins(q) : j > b}
           last  == IF later = {} THEN Len(q)
                    ELSE (CHOOSE j \in later : \A k \in later : j <= k) - 1
<1>1. /\ b \in 1 .. Len(q) /\ e \in b .. Len(q) /\ later \subseteq 1 .. Len(q)
      /\ e = Len(q) \/ e + 1 \in Begins(q)
      /\ \A k \in later : k > e
  BY DEF Run, Begins
<1>2. last = e
  <2>1. CASE e = Len(q)
    BY <1>1, <2>1
  <2>2. CASE e # Len(q)
    <3>1. e + 1 \in later /\ \A k \in later : e + 1 <= k
      BY <1>1, <2>2
    <3> DEFINE m == CHOOSE j \in later : \A k \in later : j <= k
    <3>2. m \in later /\ \A k \in later : m <= k
      <4> HIDE DEF later
      <4> QED
        BY <3>1, Zenon
    <3> HIDE DEF m
    <3>3. m = e + 1
      BY <1>1, <3>1, <3>2
    <3>4. last = m - 1
      BY <3>1, Zenon DEF m
    <3> HIDE DEF last
    <3> QED
      BY <1>1, <3>3, <3>4
  <2> QED
    BY <2>1, <2>2
<1>3. SeriesFrom(q, b) =
        [name |-> q[b].ident, data |-> [k \in 1 .. last - b + 1 |-> q[b + k - 1].res]]
  BY Zenon DEF SeriesFrom
<1> HIDE DEF last
<1> QED
  BY <1>2, <1>3, Zenon DEF Points

LEMMA MorePoints ==
  ASSUME NEW q, NEW b \in Nat, NEW n \in Nat, b <= n
  PROVE  Append(Points(q, b, n), q[n + 1].res) = Points(q, b, n + 1)
<1> DEFINE R == {q[i].res : i \in Nat}
           s == Points(q, b, n)
<1>1. s \in Seq(R) /\ Len(s) = n - b + 1 /\ \A k \in 1 .. n - b + 1 : s[k] = q[b + k - 1].res
  <2>1. n - b + 1 \in Nat /\ \A k \in 1 .. n - b + 1 : b + k - 1 \in Nat
    OBVIOUS
  <2>2. \A k \in 1 .. n - b + 1 : q[b + k - 1].res \in R
    BY <2>1
  <2> HIDE DEF R
  <2> QED
    BY <2>1, <2>2 DEF Points
<1>2. q[n + 1].res \in R
  OBVIOUS
<1> DEFINE t == Append(s, q[n + 1].res)
<1> HIDE DEF R, s
<1>3. t \in Seq(R) /\ Len(t) = n - b + 2
      /\ \A k \in 1 .. n - b + 2 : t[k] = q[b + k - 1].res
  <2>1. t[n - b + 2] = q[n + 1].res /\ b + (n - b + 2) - 1 = n + 1
    BY <1>1, <1>2
  <2> QED
    BY <1>1, <1>2, <2>1
<1>4. t = [k \in 1 .. n - b + 2 |-> t[k]]
  BY <1>3
<1>5. n + 1 - b + 1 = n - b + 2
  OBVIOUS
<1> HIDE DEF t
<1>6. t = [k \in 1 .. n + 1 - b + 1 |-> q[b + k - 1].res]
  BY <1>3, <1>4, <1>5
<1> QED
  BY <1>6 DEF t, s, Points

LEMMA OnePoint ==
  ASSUME NEW q, NEW b \in Nat
  PROVE  <<q[b].res>> = Points(q, b, b)
<1>1. b - b + 1 = 1 /\ b + 1 - 1 = b
  OBVIOUS
<1> QED
  BY <1>1 DEF Points

LEMMA PutMore ==
  ASSUME NEW q, Len(q) \in Nat, NEW s, NEW P \in SUBSET Nat, Puts(q, s, P),
         NEW b \in Begins(q), \A i \in P : i < b
  PROVE  Puts(q, Append(s, SeriesFrom(q, b)), P \cup {b})
<1> DEFINE T == {SeriesFrom(q, i) : i \in Begins(q)}
           x == SeriesFrom(q, b)
           t == Append(s, x)
           n == Len(s)
<1>1. s \in Seq(T) /\ x \in T
  BY DEF Puts
<1>2. PICK f \in [1 .. n -> P] :
       /\ \A i, j \in 1 .. n : i < j => f[i] < f[j]
       /\ \A y \in P : \E i \in 1 .. n : f[i] = y
       /\ \A i \in 1 .. n : s[i] = SeriesFrom(q, f[i])
  BY Zenon DEF Puts
<1>3. b \in Nat
  BY DEF Begins
<1> HIDE DEF T, x
<1>4. n \in Nat /\ t \in Seq(T) /\ Len(t) = n + 1 /\ t[n + 1] = x
      /\ \A i \in 1 .. n : t[i] = s[i]
  BY <1>1
<1> DEFINE g == [i \in 1 .. n + 1 |-> IF i = n + 1 THEN b ELSE f[i]]
<1> HIDE DEF t, n
<1>5. /\ g \in [1 .. n + 1 -> P \cup {b}]
      /\ g[n + 1] = b /\ \A i \in 1 .. n : g[i] = f[i] /\ f[i] \in P /\ i \in 1 .. n + 1
      /\ n + 1 \in 1 .. n + 1
  BY <1>2, <1>4
<1>6. \A i \in 1 .. n + 1 : i = n + 1 \/ i \in 1 .. n
  BY <1>4
<1> HIDE DEF g
<1>7. ASSUME NEW i \in 1 .. n + 1, NEW j \in 1 .. n + 1, i < j PROVE g[i] < g[j]
  <2>1. i \in 1 .. n
    BY <1>4, <1>7
  <2>2. CASE j = n + 1
    BY <1>5, <2>1, <2>2
  <2>3. CASE j \in 1 .. n
    BY <1>2, <1>5, <1>7, <2>1, <2>3
  <2> QED
    BY <1>6, <2>2, <2>3
<1>8. \A y \in P \cup {b} : \E i \in 1 .. n + 1 : g[i] = y
  BY <1>2, <1>5
<1>9. \A i \in 1 .. n + 1 : t[i] = SeriesFrom(q, g[i])
  BY <1>2, <1>4, <1>5, <1>6 DEF x
<1>10. Len(t) = n + 1 /\ t \in Seq({SeriesFrom(q, i) : i \in Begins(q)})
  BY <1>4 DEF T
<1> DEFINE m == Len(t)
<1> HIDE DEF m
<1>11. m = n + 1 /\ m = Len(t)
  BY <1>10 DEF m
<1>12. /\ g \in [1 .. m -> P \cup {b}]
       /\ \A i, j \in 1 .. m : i < j => g[i] < g[j]
       /\ \A y \in P \cup {b} : \E i \in 1 .. m : g[i] = y
       /\ \A i \in 1 .. m : t[i] = SeriesFrom(q, g[i])
  BY <1>5, <1>7, <1>8, <1>9, <1>11, Zenon
<1>13. \E h \in [1 .. m -> P \cup {b}] :
         /\ \A i, j \in 1 .. m : i < j => h[i] < h[j]
         /\ \A y \in P \cup {b} : \E i \in 1 .. m : h[i] = y
         /\ \A i \in 1 .. m : t[i] = SeriesFrom(q, h[i])
  BY <1>12, Zenon
<1>14. Puts(q, t, P \cup {b})
  BY <1>10, <1>13, Zenon DEF Puts, m
<1> QED
  BY <1>14, Zenon DEF t, x

\* The locals as a record, and the row that neither fails nor has failed.
LEMMA LocalFields ==
  ASSUME NEW p, NEW o, NEW t, NEW s, NEW c, NEW f, NEW r,
         r = [previousId |-> p, open |-> o, started |-> t, series |-> s,
              categories |-> c, failed |-> f]
  PROVE  /\ r.previousId = p /\ r.open = o /\ r.started = t
         /\ r.series = s /\ r.categories = c /\ r.failed = f
OBVIOUS

LEMMA NewRow ==
  ASSUME NEW q, NEW n, NEW acc, ~ acc.failed, ~ Throws(acc, q[n]),
         acc.previousId # q[n].ident
  PROVE  /\ Row(q, n, acc).previousId = q[n].ident
         /\ Row(q, n, acc).started /\ ~ Row(q, n, acc).failed
         /\ Row(q, n, acc).open = [name |-> q[n].ident, data |-> <<q[n].res>>]
         /\ Row(q, n, acc).series = IF n = 1 THEN acc.series ELSE Append(acc.series, acc.open)
         /\ Row(q, n, acc).categories = WithCategory(acc.categories, q[n].axis)
<1> DEFINE put == NewSeries(acc, q[n], n = 1)
<1>1. Row(q, n, acc) =
        [previousId |-> q[n].ident, open |-> put.open, started |-> TRUE, series |-> put.series,
         categories |-> WithCategory(acc.categories, q[n].axis), failed |-> FALSE]
  BY Zenon DEF Row
<1>2. /\ put.open = [name |-> q[n].ident, data |-> <<q[n].res>>]
      /\ put.series = IF n = 1 THEN acc.series ELSE Append(acc.series, acc.open)
  BY DEF NewSeries
<1> HIDE DEF put
<1>3. /\ Row(q, n, acc).previousId = q[n].ident /\ Row(q, n, acc).open = put.open
      /\ Row(q, n, acc).started = TRUE /\ Row(q, n, acc).series = put.series
      /\ Row(q, n, acc).categories = WithCategory(acc.categories, q[n].axis)
      /\ Row(q, n, acc).failed = FALSE
  BY <1>1, LocalFields
<1> QED
  BY <1>2, <1>3, Zenon

LEMMA SameRow ==
  ASSUME NEW q, NEW n, NEW acc, ~ acc.failed, ~ Throws(acc, q[n]),
         acc.previousId = q[n].ident
  PROVE  /\ Row(q, n, acc).previousId = q[n].ident
         /\ Row(q, n, acc).started /\ ~ Row(q, n, acc).failed
         /\ Row(q, n, acc).open = Continued(acc, q[n])
         /\ Row(q, n, acc).series = IF n = Len(q) THEN Append(acc.series, Continued(acc, q[n]))
                                    ELSE acc.series
         /\ Row(q, n, acc).categories = WithCategory(acc.categories, q[n].axis)
<1> DEFINE put == SameSeries(acc, q[n], n = Len(q))
<1>1. Row(q, n, acc) =
        [previousId |-> q[n].ident, open |-> put.open, started |-> TRUE, series |-> put.series,
         categories |-> WithCategory(acc.categories, q[n].axis), failed |-> FALSE]
  BY Zenon DEF Row
<1>2. /\ put.open = Continued(acc, q[n])
      /\ put.series = IF n = Len(q) THEN Append(acc.series, Continued(acc, q[n])) ELSE acc.series
  BY DEF SameSeries
<1> HIDE DEF put
<1>3. /\ Row(q, n, acc).previousId = q[n].ident /\ Row(q, n, acc).open = put.open
      /\ Row(q, n, acc).started = TRUE /\ Row(q, n, acc).series = put.series
      /\ Row(q, n, acc).categories = WithCategory(acc.categories, q[n].axis)
      /\ Row(q, n, acc).failed = FALSE
  BY <1>1, LocalFields
<1> QED
  BY <1>2, <1>3, Zenon

LEMMA FailedRow ==
  ASSUME NEW q, NEW n, NEW acc, acc.failed \/ Throws(acc, q[n])
  PROVE  Row(q, n, acc).failed
<1>1. Row(q, n, acc) = Failed
  BY Zenon DEF Row
<1> QED
  BY <1>1 DEF Failed, Start

\* The rows after which the loop has failed.
Fails(q, n) ==
  \/ n >= 1 /\ q[1].ident = Empty
  \/ \E i \in 1 .. n - 1 : q[i].ident = Null

\* What the locals hold after row n.
Loop(q, n, acc) ==
  /\ acc.previousId = q[n].ident /\ acc.started
  /\ \E b \in Begins(q) :
       /\ b <= n /\ \A k \in b + 1 .. n : k \notin Begins(q)
       /\ acc.open = [name |-> q[b].ident, data |-> Points(q, b, n)]
       /\ Puts(q, acc.series,
               {i \in Begins(q) : i < b} \cup {i \in {b} : n = Len(q) /\ b # n})

LEMMA FirstRow ==
  ASSUME NEW q, Len(q) \in Nat, 1 <= Len(q)
  PROVE  /\ Row(q, 1, Start).failed <=> Fails(q, 1)
         /\ ~ Row(q, 1, Start).failed => Loop(q, 1, Row(q, 1, Start))
<1> DEFINE r == Row(q, 1, Start)
<1>1. Throws(Start, q[1]) <=> Fails(q, 1)
  <2>1. Fails(q, 1) <=> q[1].ident = Empty
    BY DEF Fails
  <2> QED
    BY <2>1, NullAssumption DEF Throws, Start
<1>2. ~ Start.failed /\ Start.previousId = Empty /\ ~ Start.started /\ Start.series = <<>>
  BY DEF Start
<1>3. CASE Throws(Start, q[1])
  BY <1>1, <1>3, FailedRow
<1>4. CASE ~ Throws(Start, q[1])
  <2>1. Start.previousId # q[1].ident
    BY <1>2, <1>4 DEF Throws
  <2>4. /\ r.previousId = q[1].ident /\ r.started /\ ~ r.failed /\ r.series = <<>>
        /\ r.open = [name |-> q[1].ident, data |-> <<q[1].res>>]
    BY <1>2, <1>4, <2>1, NewRow
  <2>5. 1 \in Begins(q) /\ {i \in Begins(q) : i < 1} \cup {i \in {1} : 1 = Len(q) /\ 1 # 1} = {}
    BY DEF Begins
  <2>6. Puts(q, <<>>, {})
    <3>1. /\ <<>> \in [1 .. Len(<<>>) -> {}] /\ 1 .. Len(<<>>) = {}
          /\ \A T : <<>> \in Seq(T)
      OBVIOUS
    <3> QED
      BY <3>1, Zenon DEF Puts
  <2>7. \A k \in 1 + 1 .. 1 : FALSE
    OBVIOUS
  <2>8. Loop(q, 1, r)
    <3>1. r.open = [name |-> q[1].ident, data |-> Points(q, 1, 1)]
      BY <2>4, OnePoint
    <3>2. 1 <= 1
      OBVIOUS
    <3> HIDE DEF r
    <3> QED
      BY <2>4, <2>5, <2>6, <2>7, <3>1, <3>2, Zenon DEF Loop
  <2> QED
    BY <1>1, <1>4, <2>4, <2>8
<1> QED
  BY <1>3, <1>4

LEMMA NextRow ==
  ASSUME NEW q, Len(q) \in Nat, NEW n \in 1 .. Len(q) - 1, NEW acc,
         ~ acc.failed, Loop(q, n, acc)
  PROVE  /\ Row(q, n + 1, acc).failed <=> q[n].ident = Null
         /\ ~ Row(q, n + 1, acc).failed => Loop(q, n + 1, Row(q, n + 1, acc))
<1> DEFINE r == Row(q, n + 1, acc)
           P(b, m) == {i \in Begins(q) : i < b} \cup {i \in {b} : m = Len(q) /\ b # m}
<1>1. acc.previousId = q[n].ident /\ acc.started
  BY DEF Loop
<1> PICK b \in Begins(q) :
      /\ b <= n /\ \A k \in b + 1 .. n : k \notin Begins(q)
      /\ acc.open = [name |-> q[b].ident, data |-> Points(q, b, n)]
      /\ Puts(q, acc.series, P(b, n))
  BY Zenon DEF Loop
<1>2. /\ n \in Nat /\ n # Len(q) /\ n + 1 \in 2 .. Len(q) /\ n + 1 # 1 /\ n + 1 - 1 = n
      /\ b \in Nat /\ b \in 1 .. Len(q) /\ Begins(q) \in SUBSET Nat
  BY DEF Begins
<1>3. n + 1 \in Begins(q) <=> q[n + 1].ident # q[n].ident
  BY <1>2 DEF Begins
<1>4. Throws(acc, q[n + 1]) <=> q[n].ident = Null
  BY <1>1 DEF Throws
<1>5. P(b, n) = {i \in Begins(q) : i < b}
  BY <1>2
<1>6. CASE Throws(acc, q[n + 1])
  BY <1>4, <1>6, FailedRow
<1>7. CASE ~ Throws(acc, q[n + 1]) /\ q[n + 1].ident # q[n].ident
  <2>1. /\ r.previousId = q[n + 1].ident /\ r.started /\ ~ r.failed
        /\ r.open = [name |-> q[n + 1].ident, data |-> <<q[n + 1].res>>]
        /\ r.series = IF n + 1 = 1 THEN acc.series ELSE Append(acc.series, acc.open)
    BY <1>1, <1>7, NewRow
  <2>2. r.series = Append(acc.series, acc.open)
    BY <1>2, <2>1
  <2>3. Run(q, b, n)
    BY <1>2, <1>3, <1>7 DEF Run
  <2>4. acc.open = SeriesFrom(q, b)
    BY <2>3, RunSeries
  <2>5. Puts(q, Append(acc.series, SeriesFrom(q, b)), P(b, n) \cup {b})
    <3>1. \A i \in P(b, n) : i < b
      BY <1>5
    <3>2. P(b, n) \in SUBSET Nat
      BY <1>2
    <3> HIDE DEF P
    <3> QED
      BY <3>1, <3>2, PutMore
  <2>6. P(b, n) \cup {b} = P(n + 1, n + 1)
    BY <1>2, <1>5
  <2>7. r.open = [name |-> q[n + 1].ident, data |-> Points(q, n + 1, n + 1)]
    BY <1>2, <2>1, OnePoint
  <2>8. n + 1 \in Begins(q) /\ n + 1 <= n + 1 /\ \A k \in n + 1 + 1 .. n + 1 : k \notin Begins(q)
    BY <1>2, <1>3, <1>7
  <2>9. Puts(q, r.series, P(n + 1, n + 1))
    BY <2>2, <2>4, <2>5, <2>6, Zenon
  <2> HIDE DEF r
  <2>10. Loop(q, n + 1, r)
    BY <2>1, <2>7, <2>8, <2>9, Zenon DEF Loop
  <2> QED
    BY <1>4, <1>7, <2>1, <2>10 DEF r
<1>8. CASE ~ Throws(acc, q[n + 1]) /\ q[n + 1].ident = q[n].ident
  <2> DEFINE o == Continued(acc, q[n + 1])
  <2>1. /\ r.previousId = q[n + 1].ident /\ r.started /\ ~ r.failed /\ r.open = o
        /\ r.series = IF n + 1 = Len(q) THEN Append(acc.series, o) ELSE acc.series
    BY <1>1, <1>8, SameRow
  <2>2. o = [name |-> q[b].ident, data |-> Points(q, b, n + 1)]
    <3>1. acc.open.name = q[b].ident /\ acc.open.data = Points(q, b, n)
      OBVIOUS
    <3>2. Append(Points(q, b, n), q[n + 1].res) = Points(q, b, n + 1)
      BY <1>2, MorePoints
    <3> QED
      BY <3>1, <3>2, Zenon DEF Continued
  <2>3. b <= n + 1 /\ \A k \in b + 1 .. n + 1 : k \notin Begins(q)
    <3>1. \A k \in b + 1 .. n + 1 : k \in b + 1 .. n \/ k = n + 1
      BY <1>2
    <3> QED
      BY <1>2, <1>3, <1>8, <3>1
  <2>4. Puts(q, r.series, P(b, n + 1))
    <3>1. CASE n + 1 = Len(q)
      <4>1. Run(q, b, n + 1)
        BY <1>2, <2>3, <3>1 DEF Run
      <4>2. o = SeriesFrom(q, b)
        BY <2>2, <4>1, RunSeries
      <4>3. Puts(q, Append(acc.series, SeriesFrom(q, b)), P(b, n) \cup {b})
        <5>1. \A i \in P(b, n) : i < b
          BY <1>5
        <5>2. P(b, n) \in SUBSET Nat
          BY <1>2
        <5> HIDE DEF P
        <5> QED
          BY <5>1, <5>2, PutMore
      <4>4. P(b, n) \cup {b} = P(b, n + 1)
        BY <1>2, <1>5, <3>1
      <4> QED
        BY <2>1, <3>1, <4>2, <4>3, <4>4, Zenon
    <3>2. CASE n + 1 # Len(q)
      <4>1. P(b, n) = P(b, n + 1)
        BY <1>5, <3>2
      <4> QED
        BY <2>1, <3>2, <4>1, Zenon
    <3> QED
      BY <3>1, <3>2
  <2>5. r.open = [name |-> q[b].ident, data |-> Points(q, b, n + 1)]
    BY <2>1, <2>2, Zenon
  <2> HIDE DEF r
  <2>6. Loop(q, n + 1, r)
    BY <2>1, <2>3, <2>4, <2>5, Zenon DEF Loop
  <2> QED
    BY <1>4, <1>8, <2>1, <2>6 DEF r
<1> QED
  BY <1>6, <1>7, <1>8

LEMMA MoreFail ==
  ASSUME NEW q, NEW n \in Nat, n >= 1
  PROVE  Fails(q, n + 1) <=> Fails(q, n) \/ q[n].ident = Null
<1> DEFINE E == {i \in Nat : q[i].ident = Null}
<1>1. \A m \in Nat : m >= 1 => (Fails(q, m) <=> q[1].ident = Empty \/ 1 .. m - 1 \cap E # {})
  BY DEF Fails
<1>2. n \in E <=> q[n].ident = Null
  OBVIOUS
<1> HIDE DEF E
<1>3. 1 .. n + 1 - 1 \cap E # {} <=> 1 .. n - 1 \cap E # {} \/ n \in E
  OBVIOUS
<1>4. n + 1 \in Nat /\ n + 1 >= 1
  OBVIOUS
<1> QED
  BY <1>1, <1>2, <1>3, <1>4

\* All rows.
LEMMA AllRows ==
  ASSUME NEW q, Len(q) \in Nat
  PROVE  \A n \in 1 .. Len(q) :
           /\ After(q)[n].failed <=> Fails(q, n)
           /\ ~ After(q)[n].failed => Loop(q, n, After(q)[n])
<1> DEFINE Good(n) == /\ After(q)[n].failed <=> Fails(q, n)
                      /\ ~ After(q)[n].failed => Loop(q, n, After(q)[n])
           S == {n \in Nat : n \in 1 .. Len(q) => Good(n)}
<1>1. 0 \in S
  OBVIOUS
<1>2. ASSUME NEW n \in Nat, n \in S, n + 1 \in 1 .. Len(q) PROVE Good(n + 1)
  <2>1. After(q)[n + 1] = Row(q, n + 1, After(q)[n])
    <3>1. n + 1 - 1 = n
      OBVIOUS
    <3> QED
      BY <1>2, <3>1, AfterRows
  <2>2. CASE n = 0
    <3>1. After(q)[1] = Row(q, 1, Start) /\ 1 <= Len(q)
      BY <1>2, <2>1, <2>2, AfterRows
    <3>2. Good(1)
      BY <3>1, FirstRow
    <3> QED
      BY <2>2, <3>2
  <2>3. CASE n # 0
    <3>1. n \in 1 .. Len(q) - 1 /\ n \in 1 .. Len(q)
      BY <1>2, <2>3
    <3>2. Good(n)
      BY <1>2, <3>1
    <3>3. Fails(q, n + 1) <=> Fails(q, n) \/ q[n].ident = Null
      BY <3>1, MoreFail
    <3>4. CASE After(q)[n].failed
      <4>1. Row(q, n + 1, After(q)[n]).failed
        BY <3>4, FailedRow
      <4> QED
        BY <2>1, <3>2, <3>3, <3>4, <4>1
    <3>5. CASE ~ After(q)[n].failed
      <4>1. /\ Row(q, n + 1, After(q)[n]).failed <=> q[n].ident = Null
            /\ ~ Row(q, n + 1, After(q)[n]).failed => Loop(q, n + 1, Row(q, n + 1, After(q)[n]))
        BY <3>1, <3>2, <3>5, NextRow
      <4> QED
        BY <2>1, <3>2, <3>3, <3>5, <4>1
    <3> QED
      BY <3>4, <3>5
  <2> QED
    BY <2>2, <2>3
<1>3. \A n \in Nat : n \in S => n + 1 \in S
  BY <1>2
<1> HIDE DEF S
<1>4. Nat \subseteq S
  BY <1>1, <1>3, Induct
<1> QED
  BY <1>4 DEF S

(***************************************************************************)
(* For any result set: the response fails exactly when a null IDENT is     *)
(* followed by a row or the first IDENT is empty.                          *)
(***************************************************************************)
THEOREM ResponseFails ==
  ASSUME NEW q, Len(q) \in Nat
  PROVE  Response(q).failed <=> Fails(q, Len(q))
<1>1. CASE Len(q) = 0
  <2>1. ~ Fails(q, 0)
    BY DEF Fails
  <2>2. Response(q) = Start
    BY <1>1, AfterRows DEF Response
  <2> QED
    BY <1>1, <2>1, <2>2 DEF Start
<1>2. CASE Len(q) # 0
  <2>1. Len(q) \in 1 .. Len(q)
    BY <1>2
  <2> QED
    BY <2>1, AllRows DEF Response
<1> QED
  BY <1>1, <1>2

(***************************************************************************)
(* For any result set: the response holds the series of the rows in their  *)
(* order, each whole, but for one that begins with the last row.           *)
(***************************************************************************)
THEOREM ResponseSeries ==
  ASSUME NEW q, Len(q) \in Nat, ~ Response(q).failed
  PROVE  Puts(q, Response(q).series, Begins(q) \ {Len(q)})
<1>1. CASE Len(q) = 0
  <2>1. Response(q).series = <<>>
    BY <1>1, AfterRows DEF Response, Start
  <2>2. Begins(q) \ {Len(q)} = {}
    BY <1>1 DEF Begins
  <2>3. Puts(q, <<>>, {})
    <3>1. /\ <<>> \in [1 .. Len(<<>>) -> {}] /\ 1 .. Len(<<>>) = {}
          /\ \A T : <<>> \in Seq(T)
      OBVIOUS
    <3> QED
      BY <3>1, Zenon DEF Puts
  <2> QED
    BY <2>1, <2>2, <2>3, Zenon
<1>2. CASE Len(q) # 0
  <2>1. Loop(q, Len(q), Response(q))
    <3>1. Len(q) \in 1 .. Len(q)
      BY <1>2
    <3> QED
      BY <3>1, AllRows DEF Response
  <2>2. PICK b \in Begins(q) :
          /\ b <= Len(q) /\ \A k \in b + 1 .. Len(q) : k \notin Begins(q)
          /\ Puts(q, Response(q).series,
                  {i \in Begins(q) : i < b} \cup {i \in {b} : Len(q) = Len(q) /\ b # Len(q)})
    BY <2>1, Zenon DEF Loop
  <2>3. Begins(q) \subseteq 1 .. Len(q)
    BY DEF Begins
  <2>4. {i \in Begins(q) : i < b} \cup {i \in {b} : Len(q) = Len(q) /\ b # Len(q)}
          = Begins(q) \ {Len(q)}
    BY <2>2, <2>3
  <2> QED
    BY <2>2, <2>4, Zenon
<1> QED
  BY <1>1, <1>2

-----------------------------------------------------------------------------
\* The result sets that ResultSets goes through.
Numbered ==
  /\ rows \in Seq([ident : RowIdents, axis : {0, 1}, res : Nat])
  /\ \A i \in 1 .. Len(rows) : rows[i].res = i - 1

LEMMA RowsAreNumbered == RowsSpec => []Numbered
<1> DEFINE T == [ident : RowIdents, axis : {0, 1}, res : Nat]
<1>1. RowsInit => Numbered
  BY DEF RowsInit, Numbered
<1>2. Numbered /\ [RowsNext]_rows => Numbered'
  <2> SUFFICES ASSUME Numbered, RowsNext PROVE Numbered'
    BY DEF Numbered
  <2>1. rows \in Seq(T)
    BY DEF Numbered
  <2> PICK g \in RowIdents, v \in {0, 1} :
        rows' = Append(rows, [ident |-> g, axis |-> v, res |-> Len(rows)])
    BY DEF RowsNext
  <2> DEFINE x == [ident |-> g, axis |-> v, res |-> Len(rows)]
  <2>2. x \in T /\ x.res = Len(rows)
    BY <2>1
  <2> HIDE DEF T, x
  <2>3. /\ rows' \in Seq(T) /\ Len(rows') = Len(rows) + 1 /\ Len(rows) \in Nat
        /\ rows'[Len(rows) + 1] = x /\ \A i \in 1 .. Len(rows) : rows'[i] = rows[i]
    BY <2>1, <2>2 DEF x
  <2>4. \A i \in 1 .. Len(rows') : rows'[i].res = i - 1
    BY <2>2, <2>3 DEF Numbered
  <2> QED
    BY <2>3, <2>4 DEF Numbered, T
<1> QED
  BY <1>1, <1>2, PTL DEF RowsSpec

(***************************************************************************)
(* The call answers 503 exactly when a null IDENT is followed by a row or  *)
(* the first IDENT is empty, whatever the number of rows.                  *)
(***************************************************************************)
THEOREM FailsOnlyOnNullOrEmpty == RowsSpec => []FailsOnNullOrEmpty
<1>1. Numbered => FailsOnNullOrEmpty
  <2> SUFFICES ASSUME Numbered PROVE FailsOnNullOrEmpty
    OBVIOUS
  <2>1. Len(rows) \in Nat /\ (rows # <<>> <=> Len(rows) >= 1)
    <3> DEFINE T == [ident : RowIdents, axis : {0, 1}, res : Nat]
    <3>1. rows \in Seq(T)
      BY DEF Numbered
    <3> HIDE DEF T
    <3> QED
      BY <3>1
  <2> QED
    BY <2>1, ResponseFails, Zenon DEF FailsOnNullOrEmpty, Fails
<1> QED
  BY <1>1, RowsAreNumbered, PTL
-----------------------------------------------------------------------------
\* Each run of rows ends.
LEMMA RunEnds ==
  ASSUME NEW q, Len(q) \in Nat, NEW b \in Begins(q)
  PROVE  \E e \in b .. Len(q) : Run(q, b, e)
<1> DEFINE later == {j \in Begins(q) : j > b}
<1>1. b \in 1 .. Len(q) /\ later \in SUBSET Nat /\ later \subseteq b + 1 .. Len(q)
  BY DEF Begins
<1>2. CASE later = {}
  <2>1. Len(q) \in b .. Len(q) /\ \A k \in b + 1 .. Len(q) : k \notin Begins(q)
    BY <1>1, <1>2
  <2>2. Run(q, b, Len(q))
    BY <1>1, <2>1 DEF Run
  <2> QED
    BY <2>1, <2>2
<1>3. CASE later # {}
  <2>1. PICK m \in later : \A k \in later : m <= k
    <3> HIDE DEF later
    <3> QED
      BY <1>1, <1>3, Least
  <2>2. /\ m - 1 \in b .. Len(q) /\ m - 1 + 1 = m /\ m \in Begins(q)
        /\ \A k \in b + 1 .. m - 1 : k \notin Begins(q)
    BY <1>1, <2>1
  <2>3. Run(q, b, m - 1)
    BY <1>1, <2>2 DEF Run
  <2> QED
    BY <2>2, <2>3
<1> QED
  BY <1>2, <1>3

\* The first point of a series is that of the row it begins at.
LEMMA FirstPoint ==
  ASSUME NEW q, Len(q) \in Nat, NEW b \in Begins(q)
  PROVE  SeriesFrom(q, b).data[1] = q[b].res
<1>1. PICK e \in b .. Len(q) : Run(q, b, e)
  BY RunEnds
<1>2. SeriesFrom(q, b).data = Points(q, b, e)
  BY <1>1, RunSeries
<1>3. b \in Nat /\ 1 \in 1 .. e - b + 1 /\ b + 1 - 1 = b
  BY <1>1 DEF Begins
<1>4. Points(q, b, e)[1] = q[b].res
  BY <1>3 DEF Points
<1> QED
  BY <1>2, <1>4, Zenon

\* The series put for the rows of P are those that begin there.
LEMMA PutSeries ==
  ASSUME NEW q, NEW s, NEW P, Puts(q, s, P)
  PROVE  {s[i] : i \in 1 .. Len(s)} = {SeriesFrom(q, x) : x \in P}
<1>1. PICK f \in [1 .. Len(s) -> P] :
        /\ \A i, j \in 1 .. Len(s) : i < j => f[i] < f[j]
        /\ \A x \in P : \E i \in 1 .. Len(s) : f[i] = x
        /\ \A i \in 1 .. Len(s) : s[i] = SeriesFrom(q, f[i])
  BY Zenon DEF Puts
<1>2. \A i \in 1 .. Len(s) : f[i] \in P
  OBVIOUS
<1>3. ASSUME NEW i \in 1 .. Len(s) PROVE s[i] \in {SeriesFrom(q, x) : x \in P}
  BY <1>1, <1>2, Zenon
<1>4. ASSUME NEW x \in P PROVE SeriesFrom(q, x) \in {s[i] : i \in 1 .. Len(s)}
  <2>1. PICK i \in 1 .. Len(s) : f[i] = x
    BY <1>1, Zenon
  <2>2. s[i] = SeriesFrom(q, x)
    BY <1>1, <2>1, Zenon
  <2> QED
    BY <2>2, Zenon
<1> QED
  BY <1>3, <1>4, Zenon

(***************************************************************************)
(* The response holds the series of the chart, each once and whole, but    *)
(* for a last one of a single row, whatever the number of rows.            *)
(***************************************************************************)
THEOREM ChartIsSent == RowsSpec => []SendsTheChart
<1>1. Numbered => SendsTheChart
  <2> SUFFICES ASSUME Numbered, ~ Response(rows).failed
               PROVE  /\ Sent = Chart(rows) \ LostSeries
                      /\ Len(Response(rows).series) = Cardinality(Sent)
    BY DEF SendsTheChart
  <2> DEFINE s == Response(rows).series
             n == Len(s)
             P == Begins(rows) \ {Len(rows)}
  <2>1. Len(rows) \in Nat /\ (rows # <<>> <=> Len(rows) >= 1)
    <3> DEFINE T == [ident : RowIdents, axis : {0, 1}, res : Nat]
    <3>1. rows \in Seq(T)
      BY DEF Numbered
    <3> HIDE DEF T
    <3> QED
      BY <3>1
  <2>2. Puts(rows, s, P)
    BY <2>1, ResponseSeries
  <2>3. s \in Seq({SeriesFrom(rows, i) : i \in Begins(rows)})
    BY <2>2, Zenon DEF Puts
  <2>4. n \in Nat
    BY <2>3
  <2>5. PICK f \in [1 .. n -> P] :
          /\ \A i, j \in 1 .. n : i < j => f[i] < f[j]
          /\ \A x \in P : \E i \in 1 .. n : f[i] = x
          /\ \A i \in 1 .. n : s[i] = SeriesFrom(rows, f[i])
    BY <2>2, Zenon DEF Puts
  <2>6. ASSUME NEW i \in Begins(rows), NEW j \in Begins(rows),
               SeriesFrom(rows, i) = SeriesFrom(rows, j)
        PROVE  i = j
    <3>1. rows[i].res = rows[j].res
      BY <2>1, <2>6, FirstPoint, Zenon
    <3>2. i \in 1 .. Len(rows) /\ j \in 1 .. Len(rows)
      BY DEF Begins
    <3>3. i - 1 = j - 1
      BY <3>1, <3>2, Zenon DEF Numbered
    <3> QED
      BY <2>1, <3>2, <3>3
  <2> HIDE DEF s, n
  <2>7. Sent = {SeriesFrom(rows, x) : x \in P}
    <3>1. Sent = {s[i] : i \in 1 .. n}
      BY Zenon DEF Sent, s, n
    <3> HIDE DEF P
    <3>2. {s[i] : i \in 1 .. n} = {SeriesFrom(rows, x) : x \in P}
      BY <2>2, PutSeries, Zenon DEF n
    <3> QED
      BY <3>1, <3>2, Zenon
  <2>8. Sent = Chart(rows) \ LostSeries
    <3>1. CASE Len(rows) \in Begins(rows)
      <4>1. LostSeries = {SeriesFrom(rows, Len(rows))}
        BY <2>1, <3>1 DEF LostSeries, Begins
      <4>2. Chart(rows) \ LostSeries = {SeriesFrom(rows, x) : x \in P}
        BY <2>6, <3>1, <4>1, Zenon DEF Chart
      <4> QED
        BY <2>7, <4>2, Zenon
    <3>2. CASE Len(rows) \notin Begins(rows)
      <4>1. LostSeries = {} /\ P = Begins(rows)
        BY <3>2 DEF LostSeries
      <4> QED
        BY <2>7, <4>1, Zenon DEF Chart
    <3> QED
      BY <3>1, <3>2
  <2>9. n = Cardinality(Sent)
    <3> DEFINE h == [i \in 1 .. n |-> s[i]]
    <3>1. h \in [1 .. n -> Sent] /\ \A x \in Sent : \E i \in 1 .. n : h[i] = x
      BY Zenon DEF Sent, s, n
    <3>2. ASSUME NEW i \in 1 .. n, NEW j \in 1 .. n, h[i] = h[j] PROVE i = j
      <4>1. SeriesFrom(rows, f[i]) = SeriesFrom(rows, f[j])
        BY <2>5, <3>2
      <4>2. f[i] \in Begins(rows) /\ f[j] \in Begins(rows)
        BY <2>5
      <4>3. f[i] = f[j]
        BY <2>6, <4>1, <4>2
      <4>4. f[i] \in Nat
        BY <4>2 DEF Begins
      <4>5. ~ (f[i] < f[j]) /\ ~ (f[j] < f[i])
        BY <4>3, <4>4
      <4>6. ~ (i < j) /\ ~ (j < i)
        BY <2>5, <4>5
      <4> QED
        BY <2>4, <4>6
    <3> HIDE DEF h
    <3>3. h \in Bijection(1 .. n, Sent)
      BY <3>1, <3>2 DEF Bijection, Injection, Surjection, IsInjective
    <3>4. ExistsBijection(1 .. n, Sent)
      BY <3>3 DEF ExistsBijection
    <3> QED
      BY <2>4, <3>4, FS_CountingElements
  <2> QED
    BY <2>8, <2>9 DEF s, n
<1> QED
  BY <1>1, RowsAreNumbered, PTL
-----------------------------------------------------------------------------
(***************************************************************************)
(* The points of a regular result set are drawn over their own AXIS.       *)
(***************************************************************************)
LEMMA RowsAreSeq ==
  ASSUME Numbered
  PROVE  /\ Len(rows) \in Nat /\ (rows # <<>> <=> Len(rows) >= 1)
         /\ \A i \in 1 .. Len(rows) : rows[i] \in [ident : RowIdents, axis : {0, 1}, res : Nat]
<1> DEFINE T == [ident : RowIdents, axis : {0, 1}, res : Nat]
<1>1. rows \in Seq(T)
  BY DEF Numbered
<1> HIDE DEF T
<1>2. /\ Len(rows) \in Nat /\ (rows # <<>> <=> Len(rows) >= 1)
      /\ \A i \in 1 .. Len(rows) : rows[i] \in T
  BY <1>1
<1> QED
  BY <1>2 DEF T

\* Each row is in a run.
LEMMA RowInRun ==
  ASSUME NEW q, Len(q) \in Nat, NEW x \in 1 .. Len(q)
  PROVE  \E b \in Begins(q) : b <= x /\ \A k \in b + 1 .. x : k \notin Begins(q)
<1> DEFINE In(y) == \E b \in Begins(q) : b <= y /\ \A k \in b + 1 .. y : k \notin Begins(q)
           S == {y \in Nat : y \in 1 .. Len(q) => In(y)}
<1>1. 0 \in S
  OBVIOUS
<1>2. ASSUME NEW y \in Nat, y \in S, y + 1 \in 1 .. Len(q) PROVE In(y + 1)
  <2>1. CASE y + 1 \in Begins(q)
    <3>1. y + 1 <= y + 1 /\ \A k \in y + 1 + 1 .. y + 1 : k \notin Begins(q)
      OBVIOUS
    <3> QED
      BY <2>1, <3>1
  <2>2. CASE y + 1 \notin Begins(q)
    <3>1. y \in 1 .. Len(q)
      BY <1>2, <2>2 DEF Begins
    <3>2. PICK b \in Begins(q) : b <= y /\ \A k \in b + 1 .. y : k \notin Begins(q)
      BY <1>2, <3>1
    <3>3. \A k \in b + 1 .. y + 1 : k \in b + 1 .. y \/ k = y + 1
      BY DEF Begins
    <3>4. b <= y + 1 /\ \A k \in b + 1 .. y + 1 : k \notin Begins(q)
      BY <2>2, <3>2, <3>3 DEF Begins
    <3> QED
      BY <3>4
  <2> QED
    BY <2>1, <2>2
<1>3. \A y \in Nat : y \in S => y + 1 \in S
  BY <1>2
<1> HIDE DEF S
<1>4. Nat \subseteq S
  BY <1>1, <1>3, Induct
<1> QED
  BY <1>4 DEF S

\* The rows of a run have one IDENT.
LEMMA RunIdent ==
  ASSUME NEW q, Len(q) \in Nat, NEW b, NEW e, Run(q, b, e), NEW x \in b .. e
  PROVE  q[x].ident = q[b].ident
<1> DEFINE S == {d \in Nat : b + d <= e => q[b + d].ident = q[b].ident}
<1>1. /\ b \in 1 .. Len(q) /\ e \in b .. Len(q)
      /\ \A k \in b + 1 .. e : q[k].ident = q[k - 1].ident
  BY DEF Run, Begins
<1>2. 0 \in S
  <2>1. b + 0 = b
    BY <1>1
  <2> QED
    BY <2>1
<1>3. ASSUME NEW d \in Nat, d \in S PROVE d + 1 \in S
  <2>1. b + (d + 1) - 1 = b + d
    BY <1>1
  <2>2. ASSUME b + (d + 1) <= e PROVE q[b + (d + 1)].ident = q[b].ident
    <3>1. b + (d + 1) \in b + 1 .. e /\ b + d <= e
      BY <1>1, <2>2
    <3> QED
      BY <1>1, <1>3, <2>1, <3>1
  <2> QED
    BY <2>2
<1> HIDE DEF S
<1>4. Nat \subseteq S
  BY <1>2, <1>3, Induct
<1>5. x - b \in Nat /\ b + (x - b) = x /\ b + (x - b) <= e
  BY <1>1
<1> QED
  BY <1>4, <1>5 DEF S

LEMMA AxesOfRun ==
  ASSUME Numbered, NEW b, NEW e, Run(rows, b, e)
  PROVE  AxesFrom(b) = [k \in 1 .. e - b + 1 |-> rows[b + k - 1].axis]
<1>1. SeriesFrom(rows, b).data = Points(rows, b, e)
  BY RowsAreSeq, RunSeries
<1>2. DOMAIN SeriesFrom(rows, b).data = 1 .. e - b + 1
  BY <1>1 DEF Points
<1> QED
  BY <1>2, Zenon DEF AxesFrom

\* A run has the axes that the first one begins with, which differ.
LEMMA RegularAxes ==
  ASSUME Numbered, Regular, NEW d, Run(rows, 1, d), NEW b, NEW e, Run(rows, b, e)
  PROVE  /\ e - b + 1 <= d
         /\ \A k \in 1 .. e - b + 1 : rows[b + k - 1].axis = rows[k].axis
         /\ \A i, j \in 1 .. d : rows[i].axis = rows[j].axis => i = j
<1> DEFINE A == {rows[i].axis : i \in Nat}
           s == AxesFrom(b)
           t == AxesFrom(1)
           m == e - b + 1
<1>1. /\ Len(rows) \in Nat /\ rows # <<>>
      /\ b \in Begins(rows) /\ b \in Nat /\ e \in Nat /\ b <= e /\ d \in Nat /\ 1 <= d
  BY RowsAreSeq DEF Run, Begins
<1>2. s = [k \in 1 .. m |-> rows[b + k - 1].axis] /\ t = [k \in 1 .. d - 1 + 1 |-> rows[1 + k - 1].axis]
  BY AxesOfRun
<1>3. m \in Nat /\ d - 1 + 1 = d /\ \A k \in 1 .. d : 1 + k - 1 = k
  BY <1>1
<1>4. t = [k \in 1 .. d |-> rows[k].axis]
  BY <1>2, <1>3
<1>5. \A k \in 1 .. m : b + k - 1 \in Nat
  BY <1>1
<1>6. s \in [1 .. m -> A] /\ t \in [1 .. d -> A]
  BY <1>2, <1>4, <1>5
<1>7. IsInjective(t) /\ IsPrefix(s, t)
  BY <1>1 DEF Regular
<1> HIDE DEF A, s, t, m
<1>8. s \in Seq(A) /\ t \in Seq(A) /\ Len(s) = m /\ Len(t) = d
  BY <1>1, <1>3, <1>6
<1>9. m <= d /\ SubSeq(s, 1, m) = SubSeq(t, 1, m)
  BY <1>7, <1>8 DEF IsPrefix
<1>10. \A k \in 1 .. m : s[k] = t[k]
  <2> SUFFICES ASSUME NEW k \in 1 .. m PROVE s[k] = t[k]
    OBVIOUS
  <2>1. SubSeq(s, 1, m)[k] = s[k] /\ SubSeq(t, 1, m)[k] = t[k]
    BY <1>3, <1>8, <1>9
  <2> QED
    BY <1>9, <2>1
<1>11. \A k \in 1 .. m : k \in 1 .. d
  BY <1>1, <1>3, <1>9
<1>12. \A k \in 1 .. m : rows[b + k - 1].axis = rows[k].axis
  BY <1>2, <1>4, <1>10, <1>11
<1>13. \A i, j \in 1 .. d : rows[i].axis = rows[j].axis => i = j
  BY <1>4, <1>7 DEF IsInjective
<1> QED
  BY <1>9, <1>12, <1>13 DEF m

\* The row that does not fail lists its axis.
LEMMA ListsAxis ==
  ASSUME NEW q, NEW n, NEW acc, ~ Row(q, n, acc).failed
  PROVE  /\ ~ acc.failed
         /\ Row(q, n, acc).categories = WithCategory(acc.categories, q[n].axis)
<1>1. ~ acc.failed /\ ~ Throws(acc, q[n])
  BY FailedRow
<1> DEFINE put == IF acc.previousId # q[n].ident
                  THEN NewSeries(acc, q[n], n = 1)
                  ELSE SameSeries(acc, q[n], n = Len(q))
<1>2. Row(q, n, acc) =
        [previousId |-> q[n].ident, open |-> put.open, started |-> TRUE, series |-> put.series,
         categories |-> WithCategory(acc.categories, q[n].axis), failed |-> FALSE]
  BY <1>1, Zenon DEF Row
<1> HIDE DEF put
<1>3. Row(q, n, acc).categories = WithCategory(acc.categories, q[n].axis)
  BY <1>2, LocalFields
<1> QED
  BY <1>1, <1>3

\* The categories of a regular result set are the axes of its first run.
LEMMA FirstAxes ==
  ASSUME Numbered, Regular, ~ Response(rows).failed, NEW d, Run(rows, 1, d)
  PROVE  Response(rows).categories = [k \in 1 .. d |-> rows[k].axis]
<1> DEFINE Axes(n) == [k \in 1 .. (IF n <= d THEN n ELSE d) |-> rows[k].axis]
           S == {n \in Nat : n \in 1 .. Len(rows) => After(rows)[n].categories = Axes(n)}
<1>1. Len(rows) \in Nat /\ d \in 1 .. Len(rows) /\ Len(rows) \in 1 .. Len(rows)
  BY RowsAreSeq DEF Run, Begins
<1>2. \A n \in 1 .. Len(rows) : ~ After(rows)[n].failed
  <2>1. ~ Fails(rows, Len(rows))
    BY <1>1, ResponseFails
  <2>2. \A n \in 1 .. Len(rows) : ~ Fails(rows, n)
    BY <1>1, <2>1 DEF Fails
  <2> QED
    BY <1>1, <2>2, AllRows
<1>3. 0 \in S
  OBVIOUS
<1>4. ASSUME NEW n \in Nat, n \in S, n + 1 \in 1 .. Len(rows)
      PROVE  After(rows)[n + 1].categories = Axes(n + 1)
  <2> DEFINE c == After(rows)[n].categories
             x == rows[n + 1].axis
  <2>1. After(rows)[n + 1].categories = WithCategory(c, x)
    <3>1. n + 1 - 1 = n
      OBVIOUS
    <3>2. After(rows)[n + 1] = Row(rows, n + 1, After(rows)[n])
      BY <1>1, <1>4, <3>1, AfterRows
    <3> QED
      BY <1>2, <1>4, <3>2, ListsAxis
  <2>2. CASE n = 0
    <3>1. c = <<>>
      BY <1>1, <2>2, AfterRows DEF Start
    <3>2. WithCategory(<<>>, rows[1].axis) = <<rows[1].axis>>
      BY DEF WithCategory
    <3>3. Axes(1) = <<rows[1].axis>>
      BY <1>1
    <3> QED
      BY <2>1, <2>2, <3>1, <3>2, <3>3
  <2>3. CASE n # 0
    <3>1. c = Axes(n)
      BY <1>4, <2>3
    <3> DEFINE m == IF n <= d THEN n ELSE d
               R == {rows[i].axis : i \in Nat}
    <3>2. m \in Nat /\ m <= d /\ m <= n /\ (n < d => m = n) /\ (d <= n => m = d)
      BY <1>1
    <3>3. c \in Seq(R) /\ Len(c) = m /\ (\A k \in 1 .. m : c[k] = rows[k].axis) /\ x \in R
      BY <1>1, <3>1, <3>2
    <3> HIDE DEF m, R, c, x
    <3>4. CASE n + 1 <= d
      <4>1. m = n
        BY <1>1, <3>2, <3>4
      <4>2. \A i, j \in 1 .. d : rows[i].axis = rows[j].axis => i = j
        BY RegularAxes
      <4>3. \A i \in 1 .. Len(c) : c[i] # x
        BY <1>1, <1>4, <3>3, <3>4, <4>1, <4>2 DEF x
      <4>4. WithCategory(c, x) = Append(c, x)
        BY <4>3, Zenon DEF WithCategory
      <4>5. Append(c, x) = [k \in 1 .. n + 1 |-> rows[k].axis]
        <5> DEFINE t == Append(c, x)
        <5>1. t \in Seq(R) /\ Len(t) = n + 1
          BY <1>4, <3>3, <4>1
        <5>2. \A k \in 1 .. n + 1 : t[k] = rows[k].axis
          BY <1>4, <3>3, <4>1 DEF x
        <5> HIDE DEF t
        <5>3. t = [k \in 1 .. n + 1 |-> t[k]]
          BY <5>1
        <5>4. t = [k \in 1 .. n + 1 |-> rows[k].axis]
          BY <5>2, <5>3
        <5> QED
          BY <5>4 DEF t
      <4>6. Axes(n + 1) = [k \in 1 .. n + 1 |-> rows[k].axis]
        BY <3>4
      <4> QED
        BY <2>1, <4>4, <4>5, <4>6 DEF c, x
    <3>5. CASE ~ (n + 1 <= d)
      <4>1. m = d /\ Axes(n + 1) = Axes(n)
        BY <1>1, <1>4, <3>2, <3>5
      <4>2. PICK b \in Begins(rows) : b <= n + 1 /\ \A k \in b + 1 .. n + 1 : k \notin Begins(rows)
        BY <1>1, <1>4, RowInRun
      <4>3. PICK e \in b .. Len(rows) : Run(rows, b, e)
        BY <1>1, RunEnds
      <4> DEFINE k == n + 1 - b + 1
      <4>4. n + 1 <= e
        BY <1>1, <1>4, <4>2, <4>3 DEF Run, Begins
      <4>5. k \in 1 .. e - b + 1 /\ b + k - 1 = n + 1
        BY <1>1, <1>4, <4>2, <4>3, <4>4 DEF Begins
      <4>6. e - b + 1 <= d /\ rows[b + k - 1].axis = rows[k].axis
        BY <4>3, <4>5, RegularAxes
      <4>7. k \in 1 .. Len(c) /\ c[k] = x
        BY <1>1, <3>3, <4>1, <4>3, <4>5, <4>6 DEF x, Begins
      <4>8. WithCategory(c, x) = c
        BY <4>7, Zenon DEF WithCategory
      <4> QED
        BY <2>1, <3>1, <4>1, <4>8 DEF c, x
    <3> QED
      BY <3>4, <3>5
  <2> QED
    BY <2>2, <2>3
<1> HIDE DEF Axes
<1>5. ASSUME NEW n \in Nat, n \in S PROVE n + 1 \in S
  <2>1. n + 1 \in Nat
    OBVIOUS
  <2> QED
    BY <1>4, <1>5, <2>1, Zenon
<1> HIDE DEF S
<1>6. Nat \subseteq S
  BY <1>3, <1>5, Induct
<1>7. Response(rows).categories = Axes(Len(rows))
  BY <1>1, <1>6 DEF S, Response
<1>8. Axes(Len(rows)) = [k \in 1 .. d |-> rows[k].axis]
  BY <1>1 DEF Axes
<1> QED
  BY <1>7, <1>8

\* A point of a regular chart is its row.
LEMMA PointIsRow ==
  ASSUME Numbered, Regular, ~ Response(rows).failed,
         NEW b, NEW e, Run(rows, b, e), NEW k \in 1 .. e - b + 1
  PROVE  /\ b + k - 1 \in b .. e
         /\ [ident |-> SeriesFrom(rows, b).name, axis |-> Label(Response(rows).categories, k),
             res |-> SeriesFrom(rows, b).data[k]] = rows[b + k - 1]
<1> DEFINE x == b + k - 1
           c == Response(rows).categories
<1>1. /\ Len(rows) \in Nat /\ b \in 1 .. Len(rows) /\ e \in b .. Len(rows)
      /\ x \in b .. e /\ x \in 1 .. Len(rows) /\ 1 \in Begins(rows)
  BY RowsAreSeq DEF Run, Begins
<1>2. PICK d \in 1 .. Len(rows) : Run(rows, 1, d)
  BY <1>1, RunEnds
<1>3. k <= d /\ rows[x].axis = rows[k].axis
  <2>1. e - b + 1 <= d /\ \A j \in 1 .. e - b + 1 : rows[b + j - 1].axis = rows[j].axis
    BY <1>2, RegularAxes
  <2> QED
    BY <1>1, <2>1
<1>4. c = [j \in 1 .. d |-> rows[j].axis]
  BY <1>2, FirstAxes
<1>5. Len(c) = d /\ c[k] = rows[k].axis
  <2> DEFINE A == {rows[j].axis : j \in Nat}
  <2>1. c \in [1 .. d -> A] /\ d \in Nat /\ k \in 1 .. d
    BY <1>1, <1>3, <1>4
  <2> HIDE DEF A, c
  <2> QED
    BY <1>4, <2>1
<1>6. Label(c, k) = rows[x].axis
  BY <1>1, <1>3, <1>5 DEF Label
<1>7. SeriesFrom(rows, b) = [name |-> rows[b].ident, data |-> Points(rows, b, e)]
  BY <1>1, RunSeries
<1>8. Points(rows, b, e)[k] = rows[x].res
  BY DEF Points
<1>9. SeriesFrom(rows, b).name = rows[x].ident /\ SeriesFrom(rows, b).data[k] = rows[x].res
  BY <1>1, <1>7, <1>8, RunIdent
<1>10. rows[x] = [ident |-> rows[x].ident, axis |-> rows[x].axis, res |-> rows[x].res]
  BY <1>1, RowsAreSeq
<1> QED
  BY <1>1, <1>6, <1>9, <1>10

(***************************************************************************)
(* If no series skips an AXIS, every row that was sent is drawn once and   *)
(* over its own AXIS, and nothing else is drawn.                           *)
(***************************************************************************)
THEOREM DrawsTheRows == RowsSpec => []PointsOverTheirAxis
<1>1. Numbered => PointsOverTheirAxis
  <2> SUFFICES ASSUME Numbered, Regular, ~ Response(rows).failed
               PROVE  LinePoints(Response(rows)) = SentRows
    BY DEF PointsOverTheirAxis
  <2> DEFINE s == Response(rows).series
             n == Len(s)
             P == Begins(rows) \ {Len(rows)}
             N == IF LostSeries = {} THEN Len(rows) ELSE Len(rows) - 1
             point(i, k) == [ident |-> s[i].name, axis |-> Label(Response(rows).categories, k),
                             res |-> s[i].data[k]]
  <2>1. Len(rows) \in Nat /\ (rows # <<>> <=> Len(rows) >= 1)
    BY RowsAreSeq
  <2>2. Puts(rows, s, P)
    BY <2>1, ResponseSeries
  <2>3. DOMAIN s = 1 .. n
    <3> DEFINE T == {SeriesFrom(rows, i) : i \in Begins(rows)}
    <3>1. s \in Seq(T)
      BY <2>2, Zenon DEF Puts
    <3> HIDE DEF T, s
    <3> QED
      BY <3>1
  <2>4. PICK f \in [1 .. n -> P] :
          /\ \A i, j \in 1 .. n : i < j => f[i] < f[j]
          /\ \A x \in P : \E i \in 1 .. n : f[i] = x
          /\ \A i \in 1 .. n : s[i] = SeriesFrom(rows, f[i])
    BY <2>2, Zenon DEF Puts
  <2>5. \A i \in 1 .. n : f[i] \in Begins(rows) /\ f[i] # Len(rows)
    BY <2>4
  <2>6. /\ Len(rows) \in Begins(rows) => N = Len(rows) - 1
        /\ Len(rows) \notin Begins(rows) => N = Len(rows)
    BY <2>1 DEF LostSeries, Begins
  <2>7. LinePoints(Response(rows)) = UNION {{point(i, k) : k \in DOMAIN s[i].data} : i \in DOMAIN s}
    BY Zenon DEF LinePoints
  <2>8. SentRows = {rows[x] : x \in 1 .. N}
    BY Zenon DEF SentRows
  <2>9. ASSUME NEW b, NEW e, Run(rows, b, e)
        PROVE  DOMAIN SeriesFrom(rows, b).data = 1 .. e - b + 1
    <3>1. SeriesFrom(rows, b).data = Points(rows, b, e)
      BY <2>1, <2>9, RunSeries
    <3> QED
      BY <3>1 DEF Points
  <2> HIDE DEF s, n, P, N
  <2>10. ASSUME NEW i \in DOMAIN s, NEW k \in DOMAIN s[i].data
         PROVE  point(i, k) \in SentRows
    <3>1. s[i] = SeriesFrom(rows, f[i]) /\ f[i] \in Begins(rows) /\ f[i] # Len(rows)
      BY <2>3, <2>4, <2>5
    <3>2. PICK e \in f[i] .. Len(rows) : Run(rows, f[i], e)
      BY <2>1, <3>1, RunEnds
    <3>3. k \in 1 .. e - f[i] + 1
      BY <2>9, <3>1, <3>2
    <3>4. point(i, k) = rows[f[i] + k - 1] /\ f[i] + k - 1 \in f[i] .. e
      BY <3>1, <3>2, <3>3, PointIsRow
    <3>5. f[i] + k - 1 \in 1 .. N
      <4>1. Len(rows) \in Begins(rows) => e # Len(rows)
        BY <2>1, <3>1, <3>2 DEF Run, Begins
      <4> QED
        BY <2>1, <2>6, <3>1, <3>2, <3>4, <4>1 DEF Begins
    <3> HIDE DEF point
    <3> QED
      BY <2>8, <3>4, <3>5, Zenon
  <2>11. ASSUME NEW x \in 1 .. N
         PROVE  \E i \in DOMAIN s : \E k \in DOMAIN s[i].data : rows[x] = point(i, k)
    <3>1. x \in 1 .. Len(rows)
      BY <2>1, <2>6
    <3>2. PICK b \in Begins(rows) : b <= x /\ \A k \in b + 1 .. x : k \notin Begins(rows)
      BY <2>1, <3>1, RowInRun
    <3>3. b \in P
      <4>1. CASE b = Len(rows)
        BY <2>1, <2>6, <3>1, <3>2, <4>1
      <4>2. CASE b # Len(rows)
        BY <3>2, <4>2 DEF P
      <4> QED
        BY <4>1, <4>2
    <3>4. PICK i \in 1 .. n : f[i] = b
      BY <2>4, <3>3
    <3>5. s[i] = SeriesFrom(rows, b)
      BY <2>4, <3>4
    <3>6. PICK e \in b .. Len(rows) : Run(rows, b, e)
      BY <2>1, RunEnds
    <3>7. x <= e
      BY <2>1, <3>1, <3>2, <3>6 DEF Run, Begins
    <3> DEFINE k == x - b + 1
    <3>8. k \in 1 .. e - b + 1 /\ b + k - 1 = x
      BY <2>1, <3>1, <3>2, <3>6, <3>7 DEF Begins
    <3> HIDE DEF k
    <3>9. k \in DOMAIN s[i].data
      BY <2>9, <3>5, <3>6, <3>8
    <3>10. rows[x] = point(i, k)
      BY <3>5, <3>6, <3>8, PointIsRow
    <3> HIDE DEF point
    <3> QED
      BY <2>3, <3>9, <3>10, Zenon
  <2> HIDE DEF point
  <2>12. \A y : y \in LinePoints(Response(rows)) <=>
           \E i \in DOMAIN s : \E k \in DOMAIN s[i].data : y = point(i, k)
    <3> DEFINE slice(i) == {point(i, k) : k \in DOMAIN s[i].data}
    <3>1. \A y, i : y \in slice(i) <=> \E k \in DOMAIN s[i].data : y = point(i, k)
      BY Zenon
    <3>2. LinePoints(Response(rows)) = UNION {slice(i) : i \in DOMAIN s}
      BY <2>7, Zenon
    <3> HIDE DEF slice
    <3>3. \A y : y \in UNION {slice(i) : i \in DOMAIN s} <=> \E i \in DOMAIN s : y \in slice(i)
      OBVIOUS
    <3> QED
      BY <3>1, <3>2, <3>3, Zenon
  <2>13. \A y \in SentRows : y \in LinePoints(Response(rows))
    <3> SUFFICES ASSUME NEW x \in 1 .. N PROVE rows[x] \in LinePoints(Response(rows))
      BY <2>8, Zenon
    <3> QED
      BY <2>11, <2>12, Zenon
  <2>14. ASSUME NEW y \in LinePoints(Response(rows)) PROVE y \in SentRows
    <3>1. PICK i \in DOMAIN s : \E k \in DOMAIN s[i].data : y = point(i, k)
      BY <2>12, Zenon
    <3>2. PICK k \in DOMAIN s[i].data : y = point(i, k)
      BY <3>1, Zenon
    <3>3. point(i, k) \in SentRows
      BY <2>10
    <3> QED
      BY <3>2, <3>3, Zenon
  <2> QED
    BY <2>13, <2>14, Zenon
<1> QED
  BY <1>1, RowsAreNumbered, PTL

-----------------------------------------------------------------------------
(***************************************************************************)
(* The call, while the race goes on.                                       *)
(***************************************************************************)
\* The initial states satisfy the invariant of the procedure's loop.
LEMMA KpiInit == Init => KpiInv
BY DEF Init, RaceInit, KpiInv, TypeOK, RaceTypeOK, IsCarte, UncountedAreAhead,
       ProcedureOver, NoResponse

\* Every step of the call or of the race preserves it.
LEMMA KpiNext == KpiInv /\ [Next]_vars => KpiInv'
<1> SUFFICES ASSUME KpiInv, [Next]_vars PROVE KpiInv'
  OBVIOUS
<1> USE DEF KpiInv
<1>1. \A p \in Participants : nbTourCoureur(carte, passage, p) \in Nat
  BY LapsNat DEF TypeOK, RaceTypeOK
<1>2. CASE UNCHANGED vars
  BY <1>2 DEF vars, race, call, TypeOK, RaceTypeOK, IsCarte, UncountedAreAhead, Counted,
              ProcedureOver
<1>3. CASE Call
  <2> USE <1>3 DEF Call, race
  <2>1. TypeOK'
    BY DEF TypeOK, RaceTypeOK, IsCarte, Unavailable, NoResponse
  <2>2. UncountedAreAhead'
    BY <1>1 DEF UncountedAreAhead
  <2>3. ProcedureOver'
    BY DEF ProcedureOver
  <2> QED
    BY <2>1, <2>2, <2>3
<1>4. CASE Select
  <2> USE <1>4 DEF Select, race
  <2>1. WithCount(v1) \in SUBSET Participants
    BY DEF WithCount
  <2>2. TypeOK'
    BY <2>1 DEF TypeOK, RaceTypeOK, IsCarte
  <2>3. ASSUME NEW p \in Participants, ~Counted(p)'
        PROVE  nbTourCoureur(carte, passage, p) >= v1 + 1
    <3>1. /\ Len(sets') = Len(sets) + 1
          /\ sets'[Len(sets) + 1] = WithCount(v1)
          /\ \A i \in 1 .. Len(sets) : sets'[i] = sets[i]
          /\ Len(sets) \in Nat
      BY DEF TypeOK
    <3>2. ~Counted(p) /\ p \notin WithCount(v1)
      BY <2>3, <3>1 DEF Counted
    <3>3. nbTourCoureur(carte, passage, p) >= v1
      BY <3>2 DEF UncountedAreAhead
    <3>4. nbTourCoureur(carte, passage, p) # v1
      BY <3>2 DEF WithCount
    <3> QED
      BY <1>1, <3>3, <3>4 DEF TypeOK
  <2>4. UncountedAreAhead'
    BY <2>3 DEF UncountedAreAhead
  <2>5. ProcedureOver'
    BY DEF ProcedureOver
  <2> QED
    BY <2>2, <2>4, <2>5
<1>5. CASE ProcedureEnds
  BY <1>5 DEF ProcedureEnds, race, TypeOK, RaceTypeOK, IsCarte, UncountedAreAhead, Counted,
              ProcedureOver
<1>6. CASE Respond
  <2> USE <1>6 DEF Respond, race
  <2>1. response'.status \in {200, 503}
    BY DEF Unavailable, NoResponse
  <2>2. TypeOK'
    BY <2>1 DEF TypeOK, RaceTypeOK, IsCarte
  <2> QED
    BY <2>2 DEF UncountedAreAhead, ProcedureOver
<1>7. CASE Break
  BY <1>7 DEF Break, race, TypeOK, RaceTypeOK, IsCarte, Unavailable, NoResponse,
              UncountedAreAhead, ProcedureOver
<1>8. CASE Again
  BY <1>8 DEF Again, race, TypeOK, RaceTypeOK, IsCarte, NoResponse, UncountedAreAhead,
              ProcedureOver
<1>9. CASE RaceStep
  <2> USE <1>9 DEF RaceStep, call
  <2>1. /\ RaceTypeOK'
        /\ \A p \in Participants : nbTourCoureur(carte, passage, p)'
                                     >= nbTourCoureur(carte, passage, p)
    BY RaceStepGrows DEF TypeOK
  <2>2. TypeOK'
    BY <2>1 DEF TypeOK
  <2>3. \A p \in Participants : nbTourCoureur(carte, passage, p)' \in Nat
    BY <2>1, LapsNat DEF RaceTypeOK
  <2>4. UncountedAreAhead'
    BY <1>1, <2>1, <2>3 DEF UncountedAreAhead, Counted, TypeOK
  <2>5. ProcedureOver'
    BY DEF ProcedureOver
  <2> QED
    BY <2>2, <2>4, <2>5
<1> QED
  BY <1>2, <1>3, <1>4, <1>5, <1>6, <1>7, <1>8, <1>9 DEF Next

(***************************************************************************)
(* The loop invariant holds in every state.                                *)
(***************************************************************************)
THEOREM KpiInvariant == Spec => []KpiInv
<1>1. Init => KpiInv
  BY KpiInit
<1>2. KpiInv /\ [Next]_vars => KpiInv'
  BY KpiNext
<1> QED
  BY <1>1, <1>2, PTL DEF Spec

(***************************************************************************)
(* A call of nbCoureurDepartement that ends has met every runner who has   *)
(* at most ten laps, whatever passages were recorded while it ran.         *)
(***************************************************************************)
THEOREM NoRunnerMissed == Spec => []NobodyMissed
<1>1. KpiInv => NobodyMissed
  <2> SUFFICES ASSUME KpiInv, pc = "rows", NEW p \in Participants,
                      nbTourCoureur(carte, passage, p) <= MaxCount
               PROVE  Counted(p)
    BY DEF NobodyMissed
  <2>1. v1 > MaxCount /\ v1 \in Nat
    BY DEF KpiInv, ProcedureOver, TypeOK
  <2>2. nbTourCoureur(carte, passage, p) \in Nat
    BY LapsNat DEF KpiInv, TypeOK, RaceTypeOK
  <2>3. ~Counted(p) => nbTourCoureur(carte, passage, p) >= v1
    BY DEF KpiInv, UncountedAreAhead
  <2> QED
    BY <2>1, <2>2, <2>3, CountAssumption
<1> QED
  BY <1>1, KpiInvariant, PTL

(***************************************************************************)
(* No step takes a lap from a runner.                                      *)
(***************************************************************************)
THEOREM LapsGrow == Spec => LapsOnlyGrow
<1> DEFINE Grow == \A p \in Participants :
                     nbTourCoureur(carte, passage, p)'
                       >= nbTourCoureur(carte, passage, p)
<1>1. KpiInv /\ [Next]_vars => [Grow]_vars
  <2> SUFFICES ASSUME KpiInv, Next PROVE Grow
    OBVIOUS
  <2>1. CASE RaceStep
    BY <2>1, RaceStepGrows DEF RaceStep, KpiInv, TypeOK
  <2>2. CASE UNCHANGED race
    <3>1. \A p \in Participants : nbTourCoureur(carte, passage, p) \in Nat
      BY LapsNat DEF KpiInv, TypeOK, RaceTypeOK
    <3> QED
      BY <2>2, <3>1 DEF race
  <2> QED
    BY <2>1, <2>2 DEF Next, Call, Select, ProcedureEnds, Respond, Break, Again
<1> QED
  BY <1>1, KpiInvariant, PTL DEF Spec, LapsOnlyGrow

\* The first SELECT was that of the count 0, and laps only grow.
FirstSetInv ==
  /\ pc = "procedure" => v1 = Len(sets)
  /\ Len(sets) > 0 => Lapless \subseteq sets[1]

(***************************************************************************)
(* The part of SendsFirstCount about the rows: whoever has no lap when the *)
(* response comes was counted in the set that it was made from.            *)
(***************************************************************************)
THEOREM LaplessAreCounted == Spec => [](Len(sets) > 0 => Lapless \subseteq sets[1])
<1>1. Init => FirstSetInv
  BY DEF Init, FirstSetInv
<1>2. KpiInv /\ FirstSetInv /\ [Next]_vars => FirstSetInv'
  <2> SUFFICES ASSUME KpiInv, FirstSetInv, [Next]_vars PROVE FirstSetInv'
    OBVIOUS
  <2>1. CASE UNCHANGED vars
    BY <2>1 DEF vars, race, call, FirstSetInv, Lapless
  <2>2. CASE Call \/ Again
    BY <2>2 DEF Call, Again, FirstSetInv
  <2>3. CASE Select
    <3>1. /\ Len(sets') = Len(sets) + 1 /\ Len(sets) \in Nat
          /\ Len(sets) = 0 => sets'[1] = WithCount(v1)
          /\ Len(sets) > 0 => sets'[1] = sets[1]
      BY <2>3 DEF Select, KpiInv, TypeOK
    <3>2. v1 = Len(sets) /\ v1' = v1 + 1 /\ Lapless' = Lapless
      BY <2>3 DEF Select, FirstSetInv, Lapless, race
    <3>3. WithCount(0) = Lapless
      BY DEF WithCount, Lapless
    <3> QED
      BY <3>1, <3>2, <3>3 DEF FirstSetInv
  <2>4. CASE ProcedureEnds \/ Respond \/ Break
    BY <2>4 DEF ProcedureEnds, Respond, Break, race, FirstSetInv, Lapless
  <2>5. CASE RaceStep
    <3>1. /\ UNCHANGED call /\ RaceTypeOK'
          /\ \A p \in Participants : nbTourCoureur(carte, passage, p)'
                                       >= nbTourCoureur(carte, passage, p)
      BY <2>5, RaceStepGrows DEF RaceStep, KpiInv, TypeOK
    <3>2. \A p \in Participants : nbTourCoureur(carte, passage, p) \in Nat
      BY LapsNat DEF KpiInv, TypeOK, RaceTypeOK
    <3>3. Lapless' \subseteq Lapless
      BY <3>1, <3>2 DEF Lapless
    <3> QED
      BY <3>1, <3>3 DEF call, FirstSetInv
  <2> QED
    BY <2>1, <2>2, <2>3, <2>4, <2>5 DEF Next
<1>3. FirstSetInv => (Len(sets) > 0 => Lapless \subseteq sets[1])
  BY DEF FirstSetInv
<1> QED
  BY <1>1, <1>2, <1>3, KpiInvariant, PTL DEF Spec
-----------------------------------------------------------------------------
(***************************************************************************)
(* The response of the call.                                               *)
(***************************************************************************)
\* Rows of one axis have it as their only category.
LEMMA OneCategory ==
  ASSUME NEW q, Len(q) \in Nat, NEW v, \A i \in 1 .. Len(q) : q[i].axis = v,
         ~ Response(q).failed
  PROVE  Response(q).categories = IF Len(q) = 0 THEN <<>> ELSE <<v>>
<1> DEFINE S == {n \in Nat : n \in 1 .. Len(q) => After(q)[n].categories = <<v>>}
<1>1. \A n \in 1 .. Len(q) : ~ After(q)[n].failed
  <2>1. ~ Fails(q, Len(q))
    BY ResponseFails
  <2>2. \A n \in 1 .. Len(q) : ~ Fails(q, n)
    BY <2>1 DEF Fails
  <2> QED
    BY <2>2, AllRows
<1>2. After(q)[0].categories = <<>>
  BY AfterRows DEF Start
<1>3. ASSUME NEW n \in Nat, n + 1 \in 1 .. Len(q)
      PROVE  After(q)[n + 1].categories = WithCategory(After(q)[n].categories, v)
  <2>1. n + 1 - 1 = n
    OBVIOUS
  <2>2. After(q)[n + 1] = Row(q, n + 1, After(q)[n])
    BY <1>3, <2>1, AfterRows
  <2> QED
    BY <1>1, <1>3, <2>2, ListsAxis
<1>4. WithCategory(<<>>, v) = <<v>> /\ WithCategory(<<v>>, v) = <<v>>
  BY DEF WithCategory
<1>5. 0 \in S
  OBVIOUS
<1>6. ASSUME NEW n \in Nat, n \in S PROVE n + 1 \in S
  <2>1. CASE n = 0
    BY <1>2, <1>3, <1>4, <2>1
  <2>2. CASE n # 0
    <3>1. n + 1 \in 1 .. Len(q) => After(q)[n].categories = <<v>>
      BY <1>6, <2>2
    <3> QED
      BY <1>3, <1>4, <3>1
  <2> QED
    BY <2>1, <2>2
<1> HIDE DEF S
<1>7. Nat \subseteq S
  BY <1>5, <1>6, Induct
<1>8. CASE Len(q) = 0
  BY <1>2, <1>8 DEF Response
<1>9. CASE Len(q) # 0
  BY <1>7, <1>9 DEF S, Response
<1> QED
  BY <1>8, <1>9

-----------------------------------------------------------------------------
\* The order of the groups of a SELECT.
Rank(G, i) == Cardinality({j \in G : j <= i})
OfRank(G, k) == CHOOSE i \in G : Rank(G, i) = k

LEMMA Ranks ==
  ASSUME NEW n \in Nat, NEW G \in SUBSET (1 .. n)
  PROVE  /\ IsFiniteSet(G) /\ Cardinality(G) \in Nat
         /\ \A i \in G : Rank(G, i) \in 1 .. Cardinality(G)
         /\ \A i, j \in G : i < j => Rank(G, i) < Rank(G, j)
         /\ \A k \in 1 .. Cardinality(G) : \E i \in G : Rank(G, i) = k
<1> DEFINE N == Cardinality(G)
           upto(i) == {j \in G : j <= i}
<1>1. IsFiniteSet(1 .. n)
  BY FS_Interval
<1>2. IsFiniteSet(G) /\ N \in Nat
  BY <1>1, FS_Subset, FS_CardinalityType
<1>3. ASSUME NEW i \in G
      PROVE  /\ IsFiniteSet(upto(i)) /\ Rank(G, i) \in Nat /\ Rank(G, i) <= N
             /\ Rank(G, i) = Cardinality(upto(i)) /\ Rank(G, i) # 0
  <2>1. upto(i) \in SUBSET G /\ i \in upto(i)
    OBVIOUS
  <2>2. Rank(G, i) = Cardinality(upto(i))
    BY DEF Rank
  <2> HIDE DEF upto, N
  <2>3. IsFiniteSet(upto(i)) /\ Cardinality(upto(i)) <= N
    BY <1>2, <2>1, FS_Subset, Zenon DEF N
  <2>4. Cardinality(upto(i)) \in Nat /\ Cardinality(upto(i)) # 0
    BY <2>1, <2>3, FS_CardinalityType, FS_EmptySet
  <2> QED
    BY <2>2, <2>3, <2>4
<1>4. \A i \in G : Rank(G, i) \in 1 .. N
  <2> HIDE DEF N, upto
  <2> QED
    BY <1>2, <1>3
<1>5. ASSUME NEW i \in G, NEW j \in G, i < j PROVE Rank(G, i) < Rank(G, j)
  <2>1. \A x \in G : x \in Nat /\ (x <= i => x <= j) /\ j <= j /\ ~ (j <= i)
    <3>1. \A x \in G : x \in Nat
      OBVIOUS
    <3> QED
      BY <1>5, <3>1
  <2>2. upto(i) \in SUBSET upto(j) /\ j \in upto(j) /\ j \notin upto(i)
    BY <2>1, Zenon
  <2> HIDE DEF upto, N
  <2>3. /\ Cardinality(upto(i)) <= Cardinality(upto(j))
        /\ Cardinality(upto(i)) # Cardinality(upto(j))
    BY <1>3, <2>2, FS_Subset, Zenon
  <2> QED
    BY <1>3, <2>3
<1>6. \A k \in 1 .. N : \E i \in G : Rank(G, i) = k
  <2> DEFINE h == [i \in G |-> Rank(G, i)]
  <2>1. \A i, j \in G : Rank(G, i) = Rank(G, j) => i = j
    <3>1. ASSUME NEW i \in G, NEW j \in G, Rank(G, i) = Rank(G, j), i # j PROVE FALSE
      <4>1. i < j \/ j < i
        BY <3>1
      <4>2. Rank(G, i) \in Nat /\ Rank(G, j) \in Nat
        BY <1>3
      <4> QED
        BY <1>5, <3>1, <4>1, <4>2
    <3> QED
      BY <3>1
  <2>2. h \in Injection(G, 1 .. N)
    BY <1>4, <2>1, Zenon DEF Injection, IsInjective
  <2>3. IsFiniteSet(1 .. N) /\ Cardinality(1 .. N) = N
    <3> HIDE DEF N
    <3> QED
      BY <1>2, FS_Interval
  <2> HIDE DEF h
  <2>4. h \in Surjection(G, 1 .. N)
    BY <2>2, <2>3, FS_Injection, Zenon
  <2> QED
    BY <2>4, Zenon DEF Surjection, h
<1> QED
  BY <1>2, <1>4, <1>5, <1>6

LEMMA RanksOrder ==
  ASSUME NEW n \in Nat, NEW G \in SUBSET (1 .. n)
  PROVE  /\ \A k \in 1 .. Cardinality(G) : OfRank(G, k) \in G /\ Rank(G, OfRank(G, k)) = k
         /\ {OfRank(G, k) : k \in 1 .. Cardinality(G) \ {Cardinality(G)}} = AllButLast(G)
<1> DEFINE N == Cardinality(G)
<1>1. \A k \in 1 .. N : OfRank(G, k) \in G /\ Rank(G, OfRank(G, k)) = k
  BY Ranks, Zenon DEF OfRank
<1>2. /\ N \in Nat /\ \A i \in G : i \in Nat /\ Rank(G, i) \in 1 .. N
      /\ \A i, j \in G : i < j => Rank(G, i) < Rank(G, j)
  BY Ranks
<1> HIDE DEF N
<1>3. ASSUME NEW i \in G, NEW j \in G, Rank(G, i) = Rank(G, j) PROVE i = j
  BY <1>2, <1>3
<1>4. ASSUME NEW k \in 1 .. N \ {N} PROVE OfRank(G, k) \in AllButLast(G)
  <2>1. N \in 1 .. N /\ k < N /\ k \in 1 .. N
    BY <1>2
  <2> DEFINE i == OfRank(G, k)
             j == OfRank(G, N)
  <2>2. i \in G /\ j \in G /\ Rank(G, i) = k /\ Rank(G, j) = N
    BY <1>1, <2>1
  <2> HIDE DEF i, j
  <2>3. i < j
    BY <1>2, <2>1, <2>2
  <2> QED
    BY <2>2, <2>3 DEF AllButLast, i
<1>5. ASSUME NEW i \in AllButLast(G)
      PROVE  \E k \in 1 .. N \ {N} : i = OfRank(G, k)
  <2>1. PICK j \in G : i \in G /\ i < j
    BY DEF AllButLast
  <2>2. Rank(G, i) \in 1 .. N \ {N}
    BY <1>2, <2>1
  <2>3. OfRank(G, Rank(G, i)) = i
    BY <1>1, <1>3, <2>1, <2>2
  <2> QED
    BY <2>2, <2>3, Zenon
<1>6. {OfRank(G, k) : k \in 1 .. N \ {N}} = AllButLast(G)
  BY <1>4, <1>5, Zenon
<1> QED
  BY <1>1, <1>6 DEF N

\* The SELECT of matched participants has a row for each IDENT of theirs.
LEMMA GroupsMatch ==
  ASSUME NEW matched \in SUBSET Participants
  PROVE  /\ Cardinality(Groups(matched)) \in Nat
         /\ matched # {} => Cardinality(Groups(matched)) # 0
<1>1. IsFiniteSet(Groups(matched))
  <2>1. IsFiniteSet(1 .. Len(Idents)) /\ Groups(matched) \subseteq 1 .. Len(Idents)
    BY FS_Interval, IdentsAssumption DEF Groups
  <2> QED
    BY <2>1, FS_Subset
<1>2. matched # {} => Groups(matched) # {}
  BY IdentOfAssumption DEF Groups
<1> QED
  BY <1>1, <1>2, FS_CardinalityType, FS_EmptySet

\* What the response holds comes from the first set, until the next call.
SeriesOf(r) == {r.series[k] : k \in 1 .. Len(r.series)}
GroupsSent(matched) == {GroupSeries(matched, i) : i \in AllButLast(Groups(matched))}

ResponseInv ==
  /\ pc \in {"procedure", "rows"} => v1 = Len(sets)
  /\ response.status = 200 =>
       /\ pc = "done" /\ Len(sets) > 0
       /\ response.categories = IF Cardinality(Groups(sets[1])) = 0 THEN <<>> ELSE <<0>>
       /\ SeriesOf(response) = GroupsSent(sets[1])

LEMMA FirstRows ==
  ASSUME NEW matched \in SUBSET Participants, ~ Response(RowsOf(matched, 0)).failed
  PROVE  /\ Response(RowsOf(matched, 0)).categories
              = IF Cardinality(Groups(matched)) = 0 THEN <<>> ELSE <<0>>
         /\ SeriesOf(Response(RowsOf(matched, 0))) = GroupsSent(matched)
<1> DEFINE q == RowsOf(matched, 0)
           G == Groups(matched)
           N == Cardinality(G)
           at(k) == OfRank(G, k)
           count(k) == Cardinality({p \in matched : IdentOf[p] = Idents[at(k)]})
<1>1. N \in Nat /\ Len(Idents) \in Nat /\ G \in SUBSET (1 .. Len(Idents))
  BY GroupsMatch, IdentsAssumption DEF Groups
<1>2. q = [k \in 1 .. N |-> [ident |-> Idents[at(k)], axis |-> 0, res |-> count(k)]]
  BY Zenon DEF RowsOf, OfRank, Rank
<1>3. /\ \A k \in 1 .. N : at(k) \in G /\ Rank(G, at(k)) = k
      /\ {at(k) : k \in 1 .. N \ {N}} = AllButLast(G)
  <2> HIDE DEF G
  <2> QED
    BY <1>1, RanksOrder
<1> DEFINE R == {[ident |-> Idents[at(k)], axis |-> 0, res |-> count(k)] : k \in Nat}
<1> HIDE DEF G, N, at, count
<1>4. /\ q \in [1 .. N -> R]
      /\ \A k \in 1 .. N : q[k].ident = Idents[at(k)] /\ q[k].axis = 0 /\ q[k].res = count(k)
  BY <1>1, <1>2
<1> HIDE DEF R, q
<1>5. Len(q) = N
  BY <1>1, <1>4
<1>6. Response(q).categories = IF Len(q) = 0 THEN <<>> ELSE <<0>>
  BY <1>1, <1>4, <1>5, OneCategory DEF q
<1>7. Begins(q) = 1 .. N
  <2>1. ASSUME NEW k \in 1 .. N, k # 1 PROVE q[k].ident # q[k - 1].ident
    <3>1. k - 1 \in 1 .. N /\ k - 1 # k
      BY <1>1, <2>1
    <3>2. at(k) \in 1 .. Len(Idents) /\ at(k - 1) \in 1 .. Len(Idents) /\ at(k) # at(k - 1)
      BY <1>1, <1>3, <3>1
    <3>3. Idents[at(k)] # Idents[at(k - 1)]
      BY <3>2, IdentsAssumption, Zenon
    <3> QED
      BY <1>4, <3>1, <3>3
  <2> QED
    BY <1>5, <2>1 DEF Begins
<1>8. ASSUME NEW k \in 1 .. N PROVE SeriesFrom(q, k) = GroupSeries(matched, at(k))
  <2>1. k \in Nat /\ Run(q, k, k)
    BY <1>1, <1>5, <1>7 DEF Run
  <2>2. SeriesFrom(q, k) = [name |-> q[k].ident, data |-> Points(q, k, k)]
    BY <1>1, <1>5, <2>1, RunSeries
  <2>3. Points(q, k, k) = <<q[k].res>>
    BY <2>1, OnePoint
  <2>4. q[k].ident = Idents[at(k)] /\ q[k].res = count(k)
    BY <1>4
  <2> QED
    BY <2>2, <2>3, <2>4, Zenon DEF GroupSeries, count
<1>9. SeriesOf(Response(q)) = {SeriesFrom(q, k) : k \in 1 .. N \ {N}}
  <2>1. Puts(q, Response(q).series, 1 .. N \ {N})
    <3>1. Puts(q, Response(q).series, Begins(q) \ {Len(q)})
      BY <1>1, <1>5, ResponseSeries DEF q
    <3> QED
      BY <1>5, <1>7, <3>1
  <2> QED
    BY <2>1, PutSeries, Zenon DEF SeriesOf
<1>10. {SeriesFrom(q, k) : k \in 1 .. N \ {N}} = GroupsSent(matched)
  <2> DEFINE K == 1 .. N \ {N}
  <2>1. \A k \in K : k \in 1 .. N
    OBVIOUS
  <2>2. {at(k) : k \in K} = AllButLast(Groups(matched))
    BY <1>3 DEF G
  <2> HIDE DEF K
  <2>3. ASSUME NEW k \in K PROVE SeriesFrom(q, k) \in GroupsSent(matched)
    <3>1. at(k) \in AllButLast(Groups(matched)) /\ SeriesFrom(q, k) = GroupSeries(matched, at(k))
      BY <1>8, <2>1, <2>2, Zenon
    <3> QED
      BY <3>1, Zenon DEF GroupsSent
  <2>4. ASSUME NEW i \in AllButLast(Groups(matched))
        PROVE  \E k \in K : GroupSeries(matched, i) = SeriesFrom(q, k)
    <3>1. PICK k \in K : i = at(k)
      BY <2>2, Zenon
    <3> QED
      BY <1>8, <2>1, <3>1, Zenon
  <2>5. {SeriesFrom(q, k) : k \in K} = GroupsSent(matched)
    BY <2>3, <2>4, Zenon DEF GroupsSent
  <2> QED
    BY <2>5 DEF K
<1>11. Response(q).categories = IF N = 0 THEN <<>> ELSE <<0>>
  BY <1>5, <1>6
<1> QED
  BY <1>9, <1>10, <1>11, Zenon DEF q, N, G

(***************************************************************************)
(* A response of status 200 holds the lap count 0 alone and has a series   *)
(* for each group that the first SELECT met but the last, which is lost;   *)
(* whoever has no lap when it comes was met by that SELECT.                *)
(***************************************************************************)
THEOREM FirstCountIsSent == Spec => []SendsFirstCount
<1>1. Init => ResponseInv
  BY DEF Init, ResponseInv, NoResponse
<1>2. KpiInv /\ ResponseInv /\ [Next]_vars => ResponseInv'
  <2> SUFFICES ASSUME KpiInv, ResponseInv, [Next]_vars PROVE ResponseInv'
    OBVIOUS
  <2> USE DEF ResponseInv
  <2>0. sets \in Seq(SUBSET Participants) /\ v1 \in Nat /\ (pc = "rows" => v1 > MaxCount)
    BY DEF KpiInv, TypeOK, ProcedureOver
  <2>1. CASE UNCHANGED vars
    BY <2>1 DEF vars, call
  <2>2. CASE Call
    BY <2>2 DEF Call, Unavailable, NoResponse
  <2>3. CASE Select
    BY <2>0, <2>3 DEF Select
  <2>4. CASE ProcedureEnds
    BY <2>4 DEF ProcedureEnds
  <2>5. CASE Respond
    <3> DEFINE out == Response(RowsOf(sets[1], 0))
    <3>1. Len(sets) > 0 /\ sets[1] \in SUBSET Participants
      BY <2>0, <2>5, CountAssumption DEF Respond
    <3>2. /\ pc' = "done" /\ sets' = sets
          /\ response' = IF out.failed THEN Unavailable
                         ELSE [status |-> 200, categories |-> out.categories,
                               series |-> out.series]
      BY <2>5 DEF Respond
    <3>3. CASE out.failed
      <4>1. response'.status = 503
        BY <3>2, <3>3 DEF Unavailable, NoResponse
      <4> QED
        BY <3>2, <4>1
    <3>4. CASE ~ out.failed
      <4>1. /\ out.categories = IF Cardinality(Groups(sets[1])) = 0 THEN <<>> ELSE <<0>>
            /\ SeriesOf(out) = GroupsSent(sets[1])
        BY <3>1, <3>4, FirstRows
      <4> HIDE DEF out
      <4>2. response'.categories = out.categories /\ SeriesOf(response') = SeriesOf(out)
        BY <3>2, <3>4 DEF SeriesOf
      <4> QED
        BY <3>1, <3>2, <4>1, <4>2
    <3> QED
      BY <3>3, <3>4
  <2>6. CASE Break
    BY <2>6 DEF Break, Unavailable, NoResponse
  <2>7. CASE Again
    BY <2>7 DEF Again, NoResponse
  <2>8. CASE RaceStep
    BY <2>8 DEF RaceStep, call
  <2> QED
    BY <2>1, <2>2, <2>3, <2>4, <2>5, <2>6, <2>7, <2>8 DEF Next
<1>3. ASSUME KpiInv, ResponseInv, Len(sets) > 0 => Lapless \subseteq sets[1]
      PROVE  SendsFirstCount
  <2> SUFFICES ASSUME response.status = 200
               PROVE  /\ \A j \in 1 .. Len(response.categories) : response.categories[j] = 0
                      /\ Lapless \subseteq sets[1]
                      /\ Lapless # {} => response.categories # <<>>
                      /\ SeriesOf(response) = GroupsSent(sets[1])
    BY DEF SendsFirstCount, SeriesOf, GroupsSent
  <2>1. /\ Len(sets) > 0 /\ Lapless \subseteq sets[1]
        /\ response.categories = IF Cardinality(Groups(sets[1])) = 0 THEN <<>> ELSE <<0>>
        /\ SeriesOf(response) = GroupsSent(sets[1])
    BY <1>3 DEF ResponseInv
  <2>2. sets[1] \in SUBSET Participants
    BY <1>3, <2>1 DEF KpiInv, TypeOK
  <2>3. sets[1] # {} => Cardinality(Groups(sets[1])) # 0
    BY <2>2, GroupsMatch
  <2> QED
    BY <2>1, <2>3
<1> QED
  BY <1>1, <1>2, <1>3, KpiInvariant, LaplessAreCounted, PTL DEF Spec
-----------------------------------------------------------------------------
(***************************************************************************)
(* The totals of the pie chart.                                            *)
(***************************************************************************)
LEMMA TotalSteps ==
  ASSUME NEW s, Len(s) \in Nat
  PROVE  /\ RunningTotal(s)[0] = 0
         /\ \A n \in 1 .. Len(s) : RunningTotal(s)[n] = RunningTotal(s)[n - 1] + s[n]
<1> DEFINE F(f, n) == f = [i \in 0 .. n |-> IF i = 0 THEN 0 ELSE f[i - 1] + s[i]]
           S == {n \in Nat : \E f : F(f, n)}
<1>1. 0 \in S
  <2>1. F([i \in 0 .. 0 |-> 0], 0)
    OBVIOUS
  <2> QED
    BY <2>1
<1>2. ASSUME NEW n \in Nat, n \in S PROVE n + 1 \in S
  <2>1. PICK f : F(f, n)
    BY <1>2
  <2> DEFINE g == [i \in 0 .. n + 1 |-> IF i = n + 1 THEN f[n] + s[n + 1] ELSE f[i]]
  <2>2. g[0] = 0 /\ DOMAIN g = 0 .. n + 1
    BY <2>1
  <2>3. \A i \in 0 .. n + 1 : i # 0 => g[i] = g[i - 1] + s[i]
    <3> SUFFICES ASSUME NEW i \in 0 .. n + 1, i # 0 PROVE g[i] = g[i - 1] + s[i]
      OBVIOUS
    <3>1. g[i - 1] = f[i - 1]
      OBVIOUS
    <3>2. CASE i = n + 1
      BY <3>1, <3>2
    <3>3. CASE i # n + 1
      BY <2>1, <3>1, <3>3
    <3> QED
      BY <3>2, <3>3
  <2>4. F(g, n + 1)
    <3> HIDE DEF g
    <3>1. g = [i \in 0 .. n + 1 |-> g[i]]
      BY DEF g
    <3> QED
      BY <2>2, <2>3, <3>1
  <2> HIDE DEF F, g
  <2> QED
    BY <2>4
<1>3. \E f : F(f, Len(s))
  <2> HIDE DEF S
  <2>1. Len(s) \in S
    BY <1>1, <1>2, Induct
  <2> QED
    BY <2>1 DEF S
<1>4. RunningTotal(s) = CHOOSE f : F(f, Len(s))
  BY DEF RunningTotal
<1>5. F(RunningTotal(s), Len(s))
  <2> HIDE DEF F
  <2> QED
    BY <1>3, <1>4, Zenon
<1>6. \A n \in 1 .. Len(s) : n \in 0 .. Len(s) /\ n # 0
  OBVIOUS
<1> QED
  BY <1>5, <1>6

\* The totals of the first points are those of any longer sequence.
LEMMA SameTotals ==
  ASSUME NEW s, Len(s) \in Nat, NEW t, Len(t) \in Nat, NEW m \in Nat,
         m <= Len(s), m <= Len(t), \A i \in 1 .. m : s[i] = t[i] /\ s[i] \in Int
  PROVE  RunningTotal(s)[m] = RunningTotal(t)[m] /\ RunningTotal(s)[m] \in Int
<1> DEFINE S == {n \in Nat : n <= m => /\ RunningTotal(s)[n] = RunningTotal(t)[n]
                                       /\ RunningTotal(s)[n] \in Int}
<1>1. 0 \in S
  BY TotalSteps
<1>2. ASSUME NEW n \in Nat, n \in S, n + 1 <= m
      PROVE  /\ RunningTotal(s)[n + 1] = RunningTotal(t)[n + 1]
             /\ RunningTotal(s)[n + 1] \in Int
  <2>1. /\ n + 1 \in 1 .. Len(s) /\ n + 1 \in 1 .. Len(t) /\ n + 1 - 1 = n /\ n <= m
        /\ n + 1 \in 1 .. m
    BY <1>2
  <2>2. /\ RunningTotal(s)[n + 1] = RunningTotal(s)[n] + s[n + 1]
        /\ RunningTotal(t)[n + 1] = RunningTotal(t)[n] + t[n + 1]
    BY <2>1, TotalSteps
  <2>3. s[n + 1] = t[n + 1] /\ s[n + 1] \in Int
    BY <2>1
  <2> QED
    BY <1>2, <2>1, <2>2, <2>3
<1>3. \A n \in Nat : n \in S => n + 1 \in S
  BY <1>2
<1> HIDE DEF S
<1>4. Nat \subseteq S
  BY <1>1, <1>3, Induct
<1> QED
  BY <1>4 DEF S

LEMMA TotalInt ==
  ASSUME NEW s, Len(s) \in Nat, \A i \in 1 .. Len(s) : s[i] \in Int
  PROVE  Total(s) \in Int
<1>1. Len(s) <= Len(s) /\ \A i \in 1 .. Len(s) : s[i] = s[i] /\ s[i] \in Int
  OBVIOUS
<1>2. RunningTotal(s)[Len(s)] \in Int
  BY <1>1, SameTotals
<1> QED
  BY <1>2 DEF Total

\* A function on 1 .. n is a sequence of n elements.
LEMMA IsASeq ==
  ASSUME NEW n \in Nat, NEW R, NEW s \in [1 .. n -> R]
  PROVE  s \in Seq(R) /\ Len(s) = n
<1>1. s \in Seq(R) /\ DOMAIN s = 1 .. n
  OBVIOUS
<1> QED
  BY <1>1

\* The total of a series grows with its points.
LEMMA PointsTotal ==
  ASSUME NEW q, Len(q) \in Nat, \A i \in 1 .. Len(q) : q[i].res \in Int,
         NEW b \in 1 .. Len(q), NEW n \in b .. Len(q)
  PROVE  /\ Total(Points(q, b, n)) \in Int
         /\ Total(Points(q, b, b)) = q[b].res
         /\ n + 1 <= Len(q) =>
              Total(Points(q, b, n + 1)) = Total(Points(q, b, n)) + q[n + 1].res
<1>1. ASSUME NEW m \in b .. Len(q)
      PROVE  /\ m - b + 1 \in Nat /\ Len(Points(q, b, m)) = m - b + 1
             /\ \A k \in 1 .. m - b + 1 : Points(q, b, m)[k] = q[b + k - 1].res
             /\ \A k \in 1 .. m - b + 1 : Points(q, b, m)[k] \in Int
  <2> DEFINE s == Points(q, b, m)
             N == m - b + 1
  <2>1. N \in Nat /\ \A k \in 1 .. N : b + k - 1 \in 1 .. Len(q)
    OBVIOUS
  <2>2. \A k \in 1 .. N : q[b + k - 1].res \in Int
    BY <2>1
  <2>3. s = [k \in 1 .. N |-> q[b + k - 1].res]
    BY Zenon DEF Points
  <2> HIDE DEF N, s
  <2>4. s \in [1 .. N -> Int] /\ \A k \in 1 .. N : s[k] = q[b + k - 1].res
    BY <2>2, <2>3, Zenon
  <2>5. Len(s) = N
    BY <2>1, <2>4, IsASeq
  <2>6. \A k \in 1 .. N : s[k] \in Int
    BY <2>4
  <2> QED
    BY <2>1, <2>4, <2>5, <2>6, Zenon DEF s, N
<1>2. ASSUME NEW m \in b .. Len(q) PROVE Total(Points(q, b, m)) \in Int
  <2> DEFINE s == Points(q, b, m)
  <2>1. Len(s) \in Nat /\ \A k \in 1 .. Len(s) : s[k] \in Int
    BY <1>1, Zenon
  <2> HIDE DEF s
  <2>2. Total(s) \in Int
    BY <2>1, TotalInt
  <2> QED
    BY <2>2 DEF s
<1>3. Total(Points(q, b, b)) = q[b].res
  <2> DEFINE s == Points(q, b, b)
  <2>1. b - b + 1 = 1 /\ b + 1 - 1 = b /\ b \in b .. Len(q) /\ 1 \in 1 .. 1
    OBVIOUS
  <2>2. Len(s) = b - b + 1 /\ \A k \in 1 .. b - b + 1 : s[k] = q[b + k - 1].res
    BY <1>1, <2>1, Zenon
  <2>3. Len(s) = 1 /\ s[1] = q[b].res /\ q[b].res \in Int
    <3> HIDE DEF s
    <3>1. s[1] = q[b + 1 - 1].res
      BY <2>1, <2>2
    <3> QED
      BY <2>1, <2>2, <3>1
  <2> HIDE DEF s
  <2>4. RunningTotal(s)[1] = RunningTotal(s)[0] + s[1] /\ RunningTotal(s)[0] = 0
    <3>1. 1 \in 1 .. Len(s) /\ 1 - 1 = 0 /\ Len(s) \in Nat
      BY <2>3
    <3> QED
      BY <3>1, TotalSteps
  <2> QED
    BY <2>3, <2>4 DEF Total, s
<1>4. ASSUME n + 1 <= Len(q)
      PROVE  Total(Points(q, b, n + 1)) = Total(Points(q, b, n)) + q[n + 1].res
  <2> DEFINE s == Points(q, b, n)
             t == Points(q, b, n + 1)
             m == n - b + 1
  <2>1. m \in Nat /\ n + 1 - b + 1 = m + 1 /\ b + (m + 1) - 1 = n + 1 /\ n + 1 \in b .. Len(q)
        /\ m + 1 - 1 = m /\ m + 1 \in 1 .. m + 1 /\ m <= m + 1
        /\ \A k \in 1 .. m : k \in 1 .. m + 1
    BY <1>4
  <2>2. /\ Len(s) = m
        /\ \A k \in 1 .. m : s[k] = q[b + k - 1].res
        /\ \A k \in 1 .. m : s[k] \in Int
    BY <1>1, Zenon
  <2>3. /\ Len(t) = n + 1 - b + 1
        /\ \A k \in 1 .. n + 1 - b + 1 : t[k] = q[b + k - 1].res
    <3> DEFINE p == n + 1
    <3>1. p \in b .. Len(q)
      BY <2>1
    <3> HIDE DEF p, s, m
    <3>2. /\ Len(Points(q, b, p)) = p - b + 1
          /\ \A k \in 1 .. p - b + 1 : Points(q, b, p)[k] = q[b + k - 1].res
      BY <1>1, <3>1, Zenon
    <3> QED
      BY <3>2, SMT DEF p
  <2> HIDE DEF s, t, m
  <2>4. Len(t) = m + 1 /\ \A k \in 1 .. m + 1 : t[k] = q[b + k - 1].res
    <3>1. Len(t) = m + 1
      BY <2>1, <2>3
    <3>2. 1 .. n + 1 - b + 1 = 1 .. m + 1
      BY <2>1
    <3> QED
      BY <2>3, <3>1, <3>2, Zenon
  <2>5. \A k \in 1 .. m : s[k] = t[k]
    BY <2>1, <2>2, <2>4, Zenon
  <2>6. t[m + 1] = q[n + 1].res
    BY <2>1, <2>4
  <2>7. RunningTotal(s)[m] = RunningTotal(t)[m]
    <3>1. m <= Len(s) /\ m <= Len(t) /\ Len(s) \in Nat /\ Len(t) \in Nat
      BY <2>1, <2>2, <2>4
    <3> QED
      BY <2>1, <2>2, <2>5, <3>1, SameTotals
  <2>8. RunningTotal(t)[m + 1] = RunningTotal(t)[m] + t[m + 1]
    <3>1. m + 1 \in 1 .. Len(t) /\ Len(t) \in Nat
      BY <2>1, <2>4
    <3> QED
      BY <2>1, <3>1, TotalSteps
  <2> QED
    BY <2>2, <2>4, <2>6, <2>7, <2>8 DEF Total, s, t
<1> QED
  BY <1>2, <1>3, <1>4

\* What the rows, and the run from row b to row n, add for an IDENT.
ResOf(g) == [k \in 1 .. Len(rows) |-> IF rows[k].ident = g THEN rows[k].res ELSE 0]
RunOf(g, b, n) == IF rows[b].ident = g THEN Total(Points(rows, b, n)) ELSE 0

LEMMA ResOfRows ==
  ASSUME Numbered, NEW g
  PROVE  /\ Len(ResOf(g)) = Len(rows)
         /\ \A k \in 1 .. Len(rows) :
              ResOf(g)[k] \in Int /\ ResOf(g)[k] = IF rows[k].ident = g THEN rows[k].res ELSE 0
<1>1. Len(rows) \in Nat /\ \A k \in 1 .. Len(rows) : rows[k].res \in Int
  BY RowsAreSeq
<1>2. ResOf(g) \in [1 .. Len(rows) -> Int]
  BY <1>1 DEF ResOf
<1>3. Len(ResOf(g)) = Len(rows)
  BY <1>1, <1>2, IsASeq
<1> QED
  BY <1>2, <1>3 DEF ResOf

\* A run adds its total to that of its IDENT.
LEMMA RunTotal ==
  ASSUME Numbered, NEW g, NEW b, NEW e, Run(rows, b, e)
  PROVE  RunningTotal(ResOf(g))[e] = RunningTotal(ResOf(g))[b - 1] + RunOf(g, b, e)
<1> DEFINE w == ResOf(g)
           W == RunningTotal(w)
           More(n) == RunOf(g, b, n)
           S == {n \in Nat : n \in b .. e => W[n] = W[b - 1] + More(n)}
<1>1. Len(rows) \in Nat /\ b \in 1 .. Len(rows) /\ e \in b .. Len(rows)
  BY RowsAreSeq DEF Run, Begins
<1>2. /\ Len(w) = Len(rows)
      /\ \A k \in 1 .. Len(rows) : rows[k].res \in Int /\ w[k] \in Int
      /\ \A k \in 1 .. Len(rows) : w[k] = IF rows[k].ident = g THEN rows[k].res ELSE 0
  BY RowsAreSeq, ResOfRows
<1> HIDE DEF w
<1>3. \A n \in 1 .. Len(rows) : W[n] = W[n - 1] + w[n]
  BY <1>1, <1>2, TotalSteps
<1>4. \A n \in 0 .. Len(rows) : W[n] \in Int
  <2> SUFFICES ASSUME NEW n \in 0 .. Len(rows) PROVE W[n] \in Int
    OBVIOUS
  <2>1. n \in Nat /\ n <= Len(w) /\ Len(w) \in Nat /\ \A i \in 1 .. n : w[i] = w[i] /\ w[i] \in Int
    BY <1>1, <1>2
  <2> QED
    BY <2>1, SameTotals
<1>5. \A n \in b .. e : rows[n].ident = rows[b].ident
  BY <1>1, RunIdent
<1> HIDE DEF W
<1>6. 0 \in S
  BY <1>1
<1>7. ASSUME NEW n \in Nat, n \in S, n + 1 \in b .. e PROVE W[n + 1] = W[b - 1] + More(n + 1)
  <2>1. /\ n + 1 \in 1 .. Len(rows) /\ n + 1 - 1 = n
        /\ w[n + 1] = IF rows[b].ident = g THEN rows[n + 1].res ELSE 0
        /\ rows[n + 1].res \in Int
    <3>1. n + 1 \in 1 .. Len(rows) /\ n + 1 - 1 = n
      BY <1>1, <1>7
    <3>2. /\ w[n + 1] = IF rows[n + 1].ident = g THEN rows[n + 1].res ELSE 0
          /\ rows[n + 1].res \in Int
      BY <1>2, <3>1, Zenon
    <3>3. rows[n + 1].ident = rows[b].ident
      BY <1>5, <1>7
    <3> QED
      BY <3>1, <3>2, <3>3, Zenon
  <2>2. W[n + 1] = W[n] + w[n + 1]
    BY <1>3, <2>1
  <2>3. CASE n + 1 = b
    <3>1. Total(Points(rows, b, b)) = rows[b].res
      BY <1>1, <1>2, PointsTotal
    <3>2. b - 1 = n
      BY <1>1, <2>3
    <3> QED
      BY <2>1, <2>2, <2>3, <3>1, <3>2 DEF RunOf
  <2>4. CASE n + 1 # b
    <3>1. n \in b .. e /\ n \in b .. Len(rows) /\ n + 1 <= Len(rows) /\ n \in 0 .. Len(rows)
          /\ b - 1 \in 0 .. Len(rows)
      BY <1>1, <1>7, <2>4
    <3>2. W[n] = W[b - 1] + More(n)
      BY <1>7, <3>1
    <3>3. /\ Total(Points(rows, b, n)) \in Int
          /\ Total(Points(rows, b, n + 1)) = Total(Points(rows, b, n)) + rows[n + 1].res
      BY <1>1, <1>2, <3>1, PointsTotal
    <3>4. W[b - 1] \in Int /\ W[n] \in Int
      BY <1>4, <3>1
    <3>5. CASE rows[b].ident = g
      <4>1. More(n) = Total(Points(rows, b, n)) /\ More(n + 1) = Total(Points(rows, b, n + 1))
            /\ w[n + 1] = rows[n + 1].res
        BY <2>1, <3>5 DEF RunOf
      <4> HIDE DEF More
      <4> QED
        BY <2>1, <2>2, <3>2, <3>3, <3>4, <4>1
    <3>6. CASE rows[b].ident # g
      <4>1. More(n) = 0 /\ More(n + 1) = 0 /\ w[n + 1] = 0
        BY <2>1, <3>6 DEF RunOf
      <4> HIDE DEF More
      <4> QED
        BY <2>2, <3>2, <3>4, <4>1
    <3> QED
      BY <3>5, <3>6
  <2> QED
    BY <2>3, <2>4
<1> HIDE DEF More
<1>8. ASSUME NEW n \in Nat, n \in S PROVE n + 1 \in S
  <2>1. n + 1 \in Nat
    OBVIOUS
  <2> QED
    BY <1>7, <1>8, <2>1, Zenon
<1> HIDE DEF S
<1>9. Nat \subseteq S
  BY <1>6, <1>8, Induct
<1>10. e \in Nat /\ e \in b .. e
  BY <1>1
<1>11. W[e] = W[b - 1] + More(e)
  BY <1>9, <1>10 DEF S
<1> QED
  BY <1>11, Zenon DEF W, More, w

\* The series follow each other: each begins after the last row of the one
\* before, and the last ends with the last row that is sent.
LastSent(q) == IF Len(q) \in Begins(q) THEN Len(q) - 1 ELSE Len(q)

Follow(q, s, last) ==
  /\ last \in [0 .. Len(s) -> Nat] /\ last[0] = 0 /\ last[Len(s)] = LastSent(q)
  /\ \A i \in 1 .. Len(s) : /\ Run(q, last[i - 1] + 1, last[i])
                            /\ s[i] = SeriesFrom(q, last[i - 1] + 1)

LEMMA SeriesFollow ==
  ASSUME NEW q, Len(q) \in Nat, NEW s, Len(s) \in Nat,
         Puts(q, s, Begins(q) \ {Len(q)})
  PROVE  \E last : Follow(q, s, last)
<1> DEFINE n == Len(s)
           P == Begins(q) \ {Len(q)}
           N == LastSent(q)
<1>1. PICK f \in [1 .. n -> P] :
        /\ \A i, j \in 1 .. n : i < j => f[i] < f[j]
        /\ \A x \in P : \E i \in 1 .. n : f[i] = x
        /\ \A i \in 1 .. n : s[i] = SeriesFrom(q, f[i])
  BY Zenon DEF Puts
<1>2. /\ P \subseteq 1 .. Len(q) - 1 /\ P \subseteq 1 .. N /\ N \in 0 .. Len(q)
      /\ \A x \in Begins(q) : x <= N => x \in P
      /\ N = Len(q) \/ N + 1 \in Begins(q)
      /\ Len(q) >= 1 => 1 \in Begins(q)
  <2>1. Begins(q) \subseteq 1 .. Len(q) /\ (Len(q) >= 1 => 1 \in Begins(q))
    BY DEF Begins
  <2>2. P \subseteq 1 .. Len(q) - 1 /\ N \in Nat /\ N <= Len(q)
    BY <2>1 DEF LastSent
  <2>3. CASE Len(q) \in Begins(q)
    BY <2>1, <2>2, <2>3 DEF LastSent
  <2>4. CASE Len(q) \notin Begins(q)
    BY <2>1, <2>2, <2>4 DEF LastSent
  <2> QED
    BY <2>3, <2>4
<1>3. \A x \in P : x \in Begins(q)
  OBVIOUS
<1> HIDE DEF n, P, N
<1>4. /\ n \in Nat
      /\ \A i \in 1 .. n : /\ f[i] \in P /\ f[i] \in Nat
                           /\ 1 <= f[i] /\ f[i] <= N /\ f[i] < Len(q)
  <2>1. \A i \in 1 .. n : f[i] \in P
    BY <1>1
  <2>2. \A x \in P : x \in Nat /\ 1 <= x /\ x <= N /\ x < Len(q)
    BY <1>2
  <2> QED
    BY <2>1, <2>2 DEF n
<1>5. ASSUME NEW i \in 1 .. n, i + 1 \in 1 .. n
      PROVE  Run(q, f[i], f[i + 1] - 1)
  <2>1. /\ f[i] < f[i + 1] /\ f[i] \in P /\ f[i] \in Nat /\ 1 <= f[i]
        /\ f[i + 1] \in P /\ f[i + 1] \in Nat /\ f[i + 1] <= N /\ f[i + 1] < Len(q)
    <3>1. i < i + 1
      BY <1>4
    <3>2. f[i] < f[i + 1]
      BY <1>1, <1>5, <3>1
    <3> QED
      BY <1>4, <1>5, <3>2
  <2>2. ASSUME NEW k \in f[i] + 1 .. f[i + 1] - 1, k \in Begins(q) PROVE FALSE
    <3>1. k \in P
      <4>1. k <= N
        BY <1>2, <2>1, <2>2
      <4> QED
        BY <1>2, <2>2, <4>1
    <3>2. PICK j \in 1 .. n : f[j] = k
      BY <1>1, <3>1
    <3>3. f[i] < f[j] /\ f[j] < f[i + 1]
      BY <1>4, <1>5, <2>2, <3>2
    <3>4. i < j
      <4>1. CASE j < i
        BY <1>1, <1>4, <3>3, <4>1
      <4>2. CASE j = i
        BY <1>4, <3>3, <4>2
      <4> QED
        BY <1>4, <4>1, <4>2
    <3>5. i + 1 = j \/ i + 1 < j
      BY <1>4, <3>4
    <3>6. CASE i + 1 = j
      BY <1>4, <3>3, <3>6
    <3>7. CASE i + 1 < j
      <4>1. f[i + 1] < f[j]
        BY <1>1, <1>5, <3>7
      <4> QED
        BY <1>4, <1>5, <3>3, <4>1
    <3> QED
      BY <3>5, <3>6, <3>7
  <2>3. /\ f[i] \in Begins(q) /\ f[i + 1] \in Begins(q)
        /\ f[i + 1] - 1 \in f[i] .. Len(q) /\ f[i + 1] - 1 + 1 = f[i + 1]
    BY <1>3, <2>1
  <2> QED
    BY <2>2, <2>3 DEF Run
<1>6. n # 0 => Run(q, f[n], N)
  <2> SUFFICES ASSUME n # 0 PROVE Run(q, f[n], N)
    OBVIOUS
  <2>1. n \in 1 .. n
    BY <1>4
  <2>2. f[n] \in P /\ f[n] \in 1 .. N
    BY <1>2, <1>4, <2>1
  <2>3. ASSUME NEW k \in f[n] + 1 .. N, k \in Begins(q) PROVE FALSE
    <3>1. k \in P
      BY <1>2, <2>2, <2>3
    <3>2. PICK j \in 1 .. n : f[j] = k
      BY <1>1, <3>1
    <3>3. j = n \/ j < n
      BY <1>4
    <3>4. f[n] < f[j]
      BY <2>2, <2>3, <3>2
    <3>5. CASE j < n
      <4>1. f[j] < f[n]
        BY <1>1, <2>1, <3>5
      <4> QED
        BY <1>4, <2>1, <3>4, <4>1
    <3>6. CASE j = n
      BY <1>4, <3>4, <3>6
    <3> QED
      BY <3>3, <3>5, <3>6
  <2>4. f[n] \in Begins(q) /\ N \in f[n] .. Len(q)
    BY <1>2, <1>3, <2>2
  <2> QED
    BY <1>2, <2>3, <2>4 DEF Run
<1>7. n # 0 => f[1] = 1
  <2> SUFFICES ASSUME n # 0 PROVE f[1] = 1
    OBVIOUS
  <2>1. 1 \in 1 .. n
    BY <1>4
  <2>2. 1 \in P
    BY <1>2, <1>4, <2>1
  <2>3. PICK j \in 1 .. n : f[j] = 1
    BY <1>1, <2>2
  <2>4. j # 1 => f[1] < 1
    <3>1. j # 1 => 1 < j
      BY <1>4
    <3> QED
      BY <1>1, <2>1, <2>3, <3>1
  <2>5. f[1] >= 1
    BY <1>2, <1>4, <2>1
  <2> QED
    BY <1>4, <2>1, <2>3, <2>4, <2>5
<1>8. n = 0 => N = 0
  <2> SUFFICES ASSUME n = 0, N # 0 PROVE FALSE
    OBVIOUS
  <2>1. 1 \in P
    BY <1>2
  <2> QED
    BY <1>1, <2>1
<1> DEFINE last == [i \in 0 .. n |-> IF i = n THEN N ELSE f[i + 1] - 1]
<1>9. /\ last \in [0 .. n -> Nat] /\ last[n] = N
      /\ \A i \in 0 .. n : i # n => last[i] = f[i + 1] - 1
  <2>1. \A i \in 0 .. n : i # n => i + 1 \in 1 .. n
    BY <1>4
  <2>2. \A i \in 1 .. n : f[i] - 1 \in Nat
    BY <1>4
  <2> QED
    BY <1>2, <1>4, <2>1, <2>2
<1> HIDE DEF last
<1>10. last[0] = 0
  <2>1. CASE n = 0
    BY <1>8, <1>9, <2>1
  <2>2. CASE n # 0
    <3>1. 0 \in 0 .. n /\ 0 # n /\ 0 + 1 = 1
      BY <1>4, <2>2
    <3>2. last[0] = f[0 + 1] - 1
      BY <1>9, <3>1
    <3> QED
      BY <1>7, <2>2, <3>1, <3>2
  <2> QED
    BY <2>1, <2>2
<1>11. ASSUME NEW i \in 1 .. n
       PROVE  Run(q, last[i - 1] + 1, last[i]) /\ s[i] = SeriesFrom(q, last[i - 1] + 1)
  <2>1. last[i - 1] + 1 = f[i]
    <3>1. i - 1 \in 0 .. n /\ i - 1 # n /\ i - 1 + 1 = i
      BY <1>4
    <3>2. last[i - 1] = f[i - 1 + 1] - 1
      BY <1>9, <3>1
    <3> QED
      BY <1>4, <3>1, <3>2
  <2>2. s[i] = SeriesFrom(q, f[i])
    BY <1>1
  <2>3. Run(q, f[i], last[i])
    <3>1. CASE i = n
      BY <1>4, <1>6, <1>9, <3>1
    <3>2. CASE i # n
      <4>1. i \in 0 .. n /\ i + 1 \in 1 .. n
        BY <1>4, <3>2
      <4> QED
        BY <1>5, <1>9, <3>2, <4>1
    <3> QED
      BY <3>1, <3>2
  <2> QED
    BY <2>1, <2>2, <2>3
<1> QED
  BY <1>9, <1>10, <1>11, Zenon DEF n, N, Follow

(***************************************************************************)
(* The slices of an IDENT add up to its rows that were sent, in however    *)
(* many series it comes and whatever the number of rows.                   *)
(***************************************************************************)
THEOREM SlicesAddUp == RowsSpec => []PieAddsUp
<1>1. Numbered => PieAddsUp
  <2> DEFINE s == Response(rows).series
             n == Len(s)
             pie == PieChart(Response(rows))
             slices(g) == [i \in DOMAIN pie |-> IF pie[i].name = g THEN pie[i].total ELSE 0]
             sent(g) == [i \in DOMAIN rows |->
                           IF rows[i] \in SentRows /\ rows[i].ident = g THEN rows[i].res ELSE 0]
  <2> SUFFICES ASSUME Numbered, ~ Response(rows).failed, NEW g
               PROVE  Total(slices(g)) = Total(sent(g))
    BY Zenon DEF PieAddsUp
  <2> DEFINE N == LastSent(rows)
             A == [i \in 1 .. n |-> IF s[i].name = g THEN Total(s[i].data) ELSE 0]
             w == ResOf(g)
             u == sent(g)
  <2>1. /\ Len(rows) \in Nat /\ (rows # <<>> <=> Len(rows) >= 1)
        /\ \A i \in 1 .. Len(rows) : rows[i].res \in Int /\ rows[i].res = i - 1
    BY RowsAreSeq DEF Numbered
  <2>2. Puts(rows, s, Begins(rows) \ {Len(rows)})
    BY <2>1, ResponseSeries
  <2>3. n \in Nat /\ DOMAIN s = 1 .. n
    <3> DEFINE T == {SeriesFrom(rows, i) : i \in Begins(rows)}
    <3>1. s \in Seq(T)
      BY <2>2, Zenon DEF Puts
    <3> HIDE DEF T, s
    <3> QED
      BY <3>1
  <2>4. slices(g) = A
    <3>1. pie = [i \in DOMAIN s |-> [name |-> s[i].name, total |-> Total(s[i].data)]]
      BY Zenon DEF PieChart
    <3> HIDE DEF pie, s, n
    <3>2. DOMAIN pie = 1 .. n /\ \A i \in 1 .. n : pie[i].name = s[i].name
                                                   /\ pie[i].total = Total(s[i].data)
      BY <2>3, <3>1
    <3> QED
      BY <3>2
  <2>5. N \in Nat /\ N <= Len(rows) /\ (N = Len(rows) \/ N + 1 = Len(rows))
    BY <2>1 DEF Begins, LastSent
  <2>6. \A i \in 1 .. Len(rows) : rows[i] \in SentRows <=> i <= N
    <3>1. N = IF LostSeries = {} THEN Len(rows) ELSE Len(rows) - 1
      BY <2>1 DEF LostSeries, Begins, LastSent
    <3>2. SentRows = {rows[i] : i \in 1 .. N}
      BY <3>1, Zenon DEF SentRows
    <3> HIDE DEF N
    <3>3. ASSUME NEW i \in 1 .. Len(rows), NEW j \in 1 .. N, rows[i] = rows[j] PROVE i = j
      <4>1. j \in 1 .. Len(rows)
        BY <2>1, <2>5
      <4>2. i - 1 = j - 1
        BY <2>1, <3>3, <4>1, Zenon
      <4> QED
        BY <2>1, <4>1, <4>2
    <3>4. ASSUME NEW i \in 1 .. Len(rows), i <= N PROVE rows[i] \in SentRows
      <4>1. i \in 1 .. N
        BY <2>5, <3>4
      <4> QED
        BY <3>2, <4>1, Zenon
    <3>5. ASSUME NEW i \in 1 .. Len(rows), rows[i] \in SentRows PROVE i <= N
      <4>1. PICK j \in 1 .. N : rows[i] = rows[j]
        BY <3>2, <3>5, Zenon
      <4> QED
        BY <2>5, <3>3, <4>1
    <3> QED
      BY <3>4, <3>5
  <2>7. DOMAIN rows = 1 .. Len(rows)
    <3> DEFINE T == [ident : RowIdents, axis : {0, 1}, res : Nat]
    <3>1. rows \in Seq(T)
      BY DEF Numbered
    <3> HIDE DEF T
    <3> QED
      BY <3>1
  <2>8. /\ Len(w) = Len(rows) /\ Len(u) = Len(rows)
        /\ \A k \in 1 .. Len(rows) : w[k] \in Int /\ u[k] \in Int
        /\ \A k \in 1 .. Len(rows) : u[k] = IF k <= N THEN w[k] ELSE 0
    <3>1. Len(w) = Len(rows) /\ \A k \in 1 .. Len(rows) : w[k] \in Int
      BY ResOfRows
    <3>2. u \in [1 .. Len(rows) -> Int]
      BY <2>1, <2>7
    <3>3. \A k \in 1 .. Len(rows) : u[k] = IF k <= N THEN w[k] ELSE 0
      <4>1. \A k \in 1 .. Len(rows) : w[k] = IF rows[k].ident = g THEN rows[k].res ELSE 0
        BY ResOfRows
      <4> HIDE DEF N, w
      <4> QED
        BY <2>6, <2>7, <4>1
    <3> HIDE DEF w, u
    <3>4. Len(u) = Len(rows)
      BY <2>1, <3>1, <3>2, IsASeq
    <3> QED
      BY <3>1, <3>2, <3>3, <3>4
  <2>9. PICK last : Follow(rows, s, last)
    BY <2>1, <2>2, <2>3, SeriesFollow
  <2>10. /\ last \in [0 .. n -> Nat] /\ last[0] = 0 /\ last[n] = N
         /\ \A i \in 1 .. n : /\ Run(rows, last[i - 1] + 1, last[i])
                              /\ s[i] = SeriesFrom(rows, last[i - 1] + 1)
    BY <2>9, Zenon DEF Follow
  <2>11. Len(A) = n /\ DOMAIN A = 1 .. n
         /\ \A i \in 1 .. n : A[i] = IF s[i].name = g THEN Total(s[i].data) ELSE 0
    <3> DEFINE x(i) == IF s[i].name = g THEN Total(s[i].data) ELSE 0
    <3> HIDE DEF n, s, x
    <3>1. A = [i \in 1 .. n |-> x(i)]
      BY Zenon DEF x
    <3>2. A \in [1 .. n -> {x(i) : i \in 1 .. n}] /\ \A i \in 1 .. n : A[i] = x(i)
      BY <3>1, Zenon
    <3> HIDE DEF A
    <3>3. Len(A) = n
      BY <2>3, <3>2, IsASeq
    <3> QED
      BY <3>2, <3>3, Zenon DEF x
  <2> HIDE DEF s, n, A, w, u, N, slices, sent, pie
  <2>12. ASSUME NEW i \in 1 .. n
         PROVE  RunningTotal(w)[last[i]] = RunningTotal(w)[last[i - 1]] + A[i]
    <3> DEFINE b == last[i - 1] + 1
               e == last[i]
    <3>1. Run(rows, b, e) /\ s[i] = SeriesFrom(rows, b)
      BY <2>10
    <3>2. b - 1 = last[i - 1]
      <4>1. i - 1 \in 0 .. n
        BY <2>3
      <4>2. last[i - 1] \in Nat
        BY <2>10, <4>1
      <4> QED
        BY <4>2
    <3>3. s[i].name = rows[b].ident /\ s[i].data = Points(rows, b, e)
      BY <2>1, <3>1, RunSeries
    <3> HIDE DEF b, e
    <3>4. RunningTotal(w)[e] = RunningTotal(w)[b - 1] + RunOf(g, b, e)
      BY <3>1, RunTotal DEF w
    <3>5. A[i] = RunOf(g, b, e)
      BY <2>11, <3>3, Zenon DEF RunOf
    <3> QED
      BY <3>2, <3>4, <3>5, Zenon DEF e
  <2>13. RunningTotal(A)[n] = RunningTotal(w)[last[n]]
    <3> DEFINE S == {i \in Nat : i <= n => RunningTotal(A)[i] = RunningTotal(w)[last[i]]}
    <3>1. 0 \in S
      BY <2>1, <2>3, <2>8, <2>10, <2>11, TotalSteps
    <3>2. ASSUME NEW i \in Nat, i \in S PROVE i + 1 \in S
      <4> SUFFICES ASSUME i + 1 <= n
                   PROVE  RunningTotal(A)[i + 1] = RunningTotal(w)[last[i + 1]]
        OBVIOUS
      <4>1. i + 1 \in 1 .. n /\ i + 1 - 1 = i /\ i <= n
        BY <2>3
      <4>2. RunningTotal(A)[i + 1] = RunningTotal(A)[i] + A[i + 1]
        BY <2>3, <2>11, <4>1, TotalSteps
      <4>3. RunningTotal(w)[last[i + 1]] = RunningTotal(w)[last[i]] + A[i + 1]
        BY <2>12, <4>1
      <4> QED
        BY <3>2, <4>1, <4>2, <4>3
    <3> HIDE DEF S
    <3>3. n \in S
      BY <2>3, <3>1, <3>2, Induct
    <3> QED
      BY <2>3, <3>3 DEF S
  <2>14. RunningTotal(u)[N] = RunningTotal(w)[N] /\ RunningTotal(u)[N] \in Int
    <3>1. \A k \in 1 .. N : u[k] = w[k] /\ u[k] \in Int
      BY <2>1, <2>5, <2>8
    <3> QED
      BY <2>1, <2>5, <2>8, <3>1, SameTotals
  <2>15. RunningTotal(u)[Len(rows)] = RunningTotal(u)[N]
    <3>1. CASE N + 1 = Len(rows)
      <4>1. N + 1 \in 1 .. Len(u) /\ N + 1 - 1 = N /\ u[N + 1] = 0
        BY <2>5, <2>8, <3>1
      <4>2. RunningTotal(u)[N + 1] = RunningTotal(u)[N] + u[N + 1]
        <5>1. Len(u) \in Nat
          BY <2>1, <2>8
        <5>2. \A k \in 1 .. Len(u) : RunningTotal(u)[k] = RunningTotal(u)[k - 1] + u[k]
          BY <5>1, TotalSteps
        <5> QED
          BY <2>5, <4>1, <5>2
      <4> QED
        BY <2>14, <3>1, <4>1, <4>2
    <3>2. CASE N = Len(rows)
      BY <3>2
    <3> QED
      BY <2>5, <3>1, <3>2
  <2>16. Total(A) = Total(u)
    BY <2>8, <2>10, <2>11, <2>13, <2>14, <2>15 DEF Total
  <2> QED
    BY <2>4, <2>16 DEF u
<1> QED
  BY <1>1, RowsAreNumbered, PTL
=============================================================================
