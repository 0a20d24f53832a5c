---------------------- MODULE RegistrationForm_proofs -----------------------
(***************************************************************************)
(* Theorems about the registration form, for any passwords, dates and      *)
(* number of days that the form stays open.                                *)
(***************************************************************************)
EXTENDS RegistrationForm, TLAPS

(***************************************************************************)
(* computeAge is the age on the day, but one less in the month of the      *)
(* birthday once the birthday is over (custom.js:32).                      *)
(***************************************************************************)
THEOREM AgeIsLow ==
  ASSUME NEW b \in Date, NEW t \in Date
  PROVE  computeAge(b, t) =
           Age(b, t) - (IF b.m = t.m /\ b.d <= t.d THEN 1 ELSE 0)
<1>1. b # Empty
  BY DatesAssumption
<1>2. b.y \in Nat /\ t.y \in Nat /\ b.m \in Nat /\ t.m \in Nat
      /\ b.d \in Nat /\ t.d \in Nat
  BY DatesAssumption DEF Date
<1> QED
  BY <1>1, <1>2 DEF computeAge, Age

\* Another day is a date, and nobody is younger on it.
LEMMA TomorrowGrows ==
  ASSUME NEW t \in Date
  PROVE  /\ Tomorrow(t) \in Date
         /\ \A b \in Date : Age(b, t) <= Age(b, Tomorrow(t))
<1>1. t.y \in Nat /\ t.m \in 1 .. 12 /\ t.d \in 1 .. MonthDays
  BY DEF Date
<1>2. MonthDays \in Nat \ {0}
  BY DatesAssumption
<1>3. CASE t.d < MonthDays
  <2>1. Tomorrow(t) = [t EXCEPT !.d = @ + 1]
    BY <1>3 DEF Tomorrow
  <2>2. Tomorrow(t) = [y |-> t.y, m |-> t.m, d |-> t.d + 1]
    BY <2>1 DEF Date
  <2> QED
    BY <1>1, <1>2, <1>3, <2>2 DEF Date, Age
<1>4. CASE ~ (t.d < MonthDays) /\ t.m < 12
  <2>1. Tomorrow(t) = [t EXCEPT !.m = @ + 1, !.d = 1]
    BY <1>4 DEF Tomorrow
  <2>2. Tomorrow(t) = [y |-> t.y, m |-> t.m + 1, d |-> 1]
    BY <2>1 DEF Date
  <2> QED
    BY <1>1, <1>2, <1>4, <2>2 DEF Date, Age
<1>5. CASE ~ (t.d < MonthDays) /\ ~ (t.m < 12)
  <2>1. Tomorrow(t) = [y |-> t.y + 1, m |-> 1, d |-> 1]
    BY <1>5 DEF Tomorrow
  <2> QED
    BY <1>1, <1>2, <1>5, <2>1 DEF Date, Age
<1> QED
  BY <1>3, <1>4, <1>5

\* What computeAge gives is a number, not above the age.
LEMMA ComputedAge ==
  ASSUME NEW b \in Births \cup {Empty}, NEW t \in Date
  PROVE  /\ computeAge(b, t) \in Int
         /\ b # Empty => computeAge(b, t) <= Age(b, t)
<1>1. CASE b = Empty
  BY <1>1 DEF computeAge, Date
<1>2. CASE b # Empty
  <2>1. b \in Date
    BY <1>2, DatesAssumption
  <2>2. b.y \in Nat /\ t.y \in Nat
    BY <2>1 DEF Date
  <2> QED
    BY <2>1, <2>2, AgeIsLow DEF Age
<1> QED
  BY <1>1, <1>2

\* The next day is the next number.
LEMMA TomorrowIsNext ==
  ASSUME NEW t \in Date
  PROVE  Ord(t) \in Int /\ Ord(Tomorrow(t)) = Ord(t) + 1
<1>1. t.y \in Nat /\ t.m \in 1 .. 12 /\ t.d \in 1 .. MonthDays
      /\ t = [y |-> t.y, m |-> t.m, d |-> t.d]
  BY DEF Date
<1>2. MonthDays \in Nat
  BY DatesAssumption
<1>3. \A q \in Int : MonthDays * q \in Int /\ MonthDays * (q + 1) = MonthDays * q + MonthDays
  BY <1>2
<1> DEFINE q == 12 * t.y + t.m
<1>4. q \in Int /\ Ord(t) = MonthDays * q + t.d
  BY <1>1 DEF Ord
<1>5. CASE t.d < MonthDays
  <2>1. Tomorrow(t) = [y |-> t.y, m |-> t.m, d |-> t.d + 1]
    BY <1>1, <1>5 DEF Tomorrow
  <2>2. Ord(Tomorrow(t)) = MonthDays * q + (t.d + 1)
    BY <2>1 DEF Ord
  <2> QED BY <1>1, <1>2, <1>3, <1>4, <2>2
<1>6. CASE ~ (t.d < MonthDays)
  <2>1. t.d = MonthDays
    BY <1>1, <1>2, <1>6
  <2>2. /\ Tomorrow(t).d = 1
        /\ 12 * Tomorrow(t).y + Tomorrow(t).m = q + 1
    <3>1. CASE t.m < 12
      <4>1. Tomorrow(t) = [y |-> t.y, m |-> t.m + 1, d |-> 1]
        BY <1>1, <1>6, <3>1 DEF Tomorrow
      <4> QED BY <1>1, <4>1
    <3>2. CASE ~ (t.m < 12)
      <4>1. Tomorrow(t) = [y |-> t.y + 1, m |-> 1, d |-> 1] /\ t.m = 12
        BY <1>1, <1>6, <3>2 DEF Tomorrow
      <4> QED BY <1>1, <4>1
    <3> QED BY <3>1, <3>2
  <2>3. Ord(Tomorrow(t)) = MonthDays * (q + 1) + 1
    BY <2>2 DEF Ord
  <2> HIDE DEF q
  <2> QED BY <1>2, <1>3, <1>4, <2>1, <2>3
<1> QED BY <1>5, <1>6

\* The number of a date is at most that of the last day of a month not before.
LEMMA OrdBound ==
  ASSUME NEW t \in Date, NEW q \in Int
  PROVE  /\ 12 * t.y + t.m <= q => Ord(t) <= MonthDays * (q + 1)
         /\ Ord(t) <= MonthDays * q => 12 * t.y + t.m < q
<1>1. t.y \in Nat /\ t.m \in Nat /\ t.d \in Nat /\ t.d >= 1 /\ t.d <= MonthDays
  BY DatesAssumption DEF Date
<1>2. MonthDays \in Nat /\ MonthDays > 0
  BY DatesAssumption
<1> DEFINE p == 12 * t.y + t.m
<1>3. p \in Int /\ Ord(t) = MonthDays * p + t.d
  BY <1>1 DEF Ord
<1> HIDE DEF p
<1>4. \A x, y \in Int : x <= y => MonthDays * x \in Int /\ MonthDays * y \in Int
                                 /\ MonthDays * x <= MonthDays * y
  BY <1>2
<1>5. MonthDays * (q + 1) = MonthDays * q + MonthDays /\ MonthDays * q \in Int
  BY <1>2
<1>6. p <= q => Ord(t) <= MonthDays * (q + 1)
  BY <1>1, <1>2, <1>3, <1>4, <1>5
<1>7. Ord(t) <= MonthDays * q => p < q
  BY <1>1, <1>2, <1>3, <1>4
<1> QED BY <1>6, <1>7 DEF p

\* An age is computed before the end of the month of the next birthday of it.
LEMMA ComputedBefore ==
  ASSUME NEW b \in Date, NEW t \in Date
  PROVE  Ord(t) <= MonthDays * (12 * (b.y + computeAge(b, t) + 1) + b.m + 1)
<1> DEFINE q == 12 * (b.y + computeAge(b, t) + 1) + b.m
<1>1. b.y \in Nat /\ t.y \in Nat /\ b.m \in 1 .. 12 /\ t.m \in 1 .. 12 /\ b # Empty
  BY DatesAssumption DEF Date
<1>2. q \in Int /\ 12 * t.y + t.m <= q
  BY <1>1 DEF computeAge
<1> HIDE DEF q
<1>3. Ord(t) <= MonthDays * (q + 1)
  BY <1>2, OrdBound
<1> QED BY <1>3 DEF q

\* The initial states satisfy the invariant.
LEMMA FormInit == Init => FormInv
<1> SUFFICES ASSUME Init PROVE FormInv
  OBVIOUS
<1>1. TypeOK
  BY DatesAssumption DEF Init, TypeOK
<1> QED
  BY <1>1 DEF Init, FormInv, MessageIsTrue, PasswordsAgree, AgeNotOver, AgeIsRecent

\* Posting a form preserves what is said of posted forms.
LEMMA PostInv ==
  ASSUME FormInv, NEW mail \in {"empty", "own", "filled"}, Post(mail)
  PROVE  posted' \in Posted \cup {Empty} /\ PasswordsAgree'
<1>1. mdp1 \in Passwords /\ mdp2 \in Passwords /\ unchecked \in BOOLEAN
  BY DEF Post, FormInv, TypeOK
<1>2. posted' \in Posted
  BY <1>1 DEF Post, Posted
<1>3. mdp1 # mdp2 => unchecked
  BY DEF Post, FormInv, MessageIsTrue
<1> QED
  BY <1>2, <1>3 DEF PasswordsAgree, Post

\* Every step preserves the invariant.
LEMMA FormNext == FormInv /\ [Next]_vars => FormInv'
<1> SUFFICES ASSUME FormInv, [Next]_vars PROVE FormInv'
  OBVIOUS
<1>a. UNCHANGED <<ages, calendar>> => AgeIsRecent'
  BY Zenon DEF FormInv, ages, calendar, AgeIsRecent, Ord
<1> USE DEF FormInv, TypeOK, MessageIsTrue, PasswordsAgree, AgeNotOver,
            passwords, identity, ages, calendar
<1>1. CASE UNCHANGED vars
  BY <1>a, <1>1 DEF vars
<1>2. CASE ChangeMdp
  BY <1>a, <1>2 DEF ChangeMdp
<1>3. CASE KeyUp
  BY <1>a, <1>3 DEF KeyUp, validateMdp2
<1>4. CASE TypeNumber
  BY <1>a, <1>4 DEF TypeNumber
<1>5. CASE Enter
  BY <1>a, <1>5 DEF Enter
<1>6. CASE Leave
  BY <1>a, <1>6 DEF Leave, checkEleve
<1>7. CASE TypeEmail
  BY <1>a, <1>7 DEF TypeEmail
<1>8. CASE ChangeBirthdate
  <2>1. birthdate' \in Births \cup {Empty} /\ today' = today
    BY <1>8 DEF ChangeBirthdate
  <2>2. age' = computeAge(birthdate', today)
    BY <1>8 DEF ChangeBirthdate
  <2>3. age' \in Int /\ (birthdate' # Empty => age' <= Age(birthdate', today))
    BY <2>1, <2>2, ComputedAge
  <2>4. AgeIsRecent'
    <3> SUFFICES ASSUME birthdate' # Empty PROVE AgeIsRecent'
      BY Zenon DEF AgeIsRecent
    <3>1. birthdate' \in Date /\ midnights' = midnights
      BY <1>8, <2>1, DatesAssumption DEF ChangeBirthdate
    <3> DEFINE q == 12 * (birthdate'.y + age' + 1) + birthdate'.m
    <3>2. Ord(today') <= MonthDays * (q + 1)
      BY <2>1, <2>2, <3>1, ComputedBefore
    <3>3. birthdate'.y \in Nat /\ birthdate'.m \in Nat
      BY <3>1 DEF Date
    <3>4. q \in Int /\ MonthDays \in Int
      BY <2>3, <3>3, DatesAssumption
    <3>5. Ord(today') \in Int
      BY <2>1, TomorrowIsNext
    <3> HIDE DEF q
    <3>6. MonthDays * (q + 1) \in Int
      BY <3>4
    <3>7. Ord(today') <= MonthDays * (q + 1) + midnights'
      BY <3>1, <3>2, <3>5, <3>6
    <3> QED BY <3>7 DEF q, AgeIsRecent
  <2> QED
    BY <1>8, <2>1, <2>3, <2>4 DEF ChangeBirthdate, Age
<1>9. CASE Midnight
  <2>1. today' = Tomorrow(today) /\ today' \in Date
        /\ UNCHANGED <<passwords, identity, ages, posted>>
        /\ midnights' \in Nat
    BY <1>9, TomorrowGrows DEF Midnight
  <2>2. birthdate # Empty => age \in Int /\ age <= Age(birthdate, today')
    <3> SUFFICES ASSUME birthdate # Empty
                 PROVE  age \in Int /\ age <= Age(birthdate, today')
      OBVIOUS
    <3>1. birthdate \in Date
      BY DatesAssumption
    <3>2. Age(birthdate, today) <= Age(birthdate, today')
      BY <2>1, <3>1, TomorrowGrows
    <3>3. Age(birthdate, today) \in Int /\ Age(birthdate, today') \in Int
      BY <2>1, <3>1 DEF Age, Date
    <3> QED
      BY <3>2, <3>3
  <2>3. birthdate # Empty =>
          Ord(today') <= MonthDays * (12 * (birthdate.y + age + 1) + birthdate.m + 1) + midnights'
    <3> SUFFICES ASSUME birthdate # Empty
                 PROVE  Ord(today') <= MonthDays * (12 * (birthdate.y + age + 1) + birthdate.m + 1)
                                         + midnights'
      OBVIOUS
    <3> DEFINE last == MonthDays * (12 * (birthdate.y + age + 1) + birthdate.m + 1)
    <3>1. last \in Int
      <4>1. birthdate.y \in Int /\ birthdate.m \in Int /\ age \in Int /\ MonthDays \in Int
        BY DatesAssumption DEF Date
      <4> QED BY <4>1
    <3>2. Ord(today) <= last + midnights
      BY DEF AgeIsRecent
    <3> HIDE DEF last
    <3>3. Ord(today) \in Int /\ Ord(today') = Ord(today) + 1 /\ midnights' = midnights + 1
      BY <1>9, <2>1, TomorrowIsNext DEF Midnight
    <3>4. Ord(today') <= last + midnights'
      BY <3>1, <3>2, <3>3
    <3> QED BY <3>4 DEF last
  <2>4. AgeIsRecent'
    BY <2>1, <2>3 DEF AgeIsRecent, Ord
  <2> QED
    BY <2>1, <2>2, <2>3, <2>4 DEF Age
<1>10. CASE PressEnter
  <2>1. posted' \in Posted \cup {Empty} /\ PasswordsAgree'
    BY <1>10, PostInv DEF PressEnter
  <2> QED
    BY <1>a, <1>10, <2>1 DEF PressEnter, Post
<1>11. CASE ClickSubmit
  <2>1. email' \in {"empty", "own", "filled"} /\ focus' \in BOOLEAN
    BY <1>11 DEF ClickSubmit, checkEleve
  <2>2. posted' \in Posted \cup {Empty} /\ PasswordsAgree'
    BY <1>11, <2>1, PostInv DEF ClickSubmit
  <2> QED
    BY <1>a, <1>11, <2>1, <2>2 DEF ClickSubmit, Post
<1>12. CASE Reload
  <2>1. AgeIsRecent'
    BY <1>a, <1>12 DEF Reload, AgeIsRecent
  <2> QED
    BY <1>12, <2>1 DEF Reload
<1> QED
  BY <1>1, <1>2, <1>3, <1>4, <1>5, <1>6, <1>7, <1>8, <1>9, <1>10, <1>11, <1>12
     DEF Next

(***************************************************************************)
(* The invariant holds in every state.                                     *)
(***************************************************************************)
THEOREM FormInvariant == Spec => []FormInv
<1>1. Init => FormInv
  BY FormInit
<1>2. FormInv /\ [Next]_vars => FormInv'
  BY FormNext
<1> QED
  BY <1>1, <1>2, PTL DEF Spec

(***************************************************************************)
(* Two passwords that differ are posted only after a change without a      *)
(* keyup.                                                                  *)
(***************************************************************************)
THEOREM DifferentOnlyUnchecked == Spec => []PasswordsAgree
<1>1. FormInv => PasswordsAgree
  BY DEF FormInv
<1> QED
  BY <1>1, FormInvariant, PTL

(***************************************************************************)
(* However long the form stays open, the age it shows is not above that of *)
(* the runner.                                                             *)
(***************************************************************************)
THEOREM AgeIsNeverOver == Spec => []AgeNotOver
<1>1. FormInv => AgeNotOver
  BY DEF FormInv
<1> QED
  BY <1>1, FormInvariant, PTL

(***************************************************************************)
(* For eleven months, of any length, the age is at most one too low.       *)
(***************************************************************************)
THEOREM AgeIsAtMostOneLow == Spec => []AgeWithinOne
<1>1. FormInv => AgeWithinOne
  <2> SUFFICES ASSUME FormInv, birthdate # Empty, midnights <= 11 * MonthDays
               PROVE  age \in {Age(birthdate, today) - 1, Age(birthdate, today)}
    BY DEF AgeWithinOne
  <2>1. /\ birthdate \in Date /\ today \in Date /\ midnights \in Nat
        /\ age \in Int /\ age <= Age(birthdate, today)
    BY DatesAssumption DEF FormInv, TypeOK, AgeNotOver
  <2>2. /\ birthdate.y \in Nat /\ birthdate.m \in 1 .. 12 /\ birthdate.d \in Nat
        /\ today.y \in Nat /\ today.m \in 1 .. 12 /\ today.d \in Nat
    BY <2>1, DatesAssumption DEF Date
  <2> DEFINE q == 12 * (birthdate.y + age + 1) + birthdate.m
  <2>3. q \in Int
    BY <2>1, <2>2
  <2>4. Ord(today) <= MonthDays * (q + 1) + midnights
    BY DEF FormInv, AgeIsRecent
  <2> HIDE DEF q
  <2>5. Ord(today) <= MonthDays * (q + 12)
    <3>1. MonthDays \in Int /\ MonthDays * q \in Int
      BY <2>3, DatesAssumption
    <3>2. /\ MonthDays * (q + 1) = MonthDays * q + MonthDays
          /\ MonthDays * (q + 12) = MonthDays * q + 12 * MonthDays
      BY <2>3, <3>1
    <3>3. Ord(today) \in Int
      BY <2>1, TomorrowIsNext
    <3> QED BY <2>1, <2>4, <3>1, <3>2, <3>3
  <2>6. 12 * today.y + today.m < q + 12
    BY <2>1, <2>3, <2>5, OrdBound
  <2>7. Age(birthdate, today) <= age + 1
    BY <2>1, <2>2, <2>6 DEF Age, q
  <2> QED BY <2>1, <2>2, <2>7 DEF Age
<1> QED
  BY <1>1, FormInvariant, PTL
=============================================================================
