-------------------------- MODULE RegistrationForm --------------------------
(***************************************************************************)
(* The form of inscription.php in one browser, with the handlers of        *)
(* custom.js: validateMdp2 on the keyup of both password fields, computeAge*)
(* on the change of the date of birth, checkEleve when the student number  *)
(* is left.  A value also changes with no keyup: by the mouse, or filled   *)
(* in by the browser.                                                      *)
(*                                                                         *)
(* Of the four fields that checkEleve fills the e-mail is kept.  A date    *)
(* has months of MonthDays days.                                           *)
(***************************************************************************)
EXTENDS Integers

CONSTANTS
  Passwords,         (* what the pattern of mdp1 accepts                   *)
  Empty,             (* a field or a date with no value                    *)
  MonthDays,         (* days of a month                                    *)
  Births, Starts,    (* dates of birth typed; dates the form is opened on  *)
  MaxMidnights       (* bound on the days the form is open                 *)

Date == [y : Nat, m : 1 .. 12, d : 1 .. MonthDays]

ASSUME PasswordsAssumption == Empty \notin Passwords
ASSUME DatesAssumption ==
  /\ MonthDays \in Nat \ {0}
  /\ Births \subseteq Date /\ Starts \subseteq Date /\ Empty \notin Date
  /\ Empty \notin Int
ASSUME MidnightsAssumption == MaxMidnights \in Nat

VARIABLES
  mdp1, mdp2,   (* the two password fields                                 *)
  error,        (* mdp2 has a custom validity message                      *)
  number,       (* numEtudiant is not empty                                *)
  focus,        (* numEtudiant has the focus                               *)
  email,        (* "empty", "own", or "filled" by checkEleve               *)
  birthdate, age,
  today, midnights,
  posted,       (* the last form posted, or Empty                          *)
  unchecked     (* history: a password changed since the last keyup        *)

passwords == <<mdp1, mdp2, error, unchecked>>
identity  == <<number, focus, email>>
ages      == <<birthdate, age>>
calendar  == <<today, midnights>>
vars == <<passwords, identity, ages, calendar, posted>>

-----------------------------------------------------------------------------
\* A password field gets another value; the key, if there was one, is not
\* released yet.  With Empty, the field is cleared.
ChangeMdp ==
  /\ \/ mdp1' \in Passwords \cup {Empty} /\ UNCHANGED mdp2
     \/ mdp2' \in Passwords \cup {Empty} /\ UNCHANGED mdp1
  /\ unchecked' = TRUE
  /\ UNCHANGED <<error, identity, ages, calendar, posted>>

validateMdp2 == error' = (mdp1 # mdp2)

\* Mutant: only mdp2 has the handler.
OneFieldKeyUp ==
  /\ \/ validateMdp2
     \/ UNCHANGED error
  /\ unchecked' = FALSE
  /\ UNCHANGED <<mdp1, mdp2, identity, ages, calendar, posted>>

\* A key is released in one of the two fields.
KeyUp ==
  /\ validateMdp2
  /\ unchecked' = FALSE
  /\ UNCHANGED <<mdp1, mdp2, identity, ages, calendar, posted>>

-----------------------------------------------------------------------------
\* checkEleve looks at no directory: it fills in the same values for anyone.
checkEleve == email' = "filled"

TypeNumber ==
  /\ focus
  /\ number' = TRUE
  /\ UNCHANGED <<focus, email, passwords, ages, calendar, posted>>

Enter ==
  /\ ~focus
  /\ focus' = TRUE
  /\ UNCHANGED <<number, email, passwords, ages, calendar, posted>>

\* onblur of numEtudiant.
Leave ==
  /\ focus
  /\ focus' = FALSE
  /\ checkEleve
  /\ UNCHANGED <<number, passwords, ages, calendar, posted>>

TypeEmail ==
  /\ ~focus
  /\ email' \in {"empty", "own"}
  /\ UNCHANGED <<number, focus, passwords, ages, calendar, posted>>

-----------------------------------------------------------------------------
\* The age of one born on b, on the day t.
Age(b, t) ==
  t.y - b.y - (IF b.m > t.m \/ (b.m = t.m /\ b.d > t.d) THEN 1 ELSE 0)

\* Mutant: a month behind the other way, getMonth taken as one too many.
LateComputeAge(b, t) ==
  IF b = Empty THEN t.y
  ELSE IF b.m > t.m + 1 THEN t.y - b.y - 1 ELSE t.y - b.y

\* getMonth counts from 0, birthdate.substr(5, 2) from 1; the days are not
\* compared.  An empty date counts as year 0 and month 0.
computeAge(b, t) ==
  IF b = Empty THEN t.y
  ELSE IF b.m > t.m - 1 THEN t.y - b.y - 1 ELSE t.y - b.y

\* onchange of birthdate.
ChangeBirthdate ==
  /\ birthdate' \in (Births \cup {Empty}) \ {birthdate}
  /\ age' = computeAge(birthdate', today)
  /\ UNCHANGED <<passwords, identity, calendar, posted>>

Tomorrow(t) ==
  IF t.d < MonthDays THEN [t EXCEPT !.d = @ + 1]
  ELSE IF t.m < 12 THEN [t EXCEPT !.m = @ + 1, !.d = 1]
  ELSE [y |-> t.y + 1, m |-> 1, d |-> 1]

\* A day passes with the form open: nothing computes the age again.
Midnight ==
  /\ midnights < MaxMidnights
  /\ midnights' = midnights + 1
  /\ today' = Tomorrow(today)
  /\ UNCHANGED <<passwords, identity, ages, posted>>

-----------------------------------------------------------------------------
\* The browser posts the form if the required fields have values and mdp2
\* has no message.  A click leaves the number field first, Enter does not.
\* traitement.php reads mdp1 alone.
Post(mail) ==
  /\ number /\ mdp1 # Empty /\ mdp2 # Empty /\ ~error
  /\ posted' = [email |-> mail, mdp1 |-> mdp1, mdp2 |-> mdp2, unchecked |-> unchecked]
  /\ UNCHANGED <<passwords, number, ages, calendar>>

PressEnter == Post(email) /\ UNCHANGED <<focus, email>>

ClickSubmit ==
  /\ IF focus THEN checkEleve ELSE UNCHANGED email
  /\ focus' = FALSE
  /\ Post(email')

\* The page is opened again; the browser may restore the values, but not
\* the message.
Reload ==
  /\ error' = FALSE
  /\ focus' = TRUE
  /\ \/ /\ unchecked' = TRUE
        /\ UNCHANGED <<mdp1, mdp2, number, email, ages>>
     \/ /\ unchecked' = FALSE
        /\ mdp1' = Empty /\ mdp2' = Empty
        /\ number' = FALSE /\ email' = "empty"
        /\ birthdate' = Empty /\ age' = Empty
  /\ UNCHANGED <<calendar, posted>>

Init ==
  /\ mdp1 = Empty /\ mdp2 = Empty /\ error = FALSE /\ unchecked = FALSE
  /\ number = FALSE /\ focus = TRUE /\ email = "empty"
  /\ birthdate = Empty /\ age = Empty
  /\ today \in Starts /\ midnights = 0
  /\ posted = Empty

Next ==
  \/ ChangeMdp
  \/ KeyUp
  \/ TypeNumber
  \/ Enter
  \/ Leave
  \/ TypeEmail
  \/ ChangeBirthdate
  \/ Midnight
  \/ PressEnter
  \/ ClickSubmit
  \/ Reload

Spec == Init /\ [][Next]_vars

-----------------------------------------------------------------------------
Posted ==
  [email : {"empty", "own", "filled"}, mdp1 : Passwords, mdp2 : Passwords,
   unchecked : BOOLEAN]

TypeOK ==
  /\ mdp1 \in Passwords \cup {Empty} /\ mdp2 \in Passwords \cup {Empty}
  /\ error \in BOOLEAN /\ unchecked \in BOOLEAN
  /\ number \in BOOLEAN /\ focus \in BOOLEAN
  /\ email \in {"empty", "own", "filled"}
  /\ birthdate \in Births \cup {Empty} /\ age \in Int \cup {Empty}
  /\ today \in Date /\ midnights \in Nat
  /\ posted \in Posted \cup {Empty}

(***************************************************************************)
(* custom.js:8, "mdp2 devient invalide": two passwords that differ are     *)
(* posted only if one of them changed with no keyup since, by the mouse or *)
(* by the browser, so that no handler ran.                                 *)
(***************************************************************************)
PasswordsAgree ==
  posted # Empty /\ posted.mdp1 # posted.mdp2 => posted.unchecked

(***************************************************************************)
(* custom.js:21, "l'age du joueur": the age shown is never above that of   *)
(* the runner and at most one below, also when up to eleven months pass    *)
(* after it was computed: where it is one short, the birthday is not a     *)
(* month over and the next one far.                                        *)
(***************************************************************************)
AgeWithinOne ==
  birthdate # Empty /\ midnights <= 11 * MonthDays =>
    age \in {Age(birthdate, today) - 1, Age(birthdate, today)}

\* Why the passwords agree: what the last keyup left in the message.
MessageIsTrue == ~unchecked => (error <=> mdp1 # mdp2)

\* The half of AgeWithinOne that needs no bound on the days that pass.
AgeNotOver ==
  birthdate # Empty => age \in Int /\ age <= Age(birthdate, today)

\* The number of a date among all days.
Ord(t) == MonthDays * (12 * t.y + t.m) + t.d

\* Why the age is not two years low: it was computed at most as many days ago
\* as have passed, and not after the month in which a runner of that age has
\* the next birthday.
AgeIsRecent ==
  birthdate # Empty =>
    Ord(today) <= MonthDays * (12 * (birthdate.y + age + 1) + birthdate.m + 1) + midnights

FormInv == TypeOK /\ MessageIsTrue /\ PasswordsAgree /\ AgeNotOver /\ AgeIsRecent
=============================================================================
