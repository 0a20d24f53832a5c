---------------------------- MODULE Registration ----------------------------
(***************************************************************************)
(* The registration site: inscription.php posts a form to traitement.php,  *)
(* which stores two files, inserts a row of participant and opens a        *)
(* session on the row it reads back; connexion.php opens a session by      *)
(* e-mail and password; profil.php shows what the session holds.           *)
(*                                                                         *)
(* Each person has one browser.  The requests of several persons           *)
(* interleave between the statements of traitement.php, which share the    *)
(* upload directories and the table.  The e-mail and the password of a     *)
(* form, one value here, are those that RegistrationForm posts: the        *)
(* person's own, no e-mail, or the one that checkEleve fills in.           *)
(***************************************************************************)
EXTENDS Naturals, Sequences

CONSTANTS
  People,
  Numbers, NumberOf,     (* the student number that each person types      *)
  Logins, LoginsOf,      (* e-mail and password that a person's form posts *)
  Exts,                  (* jpg, jpeg, png, gif                            *)
  None,                  (* no valid file; no session; null                *)
  MaxRows                (* bound on the rows of participant               *)

ASSUME NumberAssumption == NumberOf \in [People -> Numbers]
ASSUME LoginAssumption == LoginsOf \in [People -> SUBSET Logins]
ASSUME NoneAssumption ==
  None \notin Exts /\ None \notin People /\ None \notin Logins
ASSUME RowsAssumption == MaxRows \in Nat

VARIABLES
  pc,           (* pc[p]: where the request of p is, or "idle"             *)
  photo,        (* photo[p]: extension of the valid photo of the form      *)
  certif,       (* certif[p]: extension of its valid certificate           *)
  login,        (* login[p]: the e-mail and password of the form           *)
  files,        (* files[k][n][e]: whose file is in img/k/n.e, or None     *)
  participant,  (* the rows of the table                                   *)
  session       (* session[p]: the row that the session of p holds         *)

form == <<photo, certif, login>>
vars == <<pc, form, files, participant, session>>

Kinds == {"avatar", "certif"}

\* What the model keeps of a row; by, the person who sent it, is a history.
Row == [by : People, number : Numbers, login : Logins,
        photo : Exts \cup {None}, certif : Exts \cup {None}]

Goto(p, label) == pc' = [pc EXCEPT ![p] = label]

\* The request is over, and its form with it.
Done(p) ==
  /\ Goto(p, "idle")
  /\ photo' = [photo EXCEPT ![p] = None]
  /\ certif' = [certif EXCEPT ![p] = None]
  /\ login' = [login EXCEPT ![p] = None]

-----------------------------------------------------------------------------
(***************************************************************************)
(* traitement.php.                                                         *)
(***************************************************************************)

\* The form; a file with another extension, too large or in error is no
\* valid file.
Submit(p) ==
  /\ pc[p] = "idle"
  /\ \E e \in Exts \cup {None} : photo' = [photo EXCEPT ![p] = e]
  /\ \E e \in Exts \cup {None} : certif' = [certif EXCEPT ![p] = e]
  /\ \E l \in LoginsOf[p] : login' = [login EXCEPT ![p] = l]
  /\ Goto(p, "avatar")
  /\ UNCHANGED <<files, participant, session>>

\* Mutant: the file is named by its kind alone.
FixedNameMove(p, kind, ext) ==
  \/ ext = None /\ UNCHANGED files
  \/ /\ ext # None
     /\ files' = [files EXCEPT ![kind] =
                    [n \in Numbers |-> [@[n] EXCEPT ![ext] = p]]]
  \/ UNCHANGED files

\* move_uploaded_file to img/kind/numEtudiant.ext replaces what is there;
\* its result is ignored.
Move(p, kind, ext) ==
  \/ ext = None /\ UNCHANGED files
  \/ ext # None /\ files' = [files EXCEPT ![kind][NumberOf[p]][ext] = p]
  \/ UNCHANGED files

UploadAvatar(p) ==
  /\ pc[p] = "avatar"
  /\ Move(p, "avatar", photo[p])
  /\ Goto(p, "certif")
  /\ UNCHANGED <<form, participant, session>>

UploadCertif(p) ==
  /\ pc[p] = "certif"
  /\ Move(p, "certif", certif[p])
  /\ Goto(p, "insert")
  /\ UNCHANGED <<form, participant, session>>

\* Mutant: two of the bindValue calls swapped.
SwappedRow(p) == [by |-> p, number |-> login[p], login |-> NumberOf[p],
                  photo |-> photo[p], certif |-> certif[p]]

NewRow(p) == [by |-> p, number |-> NumberOf[p], login |-> login[p],
              photo |-> photo[p], certif |-> certif[p]]

\* No key but PART_ID: a number or an e-mail may come again.
Insert(p) ==
  /\ pc[p] = "insert"
  /\ \/ /\ Len(participant) < MaxRows
        /\ participant' = Append(participant, NewRow(p))
        /\ Goto(p, "select")
        /\ UNCHANGED form
     \/ Done(p) /\ UNCHANGED participant    \* PDOException, or false
  /\ UNCHANGED <<files, session>>

Rows == {participant[i] : i \in 1 .. Len(participant)}

\* Mutant: the session is opened on the last row of the table.
LatestRows(number) ==
  IF participant # <<>> THEN {participant[Len(participant)]} ELSE {}

\* The rows that a query without ORDER BY may give first.
RowsNumbered(number) == {r \in Rows : r.number = number}

Select(p) ==
  /\ pc[p] = "select"
  /\ \/ \E r \in RowsNumbered(NumberOf[p]) : session' = [session EXCEPT ![p] = r]
     \/ UNCHANGED session        \* the second query fails
  /\ Done(p)
  /\ UNCHANGED <<files, participant>>

-----------------------------------------------------------------------------
\* connexion.php; it tests $_SESSION before session_start, so a session that
\* is open is replaced.
Connexion(p) ==
  /\ pc[p] = "idle"
  /\ \E r \in {q \in Rows : q.login \in LoginsOf[p]} : session' = [session EXCEPT ![p] = r]
  /\ UNCHANGED <<pc, form, files, participant>>

\* logout.php, or the expiry of the session.
Logout(p) ==
  /\ pc[p] = "idle"
  /\ session[p] # None
  /\ session' = [session EXCEPT ![p] = None]
  /\ UNCHANGED <<pc, form, files, participant>>

-----------------------------------------------------------------------------
Init ==
  /\ pc = [p \in People |-> "idle"]
  /\ photo = [p \in People |-> None]
  /\ certif = [p \in People |-> None]
  /\ login = [p \in People |-> None]
  /\ files = [k \in Kinds |-> [n \in Numbers |-> [e \in Exts |-> None]]]
  /\ participant = <<>>
  /\ session = [p \in People |-> None]

Next ==
  \E p \in People :
    \/ Submit(p)
    \/ UploadAvatar(p)
    \/ UploadCertif(p)
    \/ Insert(p)
    \/ Select(p)
    \/ Connexion(p)
    \/ Logout(p)

Spec == Init /\ [][Next]_vars

-----------------------------------------------------------------------------
TypeOK ==
  /\ pc \in [People -> {"idle", "avatar", "certif", "insert", "select"}]
  /\ photo \in [People -> Exts \cup {None}]
  /\ certif \in [People -> Exts \cup {None}]
  /\ login \in [People -> Logins \cup {None}]
  /\ files \in [Kinds -> [Numbers -> [Exts -> People \cup {None}]]]
  /\ participant \in Seq(Row)
  /\ session \in [People -> Row \cup {None}]

(***************************************************************************)
(* profil.php, "Votre profil": a session holds a row that its own person   *)
(* sent, whichever requests interleave with the INSERT and the SELECT that *)
(* reads the row back.                                                     *)
(***************************************************************************)
ProfileIsOwn ==
  \A p \in People : session[p] # None => session[p].by = p

\* The certificate that profil.php shows for a row.
CertificateOf(r) == files["certif"][r.number][r.certif]

(***************************************************************************)
(* profil.php:45, "Votre certificat medical": a certificate that is stored *)
(* for a row, and named by it, is the one its own person sent.             *)
(***************************************************************************)
CertificateIsOwn ==
  \A i \in 1 .. Len(participant) :
    LET r == participant[i] IN
    r.certif # None => CertificateOf(r) \in {r.by, None}

\* A session holds a row of the table, the one of a number or a login that
\* its person typed.
SessionIsRow ==
  \A p \in People :
    session[p] # None =>
      /\ session[p] \in Rows
      /\ session[p].number = NumberOf[p] \/ session[p].login \in LoginsOf[p]

\* Why they hold when no two persons type the same number or post one login:
\* what is stored under a number or a login came from a person who typed it.
StoredAsTyped ==
  /\ \A i \in 1 .. Len(participant) :
       /\ participant[i].number = NumberOf[participant[i].by]
       /\ participant[i].login \in LoginsOf[participant[i].by]
  /\ \A k \in Kinds, n \in Numbers, e \in Exts :
       files[k][n][e] # None => NumberOf[files[k][n][e]] = n

\* A request carries a login of its person.
RequestIsTyped ==
  \A p \in People : pc[p] # "idle" => login[p] \in LoginsOf[p]

RegistrationInv == TypeOK /\ RequestIsTyped /\ SessionIsRow /\ StoredAsTyped

Distinct ==
  \A p, q \in People :
    NumberOf[p] = NumberOf[q] \/ LoginsOf[p] \cap LoginsOf[q] # {} => p = q
=============================================================================
