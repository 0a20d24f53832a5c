---------------------------- MODULE RaceDatabase ----------------------------
(***************************************************************************)
(* The tables of BDD/rdf.sql that the race writes, their constraints, and  *)
(* the stored function nbTourCoureur.                                      *)
(*                                                                         *)
(*   participant   the set Participants of PART_ID values                  *)
(*   carte         a function from CARTE_IDCARTE to CARTE_IDETUDIANT: the  *)
(*                 primary key makes it a function, the foreign key gives  *)
(*                 it values in Participants                               *)
(*   passage       the PASS_IDCARTE of the rows, in the order of PASS_ID;  *)
(*                 no query reads PASS_IDMACHINE, which is left out        *)
(***************************************************************************)
EXTENDS Naturals, Sequences, FiniteSets

CONSTANT Participants

-----------------------------------------------------------------------------
(***************************************************************************)
(* The statements.  MySQL accepts an INSERT only if the constraints hold.  *)
(***************************************************************************)

IsCarte(carte, ids) ==
  /\ DOMAIN carte \subseteq ids
  /\ carte \in [DOMAIN carte -> Participants]

\* Mutant: REPLACE instead of INSERT.
ReplaceAccepts(carte, key, part) == part \in Participants

CarteAccepts(carte, key, part) ==
  /\ key \notin DOMAIN carte      \* PRIMARY KEY (CARTE_IDCARTE)
  /\ part \in Participants        \* FKCARTE329128

\* The function f, with f[x] = y.
With(f, x, y) == [z \in DOMAIN f \cup {x} |-> IF z = x THEN y ELSE f[z]]

\* Mutant: passage without its foreign key.
UncheckedPassage(carte, key) == TRUE

PassageAccepts(carte, key) == key \in DOMAIN carte   \* FKPASSAGE339701

-----------------------------------------------------------------------------
(***************************************************************************)
(* nbTourCoureur: the passages of all the runner's cards, two to a lap, on *)
(* whatever machines they were recorded.                                   *)
(***************************************************************************)

\* Mutant: one card to a runner, the one of the last passage.
OneCardPassages(carte, passage, part) ==
  {i \in 1 .. Len(passage) :
     passage[i] = passage[Len(passage)] /\ carte[passage[i]] = part}

PassagesOf(carte, passage, part) ==
  {i \in 1 .. Len(passage) : carte[passage[i]] = part}

nbTourCoureur(carte, passage, part) ==
  Cardinality(PassagesOf(carte, passage, part)) \div 2
=============================================================================
