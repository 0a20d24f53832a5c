--------------------------- MODULE MCRegistration ---------------------------
(***************************************************************************)
(* Small instances of RaceDay.  The form of ana may also post the          *)
(* e-mail that checkEleve fills in, with her password (f1).                *)
(***************************************************************************)
EXTENDS RaceDay

CONSTANTS ana, bob, n1, n2, l1, l2, f1

MCPeople == {ana, bob}
Own1      == [p \in MCPeople |-> IF p = ana THEN n1 ELSE n2]
OwnLogins == [p \in MCPeople |-> IF p = ana THEN {l1, f1} ELSE {l2}]
SameNumber == [p \in MCPeople |-> n1]
=============================================================================
