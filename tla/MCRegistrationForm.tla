------------------------- MODULE MCRegistrationForm -------------------------
(***************************************************************************)
(* RegistrationForm with two passwords and months of two days.  The days   *)
(* run from December to November, the dates of birth are of the months     *)
(* from December to February.                                              *)
(***************************************************************************)
EXTENDS RegistrationForm

MCBirths == [y : {1}, m : {1, 2, 12}, d : {1, 2}]
MCStarts == {[y |-> 19, m |-> 12, d |-> 1]}
=============================================================================
