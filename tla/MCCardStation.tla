--------------------------- MODULE MCCardStation ----------------------------
(***************************************************************************)
(* Small instances of CardStation.                                         *)
(***************************************************************************)
EXTENDS CardStation, TLC

\* latin1_swedish_ci, on the letters: case is ignored.
MCWeight == [b \in Byte |-> IF b \in 97 .. 122 THEN b - 32 ELSE b]

\* One serial number is a prefix of another.
PlainPair == {<<4, 7>>, <<4, 7, 65>>}
\* Alike though different: in a letter's case, and after a zero byte.
AlikePair == {<<65, 0, 1>>, <<97, 0, 2>>}
\* And one that is a prefix of both, though not alike.
AlikeOrNot == AlikePair \cup {<<65>>}

Symmetry == Permutations(Participants) \cup Permutations(Stations)
=============================================================================
