------------------------------- MODULE CardId -------------------------------
(***************************************************************************)
(* The card ids of table carte.                                            *)
(*                                                                         *)
(* CARTE_IDCARTE is the text that Card/clientWebS.cpp pastes in its INSERT *)
(* statements: the bytes of the response APDU (the serial number, then the *)
(* status word 90 00) up to the first zero byte.  MySQL compares such text *)
(* by the collation weights of its bytes (latin1 ignores case), so a card  *)
(* id is represented here by its sequence of weights.  That it also        *)
(* ignores trailing blanks is left out.                                    *)
(***************************************************************************)
EXTENDS Naturals, Sequences

CONSTANTS
  Uids,           (* serial numbers of the cards                           *)
  NoUid,          (* what the buffer holds when it holds no serial number  *)
  Weight          (* collation weight of a byte, external to the program   *)

Byte  == 0 .. 255
Quote == {39, 92}   \* ' and \ mean something inside a quoted SQL literal

ASSUME UidsAssumption   == Uids \subseteq Seq(Byte \ Quote)
ASSUME NoUidAssumption  == NoUid \notin Seq(Byte) /\ NoUid \notin Seq(Nat)
ASSUME WeightAssumption == Weight \in [Byte -> Nat]

-----------------------------------------------------------------------------
SW1 == 144   \* 0x90; SW2 is 0x00 and ends the C string

\* The bytes a char* shows: those before the first zero byte.
CString(bytes) ==
  LET shown == {n \in 0 .. Len(bytes) : \A i \in 1 .. n : bytes[i] # 0}
  IN  SubSeq(bytes, 1, CHOOSE n \in shown : \A m \in shown : m <= n)

\* The card id that the statements built from a buffer name.
CardKey ==
  [b \in Uids \cup {NoUid} |->
     IF b = NoUid THEN NoUid
     ELSE LET text == CString(Append(b, SW1))
          IN  [i \in 1 .. Len(text) |-> Weight[text[i]]]]

Keys == {CardKey[b] : b \in Uids \cup {NoUid}}

\* What main receives of a card.
Apdu(b) == b \o <<SW1, 0>>

\* Two serial numbers that nothing tells apart: up to a zero byte that both
\* have, the bytes are equal for the collation.
Alike(u, v) ==
  \E n \in 0 .. Len(u) + 1 :
    /\ n <= Len(v) + 1
    /\ Apdu(u)[n + 1] = 0 /\ Apdu(v)[n + 1] = 0
    /\ \A i \in 1 .. n :
         /\ Apdu(u)[i] # 0 /\ Apdu(v)[i] # 0
         /\ Weight[Apdu(u)[i]] = Weight[Apdu(v)[i]]
=============================================================================
