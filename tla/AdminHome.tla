------------------------------ MODULE AdminHome -----------------------------
(***************************************************************************)
(* A page of HoozinAdminHome.js: its topper zones and its square zone      *)
(* share the thread of the page, so that nothing of the square zone runs   *)
(* while a topper's script or loop does.                                   *)
(***************************************************************************)
EXTENDS TopperZone, SquarePager

vars == <<topper, square>>

Init == TopperInit /\ SquareInit

Next ==
  \/ TopperNext /\ UNCHANGED square
  \/ at = "idle" /\ SquareNext /\ UNCHANGED topper

\* A handler that runs is not interrupted.
Spec == Init /\ [][Next]_vars /\ WF_vars((GoNext \/ GoPrevious) /\ UNCHANGED square)
=============================================================================
