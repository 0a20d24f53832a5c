----------------------------- MODULE RaceLedger -----------------------------
(***************************************************************************)
(* What the stations and the database together promise to the race,       *)
(* whatever goes on at the readers: a row is written only for a card id    *)
(* that a station is showing to its operator; showing a card id once gives *)
(* at most one row; a card is given to a runner at most once and for good; *)
(* a passage is recorded only for a card that already has a runner.        *)
(***************************************************************************)
EXTENDS RaceDatabase

CONSTANTS
  Stations,
  CardIds

VARIABLES
  shown,     (* shown[s]: <<>>, or <<k>> while station s shows card id k   *)
  carte,
  passage

race == <<shown, carte, passage>>

RaceInit ==
  /\ shown = [s \in Stations |-> <<>>]
  /\ carte = <<>>
  /\ passage = <<>>

Show(s, k) ==
  /\ shown[s] = <<>>
  /\ shown' = [shown EXCEPT ![s] = <<k>>]
  /\ UNCHANGED <<carte, passage>>

Hide(s) ==
  /\ shown[s] # <<>>
  /\ shown' = [shown EXCEPT ![s] = <<>>]

Drop(s) == Hide(s) /\ UNCHANGED <<carte, passage>>

Bind(s, k, part) ==
  /\ shown[s] = <<k>>
  /\ k \notin DOMAIN carte
  /\ Hide(s)
  /\ carte' = With(carte, k, part)
  /\ UNCHANGED passage

Pass(s, k) ==
  /\ shown[s] = <<k>>
  /\ k \in DOMAIN carte
  /\ Hide(s)
  /\ passage' = Append(passage, k)
  /\ UNCHANGED carte

RaceNext ==
  \E s \in Stations :
    \/ Drop(s)
    \/ \E k \in CardIds : \/ Show(s, k)
                       \/ Pass(s, k)
                       \/ \E part \in Participants : Bind(s, k, part)

RaceSpec == RaceInit /\ [][RaceNext]_race

\* The types of the tables; every passage is of a card that has a runner.
RaceTypeOK ==
  /\ IsCarte(carte, CardIds)
  /\ passage \in Seq(DOMAIN carte)
=============================================================================
