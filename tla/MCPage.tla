------------------------------- MODULE MCPage -------------------------------
(***************************************************************************)
(* An instance of Page for TLC: one browser and two matches.               *)
(***************************************************************************)
EXTENDS Page

TwoRooms == {"A", "B"}
AllTargets == [match : TwoRooms, as : TwoRooms]
=============================================================================
