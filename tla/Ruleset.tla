------------------------------ MODULE Ruleset ------------------------------
(***************************************************************************)
(* The rule set of a match: app/core/constants.py, app/core/ruleset.py and *)
(* the enumerations of app/domain/enums.py.  Durations and instants are    *)
(* numbers of an abstract time unit and are parameters, so that a run can  *)
(* use a short schedule and a theorem covers every schedule.  Instants are *)
(* counted from started_at, the moment start_match opened the match.       *)
(***************************************************************************)
EXTENDS Integers, Sequences, FiniteSets

CONSTANTS
  SealDuration,    \* nobody may move before this instant
  SoldierOnlyEnd,  \* until this instant only soldiers may move
  FullUnlockAt,    \* from this instant every kind is unlocked
  DrawCheckStart,  \* no draw is declared before this instant
  NoActionDraw,    \* a draw after this long without a move command
  NoCaptureDraw,   \* a draw after this long without a capture
  WaveCount,       \* number of unlock waves
  WaveOpen,        \* [Waves -> instant], when each wave opens
  WaveWindow,      \* how long a wave stays open
  UnlockWaves,     \* [instant -> set of kinds], the default offer of a wave
  Cooldown,        \* [Kinds -> duration] of the rest after a move
  Segment          \* time to travel one cell

Players == {1, 2}
Opponent(player) == IF player = 2 THEN 1 ELSE 2

Kinds == {"soldier", "advisor", "elephant", "horse", "cannon", "chariot", "general"}

AutoUnlockPriority ==
  <<"cannon", "horse", "chariot", "elephant", "advisor", "general">>

\* Segments that a move of a fixed duration lasts; a chariot or a cannon
\* takes one segment per cell instead.
FixedMove == [soldier |-> 1, advisor |-> 1, elephant |-> 2, horse |-> 2, general |-> 1]

Waves == 0 .. WaveCount - 1

\* What constants.py and ruleset.py fix, and what create_match accepts as
\* custom_unlock_windows: sorted, distinct, in [SoldierOnlyEnd, FullUnlockAt).
ASSUME ScheduleAssumption ==
  /\ SealDuration \in Nat /\ SoldierOnlyEnd \in Nat /\ FullUnlockAt \in Nat
  /\ SealDuration <= SoldierOnlyEnd /\ SoldierOnlyEnd < FullUnlockAt
  /\ WaveCount \in Nat \ {0}
  /\ WaveOpen \in [Waves -> SoldierOnlyEnd .. FullUnlockAt - 1]
  /\ \A v, w \in Waves : v < w => WaveOpen[v] < WaveOpen[w]
  /\ WaveWindow \in Nat \ {0}

ASSUME UnlockWavesAssumption ==
  /\ DOMAIN UnlockWaves # {} /\ DOMAIN UnlockWaves \subseteq Nat
  /\ IsFiniteSet(DOMAIN UnlockWaves)
  /\ \A t \in DOMAIN UnlockWaves : UnlockWaves[t] \subseteq Kinds

ASSUME DrawAssumption ==
  /\ DrawCheckStart \in Nat /\ NoActionDraw \in Nat /\ NoCaptureDraw \in Nat

ASSUME MoveAssumption ==
  /\ Cooldown \in [Kinds -> Nat \ {0}]
  /\ Segment \in Nat \ {0}
============================================================================
