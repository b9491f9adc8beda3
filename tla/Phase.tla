------------------------------- MODULE Phase -------------------------------
(***************************************************************************)
(* The schedule of a match: app/engine/phase.py and the part of            *)
(* app/engine/unlock_service.py that has no state.  t is always the time   *)
(* elapsed since started_at.  A wave is its index, -1 stands for none.     *)
(***************************************************************************)
EXTENDS Ruleset, FiniteSetsExt

NoWave == -1
NoDeadline == -1   \* the code's None

WaveEnd(w) == WaveOpen[w] + WaveWindow

\* Whether wave w is due: its window is over.
IsWaveTimeout(t, w) == w \in Waves /\ t >= WaveEnd(w)

\* The first wave whose window holds t: two windows may overlap, and then the
\* earlier wave hides the later one.
CurrentWave(t) ==
  LET open == {w \in Waves : WaveOpen[w] <= t /\ t < WaveEnd(w)}
  IN  IF open = {} THEN NoWave ELSE Min(open)

\* The last wave that has opened by t.
LatestWave(t) ==
  LET opened == {w \in Waves : WaveOpen[w] <= t}
  IN  IF opened = {} THEN NoWave ELSE Max(opened)

\* Name, deadline and wave of the phase at t.
ComputePhase(t) ==
  LET wave == CurrentWave(t)
      phase(name, deadline, w) == [name |-> name, deadline |-> deadline, wave |-> w]
  IN  CASE t < SealDuration   -> phase("sealed", SealDuration, NoWave)
        [] t >= SealDuration /\ t < SoldierOnlyEnd
                              -> phase("soldier_only", SoldierOnlyEnd, NoWave)
        [] t >= FullUnlockAt  -> phase("fully_unlocked", NoDeadline, WaveCount - 1)
        [] OTHER ->
             IF wave # NoWave THEN phase("unlock_wave", WaveEnd(wave), wave)
             ELSE phase("midgame", FullUnlockAt, LatestWave(t))

Phases ==
  [name : {"waiting", "sealed", "soldier_only", "unlock_wave", "midgame", "fully_unlocked"},
   deadline : Nat \cup {NoDeadline}, wave : Waves \cup {NoWave}]

\* What wave w offers: the entry of its opening instant, or else the closest
\* earlier entry of the table, or else the table's first entry.
WaveOptions(w) ==
  LET prior == {s \in DOMAIN UnlockWaves : s <= WaveOpen[w]}
  IN  UnlockWaves[IF prior # {} THEN Max(prior) ELSE Min(DOMAIN UnlockWaves)]

\* Mutant: the kinds the player already holds are offered again.
AutoPick_HeldKindsOffered(w, unlocked) ==
  LET offered == {i \in DOMAIN AutoUnlockPriority : AutoUnlockPriority[i] \in WaveOptions(w)}
  IN  IF offered = {} THEN "soldier" ELSE AutoUnlockPriority[Min(offered)]

\* The kind an expired wave unlocks for a player who holds the kinds unlocked:
\* the first of the priority list the wave still offers, or the soldier.
AutoPick(w, unlocked) ==
  LET offered == {i \in DOMAIN AutoUnlockPriority :
                    AutoUnlockPriority[i] \in WaveOptions(w) \ unlocked}
  IN  IF offered = {} THEN "soldier" ELSE AutoUnlockPriority[Min(offered)]

\* Whether a piece of a kind may start a move at t, given the kinds its owner
\* has unlocked.
IsKindAllowedByPhase(kind, t, unlocked) ==
  /\ t >= SealDuration
  /\ IF t < SoldierOnlyEnd THEN kind = "soldier" ELSE kind \in unlocked
============================================================================
