------------------------------ MODULE Snapshot ------------------------------
(***************************************************************************)
(* What players are shown of a running match: the views that               *)
(* app/engine/snapshot.py builds and the answer of legal_moves in          *)
(* app/api/query_routes.py, taken between two ticks at the time of the     *)
(* clock.  The views repeat the checks of the command handlers instead of  *)
(* calling them; the properties compare the two.                           *)
(***************************************************************************)
EXTENDS Match, Xiangqi

Online(o) == lifecycle[o] # "offline"

-----------------------------------------------------------------------------
(* Pieces *)

\* Why the owner cannot command p, "none" when it can.
DisabledReason(p) ==
  LET m == pieces[p]
      held == unlocked[Owner(p)]
  IN  IF ~Running THEN "match_not_running"
      ELSE IF ~m.alive THEN "dead"
      ELSE IF Kind(p) \notin held THEN "not_unlocked"
      ELSE IF ~IsKindAllowedByPhase(Kind(p), clock, held) THEN "locked_by_phase"
      ELSE IF m.moving THEN "moving"
      ELSE IF m.cooldown > clock THEN "cooldown"
      ELSE "none"

\* Mutant: a piece still counts as resting at the instant its cooldown ends.
OwnerViewExecutable_StillCooling(p) ==
  /\ Running /\ pieces[p].alive /\ ~pieces[p].moving
  /\ pieces[p].cooldown < clock
  /\ IsKindAllowedByPhase(Kind(p), clock, unlocked[Owner(p)])
  /\ Kind(p) \in unlocked[Owner(p)]

\* The same question as legal_moves asks it.
OwnerViewExecutable(p) ==
  /\ Running /\ pieces[p].alive /\ ~pieces[p].moving
  /\ pieces[p].cooldown <= clock
  /\ IsKindAllowedByPhase(Kind(p), clock, unlocked[Owner(p)])
  /\ Kind(p) \in unlocked[Owner(p)]

\* The targets legal_moves offers to the owner of p.
ActionableTargets(p) ==
  IF OwnerViewExecutable(p)
  THEN {b \in LegalTargets(p, pieces, clock) : ValidateMove(p, b, pieces, clock)}
  ELSE {}

\* Why it offers none, "none" when it does.
LegalMovesReason(p) ==
  LET offer == ActionableTargets(p)
  IN  CASE ~OwnerViewExecutable(p) -> "piece_not_commandable_now"
        [] OwnerViewExecutable(p) /\ (\A b \in Cells : b \notin offer) -> "no_actionable_targets"
        [] OTHER -> "none"

-----------------------------------------------------------------------------
(* Phases and waves *)

\* Mutant: the wave announced is the one that is open.
NextWave_Current(t) ==
  LET now == ComputePhase(t)
  IN  CASE now.name = "soldier_only" -> 0
        [] now.name \in {"unlock_wave", "midgame"} -> now.wave
        [] OTHER -> NoWave

\* The wave the phase view announces; while the board is sealed it announces none.
NextWave(t) ==
  LET now  == ComputePhase(t)
      next == (IF now.name = "midgame" THEN LatestWave(t) ELSE now.wave) + 1
  IN  CASE now.name = "soldier_only" -> 0
        [] now.name \in {"unlock_wave", "midgame"} /\ next < WaveCount -> next
        [] OTHER -> NoWave

\* When the phase view says that the next phase starts.
NextPhaseStart(t) ==
  LET now == ComputePhase(t)
  IN  CASE now.name = "sealed"       -> SealDuration
        [] now.name = "soldier_only" -> WaveOpen[0]
        [] now.name = "unlock_wave" /\ now.wave + 1 < WaveCount -> WaveEnd(now.wave)
        [] now.name = "fully_unlocked" -> NoDeadline
        [] OTHER -> FullUnlockAt

\* Mutant: the kinds the player already holds are shown too.
AvailableOptions_HeldToo(o) ==
  LET w == CurrentWave(clock)
  IN  IF w = NoWave THEN {} ELSE WaveOptions(w)

\* Options of the unlock view for player o, and whether it invites a choice.
AvailableOptions(o) ==
  LET w == CurrentWave(clock)
  IN  IF w = NoWave THEN {} ELSE WaveOptions(w) \ unlocked[o]

CanChooseNow(o) ==
  /\ CurrentWave(clock) # NoWave /\ Running
  /\ choice[o][CurrentWave(clock)] = NoKind

-----------------------------------------------------------------------------
(* Properties *)

\* Whether handle_move_command would send p to b.
Accepted(p, b) == MayCommand(Owner(p)) /\ MayMove(p, b, clock)

\* What a player who is online is told of a piece is what a command would do with it:
\* legal_moves lists a target asked for when, and only when, handle_move_command accepts
\* it; the piece snapshot gives a disabled_reason when, and only when, legal_moves calls
\* the piece not commandable.  A piece without a disabled_reason may still be blocked:
\* where legal_moves says that it has no actionable target, no command moves it anywhere.
MoveOfferKept ==
  Idle =>
    /\ \A aim \in Aims : Online(Owner(aim[1])) =>
         (aim[2] \in ActionableTargets(aim[1]) <=> Accepted(aim[1], aim[2]))
    /\ \A p \in Pieces : Online(Owner(p)) =>
         LET why == LegalMovesReason(p)
         IN  /\ DisabledReason(p) = "none" <=> why # "piece_not_commandable_now"
             /\ why = "no_actionable_targets" => \A b \in Cells : ~Accepted(p, b)

\* When nobody travels, the moves that validate_move accepts are those of Chinese
\* chess, wherever the pieces have got to.
Position == [q \in {q \in Pieces : pieces[q].alive} |-> pieces[q].cell]

MovesAreXiangqi ==
  Idle /\ Running /\ (\A q \in Pieces : ~pieces[q].moving) =>
    \A p \in Pieces : LegalTargets(p, pieces, clock) = {b \in Cells : Legal(Position, p, b)}

\* A player who is invited to choose has something to choose, whatever was chosen
\* and picked before, and handle_unlock_command accepts every option of the view.
UnlockOfferKept ==
  Idle => \A o \in Players : CanChooseNow(o) /\ Online(o) =>
            /\ AvailableOptions(o) # {}
            /\ \A kind \in AvailableOptions(o) : MayCommand(o) /\ MayChoose(o, kind, clock)

\* What the unlock view offers is not taken back behind the player's back: it
\* lapses with the wave or the match, by the player's choice for that wave, or
\* because a late tick picks that very kind for an earlier wave.
OfferStands ==
  [][\A o \in Players :
       LET w == CurrentWave(clock)
       IN  CanChooseNow(o) /\ Running' /\ CurrentWave(clock') = w =>
             \/ Idle /\ choice'[o][w] # NoKind
             \/ /\ CanChooseNow(o)'
                /\ \A kind \in AvailableOptions(o) \ AvailableOptions(o)' :
                     \E v \in Waves : /\ v < w /\ choice[o][v] = NoKind
                                      /\ choice'[o][v] = kind]_vars

\* The countdowns of the phase view come true: the phase shown lasts until its
\* deadline and not beyond, the next phase is announced for that very instant, and
\* the wave announced is the first that has not opened.
ForecastHolds ==
  LET now  == ComputePhase(clock)
      left == {w \in Waves : WaveOpen[w] > clock}
  IN  /\ now.deadline # NoDeadline =>
           /\ \A t \in clock .. now.deadline - 1 : ComputePhase(t) = now
           /\ ComputePhase(now.deadline) # now
           /\ NextPhaseStart(clock) = now.deadline
      /\ now.name # "sealed" =>
           NextWave(clock) = IF left = {} THEN NoWave ELSE Min(left)
=============================================================================
