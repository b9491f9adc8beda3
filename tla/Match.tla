------------------------------- MODULE Match -------------------------------
(***************************************************************************)
(* A running match: the tick of app/services/match_service.py with the     *)
(* engine it drives, and the commands of app/services/command_service.py.  *)
(* The tick loop and the WebSocket commands share one event-loop thread,   *)
(* so a command never falls inside a tick: pc is "idle" between ticks and  *)
(* names the next step of advance_match within one.  The steps of a tick   *)
(* are forced, in the order of the code; loops over waves and over duels   *)
(* are one step per iteration.                                             *)
(***************************************************************************)
EXTENDS MoveRules, Lifecycle

CONSTANTS
  AllowDraw,    \* the match's allow_draw
  Aims,         \* <<piece, cell>>: the moves players ask for
  Wishes,       \* <<player, kind>>: the unlocks players ask for
  Resigners,    \* players who may resign
  Leavers,      \* players who may leave and reconnect
  MaxLag,       \* bound: the tick comes at most this late
  MaxTime       \* bound: the horizon of the clock

ASSUME InputAssumption ==
  /\ AllowDraw \in BOOLEAN
  /\ Aims \subseteq Pieces \X Cells
  /\ Wishes \subseteq Players \X Kinds
  /\ Resigners \subseteq Players /\ Leavers \subseteq Players
  /\ MaxLag \in Nat \ {0} /\ MaxTime \in Nat

VARIABLES
  clock,        \* time.time(), counted from started_at
  tickAt,       \* the now_ms of the latest tick
  status, winner, reason,
  phase,        \* phase_name, phase_deadline_ms, wave_index
  unlocked,     \* unlocked_by_player
  choice,       \* pending_unlock_choice
  processed,    \* auto_unlock_processed_waves
  pieces,
  lastAction, lastCapture,
  lifecycle,    \* of each player; offline is also online = False
  pc,           \* the step of the tick that comes next
  arrived,      \* advance_match's local: pieces at the end of their move
  duels         \* resolve_contacts' local: the pairs of movers left to settle

timeVars    == <<clock, tickAt>>
outcomeVars == <<status, winner, reason>>
unlockVars  == <<unlocked, choice, processed>>
actionVars  == <<lastAction, lastCapture>>
tickVars    == <<pc, arrived, duels>>
vars == <<timeVars, outcomeVars, phase, unlockVars, pieces, actionVars, lifecycle, tickVars>>

NoKind == "none"      \* no choice yet for a wave
NoPlayer == 0         \* winner None
GoesOn == "none"      \* reason None

\* The state that create_match and start_match leave behind.
Init ==
  /\ clock = 0 /\ tickAt = 0
  /\ status = "running" /\ winner = NoPlayer /\ reason = GoesOn
  /\ phase = [name |-> "waiting", deadline |-> NoDeadline, wave |-> NoWave]
  /\ unlocked = [o \in Players |-> {"soldier"}]
  /\ choice = [o \in Players |-> [w \in Waves |-> NoKind]]
  /\ processed = [o \in Players |-> {}]
  /\ pieces = [p \in Pieces |->
       [cell |-> InitialBoard[p].cell, alive |-> TRUE, moving |-> FALSE, start |-> 0,
        path |-> << >>, cooldown |-> 0, announced |-> FALSE]]
  /\ lastAction = 0 /\ lastCapture = 0
  /\ lifecycle = [o \in Players |-> "running"]
  /\ pc = "idle" /\ arrived = {} /\ duels = {}

-----------------------------------------------------------------------------
(* The tick *)

Running == status = "running"
Idle == pc = "idle"

\* Time passes; the loop's next tick is at most MaxLag away.
Elapse ==
  /\ Idle /\ Running
  /\ clock < MaxTime /\ clock - tickAt < MaxLag
  /\ clock' = clock + 1
  /\ UNCHANGED <<tickAt, outcomeVars, phase, unlockVars, pieces, actionVars, lifecycle, tickVars>>

\* The tick starts: phase, and the full unlock that ends apply_auto_unlocks early.
TickBegin ==
  /\ Idle /\ Running
  /\ clock > tickAt \/ phase.name = "waiting"
  /\ tickAt' = clock
  /\ phase' = ComputePhase(clock)
  /\ unlocked' = IF clock >= FullUnlockAt THEN [o \in Players |-> Kinds] ELSE unlocked
  /\ pc' = "unlock"
  /\ UNCHANGED <<clock, outcomeVars, choice, processed, pieces, actionVars, lifecycle, arrived, duels>>

\* Mutant: a choice made in time does not keep the wave from being settled again.
Unsettled_ChoiceIgnored(o, w) == w \notin processed[o]

Unsettled(o, w) == choice[o][w] = NoKind /\ w \notin processed[o]

\* Mutant: only the wave that ended last is settled, a wave before it is skipped.
DueWaves_LastOnly ==
  {w \in Waves : /\ tickAt < FullUnlockAt
                 /\ IsWaveTimeout(tickAt, w) /\ ~IsWaveTimeout(tickAt, w + 1)
                 /\ \E o \in Players : Unsettled(o, w)}

\* The waves this tick still has to settle.
DueWaves ==
  {w \in Waves : /\ tickAt < FullUnlockAt
                 /\ IsWaveTimeout(tickAt, w)
                 /\ \E o \in Players : Unsettled(o, w)}

\* Mutant: the set of kinds is made anew from the choices on record.
AutoUnlock_FromRecord(w) ==
  /\ pc = "unlock" /\ w \in DueWaves /\ \A v \in DueWaves : w <= v
  /\ LET pick == [o \in Players |-> AutoPick(w, unlocked[o])]
     IN  /\ unlocked' = [o \in Players |->
              IF Unsettled(o, w)
              THEN {"soldier", pick[o]} \cup ({choice[o][v] : v \in Waves} \ {NoKind})
              ELSE unlocked[o]]
         /\ choice' = [o \in Players |->
              IF Unsettled(o, w) THEN [choice[o] EXCEPT ![w] = pick[o]] ELSE choice[o]]
  /\ processed' = [o \in Players |->
       IF Unsettled(o, w) THEN processed[o] \cup {w} ELSE processed[o]]
  /\ UNCHANGED <<timeVars, outcomeVars, phase, pieces, actionVars, lifecycle, tickVars>>

\* apply_auto_unlock_for_wave for both players; waves in ascending order.
AutoUnlock(w) ==
  /\ pc = "unlock" /\ w \in DueWaves /\ \A v \in DueWaves : w <= v
  /\ LET pick == [o \in Players |-> AutoPick(w, unlocked[o])]
     IN  /\ unlocked' = [o \in Players |->
              IF Unsettled(o, w) THEN unlocked[o] \cup {pick[o]} ELSE unlocked[o]]
         /\ choice' = [o \in Players |->
              IF Unsettled(o, w) THEN [choice[o] EXCEPT ![w] = pick[o]] ELSE choice[o]]
  /\ processed' = [o \in Players |->
       IF Unsettled(o, w) THEN processed[o] \cup {w} ELSE processed[o]]
  /\ UNCHANGED <<timeVars, outcomeVars, phase, pieces, actionVars, lifecycle, tickVars>>

CellsOf(p) == RuntimeCells(Kind(p), pieces[p], tickAt)
Mover(p)   == pieces[p].alive /\ pieces[p].moving
Resting(p) == pieces[p].alive /\ ~pieces[p].moving

\* Resting pieces in a cell that an enemy mover holds.
Victims ==
  {s \in Pieces : /\ Resting(s)
                  /\ \E m \in Pieces : /\ Mover(m) /\ Enemies(m, s)
                                       /\ pieces[s].cell \in CellsOf(m)}

\* Mutant: movers meet only when they hold exactly the same cells.
MovingContacts_SameCells ==
  {d \in Pieces \X Pieces : /\ d[1] < d[2]
                            /\ Mover(d[1]) /\ Mover(d[2]) /\ Enemies(d[1], d[2])
                            /\ CellsOf(d[1]) = CellsOf(d[2])}

\* Pairs of enemy movers that share a cell, in spawn order.
MovingContacts ==
  {d \in Pieces \X Pieces : /\ d[1] < d[2]
                            /\ Mover(d[1]) /\ Mover(d[2]) /\ Enemies(d[1], d[2])
                            /\ CellsOf(d[1]) \cap CellsOf(d[2]) # {}}

\* advance_all_pieces, the captures of resting pieces and the list of duels.
Contacts ==
  /\ pc = "unlock" /\ DueWaves = {}
  /\ arrived' = {p \in Pieces : IsArrived(Kind(p), pieces[p], tickAt)}
  /\ duels' = MovingContacts
  /\ pieces' = [p \in Pieces |-> IF p \in Victims THEN MarkDead(pieces[p]) ELSE pieces[p]]
  /\ lastCapture' = IF Victims # {} THEN tickAt ELSE lastCapture
  /\ pc' = "duels"
  /\ UNCHANGED <<timeVars, outcomeVars, phase, unlockVars, lastAction, lifecycle>>

\* Who falls when a and b meet: the one who set off later, or both.
Losers(a, b) ==
  {p \in {a, b} : \E q \in {a, b} \ {p} : pieces[q].start <= pieces[p].start}

\* Mutant: a piece that fell in an earlier duel of the tick still fights.
Fallen_DeadFight(a, b) == Losers(a, b)

\* Nothing happens when one of the two fell before.
Fallen(a, b) == IF pieces[a].alive /\ pieces[b].alive THEN Losers(a, b) ELSE {}

\* The first pair of the list is settled.
Duel(a, b) ==
  /\ pc = "duels" /\ <<a, b>> \in duels
  /\ \A e \in duels : a < e[1] \/ (a = e[1] /\ b <= e[2])
  /\ duels' = duels \ {<<a, b>>}
  /\ LET fallen == Fallen(a, b)
     IN  /\ pieces' = [p \in Pieces |-> IF p \in fallen THEN MarkDead(pieces[p]) ELSE pieces[p]]
         /\ lastCapture' = IF fallen # {} THEN tickAt ELSE lastCapture
  /\ UNCHANGED <<timeVars, outcomeVars, phase, unlockVars, lastAction, lifecycle, pc, arrived>>

\* The piece rests again: emit_piece_ready_events.
Announce(m) ==
  IF m.alive /\ ~m.moving /\ m.cooldown > 0 /\ ~m.announced /\ tickAt >= m.cooldown
  THEN [m EXCEPT !.announced = TRUE] ELSE m

\* Moves that ended become rests, and cooldowns that ended are announced.
Settled ==
  [p \in Pieces |-> Announce(IF p \in arrived /\ pieces[p].alive
                             THEN FinishMove(Kind(p), pieces[p], tickAt) ELSE pieces[p])]

LivingSides == {Owner(g) : g \in {g \in Generals : pieces[g].alive}}

\* Mutant: the draw is looked at before the generals.
Verdict_DrawFirst ==
  IF AllowDraw /\ tickAt >= DrawCheckStart /\ tickAt - lastAction >= NoActionDraw
  THEN "no legal action"
  ELSE IF LivingSides = {} THEN "both generals dead"
  ELSE IF LivingSides # Players THEN "general captured"
  ELSE GoesOn

\* Mutant: nothing is looked at before draws may be declared.
Verdict_EarlyReturn ==
  IF tickAt < DrawCheckStart THEN GoesOn
  ELSE IF LivingSides = {} THEN "both generals dead"
  ELSE IF LivingSides # Players THEN "general captured"
  ELSE IF ~AllowDraw THEN GoesOn
  ELSE IF tickAt - lastAction >= NoActionDraw THEN "no legal action"
  ELSE IF tickAt - lastCapture >= NoCaptureDraw THEN "no capture"
  ELSE GoesOn

\* Mutant: a match in which pieces keep moving is never drawn.
Verdict_NoCaptureForgotten ==
  IF LivingSides = {} THEN "both generals dead"
  ELSE IF LivingSides # Players THEN "general captured"
  ELSE IF ~AllowDraw \/ tickAt < DrawCheckStart THEN GoesOn
  ELSE IF tickAt - lastAction >= NoActionDraw THEN "no legal action"
  ELSE GoesOn

\* check_general_dead, then check_draw_conditions.
Verdict ==
  IF LivingSides = {} THEN "both generals dead"
  ELSE IF LivingSides # Players THEN "general captured"
  ELSE IF ~AllowDraw \/ tickAt < DrawCheckStart THEN GoesOn
  ELSE IF tickAt - lastAction >= NoActionDraw THEN "no legal action"
  ELSE IF tickAt - lastCapture >= NoCaptureDraw THEN "no capture"
  ELSE GoesOn

\* The end of the tick; the match may be over.
FinishTick ==
  /\ pc = "duels" /\ duels = {}
  /\ pieces' = Settled
  /\ reason' = Verdict
  /\ status' = IF Verdict = GoesOn THEN status ELSE "ended"
  /\ winner' = IF Verdict = "general captured"
               THEN CHOOSE o \in Players : o \in LivingSides ELSE NoPlayer
  /\ pc' = "idle" /\ arrived' = {}
  /\ UNCHANGED <<timeVars, phase, unlockVars, actionVars, lifecycle, duels>>

TickStep ==
  \/ TickBegin
  \/ \E w \in Waves : AutoUnlock(w)
  \/ Contacts
  \/ \E a, b \in Pieces : Duel(a, b)
  \/ FinishTick

-----------------------------------------------------------------------------
(* Commands, at the time of the clock *)

\* Mutant: the status of the match is not looked at.
MayCommand_AlsoAfterEnd(o) == Idle /\ lifecycle[o] # "offline"

\* _resolve_player_seat: a command of a player who is offline is refused.
MayCommand(o) == Idle /\ Running /\ lifecycle[o] # "offline"

\* The checks of handle_move_command on the piece and its target.
MayMove(p, b, t) ==
  /\ pieces[p].cooldown <= t
  /\ IsKindAllowedByPhase(Kind(p), t, unlocked[Owner(p)])
  /\ Kind(p) \in unlocked[Owner(p)]
  /\ ValidateMove(p, b, pieces, t)

Move(p, b) ==
  /\ MayCommand(Owner(p)) /\ MayMove(p, b, clock)
  /\ pieces' = [pieces EXCEPT ![p] =
                  StartMove(@, BuildPath(Kind(p), @.cell, b), clock)]
  /\ lastAction' = clock
  /\ UNCHANGED <<timeVars, outcomeVars, phase, unlockVars, lastCapture, lifecycle, tickVars>>

\* The checks of choose_unlock on the wave that is open.
MayChoose(o, kind, t) ==
  LET w == CurrentWave(t)
  IN  w # NoWave /\ choice[o][w] = NoKind /\ kind \in WaveOptions(w) \ unlocked[o]

ChooseUnlock(o, kind) ==
  /\ MayCommand(o) /\ MayChoose(o, kind, clock)
  /\ choice' = [choice EXCEPT ![o][CurrentWave(clock)] = kind]
  /\ unlocked' = [unlocked EXCEPT ![o] = @ \cup {kind}]
  /\ UNCHANGED <<timeVars, outcomeVars, phase, processed, pieces, actionVars, lifecycle, tickVars>>

Resign(o) ==
  /\ MayCommand(o)
  /\ status' = "ended" /\ winner' = Opponent(o) /\ reason' = "resign"
  /\ UNCHANGED <<timeVars, phase, unlockVars, pieces, actionVars, lifecycle, tickVars>>

\* leave_match and reconnect_match once the match has started; the lifecycle of
\* a player who was not offline does not change.
Leave(o) ==
  /\ Idle /\ CanPlayerGo(lifecycle[o], "offline")
  /\ lifecycle' = [lifecycle EXCEPT ![o] = "offline"]
  /\ UNCHANGED <<timeVars, outcomeVars, phase, unlockVars, pieces, actionVars, tickVars>>

Reconnect(o) ==
  /\ Idle /\ lifecycle[o] = "offline" /\ CanPlayerGo("offline", "reconnected")
  /\ lifecycle' = [lifecycle EXCEPT ![o] = "reconnected"]
  /\ UNCHANGED <<timeVars, outcomeVars, phase, unlockVars, pieces, actionVars, tickVars>>

Command ==
  \/ \E aim \in Aims : Move(aim[1], aim[2])
  \/ \E wish \in Wishes : ChooseUnlock(wish[1], wish[2])
  \/ \E o \in Resigners : Resign(o)
  \/ \E o \in Leavers : Leave(o) \/ Reconnect(o)

Next == Elapse \/ TickStep \/ Command

Spec == Init /\ [][Next]_vars

-----------------------------------------------------------------------------
(* Properties *)

TimesOK ==
  /\ clock \in Nat /\ tickAt \in 0 .. clock
  /\ lastAction \in 0 .. clock /\ lastCapture \in 0 .. clock

OutcomeOK ==
  /\ status \in {"running", "ended"} /\ winner \in Players \cup {NoPlayer}
  /\ reason \in {GoesOn, "both generals dead", "general captured", "no legal action",
                "no capture", "resign"}
  /\ lifecycle \in [Players -> {"running", "offline", "reconnected"}]

UnlocksOK ==
  /\ phase \in Phases
  /\ unlocked \in [Players -> SUBSET Kinds]
  /\ choice \in [Players -> [Waves -> Kinds \cup {NoKind}]]
  /\ processed \in [Players -> SUBSET Waves]

PiecesOK ==
  /\ pieces \in [Pieces -> PieceStates]
  /\ \A p \in Pieces : pieces[p].start <= clock
  /\ \A p \in Pieces : pieces[p].moving => pieces[p].path # << >>

TickOK ==
  /\ pc \in {"idle", "unlock", "duels"}
  /\ arrived \subseteq Pieces /\ duels \subseteq Pieces \X Pieces

\* Types of the whole state.  No instant on record lies in the future, and a
\* moving piece has somewhere to go.
TypeOK == TimesOK /\ OutcomeOK /\ UnlocksOK /\ PiecesOK /\ TickOK

\* Between ticks no two living enemies hold a common cell as of the latest tick:
\* every contact was settled, those between resting pieces included
\* (resolve_contacts leaves nothing behind for the next tick).
ContactFree ==
  Idle => \A p, q \in Pieces : Enemies(p, q) => CellsOf(p) \cap CellsOf(q) = {}

\* Enemies that rest do not share a cell when the contacts are looked for.
RestingApart ==
  pc = "unlock" =>
    \A p, q \in Pieces : Enemies(p, q) /\ Resting(p) /\ Resting(q)
                         => pieces[p].cell # pieces[q].cell

\* What a pair of the list and a piece of arrived stand for while both still live.
ListedMeet ==
  pc = "duels" =>
    \A d \in duels :
      /\ d[1] < d[2] /\ Enemies(d[1], d[2])
      /\ pieces[d[1]].alive /\ pieces[d[2]].alive =>
           Mover(d[1]) /\ Mover(d[2]) /\ CellsOf(d[1]) \cap CellsOf(d[2]) # {}

ArrivedAreDue ==
  pc = "duels" =>
    \A p \in arrived : pieces[p].alive => IsArrived(Kind(p), pieces[p], tickAt)

\* All enemies that still touch are on the list.
TouchingListed ==
  pc = "duels" =>
    \A p, q \in Pieces : p < q /\ Enemies(p, q) /\ CellsOf(p) \cap CellsOf(q) # {}
                         => <<p, q>> \in duels

\* The lists that advance_match and resolve_contacts draw up stay true of a board
\* that changes under them: captures made meanwhile leave no pair that should have
\* fought off the list, and no survivor on it that should not.
ListsStayTrue == RestingApart /\ ListedMeet /\ ArrivedAreDue /\ TouchingListed

\* The result matches the board: while a match goes on both generals live, and
\* each reason of finish_match comes with the survivors and the winner it names.
OutcomeJustified ==
  Idle =>
    CASE reason = "both generals dead" -> status = "ended" /\ LivingSides = {} /\ winner = NoPlayer
      [] reason = "general captured"   -> status = "ended" /\ LivingSides = {winner}
      [] reason = "resign"             -> status = "ended" /\ LivingSides = Players /\ winner # NoPlayer
      [] reason = GoesOn               -> Running /\ LivingSides = Players /\ winner = NoPlayer
      [] OTHER                         -> status = "ended" /\ LivingSides = Players /\ winner = NoPlayer

\* Before the full unlock a player holds the soldier and the kinds recorded for
\* the waves, nothing more and nothing less: the two records that choose_unlock
\* and apply_auto_unlock_for_wave keep never part.
UnlocksAccounted ==
  \A o \in Players :
    \/ unlocked[o] = Kinds /\ tickAt >= FullUnlockAt
    \/ unlocked[o] = {"soldier"} \cup ({choice[o][w] : w \in Waves} \ {NoKind})

\* After a tick no expired wave is left without a choice, a choice is on record
\* only for a wave that has opened, and is one the wave offers or the fallback.
WavesSettled ==
  \A o \in Players, w \in Waves :
    /\ Idle /\ IsWaveTimeout(tickAt, w) /\ tickAt < FullUnlockAt => choice[o][w] # NoKind
    /\ choice[o][w] # NoKind =>
         /\ WaveOpen[w] <= clock
         /\ choice[o][w] \in WaveOptions(w) \cup {"soldier"}

\* The two ways of unlocking, by choice and by a tick that may come late, together
\* implement the plain promise: one kind a wave, nothing taken back, all in the end.
Promise ==
  INSTANCE UnlockPromise WITH
    held   <- unlocked,
    spent  <- [o \in Players |-> {w \in Waves : choice[o][w] # NoKind}],
    Offers <- [w \in Waves |-> WaveOptions(w)]

PromiseKept == Promise!Spec

\* Every settled wave gives a player one kind more: no wave is spent on a kind
\* already held, whatever mix of choices and automatic picks came before.
EveryWavePays ==
  \A o \in Players : tickAt < FullUnlockAt =>
    Cardinality(unlocked[o]) = 1 + Cardinality({w \in Waves : choice[o][w] # NoKind})

\* The moment a mover leaves its i-th point for the next one.
LeavesPoint(p, i) == pieces[p].start + i * Segment

\* When contacts are settled, no two enemy movers have travelled the same edge in
\* opposite directions at overlapping times: sampling by ticks misses no head-on
\* meeting as long as ticks are less than a segment apart.
NoPassThrough ==
  pc = "duels" /\ duels = {} =>
    \A p, q \in Pieces : Enemies(p, q) /\ Mover(p) /\ Mover(q) =>
      \A i \in 0 .. Len(pieces[p].path) - 1, j \in 0 .. Len(pieces[q].path) - 1 :
        ~ /\ Point(pieces[p], i) = Point(pieces[q], j + 1)
          /\ Point(pieces[p], i + 1) = Point(pieces[q], j)
          /\ LeavesPoint(p, i) < LeavesPoint(q, j + 1)
          /\ LeavesPoint(q, j) < LeavesPoint(p, i + 1)
          /\ tickAt >= LeavesPoint(p, i + 1) /\ tickAt >= LeavesPoint(q, j + 1)

\* No two living pieces of one side rest on the same cell: validate_move refuses a
\* target held by an ally (move_rules.py:58-59, "cannot capture ally").
NoAllyStack ==
  \A p, q \in Pieces : p # q /\ ~Enemies(p, q) /\ Resting(p) /\ Resting(q)
                       => pieces[p].cell # pieces[q].cell

\* A piece falls only to a living enemy mover it touches at that tick, and a mover
\* only to one who did not set off later than it: a piece that fell earlier in
\* the same tick takes nobody with it.
CapturesEarned ==
  [][\A p \in Pieces : pieces[p].alive /\ ~pieces'[p].alive =>
       \E q \in Pieces : /\ Enemies(p, q) /\ Mover(q)
                         /\ CellsOf(p) \cap CellsOf(q) # {}
                         /\ Mover(p) => pieces[q].start <= pieces[p].start]_vars

\* Once ended, a match keeps its result, its board and its unlocks: no command
\* and no tick changes them (finish_match, and the status checks of every handler).
EndedIsFinal ==
  [][status = "ended" => UNCHANGED <<outcomeVars, unlockVars, pieces, actionVars>>]_vars
============================================================================
