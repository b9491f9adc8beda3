---------------------------- MODULE MatchProofs ----------------------------
(***************************************************************************)
(* What holds of every running match, whatever the board, the rule set,    *)
(* the commands and the lag of the ticks.                                  *)
(***************************************************************************)
EXTENDS Match, TimelineProofs

-----------------------------------------------------------------------------
(* What the operations on one piece leave of it *)

LEMMA StartMovePiece ==
  ASSUME NEW m \in PieceStates, NEW t \in Nat, NEW path \in Seq(Cells)
  PROVE  /\ StartMove(m, path, t) \in PieceStates
         /\ StartMove(m, path, t).cell = m.cell
         /\ StartMove(m, path, t).alive = m.alive
         /\ StartMove(m, path, t).moving
         /\ StartMove(m, path, t).start = t
         /\ StartMove(m, path, t).path = path
BY DEF StartMove, PieceStates

LEMMA MarkDeadPiece ==
  ASSUME NEW m \in PieceStates
  PROVE  /\ MarkDead(m) \in PieceStates
         /\ ~MarkDead(m).alive /\ ~MarkDead(m).moving
         /\ MarkDead(m).start = 0
<1>1. << >> \in Seq(Cells)
  OBVIOUS
<1>2. QED BY <1>1 DEF MarkDead, PieceStates

LEMMA FinishMovePiece ==
  ASSUME NEW m \in PieceStates, NEW t \in Nat, NEW kind \in Kinds, m.path # << >>
  PROVE  /\ FinishMove(kind, m, t) \in PieceStates
         /\ FinishMove(kind, m, t).cell = Target(m)
         /\ FinishMove(kind, m, t).alive = m.alive
         /\ ~FinishMove(kind, m, t).moving
         /\ FinishMove(kind, m, t).start = 0
<1>1. << >> \in Seq(Cells)
  OBVIOUS
<1>2. Target(m) \in Cells
  BY DEF Target, PieceStates
<1>3. t + Cooldown[kind] \in Nat
  BY MoveAssumption
<1>4. QED BY <1>1, <1>2, <1>3 DEF FinishMove, PieceStates

LEMMA AnnouncePiece ==
  ASSUME NEW m \in PieceStates
  PROVE  /\ Announce(m) \in PieceStates
         /\ Announce(m).cell = m.cell /\ Announce(m).alive = m.alive
         /\ Announce(m).moving = m.moving /\ Announce(m).start = m.start
         /\ Announce(m).path = m.path
BY DEF Announce, PieceStates

-----------------------------------------------------------------------------
(* Types *)

LEMMA TypeInit == Init => TypeOK
<1> SUFFICES ASSUME Init PROVE TypeOK
  OBVIOUS
<1>1. TimesOK
  BY DEF Init, TimesOK
<1>2. OutcomeOK
  BY DEF Init, OutcomeOK
<1>3. UnlocksOK
  BY DEF Init, UnlocksOK, Phases, NoWave, Kinds
<1>4. PiecesOK
  <2>1. << >> \in Seq(Cells)
    OBVIOUS
  <2>2. \A p \in Pieces :
          [cell |-> InitialBoard[p].cell, alive |-> TRUE, moving |-> FALSE, start |-> 0,
           path |-> << >>, cooldown |-> 0, announced |-> FALSE] \in PieceStates
    BY <2>1, PieceFacts DEF PieceStates
  <2>3. QED BY <2>2 DEF Init, PiecesOK
<1>5. TickOK
  BY DEF Init, TickOK
<1>6. QED BY <1>1, <1>2, <1>3, <1>4, <1>5 DEF TypeOK

\* A step that only lets time pass or leaves the pieces alone keeps their types.
LEMMA PiecesKept ==
  ASSUME TimesOK, PiecesOK, clock' \in Nat, clock <= clock', UNCHANGED pieces
  PROVE  PiecesOK'
<1>1. \A p \in Pieces : pieces[p].start \in Nat
  BY DEF PiecesOK, PieceStates
<1>2. QED BY <1>1 DEF TimesOK, PiecesOK

LEMMA TypeElapse == TypeOK /\ Elapse => TypeOK'
<1> SUFFICES ASSUME TypeOK, Elapse PROVE TypeOK'
  OBVIOUS
<1> USE DEF TypeOK, Elapse
<1>1. TimesOK'
  BY DEF TimesOK, actionVars
<1>2. OutcomeOK'
  BY DEF OutcomeOK, outcomeVars
<1>3. UnlocksOK'
  BY DEF UnlocksOK, unlockVars
<1>4. PiecesOK'
  BY PiecesKept DEF TimesOK
<1>5. TickOK'
  BY DEF TickOK, tickVars
<1>6. QED BY <1>1, <1>2, <1>3, <1>4, <1>5

LEMMA TypeTickBegin == TypeOK /\ TickBegin => TypeOK'
<1> SUFFICES ASSUME TypeOK, TickBegin PROVE TypeOK'
  OBVIOUS
<1> USE DEF TypeOK, TickBegin
<1>1. TimesOK'
  BY DEF TimesOK, actionVars
<1>2. OutcomeOK'
  BY DEF OutcomeOK, outcomeVars
<1>3. UnlocksOK'
  <2>1. phase' \in Phases
    BY PhaseDeadlineAhead DEF TimesOK
  <2>2. QED BY <2>1 DEF UnlocksOK
<1>4. PiecesOK'
  BY PiecesKept DEF TimesOK
<1>5. TickOK'
  BY DEF TickOK
<1>6. QED BY <1>1, <1>2, <1>3, <1>4, <1>5

LEMMA TypeAutoUnlock ==
  ASSUME NEW w \in Waves, TypeOK, AutoUnlock(w)
  PROVE  TypeOK'
<1> USE DEF TypeOK, AutoUnlock
<1>1. TimesOK'
  BY DEF TimesOK, timeVars, actionVars
<1>2. OutcomeOK'
  BY DEF OutcomeOK, outcomeVars
<1>3. UnlocksOK'
  <2>1. \A o \in Players : AutoPick(w, unlocked[o]) \in Kinds
    BY AutoPickOffered DEF UnlocksOK
  <2>2. unlocked' \in [Players -> SUBSET Kinds]
    BY <2>1 DEF UnlocksOK
  <2>3. choice' \in [Players -> [Waves -> Kinds \cup {NoKind}]]
    BY <2>1 DEF UnlocksOK
  <2>4. processed' \in [Players -> SUBSET Waves]
    BY DEF UnlocksOK
  <2>5. QED BY <2>2, <2>3, <2>4 DEF UnlocksOK
<1>4. PiecesOK'
  BY PiecesKept DEF TimesOK, timeVars
<1>5. TickOK'
  BY DEF TickOK, tickVars
<1>6. QED BY <1>1, <1>2, <1>3, <1>4, <1>5

\* Pieces that fall keep their types.
LEMMA PiecesFall ==
  ASSUME NEW fallen \in SUBSET Pieces, TimesOK, PiecesOK, UNCHANGED clock,
         pieces' = [p \in Pieces |-> IF p \in fallen THEN MarkDead(pieces[p]) ELSE pieces[p]]
  PROVE  PiecesOK'
<1>1. \A p \in Pieces : pieces[p] \in PieceStates
  BY DEF PiecesOK
<1>2. \A p \in Pieces : /\ MarkDead(pieces[p]) \in PieceStates
                        /\ MarkDead(pieces[p]).start = 0 /\ ~MarkDead(pieces[p]).moving
  BY <1>1, MarkDeadPiece
<1>3. pieces' \in [Pieces -> PieceStates]
  BY <1>1, <1>2
<1>4. \A p \in Pieces : pieces'[p].start <= clock'
  BY <1>2 DEF TimesOK, PiecesOK
<1>5. \A p \in Pieces : pieces'[p].moving => pieces'[p].path # << >>
  BY <1>2 DEF PiecesOK
<1>6. QED BY <1>3, <1>4, <1>5 DEF PiecesOK

LEMMA TypeContacts == TypeOK /\ Contacts => TypeOK'
<1> SUFFICES ASSUME TypeOK, Contacts PROVE TypeOK'
  OBVIOUS
<1> USE DEF TypeOK, Contacts
<1>1. TimesOK'
  BY DEF TimesOK, timeVars
<1>2. OutcomeOK'
  BY DEF OutcomeOK, outcomeVars
<1>3. UnlocksOK'
  BY DEF UnlocksOK, unlockVars
<1>4. PiecesOK'
  BY PiecesFall DEF timeVars, Victims
<1>5. TickOK'
  BY DEF TickOK, MovingContacts
<1>6. QED BY <1>1, <1>2, <1>3, <1>4, <1>5

LEMMA TypeDuel ==
  ASSUME NEW a \in Pieces, NEW b \in Pieces, TypeOK, Duel(a, b)
  PROVE  TypeOK'
<1> USE DEF TypeOK, Duel
<1>1. TimesOK'
  BY DEF TimesOK, timeVars
<1>2. OutcomeOK'
  BY DEF OutcomeOK, outcomeVars
<1>3. UnlocksOK'
  BY DEF UnlocksOK, unlockVars
<1>4. PiecesOK'
  <2>1. Fallen(a, b) \in SUBSET Pieces
    BY DEF Fallen, Losers
  <2>2. QED BY <2>1, PiecesFall DEF timeVars
<1>5. TickOK'
  BY DEF TickOK
<1>6. QED BY <1>1, <1>2, <1>3, <1>4, <1>5

LEMMA VerdictType ==
  Verdict \in {GoesOn, "both generals dead", "general captured", "no legal action", "no capture"}
BY DEF Verdict

LEMMA WinnerType ==
  ASSUME LivingSides # {}
  PROVE  (CHOOSE o \in Players : o \in LivingSides) \in Players \cap LivingSides
<1>1. LivingSides \subseteq Players
  BY PieceFacts DEF LivingSides, Generals
<1>2. QED BY <1>1

\* The end of a tick, piece by piece: who arrived rests on its target, everyone
\* else stays as it was; nobody falls.
LEMMA SettledPiece ==
  ASSUME TypeOK, NEW p \in Pieces, p \in arrived /\ pieces[p].alive => pieces[p].moving
  PROVE  /\ Settled[p] \in PieceStates
         /\ Settled[p].alive = pieces[p].alive
         /\ IF p \in arrived /\ pieces[p].alive
            THEN /\ Settled[p].cell = Target(pieces[p])
                 /\ ~Settled[p].moving /\ Settled[p].start = 0
            ELSE /\ Settled[p].cell = pieces[p].cell /\ Settled[p].moving = pieces[p].moving
                 /\ Settled[p].start = pieces[p].start /\ Settled[p].path = pieces[p].path
<1> DEFINE ends == p \in arrived /\ pieces[p].alive
           ended == IF ends THEN FinishMove(Kind(p), pieces[p], tickAt) ELSE pieces[p]
<1>1. pieces[p] \in PieceStates /\ Kind(p) \in Kinds
  BY PieceFacts DEF TypeOK, PiecesOK
<1>2. tickAt \in Nat
  BY DEF TypeOK, TimesOK
<1>3. ends => pieces[p].path # << >>
  BY DEF TypeOK, PiecesOK
<1>4. Settled[p] = Announce(ended)
  BY DEF Settled
<1>5. CASE ends
  <2> DEFINE m == FinishMove(Kind(p), pieces[p], tickAt)
  <2>1. /\ m \in PieceStates /\ m.cell = Target(pieces[p]) /\ m.alive = pieces[p].alive
        /\ ~m.moving /\ m.start = 0
    BY <1>1, <1>2, <1>3, <1>5, FinishMovePiece
  <2>2. Settled[p] = Announce(m)
    BY <1>4, <1>5
  <2> HIDE DEF m
  <2>3. QED BY <1>5, <2>1, <2>2, AnnouncePiece
<1>6. CASE ~ends
  <2>1. Settled[p] = Announce(pieces[p])
    BY <1>4, <1>6
  <2>2. QED BY <1>1, <1>6, <2>1, AnnouncePiece
<1>7. QED BY <1>5, <1>6

LEMMA FinishTickPieces ==
  ASSUME TypeOK, ArrivedAreDue, FinishTick, NEW p \in Pieces
  PROVE  /\ pieces'[p] \in PieceStates
         /\ pieces'[p].alive = pieces[p].alive
         /\ IF p \in arrived /\ pieces[p].alive
            THEN /\ pieces'[p].cell = Target(pieces[p])
                 /\ ~pieces'[p].moving /\ pieces'[p].start = 0
            ELSE /\ pieces'[p].cell = pieces[p].cell /\ pieces'[p].moving = pieces[p].moving
                 /\ pieces'[p].start = pieces[p].start /\ pieces'[p].path = pieces[p].path
<1>1. p \in arrived /\ pieces[p].alive => pieces[p].moving
  BY DEF FinishTick, ArrivedAreDue, IsArrived
<1>2. pieces' = Settled
  BY DEF FinishTick
<1>3. QED BY <1>1, <1>2, SettledPiece

LEMMA TypeFinishTick ==
  ASSUME TypeOK, ArrivedAreDue, FinishTick
  PROVE  TypeOK'
<1> USE DEF TypeOK
<1>1. TimesOK'
  BY DEF TimesOK, FinishTick, timeVars, actionVars
<1>2. OutcomeOK'
  <2>1. reason' \in {GoesOn, "both generals dead", "general captured", "no legal action",
                     "no capture", "resign"}
    BY VerdictType DEF FinishTick
  <2>2. winner' \in Players \cup {NoPlayer}
    <3>1. Verdict = "general captured" => LivingSides # {}
      BY DEF Verdict, GoesOn
    <3>2. QED BY <3>1, WinnerType DEF FinishTick
  <2>3. QED BY <2>1, <2>2 DEF OutcomeOK, FinishTick
<1>3. UnlocksOK'
  BY DEF UnlocksOK, FinishTick, unlockVars
<1>4. PiecesOK'
  <2>1. \A p \in Pieces : pieces'[p] \in PieceStates
    BY FinishTickPieces
  <2>2. \A p \in Pieces : pieces'[p].start = 0 \/ pieces'[p].start = pieces[p].start
    BY FinishTickPieces
  <2>3. \A p \in Pieces : pieces'[p].moving =>
                            pieces[p].moving /\ pieces'[p].path = pieces[p].path
    BY FinishTickPieces
  <2>4. clock' = clock /\ clock \in Nat
    BY DEF FinishTick, timeVars, TimesOK
  <2>5. DOMAIN pieces' = Pieces /\ pieces' = [p \in Pieces |-> pieces'[p]]
    BY DEF FinishTick, Settled
  <2>6. pieces' \in [Pieces -> PieceStates]
    BY <2>1, <2>5
  <2>7. \A p \in Pieces : pieces'[p].start <= clock'
    BY <2>2, <2>4 DEF PiecesOK
  <2>8. \A p \in Pieces : pieces'[p].moving => pieces'[p].path # << >>
    BY <2>3 DEF PiecesOK
  <2>9. QED BY <2>6, <2>7, <2>8 DEF PiecesOK
<1>5. TickOK'
  BY DEF TickOK, FinishTick
<1>6. QED BY <1>1, <1>2, <1>3, <1>4, <1>5

\* A command to move, piece by piece.
LEMMA MovePieces ==
  ASSUME NEW p \in Pieces, NEW b, TypeOK, Move(p, b)
  PROVE  LET path == BuildPath(Kind(p), pieces[p].cell, b)
         IN  /\ path \in Seq(Cells) /\ path # << >>
             /\ pieces[p].alive /\ ~pieces[p].moving
             /\ pieces' = [pieces EXCEPT ![p] = StartMove(pieces[p], path, clock)]
<1>1. pieces \in [Pieces -> PieceStates] /\ clock \in Nat
  BY DEF TypeOK, PiecesOK, TimesOK
<1>2. ValidateMove(p, b, pieces, clock)
  BY DEF Move, MayMove
<1>3. QED BY <1>1, <1>2, PathOfLegalMove DEF Move, ValidateMove

LEMMA TypeMove ==
  ASSUME NEW p \in Pieces, NEW b, TypeOK, Move(p, b)
  PROVE  TypeOK'
<1> USE DEF TypeOK
<1>1. TimesOK'
  BY DEF TimesOK, Move, timeVars
<1>2. OutcomeOK'
  BY DEF OutcomeOK, Move, outcomeVars
<1>3. UnlocksOK'
  BY DEF UnlocksOK, Move, unlockVars
<1>4. PiecesOK'
  <2> DEFINE path == BuildPath(Kind(p), pieces[p].cell, b)
             m == StartMove(pieces[p], path, clock)
  <2>1. path \in Seq(Cells) /\ path # << >> /\ pieces' = [pieces EXCEPT ![p] = m]
    BY MovePieces
  <2>2. pieces \in [Pieces -> PieceStates] /\ clock \in Nat
    BY DEF PiecesOK, TimesOK
  <2>3. m \in PieceStates /\ m.start = clock /\ m.path # << >>
    BY <2>1, <2>2, StartMovePiece
  <2>4. clock' = clock
    BY DEF Move, timeVars
  <2> HIDE DEF m, path
  <2>5. pieces' \in [Pieces -> PieceStates]
    BY <2>1, <2>2, <2>3
  <2>6. \A q \in Pieces : pieces'[q] = IF q = p THEN m ELSE pieces[q]
    BY <2>1, <2>2
  <2>7. \A q \in Pieces : pieces'[q].start <= clock'
    BY <2>2, <2>3, <2>4, <2>6 DEF PiecesOK
  <2>8. \A q \in Pieces : pieces'[q].moving => pieces'[q].path # << >>
    BY <2>3, <2>6 DEF PiecesOK
  <2>9. QED BY <2>5, <2>7, <2>8 DEF PiecesOK
<1>5. TickOK'
  BY DEF TickOK, Move, tickVars
<1>6. QED BY <1>1, <1>2, <1>3, <1>4, <1>5

LEMMA TypeChooseUnlock ==
  ASSUME NEW o \in Players, NEW kind \in Kinds, TypeOK, ChooseUnlock(o, kind)
  PROVE  TypeOK'
<1> USE DEF TypeOK
<1>1. TimesOK'
  BY DEF TimesOK, ChooseUnlock, timeVars, actionVars
<1>2. OutcomeOK'
  BY DEF OutcomeOK, ChooseUnlock, outcomeVars
<1>3. UnlocksOK'
  <2>1. unlocked' \in [Players -> SUBSET Kinds]
    BY DEF UnlocksOK, ChooseUnlock
  <2>2. PICK w \in Waves : choice' = [choice EXCEPT ![o][w] = kind]
    BY CurrentWaveIsOpen DEF ChooseUnlock, MayChoose, TimesOK
  <2>3. choice' \in [Players -> [Waves -> Kinds \cup {NoKind}]]
    BY <2>2 DEF UnlocksOK
  <2>4. QED BY <2>1, <2>3 DEF UnlocksOK, ChooseUnlock
<1>4. PiecesOK'
  BY PiecesKept DEF TimesOK, ChooseUnlock, timeVars
<1>5. TickOK'
  BY DEF TickOK, ChooseUnlock, tickVars
<1>6. QED BY <1>1, <1>2, <1>3, <1>4, <1>5

\* resign, leave and reconnect touch the outcome and the lifecycle only.
LEMMA TypeOther ==
  ASSUME NEW o \in Players, TypeOK, Resign(o) \/ Leave(o) \/ Reconnect(o)
  PROVE  TypeOK'
<1> USE DEF TypeOK
<1>1. UNCHANGED <<timeVars, phase, unlockVars, pieces, actionVars, tickVars>>
  BY DEF Resign, Leave, Reconnect
<1>2. TimesOK'
  BY <1>1 DEF TimesOK, timeVars, actionVars
<1>3. OutcomeOK'
  <2>1. CASE Resign(o)
    BY <2>1 DEF Resign, OutcomeOK, Opponent, Players
  <2>2. CASE Leave(o)
    BY <2>2 DEF Leave, OutcomeOK, outcomeVars
  <2>3. CASE Reconnect(o)
    BY <2>3 DEF Reconnect, OutcomeOK, outcomeVars
  <2>4. QED BY <2>1, <2>2, <2>3
<1>4. UnlocksOK'
  BY <1>1 DEF UnlocksOK, unlockVars
<1>5. PiecesOK'
  BY <1>1, PiecesKept DEF TimesOK, timeVars
<1>6. TickOK'
  BY <1>1 DEF TickOK, tickVars
<1>7. QED BY <1>2, <1>3, <1>4, <1>5, <1>6

-----------------------------------------------------------------------------
(* Contacts *)

\* The cells a piece holds follow from five of its fields.
LEMMA SameCells ==
  ASSUME NEW kind, NEW t, NEW m, NEW n, m.cell = n.cell, m.alive = n.alive,
         m.moving = n.moving, m.start = n.start, m.path = n.path
  PROVE  RuntimeCells(kind, m, t) = RuntimeCells(kind, n, t)
<1>1. \A i : Point(m, i) = Point(n, i)
  BY DEF Point
<1>2. MoveEnd(kind, m) = MoveEnd(kind, n) /\ Target(m) = Target(n)
      /\ Travelled(m, t) = Travelled(n, t)
  BY DEF MoveEnd, Target, Travelled
<1>3. QED BY <1>1, <1>2 DEF RuntimeCells

\* What a piece holds at the time of the latest tick.
LEMMA CellsOfPiece ==
  ASSUME TypeOK, NEW p \in Pieces
  PROVE  /\ ~pieces[p].alive => CellsOf(p) = {}
         /\ Resting(p) => CellsOf(p) = {pieces[p].cell}
         /\ IsArrived(Kind(p), pieces[p], tickAt) => CellsOf(p) = {Target(pieces[p])}
         /\ Mover(p) /\ tickAt <= pieces[p].start => CellsOf(p) = {pieces[p].cell}
<1>1. pieces[p] \in PieceStates /\ tickAt \in Nat /\ Kind(p) \in Kinds
      /\ (pieces[p].moving => pieces[p].path # << >>)
  BY PieceFacts DEF TypeOK, PiecesOK, TimesOK
<1>2. QED BY <1>1, HeldCells DEF CellsOf, Resting, Mover, IsArrived

\* A piece that sets off after the latest tick holds, as of that tick, the cell it
\* held before: a command creates no contact by itself.
LEMMA MoveKeepsCells ==
  ASSUME TypeOK, NEW p \in Pieces, NEW b, Move(p, b), NEW q \in Pieces
  PROVE  CellsOf(q)' = CellsOf(q)
<1> DEFINE path == BuildPath(Kind(p), pieces[p].cell, b)
           m == StartMove(pieces[p], path, clock)
<1>1. path \in Seq(Cells) /\ path # << >> /\ pieces[p].alive /\ ~pieces[p].moving
      /\ pieces' = [pieces EXCEPT ![p] = m]
  BY MovePieces
<1>2. pieces[p] \in PieceStates /\ clock \in Nat /\ tickAt \in Nat /\ tickAt <= clock
      /\ pieces \in [Pieces -> PieceStates] /\ Kind(p) \in Kinds
  BY PieceFacts DEF TypeOK, PiecesOK, TimesOK
<1>3. tickAt' = tickAt
  BY DEF Move, timeVars
<1>4. /\ m \in PieceStates /\ m.cell = pieces[p].cell /\ m.alive /\ m.moving
      /\ m.start = clock /\ m.path = path
  BY <1>1, <1>2, StartMovePiece
<1> HIDE DEF m, path
<1>5. CASE q = p
  <2>1. RuntimeCells(Kind(p), m, tickAt) = {m.cell}
    BY <1>1, <1>2, <1>4, HeldCells
  <2>2. CellsOf(p) = {pieces[p].cell}
    BY <1>1, CellsOfPiece DEF Resting
  <2>3. pieces'[p] = m
    BY <1>1, <1>2
  <2>4. QED BY <1>3, <1>4, <1>5, <2>1, <2>2, <2>3 DEF CellsOf
<1>6. CASE q # p
  <2>1. pieces'[q] = pieces[q]
    BY <1>1, <1>2, <1>6
  <2>2. QED BY <1>3, <2>1 DEF CellsOf
<1>7. QED BY <1>5, <1>6

LEMMA FinishTickKeepsCells ==
  ASSUME TypeOK, ArrivedAreDue, FinishTick, NEW p \in Pieces
  PROVE  CellsOf(p)' = CellsOf(p)
<1>1. tickAt' = tickAt
  BY DEF FinishTick, timeVars
<1>2. TypeOK'
  BY TypeFinishTick
<1>3. CASE p \in arrived /\ pieces[p].alive
  <2>1. pieces'[p].cell = Target(pieces[p]) /\ ~pieces'[p].moving /\ pieces'[p].alive
    BY <1>3, FinishTickPieces
  <2>2. CellsOf(p)' = {pieces'[p].cell}
    BY <2>1 DEF CellsOf, RuntimeCells
  <2>3. CellsOf(p) = {Target(pieces[p])}
    BY <1>3, CellsOfPiece DEF ArrivedAreDue, FinishTick
  <2>4. QED BY <2>1, <2>2, <2>3
<1>4. CASE ~(p \in arrived /\ pieces[p].alive)
  <2>1. /\ pieces'[p].cell = pieces[p].cell /\ pieces'[p].alive = pieces[p].alive
        /\ pieces'[p].moving = pieces[p].moving /\ pieces'[p].start = pieces[p].start
        /\ pieces'[p].path = pieces[p].path
    BY <1>4, FinishTickPieces
  <2>2. RuntimeCells(Kind(p), pieces'[p], tickAt) = RuntimeCells(Kind(p), pieces[p], tickAt)
    BY <2>1, SameCells
  <2>3. QED BY <1>1, <2>2 DEF CellsOf
<1>5. QED BY <1>3, <1>4

\* Pieces that fall hold nothing, the others what they held.
LEMMA FallKeepsCells ==
  ASSUME TypeOK, UNCHANGED tickAt, NEW fallen \in SUBSET Pieces, NEW p \in Pieces,
         pieces' = [q \in Pieces |-> IF q \in fallen THEN MarkDead(pieces[q]) ELSE pieces[q]]
  PROVE  /\ p \in fallen => ~pieces'[p].alive /\ CellsOf(p)' = {}
         /\ p \notin fallen => pieces'[p] = pieces[p] /\ CellsOf(p)' = CellsOf(p)
<1>1. pieces[p] \in PieceStates
  BY DEF TypeOK, PiecesOK
<1>2. CASE p \in fallen
  <2>1. pieces'[p] = MarkDead(pieces[p])
    BY <1>2
  <2>2. ~pieces'[p].alive
    BY <1>1, <2>1, MarkDeadPiece
  <2>3. QED BY <1>2, <2>2 DEF CellsOf, RuntimeCells
<1>3. CASE p \notin fallen
  BY <1>3 DEF CellsOf
<1>4. QED BY <1>2, <1>3

\* The inductive invariant: what touches is listed while a tick settles contacts,
\* and nothing touches between ticks.
IInv == TypeOK /\ ListsStayTrue /\ ContactFree

LEMMA InvInit == Init => IInv
<1> SUFFICES ASSUME Init PROVE IInv
  OBVIOUS
<1>1. TypeOK
  BY TypeInit
<1>2. ListsStayTrue
  BY DEF Init, ListsStayTrue, RestingApart, ListedMeet, ArrivedAreDue, TouchingListed
<1>3. ContactFree
  <2>1. \A p \in Pieces : Resting(p) /\ pieces[p].cell = InitialBoard[p].cell
    BY DEF Init, Resting
  <2>2. \A p \in Pieces : CellsOf(p) = {InitialBoard[p].cell}
    BY <1>1, <2>1, CellsOfPiece
  <2>3. \A p, q \in Pieces : p # q => InitialBoard[p].cell # InitialBoard[q].cell
    BY BoardAssumption
  <2>4. \A p, q \in Pieces : Enemies(p, q) => p # q
    BY DEF Enemies
  <2>5. QED BY <2>2, <2>3, <2>4 DEF ContactFree
<1>4. QED BY <1>1, <1>2, <1>3 DEF IInv

\* Between ticks, steps that keep the cells of all pieces keep the invariant.
LEMMA IdleKeepsInv ==
  ASSUME IInv, TypeOK', Idle, UNCHANGED pc, \A p \in Pieces : CellsOf(p)' = CellsOf(p)
  PROVE  IInv'
<1>1. pc = "idle" /\ pc' = "idle"
  BY DEF Idle
<1>2. ListsStayTrue'
  BY <1>1 DEF ListsStayTrue, RestingApart, ListedMeet, ArrivedAreDue, TouchingListed
<1>3. ContactFree'
  BY <1>1 DEF IInv, ContactFree, Idle
<1>4. QED BY <1>2, <1>3 DEF IInv

LEMMA InvTickBegin == IInv /\ TickBegin => IInv'
<1> SUFFICES ASSUME IInv, TickBegin PROVE IInv'
  OBVIOUS
<1>1. TypeOK'
  BY TypeTickBegin DEF IInv
<1>2. pc = "idle" /\ pc' = "unlock" /\ pieces' = pieces
  BY DEF TickBegin, Idle
<1>3. RestingApart'
  <2> SUFFICES ASSUME NEW p \in Pieces, NEW q \in Pieces, Enemies(p, q),
                      Resting(p), Resting(q)
               PROVE  pieces[p].cell # pieces[q].cell
    BY <1>2 DEF RestingApart, Resting
  <2>1. CellsOf(p) \cap CellsOf(q) = {}
    BY <1>2 DEF IInv, ContactFree, Idle
  <2>2. CellsOf(p) = {pieces[p].cell} /\ CellsOf(q) = {pieces[q].cell}
    BY CellsOfPiece DEF IInv
  <2>3. QED BY <2>1, <2>2
<1>4. ListsStayTrue' /\ ContactFree'
  BY <1>2, <1>3 DEF ListsStayTrue, ListedMeet, ArrivedAreDue, TouchingListed, ContactFree, Idle
<1>5. QED BY <1>1, <1>4 DEF IInv

LEMMA InvAutoUnlock ==
  ASSUME NEW w \in Waves, IInv, AutoUnlock(w)
  PROVE  IInv'
<1>1. TypeOK'
  BY TypeAutoUnlock DEF IInv
<1>2. pc = "unlock" /\ pc' = pc /\ pieces' = pieces
  BY DEF AutoUnlock, tickVars
<1>3. RestingApart'
  BY <1>2 DEF IInv, ListsStayTrue, RestingApart, Resting
<1>4. ListsStayTrue' /\ ContactFree'
  BY <1>2, <1>3 DEF ListsStayTrue, ListedMeet, ArrivedAreDue, TouchingListed, ContactFree, Idle
<1>5. QED BY <1>1, <1>4 DEF IInv

\* After the captures of resting pieces only pairs of movers still touch, and all
\* of them are listed.
LEMMA InvContacts == IInv /\ Contacts => IInv'
<1> SUFFICES ASSUME IInv, Contacts PROVE IInv'
  OBVIOUS
<1>1. TypeOK /\ TypeOK' /\ RestingApart
  BY TypeContacts DEF IInv, ListsStayTrue
<1>2. /\ pc = "unlock" /\ pc' = "duels" /\ tickAt' = tickAt /\ Victims \in SUBSET Pieces
      /\ duels' = MovingContacts
      /\ arrived' = {p \in Pieces : IsArrived(Kind(p), pieces[p], tickAt)}
      /\ pieces' = [p \in Pieces |-> IF p \in Victims THEN MarkDead(pieces[p]) ELSE pieces[p]]
  BY DEF Contacts, timeVars, Victims
<1>3. \A p \in Pieces :
        /\ p \in Victims => ~pieces'[p].alive /\ CellsOf(p)' = {}
        /\ p \notin Victims => pieces'[p] = pieces[p] /\ CellsOf(p)' = CellsOf(p)
  BY <1>1, <1>2, FallKeepsCells
<1>4. ListedMeet'
  <2> SUFFICES ASSUME NEW d \in MovingContacts
               PROVE  /\ d[1] < d[2] /\ Enemies(d[1], d[2])
                      /\ pieces'[d[1]].alive /\ pieces'[d[2]].alive =>
                           Mover(d[1])' /\ Mover(d[2])' /\ CellsOf(d[1])' \cap CellsOf(d[2])' # {}
    BY <1>2 DEF ListedMeet
  <2>1. /\ d[1] \in Pieces /\ d[2] \in Pieces /\ d[1] < d[2] /\ Enemies(d[1], d[2])
        /\ Mover(d[1]) /\ Mover(d[2]) /\ CellsOf(d[1]) \cap CellsOf(d[2]) # {}
    BY DEF MovingContacts
  <2>2. d[1] \notin Victims /\ d[2] \notin Victims
    BY <2>1 DEF Victims, Mover, Resting
  <2>3. QED BY <1>3, <2>1, <2>2 DEF Mover
<1>5. ArrivedAreDue'
  <2> SUFFICES ASSUME NEW p \in Pieces, IsArrived(Kind(p), pieces[p], tickAt), pieces'[p].alive
               PROVE  IsArrived(Kind(p), pieces'[p], tickAt')
    BY <1>2 DEF ArrivedAreDue
  <2>1. QED BY <1>2, <1>3
<1>6. TouchingListed'
  <2> SUFFICES ASSUME NEW p \in Pieces, NEW q \in Pieces, p < q, Enemies(p, q),
                      CellsOf(p)' \cap CellsOf(q)' # {}
               PROVE  <<p, q>> \in MovingContacts
    BY <1>2 DEF TouchingListed
  <2>1. p \notin Victims /\ q \notin Victims /\ CellsOf(p) \cap CellsOf(q) # {}
    BY <1>3
  <2>2. pieces[p].alive /\ pieces[q].alive
    BY <1>1, <2>1, CellsOfPiece
  <2>3. Enemies(q, p)
    BY DEF Enemies
  <2>4. ~(Resting(p) /\ Resting(q))
    BY <1>1, <1>2, <2>1, CellsOfPiece DEF RestingApart
  <2>5. ~(Resting(p) /\ Mover(q))
    BY <1>1, <2>1, <2>3, CellsOfPiece DEF Victims
  <2>6. ~(Mover(p) /\ Resting(q))
    BY <1>1, <2>1, CellsOfPiece DEF Victims
  <2>7. Mover(p) /\ Mover(q)
    BY <2>2, <2>4, <2>5, <2>6 DEF Mover, Resting
  <2>8. QED BY <2>1, <2>7 DEF MovingContacts
<1>7. ListsStayTrue' /\ ContactFree'
  BY <1>2, <1>4, <1>5, <1>6 DEF ListsStayTrue, RestingApart, ContactFree, Idle
<1>8. QED BY <1>1, <1>7 DEF IInv

\* Settling a pair that touches fells at least one of the two.
LEMMA InvDuel ==
  ASSUME NEW a \in Pieces, NEW b \in Pieces, IInv, Duel(a, b)
  PROVE  IInv'
<1> DEFINE fallen == Fallen(a, b)
<1>1. TypeOK /\ TypeOK' /\ ListedMeet /\ ArrivedAreDue /\ TouchingListed
  BY TypeDuel DEF IInv, ListsStayTrue
<1>2. /\ pc = "duels" /\ pc' = "duels" /\ tickAt' = tickAt /\ arrived' = arrived
      /\ <<a, b>> \in duels /\ duels' = duels \ {<<a, b>>} /\ fallen \in SUBSET Pieces
      /\ pieces' = [p \in Pieces |-> IF p \in fallen THEN MarkDead(pieces[p]) ELSE pieces[p]]
  BY DEF Duel, timeVars, Fallen, Losers
<1>3. pieces[a].alive /\ pieces[b].alive => fallen # {}
  <2>1. a < b
    BY <1>1, <1>2 DEF ListedMeet
  <2>2. pieces[a].start \in Nat /\ pieces[b].start \in Nat /\ a \in Nat /\ b \in Nat
    BY <1>1, PieceFacts DEF TypeOK, PiecesOK, PieceStates
  <2>3. pieces[a].start <= pieces[b].start \/ pieces[b].start <= pieces[a].start
    BY <2>2
  <2>4. a # b
    BY <2>1, <2>2
  <2>5. Losers(a, b) # {}
    BY <2>3, <2>4 DEF Losers
  <2>6. QED BY <2>5 DEF Fallen
<1>4. fallen \subseteq {a, b}
  BY DEF Fallen, Losers
<1> HIDE DEF fallen
<1>5. \A p \in Pieces :
        /\ p \in fallen => ~pieces'[p].alive /\ CellsOf(p)' = {}
        /\ p \notin fallen => pieces'[p] = pieces[p] /\ CellsOf(p)' = CellsOf(p)
  BY <1>1, <1>2, FallKeepsCells
<1>6. ListedMeet'
  <2> SUFFICES ASSUME NEW d \in duels
               PROVE  /\ d[1] < d[2] /\ Enemies(d[1], d[2])
                      /\ pieces'[d[1]].alive /\ pieces'[d[2]].alive =>
                           Mover(d[1])' /\ Mover(d[2])' /\ CellsOf(d[1])' \cap CellsOf(d[2])' # {}
    BY <1>2 DEF ListedMeet
  <2>1. d[1] \in Pieces /\ d[2] \in Pieces
    BY <1>1 DEF TypeOK, TickOK
  <2>2. QED BY <1>1, <1>2, <1>5, <2>1 DEF ListedMeet, Mover
<1>7. ArrivedAreDue'
  <2> SUFFICES ASSUME NEW p \in arrived, pieces'[p].alive
               PROVE  IsArrived(Kind(p), pieces'[p], tickAt')
    BY <1>2 DEF ArrivedAreDue
  <2>1. p \in Pieces
    BY <1>1 DEF TypeOK, TickOK
  <2>2. QED BY <1>1, <1>2, <1>5, <2>1 DEF ArrivedAreDue
<1>8. TouchingListed'
  <2> SUFFICES ASSUME NEW p \in Pieces, NEW q \in Pieces, p < q, Enemies(p, q),
                      CellsOf(p)' \cap CellsOf(q)' # {}
               PROVE  <<p, q>> \in duels'
    BY <1>2 DEF TouchingListed
  <2>1. p \notin fallen /\ q \notin fallen /\ CellsOf(p) \cap CellsOf(q) # {}
    BY <1>5
  <2>2. <<p, q>> \in duels
    BY <1>1, <1>2, <2>1 DEF TouchingListed
  <2>3. pieces[p].alive /\ pieces[q].alive
    BY <1>1, <2>1, CellsOfPiece
  <2>4. <<p, q>> # <<a, b>>
    BY <1>3, <1>4, <2>1, <2>3
  <2>5. QED BY <1>2, <2>2, <2>4
<1>9. ListsStayTrue' /\ ContactFree'
  BY <1>2, <1>6, <1>7, <1>8 DEF ListsStayTrue, RestingApart, ContactFree, Idle
<1>10. QED BY <1>1, <1>9 DEF IInv

LEMMA InvFinishTick == IInv /\ FinishTick => IInv'
<1> SUFFICES ASSUME IInv, FinishTick PROVE IInv'
  OBVIOUS
<1>1. TypeOK /\ ArrivedAreDue /\ TouchingListed
  BY DEF IInv, ListsStayTrue
<1>2. TypeOK'
  BY <1>1, TypeFinishTick
<1>3. pc = "duels" /\ duels = {} /\ pc' = "idle"
  BY DEF FinishTick
<1>4. \A p \in Pieces : CellsOf(p)' = CellsOf(p)
  BY <1>1, FinishTickKeepsCells
<1>5. ContactFree'
  <2> SUFFICES ASSUME NEW p \in Pieces, NEW q \in Pieces, Enemies(p, q)
               PROVE  CellsOf(p)' \cap CellsOf(q)' = {}
    BY DEF ContactFree
  <2>1. p \in Nat /\ q \in Nat /\ p # q /\ Enemies(q, p)
    BY PieceFacts DEF Enemies
  <2>2. p < q \/ q < p
    BY <2>1
  <2>3. CellsOf(p) \cap CellsOf(q) = {}
    BY <1>1, <1>3, <2>1, <2>2 DEF TouchingListed
  <2>4. QED BY <1>4, <2>3
<1>6. ListsStayTrue'
  BY <1>3 DEF ListsStayTrue, RestingApart, ListedMeet, ArrivedAreDue, TouchingListed
<1>7. QED BY <1>2, <1>5, <1>6 DEF IInv

LEMMA InvCommand == IInv /\ Command => IInv'
<1> SUFFICES ASSUME IInv, Command PROVE IInv'
  OBVIOUS
<1>1. TypeOK
  BY DEF IInv
<1>2. ASSUME NEW p \in Pieces, NEW b, Move(p, b) PROVE IInv'
  <2>1. TypeOK' /\ \A q \in Pieces : CellsOf(q)' = CellsOf(q)
    BY <1>1, <1>2, TypeMove, MoveKeepsCells
  <2>2. Idle /\ UNCHANGED pc
    BY <1>2 DEF Move, MayCommand, tickVars
  <2>3. QED BY <2>1, <2>2, IdleKeepsInv
<1>3. ASSUME NEW o \in Players, NEW kind \in Kinds, ChooseUnlock(o, kind) PROVE IInv'
  <2>1. TypeOK'
    BY <1>1, <1>3, TypeChooseUnlock
  <2>2. Idle /\ UNCHANGED pc /\ pieces' = pieces /\ tickAt' = tickAt
    BY <1>3 DEF ChooseUnlock, MayCommand, tickVars, timeVars
  <2>3. QED BY <2>1, <2>2, IdleKeepsInv DEF CellsOf
<1>4. ASSUME NEW o \in Players, Resign(o) \/ Leave(o) \/ Reconnect(o) PROVE IInv'
  <2>1. TypeOK'
    BY <1>1, <1>4, TypeOther
  <2>2. Idle /\ UNCHANGED pc /\ pieces' = pieces /\ tickAt' = tickAt
    BY <1>4 DEF Resign, Leave, Reconnect, MayCommand, tickVars, timeVars
  <2>3. QED BY <2>1, <2>2, IdleKeepsInv DEF CellsOf
<1>5. CASE \E aim \in Aims : Move(aim[1], aim[2])
  <2>1. PICK aim \in Aims : Move(aim[1], aim[2])
    BY <1>5
  <2>2. aim[1] \in Pieces
    BY InputAssumption
  <2>3. QED BY <1>2, <2>1, <2>2
<1>6. CASE \E wish \in Wishes : ChooseUnlock(wish[1], wish[2])
  <2>1. PICK wish \in Wishes : ChooseUnlock(wish[1], wish[2])
    BY <1>6
  <2>2. wish[1] \in Players /\ wish[2] \in Kinds
    BY InputAssumption
  <2>3. QED BY <1>3, <2>1, <2>2
<1>7. CASE \E o \in Resigners : Resign(o)
  BY <1>4, <1>7, InputAssumption
<1>8. CASE \E o \in Leavers : Leave(o) \/ Reconnect(o)
  BY <1>4, <1>8, InputAssumption
<1>9. QED BY <1>5, <1>6, <1>7, <1>8 DEF Command

LEMMA InvStep == IInv /\ [Next]_vars => IInv'
<1> SUFFICES ASSUME IInv, [Next]_vars PROVE IInv'
  OBVIOUS
<1>1. TypeOK
  BY DEF IInv
<1>2. CASE Elapse
  <2>1. TypeOK'
    BY <1>1, <1>2, TypeElapse
  <2>2. Idle /\ UNCHANGED pc /\ pieces' = pieces /\ tickAt' = tickAt
    BY <1>2 DEF Elapse, tickVars
  <2>3. QED BY <2>1, <2>2, IdleKeepsInv DEF CellsOf
<1>3. CASE TickStep
  BY <1>3, InvTickBegin, InvAutoUnlock, InvContacts, InvDuel, InvFinishTick DEF TickStep
<1>4. CASE Command
  BY <1>4, InvCommand
<1>5. CASE UNCHANGED vars
  <2>1. UNCHANGED <<clock, tickAt, status, winner, reason, phase, unlocked, choice, processed,
                    pieces, lastAction, lastCapture, lifecycle, pc, arrived, duels>>
    BY <1>5 DEF vars, timeVars, outcomeVars, unlockVars, actionVars, tickVars
  <2>2. TypeOK'
    BY <1>1, <2>1 DEF TypeOK, TimesOK, OutcomeOK, UnlocksOK, PiecesOK, TickOK
  <2>3. ListsStayTrue'
    BY <2>1 DEF IInv, ListsStayTrue, RestingApart, ListedMeet, ArrivedAreDue, TouchingListed,
                Resting, Mover, CellsOf
  <2>4. ContactFree'
    BY <2>1 DEF IInv, ContactFree, Idle, CellsOf
  <2>5. QED BY <2>2, <2>3, <2>4 DEF IInv
<1>6. QED BY <1>2, <1>3, <1>4, <1>5 DEF Next

LEMMA Invariance == Spec => []IInv
<1>1. Init => IInv
  BY InvInit
<1>2. IInv /\ [Next]_vars => IInv'
  BY InvStep
<1>3. QED BY <1>1, <1>2, PTL DEF Spec

\* The state of a match stays well typed, its clocks in order, its paths nonempty.
THEOREM TypeCorrect == Spec => []TypeOK
<1>1. IInv => TypeOK
  BY DEF IInv
<1>2. QED BY <1>1, Invariance, PTL

\* The lists of a tick stay true of the board while captures change it.
THEOREM ListsCorrect == Spec => []ListsStayTrue
<1>1. IInv => ListsStayTrue
  BY DEF IInv
<1>2. QED BY <1>1, Invariance, PTL

\* Between ticks no two living enemies hold a common cell, on every board, with
\* any number of pieces and however late the ticks come.
THEOREM ContactsSettled == Spec => []ContactFree
<1>1. IInv => ContactFree
  BY DEF IInv
<1>2. QED BY <1>1, Invariance, PTL
-----------------------------------------------------------------------------
(* Head-on meetings *)

\* p and q travel an edge between two cells in opposite directions, p the first to set
\* off along it and not yet over when q does.
HeadOn(p, i, q, j) ==
  /\ i \in 0 .. Len(pieces[p].path) - 1 /\ j \in 0 .. Len(pieces[q].path) - 1
  /\ Point(pieces[p], i) = Point(pieces[q], j + 1)
  /\ Point(pieces[p], i + 1) = Point(pieces[q], j)
  /\ LeavesPoint(p, i) <= LeavesPoint(q, j)
  /\ LeavesPoint(q, j) < LeavesPoint(p, i + 1)

\* A tick is due in time, and comes at the time of the clock.
Timely == clock <= tickAt + MaxLag /\ (~Idle => tickAt = clock)

\* A travelling piece takes a segment for each cell.
Paced ==
  \A p \in Pieces : Mover(p) =>
    Duration(Kind(p), pieces[p].path) = Segment * Len(pieces[p].path)

\* The tick that may be under way is the first since a head-on meeting began.
Slack == IF Idle THEN 0 ELSE MaxLag

NoneMissed ==
  \A p, q \in Pieces : Enemies(p, q) /\ Mover(p) /\ Mover(q) =>
    \A i, j \in Nat : HeadOn(p, i, q, j) => tickAt <= LeavesPoint(p, i) + Slack

PassInv == Timely /\ Paced /\ NoneMissed

LEMMA PointTimes ==
  ASSUME TypeOK, NEW p \in Pieces, NEW i \in Nat
  PROVE  /\ LeavesPoint(p, i) \in Nat /\ pieces[p].start <= LeavesPoint(p, i)
         /\ LeavesPoint(p, i + 1) = LeavesPoint(p, i) + Segment
         /\ LeavesPoint(p, i) = pieces[p].start + i * Segment
<1>1. pieces[p].start \in Nat /\ Segment \in Nat /\ i * Segment \in Nat
      /\ (i + 1) * Segment = i * Segment + Segment
  BY MoveAssumption DEF TypeOK, PiecesOK, PieceStates
<1> QED BY <1>1 DEF LeavesPoint

\* A mover holds, at the latest tick, the point it was next to then.
LEMMA MoverHolds ==
  ASSUME TypeOK, Paced, NEW p \in Pieces, Mover(p), NEW k \in 0 .. Len(pieces[p].path),
         pieces[p].start <= tickAt,
         LeavesPoint(p, k) - Segment < tickAt, tickAt < LeavesPoint(p, k) + Segment
  PROVE  Point(pieces[p], k) \in CellsOf(p)
<1>1. pieces[p] \in PieceStates /\ tickAt \in Nat /\ Kind(p) \in Kinds /\ pieces[p].path # << >>
  BY PieceFacts DEF TypeOK, PiecesOK, TimesOK, Mover
<1>2. Duration(Kind(p), pieces[p].path) = Segment * Len(pieces[p].path)
  BY DEF Paced
<1>3. /\ pieces[p].alive /\ pieces[p].moving
      /\ pieces[p].start + k * Segment - Segment < tickAt
      /\ tickAt < pieces[p].start + k * Segment + Segment
  <2>1. pieces[p].alive /\ pieces[p].moving
    BY DEF Mover
  <2>2. pieces[p].start + k * Segment - Segment < tickAt
    <3>1. pieces[p].start \in Nat /\ Segment \in Nat /\ Len(pieces[p].path) \in Nat
      BY <1>1, MoveAssumption DEF PieceStates
    <3>2. k * Segment \in Nat
      BY <3>1
    <3> QED BY <1>1, <3>1, <3>2 DEF LeavesPoint
  <2>3. tickAt < pieces[p].start + k * Segment + Segment
    BY Zenon DEF LeavesPoint
  <2> QED BY <2>1, <2>2, <2>3, Zenon
<1>4. Point(pieces[p], k) \in RuntimeCells(Kind(p), pieces[p], tickAt)
  BY <1>1, <1>2, <1>3, HoldsPoint
<1> QED BY <1>4 DEF CellsOf

\* Steps that make no mover, and give the ticks no more room than the lag, miss none.
LEMMA PassKept ==
  ASSUME TypeOK, TypeOK', PassInv, Timely',
         \A p \in Pieces : Mover(p)' =>
           /\ Mover(p) /\ pieces'[p].start = pieces[p].start /\ pieces'[p].path = pieces[p].path
           /\ pieces'[p].cell = pieces[p].cell,
         tickAt' + Slack <= tickAt + Slack'
  PROVE  PassInv'
<1>1. Paced'
  BY DEF PassInv, Paced
<1>2. Slack \in Nat /\ Slack' \in Nat /\ tickAt \in Nat /\ tickAt' \in Nat
  BY InputAssumption DEF Slack, TypeOK, TimesOK
<1>3. ASSUME NEW p \in Pieces, NEW q \in Pieces, Enemies(p, q), Mover(p)', Mover(q)',
             NEW i \in Nat, NEW j \in Nat, HeadOn(p, i, q, j)'
      PROVE  tickAt' <= LeavesPoint(p, i)' + Slack'
  <2>1. /\ Mover(p) /\ pieces'[p].start = pieces[p].start /\ pieces'[p].path = pieces[p].path
        /\ pieces'[p].cell = pieces[p].cell
        /\ Mover(q) /\ pieces'[q].start = pieces[q].start /\ pieces'[q].path = pieces[q].path
        /\ pieces'[q].cell = pieces[q].cell
    BY <1>3
  <2>2. /\ \A k : Point(pieces'[p], k) = Point(pieces[p], k)
        /\ \A k : Point(pieces'[q], k) = Point(pieces[q], k)
        /\ \A k : LeavesPoint(p, k)' = LeavesPoint(p, k)
        /\ \A k : LeavesPoint(q, k)' = LeavesPoint(q, k)
    BY <2>1 DEF Point, LeavesPoint
  <2>3. HeadOn(p, i, q, j)
    BY <1>3, <2>1, <2>2 DEF HeadOn
  <2>4. tickAt <= LeavesPoint(p, i) + Slack
    BY <1>3, <2>1, <2>3 DEF PassInv, NoneMissed
  <2>5. LeavesPoint(p, i) \in Nat
    BY PointTimes
  <2> QED BY <1>2, <2>2, <2>4, <2>5
<1>4. NoneMissed'
  BY <1>3 DEF NoneMissed
<1> QED BY <1>1, <1>4 DEF PassInv

\* When a tick has settled the contacts, two who live and are to meet head-on have not
\* begun to: at the first tick after that both would hold the cell the second comes from.
LEMMA NotBegun ==
  ASSUME MaxLag < Segment, IInv, PassInv, pc = "duels", duels = {},
         NEW p \in Pieces, NEW q \in Pieces, Enemies(p, q), Mover(p), Mover(q),
         NEW i \in Nat, NEW j \in Nat, HeadOn(p, i, q, j)
  PROVE  tickAt <= LeavesPoint(p, i)
<1>1. TypeOK /\ TouchingListed
  BY DEF IInv, ListsStayTrue
<1>2. tickAt = clock /\ tickAt \in Nat /\ pieces[p].start <= tickAt /\ pieces[q].start <= tickAt
  BY <1>1 DEF PassInv, Timely, Idle, TypeOK, TimesOK, PiecesOK
<1>3. tickAt <= LeavesPoint(p, i) + MaxLag
  BY DEF PassInv, NoneMissed, Slack, Idle
<1>4. /\ LeavesPoint(p, i) \in Nat /\ LeavesPoint(q, j) \in Nat
      /\ LeavesPoint(p, i + 1) = LeavesPoint(p, i) + Segment
      /\ LeavesPoint(p, i) <= LeavesPoint(q, j) /\ LeavesPoint(q, j) < LeavesPoint(p, i + 1)
      /\ Segment \in Nat /\ MaxLag \in Nat
  BY <1>1, PointTimes, MoveAssumption, InputAssumption DEF HeadOn
<1>5. i + 1 \in 0 .. Len(pieces[p].path) /\ j \in 0 .. Len(pieces[q].path)
  <2>1. Len(pieces[p].path) \in Nat /\ Len(pieces[q].path) \in Nat
    BY <1>1 DEF TypeOK, PiecesOK, PieceStates
  <2> QED BY <2>1 DEF HeadOn
<1> SUFFICES ASSUME ~(tickAt <= LeavesPoint(p, i)) PROVE FALSE
  OBVIOUS
<1>6. Point(pieces[p], i + 1) \in CellsOf(p)
  <2>1. LeavesPoint(p, i + 1) - Segment < tickAt /\ tickAt < LeavesPoint(p, i + 1) + Segment
    BY <1>2, <1>3, <1>4
  <2> QED BY <1>1, <1>2, <1>5, <2>1, MoverHolds DEF PassInv
<1>7. Point(pieces[q], j) \in CellsOf(q)
  <2>1. LeavesPoint(q, j) - Segment < tickAt /\ tickAt < LeavesPoint(q, j) + Segment
    BY <1>2, <1>3, <1>4
  <2> QED BY <1>1, <1>2, <1>5, <2>1, MoverHolds DEF PassInv
<1>8. CellsOf(p) \cap CellsOf(q) # {} /\ Enemies(q, p)
  BY <1>6, <1>7 DEF HeadOn, Enemies
<1>9. p < q \/ q < p
  <2>1. p \in Nat /\ q \in Nat /\ p # q
    BY PieceFacts DEF Enemies
  <2> QED BY <2>1
<1> QED BY <1>1, <1>8, <1>9 DEF TouchingListed

\* Who sets off meets nobody head-on who is already on the edge: between ticks nobody
\* holds the cell that an enemy rests on.
LEMMA PassMove ==
  ASSUME MaxLag < Segment, IInv, PassInv, NEW p \in Pieces, NEW b, Move(p, b)
  PROVE  PassInv'
<1> DEFINE path == BuildPath(Kind(p), pieces[p].cell, b)
           m == StartMove(pieces[p], path, clock)
<1>1. TypeOK /\ TypeOK' /\ Idle /\ Idle' /\ ContactFree
      /\ tickAt' = tickAt /\ clock' = clock /\ tickAt \in Nat /\ clock \in Nat /\ tickAt <= clock
  <2>1. TypeOK /\ ContactFree
    BY DEF IInv
  <2>2. TypeOK'
    BY <2>1, TypeMove
  <2>3. Idle /\ Idle' /\ tickAt' = tickAt /\ clock' = clock
    BY DEF Move, MayCommand, Idle, tickVars, timeVars
  <2>4. tickAt \in Nat /\ clock \in Nat /\ tickAt <= clock
    BY <2>1 DEF TypeOK, TimesOK
  <2> QED BY <2>1, <2>2, <2>3, <2>4
<1>2. /\ path \in Seq(Cells) /\ Resting(p)
      /\ pieces' = [pieces EXCEPT ![p] = m]
      /\ Duration(Kind(p), path) = Segment * Len(path)
  <2>1. pieces \in [Pieces -> PieceStates] /\ ValidateMove(p, b, pieces, clock)
    BY <1>1 DEF TypeOK, PiecesOK, Move, MayMove
  <2> QED BY <1>1, <2>1, MovePieces, PathOfLegalMove DEF Resting
<1>3. /\ m.cell = pieces[p].cell /\ m.start = clock /\ m.path = path
      /\ pieces \in [Pieces -> PieceStates] /\ pieces' \in [Pieces -> PieceStates]
  BY <1>1, <1>2, StartMovePiece DEF TypeOK, PiecesOK
<1> HIDE DEF m, path
<1>4. pieces'[p] = m /\ \A q \in Pieces \ {p} : pieces'[q] = pieces[q]
  BY <1>2, <1>3
<1>5. Timely'
  BY <1>1 DEF PassInv, Timely
<1>6. Paced'
  BY <1>2, <1>3, <1>4 DEF PassInv, Paced, Mover
<1>7. ASSUME NEW r \in Pieces, NEW q \in Pieces, Enemies(r, q), Mover(r)', Mover(q)',
             NEW i \in Nat, NEW j \in Nat, HeadOn(r, i, q, j)'
      PROVE  tickAt' <= LeavesPoint(r, i)'
  <2>1. /\ LeavesPoint(r, i)' \in Nat /\ LeavesPoint(q, j)' \in Nat
        /\ pieces'[r].start <= LeavesPoint(r, i)' /\ pieces'[q].start <= LeavesPoint(q, j)'
        /\ LeavesPoint(r, i + 1)' = LeavesPoint(r, i)' + Segment
        /\ LeavesPoint(q, j)' = pieces'[q].start + j * Segment
        /\ LeavesPoint(r, i)' <= LeavesPoint(q, j)' /\ LeavesPoint(q, j)' < LeavesPoint(r, i + 1)'
        /\ Segment \in Nat \ {0}
    <3>1. \A s \in Pieces, k \in Nat :
            /\ LeavesPoint(s, k)' \in Nat /\ pieces'[s].start <= LeavesPoint(s, k)'
            /\ LeavesPoint(s, k + 1)' = LeavesPoint(s, k)' + Segment
            /\ LeavesPoint(s, k)' = pieces'[s].start + k * Segment
      <4> TAKE s \in Pieces, k \in Nat
      <4>1. /\ pieces'[s].start \in Nat /\ Segment \in Nat /\ k * Segment \in Nat
            /\ (k + 1) * Segment = k * Segment + Segment
        BY <1>3, MoveAssumption DEF PieceStates
      <4> QED BY <4>1 DEF LeavesPoint
    <3> QED BY <1>7, <3>1, MoveAssumption DEF HeadOn
  <2>2. CASE r = p
    BY <1>1, <1>3, <1>4, <2>1, <2>2
  <2>3. CASE r # p /\ q = p
    <3>1. Mover(r) /\ pieces'[r] = pieces[r] /\ \A k : LeavesPoint(r, k)' = LeavesPoint(r, k)
      BY <1>4, <1>7, <2>3 DEF Mover, LeavesPoint
    <3> SUFFICES ASSUME ~(tickAt <= LeavesPoint(r, i)) PROVE FALSE
      BY <1>1, <3>1
    <3>2. j = 0
      <4> SUFFICES ASSUME j >= 1 PROVE FALSE
        OBVIOUS
      <4>1. j * Segment >= Segment
        BY <2>1
      <4> QED BY <1>1, <1>3, <1>4, <2>1, <2>3, <3>1, <4>1
    <3>3. Point(pieces[r], i + 1) = pieces[p].cell
      BY <1>3, <1>4, <1>7, <2>3, <3>1, <3>2 DEF HeadOn, Point
    <3>4. Point(pieces[r], i + 1) \in CellsOf(r)
      <4>1. i + 1 \in 0 .. Len(pieces[r].path)
        <5>1. Len(pieces[r].path) \in Nat
          <6>1. pieces[r] \in PieceStates
            BY <1>3, Zenon
          <6> QED BY <6>1 DEF PieceStates
        <5> QED BY <1>7, <3>1, <5>1 DEF HeadOn
      <4>2. pieces[r].start <= tickAt /\ LeavesPoint(r, i) < tickAt
            /\ tickAt < LeavesPoint(r, i) + Segment
        <5>1. pieces[r].start \in Nat
          BY <1>3 DEF PieceStates
        <5>2. LeavesPoint(q, j)' >= clock
          BY <1>3, <1>4, <2>1, <2>3
        <5> QED BY <1>1, <2>1, <3>1, <5>1, <5>2
      <4>3. LeavesPoint(r, i + 1) - Segment < tickAt /\ tickAt < LeavesPoint(r, i + 1) + Segment
        BY <1>1, <2>1, <3>1, <4>2
      <4> QED BY <1>1, <3>1, <4>1, <4>2, <4>3, MoverHolds DEF PassInv
    <3>5. CellsOf(p) = {pieces[p].cell}
      BY <1>1, <1>2, CellsOfPiece
    <3> QED BY <1>1, <1>7, <2>3, <3>3, <3>4, <3>5 DEF ContactFree
  <2>4. CASE r # p /\ q # p
    <3>1. /\ Mover(r) /\ Mover(q) /\ pieces'[r] = pieces[r] /\ pieces'[q] = pieces[q]
          /\ \A k : LeavesPoint(r, k)' = LeavesPoint(r, k)
          /\ \A k : LeavesPoint(q, k)' = LeavesPoint(q, k)
      BY <1>4, <1>7, <2>4 DEF Mover, LeavesPoint
    <3>2. HeadOn(r, i, q, j)
      BY <1>7, <3>1 DEF HeadOn
    <3> QED BY <1>1, <1>7, <2>1, <3>1, <3>2 DEF PassInv, NoneMissed, Slack
  <2> QED BY <2>2, <2>3, <2>4
<1>8. NoneMissed'
  <2>1. Slack' = 0
    BY <1>1 DEF Slack
  <2>2. \A r \in Pieces, i \in Nat : LeavesPoint(r, i)' \in Int
    <3>1. \A r \in Pieces, i \in Nat : pieces'[r].start \in Nat /\ i * Segment \in Nat
      BY <1>3, MoveAssumption DEF PieceStates
    <3> QED BY <3>1 DEF LeavesPoint
  <2> QED BY <1>7, <2>1, <2>2 DEF NoneMissed
<1> QED BY <1>5, <1>6, <1>8 DEF PassInv
LEMMA PassInit == Init => PassInv
<1> SUFFICES ASSUME Init PROVE PassInv
  OBVIOUS
<1>1. \A p \in Pieces : ~Mover(p)
  BY DEF Init, Mover
<1> QED BY <1>1, InputAssumption DEF Init, PassInv, Timely, Paced, NoneMissed, Idle

\* Steps that leave the pieces and the tick where they are.
LEMMA PassStands ==
  ASSUME TypeOK, TypeOK', PassInv, UNCHANGED <<pieces, tickAt, pc>>, Timely'
  PROVE  PassInv'
<1>1. tickAt' + Slack <= tickAt + Slack'
  BY InputAssumption DEF Slack, Idle, TypeOK, TimesOK
<1> QED BY <1>1, PassKept DEF Mover

\* Pieces that fall are movers no more.
LEMMA PassFall ==
  ASSUME TypeOK, TypeOK', PassInv, UNCHANGED <<clock, tickAt>>, ~Idle, ~Idle',
         NEW fallen \in SUBSET Pieces,
         pieces' = [q \in Pieces |-> IF q \in fallen THEN MarkDead(pieces[q]) ELSE pieces[q]]
  PROVE  PassInv'
<1>1. Timely' /\ tickAt' + Slack <= tickAt + Slack'
  BY InputAssumption DEF PassInv, Timely, Slack, TypeOK, TimesOK
<1>2. \A p \in Pieces : Mover(p)' => Mover(p) /\ pieces'[p] = pieces[p]
  BY FallKeepsCells DEF Mover
<1> QED BY <1>1, <1>2, PassKept

LEMMA PassTickStep ==
  ASSUME MaxLag < Segment, IInv, IInv', PassInv, TickStep
  PROVE  PassInv'
<1>1. TypeOK /\ TypeOK'
  BY DEF IInv
<1>2. CASE TickBegin
  <2>1. /\ Idle /\ ~Idle' /\ tickAt' = clock /\ clock' = clock /\ pieces' = pieces
    BY <1>2 DEF TickBegin, Idle
  <2>2. Timely' /\ tickAt' + Slack <= tickAt + Slack'
    BY <1>1, <2>1, InputAssumption DEF PassInv, Timely, Slack, TypeOK, TimesOK
  <2> QED BY <1>1, <2>1, <2>2, PassKept DEF Mover
<1>3. ASSUME NEW w \in Waves, AutoUnlock(w) PROVE PassInv'
  <2>1. UNCHANGED <<pieces, tickAt, pc, clock>>
    BY <1>3 DEF AutoUnlock, timeVars, tickVars
  <2> QED BY <1>1, <2>1, PassStands DEF PassInv, Timely, Idle
<1>4. CASE Contacts
  <2>1. /\ UNCHANGED <<clock, tickAt>> /\ ~Idle /\ ~Idle' /\ Victims \in SUBSET Pieces
        /\ pieces' = [q \in Pieces |-> IF q \in Victims THEN MarkDead(pieces[q]) ELSE pieces[q]]
    BY <1>4 DEF Contacts, timeVars, Idle, Victims
  <2> QED BY <1>1, <2>1, PassFall
<1>5. ASSUME NEW a \in Pieces, NEW b \in Pieces, Duel(a, b) PROVE PassInv'
  <2>1. /\ UNCHANGED <<clock, tickAt>> /\ ~Idle /\ ~Idle' /\ Fallen(a, b) \in SUBSET Pieces
        /\ pieces' = [q \in Pieces |-> IF q \in Fallen(a, b) THEN MarkDead(pieces[q]) ELSE pieces[q]]
    BY <1>5 DEF Duel, timeVars, Idle, Fallen, Losers
  <2> QED BY <1>1, <2>1, PassFall
<1>6. CASE FinishTick
  <2>1. /\ pc = "duels" /\ duels = {} /\ Idle' /\ tickAt' = tickAt /\ clock' = clock
    BY <1>6 DEF FinishTick, timeVars, Idle
  <2>2. \A p \in Pieces : Mover(p)' =>
          /\ Mover(p) /\ pieces'[p].start = pieces[p].start /\ pieces'[p].path = pieces[p].path
          /\ pieces'[p].cell = pieces[p].cell
    BY <1>1, <1>6, FinishTickPieces DEF Mover, IInv, ListsStayTrue
  <2>3. Timely' /\ Paced'
    BY <2>1, <2>2 DEF PassInv, Timely, Paced
  <2>4. ASSUME NEW p \in Pieces, NEW q \in Pieces, Enemies(p, q), Mover(p)', Mover(q)',
               NEW i \in Nat, NEW j \in Nat, HeadOn(p, i, q, j)'
        PROVE  tickAt' <= LeavesPoint(p, i)'
    <3>1. /\ Mover(p) /\ pieces'[p].start = pieces[p].start /\ pieces'[p].path = pieces[p].path
          /\ pieces'[p].cell = pieces[p].cell
          /\ Mover(q) /\ pieces'[q].start = pieces[q].start /\ pieces'[q].path = pieces[q].path
          /\ pieces'[q].cell = pieces[q].cell
      BY <2>2, <2>4
    <3>2. /\ \A k : Point(pieces'[p], k) = Point(pieces[p], k)
          /\ \A k : Point(pieces'[q], k) = Point(pieces[q], k)
          /\ \A k : LeavesPoint(p, k)' = LeavesPoint(p, k)
          /\ \A k : LeavesPoint(q, k)' = LeavesPoint(q, k)
      BY <3>1 DEF Point, LeavesPoint
    <3>3. HeadOn(p, i, q, j)
      BY <2>4, <3>1, <3>2 DEF HeadOn
    <3>4. tickAt <= LeavesPoint(p, i)
      BY <2>1, <2>4, <3>1, <3>3, NotBegun
    <3> QED BY <2>1, <3>2, <3>4
  <2>5. NoneMissed'
    <3>1. Slack' = 0
      BY <2>1 DEF Slack
    <3>2. \A p \in Pieces, i \in Nat : LeavesPoint(p, i)' \in Int
      <4> TAKE p \in Pieces, i \in Nat
      <4>1. pieces'[p].start \in Nat
        BY <1>1 DEF TypeOK, PiecesOK, PieceStates
      <4>2. i * Segment \in Nat
        BY MoveAssumption
      <4> QED BY <4>1, <4>2 DEF LeavesPoint
    <3> QED BY <2>4, <3>1, <3>2 DEF NoneMissed
  <2> QED BY <2>3, <2>5 DEF PassInv
<1> QED BY <1>2, <1>3, <1>4, <1>5, <1>6 DEF TickStep

LEMMA PassStep ==
  ASSUME MaxLag < Segment, IInv, IInv', PassInv, [Next]_vars
  PROVE  PassInv'
<1>1. TypeOK /\ TypeOK'
  BY DEF IInv
<1>2. CASE Elapse
  <2>1. UNCHANGED <<pieces, tickAt, pc>> /\ Idle /\ clock' = clock + 1 /\ clock - tickAt < MaxLag
    BY <1>2 DEF Elapse, tickVars
  <2>2. Timely'
    BY <1>1, <2>1, InputAssumption DEF Timely, Idle, TypeOK, TimesOK
  <2> QED BY <1>1, <2>1, <2>2, PassStands
<1>3. CASE TickStep
  BY <1>3, PassTickStep
<1>4. ASSUME NEW aim \in Aims, Move(aim[1], aim[2]) PROVE PassInv'
  <2>1. aim[1] \in Pieces
    BY InputAssumption
  <2> QED BY <1>4, <2>1, PassMove
<1>5. CASE UNCHANGED <<pieces, tickAt, pc, clock>>
  BY <1>1, <1>5, PassStands DEF PassInv, Timely, Idle
<1>6. CASE \/ \E wish \in Wishes : ChooseUnlock(wish[1], wish[2])
           \/ \E o \in Resigners : Resign(o)
           \/ \E o \in Leavers : Leave(o) \/ Reconnect(o)
           \/ UNCHANGED vars
  <2>1. UNCHANGED <<pieces, tickAt, pc, clock>>
    BY <1>6 DEF ChooseUnlock, Resign, Leave, Reconnect, timeVars, tickVars, vars
  <2> QED BY <1>5, <2>1
<1> QED BY <1>2, <1>3, <1>4, <1>6 DEF Next, Command

\* With ticks less than a segment apart no two enemies travel past each other between
\* two of them, on every board and along paths of any length: sampling the motion at
\* ticks misses no head-on meeting.
THEOREM NobodyPassesThrough ==
  ASSUME MaxLag < Segment
  PROVE  Spec => []NoPassThrough
<1>1. IInv /\ PassInv => NoPassThrough
  <2> SUFFICES ASSUME IInv, PassInv, pc = "duels", duels = {},
                      NEW p \in Pieces, NEW q \in Pieces, Enemies(p, q), Mover(p), Mover(q),
                      NEW i \in 0 .. Len(pieces[p].path) - 1, NEW j \in 0 .. Len(pieces[q].path) - 1,
                      Point(pieces[p], i) = Point(pieces[q], j + 1),
                      Point(pieces[p], i + 1) = Point(pieces[q], j),
                      LeavesPoint(p, i) < LeavesPoint(q, j + 1),
                      LeavesPoint(q, j) < LeavesPoint(p, i + 1),
                      tickAt >= LeavesPoint(p, i + 1), tickAt >= LeavesPoint(q, j + 1)
               PROVE  FALSE
    BY DEF NoPassThrough
  <2>1. TypeOK /\ tickAt \in Nat /\ i \in Nat /\ j \in Nat /\ Segment \in Nat \ {0}
    BY MoveAssumption DEF IInv, TypeOK, TimesOK
  <2>2. /\ LeavesPoint(p, i) \in Nat /\ LeavesPoint(q, j) \in Nat
        /\ LeavesPoint(p, i + 1) = LeavesPoint(p, i) + Segment
        /\ LeavesPoint(q, j + 1) = LeavesPoint(q, j) + Segment
    BY <2>1, PointTimes
  <2>3. HeadOn(p, i, q, j) \/ HeadOn(q, j, p, i)
    BY <2>2 DEF HeadOn
  <2>4. Enemies(q, p)
    BY DEF Enemies
  <2>5. tickAt <= LeavesPoint(p, i) \/ tickAt <= LeavesPoint(q, j)
    BY <2>1, <2>3, <2>4, NotBegun
  <2> QED BY <2>1, <2>2, <2>5
<1>2. Init => PassInv
  BY PassInit
<1>3. IInv /\ IInv' /\ PassInv /\ [Next]_vars => PassInv'
  BY PassStep
<1> QED BY <1>1, <1>2, <1>3, Invariance, PTL DEF Spec
=============================================================================
