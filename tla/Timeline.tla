------------------------------ MODULE Timeline ------------------------------
(***************************************************************************)
(* Where a piece is while it travels: app/engine/timeline.py and           *)
(* app/engine/occupancy.py.  A piece is its index in InitialBoard, which   *)
(* is its spawn_index and its place in the dict state.pieces.  Owner and   *)
(* kind never change; the rest of domain.models.Piece is a record:         *)
(*   cell       (x, y), which stays the start of the move until it ends    *)
(*   alive                                                                 *)
(*   moving     is_moving                                                  *)
(*   start      move_start_at, 0 when the piece is not moving              *)
(*   path       path_points, the cells to travel, the last is the target   *)
(*   cooldown   cooldown_end_at                                            *)
(*   announced  last_resolved_at >= cooldown_end_at: PIECE_READY was sent  *)
(* move_end_at and move_total_ms follow from start, path and the kind.     *)
(***************************************************************************)
EXTENDS Phase

CONSTANT InitialBoard   \* sequence of [owner, kind, cell]: create_standard_board

Columns == 0 .. 8
Rows    == 0 .. 9
Cells   == Columns \X Rows

Pieces   == DOMAIN InitialBoard
Owner(p) == InitialBoard[p].owner
Kind(p)  == InitialBoard[p].kind

Enemies(p, q) == Owner(p) # Owner(q)
Generals == {p \in Pieces : Kind(p) = "general"}

\* A board has one general a side and no two pieces on one cell.
ASSUME BoardAssumption ==
  /\ InitialBoard \in Seq([owner : Players, kind : Kinds, cell : Cells])
  /\ \A p, q \in Pieces : p # q => InitialBoard[p].cell # InitialBoard[q].cell
  /\ \A o \in Players : \E g \in Generals : Owner(g) = o
  /\ \A g, h \in Generals : Owner(g) = Owner(h) => g = h

PieceStates ==
  [cell : Cells, alive : BOOLEAN, moving : BOOLEAN, start : Nat, path : Seq(Cells),
   cooldown : Nat, announced : BOOLEAN]

-----------------------------------------------------------------------------
(* timeline.py *)

\* get_move_duration_ms
Duration(kind, path) ==
  Segment * (IF kind \in DOMAIN FixedMove THEN FixedMove[kind] ELSE Len(path))

MoveEnd(kind, m) == m.start + Duration(kind, m.path)
Target(m) == m.path[Len(m.path)]

\* Mutant: the start of the move is set to its end.
StartMove_EndAsStart(m, path, t) ==
  [m EXCEPT !.moving = TRUE, !.start = t + Len(path), !.path = path]

StartMove(m, path, t) ==
  [m EXCEPT !.moving = TRUE, !.start = t, !.path = path]

\* finish_move and the cooldown the tick sets right after it
FinishMove(kind, m, t) ==
  [m EXCEPT !.cell = Target(m), !.moving = FALSE, !.start = 0, !.path = << >>,
            !.cooldown = t + Cooldown[kind], !.announced = FALSE]

\* _mark_dead and terminate_move: the piece stays on the cell it started from
MarkDead(m) ==
  [m EXCEPT !.alive = FALSE, !.moving = FALSE, !.start = 0, !.path = << >>]

\* Mutant: the arrival is missed by a tick that comes after it.
IsArrived_OnTheDot(kind, m, t) == m.alive /\ m.moving /\ t = MoveEnd(kind, m)

IsArrived(kind, m, t) == m.alive /\ m.moving /\ t >= MoveEnd(kind, m)

-----------------------------------------------------------------------------
(* get_piece_segment_state and occupancy.get_piece_runtime_cells *)

\* The i-th point of the journey, the start being point 0.
Point(m, i) == IF i = 0 THEN m.cell ELSE m.path[i]

\* Segments completed so far, times Duration: progress is clamped at both ends.
Travelled(m, t) == (IF t < m.start THEN 0 ELSE t - m.start) * Len(m.path)

\* Mutant: within a segment a piece holds only the cell it enters.
RuntimeCells_EnteringOnly(kind, m, t) ==
  IF ~m.alive THEN {}
  ELSE IF ~m.moving THEN {m.cell}
  ELSE IF t >= MoveEnd(kind, m) THEN {Target(m)}
  ELSE {Point(m, (Travelled(m, t) \div Duration(kind, m.path)) + 1)}

\* The cells a piece holds: on a grid point that cell, within a segment both ends.
RuntimeCells(kind, m, t) ==
  IF ~m.alive THEN {}
  ELSE IF ~m.moving THEN {m.cell}
  ELSE IF t >= MoveEnd(kind, m) THEN {Target(m)}
  ELSE LET segment == Travelled(m, t) \div Duration(kind, m.path)
           onPoint == Travelled(m, t) % Duration(kind, m.path) = 0
       IN  {Point(m, segment)} \cup (IF onPoint THEN {} ELSE {Point(m, segment + 1)})
=============================================================================
