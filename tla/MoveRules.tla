----------------------------- MODULE MoveRules -----------------------------
(***************************************************************************)
(* Which moves are legal and along which cells they go:                    *)
(* app/engine/move_rules.py and app/engine/path_planner.py.  ps is the     *)
(* function from pieces to their states, t the time of the command.        *)
(***************************************************************************)
EXTENDS Timeline

Abs(n) == IF n < 0 THEN -n ELSE n
X(cell) == cell[1]
Y(cell) == cell[2]

Palace(owner) == (3 .. 5) \X (IF owner = 1 THEN 7 .. 9 ELSE 0 .. 2)

-----------------------------------------------------------------------------
(* Occupancy of a cell *)

Occupants(ps, cell, t, ignore) ==
  {q \in Pieces \ ignore : cell \in RuntimeCells(Kind(q), ps[q], t)}

Occupied(ps, cell, t, ignore) == Occupants(ps, cell, t, ignore) # {}

\* get_cell_owner: a moving occupant goes before a resting one, then the lesser
\* id, in which the seat comes first.
SeatAt(ps, cell, t, ignore) ==
  LET all    == Occupants(ps, cell, t, ignore)
      movers == {q \in all : ps[q].moving}
  IN  Min({Owner(q) : q \in IF movers # {} THEN movers ELSE all})

Between(a, b) ==
  IF X(a) = X(b)
  THEN {<<X(a), y>> : y \in {y \in Rows : (Y(a) < y /\ y < Y(b)) \/ (Y(b) < y /\ y < Y(a))}}
  ELSE IF Y(a) = Y(b)
  THEN {<<x, Y(a)>> : x \in {x \in Columns : (X(a) < x /\ x < X(b)) \/ (X(b) < x /\ x < X(a))}}
  ELSE {}

CountBetween(ps, a, b, t, ignore) ==
  Cardinality({c \in Between(a, b) : Occupied(ps, c, t, ignore)})

-----------------------------------------------------------------------------
(* Paths *)

Step(from, to) == IF to > from THEN 1 ELSE -1

RookPath(a, b) ==
  IF X(a) = X(b)
  THEN [i \in 1 .. Abs(Y(b) - Y(a)) |-> <<X(a), Y(a) + i * Step(Y(a), Y(b))>>]
  ELSE [i \in 1 .. Abs(X(b) - X(a)) |-> <<X(a) + i * Step(X(a), X(b)), Y(a)>>]

\* The cell a horse passes, which must be free.
HorseLeg(a, b) ==
  IF Abs(X(b) - X(a)) = 2 THEN <<X(a) + (X(b) - X(a)) \div 2, Y(a)>>
  ELSE <<X(a), Y(a) + (Y(b) - Y(a)) \div 2>>

ElephantEye(a, b) ==
  <<X(a) + (X(b) - X(a)) \div 2, Y(a) + (Y(b) - Y(a)) \div 2>>

BuildPath(kind, a, b) ==
  CASE kind \in {"chariot", "cannon"} -> RookPath(a, b)
    [] kind = "horse"                 -> <<HorseLeg(a, b), b>>
    [] kind = "elephant"              -> <<ElephantEye(a, b), b>>
    [] OTHER                          -> <<b>>

-----------------------------------------------------------------------------
(* The rule of each kind; the board is ps at t, piece p goes to b *)

SoldierRule(p, a, b) ==
  LET forward == IF Owner(p) = 1 THEN -1 ELSE 1
      crossed == IF Owner(p) = 1 THEN Y(a) <= 4 ELSE Y(a) >= 5
  IN  \/ Y(b) - Y(a) = forward /\ X(b) = X(a)
      \/ crossed /\ Y(b) = Y(a) /\ Abs(X(b) - X(a)) = 1

AdvisorRule(p, a, b) ==
  /\ Abs(X(b) - X(a)) = 1 /\ Abs(Y(b) - Y(a)) = 1
  /\ b \in Palace(Owner(p))

ElephantRule(p, a, b, ps, t) ==
  /\ Abs(X(b) - X(a)) = 2 /\ Abs(Y(b) - Y(a)) = 2
  /\ ~Occupied(ps, ElephantEye(a, b), t, {p})
  /\ IF Owner(p) = 1 THEN Y(b) >= 5 ELSE Y(b) <= 4

HorseRule(p, a, b, ps, t) ==
  /\ <<Abs(X(b) - X(a)), Abs(Y(b) - Y(a))>> \in {<<2, 1>>, <<1, 2>>}
  /\ ~Occupied(ps, HorseLeg(a, b), t, {p})

InLine(a, b) == X(a) = X(b) \/ Y(a) = Y(b)

ChariotRule(p, a, b, ps, t) ==
  InLine(a, b) /\ CountBetween(ps, a, b, t, {p}) = 0

\* Mutant: a cannon may also capture without a screen.
CannonRule_ScreenOptional(p, a, b, ps, t) ==
  /\ InLine(a, b)
  /\ CountBetween(ps, a, b, t, {p}) <= IF Occupied(ps, b, t, {p}) THEN 1 ELSE 0

CannonRule(p, a, b, ps, t) ==
  /\ InLine(a, b)
  /\ CountBetween(ps, a, b, t, {p}) = IF Occupied(ps, b, t, {p}) THEN 1 ELSE 0

LivingGeneral(ps, owner) == {g \in Generals : ps[g].alive /\ Owner(g) = owner}

\* The flying general takes the enemy general along an open column.
GeneralRule(p, a, b, ps, t) ==
  \E enemy \in LivingGeneral(ps, Opponent(Owner(p))) :
    \/ /\ b = ps[enemy].cell /\ X(a) = X(b)
       /\ CountBetween(ps, a, b, t, {p, enemy}) = 0
    \/ /\ Abs(X(b) - X(a)) + Abs(Y(b) - Y(a)) = 1
       /\ b \in Palace(Owner(p))

\* would_generals_face_after_move: the generals count at their own cells, also
\* while they travel; the mover counts at its target, not along its path.
GeneralsFaceAfter(p, b, ps, t) ==
  \E g \in LivingGeneral(ps, 1), h \in LivingGeneral(ps, 2) :
    LET at(q) == IF q = p THEN b ELSE ps[q].cell
    IN  /\ \A e \in {g, h} : Enemies(e, p) => b # ps[e].cell
        /\ X(at(g)) = X(at(h))
        /\ CountBetween(ps, at(g), at(h), t, {p, g, h}) = 0
        /\ ~(p \notin {g, h} /\ b \in Between(at(g), at(h)))

ValidateMove(p, b, ps, t) ==
  LET a == ps[p].cell
  IN  /\ ps[p].alive /\ ~ps[p].moving
      /\ b \in Cells /\ b # a
      /\ Occupied(ps, b, t, {p}) => SeatAt(ps, b, t, {p}) # Owner(p)
      /\ CASE Kind(p) = "soldier"  -> SoldierRule(p, a, b)
           [] Kind(p) = "advisor"  -> AdvisorRule(p, a, b)
           [] Kind(p) = "elephant" -> ElephantRule(p, a, b, ps, t)
           [] Kind(p) = "horse"    -> HorseRule(p, a, b, ps, t)
           [] Kind(p) = "chariot"  -> ChariotRule(p, a, b, ps, t)
           [] Kind(p) = "cannon"   -> CannonRule(p, a, b, ps, t)
           [] Kind(p) = "general"  -> GeneralRule(p, a, b, ps, t)
      /\ ~GeneralsFaceAfter(p, b, ps, t)

LegalTargets(p, ps, t) == {b \in Cells : ValidateMove(p, b, ps, t)}
=============================================================================
