------------------------------ MODULE Xiangqi ------------------------------
(***************************************************************************)
(* The rules of Chinese chess on a board where nobody travels, the way     *)
(* players are taught them: pieces step, slide and jump in directions, and *)
(* no move may leave the generals face to face.  at is a position: the     *)
(* function from the pieces on the board to their cells.  Player 1 (red)   *)
(* sits at the bottom, in the high rows.  Pieces of one side may share a   *)
(* cell, as this program lets them.                                        *)
(***************************************************************************)
EXTENDS Timeline

Straight == {<<0, -1>>, <<0, 1>>, <<-1, 0>>, <<1, 0>>}
Oblique  == {-1, 1} \X {-1, 1}
Forward(owner) == IF owner = 1 THEN <<0, -1>> ELSE <<0, 1>>

\* The cell n steps from c in direction d.
Along(c, d, n) == <<c[1] + n * d[1], c[2] + n * d[2]>>

OwnBank(owner) == {c \in Cells : IF owner = 1 THEN c[2] > 4 ELSE c[2] < 5}
Court(owner) ==
  {c \in OwnBank(owner) : c[1] \in 3 .. 5 /\ (IF owner = 1 THEN c[2] > 6 ELSE c[2] < 3)}

Stands(at, c) == \E q \in DOMAIN at : at[q] = c

\* The screens between a and the n-th cell from there, by their distance.
Screens(at, a, d, n) == {i \in 1 .. n - 1 : Stands(at, Along(a, d, i))}

Open(at, a, b) ==
  \E d \in Straight, n \in 1 .. 9 : b = Along(a, d, n) /\ Screens(at, a, d, n) = {}

OverOneScreen(at, a, b) ==
  \E d \in Straight, n \in 1 .. 9 :
    b = Along(a, d, n) /\ \E i \in 1 .. n - 1 : Screens(at, a, d, n) = {i}

EnemyGeneralOn(at, p, b) ==
  \E g \in Generals \cap DOMAIN at : Enemies(g, p) /\ at[g] = b

-----------------------------------------------------------------------------
(* How each kind goes from a to b *)

SoldierGoes(p, a, b) ==
  \/ b = Along(a, Forward(Owner(p)), 1)
  \/ a \notin OwnBank(Owner(p)) /\ b \in {Along(a, <<-1, 0>>, 1), Along(a, <<1, 0>>, 1)}

AdvisorGoes(p, a, b) == b \in Court(Owner(p)) /\ \E d \in Oblique : b = Along(a, d, 1)

ElephantGoes(at, p, a, b) ==
  /\ b \in OwnBank(Owner(p))
  /\ \E d \in Oblique : b = Along(a, d, 2) /\ ~Stands(at, Along(a, d, 1))

\* One step straight on, then one to either side, further away.
HorseGoes(at, a, b) ==
  \E d \in Straight, e \in Oblique :
    /\ e[1] * d[1] + e[2] * d[2] = 1
    /\ ~Stands(at, Along(a, d, 1)) /\ b = Along(Along(a, d, 1), e, 1)

CannonGoes(at, a, b) == IF Stands(at, b) THEN OverOneScreen(at, a, b) ELSE Open(at, a, b)

\* A step within the palace, or all the way to a general it faces.
GeneralGoes(at, p, a, b) ==
  \/ b \in Court(Owner(p)) /\ \E d \in Straight : b = Along(a, d, 1)
  \/ EnemyGeneralOn(at, p, b) /\ a[1] = b[1] /\ Open(at, a, b)

Goes(at, p, b) ==
  LET a == at[p]
  IN  CASE Kind(p) = "soldier"  -> SoldierGoes(p, a, b)
        [] Kind(p) = "advisor"  -> AdvisorGoes(p, a, b)
        [] Kind(p) = "elephant" -> ElephantGoes(at, p, a, b)
        [] Kind(p) = "horse"    -> HorseGoes(at, a, b)
        [] Kind(p) = "chariot"  -> Open(at, a, b)
        [] Kind(p) = "cannon"   -> CannonGoes(at, a, b)
        [] Kind(p) = "general"  -> GeneralGoes(at, p, a, b)

-----------------------------------------------------------------------------
(* A move *)

\* Everyone else on b is captured.
After(at, p, b) ==
  [q \in {q \in DOMAIN at : q = p \/ at[q] # b} |-> IF q = p THEN b ELSE at[q]]

Facing(at) ==
  \E g, h \in Generals \cap DOMAIN at :
    Enemies(g, h) /\ at[g][1] = at[h][1] /\ Open(at, at[g], at[h])

Legal(at, p, b) ==
  /\ p \in DOMAIN at
  /\ b \in Cells /\ b # at[p]
  /\ \A q \in DOMAIN at : at[q] = b => Enemies(q, p)
  /\ Goes(at, p, b)
  /\ ~Facing(After(at, p, b))
=============================================================================
