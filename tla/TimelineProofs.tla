--------------------------- MODULE TimelineProofs ---------------------------
(***************************************************************************)
(* What the pure functions of the engine return, for every rule set and    *)
(* board that the assumptions admit.  The schedule: when a phase ends and  *)
(* which waves are open.  A travelling piece: the path that                *)
(* path_planner.build_path gives a legal move, and the cells that          *)
(* occupancy.get_piece_runtime_cells says the piece holds.                 *)
(***************************************************************************)
EXTENDS MoveRules, Xiangqi, FiniteSetTheorems, WellFoundedInduction, SequenceTheorems, TLAPS

-----------------------------------------------------------------------------
(* The schedule *)

\* A set of naturals has a least element, and Min is it.
LEMMA MinOfNaturals ==
  ASSUME NEW S, S \subseteq Nat, S # {}
  PROVE  Min(S) \in S /\ \A y \in S : Min(S) <= y
<1>1. PICK x \in S : \A y \in S : ~ (<<y, x>> \in OpToRel(<, Nat))
  BY NatLessThanWellFounded, WFMin
<1>2. \A y \in S : ~(y < x)
  <2>1. \A y \in S : y < x => <<y, x>> \in OpToRel(<, Nat)
    BY DEF OpToRel
  <2>2. QED BY <1>1, <2>1
<1>3. \A y \in S : x <= y
  BY <1>2
<1>4. QED BY <1>3 DEF Min

\* A set of naturals that has a bound has a greatest element, and Max is it.
LEMMA MaxOfNaturals ==
  ASSUME NEW n \in Nat, NEW S, S \subseteq 0 .. n, S # {}
  PROVE  Max(S) \in S /\ \A y \in S : Max(S) >= y
<1> DEFINE T == {n - y : y \in S}
<1>1. T \subseteq Nat /\ T # {}
  <2>1. \A y \in S : n - y \in Nat
    OBVIOUS
  <2>2. QED BY <2>1
<1>2. Min(T) \in T /\ \A z \in T : Min(T) <= z
  BY <1>1, MinOfNaturals
<1>3. PICK x \in S : Min(T) = n - x
  BY <1>2
<1>4. \A y \in S : x >= y
  <2> TAKE y \in S
  <2>1. Min(T) <= n - y
    BY <1>2
  <2>2. x \in 0 .. n /\ y \in 0 .. n
    OBVIOUS
  <2>3. QED BY <2>1, <2>2, <1>3
<1>5. QED BY <1>4 DEF Max

\* The current wave, when there is one, is a wave whose window holds t, and no
\* earlier window does.
LEMMA CurrentWaveIsOpen ==
  ASSUME NEW t \in Nat
  PROVE  /\ CurrentWave(t) \in Waves \cup {NoWave}
         /\ CurrentWave(t) # NoWave =>
              /\ WaveOpen[CurrentWave(t)] <= t /\ t < WaveEnd(CurrentWave(t))
              /\ \A v \in Waves : WaveOpen[v] <= t /\ t < WaveEnd(v) => CurrentWave(t) <= v
<1> DEFINE open == {w \in Waves : WaveOpen[w] <= t /\ t < WaveEnd(w)}
<1>1. CASE open = {}
  BY <1>1 DEF CurrentWave
<1>2. CASE open # {}
  <2>1. open \subseteq Nat
    BY ScheduleAssumption DEF Waves
  <2>2. Min(open) \in open /\ \A y \in open : Min(open) <= y
    BY <1>2, <2>1, MinOfNaturals
  <2>3. CurrentWave(t) = Min(open)
    BY <1>2 DEF CurrentWave
  <2>4. QED BY <2>2, <2>3
<1>3. QED BY <1>1, <1>2

LEMMA LatestWaveType ==
  ASSUME NEW t \in Nat
  PROVE  LatestWave(t) \in Waves \cup {NoWave}
<1> DEFINE opened == {w \in Waves : WaveOpen[w] <= t}
<1>1. CASE opened = {}
  BY <1>1 DEF LatestWave
<1>2. CASE opened # {}
  <2>1. WaveCount - 1 \in Nat /\ opened \subseteq 0 .. WaveCount - 1
    BY ScheduleAssumption DEF Waves
  <2>2. Max(opened) \in opened
    BY <1>2, <2>1, MaxOfNaturals
  <2>3. QED BY <1>2, <2>2 DEF LatestWave
<1>3. QED BY <1>1, <1>2

\* The phase of any instant is well formed, and its deadline, when it has one,
\* still lies ahead: compute_phase never reports a deadline that has passed.
THEOREM PhaseDeadlineAhead ==
  ASSUME NEW t \in Nat
  PROVE  /\ ComputePhase(t) \in Phases
         /\ ComputePhase(t).deadline # NoDeadline => t < ComputePhase(t).deadline
<1> DEFINE wave == CurrentWave(t)
<1>1. wave \in Waves \cup {NoWave} /\ (wave # NoWave => t < WaveEnd(wave))
  BY CurrentWaveIsOpen
<1>2. \A w \in Waves : WaveEnd(w) \in Nat
  BY ScheduleAssumption DEF WaveEnd
<1>3. LatestWave(t) \in Waves \cup {NoWave}
  BY LatestWaveType
<1>4. WaveCount - 1 \in Waves
  BY ScheduleAssumption DEF Waves
<1>5. SealDuration \in Nat /\ SoldierOnlyEnd \in Nat /\ FullUnlockAt \in Nat
     /\ SealDuration <= SoldierOnlyEnd /\ SoldierOnlyEnd < FullUnlockAt
  BY ScheduleAssumption
<1>6. CASE t < SealDuration
  <2>1. ComputePhase(t) = [name |-> "sealed", deadline |-> SealDuration, wave |-> NoWave]
    BY <1>5, <1>6 DEF ComputePhase
  <2>2. QED BY <1>5, <1>6, <2>1 DEF Phases
<1>7. CASE t >= SealDuration /\ t < SoldierOnlyEnd
  <2>1. ComputePhase(t) = [name |-> "soldier_only", deadline |-> SoldierOnlyEnd, wave |-> NoWave]
    BY <1>5, <1>7 DEF ComputePhase
  <2>2. QED BY <1>5, <1>7, <2>1 DEF Phases
<1>8. CASE t >= FullUnlockAt /\ t >= SealDuration /\ t >= SoldierOnlyEnd
  <2>1. ComputePhase(t)
          = [name |-> "fully_unlocked", deadline |-> NoDeadline, wave |-> WaveCount - 1]
    BY <1>5, <1>8 DEF ComputePhase
  <2>2. QED BY <1>4, <2>1 DEF Phases
<1>9. CASE t < FullUnlockAt /\ t >= SealDuration /\ t >= SoldierOnlyEnd
  <2>1. CASE wave # NoWave
    <3>1. ComputePhase(t) = [name |-> "unlock_wave", deadline |-> WaveEnd(wave), wave |-> wave]
      BY <1>5, <1>9, <2>1 DEF ComputePhase
    <3>2. QED BY <1>1, <1>2, <2>1, <3>1 DEF Phases
  <2>2. CASE wave = NoWave
    <3>1. ComputePhase(t) = [name |-> "midgame", deadline |-> FullUnlockAt, wave |-> LatestWave(t)]
      BY <1>5, <1>9, <2>2 DEF ComputePhase
    <3>2. QED BY <1>3, <1>5, <1>9, <3>1 DEF Phases
  <2>3. QED BY <2>1, <2>2
<1>10. QED BY <1>5, <1>6, <1>7, <1>8, <1>9, ScheduleAssumption

\* A wave whose window closes by the full unlock is the current one at some
\* instant of its window, also when custom windows overlap: an earlier wave may
\* shorten what choose_unlock gets of it, never hide it.
THEOREM EveryWaveIsOffered ==
  ASSUME NEW w \in Waves, WaveEnd(w) <= FullUnlockAt
  PROVE  \E t \in WaveOpen[w] .. FullUnlockAt - 1 : CurrentWave(t) = w
<1> DEFINE t == WaveEnd(w) - 1
<1>1. WaveOpen[w] \in Nat /\ WaveWindow \in Nat \ {0} /\ FullUnlockAt \in Nat
  BY ScheduleAssumption
<1>2. t \in WaveOpen[w] .. FullUnlockAt - 1 /\ WaveOpen[w] <= t /\ t < WaveEnd(w)
  BY <1>1 DEF WaveEnd
<1>3. \A v \in Waves : v < w => WaveEnd(v) <= t
  <2>1. \A v \in Waves : v < w => WaveOpen[v] < WaveOpen[w] /\ WaveOpen[v] \in Nat
    BY ScheduleAssumption
  <2>2. QED BY <1>1, <2>1 DEF WaveEnd
<1> DEFINE open == {u \in Waves : WaveOpen[u] <= t /\ t < WaveEnd(u)}
<1>4. w \in open /\ open \subseteq Nat
  BY <1>2, ScheduleAssumption DEF Waves
<1>5. Min(open) \in open /\ Min(open) <= w
  BY <1>4, MinOfNaturals
<1>6. Min(open) = w
  <2>1. \A v \in Waves : WaveEnd(v) \in Nat
    BY ScheduleAssumption DEF WaveEnd
  <2>2. QED BY <1>2, <1>3, <1>4, <1>5, <2>1
<1>7. QED BY <1>2, <1>4, <1>6 DEF CurrentWave

\* What a wave offers is a set of kinds.
LEMMA WaveOptionsType ==
  ASSUME NEW w \in Waves
  PROVE  WaveOptions(w) \subseteq Kinds
<1> DEFINE prior == {s \in DOMAIN UnlockWaves : s <= WaveOpen[w]}
<1>1. WaveOpen[w] \in Nat
  BY ScheduleAssumption
<1>2. CASE prior # {}
  <2>1. prior \subseteq 0 .. WaveOpen[w]
    BY <1>1, UnlockWavesAssumption
  <2>2. Max(prior) \in DOMAIN UnlockWaves
    BY <1>1, <1>2, <2>1, MaxOfNaturals
  <2>3. QED BY <1>2, <2>2, UnlockWavesAssumption DEF WaveOptions
<1>3. CASE prior = {}
  <2>1. Min(DOMAIN UnlockWaves) \in DOMAIN UnlockWaves
    BY UnlockWavesAssumption, MinOfNaturals
  <2>2. QED BY <1>3, <2>1, UnlockWavesAssumption DEF WaveOptions
<1>4. QED BY <1>2, <1>3

\* The automatic pick is a kind of the wave that the player lacks, or the soldier.
LEMMA AutoPickOffered ==
  ASSUME NEW w \in Waves, NEW held \in SUBSET Kinds
  PROVE  /\ AutoPick(w, held) \in Kinds
         /\ AutoPick(w, held) \in (WaveOptions(w) \ held) \cup {"soldier"}
<1> DEFINE offered == {i \in DOMAIN AutoUnlockPriority :
                         AutoUnlockPriority[i] \in WaveOptions(w) \ held}
<1>1. CASE offered = {}
  BY <1>1 DEF AutoPick, Kinds
<1>2. CASE offered # {}
  <2>1. offered \subseteq Nat
    BY DEF AutoUnlockPriority
  <2>2. Min(offered) \in offered
    BY <1>2, <2>1, MinOfNaturals
  <2>3. AutoPick(w, held) = AutoUnlockPriority[Min(offered)]
    BY <1>2 DEF AutoPick
  <2>4. QED BY <2>2, <2>3, WaveOptionsType
<1>3. QED BY <1>1, <1>2

\* While the wave offers a kind the player lacks, apart from the soldier, the pick is
\* such a kind: AUTO_UNLOCK_PRIORITY names them all.
LEMMA AutoPickIsNew ==
  ASSUME NEW w \in Waves, NEW held \in SUBSET Kinds, WaveOptions(w) \ (held \cup {"soldier"}) # {}
  PROVE  AutoPick(w, held) \in WaveOptions(w) \ held
<1> DEFINE offered == {i \in DOMAIN AutoUnlockPriority :
                         AutoUnlockPriority[i] \in WaveOptions(w) \ held}
<1>1. \A kind \in Kinds \ {"soldier"} :
        \E i \in DOMAIN AutoUnlockPriority : AutoUnlockPriority[i] = kind
  <2>1. \A i \in 1 .. 6 : i \in DOMAIN AutoUnlockPriority
    BY DEF AutoUnlockPriority
  <2>2. /\ AutoUnlockPriority[1] = "cannon" /\ AutoUnlockPriority[2] = "horse"
        /\ AutoUnlockPriority[3] = "chariot" /\ AutoUnlockPriority[4] = "elephant"
        /\ AutoUnlockPriority[5] = "advisor" /\ AutoUnlockPriority[6] = "general"
    BY DEF AutoUnlockPriority
  <2>3. 1 \in 1 .. 6 /\ 2 \in 1 .. 6 /\ 3 \in 1 .. 6 /\ 4 \in 1 .. 6 /\ 5 \in 1 .. 6 /\ 6 \in 1 .. 6
    OBVIOUS
  <2> HIDE DEF AutoUnlockPriority
  <2>4. QED BY <2>1, <2>2, <2>3 DEF Kinds
<1>2. offered # {}
  BY <1>1, WaveOptionsType
<1>3. Min(offered) \in offered
  <2>1. offered \subseteq Nat
    BY DEF AutoUnlockPriority
  <2>2. QED BY <1>2, <2>1, MinOfNaturals
<1>4. AutoPick(w, held) = AutoUnlockPriority[Min(offered)]
  BY <1>2 DEF AutoPick
<1>5. QED BY <1>3, <1>4

-----------------------------------------------------------------------------
(* Pieces and cells *)

LEMMA PieceFacts ==
  ASSUME NEW p \in Pieces
  PROVE  Owner(p) \in Players /\ Kind(p) \in Kinds /\ InitialBoard[p].cell \in Cells
         /\ p \in Nat
<1>1. InitialBoard \in Seq([owner : Players, kind : Kinds, cell : Cells])
  BY BoardAssumption
<1>2. p \in 1 .. Len(InitialBoard)
  BY <1>1 DEF Pieces
<1>3. InitialBoard[p] \in [owner : Players, kind : Kinds, cell : Cells]
  BY <1>1, <1>2, ElementOfSeq
<1>4. QED BY <1>2, <1>3 DEF Owner, Kind

LEMMA DurationPositive ==
  ASSUME NEW kind \in Kinds, NEW path \in Seq(Cells), path # << >>
  PROVE  Duration(kind, path) \in Nat \ {0}
<1>1. Segment \in Nat \ {0} /\ Len(path) \in Nat \ {0}
  BY MoveAssumption
<1>2. \A k \in Nat \ {0} : Segment * k \in Nat \ {0}
  BY <1>1
<1>3. \A k \in DOMAIN FixedMove : FixedMove[k] \in Nat \ {0}
  BY DEF FixedMove
<1>4. QED BY <1>1, <1>2, <1>3 DEF Duration

\* A piece that is not in play holds nothing, a resting one its cell, a mover its
\* cell until it sets off and its target from its arrival on.
LEMMA HeldCells ==
  ASSUME NEW kind \in Kinds, NEW m \in PieceStates, NEW t \in Nat,
         m.moving => m.path # << >>
  PROVE  /\ ~m.alive => RuntimeCells(kind, m, t) = {}
         /\ m.alive /\ ~m.moving => RuntimeCells(kind, m, t) = {m.cell}
         /\ m.alive /\ m.moving /\ t >= MoveEnd(kind, m) =>
              RuntimeCells(kind, m, t) = {Target(m)}
         /\ m.alive /\ m.moving /\ t <= m.start =>
              RuntimeCells(kind, m, t) = {m.cell}
<1>1. ~m.alive => RuntimeCells(kind, m, t) = {}
  BY DEF RuntimeCells
<1>2. m.alive /\ ~m.moving => RuntimeCells(kind, m, t) = {m.cell}
  BY DEF RuntimeCells
<1>3. m.alive /\ m.moving /\ t >= MoveEnd(kind, m) => RuntimeCells(kind, m, t) = {Target(m)}
  BY DEF RuntimeCells
<1>4. ASSUME m.alive, m.moving, t <= m.start
      PROVE  RuntimeCells(kind, m, t) = {m.cell}
  <2> DEFINE D == Duration(kind, m.path)
  <2>1. m.start \in Nat /\ m.path \in Seq(Cells)
    BY DEF PieceStates
  <2>2. D \in Nat \ {0}
    BY <1>4, <2>1, DurationPositive
  <2>3. ~(t >= MoveEnd(kind, m))
    BY <1>4, <2>1, <2>2 DEF MoveEnd
  <2>4. Travelled(m, t) = 0
    <3>1. Len(m.path) \in Nat
      BY <2>1
    <3>2. (IF t < m.start THEN 0 ELSE t - m.start) = 0
      BY <1>4, <2>1
    <3>3. QED BY <3>1, <3>2 DEF Travelled
  <2>5. 0 \div D = 0 /\ 0 % D = 0
    <3> HIDE DEF D
    <3>1. QED BY <2>2
  <2>6. QED BY <1>4, <2>3, <2>4, <2>5 DEF RuntimeCells, Point
<1>5. QED BY <1>1, <1>2, <1>3, <1>4

\* A division whose quotient is a position in a list of length n stays inside it.
LEMMA QuotientBelow ==
  ASSUME NEW x \in Nat, NEW d \in Nat \ {0}, NEW n \in Nat \ {0}, x < d
  PROVE  (x * n) \div d \in 0 .. n - 1
<1> DEFINE q == (x * n) \div d
<1>1. x * n \in Nat
  OBVIOUS
<1>2. q \in Nat /\ q * d <= x * n
  <2> DEFINE y == x * n
  <2>1. y \in Nat
    BY <1>1
  <2> HIDE DEF y
  <2>2. y \div d \in Nat /\ (y \div d) * d <= y
    BY <2>1
  <2>3. QED BY <2>2 DEF y
<1>3. x * n < d * n
  OBVIOUS
<1> HIDE DEF q
<1>4. q < n
  <2> SUFFICES ASSUME q >= n PROVE FALSE
    BY <1>2
  <2>1. q * d >= n * d
    BY <1>2
  <2>2. n * d = d * n
    OBVIOUS
  <2>3. QED BY <1>1, <1>2, <1>3, <2>1, <2>2
<1>5. QED BY <1>2, <1>4 DEF q

\* A travelling piece holds cells of the board only, at every instant: the two
\* path points that get_piece_segment_state indexes exist.
THEOREM HeldCellsOnBoard ==
  ASSUME NEW kind \in Kinds, NEW m \in PieceStates, NEW t \in Nat,
         m.moving => m.path # << >>
  PROVE  RuntimeCells(kind, m, t) \subseteq Cells
<1> DEFINE D == Duration(kind, m.path)
           n == Len(m.path)
<1>1. m.start \in Nat /\ m.path \in Seq(Cells) /\ m.cell \in Cells /\ n \in Nat
  BY DEF PieceStates
<1>2. CASE ~m.alive \/ ~m.moving
  BY <1>1, <1>2 DEF RuntimeCells
<1>3. CASE m.alive /\ m.moving /\ t >= MoveEnd(kind, m)
  BY <1>1, <1>3 DEF RuntimeCells, Target
<1>4. CASE m.alive /\ m.moving /\ t < MoveEnd(kind, m)
  <2> DEFINE x == IF t < m.start THEN 0 ELSE t - m.start
             q == (x * n) \div D
  <2>1. D \in Nat \ {0} /\ n \in Nat \ {0}
    BY <1>1, <1>4, DurationPositive
  <2>2. x \in Nat /\ x < D
    BY <1>1, <1>4, <2>1 DEF MoveEnd
  <2> HIDE DEF x, D
  <2>3. q \in 0 .. n - 1
    BY <2>1, <2>2, QuotientBelow
  <2> HIDE DEF q
  <2>4. \A i \in 0 .. n : Point(m, i) \in Cells
    BY <1>1 DEF Point
  <2>5. RuntimeCells(kind, m, t) \subseteq {Point(m, q), Point(m, q + 1)}
    <3>1. ~(t >= MoveEnd(kind, m))
      BY <1>1, <1>4, <2>1 DEF MoveEnd, D
    <3>2. Travelled(m, t) = x * n
      BY DEF Travelled, x
    <3>3. Travelled(m, t) \div Duration(kind, m.path) = q
      BY <3>2 DEF q, D
    <3>4. QED BY <1>4, <3>1, <3>3 DEF RuntimeCells
  <2>6. q \in 0 .. n /\ q + 1 \in 0 .. n
    BY <2>1, <2>3
  <2>7. QED BY <2>4, <2>5, <2>6
<1>5. QED
  <2>1. MoveEnd(kind, m) \in Int \/ ~m.moving
    BY <1>1, DurationPositive DEF MoveEnd
  <2>2. QED BY <1>2, <1>3, <1>4, <2>1 DEF PieceStates

\* What integer division is.
LEMMA Quotient ==
  ASSUME NEW d \in Nat \ {0}, NEW y \in Nat
  PROVE  /\ y \div d \in Nat
         /\ (y \div d) * d <= y /\ y < (y \div d + 1) * d
         /\ y % d = y - (y \div d) * d
BY SMTT(20)

\* Dividing with remainder: what is left over is less than the divisor.
LEMMA DivisionOf ==
  ASSUME NEW d \in Nat \ {0}, NEW g \in Nat, NEW e \in 0 .. d - 1
  PROVE  (g * d + e) \div d = g /\ (g * d + e) % d = e
<1> DEFINE y == g * d + e
           h == y \div d
<1>1. y \in Nat
  OBVIOUS
<1>2. h \in Nat /\ h * d <= y /\ y < (h + 1) * d /\ y % d = y - h * d
  <2> HIDE DEF y
  <2> QED BY <1>1, Quotient
<1> HIDE DEF h
<1>3. h = g
  <2>1. ~(h < g)
    <3> SUFFICES ASSUME h < g PROVE FALSE
      OBVIOUS
    <3>1. (h + 1) * d <= g * d
      BY <1>2
    <3> QED BY <1>2, <3>1
  <2>2. ~(g < h)
    <3> SUFFICES ASSUME g < h PROVE FALSE
      OBVIOUS
    <3>1. (g + 1) * d <= h * d
      BY <1>2
    <3>2. (g + 1) * d = g * d + d
      OBVIOUS
    <3> QED BY <1>2, <3>1, <3>2
  <2> QED BY <1>2, <2>1, <2>2
<1> QED BY <1>2, <1>3 DEF h

\* A piece holds a point of its journey from when it leaves the one before until it
\* reaches the one after.
LEMMA HoldsPoint ==
  ASSUME NEW kind \in Kinds, NEW m \in PieceStates, NEW t \in Nat, m.alive, m.moving,
         m.path # << >>, Duration(kind, m.path) = Segment * Len(m.path),
         NEW k \in 0 .. Len(m.path), m.start <= t,
         m.start + k * Segment - Segment < t, t < m.start + k * Segment + Segment
  PROVE  Point(m, k) \in RuntimeCells(kind, m, t)
<1> DEFINE n == Len(m.path)
           x == t - m.start
           g == x \div Segment
           r == x - g * Segment
<1>1. /\ m.start \in Nat /\ n \in Nat \ {0} /\ Segment \in Nat \ {0} /\ x \in Nat
      /\ k \in Nat /\ k <= n
  BY MoveAssumption DEF PieceStates
<1>2. x < (k + 1) * Segment /\ (k - 1) * Segment < x
  BY <1>1
<1>3. g \in Nat /\ r \in 0 .. Segment - 1 /\ x = g * Segment + r
  <2> HIDE DEF x
  <2>1. g \in Nat /\ g * Segment <= x /\ x < (g + 1) * Segment
    BY <1>1, Quotient
  <2> HIDE DEF g
  <2> QED BY <1>1, <2>1
<1>4. MoveEnd(kind, m) = m.start + Segment * n
  BY DEF MoveEnd
<1> HIDE DEF n, g, r, x
<1>5. CASE t >= MoveEnd(kind, m)
  <2>1. Segment * n < (k + 1) * Segment
    <3>1. Segment * n \in Nat
      BY <1>1
    <3>2. Segment * n <= x
      BY <1>1, <1>4, <1>5, <3>1 DEF x
    <3> QED BY <1>1, <1>2, <3>1, <3>2
  <2>2. ~(k + 1 <= n)
    <3> SUFFICES ASSUME k + 1 <= n PROVE FALSE
      OBVIOUS
    <3>1. (k + 1) * Segment <= n * Segment
      BY <1>1
    <3>2. n * Segment = Segment * n
      BY <1>1
    <3> QED BY <1>1, <2>1, <3>1, <3>2
  <2>3. k = n
    BY <1>1, <2>2 DEF n
  <2> QED BY <1>1, <1>5, <2>3 DEF RuntimeCells, Target, Point, n
<1>6. CASE ~(t >= MoveEnd(kind, m))
  <2> DEFINE d == Segment * n
             e == r * n
  <2>1. d \in Nat \ {0} /\ e \in 0 .. d - 1
    <3>1. d \in Nat \ {0} /\ e \in Nat
      BY <1>1, <1>3
    <3>2. (r + 1) * n <= Segment * n
      BY <1>1, <1>3
    <3>3. (r + 1) * n = r * n + n
      BY <1>1, <1>3
    <3> QED BY <1>1, <3>1, <3>2, <3>3
  <2>2. x * n = g * d + e
    BY <1>1, <1>3
  <2> HIDE DEF d, e
  <2>3. (x * n) \div d = g /\ (x * n) % d = e
    BY <1>3, <2>1, <2>2, DivisionOf
  <2>4. Travelled(m, t) = x * n /\ Duration(kind, m.path) = d
    BY <1>1 DEF Travelled, x, n, d
  <2>5. /\ Point(m, g) \in RuntimeCells(kind, m, t)
        /\ e # 0 => Point(m, g + 1) \in RuntimeCells(kind, m, t)
    BY <1>6, <2>3, <2>4 DEF RuntimeCells
  <2>6. g = k \/ (g = k - 1 /\ r # 0)
    <3>1. ~(k + 1 <= g)
      <4> SUFFICES ASSUME k + 1 <= g PROVE FALSE
        OBVIOUS
      <4>1. (k + 1) * Segment <= g * Segment
        BY <1>1, <1>3
      <4>2. g * Segment \in Nat /\ g * Segment <= x /\ (k + 1) * Segment \in Nat
        BY <1>1, <1>3
      <4> QED BY <1>1, <1>2, <4>1, <4>2
    <3>2. ~(g + 1 <= k - 1)
      <4> SUFFICES ASSUME g + 1 <= k - 1 PROVE FALSE
        OBVIOUS
      <4>1. (g + 1) * Segment <= (k - 1) * Segment
        BY <1>1, <1>3
      <4>2. (g + 1) * Segment = g * Segment + Segment
        BY <1>1, <1>3
      <4> QED BY <1>1, <1>2, <1>3, <4>1, <4>2
    <3>3. g = k - 1 => r # 0
      BY <1>1, <1>2, <1>3
    <3> QED BY <1>1, <1>3, <3>1, <3>2, <3>3
  <2>7. r # 0 => e # 0
    BY <1>1, <1>3 DEF e
  <2> QED BY <1>1, <1>3, <2>5, <2>6, <2>7
<1> QED BY <1>5, <1>6

-----------------------------------------------------------------------------
(* Paths *)

LEMMA CellFacts ==
  /\ \A c \in Cells : X(c) \in Columns /\ Y(c) \in Rows /\ c = <<X(c), Y(c)>>
  /\ \A x \in Columns, y \in Rows : <<x, y>> \in Cells
BY DEF Cells, X, Y

\* A rook path leads from one cell of a line to another, over cells of the board.
LEMMA RookPathLeads ==
  ASSUME NEW a \in Cells, NEW b \in Cells, a # b, InLine(a, b)
  PROVE  /\ RookPath(a, b) \in Seq(Cells) /\ RookPath(a, b) # << >>
         /\ RookPath(a, b)[Len(RookPath(a, b))] = b
<1>1. X(a) \in Int /\ X(b) \in Int /\ Y(a) \in Int /\ Y(b) \in Int
  BY CellFacts DEF Columns, Rows
<1>2. CASE X(a) = X(b)
  <2> DEFINE n == Abs(Y(b) - Y(a))
             point(i) == <<X(a), Y(a) + i * Step(Y(a), Y(b))>>
  <2>1. RookPath(a, b) = [i \in 1 .. n |-> point(i)]
    BY <1>2 DEF RookPath
  <2>2. n \in Nat \ {0}
    BY <1>1, <1>2, CellFacts DEF Abs
  <2>3. \A i \in 1 .. n : point(i) \in Cells
    <3> SUFFICES ASSUME NEW i \in 1 .. n PROVE Y(a) + i * Step(Y(a), Y(b)) \in Rows
      BY CellFacts
    <3>1. Y(a) \in Rows /\ Y(b) \in Rows
      BY CellFacts
    <3>2. CASE Y(b) > Y(a)
      <4>1. i * Step(Y(a), Y(b)) = i /\ n = Y(b) - Y(a)
        BY <1>1, <3>2 DEF Step, Abs
      <4>2. QED BY <3>1, <4>1 DEF Rows
    <3>3. CASE ~(Y(b) > Y(a))
      <4>1. i * Step(Y(a), Y(b)) = -i /\ n = Y(a) - Y(b)
        BY <1>1, <3>3 DEF Step, Abs
      <4>2. QED BY <3>1, <4>1 DEF Rows
    <3>4. QED BY <3>2, <3>3
  <2>4. point(n) = b
    BY <1>1, <1>2, CellFacts DEF Abs, Step
  <2> HIDE DEF n, point
  <2>5. RookPath(a, b) \in Seq(Cells) /\ Len(RookPath(a, b)) = n
    BY <2>1, <2>2, <2>3
  <2>6. QED BY <2>1, <2>2, <2>4, <2>5
<1>3. CASE X(a) # X(b)
  <2> DEFINE n == Abs(X(b) - X(a))
             point(i) == <<X(a) + i * Step(X(a), X(b)), Y(a)>>
  <2>1. RookPath(a, b) = [i \in 1 .. n |-> point(i)]
    BY <1>3 DEF RookPath
  <2>2. n \in Nat \ {0}
    BY <1>1, <1>3 DEF Abs
  <2>3. \A i \in 1 .. n : point(i) \in Cells
    <3> SUFFICES ASSUME NEW i \in 1 .. n PROVE X(a) + i * Step(X(a), X(b)) \in Columns
      BY CellFacts
    <3>1. X(a) \in Columns /\ X(b) \in Columns
      BY CellFacts
    <3>2. CASE X(b) > X(a)
      <4>1. i * Step(X(a), X(b)) = i /\ n = X(b) - X(a)
        BY <1>1, <3>2 DEF Step, Abs
      <4>2. QED BY <3>1, <4>1 DEF Columns
    <3>3. CASE ~(X(b) > X(a))
      <4>1. i * Step(X(a), X(b)) = -i /\ n = X(a) - X(b)
        BY <1>1, <3>3 DEF Step, Abs
      <4>2. QED BY <3>1, <4>1 DEF Columns
    <3>4. QED BY <3>2, <3>3
  <2>4. point(n) = b
    BY <1>1, <1>3, CellFacts DEF Abs, Step, InLine
  <2> HIDE DEF n, point
  <2>5. RookPath(a, b) \in Seq(Cells) /\ Len(RookPath(a, b)) = n
    BY <2>1, <2>2, <2>3
  <2>6. QED BY <2>1, <2>2, <2>4, <2>5
<1>4. QED BY <1>2, <1>3

\* The path of a legal move leads to its target over cells of the board, and the
\* move lasts exactly one segment per cell of the path: the fixed durations of
\* ruleset.py agree with the lengths of the paths build_path returns.
THEOREM PathOfLegalMove ==
  ASSUME NEW p \in Pieces, NEW ps \in [Pieces -> PieceStates], NEW t \in Nat,
         NEW b, ValidateMove(p, b, ps, t)
  PROVE  LET path == BuildPath(Kind(p), ps[p].cell, b)
         IN  /\ path \in Seq(Cells) /\ path # << >>
             /\ path[Len(path)] = b
             /\ Duration(Kind(p), path) = Segment * Len(path)
<1> DEFINE a == ps[p].cell
           path == BuildPath(Kind(p), a, b)
<1>1. a \in Cells /\ b \in Cells /\ a # b /\ Kind(p) \in Kinds
  BY PieceFacts DEF ValidateMove, PieceStates
<1>2. X(a) \in Int /\ X(b) \in Int /\ Y(a) \in Int /\ Y(b) \in Int /\ Segment \in Nat
  BY <1>1, CellFacts, MoveAssumption DEF Columns, Rows
<1>3. CASE Kind(p) \in {"chariot", "cannon"}
  <2>1. InLine(a, b)
    BY <1>3 DEF ValidateMove, ChariotRule, CannonRule
  <2>2. path = RookPath(a, b)
    BY <1>3 DEF BuildPath
  <2>3. Duration(Kind(p), path) = Segment * Len(path)
    BY <1>3 DEF Duration, FixedMove
  <2>4. QED BY <1>1, <2>1, <2>2, <2>3, RookPathLeads
<1>4. CASE Kind(p) = "horse"
  <2>1. HorseRule(p, a, b, ps, t)
    BY <1>4 DEF ValidateMove
  <2>2. HorseLeg(a, b) \in Cells
    <3> DEFINE dx == X(b) - X(a)
               dy == Y(b) - Y(a)
    <3>1. dx \in Int /\ dy \in Int
          /\ ((Abs(dx) = 2 /\ Abs(dy) = 1) \/ (Abs(dx) = 1 /\ Abs(dy) = 2))
      BY <1>2, <2>1 DEF HorseRule
    <3>2. X(a) \in Columns /\ X(b) \in Columns /\ Y(a) \in Rows /\ Y(b) \in Rows
      BY <1>1, CellFacts
    <3>3. CASE Abs(dx) = 2
      <4>1. (dx = 2 /\ dx \div 2 = 1) \/ (dx = -2 /\ dx \div 2 = -1)
        BY <3>1, <3>3 DEF Abs
      <4>2. X(a) + dx \div 2 \in Columns
        BY <3>2, <4>1 DEF Columns
      <4>3. QED BY <3>2, <3>3, <4>2, CellFacts DEF HorseLeg
    <3>4. CASE Abs(dx) # 2
      <4>1. (dy = 2 /\ dy \div 2 = 1) \/ (dy = -2 /\ dy \div 2 = -1)
        BY <3>1, <3>4 DEF Abs
      <4>2. Y(a) + dy \div 2 \in Rows
        BY <3>2, <4>1 DEF Rows
      <4>3. QED BY <3>2, <3>4, <4>2, CellFacts DEF HorseLeg
    <3>5. QED BY <3>3, <3>4
  <2>3. path = <<HorseLeg(a, b), b>>
    BY <1>4 DEF BuildPath
  <2>4. Duration(Kind(p), path) = Segment * 2
    BY <1>4 DEF Duration, FixedMove
  <2>5. QED BY <1>1, <2>2, <2>3, <2>4
<1>5. CASE Kind(p) = "elephant"
  <2>1. ElephantRule(p, a, b, ps, t)
    BY <1>5 DEF ValidateMove
  <2>2. ElephantEye(a, b) \in Cells
    <3> DEFINE dx == X(b) - X(a)
               dy == Y(b) - Y(a)
    <3>1. dx \in Int /\ dy \in Int /\ Abs(dx) = 2 /\ Abs(dy) = 2
      BY <1>2, <2>1 DEF ElephantRule
    <3>2. X(a) \in Columns /\ X(b) \in Columns /\ Y(a) \in Rows /\ Y(b) \in Rows
      BY <1>1, CellFacts
    <3>3. (dx = 2 /\ dx \div 2 = 1) \/ (dx = -2 /\ dx \div 2 = -1)
      BY <3>1 DEF Abs
    <3>4. (dy = 2 /\ dy \div 2 = 1) \/ (dy = -2 /\ dy \div 2 = -1)
      BY <3>1 DEF Abs
    <3>5. X(a) + dx \div 2 \in Columns
      BY <3>2, <3>3 DEF Columns
    <3>6. Y(a) + dy \div 2 \in Rows
      BY <3>2, <3>4 DEF Rows
    <3>7. QED BY <3>5, <3>6, CellFacts DEF ElephantEye
  <2>3. path = <<ElephantEye(a, b), b>>
    BY <1>5 DEF BuildPath
  <2>4. Duration(Kind(p), path) = Segment * 2
    BY <1>5 DEF Duration, FixedMove
  <2>5. QED BY <1>1, <2>2, <2>3, <2>4
<1>6. CASE Kind(p) \in {"soldier", "advisor", "general"}
  <2>1. path = <<b>>
    BY <1>6 DEF BuildPath
  <2>2. Duration(Kind(p), path) = Segment * 1
    BY <1>6 DEF Duration, FixedMove
  <2>3. QED BY <1>1, <2>1, <2>2
<1>7. QED BY <1>1, <1>3, <1>4, <1>5, <1>6 DEF Kinds

-----------------------------------------------------------------------------
(* MoveRules on a board where nobody travels are the rules of Xiangqi *)

PositionOf(ps) == [q \in {q \in Pieces : ps[q].alive} |-> ps[q].cell]

\* Nobody travels, and enemies stand on cells of their own.
AtRest(ps) ==
  /\ ps \in [Pieces -> PieceStates]
  /\ \A q \in Pieces : ~ps[q].moving
  /\ \A q, r \in Pieces : ps[q].alive /\ ps[r].alive /\ Enemies(q, r) => ps[q].cell # ps[r].cell

LEMMA CellParts ==
  ASSUME NEW a \in Cells
  PROVE  /\ a[1] \in 0 .. 8 /\ a[2] \in 0 .. 9 /\ a = <<a[1], a[2]>>
         /\ X(a) = a[1] /\ Y(a) = a[2]
BY DEF Cells, Columns, Rows, X, Y

LEMMA AlongIs ==
  ASSUME NEW a \in Cells, NEW n \in Int
  PROVE  /\ Along(a, <<0, -1>>, n) = <<a[1], a[2] - n>>
         /\ Along(a, <<0, 1>>, n) = <<a[1], a[2] + n>>
         /\ Along(a, <<-1, 0>>, n) = <<a[1] - n, a[2]>>
         /\ Along(a, <<1, 0>>, n) = <<a[1] + n, a[2]>>
         /\ Along(a, <<-1, -1>>, n) = <<a[1] - n, a[2] - n>>
         /\ Along(a, <<-1, 1>>, n) = <<a[1] - n, a[2] + n>>
         /\ Along(a, <<1, -1>>, n) = <<a[1] + n, a[2] - n>>
         /\ Along(a, <<1, 1>>, n) = <<a[1] + n, a[2] + n>>
BY CellParts DEF Along

LEMMA Directions ==
  /\ \A d \in Straight : d = <<0, -1>> \/ d = <<0, 1>> \/ d = <<-1, 0>> \/ d = <<1, 0>>
  /\ \A d \in Oblique : d = <<-1, -1>> \/ d = <<-1, 1>> \/ d = <<1, -1>> \/ d = <<1, 1>>
BY DEF Straight, Oblique

\* The cells between two cells of a line, counted from the one to the other.
LEMMA BetweenAlong ==
  ASSUME NEW a \in Cells, NEW b \in Cells, NEW d \in Straight, NEW n \in 1 .. 9, b = Along(a, d, n)
  PROVE  /\ a # b /\ InLine(a, b)
         /\ Between(a, b) = {Along(a, d, i) : i \in 1 .. n - 1}
         /\ \A i, j \in 1 .. n - 1 : Along(a, d, i) = Along(a, d, j) => i = j
<1>1. /\ a[1] \in 0 .. 8 /\ a[2] \in 0 .. 9 /\ a = <<a[1], a[2]>> /\ X(a) = a[1] /\ Y(a) = a[2]
      /\ b[1] \in 0 .. 8 /\ b[2] \in 0 .. 9 /\ b = <<b[1], b[2]>> /\ X(b) = b[1] /\ Y(b) = b[2]
  BY CellParts
<1>2. CASE d = <<0, -1>>
  <2>1. \A i \in 0 .. 9 : Along(a, d, i) = <<a[1], a[2] - i>>
    BY <1>2, AlongIs
  <2>2. b[1] = a[1] /\ b[2] = a[2] - n
    BY <1>1, <2>1
  <2>3. Between(a, b) = {<<a[1], y>> : y \in {y \in Rows : b[2] < y /\ y < a[2]}}
    BY <1>1, <2>2 DEF Between, Rows, Columns
  <2>4. ASSUME NEW y \in Rows, b[2] < y, y < a[2]
        PROVE  \E i \in 1 .. n - 1 : <<a[1], y>> = Along(a, d, i)
    <3>1. a[2] - y \in 1 .. n - 1 /\ a[2] - (a[2] - y) = y
      BY <1>1, <2>2, <2>4 DEF Rows
    <3>2. QED BY <2>1, <3>1
  <2>5. ASSUME NEW i \in 1 .. n - 1
        PROVE  a[2] - i \in Rows /\ b[2] < a[2] - i /\ a[2] - i < a[2]
    BY <1>1, <2>2 DEF Rows
  <2>6. \A c : c \in Between(a, b) <=> \E i \in 1 .. n - 1 : c = Along(a, d, i)
    <3>1. ASSUME NEW c \in Between(a, b) PROVE \E i \in 1 .. n - 1 : c = Along(a, d, i)
      <4>1. PICK y \in Rows : b[2] < y /\ y < a[2] /\ c = <<a[1], y>>
        BY <2>3, <3>1
      <4>2. QED BY <2>4, <4>1
    <3>2. ASSUME NEW i \in 1 .. n - 1 PROVE Along(a, d, i) \in Between(a, b)
      <4>1. Along(a, d, i) = <<a[1], a[2] - i>>
        BY <2>1
      <4>2. QED BY <2>3, <2>5, <4>1
    <3>3. QED BY <3>1, <3>2
  <2>7. Between(a, b) = {Along(a, d, i) : i \in 1 .. n - 1}
    BY <2>6
  <2>8. \A i, j \in 1 .. n - 1 : Along(a, d, i) = Along(a, d, j) => i = j
    BY <1>1, <2>1
  <2>9. a # b /\ InLine(a, b)
    BY <1>1, <2>2 DEF InLine
  <2>10. QED BY <2>7, <2>8, <2>9
<1>3. CASE d = <<0, 1>>
  <2>1. \A i \in 0 .. 9 : Along(a, d, i) = <<a[1], a[2] + i>>
    BY <1>3, AlongIs
  <2>2. b[1] = a[1] /\ b[2] = a[2] + n
    BY <1>1, <2>1
  <2>3. Between(a, b) = {<<a[1], y>> : y \in {y \in Rows : a[2] < y /\ y < b[2]}}
    BY <1>1, <2>2 DEF Between, Rows, Columns
  <2>4. ASSUME NEW y \in Rows, a[2] < y, y < b[2]
        PROVE  \E i \in 1 .. n - 1 : <<a[1], y>> = Along(a, d, i)
    <3>1. y - a[2] \in 1 .. n - 1 /\ a[2] + (y - a[2]) = y
      BY <1>1, <2>2, <2>4 DEF Rows
    <3>2. QED BY <2>1, <3>1
  <2>5. ASSUME NEW i \in 1 .. n - 1
        PROVE  a[2] + i \in Rows /\ a[2] < a[2] + i /\ a[2] + i < b[2]
    BY <1>1, <2>2 DEF Rows
  <2>6. \A c : c \in Between(a, b) <=> \E i \in 1 .. n - 1 : c = Along(a, d, i)
    <3>1. ASSUME NEW c \in Between(a, b) PROVE \E i \in 1 .. n - 1 : c = Along(a, d, i)
      <4>1. PICK y \in Rows : a[2] < y /\ y < b[2] /\ c = <<a[1], y>>
        BY <2>3, <3>1
      <4>2. QED BY <2>4, <4>1
    <3>2. ASSUME NEW i \in 1 .. n - 1 PROVE Along(a, d, i) \in Between(a, b)
      <4>1. Along(a, d, i) = <<a[1], a[2] + i>>
        BY <2>1
      <4>2. QED BY <2>3, <2>5, <4>1
    <3>3. QED BY <3>1, <3>2
  <2>7. Between(a, b) = {Along(a, d, i) : i \in 1 .. n - 1}
    BY <2>6
  <2>8. \A i, j \in 1 .. n - 1 : Along(a, d, i) = Along(a, d, j) => i = j
    BY <1>1, <2>1
  <2>9. a # b /\ InLine(a, b)
    BY <1>1, <2>2 DEF InLine
  <2>10. QED BY <2>7, <2>8, <2>9
<1>4. CASE d = <<-1, 0>>
  <2>1. \A i \in 0 .. 9 : Along(a, d, i) = <<a[1] - i, a[2]>>
    BY <1>4, AlongIs
  <2>2. b[2] = a[2] /\ b[1] = a[1] - n
    BY <1>1, <2>1
  <2>3. Between(a, b) = {<<x, a[2]>> : x \in {x \in Columns : b[1] < x /\ x < a[1]}}
    BY <1>1, <2>2 DEF Between, Rows, Columns
  <2>4. ASSUME NEW x \in Columns, b[1] < x, x < a[1]
        PROVE  \E i \in 1 .. n - 1 : <<x, a[2]>> = Along(a, d, i)
    <3>1. a[1] - x \in 1 .. n - 1 /\ a[1] - (a[1] - x) = x
      BY <1>1, <2>2, <2>4 DEF Columns
    <3>2. QED BY <2>1, <3>1
  <2>5. ASSUME NEW i \in 1 .. n - 1
        PROVE  a[1] - i \in Columns /\ b[1] < a[1] - i /\ a[1] - i < a[1]
    BY <1>1, <2>2 DEF Columns
  <2>6. \A c : c \in Between(a, b) <=> \E i \in 1 .. n - 1 : c = Along(a, d, i)
    <3>1. ASSUME NEW c \in Between(a, b) PROVE \E i \in 1 .. n - 1 : c = Along(a, d, i)
      <4>1. PICK x \in Columns : b[1] < x /\ x < a[1] /\ c = <<x, a[2]>>
        BY <2>3, <3>1
      <4>2. QED BY <2>4, <4>1
    <3>2. ASSUME NEW i \in 1 .. n - 1 PROVE Along(a, d, i) \in Between(a, b)
      <4>1. Along(a, d, i) = <<a[1] - i, a[2]>>
        BY <2>1
      <4>2. QED BY <2>3, <2>5, <4>1
    <3>3. QED BY <3>1, <3>2
  <2>7. Between(a, b) = {Along(a, d, i) : i \in 1 .. n - 1}
    BY <2>6
  <2>8. \A i, j \in 1 .. n - 1 : Along(a, d, i) = Along(a, d, j) => i = j
    BY <1>1, <2>1
  <2>9. a # b /\ InLine(a, b)
    BY <1>1, <2>2 DEF InLine
  <2>10. QED BY <2>7, <2>8, <2>9
<1>5. CASE d = <<1, 0>>
  <2>1. \A i \in 0 .. 9 : Along(a, d, i) = <<a[1] + i, a[2]>>
    BY <1>5, AlongIs
  <2>2. b[2] = a[2] /\ b[1] = a[1] + n
    BY <1>1, <2>1
  <2>3. Between(a, b) = {<<x, a[2]>> : x \in {x \in Columns : a[1] < x /\ x < b[1]}}
    BY <1>1, <2>2 DEF Between, Rows, Columns
  <2>4. ASSUME NEW x \in Columns, a[1] < x, x < b[1]
        PROVE  \E i \in 1 .. n - 1 : <<x, a[2]>> = Along(a, d, i)
    <3>1. x - a[1] \in 1 .. n - 1 /\ a[1] + (x - a[1]) = x
      BY <1>1, <2>2, <2>4 DEF Columns
    <3>2. QED BY <2>1, <3>1
  <2>5. ASSUME NEW i \in 1 .. n - 1
        PROVE  a[1] + i \in Columns /\ a[1] < a[1] + i /\ a[1] + i < b[1]
    BY <1>1, <2>2 DEF Columns
  <2>6. \A c : c \in Between(a, b) <=> \E i \in 1 .. n - 1 : c = Along(a, d, i)
    <3>1. ASSUME NEW c \in Between(a, b) PROVE \E i \in 1 .. n - 1 : c = Along(a, d, i)
      <4>1. PICK x \in Columns : a[1] < x /\ x < b[1] /\ c = <<x, a[2]>>
        BY <2>3, <3>1
      <4>2. QED BY <2>4, <4>1
    <3>2. ASSUME NEW i \in 1 .. n - 1 PROVE Along(a, d, i) \in Between(a, b)
      <4>1. Along(a, d, i) = <<a[1] + i, a[2]>>
        BY <2>1
      <4>2. QED BY <2>3, <2>5, <4>1
    <3>3. QED BY <3>1, <3>2
  <2>7. Between(a, b) = {Along(a, d, i) : i \in 1 .. n - 1}
    BY <2>6
  <2>8. \A i, j \in 1 .. n - 1 : Along(a, d, i) = Along(a, d, j) => i = j
    BY <1>1, <2>1
  <2>9. a # b /\ InLine(a, b)
    BY <1>1, <2>2 DEF InLine
  <2>10. QED BY <2>7, <2>8, <2>9
<1>6. QED BY <1>2, <1>3, <1>4, <1>5, Directions

LEMMA LineHasDirection ==
  ASSUME NEW a \in Cells, NEW b \in Cells, a # b, InLine(a, b)
  PROVE  \E d \in Straight, n \in 1 .. 9 : b = Along(a, d, n)
<1>1. /\ a[1] \in 0 .. 8 /\ a[2] \in 0 .. 9 /\ a = <<a[1], a[2]>> /\ X(a) = a[1] /\ Y(a) = a[2]
      /\ b[1] \in 0 .. 8 /\ b[2] \in 0 .. 9 /\ b = <<b[1], b[2]>> /\ X(b) = b[1] /\ Y(b) = b[2]
  BY CellParts
<1>2. a[1] = b[1] \/ a[2] = b[2]
  BY <1>1 DEF InLine
<1>3. \A n \in 1 .. 9 :
        /\ Along(a, <<0, -1>>, n) = <<a[1], a[2] - n>> /\ Along(a, <<0, 1>>, n) = <<a[1], a[2] + n>>
        /\ Along(a, <<-1, 0>>, n) = <<a[1] - n, a[2]>> /\ Along(a, <<1, 0>>, n) = <<a[1] + n, a[2]>>
  BY AlongIs
<1>4. <<0, -1>> \in Straight /\ <<0, 1>> \in Straight /\ <<-1, 0>> \in Straight /\ <<1, 0>> \in Straight
  BY DEF Straight
<1>5. CASE a[1] = b[1] /\ b[2] < a[2]
  <2>1. a[2] - b[2] \in 1 .. 9 /\ b = <<a[1], a[2] - (a[2] - b[2])>>
    BY <1>1, <1>5
  <2>2. QED BY <1>3, <1>4, <2>1
<1>6. CASE a[1] = b[1] /\ a[2] < b[2]
  <2>1. b[2] - a[2] \in 1 .. 9 /\ b = <<a[1], a[2] + (b[2] - a[2])>>
    BY <1>1, <1>6
  <2>2. QED BY <1>3, <1>4, <2>1
<1>7. CASE a[2] = b[2] /\ b[1] < a[1]
  <2>1. a[1] - b[1] \in 1 .. 9 /\ b = <<a[1] - (a[1] - b[1]), a[2]>>
    BY <1>1, <1>7
  <2>2. QED BY <1>3, <1>4, <2>1
<1>8. CASE a[2] = b[2] /\ a[1] < b[1]
  <2>1. b[1] - a[1] \in 1 .. 9 /\ b = <<a[1] + (b[1] - a[1]), a[2]>>
    BY <1>1, <1>8
  <2>2. QED BY <1>3, <1>4, <2>1
<1>9. a[1] # b[1] \/ a[2] # b[2]
  BY <1>1
<1>10. QED BY <1>1, <1>2, <1>5, <1>6, <1>7, <1>8, <1>9

\* The cells of a line on which somebody stands.
Blockers(at, a, b) == {c \in Between(a, b) : Stands(at, c)}

LEMMA BlockersAlong ==
  ASSUME NEW at, NEW a \in Cells, NEW b \in Cells, NEW d \in Straight, NEW n \in 1 .. 9,
         b = Along(a, d, n)
  PROVE  /\ Screens(at, a, d, n) = {} <=> Blockers(at, a, b) = {}
         /\ (\E i \in 1 .. n - 1 : Screens(at, a, d, n) = {i}) <=> \E c : Blockers(at, a, b) = {c}
<1>1. \A c : c \in Blockers(at, a, b) <=> \E i \in Screens(at, a, d, n) : c = Along(a, d, i)
  BY BetweenAlong DEF Blockers, Screens
<1>2. \A i, j \in Screens(at, a, d, n) : Along(a, d, i) = Along(a, d, j) => i = j
  BY BetweenAlong DEF Screens
<1>3. \A i \in Screens(at, a, d, n) : i \in 1 .. n - 1
  BY DEF Screens
<1> HIDE DEF Blockers, Screens
<1>4. Screens(at, a, d, n) = {} <=> Blockers(at, a, b) = {}
  BY <1>1
<1>5. ASSUME NEW i \in 1 .. n - 1, Screens(at, a, d, n) = {i} PROVE \E c : Blockers(at, a, b) = {c}
  <2>1. Blockers(at, a, b) = {Along(a, d, i)}
    BY <1>1, <1>5
  <2>2. QED BY <2>1
<1>6. ASSUME NEW c, Blockers(at, a, b) = {c} PROVE \E i \in 1 .. n - 1 : Screens(at, a, d, n) = {i}
  <2>1. PICK i \in Screens(at, a, d, n) : c = Along(a, d, i)
    BY <1>1, <1>6
  <2>2. \A j \in Screens(at, a, d, n) : Along(a, d, j) = c
    BY <1>1, <1>6
  <2>3. Screens(at, a, d, n) = {i}
    BY <1>2, <2>1, <2>2
  <2>4. QED BY <1>3, <2>1, <2>3
<1>7. QED BY <1>4, <1>5, <1>6

\* The rays of the rules against the counting of the code.
LEMMA Rays ==
  ASSUME NEW at, NEW a \in Cells, NEW b \in Cells, a # b
  PROVE  /\ Open(at, a, b) <=> InLine(a, b) /\ Blockers(at, a, b) = {}
         /\ OverOneScreen(at, a, b) <=> InLine(a, b) /\ \E c : Blockers(at, a, b) = {c}
<1>1. \A d \in Straight, n \in 1 .. 9 : b = Along(a, d, n) => InLine(a, b)
  BY BetweenAlong
<1>2. \A d \in Straight, n \in 1 .. 9 : b = Along(a, d, n) =>
        /\ Screens(at, a, d, n) = {} <=> Blockers(at, a, b) = {}
        /\ (\E i \in 1 .. n - 1 : Screens(at, a, d, n) = {i}) <=> \E c : Blockers(at, a, b) = {c}
  BY BlockersAlong
<1>3. InLine(a, b) => \E d \in Straight, n \in 1 .. 9 : b = Along(a, d, n)
  BY LineHasDirection
<1>4. Open(at, a, b) <=> InLine(a, b) /\ Blockers(at, a, b) = {}
  BY <1>1, <1>2, <1>3 DEF Open
<1>5. OverOneScreen(at, a, b) <=> InLine(a, b) /\ \E c : Blockers(at, a, b) = {c}
  BY <1>1, <1>2, <1>3 DEF OverOneScreen
<1>6. QED BY <1>4, <1>5

LEMMA OccupiedAtRest ==
  ASSUME NEW ps, AtRest(ps), NEW c, NEW t, NEW ignore
  PROVE  /\ Occupants(ps, c, t, ignore)
              = {q \in DOMAIN PositionOf(ps) \ ignore : PositionOf(ps)[q] = c}
         /\ Occupied(ps, c, t, ignore)
              <=> \E q \in DOMAIN PositionOf(ps) \ ignore : PositionOf(ps)[q] = c
<1>1. ASSUME NEW q \in Pieces
      PROVE  c \in RuntimeCells(Kind(q), ps[q], t) <=> ps[q].alive /\ ps[q].cell = c
  BY DEF AtRest, RuntimeCells
<1>2. \A q \in DOMAIN PositionOf(ps) : q \in Pieces /\ ps[q].alive /\ PositionOf(ps)[q] = ps[q].cell
  BY DEF PositionOf
<1>3. \A q \in Pieces : ps[q].alive => q \in DOMAIN PositionOf(ps)
  BY DEF PositionOf
<1>4. Occupants(ps, c, t, ignore) = {q \in DOMAIN PositionOf(ps) \ ignore : PositionOf(ps)[q] = c}
  BY <1>1, <1>2, <1>3 DEF Occupants
<1>5. QED BY <1>4 DEF Occupied

LEMMA LineFinite == \A a, b \in Cells : IsFiniteSet(Between(a, b))
<1> SUFFICES ASSUME NEW a \in Cells, NEW b \in Cells PROVE IsFiniteSet(Between(a, b))
  OBVIOUS
<1>1. IsFiniteSet(Columns) /\ IsFiniteSet(Rows)
  <2>1. PICK first \in Int, c \in Int, r \in Int : first = 0 /\ c = 8 /\ r = 9
    OBVIOUS
  <2>2. IsFiniteSet(first .. c) /\ IsFiniteSet(first .. r)
    BY FS_Interval
  <2>3. Columns = first .. c /\ Rows = first .. r
    BY <2>1 DEF Columns, Rows
  <2>4. QED BY <2>2, <2>3
<1>2. IsFiniteSet(Cells)
  BY <1>1, FS_Product DEF Cells
<1>3. /\ X(a) \in Columns /\ Y(a) \in Rows
      /\ \A x \in Columns, y \in Rows : <<x, y>> \in Cells
  BY CellFacts
<1>4. Between(a, b) \in SUBSET Cells
  <2>1. CASE X(a) = X(b)
    BY <1>3, <2>1 DEF Between
  <2>2. CASE X(a) # X(b) /\ Y(a) = Y(b)
    BY <1>3, <2>2 DEF Between
  <2>3. QED BY <2>1, <2>2 DEF Between
<1>5. QED BY <1>2, <1>4, FS_Subset

\* What is counted between two cells if nobody who is ignored stands there.
LEMMA CountAtRest ==
  ASSUME NEW ps, AtRest(ps), NEW a \in Cells, NEW b \in Cells, NEW t, NEW ignore,
         \A q \in ignore \cap DOMAIN PositionOf(ps) : PositionOf(ps)[q] \notin Between(a, b)
  PROVE  /\ CountBetween(ps, a, b, t, ignore) = 0 <=> Blockers(PositionOf(ps), a, b) = {}
         /\ CountBetween(ps, a, b, t, ignore) = 1 <=> \E c : Blockers(PositionOf(ps), a, b) = {c}
<1>1. {c \in Between(a, b) : Occupied(ps, c, t, ignore)} = Blockers(PositionOf(ps), a, b)
  BY OccupiedAtRest DEF Blockers, Stands
<1>2. IsFiniteSet(Blockers(PositionOf(ps), a, b))
  BY LineFinite, FS_Subset DEF Blockers
<1>3. CountBetween(ps, a, b, t, ignore) = Cardinality(Blockers(PositionOf(ps), a, b))
  BY <1>1 DEF CountBetween
<1>4. QED BY <1>2, <1>3, FS_EmptySet, FS_Singleton

LEMMA EndsOfLine ==
  ASSUME NEW a \in Cells, NEW b \in Cells
  PROVE  a \notin Between(a, b) /\ b \notin Between(a, b)
<1>1. /\ a[1] \in Int /\ a[2] \in Int /\ b[1] \in Int /\ b[2] \in Int
      /\ X(a) = a[1] /\ Y(a) = a[2] /\ X(b) = b[1] /\ Y(b) = b[2]
  BY CellParts
<1>2. ASSUME NEW c \in Between(a, b)
      PROVE  \/ X(a) = X(b) /\ ((Y(a) < c[2] /\ c[2] < Y(b)) \/ (Y(b) < c[2] /\ c[2] < Y(a)))
             \/ Y(a) = Y(b) /\ ((X(a) < c[1] /\ c[1] < X(b)) \/ (X(b) < c[1] /\ c[1] < X(a)))
  <2>1. CASE X(a) = X(b)
    BY <2>1 DEF Between
  <2>2. CASE X(a) # X(b) /\ Y(a) = Y(b)
    BY <2>2 DEF Between
  <2>3. QED BY <2>1, <2>2 DEF Between
<1>3. QED BY <1>1, <1>2

-----------------------------------------------------------------------------
(* Each kind *)

LEMMA PalaceIsCourt == \A o \in Players : Palace(o) = Court(o)
<1>1. \A o \in Players, c \in Cells : c \in Palace(o) <=> c \in Court(o)
  BY CellParts DEF Palace, Court, OwnBank, Players
<1>2. \A o \in Players : Palace(o) \subseteq Cells
  BY DEF Palace, Cells, Columns, Rows, Players
<1>3. \A o \in Players : Court(o) \subseteq Cells
  BY DEF Court, OwnBank
<1>4. QED BY <1>1, <1>2, <1>3

LEMMA SoldierAgrees ==
  ASSUME NEW p \in Pieces, NEW a \in Cells, NEW b \in Cells
  PROVE  SoldierRule(p, a, b) <=> SoldierGoes(p, a, b)
<1>1. /\ a[1] \in Int /\ a[2] \in Int /\ X(a) = a[1] /\ Y(a) = a[2]
      /\ b[1] \in Int /\ b[2] \in Int /\ b = <<b[1], b[2]>> /\ X(b) = b[1] /\ Y(b) = b[2]
  BY CellParts
<1>2. /\ Along(a, <<0, -1>>, 1) = <<a[1], a[2] - 1>> /\ Along(a, <<0, 1>>, 1) = <<a[1], a[2] + 1>>
      /\ Along(a, <<-1, 0>>, 1) = <<a[1] - 1, a[2]>> /\ Along(a, <<1, 0>>, 1) = <<a[1] + 1, a[2]>>
  BY AlongIs
<1>3. b \in {Along(a, <<-1, 0>>, 1), Along(a, <<1, 0>>, 1)} <=> b[2] = a[2] /\ Abs(b[1] - a[1]) = 1
  <2>1. /\ b = Along(a, <<-1, 0>>, 1) <=> b[1] = a[1] - 1 /\ b[2] = a[2]
        /\ b = Along(a, <<1, 0>>, 1) <=> b[1] = a[1] + 1 /\ b[2] = a[2]
    BY <1>1, <1>2
  <2>2. Abs(b[1] - a[1]) = 1 <=> b[1] = a[1] - 1 \/ b[1] = a[1] + 1
    BY <1>1 DEF Abs
  <2>3. QED BY <2>1, <2>2
<1>4. CASE Owner(p) = 1
  <2>1. b = Along(a, Forward(Owner(p)), 1) <=> b[2] - a[2] = -1 /\ b[1] = a[1]
    BY <1>1, <1>2, <1>4 DEF Forward
  <2>2. a \notin OwnBank(Owner(p)) <=> a[2] <= 4
    BY <1>1, <1>4 DEF OwnBank
  <2>3. QED BY <1>1, <1>3, <1>4, <2>1, <2>2 DEF SoldierRule, SoldierGoes
<1>5. CASE Owner(p) # 1
  <2>1. b = Along(a, Forward(Owner(p)), 1) <=> b[2] - a[2] = 1 /\ b[1] = a[1]
    BY <1>1, <1>2, <1>5 DEF Forward
  <2>2. a \notin OwnBank(Owner(p)) <=> a[2] >= 5
    BY <1>1, <1>5 DEF OwnBank
  <2>3. QED BY <1>1, <1>3, <1>5, <2>1, <2>2 DEF SoldierRule, SoldierGoes
<1>6. QED BY <1>4, <1>5

LEMMA AdvisorAgrees ==
  ASSUME NEW p \in Pieces, NEW a \in Cells, NEW b \in Cells
  PROVE  AdvisorRule(p, a, b) <=> AdvisorGoes(p, a, b)
<1>1. /\ a[1] \in Int /\ a[2] \in Int /\ X(a) = a[1] /\ Y(a) = a[2]
      /\ b[1] \in Int /\ b[2] \in Int /\ b = <<b[1], b[2]>> /\ X(b) = b[1] /\ Y(b) = b[2]
  BY CellParts
<1>2. Abs(b[1] - a[1]) = 1 /\ Abs(b[2] - a[2]) = 1 <=> \E d \in Oblique : b = Along(a, d, 1)
  <2>1. (\E d \in Oblique : b = Along(a, d, 1))
          <=> \/ b = Along(a, <<-1, -1>>, 1) \/ b = Along(a, <<-1, 1>>, 1)
              \/ b = Along(a, <<1, -1>>, 1) \/ b = Along(a, <<1, 1>>, 1)
    BY DEF Oblique
  <2>2. /\ Along(a, <<-1, -1>>, 1) = <<a[1] - 1, a[2] - 1>> /\ Along(a, <<-1, 1>>, 1) = <<a[1] - 1, a[2] + 1>>
        /\ Along(a, <<1, -1>>, 1) = <<a[1] + 1, a[2] - 1>> /\ Along(a, <<1, 1>>, 1) = <<a[1] + 1, a[2] + 1>>
    BY AlongIs
  <2>3. /\ b = Along(a, <<-1, -1>>, 1) <=> b[1] = a[1] - 1 /\ b[2] = a[2] - 1
        /\ b = Along(a, <<-1, 1>>, 1) <=> b[1] = a[1] - 1 /\ b[2] = a[2] + 1
        /\ b = Along(a, <<1, -1>>, 1) <=> b[1] = a[1] + 1 /\ b[2] = a[2] - 1
        /\ b = Along(a, <<1, 1>>, 1) <=> b[1] = a[1] + 1 /\ b[2] = a[2] + 1
    BY <1>1, <2>2
  <2>4. QED BY <1>1, <2>1, <2>3 DEF Abs
<1>3. Palace(Owner(p)) = Court(Owner(p))
  BY PieceFacts, PalaceIsCourt
<1>4. QED BY <1>1, <1>2, <1>3 DEF AdvisorRule, AdvisorGoes

LEMMA ElephantAgrees ==
  ASSUME NEW p \in Pieces, NEW ps, AtRest(ps), ps[p].alive, NEW t,
         NEW b \in Cells, b # ps[p].cell
  PROVE  ElephantRule(p, ps[p].cell, b, ps, t) <=> ElephantGoes(PositionOf(ps), p, ps[p].cell, b)
<1> DEFINE a == ps[p].cell
           at == PositionOf(ps)
<1>1. a \in Cells
  BY DEF AtRest, PieceStates
<1>2. /\ a[1] \in Int /\ a[2] \in Int /\ X(a) = a[1] /\ Y(a) = a[2]
      /\ b[1] \in Int /\ b[2] \in Int /\ b = <<b[1], b[2]>> /\ X(b) = b[1] /\ Y(b) = b[2]
  BY <1>1, CellParts
<1>3. \A c : c # a => (Occupied(ps, c, t, {p}) <=> Stands(at, c))
  BY OccupiedAtRest DEF Stands, PositionOf
<1> HIDE DEF a, at
<1>4. b \in OwnBank(Owner(p)) <=> IF Owner(p) = 1 THEN Y(b) >= 5 ELSE Y(b) <= 4
  BY <1>2 DEF OwnBank
<1>5. \A d \in Oblique : b = Along(a, d, 2) => ElephantEye(a, b) = Along(a, d, 1) /\ Along(a, d, 1) # a
  <2> SUFFICES ASSUME NEW d \in Oblique, b = Along(a, d, 2)
               PROVE  ElephantEye(a, b) = Along(a, d, 1) /\ Along(a, d, 1) # a
    OBVIOUS
  <2>1. CASE d = <<-1, -1>>
    <3>1. b[1] = a[1] - 2 /\ b[2] = a[2] - 2 /\ Along(a, d, 1) = <<a[1] - 1, a[2] - 1>>
      BY <1>1, <1>2, <2>1, AlongIs
    <3>2. (b[1] - a[1]) \div 2 = -1 /\ (b[2] - a[2]) \div 2 = -1
      BY <1>2, <3>1
    <3>3. QED BY <1>2, <3>1, <3>2 DEF ElephantEye
  <2>2. CASE d = <<-1, 1>>
    <3>1. b[1] = a[1] - 2 /\ b[2] = a[2] + 2 /\ Along(a, d, 1) = <<a[1] - 1, a[2] + 1>>
      BY <1>1, <1>2, <2>2, AlongIs
    <3>2. (b[1] - a[1]) \div 2 = -1 /\ (b[2] - a[2]) \div 2 = 1
      BY <1>2, <3>1
    <3>3. QED BY <1>2, <3>1, <3>2 DEF ElephantEye
  <2>3. CASE d = <<1, -1>>
    <3>1. b[1] = a[1] + 2 /\ b[2] = a[2] - 2 /\ Along(a, d, 1) = <<a[1] + 1, a[2] - 1>>
      BY <1>1, <1>2, <2>3, AlongIs
    <3>2. (b[1] - a[1]) \div 2 = 1 /\ (b[2] - a[2]) \div 2 = -1
      BY <1>2, <3>1
    <3>3. QED BY <1>2, <3>1, <3>2 DEF ElephantEye
  <2>4. CASE d = <<1, 1>>
    <3>1. b[1] = a[1] + 2 /\ b[2] = a[2] + 2 /\ Along(a, d, 1) = <<a[1] + 1, a[2] + 1>>
      BY <1>1, <1>2, <2>4, AlongIs
    <3>2. (b[1] - a[1]) \div 2 = 1 /\ (b[2] - a[2]) \div 2 = 1
      BY <1>2, <3>1
    <3>3. QED BY <1>2, <3>1, <3>2 DEF ElephantEye
  <2>5. QED BY <2>1, <2>2, <2>3, <2>4, Directions
<1>6. Abs(b[1] - a[1]) = 2 /\ Abs(b[2] - a[2]) = 2 <=> \E d \in Oblique : b = Along(a, d, 2)
  <2>1. (\E d \in Oblique : b = Along(a, d, 2))
          <=> \/ b = Along(a, <<-1, -1>>, 2) \/ b = Along(a, <<-1, 1>>, 2)
              \/ b = Along(a, <<1, -1>>, 2) \/ b = Along(a, <<1, 1>>, 2)
    BY DEF Oblique
  <2>2. /\ Along(a, <<-1, -1>>, 2) = <<a[1] - 2, a[2] - 2>> /\ Along(a, <<-1, 1>>, 2) = <<a[1] - 2, a[2] + 2>>
        /\ Along(a, <<1, -1>>, 2) = <<a[1] + 2, a[2] - 2>> /\ Along(a, <<1, 1>>, 2) = <<a[1] + 2, a[2] + 2>>
    BY <1>1, AlongIs
  <2>3. /\ b = Along(a, <<-1, -1>>, 2) <=> b[1] = a[1] - 2 /\ b[2] = a[2] - 2
        /\ b = Along(a, <<-1, 1>>, 2) <=> b[1] = a[1] - 2 /\ b[2] = a[2] + 2
        /\ b = Along(a, <<1, -1>>, 2) <=> b[1] = a[1] + 2 /\ b[2] = a[2] - 2
        /\ b = Along(a, <<1, 1>>, 2) <=> b[1] = a[1] + 2 /\ b[2] = a[2] + 2
    BY <1>1, <1>2, <2>2
  <2>4. QED BY <1>1, <1>2, <2>1, <2>3 DEF Abs
<1>7. ElephantRule(p, a, b, ps, t) <=> ElephantGoes(at, p, a, b)
  BY <1>2, <1>3, <1>4, <1>5, <1>6 DEF ElephantRule, ElephantGoes
<1>8. QED BY <1>7 DEF a, at

LEMMA HorseAgrees ==
  ASSUME NEW p \in Pieces, NEW ps, AtRest(ps), ps[p].alive, NEW t,
         NEW b \in Cells, b # ps[p].cell
  PROVE  HorseRule(p, ps[p].cell, b, ps, t) <=> HorseGoes(PositionOf(ps), ps[p].cell, b)
<1> DEFINE a == ps[p].cell
           at == PositionOf(ps)
           Sides(d) == \E e \in Oblique : e[1] * d[1] + e[2] * d[2] = 1 /\ b = Along(Along(a, d, 1), e, 1)
<1>1. a \in Cells
  BY DEF AtRest, PieceStates
<1>2. /\ a[1] \in Int /\ a[2] \in Int /\ a = <<a[1], a[2]>> /\ X(a) = a[1] /\ Y(a) = a[2]
      /\ b[1] \in Int /\ b[2] \in Int /\ b = <<b[1], b[2]>> /\ X(b) = b[1] /\ Y(b) = b[2]
  BY <1>1, CellParts
<1>3. \A c : c # a => (Occupied(ps, c, t, {p}) <=> Stands(at, c))
  BY OccupiedAtRest DEF Stands, PositionOf
<1> HIDE DEF a, at
<1>4. ASSUME NEW d \in Straight
      PROVE  /\ Sides(d) => HorseLeg(a, b) = Along(a, d, 1) /\ Along(a, d, 1) # a
             /\ d = <<0, -1>> => (Sides(d) <=> b[2] = a[2] - 2 /\ (b[1] = a[1] - 1 \/ b[1] = a[1] + 1))
             /\ d = <<0, 1>>  => (Sides(d) <=> b[2] = a[2] + 2 /\ (b[1] = a[1] - 1 \/ b[1] = a[1] + 1))
             /\ d = <<-1, 0>> => (Sides(d) <=> b[1] = a[1] - 2 /\ (b[2] = a[2] - 1 \/ b[2] = a[2] + 1))
             /\ d = <<1, 0>>  => (Sides(d) <=> b[1] = a[1] + 2 /\ (b[2] = a[2] - 1 \/ b[2] = a[2] + 1))
  <2>1. CASE d = <<0, -1>>
    <3>1. Along(a, d, 1) = <<a[1], a[2] - 1>>
      BY <1>1, <2>1, AlongIs
    <3>2. Sides(d) <=> \/ b = Along(Along(a, d, 1), <<-1, -1>>, 1)
                      \/ b = Along(Along(a, d, 1), <<1, -1>>, 1)
      BY <2>1 DEF Oblique
    <3>3. /\ Along(Along(a, d, 1), <<-1, -1>>, 1) = <<a[1] - 1, a[2] - 2>>
          /\ Along(Along(a, d, 1), <<1, -1>>, 1) = <<a[1] + 1, a[2] - 2>>
      BY <1>2, <3>1 DEF Along
    <3>4. Sides(d) <=> b[2] = a[2] - 2 /\ (b[1] = a[1] - 1 \/ b[1] = a[1] + 1)
      BY <1>2, <3>2, <3>3
    <3>5. b[2] = a[2] - 2 => (b[2] - a[2]) \div 2 = -1
      BY <1>2
    <3>6. Sides(d) => HorseLeg(a, b) = Along(a, d, 1) /\ Along(a, d, 1) # a
      BY <1>2, <3>1, <3>4, <3>5 DEF HorseLeg, Abs
    <3>7. QED BY <2>1, <3>4, <3>6
  <2>2. CASE d = <<0, 1>>
    <3>1. Along(a, d, 1) = <<a[1], a[2] + 1>>
      BY <1>1, <2>2, AlongIs
    <3>2. Sides(d) <=> \/ b = Along(Along(a, d, 1), <<-1, 1>>, 1)
                      \/ b = Along(Along(a, d, 1), <<1, 1>>, 1)
      BY <2>2 DEF Oblique
    <3>3. /\ Along(Along(a, d, 1), <<-1, 1>>, 1) = <<a[1] - 1, a[2] + 2>>
          /\ Along(Along(a, d, 1), <<1, 1>>, 1) = <<a[1] + 1, a[2] + 2>>
      BY <1>2, <3>1 DEF Along
    <3>4. Sides(d) <=> b[2] = a[2] + 2 /\ (b[1] = a[1] - 1 \/ b[1] = a[1] + 1)
      BY <1>2, <3>2, <3>3
    <3>5. b[2] = a[2] + 2 => (b[2] - a[2]) \div 2 = 1
      BY <1>2
    <3>6. Sides(d) => HorseLeg(a, b) = Along(a, d, 1) /\ Along(a, d, 1) # a
      BY <1>2, <3>1, <3>4, <3>5 DEF HorseLeg, Abs
    <3>7. QED BY <2>2, <3>4, <3>6
  <2>3. CASE d = <<-1, 0>>
    <3>1. Along(a, d, 1) = <<a[1] - 1, a[2]>>
      BY <1>1, <2>3, AlongIs
    <3>2. Sides(d) <=> \/ b = Along(Along(a, d, 1), <<-1, -1>>, 1)
                      \/ b = Along(Along(a, d, 1), <<-1, 1>>, 1)
      BY <2>3 DEF Oblique
    <3>3. /\ Along(Along(a, d, 1), <<-1, -1>>, 1) = <<a[1] - 2, a[2] - 1>>
          /\ Along(Along(a, d, 1), <<-1, 1>>, 1) = <<a[1] - 2, a[2] + 1>>
      BY <1>2, <3>1 DEF Along
    <3>4. Sides(d) <=> b[1] = a[1] - 2 /\ (b[2] = a[2] - 1 \/ b[2] = a[2] + 1)
      BY <1>2, <3>2, <3>3
    <3>5. b[1] = a[1] - 2 => (b[1] - a[1]) \div 2 = -1
      BY <1>2
    <3>6. Sides(d) => HorseLeg(a, b) = Along(a, d, 1) /\ Along(a, d, 1) # a
      BY <1>2, <3>1, <3>4, <3>5 DEF HorseLeg, Abs
    <3>7. QED BY <2>3, <3>4, <3>6
  <2>4. CASE d = <<1, 0>>
    <3>1. Along(a, d, 1) = <<a[1] + 1, a[2]>>
      BY <1>1, <2>4, AlongIs
    <3>2. Sides(d) <=> \/ b = Along(Along(a, d, 1), <<1, -1>>, 1)
                      \/ b = Along(Along(a, d, 1), <<1, 1>>, 1)
      BY <2>4 DEF Oblique
    <3>3. /\ Along(Along(a, d, 1), <<1, -1>>, 1) = <<a[1] + 2, a[2] - 1>>
          /\ Along(Along(a, d, 1), <<1, 1>>, 1) = <<a[1] + 2, a[2] + 1>>
      BY <1>2, <3>1 DEF Along
    <3>4. Sides(d) <=> b[1] = a[1] + 2 /\ (b[2] = a[2] - 1 \/ b[2] = a[2] + 1)
      BY <1>2, <3>2, <3>3
    <3>5. b[1] = a[1] + 2 => (b[1] - a[1]) \div 2 = 1
      BY <1>2
    <3>6. Sides(d) => HorseLeg(a, b) = Along(a, d, 1) /\ Along(a, d, 1) # a
      BY <1>2, <3>1, <3>4, <3>5 DEF HorseLeg, Abs
    <3>7. QED BY <2>4, <3>4, <3>6
  <2>5. QED BY <2>1, <2>2, <2>3, <2>4, Directions
<1>5. <<Abs(b[1] - a[1]), Abs(b[2] - a[2])>> \in {<<2, 1>>, <<1, 2>>} <=> \E d \in Straight : Sides(d)
  <2>1. (\E d \in Straight : Sides(d))
          <=> Sides(<<0, -1>>) \/ Sides(<<0, 1>>) \/ Sides(<<-1, 0>>) \/ Sides(<<1, 0>>)
    BY DEF Straight
  <2>2. /\ Sides(<<0, -1>>) <=> b[2] = a[2] - 2 /\ (b[1] = a[1] - 1 \/ b[1] = a[1] + 1)
        /\ Sides(<<0, 1>>) <=> b[2] = a[2] + 2 /\ (b[1] = a[1] - 1 \/ b[1] = a[1] + 1)
        /\ Sides(<<-1, 0>>) <=> b[1] = a[1] - 2 /\ (b[2] = a[2] - 1 \/ b[2] = a[2] + 1)
        /\ Sides(<<1, 0>>) <=> b[1] = a[1] + 2 /\ (b[2] = a[2] - 1 \/ b[2] = a[2] + 1)
    BY <1>4 DEF Straight
  <2>3. <<Abs(b[1] - a[1]), Abs(b[2] - a[2])>> \in {<<2, 1>>, <<1, 2>>}
          <=> \/ Abs(b[1] - a[1]) = 2 /\ Abs(b[2] - a[2]) = 1
              \/ Abs(b[1] - a[1]) = 1 /\ Abs(b[2] - a[2]) = 2
    OBVIOUS
  <2> HIDE DEF Sides
  <2>4. QED BY <1>2, <2>1, <2>2, <2>3 DEF Abs
<1>6. HorseGoes(at, a, b) <=> \E d \in Straight : Sides(d) /\ ~Stands(at, Along(a, d, 1))
  BY DEF HorseGoes
<1> HIDE DEF Sides
<1>7. HorseRule(p, a, b, ps, t) <=> HorseGoes(at, a, b)
  BY <1>2, <1>3, <1>4, <1>5, <1>6 DEF HorseRule
<1>8. QED BY <1>7 DEF a, at

LEMMA StraightSteps ==
  ASSUME NEW a \in Cells, NEW b \in Cells
  PROVE  Abs(X(b) - X(a)) + Abs(Y(b) - Y(a)) = 1 <=> \E d \in Straight : b = Along(a, d, 1)
<1>1. /\ a[1] \in Int /\ a[2] \in Int /\ X(a) = a[1] /\ Y(a) = a[2]
      /\ b[1] \in Int /\ b[2] \in Int /\ b = <<b[1], b[2]>> /\ X(b) = b[1] /\ Y(b) = b[2]
  BY CellParts
<1>2. (\E d \in Straight : b = Along(a, d, 1))
        <=> \/ b = Along(a, <<0, -1>>, 1) \/ b = Along(a, <<0, 1>>, 1)
            \/ b = Along(a, <<-1, 0>>, 1) \/ b = Along(a, <<1, 0>>, 1)
  BY DEF Straight
<1>3. /\ Along(a, <<0, -1>>, 1) = <<a[1], a[2] - 1>> /\ Along(a, <<0, 1>>, 1) = <<a[1], a[2] + 1>>
      /\ Along(a, <<-1, 0>>, 1) = <<a[1] - 1, a[2]>> /\ Along(a, <<1, 0>>, 1) = <<a[1] + 1, a[2]>>
  BY AlongIs
<1>4. /\ b = Along(a, <<0, -1>>, 1) <=> b[1] = a[1] /\ b[2] = a[2] - 1
      /\ b = Along(a, <<0, 1>>, 1) <=> b[1] = a[1] /\ b[2] = a[2] + 1
      /\ b = Along(a, <<-1, 0>>, 1) <=> b[1] = a[1] - 1 /\ b[2] = a[2]
      /\ b = Along(a, <<1, 0>>, 1) <=> b[1] = a[1] + 1 /\ b[2] = a[2]
  BY <1>1, <1>3
<1>5. QED BY <1>1, <1>2, <1>4 DEF Abs

\* Chariots and cannons.
LEMMA LinesAgree ==
  ASSUME NEW p \in Pieces, NEW ps, AtRest(ps), ps[p].alive, NEW t,
         NEW b \in Cells, b # ps[p].cell
  PROVE  /\ ChariotRule(p, ps[p].cell, b, ps, t) <=> Open(PositionOf(ps), ps[p].cell, b)
         /\ CannonRule(p, ps[p].cell, b, ps, t) <=> CannonGoes(PositionOf(ps), ps[p].cell, b)
<1> DEFINE a == ps[p].cell
           at == PositionOf(ps)
<1>1. a \in Cells
  BY DEF AtRest, PieceStates
<1>2. p \in DOMAIN at /\ at[p] = a
  BY DEF PositionOf
<1>3. Occupied(ps, b, t, {p}) <=> Stands(at, b)
  BY <1>2, OccupiedAtRest DEF Stands
<1>4. a \notin Between(a, b)
  BY <1>1, EndsOfLine
<1>5. /\ CountBetween(ps, a, b, t, {p}) = 0 <=> Blockers(at, a, b) = {}
      /\ CountBetween(ps, a, b, t, {p}) = 1 <=> \E c : Blockers(at, a, b) = {c}
  BY <1>1, <1>2, <1>4, CountAtRest
<1>6. /\ Open(at, a, b) <=> InLine(a, b) /\ Blockers(at, a, b) = {}
      /\ OverOneScreen(at, a, b) <=> InLine(a, b) /\ \E c : Blockers(at, a, b) = {c}
  BY <1>1, Rays
<1> HIDE DEF a, at
<1>7. ChariotRule(p, a, b, ps, t) <=> Open(at, a, b)
  BY <1>5, <1>6 DEF ChariotRule
<1>8. CannonRule(p, a, b, ps, t) <=> CannonGoes(at, a, b)
  BY <1>3, <1>5, <1>6 DEF CannonRule, CannonGoes
<1>9. QED BY <1>7, <1>8 DEF a, at

LEMMA GeneralAgrees ==
  ASSUME NEW p \in Pieces, NEW ps, AtRest(ps), ps[p].alive, NEW t,
         NEW b \in Cells, b # ps[p].cell, LivingGeneral(ps, Opponent(Owner(p))) # {}
  PROVE  GeneralRule(p, ps[p].cell, b, ps, t) <=> GeneralGoes(PositionOf(ps), p, ps[p].cell, b)
<1> DEFINE a == ps[p].cell
           at == PositionOf(ps)
           foes == LivingGeneral(ps, Opponent(Owner(p)))
<1>1. a \in Cells
  BY DEF AtRest, PieceStates
<1>2. p \in DOMAIN at /\ at[p] = a
  BY DEF PositionOf
<1>3. Generals \subseteq Pieces
  BY DEF Generals
<1>4. \A g : g \in foes <=> g \in Generals \cap DOMAIN at /\ Enemies(g, p)
  BY <1>3, PieceFacts DEF LivingGeneral, PositionOf, Enemies, Opponent, Players
<1>5. \A g \in foes : at[g] = ps[g].cell
  BY <1>3 DEF LivingGeneral, PositionOf
<1>6. a \notin Between(a, b) /\ b \notin Between(a, b)
  BY <1>1, EndsOfLine
<1>7. ASSUME NEW g \in foes, b = ps[g].cell, X(a) = X(b)
      PROVE  CountBetween(ps, a, b, t, {p, g}) = 0 <=> Open(at, a, b)
  <2>1. CountBetween(ps, a, b, t, {p, g}) = 0 <=> Blockers(at, a, b) = {}
    <3>1. \A q \in {p, g} \cap DOMAIN at : at[q] \notin Between(a, b)
      BY <1>2, <1>5, <1>6, <1>7
    <3>2. QED BY <1>1, <3>1, CountAtRest
  <2>2. Open(at, a, b) <=> Blockers(at, a, b) = {}
    BY <1>1, <1>7, Rays DEF InLine
  <2>3. QED BY <2>1, <2>2
<1>8. X(a) = a[1] /\ X(b) = b[1]
  BY <1>1, CellParts
<1>9. Abs(X(b) - X(a)) + Abs(Y(b) - Y(a)) = 1 <=> \E d \in Straight : b = Along(a, d, 1)
  BY <1>1, StraightSteps
<1>10. Palace(Owner(p)) = Court(Owner(p))
  BY PieceFacts, PalaceIsCourt
<1>11. foes # {}
  OBVIOUS
<1>12. EnemyGeneralOn(at, p, b) <=> \E g \in foes : b = ps[g].cell
  BY <1>4, <1>5 DEF EnemyGeneralOn
<1>13. GeneralRule(p, a, b, ps, t)
         <=> \E g \in foes :
               \/ b = ps[g].cell /\ X(a) = X(b) /\ CountBetween(ps, a, b, t, {p, g}) = 0
               \/ Abs(X(b) - X(a)) + Abs(Y(b) - Y(a)) = 1 /\ b \in Palace(Owner(p))
  BY DEF GeneralRule
<1> HIDE DEF a, at, foes
<1>14. GeneralRule(p, a, b, ps, t) <=> GeneralGoes(at, p, a, b)
  BY <1>7, <1>8, <1>9, <1>10, <1>11, <1>12, <1>13 DEF GeneralGoes
<1>15. QED BY <1>14 DEF a, at

-----------------------------------------------------------------------------
(* Generals that would face each other *)

LEMMA LineBothWays == \A a, b \in Cells : Between(a, b) = Between(b, a)
<1> SUFFICES ASSUME NEW a \in Cells, NEW b \in Cells PROVE Between(a, b) = Between(b, a)
  OBVIOUS
<1>1. CASE X(a) = X(b)
  BY <1>1 DEF Between
<1>2. CASE X(a) # X(b) /\ Y(a) = Y(b)
  BY <1>2 DEF Between
<1>3. QED BY <1>1, <1>2 DEF Between

LEMMA CountNobody ==
  ASSUME NEW ps, AtRest(ps), NEW a \in Cells, NEW b \in Cells, NEW t, NEW ignore
  PROVE  CountBetween(ps, a, b, t, ignore) = 0
           <=> \A q \in DOMAIN PositionOf(ps) \ ignore : PositionOf(ps)[q] \notin Between(a, b)
<1> DEFINE held == {c \in Between(a, b) : Occupied(ps, c, t, ignore)}
<1>1. IsFiniteSet(held)
  BY LineFinite, FS_Subset
<1>2. CountBetween(ps, a, b, t, ignore) = 0 <=> held = {}
  BY <1>1, FS_EmptySet DEF CountBetween
<1>3. \A c : c \in held
        <=> c \in Between(a, b) /\ \E q \in DOMAIN PositionOf(ps) \ ignore : PositionOf(ps)[q] = c
  BY OccupiedAtRest
<1> HIDE DEF held
<1>4. QED BY <1>2, <1>3

\* The general that goes or stays in the way the code counts, and in the position
\* after the move.
LEMMA FacingPair ==
  ASSUME NEW ps, AtRest(ps), NEW p \in Pieces, ps[p].alive, NEW b \in Cells, NEW t,
         NEW g \in Generals, NEW h \in Generals, Enemies(g, h),
         g \in DOMAIN After(PositionOf(ps), p, b), h \in DOMAIN After(PositionOf(ps), p, b)
  PROVE  LET new == After(PositionOf(ps), p, b)
         IN  Open(new, new[g], new[h]) /\ new[g][1] = new[h][1]
               <=> /\ X(new[g]) = X(new[h])
                   /\ CountBetween(ps, new[g], new[h], t, {p, g, h}) = 0
                   /\ ~(p \notin {g, h} /\ b \in Between(new[g], new[h]))
<1> DEFINE at == PositionOf(ps)
           new == After(at, p, b)
<1>1. /\ DOMAIN new = {q \in DOMAIN at : q = p \/ at[q] # b}
      /\ \A q \in DOMAIN new : new[q] = IF q = p THEN b ELSE at[q]
  BY DEF After
<1>2. /\ p \in DOMAIN at
      /\ \A q \in DOMAIN at : q \in Pieces /\ ps[q].alive /\ at[q] = ps[q].cell /\ at[q] \in Cells
  BY DEF PositionOf, AtRest, PieceStates
<1>3. \A q, r \in DOMAIN at : Enemies(q, r) => at[q] # at[r]
  BY <1>2 DEF AtRest
<1>4. new[g] \in Cells /\ new[h] \in Cells /\ new[g] # new[h] /\ g # h
  <2>1. g # h
    BY DEF Enemies
  <2>2. QED BY <1>1, <1>2, <1>3, <2>1
<1>5. new[g] \notin Between(new[g], new[h]) /\ new[h] \notin Between(new[g], new[h])
  BY <1>4, EndsOfLine
<1>6. CountBetween(ps, new[g], new[h], t, {p, g, h}) = 0
        <=> \A q \in DOMAIN at \ {p, g, h} : at[q] \notin Between(new[g], new[h])
  BY <1>4, CountNobody
<1>7. Blockers(new, new[g], new[h]) = {} <=> \A q \in DOMAIN new : new[q] \notin Between(new[g], new[h])
  BY DEF Blockers, Stands
<1>8. InLine(new[g], new[h]) /\ Blockers(new, new[g], new[h]) = {} <=> Open(new, new[g], new[h])
  BY <1>4, Rays
<1>9. X(new[g]) = new[g][1] /\ X(new[h]) = new[h][1]
  BY <1>4, CellParts
<1>10. g \in DOMAIN new /\ h \in DOMAIN new
  OBVIOUS
<1> HIDE DEF at, new
<1>11. (\A q \in DOMAIN new : new[q] \notin Between(new[g], new[h]))
         <=> /\ \A q \in DOMAIN at \ {p, g, h} : at[q] \notin Between(new[g], new[h])
             /\ ~(p \notin {g, h} /\ b \in Between(new[g], new[h]))
  <2>1. ASSUME \A q \in DOMAIN new : new[q] \notin Between(new[g], new[h])
        PROVE  /\ \A q \in DOMAIN at \ {p, g, h} : at[q] \notin Between(new[g], new[h])
               /\ b \notin Between(new[g], new[h])
    BY <1>1, <1>2, <2>1
  <2>2. ASSUME \A q \in DOMAIN at \ {p, g, h} : at[q] \notin Between(new[g], new[h]),
               p \in {g, h} \/ b \notin Between(new[g], new[h]),
               NEW q \in DOMAIN new
        PROVE  new[q] \notin Between(new[g], new[h])
    BY <1>1, <1>2, <1>5, <1>10, <2>2
  <2>3. QED BY <2>1, <2>2
<1>12. Open(new, new[g], new[h]) /\ new[g][1] = new[h][1]
         <=> /\ X(new[g]) = X(new[h])
             /\ CountBetween(ps, new[g], new[h], t, {p, g, h}) = 0
             /\ ~(p \notin {g, h} /\ b \in Between(new[g], new[h]))
  BY <1>6, <1>7, <1>8, <1>9, <1>11 DEF InLine
<1>13. QED BY <1>12 DEF at, new

LEMMA FacingAgrees ==
  ASSUME NEW ps, AtRest(ps), NEW p \in Pieces, ps[p].alive, NEW b \in Cells, NEW t,
         \A q \in DOMAIN PositionOf(ps) : PositionOf(ps)[q] = b => Enemies(q, p)
  PROVE  GeneralsFaceAfter(p, b, ps, t) <=> Facing(After(PositionOf(ps), p, b))
<1> DEFINE at == PositionOf(ps)
           new == After(at, p, b)
           there(q) == IF q = p THEN b ELSE ps[q].cell
           faced(g, h) == /\ X(there(g)) = X(there(h))
                          /\ CountBetween(ps, there(g), there(h), t, {p, g, h}) = 0
                          /\ ~(p \notin {g, h} /\ b \in Between(there(g), there(h)))
<1>1. /\ DOMAIN new = {q \in DOMAIN at : q = p \/ at[q] # b}
      /\ \A q \in DOMAIN new : new[q] = IF q = p THEN b ELSE at[q]
  BY DEF After
<1>2. /\ DOMAIN at = {q \in Pieces : ps[q].alive} /\ \A q \in DOMAIN at : at[q] = ps[q].cell
  BY DEF PositionOf
<1>3. \A q \in DOMAIN new : new[q] = there(q)
  BY <1>1, <1>2
<1>4. Generals \subseteq Pieces /\ \A g \in Generals : Owner(g) \in {1, 2}
  BY PieceFacts DEF Generals, Players
<1>5. ASSUME NEW g \in LivingGeneral(ps, 1), NEW h \in LivingGeneral(ps, 2)
      PROVE  (\A e \in {g, h} : Enemies(e, p) => b # ps[e].cell) <=> g \in DOMAIN new /\ h \in DOMAIN new
  <2>1. g \in DOMAIN at /\ h \in DOMAIN at
    BY <1>2, <1>4 DEF LivingGeneral
  <2>2. ASSUME NEW e \in DOMAIN at PROVE (Enemies(e, p) => b # ps[e].cell) <=> e \in DOMAIN new
    BY <1>1, <1>2 DEF Enemies
  <2>3. QED BY <2>1, <2>2
<1>6. GeneralsFaceAfter(p, b, ps, t)
        <=> \E g \in LivingGeneral(ps, 1), h \in LivingGeneral(ps, 2) :
              g \in DOMAIN new /\ h \in DOMAIN new /\ faced(g, h)
  <2>1. GeneralsFaceAfter(p, b, ps, t)
          <=> \E g \in LivingGeneral(ps, 1), h \in LivingGeneral(ps, 2) :
                (\A e \in {g, h} : Enemies(e, p) => b # ps[e].cell) /\ faced(g, h)
    BY DEF GeneralsFaceAfter
  <2> HIDE DEF faced, new
  <2>2. QED BY <1>5, <2>1
<1>7. ASSUME NEW g \in Generals \cap DOMAIN new, NEW h \in Generals \cap DOMAIN new, Enemies(g, h)
      PROVE  Open(new, new[g], new[h]) /\ new[g][1] = new[h][1] <=> faced(g, h)
  <2>1. Open(new, new[g], new[h]) /\ new[g][1] = new[h][1]
          <=> /\ X(new[g]) = X(new[h])
              /\ CountBetween(ps, new[g], new[h], t, {p, g, h}) = 0
              /\ ~(p \notin {g, h} /\ b \in Between(new[g], new[h]))
    BY <1>7, FacingPair
  <2>2. new[g] = there(g) /\ new[h] = there(h)
    BY <1>3, <1>7
  <2> HIDE DEF new, there
  <2>3. QED BY <2>1, <2>2
<1>8. \A g, h \in Generals \cap DOMAIN new : Enemies(g, h) => (faced(g, h) <=> faced(h, g))
  <2> SUFFICES ASSUME NEW g \in Generals \cap DOMAIN new, NEW h \in Generals \cap DOMAIN new
               PROVE  faced(g, h) <=> faced(h, g)
    OBVIOUS
  <2>1. there(g) \in Cells /\ there(h) \in Cells
    BY <1>1, <1>2 DEF AtRest, PieceStates
  <2>2. Between(there(g), there(h)) = Between(there(h), there(g)) /\ {p, g, h} = {p, h, g}
    BY <2>1, LineBothWays
  <2>3. CountBetween(ps, there(g), there(h), t, {p, g, h}) = CountBetween(ps, there(h), there(g), t, {p, h, g})
    BY <2>2 DEF CountBetween
  <2> HIDE DEF there
  <2>4. QED BY <2>2, <2>3
<1>9. \A g : g \in Generals \cap DOMAIN new
        <=> g \in DOMAIN new /\ (g \in LivingGeneral(ps, 1) \/ g \in LivingGeneral(ps, 2))
  BY <1>1, <1>2, <1>4 DEF LivingGeneral
<1>10. \A g \in LivingGeneral(ps, 1), h \in LivingGeneral(ps, 2) : Enemies(g, h) /\ Enemies(h, g)
  BY DEF LivingGeneral, Enemies
<1>11. \A g, h : /\ g \in LivingGeneral(ps, 1) /\ h \in LivingGeneral(ps, 1) => ~Enemies(g, h)
                 /\ g \in LivingGeneral(ps, 2) /\ h \in LivingGeneral(ps, 2) => ~Enemies(g, h)
  BY DEF LivingGeneral, Enemies
<1>12. Facing(new) <=> \E g, h \in Generals \cap DOMAIN new :
                         Enemies(g, h) /\ Open(new, new[g], new[h]) /\ new[g][1] = new[h][1]
  BY DEF Facing
<1> HIDE DEF at, new, there, faced
<1>13. GeneralsFaceAfter(p, b, ps, t) <=> Facing(new)
  BY <1>6, <1>7, <1>8, <1>9, <1>10, <1>11, <1>12
<1>14. QED BY <1>13 DEF at, new

-----------------------------------------------------------------------------

LEMMA CaptureAgrees ==
  ASSUME NEW ps, AtRest(ps), NEW p \in Pieces, ps[p].alive, NEW b, b # ps[p].cell, NEW t
  PROVE  (Occupied(ps, b, t, {p}) => SeatAt(ps, b, t, {p}) # Owner(p))
           <=> \A q \in DOMAIN PositionOf(ps) : PositionOf(ps)[q] = b => Enemies(q, p)
<1> DEFINE at == PositionOf(ps)
           there == {q \in DOMAIN at : at[q] = b}
<1>1. DOMAIN at \subseteq Pieces /\ \A q \in DOMAIN at : ps[q].alive /\ at[q] = ps[q].cell
  BY DEF PositionOf
<1>2. Occupants(ps, b, t, {p}) = there
  <2>1. p \notin there
    BY <1>1
  <2>2. Occupants(ps, b, t, {p}) = {q \in DOMAIN at \ {p} : at[q] = b}
    BY OccupiedAtRest
  <2>3. QED BY <2>1, <2>2
<1>3. CASE there = {}
  BY <1>2, <1>3 DEF Occupied
<1>4. CASE there # {}
  <2>1. PICK r \in there : TRUE
    BY <1>4
  <2>2. \A q \in there : Owner(q) = Owner(r)
    BY <1>1, <2>1 DEF AtRest, Enemies
  <2>3. {q \in there : ps[q].moving} = {}
    BY <1>1 DEF AtRest
  <2>4. {Owner(q) : q \in there} = {Owner(r)} /\ Owner(r) \in Nat
    BY <1>1, <2>1, <2>2, PieceFacts DEF Players
  <2>5. Min({Owner(r)}) = Owner(r)
    BY <2>4, MinOfNaturals
  <2>6. SeatAt(ps, b, t, {p}) = Owner(r)
    BY <1>2, <2>3, <2>4, <2>5 DEF SeatAt
  <2>7. Occupied(ps, b, t, {p})
    BY <1>2, <1>4 DEF Occupied
  <2>8. QED BY <2>1, <2>2, <2>6, <2>7 DEF Enemies
<1>5. QED BY <1>3, <1>4

\* On a board where nobody travels validate_move accepts exactly the moves of Chinese
\* chess, whatever the position: the paths it counts, what it ignores and the generals it
\* imagines after the move come to the rays, jumps and captures of the rules.
THEOREM RulesAtRest ==
  ASSUME NEW ps, AtRest(ps), NEW t, NEW p \in Pieces, NEW b,
         \A o \in Players : LivingGeneral(ps, o) # {}
  PROVE  ValidateMove(p, b, ps, t) <=> Legal(PositionOf(ps), p, b)
<1> DEFINE at == PositionOf(ps)
<1>1. p \in DOMAIN at <=> ps[p].alive
  BY DEF PositionOf
<1>2. ps[p].alive => at[p] = ps[p].cell /\ at[p] \in Cells
  BY DEF PositionOf, AtRest, PieceStates
<1>3. ~ps[p].moving
  BY DEF AtRest
<1>4. CASE ~(ps[p].alive /\ b \in Cells /\ b # ps[p].cell)
  BY <1>1, <1>2, <1>4 DEF ValidateMove, Legal
<1>5. CASE ps[p].alive /\ b \in Cells /\ b # ps[p].cell
  <2> DEFINE a == ps[p].cell
             free == \A q \in DOMAIN at : at[q] = b => Enemies(q, p)
  <2>1. (Occupied(ps, b, t, {p}) => SeatAt(ps, b, t, {p}) # Owner(p)) <=> free
    BY <1>5, CaptureAgrees
  <2>2. free => (GeneralsFaceAfter(p, b, ps, t) <=> Facing(After(at, p, b)))
    BY <1>5, FacingAgrees
  <2>3. /\ SoldierRule(p, a, b) <=> SoldierGoes(p, a, b)
        /\ AdvisorRule(p, a, b) <=> AdvisorGoes(p, a, b)
        /\ ElephantRule(p, a, b, ps, t) <=> ElephantGoes(at, p, a, b)
        /\ HorseRule(p, a, b, ps, t) <=> HorseGoes(at, a, b)
        /\ ChariotRule(p, a, b, ps, t) <=> Open(at, a, b)
        /\ CannonRule(p, a, b, ps, t) <=> CannonGoes(at, a, b)
    BY <1>2, <1>5, SoldierAgrees, AdvisorAgrees, ElephantAgrees, HorseAgrees, LinesAgree
  <2>4. GeneralRule(p, a, b, ps, t) <=> GeneralGoes(at, p, a, b)
    <3>1. Opponent(Owner(p)) \in Players
      BY DEF Opponent, Players
    <3>2. QED BY <1>5, <3>1, GeneralAgrees
  <2>5. at[p] = a /\ p \in DOMAIN at
    BY <1>1, <1>2, <1>5
  <2> HIDE DEF a, at, free
  <2>6. Goes(at, p, b)
          <=> CASE Kind(p) = "soldier"  -> SoldierRule(p, a, b)
                [] Kind(p) = "advisor"  -> AdvisorRule(p, a, b)
                [] Kind(p) = "elephant" -> ElephantRule(p, a, b, ps, t)
                [] Kind(p) = "horse"    -> HorseRule(p, a, b, ps, t)
                [] Kind(p) = "chariot"  -> ChariotRule(p, a, b, ps, t)
                [] Kind(p) = "cannon"   -> CannonRule(p, a, b, ps, t)
                [] Kind(p) = "general"  -> GeneralRule(p, a, b, ps, t)
    BY <2>3, <2>4, <2>5, PieceFacts DEF Goes, Kinds
  <2>7. Legal(at, p, b) <=> free /\ Goes(at, p, b) /\ ~Facing(After(at, p, b))
    BY <1>5, <2>5 DEF Legal, a, free
  <2>8. ValidateMove(p, b, ps, t)
          <=> free /\ Goes(at, p, b) /\ ~GeneralsFaceAfter(p, b, ps, t)
    BY <1>3, <1>5, <2>1, <2>6 DEF ValidateMove, a
  <2>9. ValidateMove(p, b, ps, t) <=> Legal(at, p, b)
    BY <2>2, <2>7, <2>8
  <2>10. QED BY <2>9 DEF at
<1>6. QED BY <1>4, <1>5
=============================================================================
