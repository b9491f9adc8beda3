--------------------------- MODULE OutcomeProofs ---------------------------
(***************************************************************************)
(* What comes of a match, in every match: how pieces fall                  *)
(* (contact_resolver.py), how it ends (endgame.py), what its players get   *)
(* from the unlock waves (unlock_service.py), and whether the views of     *)
(* waves and phases keep their word (snapshot.py).                         *)
(***************************************************************************)
EXTENDS MatchProofs, Snapshot, FiniteSetTheorems

-----------------------------------------------------------------------------
(* Captures *)

Earned(p) ==
  \E q \in Pieces : /\ Enemies(p, q) /\ Mover(q)
                    /\ CellsOf(p) \cap CellsOf(q) # {}
                    /\ Mover(p) => pieces[q].start <= pieces[p].start

LEMMA ContactsEarned ==
  ASSUME IInv, Contacts, NEW p \in Pieces, pieces[p].alive, ~pieces'[p].alive
  PROVE  Earned(p)
<1>1. p \in Victims
  BY DEF Contacts
<1>2. Resting(p) /\ \E m \in Pieces : /\ Mover(m) /\ Enemies(m, p)
                                      /\ pieces[p].cell \in CellsOf(m)
  BY <1>1 DEF Victims
<1>3. CellsOf(p) = {pieces[p].cell}
  BY <1>2, CellsOfPiece DEF IInv
<1>4. QED BY <1>2, <1>3 DEF Earned, Enemies, Mover, Resting

LEMMA DuelEarned ==
  ASSUME IInv, NEW a \in Pieces, NEW b \in Pieces, Duel(a, b),
         NEW p \in Pieces, pieces[p].alive, ~pieces'[p].alive
  PROVE  Earned(p)
<1>1. p \in Fallen(a, b) /\ pieces[a].alive /\ pieces[b].alive
  BY DEF Duel, Fallen
<1>2. p \in {a, b} /\ \E q \in {a, b} \ {p} : pieces[q].start <= pieces[p].start
  BY <1>1 DEF Fallen, Losers
<1>3. /\ Enemies(a, b) /\ Mover(a) /\ Mover(b)
      /\ CellsOf(a) \cap CellsOf(b) # {}
  BY <1>1 DEF Duel, IInv, ListsStayTrue, ListedMeet
<1>4. Enemies(b, a)
  BY <1>3 DEF Enemies
<1>5. QED BY <1>2, <1>3, <1>4 DEF Earned

\* A piece falls only to a living enemy mover that it touches at that tick, and a
\* mover only to one that did not set off later.
THEOREM CapturesAreEarned == Spec => CapturesEarned
<1>1. ASSUME IInv, [Next]_vars, NEW p \in Pieces, pieces[p].alive, ~pieces'[p].alive
      PROVE  Earned(p)
  <2>1. CASE Contacts
    BY <1>1, <2>1, ContactsEarned
  <2>2. CASE \E a, b \in Pieces : Duel(a, b)
    BY <1>1, <2>2, DuelEarned
  <2>3. CASE FinishTick
    BY <1>1, <2>3, FinishTickPieces DEF IInv, ListsStayTrue
  <2>4. CASE \E aim \in Aims : Move(aim[1], aim[2])
    <3>1. PICK aim \in Aims : Move(aim[1], aim[2])
      BY <2>4
    <3>2. aim[1] \in Pieces
      BY InputAssumption
    <3> DEFINE path == BuildPath(Kind(aim[1]), pieces[aim[1]].cell, aim[2])
               m == StartMove(pieces[aim[1]], path, clock)
    <3>3. /\ path \in Seq(Cells) /\ pieces[aim[1]].alive
          /\ pieces' = [pieces EXCEPT ![aim[1]] = m]
      BY <1>1, <3>1, <3>2, MovePieces DEF IInv
    <3>4. pieces \in [Pieces -> PieceStates] /\ clock \in Nat
      BY <1>1 DEF IInv, TypeOK, PiecesOK, TimesOK
    <3>5. m.alive = pieces[aim[1]].alive
      BY <3>2, <3>3, <3>4, StartMovePiece
    <3> HIDE DEF m
    <3>6. pieces'[p].alive
      BY <1>1, <3>3, <3>4, <3>5
    <3>7. QED BY <1>1, <3>6
  <2>5. CASE UNCHANGED pieces
    BY <1>1, <2>5
  <2>6. QED
    BY <1>1, <2>1, <2>2, <2>3, <2>4, <2>5
    DEF Next, Elapse, TickStep, TickBegin, AutoUnlock, Command, ChooseUnlock, Resign, Leave,
        Reconnect, vars
<1>2. IInv /\ [Next]_vars =>
        [\A p \in Pieces : pieces[p].alive /\ ~pieces'[p].alive =>
           \E q \in Pieces : /\ Enemies(p, q) /\ Mover(q)
                             /\ CellsOf(p) \cap CellsOf(q) # {}
                             /\ Mover(p) => pieces[q].start <= pieces[p].start]_vars
  BY <1>1 DEF Earned
<1>3. QED BY <1>2, Invariance, PTL DEF Spec, CapturesEarned

-----------------------------------------------------------------------------
(* Results *)

\* Within a tick the match has no result yet.
ResultOnlyBetween == ~Idle => Running /\ reason = GoesOn /\ winner = NoPlayer

OutcomeInv == OutcomeJustified /\ ResultOnlyBetween

LEMMA LivingSidesKept ==
  ASSUME \A p \in Pieces : pieces'[p].alive = pieces[p].alive
  PROVE  LivingSides' = LivingSides
BY DEF LivingSides, Generals

\* check_general_dead and check_draw give each verdict on the board it names.
LEMMA VerdictJustified ==
  /\ Verdict = "both generals dead" => LivingSides = {}
  /\ Verdict = "general captured" => \E o \in Players : LivingSides = {o}
  /\ Verdict \notin {"both generals dead", "general captured"} => LivingSides = Players
  /\ Verdict \in {GoesOn, "both generals dead", "general captured", "no legal action", "no capture"}
<1>1. LivingSides \subseteq Players
  BY PieceFacts DEF LivingSides, Generals
<1>2. LivingSides # {} /\ LivingSides # Players => \E o \in Players : LivingSides = {o}
  BY <1>1 DEF Players
<1>3. QED BY <1>2 DEF Verdict, GoesOn

LEMMA OutcomeFinishTick == IInv /\ OutcomeInv /\ FinishTick => OutcomeInv'
<1> SUFFICES ASSUME IInv, OutcomeInv, FinishTick PROVE OutcomeInv'
  OBVIOUS
<1>1. \A p \in Pieces : pieces'[p].alive = pieces[p].alive
  BY FinishTickPieces DEF IInv, ListsStayTrue
<1>2. LivingSides' = LivingSides
  BY <1>1, LivingSidesKept
<1>3. status = "running" /\ pc' = "idle"
  BY DEF OutcomeInv, ResultOnlyBetween, Running, Idle, FinishTick
<1>4. /\ reason' = Verdict
      /\ status' = IF Verdict = GoesOn THEN "running" ELSE "ended"
      /\ winner' = IF Verdict = "general captured"
                   THEN CHOOSE o \in Players : o \in LivingSides ELSE NoPlayer
  BY <1>3 DEF FinishTick
<1>5. CASE Verdict = "general captured"
  <2>1. PICK o \in Players : LivingSides = {o}
    BY <1>5, VerdictJustified
  <2>2. winner' = o
    BY <1>4, <1>5, <2>1
  <2>3. QED
    BY <1>2, <1>3, <1>4, <1>5, <2>1, <2>2
    DEF OutcomeInv, OutcomeJustified, ResultOnlyBetween, Idle, GoesOn
<1>6. CASE Verdict # "general captured"
  BY <1>2, <1>3, <1>4, <1>6, VerdictJustified
  DEF OutcomeInv, OutcomeJustified, ResultOnlyBetween, Idle, GoesOn, Running
<1>7. QED BY <1>5, <1>6

LEMMA OutcomeStep == IInv /\ OutcomeInv /\ [Next]_vars => OutcomeInv'
<1> SUFFICES ASSUME IInv, OutcomeInv, [Next]_vars PROVE OutcomeInv'
  OBVIOUS
<1>1. CASE UNCHANGED <<outcomeVars, pieces>> /\ (UNCHANGED pc \/ TickBegin)
  <2>1. LivingSides' = LivingSides
    BY <1>1 DEF LivingSides
  <2>2. status' = status /\ winner' = winner /\ reason' = reason
    BY <1>1 DEF outcomeVars
  <2>3. CASE UNCHANGED pc
    BY <2>1, <2>2, <2>3 DEF OutcomeInv, OutcomeJustified, ResultOnlyBetween, Idle, Running
  <2>4. CASE TickBegin
    BY <2>1, <2>2, <2>4
    DEF OutcomeInv, OutcomeJustified, ResultOnlyBetween, Idle, Running, TickBegin, GoesOn
  <2>5. QED BY <1>1, <2>3, <2>4
<1>2. CASE Contacts \/ \E a, b \in Pieces : Duel(a, b)
  <2>1. pc # "idle" /\ pc' # "idle" /\ UNCHANGED <<status, winner, reason>>
    BY <1>2 DEF Contacts, Duel, outcomeVars
  <2>2. QED BY <2>1 DEF OutcomeInv, OutcomeJustified, ResultOnlyBetween, Idle, Running
<1>3. CASE FinishTick
  BY <1>3, OutcomeFinishTick
<1>4. CASE \E aim \in Aims : Move(aim[1], aim[2])
  <2>1. PICK aim \in Aims : Move(aim[1], aim[2])
    BY <1>4
  <2>2. aim[1] \in Pieces
    BY InputAssumption
  <2> DEFINE path == BuildPath(Kind(aim[1]), pieces[aim[1]].cell, aim[2])
             m == StartMove(pieces[aim[1]], path, clock)
  <2>3. path \in Seq(Cells) /\ pieces' = [pieces EXCEPT ![aim[1]] = m]
    BY <2>1, <2>2, MovePieces DEF IInv
  <2>4. pieces \in [Pieces -> PieceStates] /\ clock \in Nat
    BY DEF IInv, TypeOK, PiecesOK, TimesOK
  <2>5. m.alive = pieces[aim[1]].alive
    BY <2>2, <2>3, <2>4, StartMovePiece
  <2> HIDE DEF m
  <2>6. \A p \in Pieces : pieces'[p].alive = pieces[p].alive
    BY <2>2, <2>3, <2>4, <2>5
  <2>7. LivingSides' = LivingSides
    BY <2>6, LivingSidesKept
  <2>8. UNCHANGED <<status, winner, reason, pc>>
    BY <2>1 DEF Move, outcomeVars, tickVars
  <2>9. QED BY <2>7, <2>8 DEF OutcomeInv, OutcomeJustified, ResultOnlyBetween, Idle, Running
<1>5. ASSUME NEW o \in Resigners, Resign(o) PROVE OutcomeInv'
  <2>1. /\ status = "running" /\ pc = "idle" /\ pc' = pc /\ pieces' = pieces
        /\ status' = "ended" /\ winner' \in Players /\ reason' = "resign"
    BY <1>5 DEF Resign, MayCommand, Idle, Running, tickVars, Opponent, Players
  <2>2. LivingSides' = LivingSides /\ LivingSides = Players
    <3>1. OutcomeJustified
      BY DEF OutcomeInv
    <3>2. LivingSides = Players
      <4>1. reason \in {GoesOn, "both generals dead", "general captured", "no legal action",
                        "no capture", "resign"}
        BY DEF IInv, TypeOK, OutcomeOK
      <4>2. QED BY <2>1, <3>1, <4>1 DEF OutcomeJustified, Idle, GoesOn
    <3>3. QED BY <2>1, <3>2 DEF LivingSides
  <2>3. winner' # NoPlayer
    BY <2>1 DEF Players, NoPlayer
  <2>4. QED
    BY <2>1, <2>2, <2>3 DEF OutcomeInv, OutcomeJustified, ResultOnlyBetween, Idle, GoesOn
<1>6. QED
  BY <1>1, <1>2, <1>3, <1>4, <1>5
  DEF Next, Elapse, TickStep, TickBegin, AutoUnlock, Command, ChooseUnlock, Leave, Reconnect,
      vars, tickVars

LEMMA OutcomeInvariance == Spec => []OutcomeInv
<1>1. Init => OutcomeInv
  <2> SUFFICES ASSUME Init PROVE OutcomeInv
    OBVIOUS
  <2>1. LivingSides = {Owner(g) : g \in Generals}
    BY DEF Init, LivingSides, Generals
  <2>2. {Owner(g) : g \in Generals} = Players
    BY BoardAssumption, PieceFacts DEF Generals
  <2>3. QED
    BY <2>1, <2>2 DEF Init, OutcomeInv, OutcomeJustified, ResultOnlyBetween, Running, Idle, GoesOn
<1>2. IInv /\ OutcomeInv /\ [Next]_vars => OutcomeInv'
  BY OutcomeStep
<1>3. QED BY <1>1, <1>2, Invariance, PTL DEF Spec

\* Whenever a match has a result, the board shows it: the reason that finish_match
\* recorded names the survivors and the winner.
THEOREM ResultsJustified == Spec => []OutcomeJustified
<1>1. OutcomeInv => OutcomeJustified
  BY DEF OutcomeInv
<1>2. QED BY <1>1, OutcomeInvariance, PTL

\* An ended match keeps its result, its board and its unlocks for good: no tick is
\* left to run, and every command looks at the status.
THEOREM EndedStaysAsItIs == Spec => EndedIsFinal
<1>1. ASSUME OutcomeInv, [Next]_vars, status = "ended"
      PROVE  UNCHANGED <<outcomeVars, unlockVars, pieces, actionVars>>
  <2>1. pc = "idle" /\ ~Running
    BY <1>1 DEF OutcomeInv, ResultOnlyBetween, Running, Idle
  <2>2. ~TickStep
    BY <2>1 DEF TickStep, TickBegin, AutoUnlock, Contacts, Duel, FinishTick
  <2>3. ~Elapse /\ \A o : ~MayCommand(o)
    BY <2>1 DEF Elapse, MayCommand
  <2>4. \/ \E o \in Leavers : Leave(o) \/ Reconnect(o)
        \/ UNCHANGED vars
    BY <1>1, <2>2, <2>3 DEF Next, Command, Move, ChooseUnlock, Resign
  <2>5. QED BY <2>4 DEF Leave, Reconnect, vars
<1>2. OutcomeInv /\ [Next]_vars =>
        [status = "ended" => UNCHANGED <<outcomeVars, unlockVars, pieces, actionVars>>]_vars
  BY <1>1
<1>3. QED BY <1>2, OutcomeInvariance, PTL DEF Spec, EndedIsFinal

-----------------------------------------------------------------------------
(* The records of the unlock waves *)

Chosen(o) == {choice[o][w] : w \in Waves} \ {NoKind}

LEMMA ChooseUnlockRecords ==
  ASSUME NEW o \in Players, NEW kind \in Kinds, TypeOK, ChooseUnlock(o, kind)
  PROVE  \E w \in Waves :
           /\ WaveOpen[w] <= clock /\ choice[o][w] = NoKind
           /\ kind \in WaveOptions(w)
           /\ choice' = [choice EXCEPT ![o][w] = kind]
           /\ unlocked' = [unlocked EXCEPT ![o] = @ \cup {kind}]
           /\ processed' = processed
<1> DEFINE w == CurrentWave(clock)
<1>1. w \in Waves /\ WaveOpen[w] <= clock
  BY CurrentWaveIsOpen DEF ChooseUnlock, MayChoose, TypeOK, TimesOK
<1>2. QED BY <1>1 DEF ChooseUnlock, MayChoose

LEMMA KindIsNoMark == ASSUME NEW kind \in Kinds PROVE kind # NoKind
BY DEF Kinds, NoKind

LEMMA AccountedChooseUnlock ==
  ASSUME NEW o \in Players, NEW kind \in Kinds, TypeOK, UnlocksAccounted, ChooseUnlock(o, kind)
  PROVE  UnlocksAccounted'
<1>1. PICK w \in Waves : /\ choice[o][w] = NoKind
                         /\ choice' = [choice EXCEPT ![o][w] = kind]
                         /\ unlocked' = [unlocked EXCEPT ![o] = @ \cup {kind}]
  BY ChooseUnlockRecords
<1>2. /\ choice \in [Players -> [Waves -> Kinds \cup {NoKind}]]
      /\ unlocked \in [Players -> SUBSET Kinds] /\ tickAt' = tickAt
  BY DEF TypeOK, UnlocksOK, ChooseUnlock, timeVars
<1>3. ASSUME NEW u \in Players, u # o PROVE unlocked'[u] = unlocked[u] /\ choice'[u] = choice[u]
  BY <1>1, <1>2, <1>3
<1>4. unlocked'[o] = unlocked[o] \cup {kind}
  BY <1>1, <1>2
<1>5. {choice'[o][v] : v \in Waves} \ {NoKind} = Chosen(o) \cup {kind}
  <2>1. \A v \in Waves : choice'[o][v] = IF v = w THEN kind ELSE choice[o][v]
    BY <1>1, <1>2
  <2>2. QED BY <1>1, <2>1, KindIsNoMark DEF Chosen
<1>6. CASE unlocked[o] = Kinds /\ tickAt >= FullUnlockAt
  <2>1. unlocked'[o] = Kinds
    BY <1>4, <1>6
  <2>2. QED BY <1>2, <1>3, <1>6, <2>1 DEF UnlocksAccounted
<1>7. CASE unlocked[o] = {"soldier"} \cup Chosen(o)
  <2>1. unlocked'[o] = {"soldier"} \cup ({choice'[o][v] : v \in Waves} \ {NoKind})
    BY <1>4, <1>5, <1>7
  <2>2. QED BY <1>2, <1>3, <2>1 DEF UnlocksAccounted
<1>8. QED BY <1>6, <1>7 DEF UnlocksAccounted, Chosen

LEMMA AccountedAutoUnlock ==
  ASSUME NEW w \in Waves, TypeOK, UnlocksAccounted, AutoUnlock(w)
  PROVE  UnlocksAccounted'
<1> SUFFICES ASSUME NEW o \in Players
             PROVE  unlocked'[o] = {"soldier"} \cup ({choice'[o][v] : v \in Waves} \ {NoKind})
  BY DEF UnlocksAccounted
<1>1. /\ choice \in [Players -> [Waves -> Kinds \cup {NoKind}]]
      /\ unlocked \in [Players -> SUBSET Kinds] /\ tickAt \in Nat
  BY DEF TypeOK, UnlocksOK, TimesOK
<1>2. unlocked[o] = {"soldier"} \cup Chosen(o)
  <2>1. tickAt < FullUnlockAt /\ FullUnlockAt \in Nat
    BY ScheduleAssumption DEF AutoUnlock, DueWaves
  <2>2. QED BY <1>1, <2>1 DEF UnlocksAccounted, Chosen
<1> DEFINE pick == AutoPick(w, unlocked[o])
<1>3. pick \in Kinds
  BY <1>1, AutoPickOffered
<1>4. CASE Unsettled(o, w)
  <2>1. unlocked'[o] = unlocked[o] \cup {pick}
        /\ choice'[o] = [choice[o] EXCEPT ![w] = pick]
    BY <1>4 DEF AutoUnlock
  <2>2. choice[o][w] = NoKind
    BY <1>4 DEF Unsettled
  <2> HIDE DEF pick
  <2>3. \A v \in Waves : choice'[o][v] = IF v = w THEN pick ELSE choice[o][v]
    BY <1>1, <2>1
  <2>4. {choice'[o][v] : v \in Waves} \ {NoKind} = Chosen(o) \cup {pick}
    BY <1>3, <2>2, <2>3, KindIsNoMark DEF Chosen
  <2>5. QED BY <1>2, <2>1, <2>4
<1>5. CASE ~Unsettled(o, w)
  BY <1>2, <1>5 DEF AutoUnlock, Chosen
<1>6. QED BY <1>4, <1>5

LEMMA AccountedStep == TypeOK /\ UnlocksAccounted /\ [Next]_vars => UnlocksAccounted'
<1> SUFFICES ASSUME TypeOK, UnlocksAccounted, [Next]_vars PROVE UnlocksAccounted'
  OBVIOUS
<1>1. CASE UNCHANGED <<tickAt, unlocked, choice>>
  BY <1>1 DEF UnlocksAccounted
<1>2. CASE TickBegin
  <2>1. tickAt' = clock /\ choice' = choice /\ tickAt <= clock /\ clock \in Nat /\ tickAt \in Nat
        /\ FullUnlockAt \in Nat
    BY <1>2, ScheduleAssumption DEF TickBegin, TypeOK, TimesOK
  <2>2. CASE clock >= FullUnlockAt
    <3>1. \A o \in Players : unlocked'[o] = Kinds
      BY <1>2, <2>2 DEF TickBegin
    <3>2. QED BY <2>1, <2>2, <3>1 DEF UnlocksAccounted
  <2>3. CASE ~(clock >= FullUnlockAt)
    <3>1. unlocked' = unlocked
      BY <1>2, <2>3 DEF TickBegin
    <3>2. QED BY <2>1, <2>3, <3>1 DEF UnlocksAccounted
  <2>4. QED BY <2>2, <2>3
<1>3. CASE \E w \in Waves : AutoUnlock(w)
  BY <1>3, AccountedAutoUnlock
<1>4. CASE \E wish \in Wishes : ChooseUnlock(wish[1], wish[2])
  <2>1. PICK wish \in Wishes : ChooseUnlock(wish[1], wish[2])
    BY <1>4
  <2>2. wish[1] \in Players /\ wish[2] \in Kinds
    BY InputAssumption
  <2>3. QED BY <2>1, <2>2, AccountedChooseUnlock
<1>5. QED
  BY <1>1, <1>2, <1>3, <1>4
  DEF Next, Elapse, TickStep, Contacts, Duel, FinishTick, Command, Move, Resign, Leave,
      Reconnect, vars, timeVars, unlockVars

\* Before the full unlock a player holds the soldier and the kinds recorded for the
\* waves, nothing more and nothing less.
THEOREM UnlocksAreAccounted == Spec => []UnlocksAccounted
<1>1. Init => UnlocksAccounted
  <2> SUFFICES ASSUME Init PROVE UnlocksAccounted
    OBVIOUS
  <2>1. \A o \in Players : unlocked[o] = {"soldier"} /\ \A w \in Waves : choice[o][w] = NoKind
    BY DEF Init
  <2>2. \A o \in Players : {choice[o][w] : w \in Waves} \ {NoKind} = {}
    BY <2>1
  <2>3. QED BY <2>1, <2>2 DEF UnlocksAccounted
<1>2. TypeOK /\ UnlocksAccounted /\ [Next]_vars => UnlocksAccounted'
  BY AccountedStep
<1>3. QED BY <1>1, <1>2, TypeCorrect, PTL DEF Spec

-----------------------------------------------------------------------------
(* Settled waves *)

\* What is on record for wave w and player o.
OnRecord(o, w) ==
  choice[o][w] # NoKind =>
    /\ WaveOpen[w] <= clock
    /\ choice[o][w] \in WaveOptions(w) \cup {"soldier"}

\* Once the unlock step of a tick is over, no wave that is due lacks a choice; a
\* wave marked as settled automatically has one.
WaveInv ==
  \A o \in Players, w \in Waves :
    /\ OnRecord(o, w)
    /\ w \in processed[o] => choice[o][w] # NoKind
    /\ pc # "unlock" /\ IsWaveTimeout(tickAt, w) /\ tickAt < FullUnlockAt
         => choice[o][w] # NoKind

LEMMA WavesOf ==
  ASSUME NEW w \in Waves, NEW t \in Nat, IsWaveTimeout(t, w)
  PROVE  WaveOpen[w] <= t
<1>1. WaveOpen[w] \in Nat /\ WaveWindow \in Nat /\ WaveEnd(w) <= t
  BY ScheduleAssumption DEF IsWaveTimeout, WaveEnd
<1>2. QED BY <1>1 DEF WaveEnd

LEMMA WavesAutoUnlock ==
  ASSUME NEW v \in Waves, TypeOK, WaveInv, AutoUnlock(v)
  PROVE  WaveInv'
<1> SUFFICES ASSUME NEW o \in Players, NEW w \in Waves
             PROVE  /\ OnRecord(o, w)'
                    /\ w \in processed'[o] => choice'[o][w] # NoKind
  BY DEF WaveInv, AutoUnlock, tickVars
<1>1. /\ choice \in [Players -> [Waves -> Kinds \cup {NoKind}]]
      /\ unlocked \in [Players -> SUBSET Kinds] /\ processed \in [Players -> SUBSET Waves]
      /\ tickAt \in Nat /\ clock \in Nat /\ tickAt <= clock
  BY DEF TypeOK, UnlocksOK, TimesOK
<1>2. clock' = clock /\ IsWaveTimeout(tickAt, v)
  BY DEF AutoUnlock, DueWaves, timeVars
<1>3. WaveOpen[v] <= clock
  <2>1. WaveOpen[v] <= tickAt /\ WaveOpen[v] \in Nat
    BY <1>1, <1>2, WavesOf, ScheduleAssumption
  <2>2. QED BY <1>1, <2>1
<1>4. OnRecord(o, w) /\ (w \in processed[o] => choice[o][w] # NoKind)
  BY DEF WaveInv
<1> DEFINE pick == AutoPick(v, unlocked[o])
<1>5. pick \in Kinds /\ pick \in WaveOptions(v) \cup {"soldier"}
  BY <1>1, AutoPickOffered
<1>6. CASE Unsettled(o, v)
  <2>1. choice'[o] = [choice[o] EXCEPT ![v] = pick] /\ processed'[o] = processed[o] \cup {v}
    BY <1>6 DEF AutoUnlock
  <2> HIDE DEF pick
  <2>2. choice'[o][w] = IF w = v THEN pick ELSE choice[o][w]
    BY <1>1, <2>1
  <2>3. QED BY <1>2, <1>3, <1>4, <1>5, <2>1, <2>2, KindIsNoMark DEF OnRecord
<1>7. CASE ~Unsettled(o, v)
  <2>1. choice'[o] = choice[o] /\ processed'[o] = processed[o]
    BY <1>7 DEF AutoUnlock
  <2>2. QED BY <1>2, <1>4, <2>1 DEF OnRecord
<1>8. QED BY <1>6, <1>7

LEMMA WavesChooseUnlock ==
  ASSUME NEW o \in Players, NEW kind \in Kinds, TypeOK, WaveInv, ChooseUnlock(o, kind)
  PROVE  WaveInv'
<1>1. PICK v \in Waves : /\ WaveOpen[v] <= clock /\ kind \in WaveOptions(v)
                         /\ choice' = [choice EXCEPT ![o][v] = kind]
                         /\ processed' = processed
  BY ChooseUnlockRecords
<1>2. choice \in [Players -> [Waves -> Kinds \cup {NoKind}]]
      /\ clock' = clock /\ tickAt' = tickAt /\ pc' = pc
  BY DEF TypeOK, UnlocksOK, ChooseUnlock, timeVars, tickVars
<1>3. \A u \in Players, w \in Waves :
        choice'[u][w] = IF u = o /\ w = v THEN kind ELSE choice[u][w]
  BY <1>1, <1>2
<1>4. QED BY <1>1, <1>2, <1>3, KindIsNoMark DEF WaveInv, OnRecord

LEMMA WavesStep == TypeOK /\ WaveInv /\ [Next]_vars => WaveInv'
<1> SUFFICES ASSUME TypeOK, WaveInv, [Next]_vars PROVE WaveInv'
  OBVIOUS
<1>1. clock \in Nat /\ \A w \in Waves : WaveOpen[w] \in Nat
  BY ScheduleAssumption DEF TypeOK, TimesOK
<1>2. CASE UNCHANGED <<clock, tickAt, choice, processed, pc>>
  BY <1>2 DEF WaveInv, OnRecord
<1>3. CASE Elapse
  <2>1. clock' = clock + 1 /\ UNCHANGED <<tickAt, choice, processed, pc>>
    BY <1>3 DEF Elapse, unlockVars, tickVars
  <2>2. \A w \in Waves : WaveOpen[w] <= clock => WaveOpen[w] <= clock'
    BY <1>1, <2>1
  <2>3. QED BY <2>1, <2>2 DEF WaveInv, OnRecord
<1>4. CASE TickBegin
  <2>1. pc' = "unlock" /\ UNCHANGED <<clock, choice, processed>>
    BY <1>4 DEF TickBegin
  <2>2. QED BY <2>1 DEF WaveInv, OnRecord
<1>5. CASE \E w \in Waves : AutoUnlock(w)
  BY <1>5, WavesAutoUnlock
<1>6. CASE Contacts
  <2>1. DueWaves = {} /\ UNCHANGED <<clock, tickAt, choice, processed>>
    BY <1>6 DEF Contacts, timeVars, unlockVars
  <2>2. \A o \in Players, w \in Waves :
          IsWaveTimeout(tickAt, w) /\ tickAt < FullUnlockAt => choice[o][w] # NoKind
    BY <2>1 DEF DueWaves, Unsettled, WaveInv
  <2>3. QED BY <2>1, <2>2 DEF WaveInv, OnRecord
<1>7. CASE (\E a, b \in Pieces : Duel(a, b)) \/ FinishTick
  <2>1. UNCHANGED <<clock, tickAt, choice, processed>> /\ pc = "duels"
    BY <1>7 DEF Duel, FinishTick, timeVars, unlockVars
  <2>2. QED BY <2>1 DEF WaveInv, OnRecord
<1>8. CASE \E wish \in Wishes : ChooseUnlock(wish[1], wish[2])
  <2>1. PICK wish \in Wishes : ChooseUnlock(wish[1], wish[2])
    BY <1>8
  <2>2. wish[1] \in Players /\ wish[2] \in Kinds
    BY InputAssumption
  <2>3. QED BY <2>1, <2>2, WavesChooseUnlock
<1>9. QED
  BY <1>2, <1>3, <1>4, <1>5, <1>6, <1>7, <1>8
  DEF Next, TickStep, Command, Move, Resign, Leave, Reconnect, vars, timeVars, unlockVars, tickVars

\* After a tick no expired wave is left without a choice, and every choice was one
\* the opened wave offers, or the fallback.
THEOREM WavesAreSettled == Spec => []WavesSettled
<1>1. Init => WaveInv
  BY ScheduleAssumption DEF Init, WaveInv, OnRecord, IsWaveTimeout, WaveEnd
<1>2. TypeOK /\ WaveInv /\ [Next]_vars => WaveInv'
  BY WavesStep
<1>3. WaveInv => WavesSettled
  BY DEF WaveInv, OnRecord, WavesSettled, Idle
<1>4. QED BY <1>1, <1>2, <1>3, TypeCorrect, PTL DEF Spec

-----------------------------------------------------------------------------
(* Match implements UnlockPromise *)

Spent == [o \in Players |-> {w \in Waves : choice[o][w] # NoKind}]

\* A player to whom wave w gives a kind gains in the sense of the promise.
LEMMA GiftIsGain ==
  ASSUME NEW o \in Players, NEW w \in Waves, NEW kind \in Kinds, TypeOK, TypeOK',
         kind \in WaveOptions(w) \cup {"soldier"}, choice[o][w] = NoKind,
         choice'[o] = [choice[o] EXCEPT ![w] = kind], unlocked'[o] = unlocked[o] \cup {kind}
  PROVE  Promise!Gains(o, w)
<1>1. choice[o] \in [Waves -> Kinds \cup {NoKind}]
  BY DEF TypeOK, UnlocksOK
<1>2. \A v \in Waves : choice'[o][v] = IF v = w THEN kind ELSE choice[o][v]
  BY <1>1
<1>3. Spent'[o] = Spent[o] \cup {w} /\ w \notin Spent[o]
  BY <1>2, KindIsNoMark DEF Spent
<1>4. QED BY <1>3 DEF Promise!Gains, Spent

\* What is left of Grant once every player gains or keeps.
LEMMA GrantOf ==
  ASSUME NEW w \in Waves, TypeOK', \A o \in Players : Promise!Gains(o, w) \/ Promise!Keeps(o)
  PROVE  Promise!Next
<1>1. unlocked' \in [Players -> SUBSET Kinds] /\ Spent' \in [Players -> SUBSET Waves]
  BY DEF TypeOK, UnlocksOK, Spent
<1>2. QED BY <1>1 DEF Promise!Next, Promise!Grant, Spent

LEMMA ChooseUnlockGrants ==
  ASSUME NEW o \in Players, NEW kind \in Kinds, TypeOK, TypeOK', ChooseUnlock(o, kind)
  PROVE  Promise!Next
<1>1. PICK w \in Waves : /\ choice[o][w] = NoKind /\ kind \in WaveOptions(w)
                         /\ choice' = [choice EXCEPT ![o][w] = kind]
                         /\ unlocked' = [unlocked EXCEPT ![o] = @ \cup {kind}]
  BY ChooseUnlockRecords
<1>2. choice \in [Players -> [Waves -> Kinds \cup {NoKind}]] /\ unlocked \in [Players -> SUBSET Kinds]
  BY DEF TypeOK, UnlocksOK
<1>3. Promise!Gains(o, w)
  <2>1. choice'[o] = [choice[o] EXCEPT ![w] = kind] /\ unlocked'[o] = unlocked[o] \cup {kind}
    BY <1>1, <1>2
  <2>2. QED BY <1>1, <2>1, GiftIsGain
<1>4. ASSUME NEW u \in Players, u # o PROVE Promise!Keeps(u)
  <2>1. choice'[u] = choice[u] /\ unlocked'[u] = unlocked[u]
    BY <1>1, <1>2, <1>4
  <2>2. QED BY <2>1 DEF Promise!Keeps
<1>5. QED BY <1>3, <1>4, GrantOf

LEMMA AutoUnlockGrants ==
  ASSUME NEW w \in Waves, TypeOK, TypeOK', AutoUnlock(w)
  PROVE  Promise!Next
<1>1. unlocked \in [Players -> SUBSET Kinds]
  BY DEF TypeOK, UnlocksOK
<1>2. ASSUME NEW o \in Players PROVE Promise!Gains(o, w) \/ Promise!Keeps(o)
  <2> DEFINE pick == AutoPick(w, unlocked[o])
  <2>1. CASE Unsettled(o, w)
    <3>1. pick \in Kinds /\ pick \in WaveOptions(w) \cup {"soldier"}
      BY <1>1, AutoPickOffered
    <3>2. /\ choice[o][w] = NoKind
          /\ choice'[o] = [choice[o] EXCEPT ![w] = pick] /\ unlocked'[o] = unlocked[o] \cup {pick}
      BY <2>1 DEF AutoUnlock, Unsettled
    <3> HIDE DEF pick
    <3>3. QED BY <3>1, <3>2, GiftIsGain
  <2>2. CASE ~Unsettled(o, w)
    <3>1. choice'[o] = choice[o] /\ unlocked'[o] = unlocked[o]
      BY <2>2 DEF AutoUnlock
    <3>2. QED BY <3>1 DEF Promise!Keeps
  <2>3. QED BY <2>1, <2>2
<1>3. QED BY <1>2, GrantOf

LEMMA PromiseStep ==
  ASSUME TypeOK, TypeOK', [Next]_vars
  PROVE  Promise!Next \/ UNCHANGED <<unlocked, choice>>
<1>1. CASE TickBegin
  <2>1. choice' = choice
    BY <1>1 DEF TickBegin
  <2>2. CASE clock >= FullUnlockAt
    BY <1>1, <2>1, <2>2 DEF TickBegin, Promise!Next, Promise!UnlockAll
  <2>3. CASE ~(clock >= FullUnlockAt)
    BY <1>1, <2>1, <2>3 DEF TickBegin
  <2>4. QED BY <2>2, <2>3
<1>2. CASE \E w \in Waves : AutoUnlock(w)
  BY <1>2, AutoUnlockGrants
<1>3. CASE \E wish \in Wishes : ChooseUnlock(wish[1], wish[2])
  <2>1. PICK wish \in Wishes : ChooseUnlock(wish[1], wish[2])
    BY <1>3
  <2>2. wish[1] \in Players /\ wish[2] \in Kinds
    BY InputAssumption
  <2>3. QED BY <2>1, <2>2, ChooseUnlockGrants
<1>4. QED
  BY <1>1, <1>2, <1>3
  DEF Next, Elapse, TickStep, Contacts, Duel, FinishTick, Command, Move, Resign, Leave, Reconnect,
      vars, unlockVars

\* Match implements the promise of UnlockPromise: whatever mix of choices, late ticks
\* and automatic picks, a wave gives a player one kind at most, one that it offers
\* or the soldier, and no kind is ever taken back.
THEOREM PromiseIsKept == Spec => PromiseKept
<1>1. Init => Promise!Init
  <2> SUFFICES ASSUME Init PROVE Promise!Init
    OBVIOUS
  <2>1. \A o \in Players : {w \in Waves : choice[o][w] # NoKind} = {}
    BY DEF Init
  <2>2. QED BY <2>1 DEF Init, Promise!Init
<1>2. TypeOK /\ TypeOK' /\ [Next]_vars => [Promise!Next]_<<unlocked, Spent>>
  BY PromiseStep DEF Spent
<1>3. QED BY <1>1, <1>2, TypeCorrect, PTL DEF Spec, PromiseKept, Promise!Spec, Spent

-----------------------------------------------------------------------------
(* Offers *)

\* The open wave at the clock, as the views of Snapshot see it.
LEMMA OpenNow ==
  ASSUME TypeOK, NEW w \in Waves, CurrentWave(clock) = w
  PROVE  clock \in Nat /\ clock < WaveEnd(w)
<1>1. clock \in Nat /\ w # NoWave
  BY ScheduleAssumption DEF TypeOK, TimesOK, Waves, NoWave
<1>2. QED BY <1>1, CurrentWaveIsOpen

\* A wave that a tick settles comes before the wave that is open.
LEMMA DueBeforeOpen ==
  ASSUME TypeOK, NEW w \in Waves, CurrentWave(clock) = w, NEW v \in Waves, IsWaveTimeout(tickAt, v)
  PROVE  v < w
<1>1. clock \in Nat /\ clock < WaveEnd(w) /\ tickAt \in Nat /\ tickAt <= clock
  BY OpenNow DEF TypeOK, TimesOK
<1>2. WaveEnd(v) <= tickAt
  BY DEF IsWaveTimeout
<1>3. WaveOpen[v] \in Nat /\ WaveOpen[w] \in Nat /\ WaveWindow \in Nat /\ v \in Nat /\ w \in Nat
  BY ScheduleAssumption DEF Waves
<1>4. WaveOpen[v] < WaveOpen[w]
  BY <1>1, <1>2, <1>3 DEF WaveEnd
<1>5. ~(w < v) /\ v # w
  BY <1>3, <1>4, ScheduleAssumption
<1>6. QED BY <1>3, <1>5

\* What may become of the offer of wave w to player o in a step.
Kept(o) ==
  /\ CanChooseNow(o)'
  /\ \A kind \in AvailableOptions(o) \ AvailableOptions(o)' :
       \E v \in Waves : /\ v < CurrentWave(clock) /\ choice[o][v] = NoKind
                        /\ choice'[o][v] = kind

\* An offer stands as long as the player's own records do.
LEMMA UntouchedOffer ==
  ASSUME NEW o \in Players, CanChooseNow(o), Running', CurrentWave(clock') = CurrentWave(clock),
         unlocked'[o] = unlocked[o], choice'[o] = choice[o]
  PROVE  Kept(o)
<1>1. AvailableOptions(o)' = AvailableOptions(o)
  BY DEF AvailableOptions
<1>2. CanChooseNow(o)'
  BY DEF CanChooseNow
<1>3. QED BY <1>1, <1>2 DEF Kept

LEMMA AutoUnlockKeeps ==
  ASSUME TypeOK, NEW o \in Players, CanChooseNow(o), Running', CurrentWave(clock) \in Waves,
         CurrentWave(clock') = CurrentWave(clock), NEW v \in Waves, AutoUnlock(v)
  PROVE  Kept(o)
<1> DEFINE w == CurrentWave(clock)
           pick == AutoPick(v, unlocked[o])
<1>1. v < w /\ v # w
  <2>1. IsWaveTimeout(tickAt, v)
    BY DEF AutoUnlock, DueWaves
  <2>2. v < w
    BY <2>1, DueBeforeOpen
  <2>3. v \in Int /\ w \in Int
    BY DEF Waves
  <2> HIDE DEF w
  <2>4. QED BY <2>2, <2>3
<1>2. CASE Unsettled(o, v)
  <2>1. /\ choice \in [Players -> [Waves -> Kinds \cup {NoKind}]]
        /\ choice'[o] = [choice[o] EXCEPT ![v] = pick] /\ unlocked'[o] = unlocked[o] \cup {pick}
        /\ choice[o][v] = NoKind
    BY <1>2 DEF AutoUnlock, Unsettled, TypeOK, UnlocksOK
  <2> HIDE DEF pick
  <2>2. choice'[o][v] = pick /\ choice'[o][w] = choice[o][w]
    BY <1>1, <2>1
  <2>3. CanChooseNow(o)'
    BY <2>2 DEF CanChooseNow
  <2>4. \A kind \in AvailableOptions(o) \ AvailableOptions(o)' : kind = pick
    BY <2>1 DEF AvailableOptions
  <2>5. QED BY <1>1, <2>1, <2>2, <2>3, <2>4 DEF Kept
<1>3. CASE ~Unsettled(o, v)
  <2>1. choice'[o] = choice[o] /\ unlocked'[o] = unlocked[o]
    BY <1>3 DEF AutoUnlock
  <2>2. QED BY <2>1, UntouchedOffer
<1>4. QED BY <1>2, <1>3

LEMMA OfferStep ==
  ASSUME TypeOK, \A w \in Waves : WaveEnd(w) <= FullUnlockAt, [Next]_vars,
         NEW o \in Players, CanChooseNow(o), Running', CurrentWave(clock') = CurrentWave(clock)
  PROVE  (Idle /\ choice'[o][CurrentWave(clock)] # NoKind) \/ Kept(o)
<1> DEFINE w == CurrentWave(clock)
<1>1. w \in Waves /\ clock < WaveEnd(w) /\ clock \in Nat
  <2>1. clock \in Nat
    BY DEF TypeOK, TimesOK
  <2>2. QED BY <2>1, CurrentWaveIsOpen DEF CanChooseNow
<1>2. CASE UNCHANGED <<unlocked, choice>>
  BY <1>2, UntouchedOffer
<1>3. CASE TickBegin
  <2>1. ~(clock >= FullUnlockAt)
    <3>1. WaveEnd(w) <= FullUnlockAt /\ WaveEnd(w) \in Nat /\ FullUnlockAt \in Nat
      BY <1>1, ScheduleAssumption DEF WaveEnd
    <3> HIDE DEF w
    <3>2. QED BY <1>1, <3>1
  <2>2. QED BY <1>2, <1>3, <2>1 DEF TickBegin
<1>4. CASE \E v \in Waves : AutoUnlock(v)
  BY <1>1, <1>4, AutoUnlockKeeps
<1>5. CASE \E wish \in Wishes : ChooseUnlock(wish[1], wish[2])
  <2>1. PICK wish \in Wishes : ChooseUnlock(wish[1], wish[2])
    BY <1>5
  <2>2. wish[1] \in Players /\ wish[2] \in Kinds
    BY InputAssumption
  <2>3. /\ choice \in [Players -> [Waves -> Kinds \cup {NoKind}]] /\ unlocked \in [Players -> SUBSET Kinds]
        /\ choice' = [choice EXCEPT ![wish[1]][w] = wish[2]]
        /\ unlocked' = [unlocked EXCEPT ![wish[1]] = @ \cup {wish[2]}] /\ Idle
    BY <2>1 DEF ChooseUnlock, MayCommand, TypeOK, UnlocksOK
  <2> HIDE DEF w
  <2>4. CASE wish[1] = o
    <3>1. choice'[o][w] = wish[2]
      BY <1>1, <2>3, <2>4
    <3>2. Idle /\ choice'[o][w] # NoKind
      BY <2>2, <2>3, <3>1, KindIsNoMark
    <3>3. QED BY <3>2 DEF w
  <2>5. CASE wish[1] # o
    <3>1. choice'[o] = choice[o] /\ unlocked'[o] = unlocked[o]
      BY <2>3, <2>5
    <3>2. QED BY <3>1, UntouchedOffer
  <2>6. QED BY <2>4, <2>5
<1>6. QED
  <2>1. CASE UNCHANGED vars
    BY <1>2, <2>1 DEF vars, unlockVars
  <2>2. CASE Elapse
    BY <1>2, <2>2 DEF Elapse, unlockVars
  <2>3. CASE Contacts \/ (\E a, b \in Pieces : Duel(a, b)) \/ FinishTick
    <3>1. (Contacts => UNCHANGED unlockVars) /\ (FinishTick => UNCHANGED unlockVars)
      BY Zenon DEF Contacts, FinishTick
    <3>2. \A a, b \in Pieces : Duel(a, b) => UNCHANGED <<unlocked, choice>>
      BY DEF Duel, unlockVars
    <3>3. QED BY <1>2, <2>3, <3>1, <3>2 DEF unlockVars
  <2>4. CASE Command
    <3>1. \A p \in Pieces, b \in Cells : Move(p, b) => UNCHANGED <<unlocked, choice>>
      BY DEF Move, unlockVars
    <3>2. \A u \in Players : Resign(u) \/ Leave(u) \/ Reconnect(u) => UNCHANGED <<unlocked, choice>>
      BY DEF Resign, Leave, Reconnect, unlockVars
    <3>3. QED BY <1>2, <1>5, <2>4, <3>1, <3>2, InputAssumption DEF Command
  <2>5. QED BY <1>3, <1>4, <2>1, <2>2, <2>3, <2>4 DEF Next, TickStep

\* With windows that all close by the full unlock, what the unlock view offers lapses
\* only with the wave or the match, by the player's own choice, or because a late tick
\* gives that very kind for an earlier wave (build_unlock_snapshot, apply_auto_unlocks).
THEOREM OffersStand ==
  ASSUME \A w \in Waves : WaveEnd(w) <= FullUnlockAt
  PROVE  Spec => OfferStands
<1>1. TypeOK /\ [Next]_vars =>
        [\A o \in Players :
           LET w == CurrentWave(clock)
           IN  CanChooseNow(o) /\ Running' /\ CurrentWave(clock') = w =>
                 \/ Idle /\ choice'[o][w] # NoKind
                 \/ /\ CanChooseNow(o)'
                    /\ \A kind \in AvailableOptions(o) \ AvailableOptions(o)' :
                         \E v \in Waves : /\ v < w /\ choice[o][v] = NoKind
                                          /\ choice'[o][v] = kind]_vars
  BY OfferStep DEF Kept
<1>2. QED BY <1>1, TypeCorrect, PTL DEF Spec, OfferStands

-----------------------------------------------------------------------------
(* The views of moves *)

\* The checks that legal_moves repeats come to those of handle_move_command, which
\* has some of them from validate_move.
LEMMA ViewAgrees ==
  ASSUME NEW p \in Pieces, NEW b, Idle, Online(Owner(p))
  PROVE  b \in ActionableTargets(p) <=> Accepted(p, b)
<1>1. MayCommand(Owner(p)) <=> Running
  BY DEF MayCommand, Online
<1>2. ValidateMove(p, b, pieces, clock) => b \in Cells /\ pieces[p].alive /\ ~pieces[p].moving
  BY DEF ValidateMove
<1>3. b \in ActionableTargets(p) <=>
        b \in Cells /\ OwnerViewExecutable(p) /\ ValidateMove(p, b, pieces, clock)
  BY DEF ActionableTargets, LegalTargets
<1>4. QED BY <1>1, <1>2, <1>3 DEF OwnerViewExecutable, MayMove, Accepted

LEMMA DisabledAgrees ==
  ASSUME TypeOK, NEW p \in Pieces
  PROVE  DisabledReason(p) = "none" <=> OwnerViewExecutable(p)
<1>1. clock \in Nat /\ pieces[p].cooldown \in Nat
  BY DEF TypeOK, TimesOK, PiecesOK, PieceStates
<1>2. pieces[p].cooldown > clock <=> ~(pieces[p].cooldown <= clock)
  BY <1>1
<1>3. QED BY <1>2 DEF DisabledReason, OwnerViewExecutable

\* The three answers legal_moves may give, told apart.
LEMMA ReasonCases ==
  ASSUME NEW p \in Pieces
  PROVE  /\ LegalMovesReason(p) = "piece_not_commandable_now" <=> ~OwnerViewExecutable(p)
         /\ LegalMovesReason(p) = "no_actionable_targets"
              <=> OwnerViewExecutable(p) /\ \A b \in Cells : b \notin ActionableTargets(p)
BY DEF LegalMovesReason

\* For every board: what legal_moves lists of the targets asked for is what
\* handle_move_command accepts, the piece snapshot disables the pieces legal_moves calls
\* not commandable, and an enabled piece without actionable targets cannot be moved.
THEOREM MoveOffersKept == Spec => []MoveOfferKept
<1>1. ASSUME TypeOK, Idle, NEW p \in Pieces, Online(Owner(p))
      PROVE  /\ DisabledReason(p) = "none" <=> LegalMovesReason(p) # "piece_not_commandable_now"
             /\ LegalMovesReason(p) = "no_actionable_targets" => \A b \in Cells : ~Accepted(p, b)
  BY <1>1, DisabledAgrees, ReasonCases, ViewAgrees
<1>2. TypeOK => MoveOfferKept
  BY <1>1, ViewAgrees, InputAssumption DEF MoveOfferKept
<1>3. QED BY <1>2, TypeCorrect, PTL DEF Spec

\* The same of every cell, whichever moves are asked for: the list of legal_moves is
\* the set of cells handle_move_command accepts, no reason comes with a list that has
\* something in it, and a piece that is disabled cannot be moved anywhere.
THEOREM LegalMovesExact ==
  Spec => [](Idle => \A p \in Pieces : Online(Owner(p)) =>
                       /\ ActionableTargets(p) = {b \in Cells : Accepted(p, b)}
                       /\ LegalMovesReason(p) = "none" <=> \E b \in Cells : Accepted(p, b)
                       /\ DisabledReason(p) # "none" => \A b \in Cells : ~Accepted(p, b))
<1>1. ASSUME TypeOK, Idle, NEW p \in Pieces, Online(Owner(p))
      PROVE  /\ ActionableTargets(p) = {b \in Cells : Accepted(p, b)}
             /\ LegalMovesReason(p) = "none" <=> \E b \in Cells : Accepted(p, b)
             /\ DisabledReason(p) # "none" => \A b \in Cells : ~Accepted(p, b)
  <2>1. \A b : b \in ActionableTargets(p) <=> Accepted(p, b)
    BY <1>1, ViewAgrees
  <2>2. ActionableTargets(p) \subseteq Cells
    BY DEF ActionableTargets, LegalTargets
  <2>3. ActionableTargets(p) # {} => OwnerViewExecutable(p)
    BY DEF ActionableTargets
  <2>4. LegalMovesReason(p) = "none" <=>
          OwnerViewExecutable(p) /\ \E b \in Cells : b \in ActionableTargets(p)
    BY DEF LegalMovesReason
  <2>5. DisabledReason(p) = "none" <=> OwnerViewExecutable(p)
    BY <1>1, DisabledAgrees
  <2>6. QED BY <2>1, <2>2, <2>3, <2>4, <2>5
<1>2. TypeOK =>
        (Idle => \A p \in Pieces : Online(Owner(p)) =>
                   /\ ActionableTargets(p) = {b \in Cells : Accepted(p, b)}
                   /\ LegalMovesReason(p) = "none" <=> \E b \in Cells : Accepted(p, b)
                   /\ DisabledReason(p) # "none" => \A b \in Cells : ~Accepted(p, b))
  BY <1>1
<1>3. QED BY <1>2, TypeCorrect, PTL DEF Spec

LEMMA RestAtClock ==
  ASSUME IInv, Idle, \A q \in Pieces : ~pieces[q].moving
  PROVE  AtRest(pieces)
<1>1. pieces \in [Pieces -> PieceStates]
  BY DEF IInv, TypeOK, PiecesOK
<1>2. ASSUME NEW p \in Pieces, NEW q \in Pieces, pieces[p].alive, pieces[q].alive, Enemies(p, q)
      PROVE  pieces[p].cell # pieces[q].cell
  <2>1. CellsOf(p) = {pieces[p].cell} /\ CellsOf(q) = {pieces[q].cell}
    BY <1>2 DEF CellsOf, RuntimeCells
  <2>2. CellsOf(p) \cap CellsOf(q) = {}
    BY <1>2 DEF IInv, ContactFree
  <2>3. QED BY <2>1, <2>2
<1>3. QED BY <1>1, <1>2 DEF AtRest

\* In every match, whatever was captured, drawn out and stacked before: as long as it
\* runs and nobody travels, the targets of legal_moves are the moves of Chinese chess.
THEOREM MovesOfXiangqi == Spec => []MovesAreXiangqi
<1>1. ASSUME IInv, OutcomeInv PROVE MovesAreXiangqi
  <2> SUFFICES ASSUME Idle, Running, \A q \in Pieces : ~pieces[q].moving, NEW p \in Pieces
               PROVE  LegalTargets(p, pieces, clock) = {b \in Cells : Legal(Position, p, b)}
    BY DEF MovesAreXiangqi
  <2>1. AtRest(pieces)
    BY <1>1, RestAtClock
  <2>2. LivingSides = Players
    BY <1>1 DEF OutcomeInv, OutcomeJustified, Running
  <2>3. \A o \in Players : LivingGeneral(pieces, o) # {}
    BY <2>2 DEF LivingSides, LivingGeneral
  <2>4. Position = PositionOf(pieces)
    BY DEF Position, PositionOf
  <2>5. \A b : ValidateMove(p, b, pieces, clock) <=> Legal(Position, p, b)
    BY <2>1, <2>3, <2>4, RulesAtRest
  <2>6. QED BY <2>5 DEF LegalTargets
<1>2. QED BY <1>1, Invariance, OutcomeInvariance, PTL

-----------------------------------------------------------------------------
(* Ticks come in time *)

LEMMA TimelyStep == TypeOK /\ Timely /\ [Next]_vars => Timely'
<1> SUFFICES ASSUME TypeOK, Timely, [Next]_vars PROVE Timely'
  OBVIOUS
<1>1. clock \in Nat /\ tickAt \in Nat /\ tickAt <= clock /\ MaxLag \in Nat
  BY InputAssumption DEF TypeOK, TimesOK
<1>2. CASE UNCHANGED timeVars /\ (UNCHANGED pc \/ ~Idle)
  BY <1>2 DEF Timely, Idle, timeVars
<1>3. CASE Elapse
  BY <1>1, <1>3 DEF Timely, Idle, Elapse, tickVars
<1>4. CASE TickBegin
  BY <1>1, <1>4 DEF Timely, TickBegin
<1>5. QED
  <2>1. CASE TickStep
    <3>1. Contacts \/ FinishTick => UNCHANGED timeVars /\ ~Idle
      BY Zenon DEF Contacts, FinishTick, Idle
    <3>2. \A w \in Waves : AutoUnlock(w) => UNCHANGED timeVars /\ ~Idle
      BY Zenon DEF AutoUnlock, Idle
    <3>3. \A a, b \in Pieces : Duel(a, b) => UNCHANGED timeVars /\ ~Idle
      BY Zenon DEF Duel, Idle
    <3>4. QED BY <1>2, <1>4, <2>1, <3>1, <3>2, <3>3 DEF TickStep
  <2>2. CASE Command
    BY <1>2, <2>2 DEF Command, Move, ChooseUnlock, Resign, Leave, Reconnect, tickVars
  <2>3. CASE UNCHANGED vars
    BY <1>2, <2>3 DEF vars, tickVars
  <2>4. QED BY <1>3, <2>1, <2>2, <2>3 DEF Next

LEMMA TicksAreTimely == Spec => []Timely
<1>1. Init => Timely
  BY InputAssumption DEF Init, Timely, Idle
<1>2. QED BY <1>1, TimelyStep, TypeCorrect, PTL DEF Spec

\* The steps of a match, as the properties of pieces and ticks see them.
LEMMA StepCases ==
  ASSUME [Next]_vars
  PROVE  \/ Elapse \/ TickBegin \/ Contacts \/ FinishTick
         \/ \E w \in Waves : AutoUnlock(w)
         \/ \E a, b \in Pieces : Duel(a, b)
         \/ \E p \in Pieces, b \in Cells : Move(p, b)
         \/ UNCHANGED <<clock, tickAt, phase, pieces, lastAction, lastCapture, pc, arrived, duels>>
<1>1. CASE Command
  <2>1. (\E aim \in Aims : Move(aim[1], aim[2])) => \E p \in Pieces, b \in Cells : Move(p, b)
    BY InputAssumption
  <2>2. \A o, kind : ChooseUnlock(o, kind)
          => UNCHANGED <<clock, tickAt, phase, pieces, lastAction, lastCapture, pc, arrived, duels>>
    BY DEF ChooseUnlock, timeVars, actionVars, tickVars
  <2>3. \A o : Resign(o) \/ Leave(o) \/ Reconnect(o)
          => UNCHANGED <<clock, tickAt, phase, pieces, lastAction, lastCapture, pc, arrived, duels>>
    BY DEF Resign, Leave, Reconnect, timeVars, actionVars, tickVars
  <2>4. QED BY <1>1, <2>1, <2>2, <2>3 DEF Command
<1>2. CASE UNCHANGED vars
  BY <1>2 DEF vars, timeVars, actionVars, tickVars
<1>3. QED BY <1>1, <1>2 DEF Next, TickStep

\* Contacts and duels let pieces fall and do nothing else to them.
LEMMA FallSteps ==
  ASSUME Contacts \/ \E a, b \in Pieces : Duel(a, b)
  PROVE  \E fallen \in SUBSET Pieces :
           /\ \A p \in fallen : pieces[p].alive
           /\ pieces' = [p \in Pieces |-> IF p \in fallen THEN MarkDead(pieces[p]) ELSE pieces[p]]
           /\ lastCapture' = IF fallen # {} THEN tickAt ELSE lastCapture
           /\ UNCHANGED <<clock, tickAt, phase, lastAction>> /\ pc # "idle" /\ pc' = "duels"
<1>1. CASE Contacts
  <2>1. Victims \in SUBSET Pieces /\ \A p \in Victims : pieces[p].alive
    BY DEF Victims, Resting
  <2>2. QED BY <1>1, <2>1 DEF Contacts, timeVars
<1>2. ASSUME NEW a \in Pieces, NEW b \in Pieces, Duel(a, b)
      PROVE  \E fallen \in SUBSET Pieces :
               /\ \A p \in fallen : pieces[p].alive
               /\ pieces' = [p \in Pieces |->
                               IF p \in fallen THEN MarkDead(pieces[p]) ELSE pieces[p]]
               /\ lastCapture' = IF fallen # {} THEN tickAt ELSE lastCapture
               /\ UNCHANGED <<clock, tickAt, phase, lastAction>> /\ pc # "idle" /\ pc' = "duels"
  <2>1. Fallen(a, b) \in SUBSET Pieces /\ \A p \in Fallen(a, b) : pieces[p].alive
    BY DEF Fallen, Losers
  <2>2. QED BY <1>2, <2>1 DEF Duel, timeVars
<1>3. QED BY <1>1, <1>2

\* A survivor of contacts and duels is as it was.
LEMMA SurvivorsKept ==
  ASSUME TypeOK, NEW fallen \in SUBSET Pieces, NEW p \in Pieces,
         pieces' = [q \in Pieces |-> IF q \in fallen THEN MarkDead(pieces[q]) ELSE pieces[q]],
         pieces'[p].alive
  PROVE  pieces'[p] = pieces[p]
<1>1. p \in fallen => ~pieces'[p].alive
  BY MarkDeadPiece DEF TypeOK, PiecesOK
<1>2. QED BY <1>1

\* Only the commanded piece is touched by a move command.
LEMMA OnlyMoverMoves ==
  ASSUME TypeOK, NEW p \in Pieces, NEW b, Move(p, b), NEW q \in Pieces
  PROVE  /\ q # p => pieces'[q] = pieces[q]
         /\ q = p => Mover(p)' /\ pieces'[p].start = clock
         /\ pieces'[q].alive = pieces[q].alive
         /\ UNCHANGED <<clock, tickAt, phase, pc, arrived, duels, lastCapture>> /\ pc = "idle"
         /\ lastAction' = clock
<1> DEFINE path == BuildPath(Kind(p), pieces[p].cell, b)
           m == StartMove(pieces[p], path, clock)
<1>1. path \in Seq(Cells) /\ pieces[p].alive /\ pieces' = [pieces EXCEPT ![p] = m]
  BY MovePieces
<1>2. pieces \in [Pieces -> PieceStates] /\ clock \in Nat
  BY DEF TypeOK, PiecesOK, TimesOK
<1>3. m.start = clock /\ m.moving /\ m.alive = pieces[p].alive
  BY <1>1, <1>2, StartMovePiece
<1> HIDE DEF m
<1>4. pieces'[q] = IF q = p THEN m ELSE pieces[q]
  BY <1>1, <1>2
<1>5. /\ UNCHANGED <<clock, tickAt, phase, pc, arrived, duels, lastCapture>> /\ pc = "idle"
      /\ lastAction' = clock
  BY DEF Move, MayCommand, Idle, timeVars, tickVars
<1>6. QED BY <1>1, <1>3, <1>4, <1>5 DEF Mover

-----------------------------------------------------------------------------
(* Moves and rests end in time *)

\* No move outlives the tick at which it is due: within the tick it is on the list of
\* arrivals, after it it is over.
InTime ==
  \A p \in Pieces :
    /\ Mover(p) => clock < MoveEnd(Kind(p), pieces[p]) + MaxLag
    /\ Idle /\ Mover(p) => tickAt < MoveEnd(Kind(p), pieces[p])
    /\ pc = "duels" /\ IsArrived(Kind(p), pieces[p], tickAt) => p \in arrived

\* A piece that rests and may move again has been announced by the tick at which its
\* cooldown was over.
ReadyInTime ==
  Idle => \A p \in Pieces :
    Resting(p) /\ pieces[p].cooldown > 0 /\ tickAt >= pieces[p].cooldown => pieces[p].announced

LEMMA MoveEndAhead ==
  ASSUME NEW kind \in Kinds, NEW m \in PieceStates, m.path # << >>
  PROVE  MoveEnd(kind, m) \in Nat /\ m.start < MoveEnd(kind, m)
<1>1. m.start \in Nat /\ m.path \in Seq(Cells)
  BY DEF PieceStates
<1>2. Duration(kind, m.path) \in Nat \ {0}
  BY <1>1, DurationPositive
<1>3. QED BY <1>1, <1>2 DEF MoveEnd

LEMMA InTimeFinishTick ==
  ASSUME IInv, Timely, InTime, FinishTick
  PROVE  InTime'
<1> SUFFICES ASSUME NEW p \in Pieces, Mover(p)'
             PROVE  /\ clock' < MoveEnd(Kind(p), pieces'[p]) + MaxLag
                    /\ tickAt' < MoveEnd(Kind(p), pieces'[p])
  BY DEF InTime, FinishTick
<1>1. UNCHANGED <<clock, tickAt>> /\ pc = "duels" /\ tickAt \in Nat
  <2>1. UNCHANGED <<clock, tickAt>> /\ pc = "duels"
    BY Zenon DEF FinishTick, timeVars
  <2>2. QED BY <2>1 DEF IInv, TypeOK, TimesOK
<1>2. Mover(p) /\ p \notin arrived
      /\ pieces'[p].start = pieces[p].start /\ pieces'[p].path = pieces[p].path
  BY FinishTickPieces DEF IInv, ListsStayTrue, Mover
<1>3. MoveEnd(Kind(p), pieces'[p]) = MoveEnd(Kind(p), pieces[p])
  BY <1>2 DEF MoveEnd
<1>4. tickAt < MoveEnd(Kind(p), pieces[p])
  <2>1. ~IsArrived(Kind(p), pieces[p], tickAt)
    BY <1>1, <1>2 DEF InTime
  <2>2. ~(tickAt >= MoveEnd(Kind(p), pieces[p]))
    BY <1>2, <2>1 DEF IsArrived, Mover
  <2>3. MoveEnd(Kind(p), pieces[p]) \in Nat
    BY <1>2, MoveEndAhead, PieceFacts DEF Mover, IInv, TypeOK, PiecesOK
  <2>4. QED BY <1>1, <2>2, <2>3
<1>5. QED BY <1>1, <1>2, <1>3, <1>4 DEF InTime

LEMMA InTimeStep == IInv /\ IInv' /\ Timely /\ InTime /\ [Next]_vars => InTime'
<1> SUFFICES ASSUME IInv, IInv', Timely, InTime, [Next]_vars PROVE InTime'
  OBVIOUS
<1>1. /\ TypeOK /\ TypeOK' /\ Timely' /\ MaxLag \in Nat \ {0}
      /\ clock \in Nat /\ tickAt \in Nat /\ tickAt <= clock /\ clock' \in Nat /\ tickAt' \in Nat
  BY TimelyStep, InputAssumption DEF IInv, TypeOK, TimesOK
<1>2. CASE UNCHANGED <<clock, tickAt, pieces, pc, arrived>>
  BY <1>2 DEF InTime, Mover, Idle
<1>3. CASE Elapse
  <2>1. UNCHANGED <<tickAt, pieces, pc>> /\ pc = "idle" /\ clock' <= tickAt + MaxLag
    BY <1>1, <1>3 DEF Elapse, Idle, tickVars, Timely
  <2>2. ASSUME NEW p \in Pieces, Mover(p)
        PROVE  clock' < MoveEnd(Kind(p), pieces[p]) + MaxLag
    <3>1. tickAt < MoveEnd(Kind(p), pieces[p]) /\ MoveEnd(Kind(p), pieces[p]) \in Nat
      BY <1>1, <2>1, <2>2, MoveEndAhead, PieceFacts DEF InTime, Idle, Mover, TypeOK, PiecesOK
    <3>2. QED BY <1>1, <2>1, <3>1
  <2>3. QED BY <2>1, <2>2 DEF InTime, Mover, Idle
<1>4. CASE TickBegin \/ \E w \in Waves : AutoUnlock(w)
  <2>1. UNCHANGED <<clock, pieces>> /\ pc' = "unlock"
    BY <1>4 DEF TickBegin, AutoUnlock, timeVars, tickVars
  <2>2. QED BY <2>1 DEF InTime, Mover, Idle
<1>5. CASE Contacts \/ \E a, b \in Pieces : Duel(a, b)
  <2>1. PICK fallen \in SUBSET Pieces :
          /\ pieces' = [p \in Pieces |-> IF p \in fallen THEN MarkDead(pieces[p]) ELSE pieces[p]]
          /\ UNCHANGED <<clock, tickAt>> /\ pc' = "duels"
    BY <1>5, FallSteps
  <2>2. \A p \in Pieces : pieces'[p].alive => pieces'[p] = pieces[p]
    BY <1>1, <2>1, SurvivorsKept
  <2>3. \A p \in Pieces : IsArrived(Kind(p), pieces[p], tickAt) => p \in arrived'
    BY <1>5 DEF Contacts, Duel, InTime
  <2>4. QED BY <2>1, <2>2, <2>3 DEF InTime, Mover, Idle, IsArrived
<1>6. CASE FinishTick
  BY <1>6, InTimeFinishTick
<1>7. ASSUME NEW p \in Pieces, NEW b \in Cells, Move(p, b) PROVE InTime'
  <2>1. /\ UNCHANGED <<clock, tickAt, pc>> /\ pc = "idle"
        /\ \A q \in Pieces \ {p} : pieces'[q] = pieces[q]
        /\ Mover(p)' /\ pieces'[p].start = clock
    BY <1>1, <1>7, OnlyMoverMoves
  <2>2. MoveEnd(Kind(p), pieces'[p]) \in Nat /\ clock < MoveEnd(Kind(p), pieces'[p])
    <3>1. pieces'[p] \in PieceStates /\ pieces'[p].path # << >> /\ Kind(p) \in Kinds
      BY <1>1, <2>1, PieceFacts DEF Mover, TypeOK, PiecesOK
    <3>2. QED BY <2>1, <3>1, MoveEndAhead
  <2>3. /\ clock' < MoveEnd(Kind(p), pieces'[p]) + MaxLag
        /\ tickAt' < MoveEnd(Kind(p), pieces'[p])
    BY <1>1, <2>1, <2>2
  <2>4. QED BY <2>1, <2>3 DEF InTime, Mover, Idle
<1>8. QED BY <1>2, <1>3, <1>4, <1>5, <1>6, <1>7, StepCases

\* A piece travels for the time of its move and less than one lag of the tick more, on
\* every board and whatever happens meanwhile: the list of arrivals that advance_match
\* draws up before the captures misses nobody.
THEOREM MovesEndInTime == Spec => []InTime
<1>1. Init => InTime
  BY DEF Init, InTime, Mover, IsArrived
<1>2. QED BY <1>1, InTimeStep, Invariance, TicksAreTimely, PTL DEF Spec

LEMMA ReadyFinishTick ==
  ASSUME TypeOK, ArrivedAreDue, FinishTick
  PROVE  ReadyInTime'
<1> SUFFICES ASSUME NEW p \in Pieces, Resting(p)', pieces'[p].cooldown > 0,
                    tickAt' >= pieces'[p].cooldown
             PROVE  pieces'[p].announced
  BY DEF ReadyInTime
<1> DEFINE m == IF p \in arrived /\ pieces[p].alive
                THEN FinishMove(Kind(p), pieces[p], tickAt) ELSE pieces[p]
<1>1. tickAt' = tickAt /\ pieces'[p] = Announce(m)
  BY DEF FinishTick, Settled, timeVars
<1>2. m \in PieceStates
  <2>1. pieces[p] \in PieceStates /\ Kind(p) \in Kinds /\ tickAt \in Nat
    BY PieceFacts DEF TypeOK, PiecesOK, TimesOK
  <2>2. pc = "duels"
    BY Zenon DEF FinishTick
  <2>3. p \in arrived /\ pieces[p].alive => pieces[p].path # << >>
    BY <2>2 DEF ArrivedAreDue, IsArrived, TypeOK, PiecesOK
  <2>4. QED BY <2>1, <2>3, FinishMovePiece
<1> HIDE DEF m
<1>3. Announce(m).cooldown = m.cooldown
  BY <1>2 DEF Announce, PieceStates
<1>4. m.alive /\ ~m.moving /\ m.cooldown > 0 /\ tickAt >= m.cooldown
  BY <1>1, <1>2, <1>3, AnnouncePiece DEF Resting
<1>5. QED BY <1>1, <1>2, <1>4 DEF Announce, PieceStates

LEMMA ReadyStep == IInv /\ ReadyInTime /\ [Next]_vars => ReadyInTime'
<1> SUFFICES ASSUME IInv, ReadyInTime, [Next]_vars PROVE ReadyInTime'
  OBVIOUS
<1>1. TypeOK /\ ListsStayTrue
  BY DEF IInv
<1>2. CASE UNCHANGED <<tickAt, pieces, pc>> \/ Elapse
  BY <1>2 DEF ReadyInTime, Idle, Resting, Elapse, tickVars
<1>3. CASE TickBegin \/ \E w \in Waves : AutoUnlock(w)
  <2>1. pc' = "unlock"
    BY <1>3 DEF TickBegin, AutoUnlock, tickVars
  <2>2. QED BY <2>1 DEF ReadyInTime, Idle
<1>4. CASE Contacts \/ \E a, b \in Pieces : Duel(a, b)
  <2>1. pc' = "duels"
    BY <1>4, FallSteps
  <2>2. QED BY <2>1 DEF ReadyInTime, Idle
<1>5. CASE FinishTick
  BY <1>1, <1>5, ReadyFinishTick DEF ListsStayTrue
<1>6. ASSUME NEW p \in Pieces, NEW b \in Cells, Move(p, b) PROVE ReadyInTime'
  <2>1. /\ UNCHANGED <<tickAt, pc>> /\ Mover(p)'
        /\ \A q \in Pieces \ {p} : pieces'[q] = pieces[q]
    BY <1>1, <1>6, OnlyMoverMoves
  <2>2. QED BY <2>1 DEF ReadyInTime, Idle, Resting, Mover
<1>7. QED BY <1>2, <1>3, <1>4, <1>5, <1>6, StepCases

\* Every piece that rests through the end of its cooldown is announced by the first
\* tick after it, a piece that falls or moves again before being the only exception
\* (emit_piece_ready_events).
THEOREM ReadinessIsAnnounced == Spec => []ReadyInTime
<1>1. Init => ReadyInTime
  BY DEF Init, ReadyInTime
<1>2. QED BY <1>1, ReadyStep, Invariance, PTL DEF Spec

-----------------------------------------------------------------------------
(* Every tick ends *)

LEMMA WavesFinite == IsFiniteSet(Waves)
BY ScheduleAssumption, FS_Interval DEF Waves

LEMMA PiecesFinite ==
  /\ IsFiniteSet(Pieces) /\ Cardinality(Pieces) = Len(InitialBoard)
  /\ IsFiniteSet(Pieces \X Pieces)
<1>1. Len(InitialBoard) \in Nat /\ Pieces = 1 .. Len(InitialBoard)
  BY BoardAssumption DEF Pieces
<1>2. /\ IsFiniteSet(1 .. Len(InitialBoard))
      /\ Cardinality(1 .. Len(InitialBoard))
           = IF 1 > Len(InitialBoard) THEN 0 ELSE Len(InitialBoard) - 1 + 1
  BY <1>1, FS_Interval
<1>3. IsFiniteSet(Pieces) /\ Cardinality(Pieces) = Len(InitialBoard)
  BY <1>1, <1>2
<1>4. QED BY <1>3, FS_Product

\* What a tick has left to do, at most: waves to settle, duels to fight, and the two
\* steps that settle contacts and finish the tick.
TickWork ==
  IF pc = "unlock" THEN Cardinality(DueWaves) + Cardinality(Pieces \X Pieces) + 2
  ELSE IF pc = "duels" THEN Cardinality(duels) + 1
  ELSE 0

\* Every loop of a tick that is not done has a next item.
NextItem ==
  /\ pc = "unlock" /\ DueWaves # {} => \E w \in DueWaves : \A v \in DueWaves : w <= v
  /\ pc = "duels" /\ duels # {} =>
       \E d \in duels : \A e \in duels : d[1] < e[1] \/ (d[1] = e[1] /\ d[2] <= e[2])

LEMMA WorkIsFinite ==
  ASSUME TypeOK
  PROVE  /\ IsFiniteSet(DueWaves) /\ IsFiniteSet(duels)
         /\ Cardinality(DueWaves) \in Nat /\ Cardinality(duels) \in Nat
         /\ Cardinality(Pieces \X Pieces) \in Nat
<1>1. DueWaves \in SUBSET Waves /\ duels \in SUBSET (Pieces \X Pieces)
  BY DEF DueWaves, TypeOK, TickOK
<1>2. IsFiniteSet(DueWaves) /\ IsFiniteSet(duels)
  BY <1>1, WavesFinite, PiecesFinite, FS_Subset
<1>3. QED BY <1>2, PiecesFinite, FS_CardinalityType

LEMMA SmallerByOne ==
  ASSUME NEW S, IsFiniteSet(S), NEW x \in S, NEW T \in SUBSET (S \ {x})
  PROVE  Cardinality(T) < Cardinality(S)
<1>1. IsFiniteSet(S \ {x}) /\ Cardinality(S \ {x}) = Cardinality(S) - 1
  BY FS_RemoveElement
<1>2. Cardinality(T) <= Cardinality(S \ {x}) /\ IsFiniteSet(T)
  BY <1>1, FS_Subset
<1>3. Cardinality(S) \in Nat /\ Cardinality(T) \in Nat
  BY <1>2, FS_CardinalityType
<1>4. QED BY <1>1, <1>2, <1>3

LEMMA WorkAutoUnlock ==
  ASSUME TypeOK, TypeOK', NEW w \in Waves, AutoUnlock(w)
  PROVE  TickWork' < TickWork
<1>1. /\ pc = "unlock" /\ pc' = "unlock" /\ tickAt' = tickAt /\ w \in DueWaves
  BY DEF AutoUnlock, timeVars, tickVars
<1>2. choice \in [Players -> [Waves -> Kinds \cup {NoKind}]] /\ unlocked \in [Players -> SUBSET Kinds]
  BY DEF TypeOK, UnlocksOK
<1>3. ASSUME NEW o \in Players, NEW v \in Waves, Unsettled(o, v)'
      PROVE  Unsettled(o, v) /\ v # w
  <2> DEFINE pick == AutoPick(w, unlocked[o])
  <2>1. CASE Unsettled(o, w)
    <3>1. choice'[o] = [choice[o] EXCEPT ![w] = pick] /\ processed'[o] = processed[o] \cup {w}
      BY <2>1 DEF AutoUnlock
    <3> HIDE DEF pick
    <3>2. v # w /\ choice'[o][v] = choice[o][v]
      BY <1>2, <1>3, <3>1 DEF Unsettled
    <3>3. QED BY <1>3, <3>1, <3>2 DEF Unsettled
  <2>2. CASE ~Unsettled(o, w)
    <3>1. choice'[o] = choice[o] /\ processed'[o] = processed[o]
      BY <2>2 DEF AutoUnlock
    <3>2. QED BY <1>3, <2>2, <3>1 DEF Unsettled
  <2>3. QED BY <2>1, <2>2
<1>4. DueWaves' \subseteq DueWaves \ {w}
  BY <1>1, <1>3 DEF DueWaves
<1>5. Cardinality(DueWaves') < Cardinality(DueWaves)
  BY <1>1, <1>4, WorkIsFinite, SmallerByOne
<1>6. Cardinality(DueWaves) \in Nat /\ Cardinality(DueWaves') \in Nat
      /\ Cardinality(Pieces \X Pieces) \in Nat
  <2>1. DueWaves' \in SUBSET DueWaves
    BY <1>4
  <2>2. IsFiniteSet(DueWaves')
    BY <2>1, WorkIsFinite, FS_Subset
  <2>3. QED BY <2>2, WorkIsFinite, FS_CardinalityType
<1>7. QED BY <1>1, <1>5, <1>6 DEF TickWork

LEMMA WorkContacts ==
  ASSUME TypeOK, Contacts
  PROVE  TickWork' < TickWork
<1>1. pc = "unlock" /\ pc' = "duels" /\ DueWaves = {} /\ duels' = MovingContacts
  BY DEF Contacts
<1>2. MovingContacts \in SUBSET (Pieces \X Pieces)
  BY DEF MovingContacts
<1>3. /\ Cardinality(MovingContacts) <= Cardinality(Pieces \X Pieces)
      /\ Cardinality(MovingContacts) \in Nat /\ Cardinality(Pieces \X Pieces) \in Nat
  BY <1>2, PiecesFinite, FS_Subset, FS_CardinalityType
<1>4. Cardinality(DueWaves) = 0
  BY <1>1, FS_EmptySet
<1>5. QED BY <1>1, <1>3, <1>4 DEF TickWork

LEMMA WorkDuel ==
  ASSUME TypeOK, NEW a \in Pieces, NEW b \in Pieces, Duel(a, b)
  PROVE  TickWork' < TickWork
<1>1. pc = "duels" /\ pc' = "duels" /\ <<a, b>> \in duels /\ duels' = duels \ {<<a, b>>}
  BY DEF Duel
<1>2. Cardinality(duels') < Cardinality(duels)
  BY <1>1, WorkIsFinite, SmallerByOne
<1>3. IsFiniteSet(duels')
  BY <1>1, WorkIsFinite, FS_RemoveElement
<1>4. Cardinality(duels') \in Nat /\ Cardinality(duels) \in Nat
  BY <1>3, WorkIsFinite, FS_CardinalityType
<1>5. QED BY <1>1, <1>2, <1>4 DEF TickWork

LEMMA WorkFinishTick ==
  ASSUME TypeOK, FinishTick
  PROVE  TickWork' < TickWork
<1>1. pc = "duels" /\ pc' = "idle" /\ duels = {}
  BY Zenon DEF FinishTick
<1>2. QED BY <1>1, FS_EmptySet DEF TickWork

\* A tick always has a next step: the loops over waves and over duels find their next
\* item, in the order of the code, until none is left.
THEOREM TicksGoOn == Spec => []NextItem
<1>1. TypeOK => NextItem
  <2> SUFFICES ASSUME TypeOK PROVE NextItem
    OBVIOUS
  <2>1. ASSUME DueWaves # {} PROVE \E w \in DueWaves : \A v \in DueWaves : w <= v
    <3>1. DueWaves \subseteq Nat
      BY ScheduleAssumption DEF DueWaves, Waves
    <3>2. QED BY <2>1, <3>1, MinOfNaturals
  <2>2. ASSUME duels # {}
        PROVE  \E d \in duels : \A e \in duels : d[1] < e[1] \/ (d[1] = e[1] /\ d[2] <= e[2])
    <3> DEFINE firsts == {e[1] : e \in duels}
               a == Min(firsts)
               seconds == {e[2] : e \in {e \in duels : e[1] = a}}
               b == Min(seconds)
    <3>1. \A e \in duels : e[1] \in Nat /\ e[2] \in Nat /\ e = <<e[1], e[2]>>
      BY PieceFacts DEF TypeOK, TickOK
    <3>2. a \in firsts /\ \A y \in firsts : a <= y
      BY <2>2, <3>1, MinOfNaturals
    <3>3. seconds \subseteq Nat /\ seconds # {}
      BY <3>1, <3>2
    <3> HIDE DEF a
    <3>4. b \in seconds /\ \A y \in seconds : b <= y
      BY <3>3, MinOfNaturals
    <3>5. PICK d \in duels : d[1] = a /\ d[2] = b
      BY <3>4
    <3> HIDE DEF b
    <3>6. \A e \in duels : d[1] < e[1] \/ (d[1] = e[1] /\ d[2] <= e[2])
      <4> TAKE e \in duels
      <4>1. a <= e[1] /\ a \in Nat /\ e[1] \in Nat
        BY <3>1, <3>2, <3>5
      <4>2. CASE e[1] = a
        BY <3>4, <3>5, <4>2
      <4>3. CASE e[1] # a
        BY <3>5, <4>1, <4>3
      <4>4. QED BY <4>2, <4>3
    <3>7. QED BY <3>6
  <2>3. QED BY <2>1, <2>2 DEF NextItem
<1>2. QED BY <1>1, TypeCorrect, PTL DEF Spec

\* Every step within a tick brings it closer to its end, whatever the number of waves
\* due and of pieces in contact; nothing else happens meanwhile.
THEOREM TicksEnd == Spec => [][~Idle => TickWork' < TickWork]_vars
<1>1. ASSUME TypeOK, TypeOK', Next, ~Idle PROVE TickWork' < TickWork
  <2>1. ~Elapse /\ ~TickBegin /\ ~Command
    BY <1>1 DEF Elapse, TickBegin, Command, Move, ChooseUnlock, Resign, Leave, Reconnect, MayCommand
  <2>2. TickStep
    BY <1>1, <2>1 DEF Next
  <2>3. QED BY <1>1, <2>1, <2>2, WorkAutoUnlock, WorkContacts, WorkDuel, WorkFinishTick DEF TickStep
<1>2. TypeOK /\ TypeOK' /\ [Next]_vars => [~Idle => TickWork' < TickWork]_vars
  BY <1>1
<1>3. QED BY <1>2, TypeCorrect, PTL DEF Spec

-----------------------------------------------------------------------------
(* A match that may be drawn is over by a fixed time *)

FallenPieces == {p \in Pieces : ~pieces[p].alive}

\* The longest that nobody can fall before the match is drawn, the lag included.
Lull == NoCaptureDraw + MaxLag

\* After a tick the match goes on only if no draw was due.
NoDrawDue ==
  AllowDraw /\ Idle /\ Running /\ phase.name # "waiting" /\ tickAt >= DrawCheckStart =>
    tickAt - lastAction < NoActionDraw /\ tickAt - lastCapture < NoCaptureDraw

\* Each piece that falls buys the match one lull.
CapturesBuyTime ==
  AllowDraw =>
    /\ lastCapture <= DrawCheckStart + Cardinality(FallenPieces) * Lull
    /\ ~Idle => clock <= DrawCheckStart + (Cardinality(FallenPieces) + 1) * Lull

DrawInv == NoDrawDue /\ CapturesBuyTime /\ (phase.name = "waiting" => tickAt = 0)

LEMMA Lulls ==
  /\ Lull \in Nat /\ MaxLag <= Lull
  /\ \A m \in Nat : /\ m * Lull \in Nat /\ (m + 1) * Lull = m * Lull + Lull
                    /\ \A n \in Nat : m <= n => m * Lull <= n * Lull
<1>1. Lull \in Nat /\ MaxLag <= Lull
  BY DrawAssumption, InputAssumption DEF Lull
<1>2. ASSUME NEW m \in Nat
      PROVE  m * Lull \in Nat /\ (m + 1) * Lull = m * Lull + Lull
  BY <1>1
<1>3. ASSUME NEW m \in Nat, NEW n \in Nat, m <= n
      PROVE  m * Lull <= n * Lull
  <2>1. PICK k \in Nat : n = m + k
    <3>1. n - m \in Nat /\ n = m + (n - m)
      BY <1>3
    <3>2. QED BY <3>1
  <2>2. n * Lull = m * Lull + k * Lull /\ k * Lull \in Nat /\ m * Lull \in Nat
    BY <1>1, <2>1
  <2>3. QED BY <2>2
<1>4. QED BY <1>1, <1>2, <1>3

LEMMA FallenFinite ==
  IsFiniteSet(FallenPieces) /\ Cardinality(FallenPieces) \in Nat
<1>1. FallenPieces \in SUBSET Pieces
  BY DEF FallenPieces
<1>2. IsFiniteSet(FallenPieces)
  BY <1>1, PiecesFinite, FS_Subset
<1>3. QED BY <1>2, FS_CardinalityType

\* The clock of a match that goes on is bounded by the pieces that have fallen.
LEMMA TimeBought ==
  ASSUME TypeOK, Timely, DrawInv, AllowDraw, Idle, Running
  PROVE  clock <= DrawCheckStart + (Cardinality(FallenPieces) + 1) * Lull
<1> DEFINE n == Cardinality(FallenPieces)
<1>1. /\ clock \in Nat /\ tickAt \in Nat /\ lastCapture \in Nat /\ MaxLag \in Nat
      /\ DrawCheckStart \in Nat /\ NoCaptureDraw \in Nat /\ clock <= tickAt + MaxLag
  BY DrawAssumption, InputAssumption DEF TypeOK, TimesOK, Timely
<1>2. n \in Nat
  BY FallenFinite
<1> HIDE DEF n
<1>3. /\ n * Lull \in Nat /\ (n + 1) * Lull = n * Lull + Lull
      /\ Lull = NoCaptureDraw + MaxLag
  BY <1>2, Lulls DEF Lull
<1>4. lastCapture <= DrawCheckStart + n * Lull
  BY DEF DrawInv, CapturesBuyTime, n
<1>5. \/ tickAt = 0 \/ tickAt < DrawCheckStart \/ tickAt - lastCapture < NoCaptureDraw
  BY <1>1 DEF DrawInv, NoDrawDue
<1>6. clock <= DrawCheckStart + (n * Lull + NoCaptureDraw + MaxLag)
  BY <1>1, <1>3, <1>4, <1>5
<1>7. QED BY <1>1, <1>3, <1>6 DEF n

\* When pieces fall in a tick, the time they buy covers the time of the tick.
LEMMA DrawFall ==
  ASSUME TypeOK, TypeOK', Timely, DrawInv, Contacts \/ \E a, b \in Pieces : Duel(a, b)
  PROVE  DrawInv'
<1>1. PICK fallen \in SUBSET Pieces :
        /\ \A p \in fallen : pieces[p].alive
        /\ pieces' = [p \in Pieces |-> IF p \in fallen THEN MarkDead(pieces[p]) ELSE pieces[p]]
        /\ lastCapture' = IF fallen # {} THEN tickAt ELSE lastCapture
        /\ UNCHANGED <<clock, tickAt, phase, lastAction>> /\ pc # "idle" /\ pc' = "duels"
  BY FallSteps
<1>2. \A p \in Pieces : pieces'[p].alive <=> pieces[p].alive /\ p \notin fallen
  BY <1>1, MarkDeadPiece DEF TypeOK, PiecesOK
<1>3. FallenPieces' = FallenPieces \cup fallen /\ FallenPieces \cap fallen = {}
  BY <1>1, <1>2 DEF FallenPieces
<1> DEFINE m == Cardinality(FallenPieces)
           n == Cardinality(FallenPieces')
<1>4. IsFiniteSet(FallenPieces') /\ n \in Nat /\ m \in Nat /\ IsFiniteSet(FallenPieces)
  <2>1. FallenPieces' \in SUBSET Pieces
    BY DEF FallenPieces
  <2>2. IsFiniteSet(FallenPieces')
    BY <2>1, PiecesFinite, FS_Subset
  <2>3. QED BY <2>2, FallenFinite, FS_CardinalityType
<1>5. m <= n /\ (fallen # {} => m + 1 <= n)
  <2>1. m <= n
    BY <1>3, <1>4, FS_Subset
  <2>2. ASSUME NEW p \in fallen PROVE m < n
    <3>1. FallenPieces \in SUBSET (FallenPieces' \ {p}) /\ p \in FallenPieces'
      BY <1>3
    <3>2. QED BY <1>4, <3>1, SmallerByOne
  <2> HIDE DEF m, n
  <2>3. QED BY <1>4, <2>1, <2>2
<1>6. AllowDraw => /\ lastCapture <= DrawCheckStart + m * Lull
                   /\ clock <= DrawCheckStart + (m + 1) * Lull
  BY <1>1 DEF DrawInv, CapturesBuyTime, Idle
<1>7. /\ clock \in Nat /\ tickAt = clock /\ lastCapture \in Nat /\ DrawCheckStart \in Nat
  BY <1>1, DrawAssumption DEF TypeOK, TimesOK, Timely, Idle
<1> HIDE DEF m, n
<1>8. /\ m * Lull \in Nat /\ n * Lull \in Nat /\ (m + 1) * Lull \in Nat /\ (n + 1) * Lull \in Nat
      /\ m * Lull <= n * Lull /\ (m + 1) * Lull <= (n + 1) * Lull
      /\ m + 1 <= n => (m + 1) * Lull <= n * Lull
  <2>1. m + 1 \in Nat /\ n + 1 \in Nat /\ m + 1 <= n + 1
    BY <1>4, <1>5
  <2>2. QED BY <1>4, <1>5, <2>1, Lulls
<1>9. AllowDraw => /\ lastCapture' <= DrawCheckStart + n * Lull
                   /\ clock' <= DrawCheckStart + (n + 1) * Lull
  BY <1>1, <1>5, <1>6, <1>7, <1>8
<1>10. CapturesBuyTime'
  BY <1>9 DEF CapturesBuyTime, n
<1>11. QED BY <1>1, <1>10 DEF DrawInv, NoDrawDue, Idle

LEMMA DrawFinishTick ==
  ASSUME IInv, DrawInv, FinishTick
  PROVE  DrawInv'
<1>1. UNCHANGED <<clock, tickAt, phase, lastAction, lastCapture>> /\ pc' = "idle"
  BY Zenon DEF FinishTick, timeVars, actionVars
<1>2. \A p \in Pieces : pieces'[p].alive = pieces[p].alive
  BY FinishTickPieces DEF IInv, ListsStayTrue
<1>3. FallenPieces' = FallenPieces
  BY <1>2 DEF FallenPieces
<1>4. CapturesBuyTime'
  BY <1>1, <1>3 DEF DrawInv, CapturesBuyTime, Idle
<1>5. ASSUME AllowDraw, Running', tickAt >= DrawCheckStart
      PROVE  tickAt - lastAction < NoActionDraw /\ tickAt - lastCapture < NoCaptureDraw
  <2>1. Verdict = GoesOn
    BY <1>5, Zenon DEF FinishTick, Running
  <2>2. /\ tickAt \in Nat /\ lastAction \in Nat /\ lastCapture \in Nat
        /\ DrawCheckStart \in Nat /\ NoActionDraw \in Nat /\ NoCaptureDraw \in Nat
    BY DrawAssumption DEF IInv, TypeOK, TimesOK
  <2>3. ~(tickAt < DrawCheckStart)
    BY <1>5, <2>2
  <2>4. ~(tickAt - lastAction >= NoActionDraw) /\ ~(tickAt - lastCapture >= NoCaptureDraw)
    BY <1>5, <2>1, <2>3 DEF Verdict, GoesOn
  <2>5. QED BY <2>2, <2>4
<1>6. QED BY <1>1, <1>4, <1>5 DEF DrawInv, NoDrawDue

LEMMA NotRevived == [Next]_vars /\ Running' => Running
<1>1. TickStep /\ Running' => Running
  <2>1. (TickBegin \/ (\E w \in Waves : AutoUnlock(w)) \/ Contacts) => status' = status
    BY Zenon DEF TickBegin, AutoUnlock, Contacts, outcomeVars
  <2>2. (\E a, b \in Pieces : Duel(a, b)) => status' = status
    BY Zenon DEF Duel, outcomeVars
  <2>3. FinishTick => status' = status \/ status' = "ended"
    BY Zenon DEF FinishTick
  <2>4. QED BY <2>1, <2>2, <2>3 DEF TickStep, Running
<1>2. Command /\ Running' => Running
  BY DEF Command, Move, ChooseUnlock, Resign, Leave, Reconnect, Running, outcomeVars
<1>3. (Elapse \/ UNCHANGED vars) => status' = status
  BY DEF Elapse, vars, outcomeVars
<1>4. QED BY <1>1, <1>2, <1>3 DEF Next, Running

LEMMA PhaseIsNamed == ASSUME NEW t \in Nat PROVE ComputePhase(t).name # "waiting"
<1>1. SealDuration \in Nat /\ SoldierOnlyEnd \in Nat /\ FullUnlockAt \in Nat
  BY ScheduleAssumption
<1>2. QED BY <1>1 DEF ComputePhase

LEMMA DrawStep == IInv /\ IInv' /\ OutcomeInv /\ Timely /\ DrawInv /\ [Next]_vars => DrawInv'
<1> SUFFICES ASSUME IInv, IInv', OutcomeInv, Timely, DrawInv, [Next]_vars PROVE DrawInv'
  OBVIOUS
<1>1. TypeOK /\ TypeOK' /\ clock \in Nat
  BY DEF IInv, TypeOK, TimesOK
<1>2. CASE UNCHANGED <<tickAt, phase, pieces, lastAction, lastCapture, pc>> /\ (Idle \/ clock' = clock)
  <2>1. FallenPieces' = FallenPieces
    BY <1>2 DEF FallenPieces
  <2>2. Running' => Running
    BY NotRevived
  <2>3. QED BY <1>2, <2>1, <2>2 DEF DrawInv, NoDrawDue, CapturesBuyTime, Idle
<1>3. CASE Elapse
  BY <1>2, <1>3 DEF Elapse, actionVars, tickVars
<1>4. CASE TickBegin
  <2>1. /\ Idle /\ Running /\ pc' = "unlock" /\ phase' = ComputePhase(clock)
        /\ UNCHANGED <<clock, pieces, lastCapture>>
    BY <1>4 DEF TickBegin, actionVars
  <2>2. FallenPieces' = FallenPieces
    BY <2>1 DEF FallenPieces
  <2>3. CapturesBuyTime'
    BY <1>1, <2>1, <2>2, TimeBought DEF DrawInv, CapturesBuyTime
  <2>4. phase'.name # "waiting"
    BY <1>1, <2>1, PhaseIsNamed
  <2>5. QED BY <2>1, <2>3, <2>4 DEF DrawInv, NoDrawDue, Idle
<1>5. CASE \E w \in Waves : AutoUnlock(w)
  <2>1. UNCHANGED <<clock, tickAt, phase, pieces, lastAction, lastCapture, pc>>
    BY <1>5, Zenon DEF AutoUnlock, timeVars, actionVars, tickVars
  <2>2. QED BY <1>2, <2>1
<1>6. CASE Contacts \/ \E a, b \in Pieces : Duel(a, b)
  BY <1>1, <1>6, DrawFall
<1>7. CASE FinishTick
  BY <1>7, DrawFinishTick
<1>8. ASSUME NEW p \in Pieces, NEW b \in Cells, Move(p, b) PROVE DrawInv'
  <2>1. /\ UNCHANGED <<clock, tickAt, phase, pc, lastCapture>> /\ lastAction' = clock
        /\ \A q \in Pieces : pieces'[q].alive = pieces[q].alive
    BY <1>1, <1>8, OnlyMoverMoves
  <2>2. FallenPieces' = FallenPieces
    BY <2>1 DEF FallenPieces
  <2>3. tickAt - lastAction < NoActionDraw => tickAt - clock < NoActionDraw
    BY DrawAssumption DEF IInv, TypeOK, TimesOK
  <2>4. Running' => Running
    BY NotRevived
  <2>5. QED BY <2>1, <2>2, <2>3, <2>4 DEF DrawInv, NoDrawDue, CapturesBuyTime, Idle
<1>9. QED BY <1>2, <1>3, <1>4, <1>5, <1>6, <1>7, <1>8, StepCases

\* With allow_draw on, a match of n pieces is not running any more n - 1 lulls after
\* draws may be declared: every capture buys one lull at most, and while the match
\* runs both generals live.  The draw clocks of check_draw_conditions leave no
\* endless match, whatever is commanded and however the ticks fall.
THEOREM MatchesAreBounded ==
  Spec => [](AllowDraw /\ Idle /\ Running =>
               clock <= DrawCheckStart + (Len(InitialBoard) - 1) * Lull)
<1>1. Init => DrawInv
  <2> SUFFICES ASSUME Init PROVE DrawInv
    OBVIOUS
  <2>1. DrawCheckStart \in Nat /\ Cardinality(FallenPieces) * Lull \in Nat
    BY DrawAssumption, FallenFinite, Lulls
  <2>2. /\ lastCapture = 0 /\ Idle /\ phase.name = "waiting" /\ tickAt = 0
    BY DEF Init, Idle
  <2>3. QED BY <2>1, <2>2 DEF DrawInv, NoDrawDue, CapturesBuyTime
<1>2. IInv /\ IInv' /\ OutcomeInv /\ Timely /\ DrawInv /\ [Next]_vars => DrawInv'
  BY DrawStep
<1>3. IInv /\ OutcomeInv /\ Timely /\ DrawInv =>
        (AllowDraw /\ Idle /\ Running =>
           clock <= DrawCheckStart + (Len(InitialBoard) - 1) * Lull)
  <2> SUFFICES ASSUME IInv, OutcomeInv, Timely, DrawInv, AllowDraw, Idle, Running
               PROVE  clock <= DrawCheckStart + (Len(InitialBoard) - 1) * Lull
    OBVIOUS
  <2> DEFINE n == Cardinality(FallenPieces)
             k == Len(InitialBoard)
  <2>1. clock <= DrawCheckStart + (n + 1) * Lull /\ clock \in Nat
    BY TimeBought DEF IInv, TypeOK, TimesOK
  <2>2. LivingSides = Players
    BY DEF OutcomeInv, OutcomeJustified, Running, GoesOn
  <2>3. PICK g \in Generals, h \in Generals :
          pieces[g].alive /\ pieces[h].alive /\ Owner(g) = 1 /\ Owner(h) = 2
    BY <2>2 DEF LivingSides, Players
  <2>4. FallenPieces \in SUBSET ((Pieces \ {g}) \ {h}) /\ g # h /\ g \in Pieces /\ h \in Pieces
    BY <2>3 DEF FallenPieces, Generals
  <2>5. IsFiniteSet(Pieces \ {g}) /\ Cardinality(Pieces \ {g}) = k - 1
    BY <2>4, PiecesFinite, FS_RemoveElement
  <2>6. n < Cardinality(Pieces \ {g})
    BY <2>4, <2>5, SmallerByOne
  <2>7. n \in Nat /\ k \in Nat
    BY FallenFinite, BoardAssumption
  <2> HIDE DEF n, k
  <2>8. n + 1 \in Nat /\ k - 1 \in Nat /\ n + 1 <= k - 1
    BY <2>5, <2>6, <2>7
  <2>9. /\ (n + 1) * Lull <= (k - 1) * Lull /\ (n + 1) * Lull \in Nat /\ (k - 1) * Lull \in Nat
        /\ DrawCheckStart \in Nat
    BY <2>8, Lulls, DrawAssumption
  <2>10. QED BY <2>1, <2>9 DEF k
<1>4. QED BY <1>1, <1>2, <1>3, Invariance, OutcomeInvariance, TicksAreTimely, PTL DEF Spec

-----------------------------------------------------------------------------
(* Every wave pays *)

\* A wave offers more kinds, besides the soldier, than other waves can have opened by
\* the last tick that may settle it.  With the default table and windows it holds as
\* long as ticks are at most 40 s apart.
EnoughToOffer ==
  \A w \in Waves :
    Cardinality(WaveOptions(w) \ {"soldier"})
      > Cardinality({v \in Waves \ {w} : WaveOpen[v] < WaveEnd(w) + MaxLag})

\* A wave is settled by the first tick that finds it expired.
SettledInTime ==
  \A o \in Players, w \in Waves :
    pc = "unlock" /\ choice[o][w] = NoKind /\ tickAt < FullUnlockAt
      => tickAt < WaveEnd(w) + MaxLag

PayInv == UnlocksAccounted /\ WaveInv /\ Timely /\ SettledInTime /\ EveryWavePays

LEMMA KindsFinite == ASSUME NEW S \in SUBSET Kinds PROVE IsFiniteSet(S)
<1>1. IsFiniteSet({} \cup {"soldier"})
  BY FS_EmptySet, FS_AddElement
<1>2. IsFiniteSet({"soldier"} \cup {"advisor"})
  BY <1>1, FS_AddElement
<1>3. IsFiniteSet({"soldier", "advisor"} \cup {"elephant"})
  BY <1>2, FS_AddElement
<1>4. IsFiniteSet({"soldier", "advisor", "elephant"} \cup {"horse"})
  BY <1>3, FS_AddElement
<1>5. IsFiniteSet({"soldier", "advisor", "elephant", "horse"} \cup {"cannon"})
  BY <1>4, FS_AddElement
<1>6. IsFiniteSet({"soldier", "advisor", "elephant", "horse", "cannon"} \cup {"chariot"})
  BY <1>5, FS_AddElement
<1>7. IsFiniteSet({"soldier", "advisor", "elephant", "horse", "cannon", "chariot"} \cup {"general"})
  BY <1>6, FS_AddElement
<1>8. Kinds = {"soldier", "advisor", "elephant", "horse", "cannon", "chariot"} \cup {"general"}
  BY DEF Kinds
<1>9. QED BY <1>7, <1>8, FS_Subset

\* A player for whom a wave has no choice yet, while it may still be settled, lacks a
\* kind that it offers.
LEMMA SomethingToOffer ==
  ASSUME EnoughToOffer, TypeOK, PayInv, NEW o \in Players, NEW w \in Waves,
         choice[o][w] = NoKind, tickAt < FullUnlockAt, clock < WaveEnd(w) + MaxLag
  PROVE  WaveOptions(w) \ (unlocked[o] \cup {"soldier"}) # {}
<1> DEFINE opened  == {v \in Waves \ {w} : WaveOpen[v] < WaveEnd(w) + MaxLag}
           offers  == WaveOptions(w) \ {"soldier"}
           spent   == {v \in Waves : choice[o][v] # NoKind}
           others  == unlocked[o] \ {"soldier"}
<1>1. /\ IsFiniteSet(opened) /\ IsFiniteSet(spent) /\ IsFiniteSet(offers) /\ IsFiniteSet(others)
      /\ IsFiniteSet(unlocked[o])
  <2>1. opened \in SUBSET Waves /\ spent \in SUBSET Waves
    OBVIOUS
  <2>2. unlocked[o] \in SUBSET Kinds /\ offers \in SUBSET Kinds /\ others \in SUBSET Kinds
    BY WaveOptionsType DEF TypeOK, UnlocksOK
  <2> HIDE DEF opened, offers, spent, others
  <2>3. QED BY <2>1, <2>2, WavesFinite, KindsFinite, FS_Subset
<1>2. spent \subseteq opened
  <2> SUFFICES ASSUME NEW v \in Waves, choice[o][v] # NoKind PROVE v \in opened
    OBVIOUS
  <2>1. WaveOpen[v] <= clock /\ v # w
    BY DEF PayInv, WaveInv, OnRecord
  <2>2. WaveOpen[v] \in Nat /\ clock \in Nat /\ WaveEnd(w) + MaxLag \in Nat
    BY ScheduleAssumption, InputAssumption DEF TypeOK, TimesOK, WaveEnd
  <2>3. QED BY <2>1, <2>2
<1>3. Cardinality(others) = Cardinality(spent)
  <2>1. Cardinality(unlocked[o]) = 1 + Cardinality(spent)
    BY DEF PayInv, EveryWavePays
  <2>2. "soldier" \in unlocked[o]
    BY DEF PayInv, UnlocksAccounted, Kinds
  <2>3. Cardinality(others) = Cardinality(unlocked[o]) - 1
    BY <1>1, <2>2, FS_RemoveElement
  <2>4. Cardinality(spent) \in Nat
    BY <1>1, FS_CardinalityType
  <2>5. QED BY <2>1, <2>3, <2>4
<1>4. Cardinality(spent) <= Cardinality(opened)
  BY <1>1, <1>2, FS_Subset
<1>5. Cardinality(opened) < Cardinality(offers)
  BY DEF EnoughToOffer
<1>6. ~(offers \subseteq others)
  <2>1. offers \subseteq others => Cardinality(offers) <= Cardinality(others)
    BY <1>1, FS_Subset
  <2>2. /\ Cardinality(offers) \in Nat /\ Cardinality(others) \in Nat
        /\ Cardinality(opened) \in Nat
    BY <1>1, FS_CardinalityType
  <2> HIDE DEF offers, others, opened, spent
  <2>3. QED BY <1>3, <1>4, <1>5, <2>1, <2>2
<1>7. QED BY <1>6

\* A wave that gives a player a kind it lacks pays.
LEMMA GiftPays ==
  ASSUME TypeOK, EveryWavePays, tickAt < FullUnlockAt, NEW o \in Players, NEW w \in Waves,
         NEW kind \in Kinds, kind \notin unlocked[o], choice[o][w] = NoKind,
         unlocked'[o] = unlocked[o] \cup {kind}, choice'[o] = [choice[o] EXCEPT ![w] = kind]
  PROVE  Cardinality(unlocked'[o]) = 1 + Cardinality({v \in Waves : choice'[o][v] # NoKind})
<1> DEFINE spent == {v \in Waves : choice[o][v] # NoKind}
<1>1. choice[o] \in [Waves -> Kinds \cup {NoKind}] /\ unlocked[o] \in SUBSET Kinds
  BY DEF TypeOK, UnlocksOK
<1>2. \A v \in Waves : choice'[o][v] = IF v = w THEN kind ELSE choice[o][v]
  BY <1>1
<1>3. {v \in Waves : choice'[o][v] # NoKind} = spent \cup {w} /\ w \notin spent
  BY <1>2, KindIsNoMark
<1>4. IsFiniteSet(spent) /\ IsFiniteSet(unlocked[o])
  <2>1. spent \in SUBSET Waves
    OBVIOUS
  <2> HIDE DEF spent
  <2>2. QED BY <1>1, <2>1, WavesFinite, KindsFinite, FS_Subset
<1>5. Cardinality(unlocked[o] \cup {kind}) = Cardinality(unlocked[o]) + 1
  BY <1>4, FS_AddElement
<1>6. Cardinality(spent \cup {w}) = Cardinality(spent) + 1
  BY <1>3, <1>4, FS_AddElement
<1>7. Cardinality(unlocked[o]) = 1 + Cardinality(spent)
  BY DEF EveryWavePays
<1>8. Cardinality(spent) \in Nat
  BY <1>4, FS_CardinalityType
<1> HIDE DEF spent
<1>9. Cardinality(unlocked[o] \cup {kind}) = 1 + Cardinality(spent \cup {w})
  BY <1>5, <1>6, <1>7, <1>8
<1>10. QED BY <1>3, <1>9, Zenon

LEMMA PaysAutoUnlock ==
  ASSUME EnoughToOffer, TypeOK, PayInv, NEW w \in Waves, AutoUnlock(w)
  PROVE  EveryWavePays' /\ SettledInTime'
<1>1. /\ pc = "unlock" /\ tickAt < FullUnlockAt /\ tickAt' = tickAt /\ clock = tickAt
  BY DEF AutoUnlock, DueWaves, PayInv, Timely, Idle, timeVars
<1>2. choice \in [Players -> [Waves -> Kinds \cup {NoKind}]] /\ unlocked \in [Players -> SUBSET Kinds]
  BY DEF TypeOK, UnlocksOK
<1>3. ASSUME NEW o \in Players
      PROVE  /\ Cardinality(unlocked'[o]) = 1 + Cardinality({v \in Waves : choice'[o][v] # NoKind})
             /\ \A v \in Waves : choice'[o][v] = NoKind => choice[o][v] = NoKind
  <2>1. CASE Unsettled(o, w)
    <3> DEFINE pick == AutoPick(w, unlocked[o])
    <3>1. choice[o][w] = NoKind
      BY <2>1 DEF Unsettled
    <3>2. WaveOptions(w) \ (unlocked[o] \cup {"soldier"}) # {}
      BY <1>1, <3>1, SomethingToOffer DEF PayInv, SettledInTime
    <3>3. pick \in Kinds /\ pick \notin unlocked[o]
      BY <1>2, <3>2, AutoPickIsNew, WaveOptionsType
    <3>4. unlocked'[o] = unlocked[o] \cup {pick} /\ choice'[o] = [choice[o] EXCEPT ![w] = pick]
      BY <2>1 DEF AutoUnlock
    <3> HIDE DEF pick
    <3>5. \A v \in Waves : choice'[o][v] = IF v = w THEN pick ELSE choice[o][v]
      BY <1>2, <3>4
    <3>6. QED BY <1>1, <3>1, <3>3, <3>4, <3>5, GiftPays DEF PayInv
  <2>2. CASE ~Unsettled(o, w)
    <3>1. choice'[o] = choice[o] /\ unlocked'[o] = unlocked[o]
      BY <2>2 DEF AutoUnlock
    <3>2. QED BY <1>1, <3>1 DEF PayInv, EveryWavePays
  <2>3. QED BY <2>1, <2>2
<1>4. QED BY <1>1, <1>3 DEF PayInv, EveryWavePays, SettledInTime

LEMMA PaysChooseUnlock ==
  ASSUME TypeOK, PayInv, NEW o \in Players, NEW kind \in Kinds, ChooseUnlock(o, kind)
  PROVE  EveryWavePays' /\ SettledInTime'
<1>1. PICK w \in Waves : /\ choice[o][w] = NoKind
                         /\ choice' = [choice EXCEPT ![o][w] = kind]
                         /\ unlocked' = [unlocked EXCEPT ![o] = @ \cup {kind}]
  BY ChooseUnlockRecords
<1>2. choice \in [Players -> [Waves -> Kinds \cup {NoKind}]] /\ unlocked \in [Players -> SUBSET Kinds]
  BY DEF TypeOK, UnlocksOK
<1>3. tickAt' = tickAt /\ pc' = "idle" /\ kind \notin unlocked[o]
  BY DEF ChooseUnlock, MayCommand, MayChoose, Idle, timeVars, tickVars
<1>4. choice'[o] = [choice[o] EXCEPT ![w] = kind] /\ unlocked'[o] = unlocked[o] \cup {kind}
  BY <1>1, <1>2
<1>5. ASSUME NEW u \in Players, u # o PROVE unlocked'[u] = unlocked[u] /\ choice'[u] = choice[u]
  BY <1>1, <1>2, <1>5
<1>6. tickAt < FullUnlockAt =>
        Cardinality(unlocked'[o]) = 1 + Cardinality({v \in Waves : choice'[o][v] # NoKind})
  BY <1>1, <1>3, <1>4, GiftPays DEF PayInv
<1>7. EveryWavePays'
  <2> SUFFICES ASSUME NEW u \in Players, tickAt < FullUnlockAt
               PROVE  Cardinality(unlocked'[u]) = 1 + Cardinality({v \in Waves : choice'[u][v] # NoKind})
    BY <1>3 DEF EveryWavePays
  <2>1. CASE u = o
    BY <1>6, <2>1
  <2>2. CASE u # o
    BY <1>5, <2>2 DEF PayInv, EveryWavePays
  <2>3. QED BY <2>1, <2>2
<1>8. SettledInTime'
  BY <1>3 DEF SettledInTime
<1>9. QED BY <1>7, <1>8

LEMMA PaysTickBegin == TypeOK /\ PayInv /\ TickBegin => EveryWavePays' /\ SettledInTime'
<1> SUFFICES ASSUME TypeOK, PayInv, TickBegin PROVE EveryWavePays' /\ SettledInTime'
  OBVIOUS
<1>1. /\ clock \in Nat /\ tickAt \in Nat /\ tickAt <= clock /\ clock <= tickAt + MaxLag
      /\ MaxLag \in Nat /\ FullUnlockAt \in Nat
      /\ tickAt' = clock /\ choice' = choice /\ pc = "idle"
  BY InputAssumption, ScheduleAssumption DEF TypeOK, TimesOK, PayInv, Timely, TickBegin, Idle
<1>2. CASE clock >= FullUnlockAt
  BY <1>1, <1>2 DEF EveryWavePays, SettledInTime
<1>3. CASE ~(clock >= FullUnlockAt)
  <2>1. unlocked' = unlocked /\ tickAt < FullUnlockAt
    BY <1>1, <1>3 DEF TickBegin
  <2>2. EveryWavePays'
    BY <1>1, <2>1 DEF PayInv, EveryWavePays
  <2>3. ASSUME NEW o \in Players, NEW w \in Waves, choice[o][w] = NoKind
        PROVE  clock < WaveEnd(w) + MaxLag
    <3>1. ~IsWaveTimeout(tickAt, w)
      BY <1>1, <2>1, <2>3 DEF PayInv, WaveInv
    <3>2. tickAt < WaveEnd(w) /\ WaveEnd(w) \in Nat
      BY <1>1, <3>1, ScheduleAssumption DEF IsWaveTimeout, WaveEnd
    <3>3. QED BY <1>1, <3>2
  <2>4. QED BY <1>1, <2>2, <2>3 DEF SettledInTime
<1>4. QED BY <1>2, <1>3

LEMMA PayStep == EnoughToOffer /\ TypeOK /\ PayInv /\ [Next]_vars => PayInv'
<1> SUFFICES ASSUME EnoughToOffer, TypeOK, PayInv, [Next]_vars PROVE PayInv'
  OBVIOUS
<1>1. UnlocksAccounted' /\ WaveInv' /\ Timely'
  BY AccountedStep, WavesStep, TimelyStep DEF PayInv
<1>2. CASE UNCHANGED <<tickAt, unlocked, choice>> /\ (pc' = pc \/ pc' # "unlock")
  BY <1>1, <1>2 DEF PayInv, EveryWavePays, SettledInTime
<1>3. CASE TickBegin
  BY <1>1, <1>3, PaysTickBegin DEF PayInv
<1>4. CASE \E w \in Waves : AutoUnlock(w)
  BY <1>1, <1>4, PaysAutoUnlock DEF PayInv
<1>5. CASE \E wish \in Wishes : ChooseUnlock(wish[1], wish[2])
  <2>1. PICK wish \in Wishes : ChooseUnlock(wish[1], wish[2])
    BY <1>5
  <2>2. wish[1] \in Players /\ wish[2] \in Kinds
    BY InputAssumption
  <2>3. QED BY <1>1, <2>1, <2>2, PaysChooseUnlock DEF PayInv
<1>6. QED
  <2>1. CASE Contacts \/ (\E a, b \in Pieces : Duel(a, b)) \/ FinishTick
    <3>1. Contacts \/ FinishTick => UNCHANGED <<tickAt, unlocked, choice>> /\ pc' # "unlock"
      BY Zenon DEF Contacts, FinishTick, timeVars, unlockVars
    <3>2. \A a, b \in Pieces : Duel(a, b) => UNCHANGED <<tickAt, unlocked, choice>> /\ pc' = pc
      BY Zenon DEF Duel, timeVars, unlockVars
    <3>3. QED BY <1>2, <2>1, <3>1, <3>2
  <2>2. CASE Command
    BY <1>2, <1>5, <2>2 DEF Command, Move, Resign, Leave, Reconnect, timeVars, unlockVars, tickVars
  <2>3. CASE UNCHANGED vars
    BY <1>2, <2>3 DEF vars, timeVars, unlockVars, tickVars
  <2>4. CASE Elapse
    BY <1>2, <2>4 DEF Elapse, unlockVars, tickVars
  <2>5. QED BY <1>3, <1>4, <2>1, <2>2, <2>3, <2>4 DEF Next, TickStep

LEMMA PayInvariance ==
  ASSUME EnoughToOffer
  PROVE  Spec => []PayInv
<1>1. Init => PayInv
  <2> SUFFICES ASSUME Init PROVE PayInv
    OBVIOUS
  <2>1. UnlocksAccounted
    <3>1. \A o \in Players : unlocked[o] = {"soldier"} /\ {choice[o][w] : w \in Waves} \ {NoKind} = {}
      BY DEF Init
    <3>2. QED BY <3>1 DEF UnlocksAccounted
  <2>2. WaveInv
    BY ScheduleAssumption DEF Init, WaveInv, OnRecord, IsWaveTimeout, WaveEnd
  <2>3. Timely /\ SettledInTime
    BY InputAssumption DEF Init, Timely, Idle, SettledInTime
  <2>4. EveryWavePays
    <3>1. \A o \in Players : unlocked[o] = {"soldier"} /\ {w \in Waves : choice[o][w] # NoKind} = {}
      BY DEF Init
    <3>2. Cardinality({"soldier"}) = 1 + Cardinality({})
      BY FS_EmptySet, FS_Singleton
    <3>3. QED BY <3>1, <3>2 DEF EveryWavePays
  <2>5. QED BY <2>1, <2>2, <2>3, <2>4 DEF PayInv
<1>2. TypeOK /\ PayInv /\ [Next]_vars => PayInv'
  BY PayStep
<1>3. QED BY <1>1, <1>2, TypeCorrect, PTL DEF Spec

\* With enough to offer, every settled wave gives a player one kind more, whatever mix
\* of choices, late ticks and automatic picks came before (choose_unlock and
\* apply_auto_unlock_for_wave).
THEOREM EveryWaveHasPaid ==
  ASSUME EnoughToOffer
  PROVE  Spec => []EveryWavePays
<1>1. PayInv => EveryWavePays
  BY DEF PayInv
<1>2. QED BY <1>1, PayInvariance, PTL

\* With enough to offer and windows that close by the full unlock, a player who is
\* invited to choose has something to choose, and choose_unlock accepts all of it.
THEOREM UnlockOffersKept ==
  ASSUME EnoughToOffer, \A w \in Waves : WaveEnd(w) <= FullUnlockAt
  PROVE  Spec => []UnlockOfferKept
<1>1. TypeOK /\ PayInv => UnlockOfferKept
  <2> SUFFICES ASSUME TypeOK, PayInv, Idle, NEW o \in Players, CanChooseNow(o), Online(o)
               PROVE  /\ AvailableOptions(o) # {}
                      /\ \A kind \in AvailableOptions(o) : MayCommand(o) /\ MayChoose(o, kind, clock)
    BY DEF UnlockOfferKept
  <2> DEFINE w == CurrentWave(clock)
  <2>1. /\ clock \in Nat /\ tickAt \in Nat /\ tickAt <= clock /\ FullUnlockAt \in Nat /\ MaxLag \in Nat
        /\ \A v \in Waves : WaveEnd(v) \in Nat
    BY ScheduleAssumption, InputAssumption DEF TypeOK, TimesOK, WaveEnd
  <2>2. w \in Waves /\ w # NoWave /\ clock < WaveEnd(w) /\ choice[o][w] = NoKind /\ Running
    BY <2>1, CurrentWaveIsOpen DEF CanChooseNow
  <2>3. AvailableOptions(o) = WaveOptions(w) \ unlocked[o]
    BY <2>2 DEF AvailableOptions
  <2>4. \A kind \in AvailableOptions(o) : MayCommand(o) /\ MayChoose(o, kind, clock)
    BY <2>2, <2>3 DEF MayCommand, MayChoose, Online
  <2> HIDE DEF w
  <2>5. tickAt < FullUnlockAt /\ clock < WaveEnd(w) + MaxLag
    <3>1. WaveEnd(w) \in Nat /\ WaveEnd(w) <= FullUnlockAt
      BY <2>1, <2>2
    <3>2. QED BY <2>1, <2>2, <3>1
  <2>6. WaveOptions(w) \ (unlocked[o] \cup {"soldier"}) # {}
    BY <2>2, <2>5, SomethingToOffer
  <2>7. QED BY <2>3, <2>4, <2>6
<1>2. QED BY <1>1, PayInvariance, TypeCorrect, PTL

-----------------------------------------------------------------------------
(* Forecasts *)

\* The windows of the waves follow on each other without gap or overlap from the end
\* of the soldier-only phase to the full unlock, as the default windows do.
Adjacent ==
  /\ WaveOpen[0] = SoldierOnlyEnd
  /\ \A w \in Waves : WaveEnd(w) = IF w + 1 \in Waves THEN WaveOpen[w + 1] ELSE FullUnlockAt

\* Waves in order, and what the order says of their windows.
LEMMA WindowsInOrder ==
  ASSUME Adjacent
  PROVE  /\ Waves \subseteq Nat /\ 0 \in Waves
         /\ \A w \in Waves : /\ WaveOpen[w] \in Nat /\ WaveEnd(w) \in Nat
                             /\ WaveOpen[w] < WaveEnd(w) /\ WaveEnd(w) <= FullUnlockAt
                             /\ SoldierOnlyEnd <= WaveOpen[w]
         /\ \A v, w \in Waves : v < w => WaveEnd(v) <= WaveOpen[w]
<1>1. Waves \subseteq Nat /\ 0 \in Waves
  BY ScheduleAssumption DEF Waves
<1>2. ASSUME NEW w \in Waves
      PROVE  /\ WaveOpen[w] \in Nat /\ WaveEnd(w) \in Nat /\ WaveOpen[w] < WaveEnd(w)
             /\ SoldierOnlyEnd <= WaveOpen[w] /\ WaveOpen[w] < FullUnlockAt
  BY ScheduleAssumption DEF WaveEnd
<1>3. ASSUME NEW w \in Waves PROVE WaveEnd(w) <= FullUnlockAt
  <2>1. CASE w + 1 \in Waves
    <3>1. WaveEnd(w) = WaveOpen[w + 1] /\ WaveOpen[w + 1] < FullUnlockAt
      BY <1>2, <2>1 DEF Adjacent
    <3>2. QED BY <1>2, <2>1, <3>1, ScheduleAssumption
  <2>2. CASE w + 1 \notin Waves
    BY <1>2, <2>2, ScheduleAssumption DEF Adjacent
  <2>3. QED BY <2>1, <2>2
<1>4. ASSUME NEW v \in Waves, NEW w \in Waves, v < w PROVE WaveEnd(v) <= WaveOpen[w]
  <2>1. v + 1 \in Waves /\ v + 1 <= w /\ v + 1 \in Nat /\ w \in Nat
    BY <1>4, ScheduleAssumption DEF Waves
  <2>2. WaveEnd(v) = WaveOpen[v + 1]
    BY <2>1 DEF Adjacent
  <2>3. v + 1 < w => WaveOpen[v + 1] < WaveOpen[w]
    BY <2>1, ScheduleAssumption
  <2>4. CASE v + 1 = w
    BY <1>2, <2>2, <2>4
  <2>5. CASE v + 1 < w
    <3>1. WaveEnd(v) \in Nat /\ WaveOpen[w] \in Nat
      BY <1>2
    <3>2. QED BY <2>2, <2>3, <2>5, <3>1
  <2>6. QED BY <2>1, <2>4, <2>5
<1>5. QED BY <1>1, <1>2, <1>3, <1>4

\* Exactly one wave is open at any instant between the soldier-only phase and the full
\* unlock, and it is the current one.
LEMMA OneWaveOpen ==
  ASSUME Adjacent, NEW t \in Nat, SoldierOnlyEnd <= t, t < FullUnlockAt
  PROVE  /\ CurrentWave(t) \in Waves
         /\ \A w \in Waves : WaveOpen[w] <= t /\ t < WaveEnd(w) => CurrentWave(t) = w
<1> DEFINE opened == {w \in Waves : WaveOpen[w] <= t}
           last == Max(opened)
<1>1. last \in opened /\ \A w \in opened : last >= w
  <2>1. 0 \in opened
    BY WindowsInOrder DEF Adjacent
  <2>2. WaveCount - 1 \in Nat /\ opened \subseteq 0 .. WaveCount - 1 /\ opened # {}
    BY <2>1, ScheduleAssumption DEF Waves
  <2> HIDE DEF opened
  <2>3. QED BY <2>2, MaxOfNaturals
<1>2. t < WaveEnd(last)
  <2>1. CASE last + 1 \in Waves
    <3>1. last + 1 \notin opened
      <4>1. last \in Nat
        BY <1>1, WindowsInOrder
      <4> HIDE DEF last, opened
      <4>2. QED BY <1>1, <4>1
    <3>2. WaveOpen[last + 1] \in Nat /\ ~(WaveOpen[last + 1] <= t)
      BY <2>1, <3>1, WindowsInOrder
    <3>3. WaveEnd(last) = WaveOpen[last + 1]
      BY <1>1, <2>1 DEF Adjacent
    <3> HIDE DEF last
    <3>4. QED BY <3>2, <3>3
  <2>2. CASE last + 1 \notin Waves
    BY <1>1, <2>2 DEF Adjacent
  <2>3. QED BY <2>1, <2>2
<1> HIDE DEF last
<1>3. CurrentWave(t) # NoWave
  <2>1. last \in {w \in Waves : WaveOpen[w] <= t /\ t < WaveEnd(w)}
    BY <1>1, <1>2
  <2>2. Min({w \in Waves : WaveOpen[w] <= t /\ t < WaveEnd(w)})
          \in {w \in Waves : WaveOpen[w] <= t /\ t < WaveEnd(w)}
    BY <2>1, WindowsInOrder, MinOfNaturals
  <2>3. CurrentWave(t) \in Nat
    BY <2>1, <2>2, WindowsInOrder DEF CurrentWave
  <2>4. QED BY <2>3 DEF NoWave
<1>4. /\ CurrentWave(t) \in Waves /\ WaveOpen[CurrentWave(t)] <= t /\ t < WaveEnd(CurrentWave(t))
      /\ \A v \in Waves : WaveOpen[v] <= t /\ t < WaveEnd(v) => CurrentWave(t) <= v
  BY <1>3, CurrentWaveIsOpen
<1>5. ASSUME NEW w \in Waves, WaveOpen[w] <= t, t < WaveEnd(w) PROVE CurrentWave(t) = w
  <2>1. CurrentWave(t) <= w /\ CurrentWave(t) \in Nat /\ w \in Nat
    BY <1>4, <1>5, WindowsInOrder
  <2>2. ~(CurrentWave(t) < w)
    <3>1. CurrentWave(t) < w => WaveEnd(CurrentWave(t)) <= WaveOpen[w]
      BY <1>4, WindowsInOrder
    <3>2. WaveEnd(CurrentWave(t)) \in Nat /\ WaveOpen[w] \in Nat
      BY <1>4, WindowsInOrder
    <3>3. QED BY <1>4, <1>5, <3>1, <3>2
  <2>3. QED BY <2>1, <2>2
<1>6. QED BY <1>4, <1>5

\* The phase of every instant; there is no midgame.
LEMMA PhaseAt ==
  ASSUME Adjacent, NEW t \in Nat
  PROVE  ComputePhase(t) =
           IF t < SealDuration THEN [name |-> "sealed", deadline |-> SealDuration, wave |-> NoWave]
           ELSE IF t < SoldierOnlyEnd
           THEN [name |-> "soldier_only", deadline |-> SoldierOnlyEnd, wave |-> NoWave]
           ELSE IF t < FullUnlockAt
           THEN [name |-> "unlock_wave", deadline |-> WaveEnd(CurrentWave(t)), wave |-> CurrentWave(t)]
           ELSE [name |-> "fully_unlocked", deadline |-> NoDeadline, wave |-> WaveCount - 1]
<1>1. /\ SealDuration \in Nat /\ SoldierOnlyEnd \in Nat /\ FullUnlockAt \in Nat
      /\ SealDuration <= SoldierOnlyEnd /\ SoldierOnlyEnd < FullUnlockAt
  BY ScheduleAssumption
<1>2. SoldierOnlyEnd <= t /\ t < FullUnlockAt => CurrentWave(t) # NoWave
  <2>1. \A w \in Waves : w # NoWave
    BY WindowsInOrder DEF NoWave
  <2>2. QED BY <2>1, OneWaveOpen
<1>3. QED BY <1>1, <1>2 DEF ComputePhase

\* The waves that have not opened by t.
Ahead(t) == {w \in Waves : WaveOpen[w] > t}

LEMMA FirstAhead ==
  ASSUME Adjacent, NEW t \in Nat, NEW w \in Waves, w \in Ahead(t),
         \A v \in Ahead(t) : w <= v
  PROVE  Ahead(t) # {} /\ Min(Ahead(t)) = w
<1>1. Ahead(t) \subseteq Nat
  BY WindowsInOrder DEF Ahead
<1>2. Min(Ahead(t)) \in Ahead(t) /\ Min(Ahead(t)) <= w
  BY <1>1, MinOfNaturals
<1>3. w <= Min(Ahead(t)) /\ w \in Nat /\ Min(Ahead(t)) \in Nat
  BY <1>1, <1>2
<1>4. QED BY <1>2, <1>3

\* While wave w is open, the waves ahead are those after it.
LEMMA AheadOfOpen ==
  ASSUME Adjacent, NEW t \in Nat, NEW w \in Waves, WaveOpen[w] <= t, t < WaveEnd(w)
  PROVE  Ahead(t) = {v \in Waves : w < v}
<1>1. ASSUME NEW v \in Waves PROVE WaveOpen[v] > t <=> w < v
  <2>1. v \in Nat /\ w \in Nat /\ WaveOpen[v] \in Nat /\ WaveOpen[w] \in Nat /\ WaveEnd(w) \in Nat
    BY WindowsInOrder
  <2>2. CASE w < v
    <3>1. WaveEnd(w) <= WaveOpen[v]
      BY <2>2, WindowsInOrder
    <3>2. QED BY <2>1, <2>2, <3>1
  <2>3. CASE v <= w
    <3>1. WaveOpen[v] <= WaveOpen[w]
      BY <2>1, <2>3, ScheduleAssumption
    <3>2. QED BY <2>1, <2>3, <3>1
  <2>4. QED BY <2>1, <2>2, <2>3
<1>2. QED BY <1>1 DEF Ahead

LEMMA NextWaveIsAhead ==
  ASSUME Adjacent, NEW t \in Nat, t >= SealDuration
  PROVE  NextWave(t) = IF Ahead(t) = {} THEN NoWave ELSE Min(Ahead(t))
<1>1. /\ SealDuration \in Nat /\ SoldierOnlyEnd \in Nat /\ FullUnlockAt \in Nat
      /\ SealDuration <= SoldierOnlyEnd /\ SoldierOnlyEnd < FullUnlockAt
      /\ Waves = 0 .. WaveCount - 1 /\ WaveCount \in Nat
  BY ScheduleAssumption DEF Waves
<1>2. CASE t < SoldierOnlyEnd
  <2>1. ComputePhase(t).name = "soldier_only"
    BY <1>1, <1>2, PhaseAt
  <2>2. NextWave(t) = 0
    BY <2>1 DEF NextWave
  <2>3. \A w \in Waves : WaveOpen[w] > t /\ 0 <= w
    BY <1>1, <1>2, WindowsInOrder
  <2>4. 0 \in Ahead(t) /\ \A v \in Ahead(t) : 0 <= v
    BY <2>3, WindowsInOrder DEF Ahead
  <2>5. QED BY <2>2, <2>4, FirstAhead, WindowsInOrder
<1>3. CASE SoldierOnlyEnd <= t /\ t < FullUnlockAt
  <2> DEFINE w == CurrentWave(t)
  <2>1. ComputePhase(t).name = "unlock_wave" /\ ComputePhase(t).wave = w
    BY <1>1, <1>3, PhaseAt
  <2>2. NextWave(t) = IF w + 1 < WaveCount THEN w + 1 ELSE NoWave
    BY <2>1 DEF NextWave
  <2>3. w \in Waves /\ WaveOpen[w] <= t /\ t < WaveEnd(w)
    <3>1. w \in Waves /\ w # NoWave
      BY <1>3, OneWaveOpen, WindowsInOrder DEF NoWave
    <3>2. QED BY <3>1, CurrentWaveIsOpen
  <2> HIDE DEF w
  <2>4. Ahead(t) = {v \in Waves : w < v}
    BY <2>3, AheadOfOpen
  <2>5. CASE w + 1 < WaveCount
    <3>1. w + 1 \in Waves /\ w + 1 \in Ahead(t) /\ \A v \in Ahead(t) : w + 1 <= v
      BY <1>1, <2>3, <2>4, <2>5
    <3>2. QED BY <2>2, <2>5, <3>1, FirstAhead
  <2>6. CASE ~(w + 1 < WaveCount)
    <3>1. Ahead(t) = {}
      BY <1>1, <2>3, <2>4, <2>6
    <3>2. QED BY <2>2, <2>6, <3>1
  <2>7. QED BY <2>5, <2>6
<1>4. CASE FullUnlockAt <= t
  <2>1. ComputePhase(t).name = "fully_unlocked"
    BY <1>1, <1>4, PhaseAt
  <2>2. NextWave(t) = NoWave
    BY <2>1 DEF NextWave
  <2>3. Ahead(t) = {}
    BY <1>1, <1>4, ScheduleAssumption DEF Ahead
  <2>4. QED BY <2>2, <2>3
<1>5. QED BY <1>1, <1>2, <1>3, <1>4

\* The phase shown at t lasts until its deadline and not beyond, and the next one is
\* announced for that instant.
LEMMA PhaseLasts ==
  ASSUME Adjacent, NEW t \in Nat, ComputePhase(t).deadline # NoDeadline
  PROVE  LET now == ComputePhase(t)
         IN  /\ \A u \in t .. now.deadline - 1 : ComputePhase(u) = now
             /\ ComputePhase(now.deadline) # now
             /\ NextPhaseStart(t) = now.deadline
<1>1. /\ SealDuration \in Nat /\ SoldierOnlyEnd \in Nat /\ FullUnlockAt \in Nat
      /\ SealDuration <= SoldierOnlyEnd /\ SoldierOnlyEnd < FullUnlockAt
      /\ Waves = 0 .. WaveCount - 1 /\ WaveCount \in Nat
  BY ScheduleAssumption DEF Waves
<1>2. CASE t < SealDuration
  <2>1. \A u \in 0 .. SealDuration - 1 :
          ComputePhase(u) = [name |-> "sealed", deadline |-> SealDuration, wave |-> NoWave]
    BY <1>1, PhaseAt
  <2>2. ComputePhase(SealDuration).name # "sealed"
    BY <1>1, PhaseAt
  <2>3. NextPhaseStart(t) = SealDuration
    BY <1>1, <1>2, <2>1 DEF NextPhaseStart
  <2>4. t \in 0 .. SealDuration - 1 /\ t .. SealDuration - 1 \subseteq 0 .. SealDuration - 1
    BY <1>1, <1>2
  <2>5. QED BY <2>1, <2>2, <2>3, <2>4
<1>3. CASE SealDuration <= t /\ t < SoldierOnlyEnd
  <2>1. \A u \in SealDuration .. SoldierOnlyEnd - 1 :
          ComputePhase(u) = [name |-> "soldier_only", deadline |-> SoldierOnlyEnd, wave |-> NoWave]
    BY <1>1, PhaseAt
  <2>2. ComputePhase(SoldierOnlyEnd).name # "soldier_only"
    BY <1>1, PhaseAt
  <2>3. t \in SealDuration .. SoldierOnlyEnd - 1
        /\ t .. SoldierOnlyEnd - 1 \subseteq SealDuration .. SoldierOnlyEnd - 1
    BY <1>1, <1>3
  <2>4. NextPhaseStart(t) = SoldierOnlyEnd
    BY <2>1, <2>3 DEF NextPhaseStart, Adjacent
  <2>5. QED BY <2>1, <2>2, <2>3, <2>4
<1>4. CASE SoldierOnlyEnd <= t /\ t < FullUnlockAt
  <2> DEFINE w == CurrentWave(t)
  <2>1. w \in Waves /\ WaveOpen[w] <= t /\ t < WaveEnd(w)
    <3>1. w \in Waves /\ w # NoWave
      BY <1>4, OneWaveOpen, WindowsInOrder DEF NoWave
    <3>2. QED BY <3>1, CurrentWaveIsOpen
  <2>2. ComputePhase(t) = [name |-> "unlock_wave", deadline |-> WaveEnd(w), wave |-> w]
    BY <1>1, <1>4, PhaseAt
  <2> HIDE DEF w
  <2>3. /\ WaveOpen[w] \in Nat /\ WaveEnd(w) \in Nat /\ WaveEnd(w) <= FullUnlockAt
        /\ SoldierOnlyEnd <= WaveOpen[w] /\ w \in Nat
    BY <2>1, WindowsInOrder
  <2>4. \A u \in t .. WaveEnd(w) - 1 :
          ComputePhase(u) = [name |-> "unlock_wave", deadline |-> WaveEnd(w), wave |-> w]
    <3> TAKE u \in t .. WaveEnd(w) - 1
    <3>1. u \in Nat /\ t <= u /\ u < WaveEnd(w) /\ SoldierOnlyEnd <= u /\ u < FullUnlockAt
          /\ WaveOpen[w] <= u
      <4>1. u \in Nat /\ t <= u /\ u < WaveEnd(w)
        BY <2>3
      <4>2. SoldierOnlyEnd \in Nat /\ FullUnlockAt \in Nat
        BY <1>1
      <4>3. QED BY <1>4, <2>1, <2>3, <4>1, <4>2
    <3>2. CurrentWave(u) = w
      BY <2>1, <3>1, OneWaveOpen
    <3>3. QED BY <1>1, <3>1, <3>2, PhaseAt
  <2>5. ComputePhase(WaveEnd(w)) # [name |-> "unlock_wave", deadline |-> WaveEnd(w), wave |-> w]
    <3>1. ComputePhase(WaveEnd(w)).deadline # WaveEnd(w)
      <4>1. ComputePhase(WaveEnd(w)).deadline # NoDeadline
              => WaveEnd(w) < ComputePhase(WaveEnd(w)).deadline
        BY <2>3, PhaseDeadlineAhead
      <4>2. QED BY <2>3, <4>1 DEF NoDeadline
    <3>2. QED BY <3>1
  <2>6. NextPhaseStart(t) = WaveEnd(w)
    <3>1. CASE w + 1 < WaveCount
      BY <2>2, <3>1 DEF NextPhaseStart
    <3>2. CASE ~(w + 1 < WaveCount)
      <4>1. w + 1 \notin Waves
        BY <1>1, <3>2
      <4>2. WaveEnd(w) = FullUnlockAt
        BY <2>1, <4>1 DEF Adjacent
      <4>3. QED BY <2>2, <3>2, <4>2 DEF NextPhaseStart
    <3>3. QED BY <3>1, <3>2
  <2>7. QED BY <2>2, <2>4, <2>5, <2>6
<1>5. CASE FullUnlockAt <= t
  <2>1. ComputePhase(t).deadline = NoDeadline
    BY <1>1, <1>5, PhaseAt
  <2>2. QED BY <2>1
<1>6. QED BY <1>1, <1>2, <1>3, <1>4, <1>5

\* With adjacent windows the phase view tells the truth at every instant of every
\* match: countdowns come true, and the wave announced is the first that has not
\* opened (build_phase_snapshot).
THEOREM ForecastsComeTrue ==
  ASSUME Adjacent
  PROVE  Spec => []ForecastHolds
<1>1. TypeOK => ForecastHolds
  <2> SUFFICES ASSUME TypeOK PROVE ForecastHolds
    OBVIOUS
  <2>1. clock \in Nat
    BY DEF TypeOK, TimesOK
  <2>2. ComputePhase(clock).name # "sealed" => clock >= SealDuration
    BY <2>1, PhaseAt, ScheduleAssumption
  <2>3. ComputePhase(clock).name # "sealed" =>
          NextWave(clock) = IF Ahead(clock) = {} THEN NoWave ELSE Min(Ahead(clock))
    BY <2>1, <2>2, NextWaveIsAhead
  <2>4. QED BY <2>1, <2>3, PhaseLasts DEF ForecastHolds, Ahead
<1>2. QED BY <1>1, TypeCorrect, PTL DEF Spec
=============================================================================
