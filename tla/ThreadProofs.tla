---------------------------- MODULE ThreadProofs ----------------------------
(***************************************************************************)
(* What holds of a running match however many requests run on threads of   *)
(* their own, and wherever their steps fall between those of a tick.       *)
(***************************************************************************)
EXTENDS MatchThreads, OutcomeProofs

Steps == {"free", "move", "start", "unlock", "add", "record", "resign", "status", "winner",
          "reason", "done"}

Reasons == {GoesOn, "both generals dead", "general captured", "no legal action", "no capture",
            "resign"}

Jobs ==
  [step : Steps, at : Nat, aim : (Pieces \X Cells) \cup {<<0, <<0, 0>>>>}, path : Seq(Cells),
   wish : (Players \X Kinds) \cup {<<NoPlayer, NoKind>>},
   result : (Players \cup {NoPlayer}) \X Reasons]

\* What a worker relies on from one of its steps to the next, whatever the others do.
JobFits(j) ==
  /\ j.at <= clock
  /\ j.step \in {"move", "start"} => j.aim \in Pieces \X Cells
  /\ j.step = "start" => j.path # << >>
  /\ j.step \in {"unlock", "add", "record"} => j.wish \in Players \X Kinds
  /\ j.step \in {"add", "record"} => CurrentWave(j.at) \in Waves
  /\ j.step = "record" => j.wish[2] \in unlocked[j.wish[1]]

\* The tick is within finish_match only at its end.
TickerFits ==
  /\ job[Ticker].step \in {"free", "status", "winner", "reason"}
  /\ ~Is(Ticker, "free") => pc = "duels"

JobsOK ==
  /\ job \in [Workers -> Jobs]
  /\ \A x \in Workers : JobFits(job[x])
  /\ TickerFits

\* Until the end of the tick, who has arrived and lives is still on its way.
ArrivedMove ==
  pc = "duels" /\ Is(Ticker, "free") => \A p \in arrived : pieces[p].alive => pieces[p].moving

\* The inductive invariant.
ThreadInv == TypeOK /\ JobsOK /\ ArrivedMove /\ ChoiceIsHeld

\* The clock goes on and unlocks are never taken back.
Grows ==
  /\ clock \in Nat /\ clock' \in Nat /\ clock <= clock'
  /\ \A o \in Players : unlocked[o] \subseteq unlocked'[o]

-----------------------------------------------------------------------------
(* Jobs *)

LEMMA FreeJob == Free \in Jobs /\ [Free EXCEPT !.step = "done"] \in Jobs
<1>1. << >> \in Seq(Cells)
  OBVIOUS
<1>2. QED BY <1>1 DEF Free, Jobs, Steps, Reasons

\* A job fits when its worker made it so in this step, or did not touch it.
LEMMA JobsFit ==
  ASSUME JobsOK, Grows, job' \in [Workers -> Jobs], TickerFits',
         \A x \in Workers : job'[x] = job[x] \/ JobFits(job[x])'
  PROVE  JobsOK'
<1>1. ASSUME NEW x \in Workers PROVE JobFits(job[x])'
  <2>1. CASE JobFits(job[x])'
    BY <2>1
  <2>2. CASE job'[x] = job[x]
    <3> DEFINE j == job[x]
    <3>1. j \in Jobs /\ JobFits(j) /\ job'[x] = j
      BY <2>2 DEF JobsOK
    <3> HIDE DEF j
    <3>2. j.at \in Nat
      BY <3>1 DEF Jobs
    <3>3. j.at <= clock'
      BY <3>1, <3>2 DEF Grows, JobFits
    <3>4. j.step = "record" => j.wish[2] \in unlocked'[j.wish[1]]
      <4>1. j.step = "record" => j.wish[1] \in Players /\ j.wish[2] \in unlocked[j.wish[1]]
        BY <3>1 DEF JobFits
      <4>2. QED BY <4>1 DEF Grows
    <3>5. QED BY <3>1, <3>3, <3>4 DEF JobFits
  <2>3. QED BY <1>1, <2>1, <2>2
<1>2. QED BY <1>1 DEF JobsOK

\* A step that no worker takes keeps the jobs.
LEMMA JobsKept ==
  ASSUME JobsOK, Grows, UNCHANGED job, UNCHANGED pc \/ Is(Ticker, "free")
  PROVE  JobsOK'
<1>1. TickerFits'
  BY DEF JobsOK, TickerFits, Is
<1>2. QED BY <1>1, JobsFit DEF JobsOK

\* A step of one worker x, that leaves job j behind.
LEMMA JobMoves ==
  ASSUME JobsOK, Grows, NEW x \in Workers, NEW j \in Jobs, job' = [job EXCEPT ![x] = j],
         JobFits(j)', UNCHANGED pc \/ j.step = "free",
         x = Ticker => j.step \in {"free", "status", "winner", "reason"},
         x = Ticker /\ j.step # "free" => pc = "duels",
         x # Ticker => UNCHANGED pc
  PROVE  JobsOK'
<1>1. job \in [Workers -> Jobs] /\ TickerFits /\ Ticker \in Workers
  BY DEF JobsOK, Workers
<1>2. job'[x] = j /\ \A y \in Workers : y # x => job'[y] = job[y]
  BY <1>1
<1>3. job' \in [Workers -> Jobs]
  BY <1>1
<1>4. TickerFits'
  <2>1. CASE x = Ticker
    BY <1>2, <2>1 DEF TickerFits, Is
  <2>2. CASE x # Ticker
    BY <1>1, <1>2, <2>2 DEF TickerFits, Is
  <2>3. QED BY <2>1, <2>2
<1>5. \A y \in Workers : job'[y] = job[y] \/ JobFits(job[y])'
  <2> TAKE y \in Workers
  <2>1. CASE y = x
    BY <1>2, <2>1 DEF JobFits
  <2>2. CASE y # x
    BY <1>2, <2>2
  <2>3. QED BY <2>1, <2>2
<1>6. QED BY <1>3, <1>4, <1>5, JobsFit

-----------------------------------------------------------------------------
(* Steps that are not a worker's: time, and the tick up to its end *)

\* ChoiceIsHeld as long as a choice on record is an old one, or is held.
LEMMA HeldStays ==
  ASSUME ChoiceIsHeld, Grows,
         \A o \in Players, w \in Waves :
           choice'[o][w] = choice[o][w] \/ choice'[o][w] \in unlocked'[o]
  PROVE  ChoiceIsHeld'
BY DEF ChoiceIsHeld, Grows

LEMMA InvOfElapse ==
  ASSUME ThreadInv, Elapse, UNCHANGED job
  PROVE  ThreadInv'
<1>1. TypeOK' /\ Grows
  BY TypeElapse DEF ThreadInv, TypeOK, TimesOK, UnlocksOK, Elapse, unlockVars, Grows
<1>2. UNCHANGED <<pc, choice, unlocked>> /\ pc = "idle"
  BY DEF Elapse, tickVars, unlockVars, Idle
<1>3. JobsOK'
  BY <1>1, <1>2, JobsKept DEF ThreadInv
<1>4. QED BY <1>1, <1>2, <1>3, HeldStays DEF ThreadInv, ArrivedMove, Is

LEMMA InvOfTickOn ==
  ASSUME ThreadInv, TickOn, UNCHANGED job
  PROVE  ThreadInv'
<1>1. CASE TickBegin
  <2>1. TypeOK'
    BY <1>1, TypeTickBegin DEF ThreadInv
  <2>2. Grows /\ UNCHANGED choice
    <3>1. unlocked \in [Players -> SUBSET Kinds]
      BY DEF ThreadInv, TypeOK, UnlocksOK
    <3>2. QED BY <1>1, <2>1, <3>1 DEF TypeOK, TimesOK, TickBegin, Grows
  <2>3. pc = "idle" /\ pc' = "unlock"
    BY <1>1 DEF TickBegin, Idle
  <2>4. Is(Ticker, "free")
    BY <2>3 DEF ThreadInv, JobsOK, TickerFits
  <2>5. JobsOK'
    BY <2>2, <2>4, JobsKept DEF ThreadInv
  <2>6. QED BY <2>1, <2>2, <2>3, <2>5, HeldStays DEF ThreadInv, ArrivedMove, Is
<1>2. ASSUME NEW w \in Waves, AutoUnlock(w) PROVE ThreadInv'
  <2>1. TypeOK' /\ UnlocksOK /\ clock \in Nat
    BY <1>2, TypeAutoUnlock DEF ThreadInv, TypeOK, TimesOK
  <2>2. \A o \in Players :
          /\ unlocked'[o] = IF Unsettled(o, w) THEN unlocked[o] \cup {AutoPick(w, unlocked[o])}
                            ELSE unlocked[o]
          /\ choice'[o] = IF Unsettled(o, w)
                          THEN [choice[o] EXCEPT ![w] = AutoPick(w, unlocked[o])]
                          ELSE choice[o]
    BY <1>2 DEF AutoUnlock
  <2>3. Grows
    BY <1>2, <2>1, <2>2 DEF AutoUnlock, timeVars, Grows
  <2>4. \A o \in Players, v \in Waves :
          choice'[o][v] = choice[o][v] \/ choice'[o][v] \in unlocked'[o]
    BY <2>1, <2>2 DEF UnlocksOK
  <2>5. pc = "unlock" /\ pc' = "unlock"
    BY <1>2 DEF AutoUnlock, tickVars
  <2>6. JobsOK'
    BY <2>3, <2>5, JobsKept DEF ThreadInv
  <2>7. QED BY <2>1, <2>3, <2>4, <2>5, <2>6, HeldStays DEF ThreadInv, ArrivedMove, Is
<1>3. CASE Contacts
  <2>1. TypeOK'
    BY <1>3, TypeContacts DEF ThreadInv
  <2>2. Grows /\ UNCHANGED choice
    BY <1>3, <2>1 DEF TypeOK, TimesOK, Contacts, timeVars, unlockVars, Grows
  <2>3. pc = "unlock"
    BY <1>3 DEF Contacts
  <2>4. Is(Ticker, "free")
    BY <2>3 DEF ThreadInv, JobsOK, TickerFits
  <2>5. JobsOK'
    BY <2>2, <2>4, JobsKept DEF ThreadInv
  <2>6. ArrivedMove'
    <3> SUFFICES ASSUME NEW p \in arrived', pieces'[p].alive PROVE pieces'[p].moving
      BY DEF ArrivedMove
    <3>1. p \in Pieces /\ IsArrived(Kind(p), pieces[p], tickAt)
      BY <1>3 DEF Contacts
    <3>2. pieces[p] \in PieceStates
      BY <3>1 DEF ThreadInv, TypeOK, PiecesOK
    <3>3. pieces'[p] = MarkDead(pieces[p]) \/ pieces'[p] = pieces[p]
      BY <1>3, <3>1 DEF Contacts
    <3>4. QED BY <3>1, <3>2, <3>3, MarkDeadPiece DEF IsArrived
  <2>7. QED BY <2>1, <2>2, <2>5, <2>6, HeldStays DEF ThreadInv
<1>4. ASSUME NEW a \in Pieces, NEW b \in Pieces, Duel(a, b) PROVE ThreadInv'
  <2>1. TypeOK'
    BY <1>4, TypeDuel DEF ThreadInv
  <2>2. Grows /\ UNCHANGED choice
    BY <1>4, <2>1 DEF TypeOK, TimesOK, Duel, timeVars, unlockVars, Grows
  <2>3. UNCHANGED <<pc, arrived>> /\ pc = "duels"
    BY <1>4 DEF Duel
  <2>4. JobsOK'
    BY <2>2, <2>3, JobsKept DEF ThreadInv
  <2>5. ArrivedMove'
    <3> SUFFICES ASSUME Is(Ticker, "free"), NEW p \in arrived, pieces'[p].alive
                 PROVE  pieces'[p].moving
      BY <2>3 DEF ArrivedMove, Is
    <3>1. p \in Pieces /\ (pieces[p].alive => pieces[p].moving)
      BY <2>3 DEF ThreadInv, ArrivedMove, TypeOK, TickOK
    <3>2. pieces[p] \in PieceStates
      BY <3>1 DEF ThreadInv, TypeOK, PiecesOK
    <3>3. pieces'[p] = MarkDead(pieces[p]) \/ pieces'[p] = pieces[p]
      BY <1>4, <3>1 DEF Duel
    <3>4. QED BY <3>1, <3>2, <3>3, MarkDeadPiece
  <2>6. QED BY <2>1, <2>2, <2>4, <2>5, HeldStays DEF ThreadInv
<1>5. QED BY <1>1, <1>2, <1>3, <1>4 DEF TickOn

-----------------------------------------------------------------------------
(* Steps of a worker that leave the match alone *)

LEMMA SameMatch ==
  ASSUME ThreadInv, UNCHANGED vars, job'[Ticker] = job[Ticker], JobsOK'
  PROVE  ThreadInv'
<1>1. UNCHANGED <<clock, tickAt, status, winner, reason, phase, unlocked, choice, processed,
                  pieces, lastAction, lastCapture, lifecycle, pc, arrived, duels>>
  BY DEF vars, timeVars, outcomeVars, unlockVars, actionVars, tickVars
<1>2. TypeOK'
  BY <1>1 DEF ThreadInv, TypeOK, TimesOK, OutcomeOK, UnlocksOK, PiecesOK, TickOK
<1>3. ArrivedMove' /\ ChoiceIsHeld'
  BY <1>1 DEF ThreadInv, ArrivedMove, ChoiceIsHeld, Is
<1>4. QED BY <1>2, <1>3 DEF ThreadInv

\* A request r does no more than to go on to job j.
LEMMA OnlyItsJob ==
  ASSUME ThreadInv, UNCHANGED vars, NEW r \in Requests, NEW j \in Jobs,
         job' = [job EXCEPT ![r] = j], JobFits(j)
  PROVE  ThreadInv'
<1>1. UNCHANGED <<clock, unlocked, pc>> /\ clock \in Nat
  BY DEF vars, timeVars, unlockVars, tickVars, ThreadInv, TypeOK, TimesOK
<1>2. Grows /\ JobFits(j)'
  BY <1>1 DEF Grows, JobFits
<1>3. r \in Workers /\ r # Ticker
  BY ThreadAssumption DEF Workers
<1>4. JobsOK'
  BY <1>1, <1>2, <1>3, JobMoves DEF ThreadInv
<1>5. job'[Ticker] = job[Ticker]
  BY <1>3 DEF ThreadInv, JobsOK, Workers
<1>6. QED BY <1>4, <1>5, SameMatch

\* What is left of a request that is over, or of the tick within finish_match.
LEMMA DoneFits ==
  ASSUME NEW x \in Workers, Grows, Done(x)
  PROVE  \E j \in Jobs : /\ job' = [job EXCEPT ![x] = j] /\ JobFits(j) /\ JobFits(j)'
                         /\ j.step = IF x = Ticker THEN "free" ELSE "done"
<1> DEFINE j == [Free EXCEPT !.step = IF x = Ticker THEN "free" ELSE "done"]
<1>1. j \in Jobs
  <2>1. j = Free \/ j = [Free EXCEPT !.step = "done"]
    BY DEF Free
  <2>2. QED BY <2>1, FreeJob
<1>2. j.at = 0 /\ j.step = IF x = Ticker THEN "free" ELSE "done"
  BY DEF Free
<1>3. job' = [job EXCEPT ![x] = j]
  BY DEF Done
<1> HIDE DEF j
<1>4. JobFits(j) /\ JobFits(j)'
  BY <1>2 DEF JobFits, Grows
<1>5. QED BY <1>1, <1>2, <1>3, <1>4

LEMMA InvOfRefusal ==
  ASSUME ThreadInv, UNCHANGED vars, NEW r \in Requests, Done(r)
  PROVE  ThreadInv'
<1>1. Grows /\ r \in Workers
  BY DEF ThreadInv, TypeOK, TimesOK, vars, timeVars, unlockVars, Grows, Workers
<1>2. PICK j \in Jobs : job' = [job EXCEPT ![r] = j] /\ JobFits(j)
  BY <1>1, DoneFits
<1>3. QED BY <1>2, OnlyItsJob

LEMMA InvOfAsk ==
  ASSUME ThreadInv, NEW r \in Requests,
         \/ \E aim \in Aims : AskMove(r, aim)
         \/ \E wish \in Wishes : AskUnlock(r, wish)
         \/ \E o \in Resigners : AskResign(r, o)
  PROVE  ThreadInv'
<1>1. clock \in Nat /\ << >> \in Seq(Cells)
  BY DEF ThreadInv, TypeOK, TimesOK
<1>2. ASSUME NEW aim \in Aims, AskMove(r, aim) PROVE ThreadInv'
  <2> DEFINE j == [Free EXCEPT !.step = "move", !.at = clock, !.aim = aim]
  <2>1. aim \in Pieces \X Cells
    BY InputAssumption
  <2>2. j \in Jobs
    BY <1>1, <2>1, FreeJob DEF Jobs, Steps, Reasons
  <2>3. JobFits(j)
    BY <1>1, <2>1 DEF Free, JobFits
  <2>4. UNCHANGED vars /\ job' = [job EXCEPT ![r] = j]
    BY <1>2 DEF AskMove, Ask
  <2> HIDE DEF j
  <2>5. QED BY <2>2, <2>3, <2>4, OnlyItsJob
<1>3. ASSUME NEW wish \in Wishes, AskUnlock(r, wish) PROVE ThreadInv'
  <2> DEFINE j == [Free EXCEPT !.step = "unlock", !.at = clock, !.wish = wish]
  <2>1. wish \in Players \X Kinds
    BY InputAssumption
  <2>2. j \in Jobs
    BY <1>1, <2>1, FreeJob DEF Jobs, Steps, Reasons
  <2>3. JobFits(j)
    BY <1>1, <2>1 DEF Free, JobFits
  <2>4. UNCHANGED vars /\ job' = [job EXCEPT ![r] = j]
    BY <1>3 DEF AskUnlock, Ask
  <2> HIDE DEF j
  <2>5. QED BY <2>2, <2>3, <2>4, OnlyItsJob
<1>4. ASSUME NEW o \in Resigners, AskResign(r, o) PROVE ThreadInv'
  <2> DEFINE j == [Free EXCEPT !.step = "resign", !.result = <<Opponent(o), "resign">>]
  <2>1. Opponent(o) \in Players
    BY DEF Opponent, Players
  <2>2. j \in Jobs
    BY <1>1, <2>1, FreeJob DEF Jobs, Steps, Reasons
  <2>3. JobFits(j)
    BY <1>1, <2>1 DEF Free, JobFits
  <2>4. UNCHANGED vars /\ job' = [job EXCEPT ![r] = j]
    BY <1>4 DEF AskResign, Ask
  <2> HIDE DEF j
  <2>5. QED BY <2>2, <2>3, <2>4, OnlyItsJob
<1>5. QED BY <1>2, <1>3, <1>4

\* The checks of a handler: a path and a wave that pass them stay what they are.
LEMMA InvOfCheck ==
  ASSUME ThreadInv, NEW r \in Requests, CheckMove(r) \/ CheckUnlock(r) \/ CheckResign(r)
  PROVE  ThreadInv'
<1> DEFINE j == job[r]
<1>1. j \in Jobs /\ JobFits(j) /\ r \in Workers
  BY DEF ThreadInv, JobsOK, Workers
<1>2. UNCHANGED vars
  BY DEF CheckMove, CheckUnlock, CheckResign
<1>3. CASE CheckMove(r)
  <2> DEFINE p == j.aim[1]
             b == j.aim[2]
             path == BuildPath(Kind(p), pieces[p].cell, b)
             k == [j EXCEPT !.step = "start", !.path = path]
  <2>1. CASE Accepts(Owner(p)) /\ MayMove(p, b, j.at)
    <3>1. j.step = "move" /\ job' = [job EXCEPT ![r].step = "start", ![r].path = path]
      BY <1>3, <2>1 DEF CheckMove, Is
    <3>2. p \in Pieces /\ b \in Cells /\ j.at \in Nat
      BY <1>1, <3>1 DEF JobFits, Jobs
    <3>3. path \in Seq(Cells) /\ path # << >>
      <4>1. pieces \in [Pieces -> PieceStates]
        BY DEF ThreadInv, TypeOK, PiecesOK
      <4>2. ValidateMove(p, b, pieces, j.at)
        BY <2>1 DEF MayMove
      <4>3. QED BY <3>2, <4>1, <4>2, PathOfLegalMove DEF ValidateMove
    <3> HIDE DEF path
    <3>4. k \in Jobs
      BY <1>1, <3>3 DEF Jobs, Steps
    <3>5. JobFits(k)
      BY <1>1, <3>1, <3>3, <3>4 DEF JobFits, Jobs
    <3>6. job' = [job EXCEPT ![r] = k]
      BY <1>1, <3>1 DEF ThreadInv, JobsOK
    <3> HIDE DEF k
    <3>7. QED BY <1>2, <3>4, <3>5, <3>6, OnlyItsJob
  <2>2. CASE ~(Accepts(Owner(p)) /\ MayMove(p, b, j.at))
    <3>1. Done(r)
      BY <1>3, <2>2 DEF CheckMove
    <3>2. QED BY <1>2, <3>1, InvOfRefusal
  <2>3. QED BY <2>1, <2>2
<1>4. CASE CheckUnlock(r)
  <2> DEFINE k == [j EXCEPT !.step = "add"]
  <2>1. j.step = "unlock" /\ j.at \in Nat
    BY <1>1, <1>4 DEF CheckUnlock, Is, Jobs
  <2>2. CASE Accepts(j.wish[1]) /\ MayChoose(j.wish[1], j.wish[2], j.at)
    <3>1. Goto(r, "add")
      BY <1>4, <2>2 DEF CheckUnlock
    <3>2. CurrentWave(j.at) \in Waves
      BY <2>1, <2>2, CurrentWaveIsOpen DEF MayChoose
    <3>3. k \in Jobs
      BY <1>1 DEF Jobs, Steps
    <3>4. JobFits(k)
      BY <1>1, <2>1, <3>2, <3>3 DEF JobFits, Jobs
    <3>5. job' = [job EXCEPT ![r] = k]
      BY <1>1, <3>1 DEF ThreadInv, JobsOK, Goto
    <3> HIDE DEF k
    <3>6. QED BY <1>2, <3>3, <3>4, <3>5, OnlyItsJob
  <2>3. CASE ~(Accepts(j.wish[1]) /\ MayChoose(j.wish[1], j.wish[2], j.at))
    <3>1. Done(r)
      BY <1>4, <2>3 DEF CheckUnlock
    <3>2. QED BY <1>2, <3>1, InvOfRefusal
  <2>4. QED BY <2>2, <2>3
<1>5. CASE CheckResign(r)
  <2> DEFINE k == [j EXCEPT !.step = "status"]
  <2>1. CASE Goto(r, "status")
    <3>1. k \in Jobs
      BY <1>1 DEF Jobs, Steps
    <3>2. JobFits(k)
      BY <1>1, <3>1 DEF JobFits, Jobs
    <3>3. job' = [job EXCEPT ![r] = k]
      BY <1>1, <2>1 DEF ThreadInv, JobsOK, Goto
    <3> HIDE DEF k
    <3>4. QED BY <1>2, <3>1, <3>2, <3>3, OnlyItsJob
  <2>2. CASE Done(r)
    BY <1>2, <2>2, InvOfRefusal
  <2>3. QED BY <1>5, <2>1, <2>2 DEF CheckResign
<1>6. QED BY <1>3, <1>4, <1>5

-----------------------------------------------------------------------------
(* Steps of a worker that write *)

LEMMA InvOfStart ==
  ASSUME ThreadInv, NEW r \in Requests, StartIt(r)
  PROVE  ThreadInv'
<1> DEFINE p == job[r].aim[1]
           m == StartMove(pieces[p], job[r].path, job[r].at)
<1>1. job[r] \in Jobs /\ JobFits(job[r]) /\ r \in Workers /\ job[r].step = "start"
  BY DEF ThreadInv, JobsOK, Workers, StartIt, Is
<1>2. p \in Pieces /\ job[r].path \in Seq(Cells) /\ job[r].path # << >>
      /\ job[r].at \in Nat /\ job[r].at <= clock
  BY <1>1 DEF JobFits, Jobs
<1>3. pieces \in [Pieces -> PieceStates] /\ TypeOK /\ ArrivedMove /\ ChoiceIsHeld
  BY DEF ThreadInv, TypeOK, PiecesOK
<1>4. m \in PieceStates /\ m.alive = pieces[p].alive /\ m.moving /\ m.start = job[r].at
      /\ m.path = job[r].path
  BY <1>2, <1>3, StartMovePiece
<1>5. pieces' = [pieces EXCEPT ![p] = m] /\ lastAction' = job[r].at
      /\ UNCHANGED <<clock, tickAt, status, winner, reason, phase, unlocked, choice, processed,
                     lastCapture, lifecycle, pc, arrived, duels>>
  BY DEF StartIt, timeVars, outcomeVars, unlockVars, tickVars
<1> HIDE DEF m
<1>6. pieces' \in [Pieces -> PieceStates]
      /\ \A q \in Pieces : pieces'[q] = IF q = p THEN m ELSE pieces[q]
  BY <1>2, <1>3, <1>4, <1>5
<1>7. TypeOK'
  <2>1. TimesOK'
    BY <1>2, <1>3, <1>5 DEF TypeOK, TimesOK
  <2>2. OutcomeOK' /\ UnlocksOK' /\ TickOK'
    BY <1>3, <1>5 DEF TypeOK, OutcomeOK, UnlocksOK, TickOK
  <2>3. PiecesOK'
    <3>1. \A q \in Pieces : pieces'[q].start <= clock'
      BY <1>2, <1>3, <1>4, <1>5, <1>6 DEF TypeOK, PiecesOK
    <3>2. \A q \in Pieces : pieces'[q].moving => pieces'[q].path # << >>
      BY <1>2, <1>3, <1>4, <1>6 DEF TypeOK, PiecesOK
    <3>3. QED BY <1>6, <3>1, <3>2 DEF PiecesOK
  <2>4. QED BY <2>1, <2>2, <2>3 DEF TypeOK
<1>8. Grows /\ Done(r) /\ r # Ticker
  BY <1>3, <1>5, ThreadAssumption DEF TypeOK, TimesOK, Grows, StartIt
<1>9. PICK j \in Jobs : job' = [job EXCEPT ![r] = j] /\ JobFits(j)'
  BY <1>1, <1>8, DoneFits
<1>10. JobsOK'
  BY <1>1, <1>5, <1>8, <1>9, JobMoves DEF ThreadInv
<1>11. ArrivedMove'
  <2>1. arrived \subseteq Pieces
    BY <1>3 DEF TypeOK, TickOK
  <2>2. Is(Ticker, "free")' = Is(Ticker, "free")
    BY <1>8, <1>9 DEF ThreadInv, JobsOK, Workers, Is
  <2>3. QED BY <1>3, <1>4, <1>5, <1>6, <2>1, <2>2 DEF ArrivedMove
<1>12. ChoiceIsHeld'
  BY <1>3, <1>5 DEF ChoiceIsHeld
<1>13. QED BY <1>7, <1>10, <1>11, <1>12 DEF ThreadInv

\* Steps that write unlocks or choices only.
LEMMA InvOfUnlockWrite ==
  ASSUME ThreadInv, Grows, JobsOK', job'[Ticker] = job[Ticker],
         unlocked' \in [Players -> SUBSET Kinds],
         choice' \in [Players -> [Waves -> Kinds \cup {NoKind}]],
         \A o \in Players, w \in Waves :
           choice'[o][w] = choice[o][w] \/ choice'[o][w] \in unlocked'[o],
         UNCHANGED <<timeVars, outcomeVars, phase, processed, pieces, actionVars, lifecycle,
                     tickVars>>
  PROVE  ThreadInv'
<1>1. UNCHANGED <<clock, tickAt, status, winner, reason, phase, processed, pieces, lastAction,
                  lastCapture, lifecycle, pc, arrived, duels>>
  BY DEF timeVars, outcomeVars, actionVars, tickVars
<1>2. TypeOK'
  BY <1>1 DEF ThreadInv, TypeOK, TimesOK, OutcomeOK, UnlocksOK, PiecesOK, TickOK
<1>3. ArrivedMove'
  BY <1>1 DEF ThreadInv, ArrivedMove, Is
<1>4. QED BY <1>2, <1>3, HeldStays DEF ThreadInv

LEMMA InvOfAddKind ==
  ASSUME ThreadInv, NEW r \in Requests, AddKind(r)
  PROVE  ThreadInv'
<1> DEFINE o == job[r].wish[1]
           kind == job[r].wish[2]
<1>1. /\ job \in [Workers -> Jobs] /\ job[r] \in Jobs /\ JobFits(job[r])
      /\ r \in Workers /\ r # Ticker /\ job[r].step = "add"
  BY ThreadAssumption DEF ThreadInv, JobsOK, Workers, AddKind, Is
<1>2. o \in Players /\ kind \in Kinds
  BY <1>1 DEF JobFits
<1>3. /\ unlocked' = [unlocked EXCEPT ![o] = @ \cup {kind}]
      /\ UNCHANGED <<clock, pc, choice>>
  BY DEF AddKind, timeVars, tickVars
<1>4. unlocked \in [Players -> SUBSET Kinds] /\ clock \in Nat
      /\ choice \in [Players -> [Waves -> Kinds \cup {NoKind}]]
  BY DEF ThreadInv, TypeOK, UnlocksOK, TimesOK
<1>5. Grows /\ unlocked' \in [Players -> SUBSET Kinds] /\ kind \in unlocked'[o]
  BY <1>2, <1>3, <1>4 DEF Grows
<1>6. PICK k \in Jobs : k = [job[r] EXCEPT !.step = "record"]
  BY <1>1 DEF Jobs, Steps
<1>7. job' = [job EXCEPT ![r] = k]
  BY <1>1, <1>6 DEF AddKind, Goto
<1>8. JobFits(k)'
  BY <1>1, <1>3, <1>5, <1>6 DEF JobFits, Jobs
<1>9. JobsOK'
  BY <1>1, <1>3, <1>5, <1>7, <1>8, JobMoves DEF ThreadInv
<1>10. job'[Ticker] = job[Ticker]
  BY <1>1, <1>7 DEF Workers
<1>11. QED BY <1>3, <1>4, <1>5, <1>9, <1>10, InvOfUnlockWrite DEF AddKind

LEMMA InvOfRecordChoice ==
  ASSUME ThreadInv, NEW r \in Requests, RecordChoice(r)
  PROVE  ThreadInv'
<1> DEFINE o == job[r].wish[1]
           kind == job[r].wish[2]
           w == CurrentWave(job[r].at)
<1>1. /\ JobFits(job[r]) /\ job[r].step = "record" /\ r \in Workers /\ r # Ticker
  BY ThreadAssumption DEF ThreadInv, JobsOK, Workers, RecordChoice, Is
<1>2. o \in Players /\ kind \in Kinds /\ w \in Waves /\ kind \in unlocked[o]
  BY <1>1 DEF JobFits
<1>3. /\ choice' = [choice EXCEPT ![o][w] = kind] /\ Done(r)
      /\ UNCHANGED <<clock, pc, unlocked>>
  BY DEF RecordChoice, timeVars, tickVars
<1>4. unlocked \in [Players -> SUBSET Kinds] /\ clock \in Nat
      /\ choice \in [Players -> [Waves -> Kinds \cup {NoKind}]]
  BY DEF ThreadInv, TypeOK, UnlocksOK, TimesOK
<1>5. Grows
  BY <1>3, <1>4 DEF Grows
<1>6. choice' \in [Players -> [Waves -> Kinds \cup {NoKind}]]
  BY <1>2, <1>3, <1>4
<1>7. \A q \in Players, v \in Waves :
        choice'[q][v] = choice[q][v] \/ choice'[q][v] \in unlocked'[q]
  BY <1>2, <1>3, <1>4
<1>8. PICK j \in Jobs : job' = [job EXCEPT ![r] = j] /\ JobFits(j)'
  BY <1>1, <1>3, <1>5, DoneFits
<1>9. JobsOK'
  BY <1>1, <1>3, <1>5, <1>8, JobMoves DEF ThreadInv
<1>10. job'[Ticker] = job[Ticker]
  BY <1>1, <1>8 DEF ThreadInv, JobsOK, Workers
<1>11. QED BY <1>3, <1>4, <1>5, <1>6, <1>7, <1>9, <1>10, InvOfUnlockWrite DEF RecordChoice

\* Steps that write the outcome only, and those at the end of the tick.
LEMMA InvOfOutcome ==
  ASSUME ThreadInv, JobsOK', status' \in {"running", "ended"},
         winner' \in Players \cup {NoPlayer}, reason' \in Reasons,
         pc' \in {pc, "idle"}, arrived' \in {arrived, {}},
         Is(Ticker, "free")' => Is(Ticker, "free") \/ pc' = "idle",
         UNCHANGED <<clock, tickAt, phase, unlocked, choice, processed, pieces, lastAction,
                     lastCapture, lifecycle, duels>>
  PROVE  ThreadInv'
<1>1. TypeOK'
  <2>1. TimesOK' /\ UnlocksOK' /\ PiecesOK'
    BY DEF ThreadInv, TypeOK, TimesOK, UnlocksOK, PiecesOK
  <2>2. OutcomeOK' /\ TickOK'
    BY DEF ThreadInv, TypeOK, OutcomeOK, TickOK, Reasons
  <2>3. QED BY <2>1, <2>2 DEF TypeOK
<1>2. ArrivedMove'
  BY DEF ThreadInv, ArrivedMove
<1>3. ChoiceIsHeld'
  BY DEF ThreadInv, ChoiceIsHeld
<1>4. QED BY <1>1, <1>2, <1>3 DEF ThreadInv

LEMMA InvOfFinish ==
  ASSUME ThreadInv, NEW x \in Workers, Finish(x)
  PROVE  ThreadInv'
<1>1. /\ job \in [Workers -> Jobs] /\ job[x] \in Jobs /\ JobFits(job[x]) /\ TickerFits
      /\ clock \in Nat /\ job[x].result[1] \in Players \cup {NoPlayer}
      /\ job[x].result[2] \in Reasons
  BY DEF ThreadInv, JobsOK, TypeOK, TimesOK, Jobs
<1>2. status \in {"running", "ended"} /\ winner \in Players \cup {NoPlayer} /\ reason \in Reasons
  BY DEF ThreadInv, TypeOK, OutcomeOK, Reasons
<1>3. UNCHANGED <<clock, unlocked>> /\ Grows
  BY <1>1 DEF Finish, SetStatus, SetWinner, SetReason, timeVars, unlockVars, Grows
<1>4. UNCHANGED <<clock, tickAt, phase, unlocked, choice, processed, pieces, lastAction,
                  lastCapture, lifecycle, duels>>
  BY DEF Finish, SetStatus, SetWinner, SetReason, timeVars, unlockVars, actionVars, tickVars
<1>5. ASSUME NEW step \in {"winner", "reason"}, Goto(x, step), UNCHANGED pc,
             job[x].step \in {"status", "winner"}
      PROVE  JobsOK'
  <2>1. PICK k \in Jobs : k = [job[x] EXCEPT !.step = step]
    BY <1>1 DEF Jobs, Steps
  <2>2. k.step = step /\ job' = [job EXCEPT ![x] = k]
    BY <1>1, <1>5, <2>1 DEF Goto, Jobs
  <2>3. JobFits(k)'
    BY <1>1, <1>3, <2>1 DEF JobFits, Jobs
  <2>4. x = Ticker => pc = "duels"
    BY <1>1, <1>5 DEF TickerFits, Is
  <2>5. QED BY <1>3, <1>5, <2>2, <2>3, <2>4, JobMoves DEF ThreadInv
<1>6. Is(Ticker, "free")' => Is(Ticker, "free") \/ pc' = "idle"
  <2> DEFINE k == job'[Ticker]
  <2>1. Ticker \in Workers
    BY DEF Workers
  <2>2. ASSUME NEW step \in {"winner", "reason"}, Goto(x, step) PROVE k.step = "free" => x # Ticker
    BY <1>1, <2>1, <2>2 DEF Goto, Jobs
  <2>3. x # Ticker => job'[Ticker] = job[Ticker]
    BY <1>1, <2>1 DEF Finish, SetStatus, SetWinner, SetReason, Goto, Done
  <2>4. CASE SetReason(x)
    BY <2>3, <2>4 DEF SetReason, Is
  <2>5. CASE SetStatus(x) \/ SetWinner(x)
    BY <2>2, <2>3, <2>5 DEF SetStatus, SetWinner, Is
  <2>6. QED BY <2>4, <2>5 DEF Finish
<1>7. CASE SetStatus(x)
  <2>1. JobsOK'
    BY <1>5, <1>7 DEF SetStatus, Is, tickVars
  <2>2. status' = "ended" /\ winner' = winner /\ reason' = reason /\ pc' = pc /\ arrived' = arrived
    BY <1>7 DEF SetStatus, tickVars
  <2>3. QED BY <1>2, <1>4, <2>1, <2>2, <1>6, InvOfOutcome
<1>8. CASE SetWinner(x)
  <2>1. JobsOK'
    BY <1>5, <1>8 DEF SetWinner, Is, tickVars
  <2>2. /\ winner' = job[x].result[1]
        /\ status' = status /\ reason' = reason /\ pc' = pc /\ arrived' = arrived
    BY <1>8 DEF SetWinner, tickVars
  <2>3. QED BY <1>1, <1>2, <1>4, <2>1, <2>2, <1>6, InvOfOutcome
<1>9. CASE SetReason(x)
  <2>1. PICK j \in Jobs : /\ job' = [job EXCEPT ![x] = j] /\ JobFits(j)'
                          /\ j.step = IF x = Ticker THEN "free" ELSE "done"
    BY <1>3, <1>9, DoneFits DEF SetReason
  <2>2. x # Ticker => UNCHANGED pc
    BY <1>9 DEF SetReason
  <2>3. JobsOK'
    BY <1>3, <2>1, <2>2, JobMoves DEF ThreadInv
  <2>4. reason' = job[x].result[2] /\ UNCHANGED <<status, winner>>
    BY <1>9 DEF SetReason
  <2>5. pc' \in {pc, "idle"} /\ arrived' \in {arrived, {}}
    BY <1>9 DEF SetReason
  <2>6. QED BY <1>1, <1>2, <1>4, <2>3, <2>4, <2>5, <1>6, InvOfOutcome
<1>10. QED BY <1>7, <1>8, <1>9 DEF Finish

LEMMA InvOfJudge ==
  ASSUME ThreadInv, Judge
  PROVE  ThreadInv'
<1>1. /\ pieces' = Settled /\ pc = "duels" /\ Is(Ticker, "free") /\ Ticker \in Workers
      /\ UNCHANGED <<clock, tickAt, status, winner, reason, phase, unlocked, choice, processed,
                     lastAction, lastCapture, lifecycle, duels>>
  BY DEF Judge, timeVars, outcomeVars, unlockVars, actionVars, tickVars, Workers
<1>2. TypeOK /\ JobsOK /\ ArrivedMove /\ ChoiceIsHeld
  BY DEF ThreadInv
<1>3. pc' \in {pc, "idle"} /\ arrived' \in {arrived, {}}
  BY DEF Judge, tickVars
<1>4. \A p \in Pieces :
        /\ Settled[p] \in PieceStates
        /\ Settled[p].start = 0 \/ Settled[p].start = pieces[p].start
        /\ Settled[p].moving => pieces[p].moving /\ Settled[p].path = pieces[p].path
  BY <1>1, <1>2, SettledPiece DEF ArrivedMove
<1>5. TypeOK'
  <2>1. TimesOK' /\ OutcomeOK' /\ UnlocksOK' /\ TickOK'
    BY <1>1, <1>2, <1>3 DEF TypeOK, TimesOK, OutcomeOK, UnlocksOK, TickOK
  <2>2. PiecesOK'
    <3>1. pieces' \in [Pieces -> PieceStates]
      BY <1>1, <1>4 DEF Settled
    <3>2. \A p \in Pieces : pieces'[p].start <= clock'
      BY <1>1, <1>2, <1>4 DEF TypeOK, TimesOK, PiecesOK
    <3>3. \A p \in Pieces : pieces'[p].moving => pieces'[p].path # << >>
      BY <1>1, <1>2, <1>4 DEF TypeOK, PiecesOK
    <3>4. QED BY <3>1, <3>2, <3>3 DEF PiecesOK
  <2>3. QED BY <2>1, <2>2 DEF TypeOK
<1>6. ArrivedMove' /\ JobsOK'
  <2>1. Grows
    BY <1>1, <1>2 DEF TypeOK, TimesOK, Grows
  <2>2. CASE Verdict # GoesOn /\ Running
    <3> DEFINE taker == IF Verdict = "general captured"
                        THEN CHOOSE o \in Players : o \in LivingSides ELSE NoPlayer
    <3>1. pc' = pc /\ job' = [job EXCEPT ![Ticker] =
                                [Free EXCEPT !.step = "status", !.result = <<taker, Verdict>>]]
      BY <2>2 DEF Judge, tickVars
    <3>2. Verdict \in Reasons
      BY VerdictType DEF Reasons
    <3>3. taker \in Players \cup {NoPlayer}
      <4>1. Verdict = "general captured" => LivingSides # {}
        BY DEF Verdict, GoesOn
      <4>2. QED BY <4>1, WinnerType
    <3> HIDE DEF taker
    <3>4. PICK k \in Jobs : k = [Free EXCEPT !.step = "status", !.result = <<taker, Verdict>>]
      <4> DEFINE outcome == <<taker, Verdict>>
      <4>1. outcome \in (Players \cup {NoPlayer}) \X Reasons
        BY <3>2, <3>3
      <4> HIDE DEF outcome
      <4>2. [Free EXCEPT !.step = "status", !.result = outcome] \in Jobs
        BY <4>1, FreeJob DEF Jobs, Steps
      <4>3. QED BY <4>2 DEF outcome
    <3>5. k.step = "status" /\ k.at = 0
      BY <3>4 DEF Free
    <3>6. JobFits(k)'
      BY <2>1, <3>5 DEF JobFits, Grows
    <3>7. JobsOK'
      BY <1>1, <1>2, <2>1, <3>1, <3>4, <3>5, <3>6, JobMoves
    <3>8. job'[Ticker] = k
      BY <1>1, <1>2, <3>1, <3>4 DEF JobsOK
    <3>9. ArrivedMove'
      BY <3>5, <3>8 DEF ArrivedMove, Is
    <3>10. QED BY <3>7, <3>9
  <2>3. CASE ~(Verdict # GoesOn /\ Running)
    <3>1. pc' = "idle" /\ job' = job
      BY <2>3 DEF Judge
    <3>2. QED BY <1>1, <1>2, <2>1, <3>1, JobsKept DEF ArrivedMove
  <2>4. QED BY <2>2, <2>3
<1>7. ChoiceIsHeld'
  BY <1>1, <1>2 DEF ChoiceIsHeld
<1>8. QED BY <1>5, <1>6, <1>7 DEF ThreadInv

-----------------------------------------------------------------------------
(* Theorems *)

LEMMA ThreadInvInit == ThreadInit => ThreadInv
<1> SUFFICES ASSUME ThreadInit PROVE ThreadInv
  OBVIOUS
<1>1. Init /\ job = [x \in Workers |-> Free]
  BY DEF ThreadInit
<1>2. TypeOK
  BY <1>1, TypeInit
<1>3. JobsOK
  <2>1. JobFits(Free)
    BY <1>1 DEF Init, JobFits, Free
  <2>2. Is(Ticker, "free") /\ job[Ticker].step = "free"
    BY <1>1 DEF Is, Free, Workers
  <2>3. QED BY <1>1, <2>1, <2>2, FreeJob DEF JobsOK, TickerFits
<1>4. ArrivedMove /\ ChoiceIsHeld
  BY <1>1 DEF Init, ArrivedMove, ChoiceIsHeld
<1>5. QED BY <1>2, <1>3, <1>4 DEF ThreadInv

LEMMA ThreadInvStep == ThreadInv /\ [ThreadNext]_threadVars => ThreadInv'
<1> SUFFICES ASSUME ThreadInv, [ThreadNext]_threadVars PROVE ThreadInv'
  OBVIOUS
<1>1. CASE Elapse /\ UNCHANGED job
  BY <1>1, InvOfElapse
<1>2. CASE TickOn /\ UNCHANGED job
  BY <1>2, InvOfTickOn
<1>3. CASE Judge
  BY <1>3, InvOfJudge
<1>4. CASE Finish(Ticker)
  BY <1>4, InvOfFinish DEF Workers
<1>5. ASSUME NEW r \in Requests,
             \/ \E aim \in Aims : AskMove(r, aim)
             \/ \E wish \in Wishes : AskUnlock(r, wish)
             \/ \E o \in Resigners : AskResign(r, o)
      PROVE  ThreadInv'
  BY <1>5, InvOfAsk
<1>6. ASSUME NEW r \in Requests, Request(r) PROVE ThreadInv'
  <2>1. r \in Workers
    BY DEF Workers
  <2>2. QED BY <1>6, <2>1, InvOfCheck, InvOfStart, InvOfAddKind, InvOfRecordChoice, InvOfFinish
            DEF Request
<1>7. CASE UNCHANGED threadVars
  <2>1. UNCHANGED vars /\ UNCHANGED job
    BY <1>7 DEF threadVars
  <2>2. Grows /\ UNCHANGED pc
    BY <2>1 DEF ThreadInv, TypeOK, TimesOK, vars, timeVars, unlockVars, tickVars, Grows
  <2>3. JobsOK'
    BY <2>1, <2>2, JobsKept DEF ThreadInv
  <2>4. QED BY <2>1, <2>3, SameMatch
<1>8. QED BY <1>1, <1>2, <1>3, <1>4, <1>5, <1>6, <1>7 DEF ThreadNext

LEMMA ThreadInvariance == ThreadSpec => []ThreadInv
<1>1. ThreadInit => ThreadInv
  BY ThreadInvInit
<1>2. ThreadInv /\ [ThreadNext]_threadVars => ThreadInv'
  BY ThreadInvStep
<1>3. QED BY <1>1, <1>2, PTL DEF ThreadSpec

\* The state of a match keeps its types, its instants their order and its moves
\* somewhere to go, also with any number of requests on threads.
THEOREM ThreadTypes == ThreadSpec => []TypeOK
<1>1. ThreadInv => TypeOK
  BY DEF ThreadInv
<1>2. QED BY <1>1, ThreadInvariance, PTL

\* Whatever thread or tick recorded it, a choice on record is held.
THEOREM ChoicesHeld == ThreadSpec => []ChoiceIsHeld
<1>1. ThreadInv => ChoiceIsHeld
  BY DEF ThreadInv
<1>2. QED BY <1>1, ThreadInvariance, PTL

\* Nobody is let in once the match has ended.
LEMMA NobodyEnters ==
  ASSUME ThreadInv, ThreadNext, status = "ended", NEW r \in Requests, LetIn(r)'
  PROVE  LetIn(r)
<1>1. job \in [Workers -> Jobs] /\ r \in Workers /\ r # Ticker /\ ~Running
  BY ThreadAssumption DEF ThreadInv, JobsOK, Workers, Running
<1>2. CASE UNCHANGED job
  BY <1>2 DEF LetIn
<1>3. CASE Judge \/ Finish(Ticker)
  <2>1. job'[r] = job[r]
    BY <1>1, <1>3 DEF Judge, Finish, SetStatus, SetWinner, SetReason, Goto, Done
  <2>2. QED BY <2>1 DEF LetIn
<1>4. ASSUME NEW q \in Requests, q # r,
             \/ \E aim \in Aims : AskMove(q, aim)
             \/ \E wish \in Wishes : AskUnlock(q, wish)
             \/ \E o \in Resigners : AskResign(q, o)
             \/ Request(q)
      PROVE  LetIn(r)
  <2>1. job'[r] = job[r]
    BY <1>1, <1>4 DEF AskMove, AskUnlock, AskResign, Ask, Request, CheckMove, StartIt, CheckUnlock,
                      AddKind, RecordChoice, CheckResign, Finish, SetStatus, SetWinner, SetReason,
                      Goto, Done
  <2>2. QED BY <2>1 DEF LetIn
<1>5. ASSUME \/ \E aim \in Aims : AskMove(r, aim)
             \/ \E wish \in Wishes : AskUnlock(r, wish)
             \/ \E o \in Resigners : AskResign(r, o)
      PROVE  LetIn(r)
  <2>1. CASE \E aim \in Aims : AskMove(r, aim)
    BY <1>1, <2>1 DEF AskMove, Ask, Free, LetIn
  <2>2. CASE \E wish \in Wishes : AskUnlock(r, wish)
    BY <1>1, <2>2 DEF AskUnlock, Ask, Free, LetIn
  <2>3. CASE \E o \in Resigners : AskResign(r, o)
    BY <1>1, <2>3 DEF AskResign, Ask, Free, LetIn
  <2>4. QED BY <1>5, <2>1, <2>2, <2>3
<1>6. ASSUME CheckMove(r) \/ CheckUnlock(r) \/ CheckResign(r) PROVE LetIn(r)
  <2>1. Done(r)
    BY <1>1, <1>6 DEF CheckMove, CheckUnlock, CheckResign, Accepts
  <2>2. job'[r].step = "done"
    BY <1>1, <2>1 DEF Done, Free
  <2>3. QED BY <2>2 DEF LetIn
<1>7. ASSUME StartIt(r) \/ AddKind(r) \/ RecordChoice(r) \/ Finish(r) PROVE LetIn(r)
  BY <1>7 DEF StartIt, AddKind, RecordChoice, Finish, SetStatus, SetWinner, SetReason, Is, LetIn
<1>8. QED BY <1>2, <1>3, <1>4, <1>5, <1>6, <1>7 DEF ThreadNext, Request

\* Once the match has ended and the requests that were let in are done, only their
\* successors' questions are left to come.
LEMMA EndedStands ==
  ASSUME ThreadInv, ThreadNext, status = "ended", Idle, \A r \in Requests : ~LetIn(r)
  PROVE  UNCHANGED <<outcomeVars, unlockVars, pieces, actionVars>>
<1>1. ~Running /\ pc = "idle" /\ Is(Ticker, "free")
  BY DEF ThreadInv, JobsOK, TickerFits, Running, Idle
<1>2. ~Elapse /\ ~TickOn /\ ~Judge /\ ~Finish(Ticker)
  BY <1>1 DEF Elapse, TickOn, TickBegin, AutoUnlock, Contacts, Duel, Judge, Finish, SetStatus,
              SetWinner, SetReason, Is
<1>3. ASSUME NEW r \in Requests,
             \/ \E aim \in Aims : AskMove(r, aim)
             \/ \E wish \in Wishes : AskUnlock(r, wish)
             \/ \E o \in Resigners : AskResign(r, o)
             \/ CheckMove(r) \/ CheckUnlock(r) \/ CheckResign(r)
      PROVE  UNCHANGED vars
  BY <1>3 DEF AskMove, AskUnlock, AskResign, Ask, CheckMove, CheckUnlock, CheckResign
<1>4. ASSUME NEW r \in Requests PROVE ~(StartIt(r) \/ AddKind(r) \/ RecordChoice(r) \/ Finish(r))
  BY <1>4 DEF StartIt, AddKind, RecordChoice, Finish, SetStatus, SetWinner, SetReason, Is, LetIn
<1>5. UNCHANGED vars
  BY <1>2, <1>3, <1>4 DEF ThreadNext, Request
<1>6. QED BY <1>5 DEF vars

\* After the end no request is let in, and with the last of those that were the
\* result, the board and the unlocks stand.
THEOREM EndStands == ThreadSpec => EndSettles
<1> DEFINE Settles == status = "ended" =>
             /\ \A r \in Requests : LetIn(r)' => LetIn(r)
             /\ Idle /\ (\A r \in Requests : ~LetIn(r))
                  => UNCHANGED <<outcomeVars, unlockVars, pieces, actionVars>>
<1>1. ThreadInv /\ [ThreadNext]_threadVars => [Settles]_threadVars
  BY NobodyEnters, EndedStands
<1>2. QED BY <1>1, ThreadInvariance, PTL DEF ThreadSpec, EndSettles

\* As long as the match runs nobody has written a result.
NoResultYet ==
  Running => /\ winner = NoPlayer /\ reason = GoesOn
             /\ \A x \in Workers : job[x].step \notin {"winner", "reason"}

OpenInv == RunningIsOpen /\ NoResultYet

\* A step that leaves outcome and living pieces alone, and takes no worker on to the
\* last steps of finish_match.
LEMMA OpenStays ==
  ASSUME OpenInv, UNCHANGED <<status, winner, reason>>, Idle' => Idle,
         \A p \in Pieces : pieces'[p].alive = pieces[p].alive,
         \A x \in Workers : \/ job'[x].step = job[x].step
                            \/ job'[x].step \notin {"winner", "reason"}
  PROVE  OpenInv'
<1>1. LivingSides' = LivingSides
  BY LivingSidesKept
<1>2. RunningIsOpen'
  BY <1>1 DEF OpenInv, RunningIsOpen, Running
<1>3. NoResultYet'
  BY DEF OpenInv, NoResultYet, Running
<1>4. QED BY <1>2, <1>3 DEF OpenInv

LEMMA OpenFinish ==
  ASSUME ThreadInv, OpenInv, NEW x \in Workers, Finish(x)
  PROVE  OpenInv'
<1>1. status' # "running"
  <2>1. CASE SetStatus(x)
    BY <2>1 DEF SetStatus
  <2>2. CASE SetWinner(x) \/ SetReason(x)
    <3>1. job[x].step \in {"winner", "reason"} /\ status' = status
      BY <2>2 DEF SetWinner, SetReason, Is
    <3>2. QED BY <3>1 DEF OpenInv, NoResultYet, Running
  <2>3. QED BY <2>1, <2>2 DEF Finish
<1>2. QED BY <1>1 DEF OpenInv, RunningIsOpen, NoResultYet, Running

LEMMA OpenJudge ==
  ASSUME ThreadInv, OpenInv, Judge
  PROVE  OpenInv'
<1>1. /\ pieces' = Settled /\ pc = "duels" /\ Is(Ticker, "free")
      /\ UNCHANGED <<status, winner, reason>> /\ job \in [Workers -> Jobs]
  BY DEF Judge, outcomeVars, ThreadInv, JobsOK
<1>2. \A p \in Pieces : pieces'[p].alive = pieces[p].alive
  BY <1>1, SettledPiece DEF ThreadInv, ArrivedMove
<1>3. LivingSides' = LivingSides
  BY <1>2, LivingSidesKept
<1>4. NoResultYet'
  <2>1. \A x \in Workers : \/ job'[x] = job[x]
                           \/ job'[x].step = "status"
    <3>1. CASE UNCHANGED job
      BY <3>1
    <3>2. CASE ~UNCHANGED job
      BY <1>1, <3>2 DEF Judge, Free
    <3>3. QED BY <3>1, <3>2
  <2>2. QED BY <1>1, <2>1 DEF OpenInv, NoResultYet, Running
<1>5. RunningIsOpen'
  <2> SUFFICES ASSUME Idle', Running' PROVE LivingSides = Players
    BY <1>3, <1>4 DEF RunningIsOpen, NoResultYet, Running
  <2>1. Verdict = GoesOn
    BY <1>1 DEF Judge, tickVars, Idle, Running
  <2>2. QED BY <2>1, VerdictJustified DEF GoesOn
<1>6. QED BY <1>4, <1>5 DEF OpenInv

LEMMA OpenStep == ThreadInv /\ OpenInv /\ [ThreadNext]_threadVars => OpenInv'
<1> SUFFICES ASSUME ThreadInv, OpenInv, [ThreadNext]_threadVars PROVE OpenInv'
  OBVIOUS
<1>1. CASE UNCHANGED job /\ (Elapse \/ TickBegin \/ \E w \in Waves : AutoUnlock(w))
  <2>1. UNCHANGED <<status, winner, reason, pieces>> /\ (Idle' => Idle)
    BY <1>1 DEF Elapse, TickBegin, AutoUnlock, outcomeVars, tickVars, Idle
  <2>2. QED BY <1>1, <2>1, OpenStays
<1>2. CASE UNCHANGED job /\ (Contacts \/ \E a, b \in Pieces : Duel(a, b))
  <2>1. UNCHANGED <<status, winner, reason>> /\ ~Idle'
    BY <1>2 DEF Contacts, Duel, outcomeVars, Idle
  <2>2. QED BY <1>2, <2>1 DEF OpenInv, RunningIsOpen, NoResultYet, Running
<1>3. CASE Judge \/ Finish(Ticker) \/ \E r \in Requests : Finish(r)
  BY <1>3, OpenJudge, OpenFinish DEF Workers
<1>4. ASSUME NEW r \in Requests, StartIt(r) PROVE OpenInv'
  <2> DEFINE p == job[r].aim[1]
             m == StartMove(pieces[p], job[r].path, job[r].at)
  <2>1. /\ job \in [Workers -> Jobs] /\ job[r] \in Jobs /\ JobFits(job[r]) /\ r \in Workers
        /\ job[r].step = "start" /\ pieces \in [Pieces -> PieceStates]
    BY <1>4 DEF ThreadInv, JobsOK, Workers, StartIt, Is, TypeOK, PiecesOK
  <2>2. p \in Pieces /\ job[r].path \in Seq(Cells) /\ job[r].at \in Nat
    BY <2>1 DEF JobFits, Jobs
  <2>3. m.alive = pieces[p].alive
    BY <2>1, <2>2, StartMovePiece
  <2>4. pieces' = [pieces EXCEPT ![p] = m]
    BY <1>4 DEF StartIt
  <2> HIDE DEF m
  <2>5. \A q \in Pieces : pieces'[q].alive = pieces[q].alive
    BY <2>1, <2>2, <2>3, <2>4
  <2>6. UNCHANGED <<status, winner, reason, pc>>
    BY <1>4 DEF StartIt, outcomeVars, tickVars
  <2>7. \A x \in Workers : job'[x].step = job[x].step \/ job'[x].step \in {"free", "done"}
    BY <1>4, <2>1 DEF StartIt, Done, Free
  <2>8. QED BY <2>5, <2>6, <2>7, OpenStays DEF Idle
<1>5. ASSUME NEW r \in Requests,
             \/ CheckMove(r) \/ CheckUnlock(r) \/ AddKind(r) \/ RecordChoice(r) \/ CheckResign(r)
             \/ \E aim \in Aims : AskMove(r, aim)
             \/ \E wish \in Wishes : AskUnlock(r, wish)
             \/ \E o \in Resigners : AskResign(r, o)
      PROVE  OpenInv'
  <2>1. UNCHANGED <<status, winner, reason, pieces, pc>>
    <3>1. CASE CheckMove(r) \/ CheckUnlock(r) \/ CheckResign(r)
      BY <3>1 DEF CheckMove, CheckUnlock, CheckResign, vars, outcomeVars, tickVars
    <3>2. CASE AddKind(r) \/ RecordChoice(r)
      BY <3>2 DEF AddKind, RecordChoice, outcomeVars, tickVars
    <3>3. CASE \/ \E aim \in Aims : AskMove(r, aim)
               \/ \E wish \in Wishes : AskUnlock(r, wish)
               \/ \E o \in Resigners : AskResign(r, o)
      BY <3>3 DEF AskMove, AskUnlock, AskResign, Ask, vars, outcomeVars, tickVars
    <3>4. QED BY <1>5, <3>1, <3>2, <3>3
  <2>2. job \in [Workers -> Jobs] /\ r \in Workers
    BY DEF ThreadInv, JobsOK, Workers
  <2>3. \A x \in Workers : job'[x].step = job[x].step \/ job'[x].step \notin {"winner", "reason"}
    <3>1. CASE CheckMove(r) \/ CheckUnlock(r) \/ AddKind(r) \/ RecordChoice(r) \/ CheckResign(r)
      <4> DEFINE Calm == \A x \in Workers : \/ job'[x].step = job[x].step
                                           \/ job'[x].step \notin {"winner", "reason"}
      <4>1. Done(r) => Calm
        BY <2>2 DEF Done, Free
      <4>2. Goto(r, "add") \/ Goto(r, "record") \/ Goto(r, "status") => Calm
        BY <2>2 DEF Goto, Jobs
      <4>3. ASSUME NEW path, job' = [job EXCEPT ![r].step = "start", ![r].path = path] PROVE Calm
        BY <2>2, <4>3 DEF Jobs
      <4> HIDE DEF Calm
      <4>4. CASE CheckMove(r)
        <5>1. \/ Done(r)
              \/ \E path : job' = [job EXCEPT ![r].step = "start", ![r].path = path]
          BY <4>4, Zenon DEF CheckMove
        <5>2. CASE \E path : job' = [job EXCEPT ![r].step = "start", ![r].path = path]
          <6>1. PICK path : job' = [job EXCEPT ![r].step = "start", ![r].path = path]
            BY <5>2
          <6>2. QED BY <4>3, <6>1 DEF Calm
        <5>3. QED BY <4>1, <5>1, <5>2 DEF Calm
      <4>5. CASE CheckUnlock(r) \/ AddKind(r) \/ RecordChoice(r) \/ CheckResign(r)
        <5>1. Goto(r, "add") \/ Goto(r, "record") \/ Goto(r, "status") \/ Done(r)
          BY <4>5, Zenon DEF CheckUnlock, AddKind, RecordChoice, CheckResign
        <5>2. QED BY <4>1, <4>2, <5>1 DEF Calm
      <4>6. QED BY <3>1, <4>4, <4>5
    <3>2. CASE \E aim \in Aims : AskMove(r, aim)
      BY <2>2, <3>2 DEF AskMove, Ask, Free
    <3>3. CASE \E wish \in Wishes : AskUnlock(r, wish)
      BY <2>2, <3>3 DEF AskUnlock, Ask, Free
    <3>4. CASE \E o \in Resigners : AskResign(r, o)
      BY <2>2, <3>4 DEF AskResign, Ask, Free
    <3>5. QED BY <1>5, <3>1, <3>2, <3>3, <3>4
  <2>4. QED BY <2>1, <2>3, OpenStays DEF Idle
<1>6. CASE UNCHANGED threadVars
  BY <1>6, OpenStays DEF threadVars, vars, outcomeVars, tickVars, Idle
<1>7. QED BY <1>1, <1>2, <1>3, <1>4, <1>5, <1>6 DEF ThreadNext, TickOn, Request

\* While a match runs both generals live between ticks and no result is recorded,
\* however a tick and resignations meet in finish_match.
THEOREM RunningStaysOpen == ThreadSpec => []RunningIsOpen
<1>1. ThreadInit => OpenInv
  <2> SUFFICES ASSUME ThreadInit PROVE OpenInv
    OBVIOUS
  <2>1. Init /\ job = [x \in Workers |-> Free]
    BY DEF ThreadInit
  <2>2. LivingSides = {Owner(g) : g \in Generals}
    BY <2>1 DEF Init, LivingSides, Generals
  <2>3. {Owner(g) : g \in Generals} = Players
    BY BoardAssumption, PieceFacts DEF Generals
  <2>4. QED BY <2>1, <2>2, <2>3 DEF Init, OpenInv, RunningIsOpen, NoResultYet, Free
<1>2. ThreadInv /\ OpenInv /\ [ThreadNext]_threadVars => OpenInv'
  BY OpenStep
<1>3. OpenInv => RunningIsOpen
  BY DEF OpenInv
<1>4. QED BY <1>1, <1>2, <1>3, ThreadInvariance, PTL DEF ThreadSpec
=============================================================================
