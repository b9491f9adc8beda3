---------------------------- MODULE MatchThreads ----------------------------
(***************************************************************************)
(* Match with commands over HTTP, the way the browser sends all of them.   *)
(* The routes of app/api/command_routes.py are plain functions, which      *)
(* FastAPI runs on a pool of threads: a request reads the time, checks and *)
(* writes at any moment, also between two steps of a tick, and nothing     *)
(* holds a lock.  finish_match is three assignments after a check, for the *)
(* tick as for a request.  A command over the WebSocket is a request whose *)
(* steps follow each other without a break, and is not shown apart.  Nobody *)
(* leaves here: presence is read once, by the check.                       *)
(*                                                                         *)
(* The assignments of start_move count as one step, and so do the three of *)
(* apply_auto_unlock_for_wave.                                             *)
(***************************************************************************)
EXTENDS Match

CONSTANT Requests   \* requests that are made, at once or one after the other

VARIABLE job        \* what each request, and the tick within finish_match, is doing

threadVars == <<vars, job>>

Ticker == "tick"
ASSUME ThreadAssumption == Ticker \notin Requests

Workers == Requests \cup {Ticker}

\* Before and after a request, or within one: the next step, its now_ms, what it
\* asks for, the path planned, and the result it is about to record.
Free == [step |-> "free", at |-> 0, aim |-> <<0, <<0, 0>>>>, path |-> << >>, wish |-> <<NoPlayer, NoKind>>,
         result |-> <<NoPlayer, GoesOn>>]

Is(x, step) == job[x].step = step
Goto(x, step) == job' = [job EXCEPT ![x].step = step]
Done(x) == job' = [job EXCEPT ![x] = [Free EXCEPT !.step = IF x = Ticker THEN "free" ELSE "done"]]

ThreadInit == Init /\ job = [x \in Workers |-> Free]

-----------------------------------------------------------------------------
(* Requests *)

\* The route reads the time, then the handler looks for the player.
Ask(r, request) ==
  /\ Is(r, "free")
  /\ job' = [job EXCEPT ![r] = request]
  /\ UNCHANGED vars

AskMove(r, aim)    == Ask(r, [Free EXCEPT !.step = "move", !.at = clock, !.aim = aim])
AskUnlock(r, wish) == Ask(r, [Free EXCEPT !.step = "unlock", !.at = clock, !.wish = wish])
AskResign(r, o)    == Ask(r, [Free EXCEPT !.step = "resign", !.result = <<Opponent(o), "resign">>])

\* Mutant: the status of the match is not looked at.
Accepts_AlsoAfterEnd(o) == lifecycle[o] # "offline"

\* The match runs, and the player is online.
Accepts(o) == Running /\ lifecycle[o] # "offline"

\* handle_move_command up to build_path
CheckMove(r) ==
  /\ Is(r, "move")
  /\ LET p == job[r].aim[1]
         b == job[r].aim[2]
     IN  IF Accepts(Owner(p)) /\ MayMove(p, b, job[r].at)
         THEN job' = [job EXCEPT ![r].step = "start",
                                 ![r].path = BuildPath(Kind(p), pieces[p].cell, b)]
         ELSE Done(r)
  /\ UNCHANGED vars

\* and from start_move on, whatever has become of the piece.
StartIt(r) ==
  /\ Is(r, "start")
  /\ pieces' = [pieces EXCEPT ![job[r].aim[1]] = StartMove(@, job[r].path, job[r].at)]
  /\ lastAction' = job[r].at
  /\ Done(r)
  /\ UNCHANGED <<timeVars, outcomeVars, phase, unlockVars, lastCapture, lifecycle, tickVars>>

\* choose_unlock: checks, the kind, the record.
CheckUnlock(r) ==
  /\ Is(r, "unlock")
  /\ LET wish == job[r].wish
     IN  IF Accepts(wish[1]) /\ MayChoose(wish[1], wish[2], job[r].at)
         THEN Goto(r, "add") ELSE Done(r)
  /\ UNCHANGED vars

AddKind(r) ==
  /\ Is(r, "add")
  /\ unlocked' = [unlocked EXCEPT ![job[r].wish[1]] = @ \cup {job[r].wish[2]}]
  /\ Goto(r, "record")
  /\ UNCHANGED <<timeVars, outcomeVars, phase, choice, processed, pieces, actionVars, lifecycle, tickVars>>

RecordChoice(r) ==
  /\ Is(r, "record")
  /\ choice' = [choice EXCEPT ![job[r].wish[1]][CurrentWave(job[r].at)] = job[r].wish[2]]
  /\ Done(r)
  /\ UNCHANGED <<timeVars, outcomeVars, phase, unlocked, processed, pieces, actionVars, lifecycle, tickVars>>

\* The checks of handle_resign_command, apply_resign and finish_match: the last counts.
CheckResign(r) ==
  /\ Is(r, "resign")
  /\ IF Accepts(Opponent(job[r].result[1])) THEN Goto(r, "status") ELSE Done(r)
  /\ UNCHANGED vars

-----------------------------------------------------------------------------
(* finish_match after its check *)

SetStatus(x) ==
  /\ Is(x, "status") /\ status' = "ended" /\ Goto(x, "winner")
  /\ UNCHANGED <<timeVars, winner, reason, phase, unlockVars, pieces, actionVars, lifecycle, tickVars>>

SetWinner(x) ==
  /\ Is(x, "winner") /\ winner' = job[x].result[1] /\ Goto(x, "reason")
  /\ UNCHANGED <<timeVars, status, reason, phase, unlockVars, pieces, actionVars, lifecycle, tickVars>>

SetReason(x) ==
  /\ Is(x, "reason") /\ reason' = job[x].result[2] /\ Done(x)
  /\ IF x = Ticker THEN pc' = "idle" /\ arrived' = {} ELSE UNCHANGED <<pc, arrived>>
  /\ UNCHANGED <<timeVars, status, winner, phase, unlockVars, pieces, actionVars, lifecycle, duels>>

Finish(x) == SetStatus(x) \/ SetWinner(x) \/ SetReason(x)

-----------------------------------------------------------------------------
(* The tick *)

\* The end of the tick: FinishTick up to the check of finish_match.
Judge ==
  /\ pc = "duels" /\ duels = {} /\ Is(Ticker, "free")
  /\ pieces' = Settled
  /\ IF Verdict # GoesOn /\ Running
     THEN /\ job' = [job EXCEPT ![Ticker] =
               [Free EXCEPT !.step = "status",
                            !.result = <<IF Verdict = "general captured"
                                         THEN CHOOSE o \in Players : o \in LivingSides
                                         ELSE NoPlayer, Verdict>>]]
          /\ UNCHANGED tickVars
     ELSE /\ pc' = "idle" /\ arrived' = {} /\ UNCHANGED <<duels, job>>
  /\ UNCHANGED <<timeVars, outcomeVars, phase, unlockVars, actionVars, lifecycle>>

TickOn ==
  \/ TickBegin \/ (\E w \in Waves : AutoUnlock(w)) \/ Contacts \/ (\E a, b \in Pieces : Duel(a, b))

Request(r) ==
  \/ CheckMove(r) \/ StartIt(r)
  \/ CheckUnlock(r) \/ AddKind(r) \/ RecordChoice(r)
  \/ CheckResign(r) \/ Finish(r)

ThreadNext ==
  \/ Elapse /\ UNCHANGED job
  \/ TickOn /\ UNCHANGED job
  \/ Judge \/ Finish(Ticker)
  \/ \E r \in Requests :
       \/ \E aim \in Aims : AskMove(r, aim)
       \/ \E wish \in Wishes : AskUnlock(r, wish)
       \/ \E o \in Resigners : AskResign(r, o)
       \/ Request(r)

ThreadSpec == ThreadInit /\ [][ThreadNext]_threadVars

\* The loop keeps ticking, time passes, and a thread that has begun a request goes on.
ThreadFairSpec ==
  /\ ThreadSpec
  /\ WF_threadVars(Elapse /\ UNCHANGED job)
  /\ WF_threadVars((TickOn /\ UNCHANGED job) \/ Judge \/ Finish(Ticker))
  /\ \A r \in Requests : WF_threadVars(Request(r))

-----------------------------------------------------------------------------
(* Properties *)

\* A choice on record is held, whichever of the tick and the threads wrote it and in
\* whatever order they wrote.
ChoiceIsHeld ==
  \A o \in Players, w \in Waves : choice[o][w] # NoKind => choice[o][w] \in unlocked[o]

\* While the match runs both generals live between ticks, and no result is recorded.
RunningIsOpen ==
  Idle /\ Running => LivingSides = Players /\ winner = NoPlayer /\ reason = GoesOn

LetIn(r) == job[r].step \notin {"free", "move", "unlock", "resign", "done"}

\* Only requests that were let in before the end touch a match that has ended; when
\* the last of them is done, result, board and unlocks stand.
EndSettles ==
  [][status = "ended" =>
       /\ \A r \in Requests : LetIn(r)' => LetIn(r)
       /\ Idle /\ (\A r \in Requests : ~LetIn(r))
            => UNCHANGED <<outcomeVars, unlockVars, pieces, actionVars>>]_threadVars

Overdue(p) == Mover(p) /\ tickAt >= MoveEnd(Kind(p), pieces[p])

\* A tick that finds a move overdue ends it, by arrival, fall or a new command, even
\* when a slow thread set it off after the moment it should have ended and when the
\* match is over with that tick: no move is left hanging.
MovesEnd == \A p \in Pieces : (pc = "unlock" /\ Overdue(p)) ~> ~Overdue(p)

\* While the loop lives, that is as long as ticks go on, a match with draws allowed
\* ends, also when nobody plays or one side shuffles for as long as it can
\* (check_draw_conditions), and then its reason is recorded.  A match whose loop died
\* (Live.LoopDies) or that a crash left without one is not covered.
MatchEnds == AllowDraw ~> (status = "ended" /\ reason # GoesOn)
=============================================================================
