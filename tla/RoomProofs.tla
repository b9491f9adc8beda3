----------------------------- MODULE RoomProofs -----------------------------
(***************************************************************************)
(* What holds of every room, on a server that may crash at any step.  The  *)
(* types, and what a crash leaves of a room at rest, hold however many     *)
(* requests run at once; the rest when requests come one after the other,  *)
(* next to the tick and a command, for any number of players that come and *)
(* go and any number of crashes: two runs with two workers show that this  *)
(* assumption is needed.                                                   *)
(***************************************************************************)
EXTENDS Restart, TLAPS

LEMMA MinOfSeats ==
  ASSUME NEW S, S \subseteq Seats, S # {}
  PROVE  Min(S) \in S
<1>1. \E x \in S : \A y \in S : x <= y
  <2>1. CASE 1 \in S
    <3>1. \A y \in S : 1 <= y
      BY DEF Seats
    <3>2. QED BY <2>1, <3>1
  <2>2. CASE 1 \notin S
    <3>1. S = {2}
      BY <2>2 DEF Seats
    <3>2. QED BY <3>1
  <2>3. QED BY <2>1, <2>2
<1>2. QED BY <1>1 DEF Min

-----------------------------------------------------------------------------
(* Types, for any number of workers *)

WorkOK == work \in [Workers -> {Free} \cup [step : Steps, id : Ids, seat : Seats]]
PlayersOK == Taken \subseteq Seats /\ \A s \in Taken : players[s] \in Player
HostOK == hostSeat \in Seats \cup {NoSeat} /\ hostId \in Ids \cup {NoId}

LEMMA BusyWorker ==
  ASSUME WorkOK, NEW w \in Workers, ~Is(w, "free")
  PROVE  work[w] \in [step : Steps, id : Ids, seat : Seats]
BY DEF WorkOK, Is, Free

LEMMA GotoOK ==
  ASSUME WorkOK, NEW w \in Workers, ~Is(w, "free"), NEW step \in Steps
  PROVE  Goto(w, step) => WorkOK'
<1>1. work[w] \in [step : Steps, id : Ids, seat : Seats]
  BY BusyWorker
<1>2. [work[w] EXCEPT !.step = step] \in [step : Steps, id : Ids, seat : Seats]
  BY <1>1
<1>3. QED BY <1>2 DEF WorkOK, Goto

LEMMA DoneOK == ASSUME WorkOK, NEW w \in Workers PROVE Done(w) => WorkOK'
BY DEF WorkOK, Done

LEMMA BeginOK ==
  ASSUME WorkOK, PlayersOK, NEW w \in Workers, NEW s, NEW step \in Steps, Begin(w, s, step)
  PROVE  WorkOK'
<1>1. s \in Seats /\ players[s].id \in Ids
  BY DEF Begin, Authenticated, PlayersOK, Player
<1>2. QED BY <1>1 DEF WorkOK, Begin

\* A handler that writes to its player keeps the table of players well typed.
LEMMA ChangedPlayersOK ==
  ASSUME PlayersOK, NEW s \in Taken, NEW player \in Player,
         players' = [players EXCEPT ![s] = player]
  PROVE  PlayersOK' /\ Taken' = Taken
<1>1. Taken' = Taken
  BY DEF Taken
<1>2. \A q \in Taken : players'[q] \in Player
  BY DEF PlayersOK, Taken
<1>3. QED BY <1>1, <1>2 DEF PlayersOK

LEMMA PlayerChanges ==
  ASSUME NEW p \in Player
  PROVE  /\ MadeReady(p) \in Player /\ MadeReady(p).ready /\ MadeReady(p).id = p.id
         /\ MadeReady(p).online = p.online /\ MadeReady(p).lifecycle = "ready"
         /\ BackOnline(p) \in Player /\ BackOnline(p).online /\ BackOnline(p).id = p.id
         /\ BackOnline(p).lifecycle # "offline" /\ BackOnline(p).ready = p.ready
         /\ GoneOffline(p) \in Player /\ ~GoneOffline(p).online /\ GoneOffline(p).id = p.id
         /\ GoneOffline(p).lifecycle = "offline" /\ GoneOffline(p).ready = p.ready
         /\ SetOff(p) \in Player /\ SetOff(p).ready = p.ready /\ SetOff(p).id = p.id
         /\ SetOff(p).online = p.online
         /\ SetOff(p).lifecycle = p.lifecycle \/ (p.lifecycle # "offline" /\ SetOff(p).lifecycle = "running")
<1>1. /\ MadeReady(p) \in Player /\ MadeReady(p).ready /\ MadeReady(p).id = p.id
      /\ MadeReady(p).online = p.online /\ MadeReady(p).lifecycle = "ready"
  BY DEF Player, PlayerLifecycles, MadeReady
<1>2. /\ BackOnline(p) \in Player /\ BackOnline(p).online /\ BackOnline(p).id = p.id
      /\ BackOnline(p).lifecycle # "offline" /\ BackOnline(p).ready = p.ready
  BY DEF Player, PlayerLifecycles, BackOnline
<1>3. /\ GoneOffline(p) \in Player /\ ~GoneOffline(p).online /\ GoneOffline(p).id = p.id
      /\ GoneOffline(p).lifecycle = "offline" /\ GoneOffline(p).ready = p.ready
  BY DEF Player, PlayerLifecycles, GoneOffline
<1>4. /\ SetOff(p) \in Player /\ SetOff(p).ready = p.ready /\ SetOff(p).id = p.id
      /\ SetOff(p).online = p.online
      /\ SetOff(p).lifecycle = p.lifecycle \/ (p.lifecycle # "offline" /\ SetOff(p).lifecycle = "running")
  <2>1. CASE CanPlayerGo(p.lifecycle, "running")
    <3>1. p.lifecycle # "offline"
      BY <2>1 DEF CanPlayerGo, AllowedPlayerTransitions, Player, PlayerLifecycles
    <3>2. QED BY <2>1, <3>1 DEF SetOff, Player, PlayerLifecycles
  <2>2. CASE ~CanPlayerGo(p.lifecycle, "running")
    BY <2>2 DEF SetOff
  <2>3. QED BY <2>1, <2>2
<1>5. QED BY <1>1, <1>2, <1>3, <1>4

LEMMA RoomTypeInit == Init => TypeOK
BY RoomAssumption DEF Init, TypeOK, MatchStatuses, Taken, Free, NoSeat, NoId

LEMMA RoomTypeStep == TypeOK /\ [Next]_vars => TypeOK'
<1> SUFFICES ASSUME TypeOK, [Next]_vars PROVE TypeOK'
  OBVIOUS
<1>1. /\ WorkOK /\ PlayersOK /\ HostOK
      /\ stored \in BOOLEAN /\ status \in MatchStatuses
      /\ issued \in 0 .. MaxIds /\ expired \subseteq Ids
  BY DEF TypeOK, WorkOK, PlayersOK, HostOK
<1> SUFFICES /\ WorkOK' /\ PlayersOK' /\ HostOK'
             /\ stored' \in BOOLEAN /\ status' \in MatchStatuses
             /\ issued' \in 0 .. MaxIds /\ expired' \subseteq Ids
  BY DEF TypeOK, WorkOK, PlayersOK, HostOK
<1> USE <1>1
<1>2. ASSUME NEW w \in Workers, Join(w)
      PROVE  WorkOK' /\ issued' \in 0 .. MaxIds
  <2>1. FirstFree \in Seats
    BY DEF FirstFree, Seats
  <2>2. issued + 1 \in Ids
    BY <1>2, RoomAssumption DEF Join, Ids
  <2> DEFINE new == [step |-> "seat", id |-> issued + 1, seat |-> FirstFree]
  <2>3. new \in [step : Steps, id : Ids, seat : Seats]
    BY <2>1, <2>2 DEF Steps
  <2>4. work' = [work EXCEPT ![w] = new]
    BY <1>2 DEF Join
  <2>5. WorkOK'
    BY <2>3, <2>4 DEF WorkOK
  <2>6. issued' \in 0 .. MaxIds
    BY <1>2, RoomAssumption DEF Join
  <2>7. QED BY <2>5, <2>6
<1>3. ASSUME NEW w \in Workers, TakeSeat(w)
      PROVE  WorkOK' /\ PlayersOK'
  <2>1. work[w] \in [step : Steps, id : Ids, seat : Seats]
    BY <1>3, BusyWorker DEF TakeSeat, Is
  <2>2. Joined(work[w].id) \in Player
    BY <2>1 DEF Joined, Player, PlayerLifecycles
  <2>3. Taken' = Taken \cup {work[w].seat}
    BY <1>3 DEF TakeSeat, Taken
  <2>4. \A s \in Taken' : players'[s] \in Player
    BY <1>3, <2>2, <2>3 DEF TakeSeat, PlayersOK
  <2>5. PlayersOK'
    BY <2>1, <2>3, <2>4 DEF PlayersOK
  <2>6. WorkOK'
    BY <1>3, GotoOK DEF TakeSeat, Is, Steps
  <2>7. QED BY <2>5, <2>6
<1>4. ASSUME NEW w \in Workers, FirstIsHost(w)
      PROVE  WorkOK' /\ HostOK'
  <2>1. work[w] \in [step : Steps, id : Ids, seat : Seats]
    BY <1>4, BusyWorker DEF FirstIsHost, Is
  <2>2. HostOK'
    BY <1>4, <2>1 DEF FirstIsHost, HostOK
  <2>3. WorkOK'
    BY <1>4, GotoOK DEF FirstIsHost, Is, Steps
  <2>4. QED BY <2>2, <2>3
<1>5. ASSUME NEW w \in Workers, Save(w) \/ DropOrSave(w)
      PROVE  WorkOK' /\ stored' \in BOOLEAN
  BY <1>5, DoneOK DEF Save, DropOrSave
<1>6. ASSUME NEW w \in Workers, NEW s \in Taken,
             Ready(w, s) \/ Reconnect(w, s) \/ Leave(w, s) \/ Start(w, s)
      PROVE  WorkOK'
  BY <1>6, BeginOK DEF Ready, Reconnect, Leave, Start, Steps
<1>7. ASSUME NEW w \in Workers, MarkReady(w) \/ MarkOnline(w) \/ GoOffline(w)
      PROVE  WorkOK' /\ PlayersOK'
  <2>1. WorkOK'
    BY <1>7, GotoOK DEF MarkReady, MarkOnline, GoOffline, Is, Steps
  <2>2. CASE ~StillSeated(w)
    BY <1>7, <2>1, <2>2 DEF MarkReady, MarkOnline, GoOffline, Mark, PlayersOK, Taken
  <2>3. CASE StillSeated(w)
    <3> DEFINE p == players[work[w].seat]
    <3>1. work[w].seat \in Taken /\ p \in Player
      BY <2>3 DEF StillSeated, PlayersOK
    <3>2. PICK player \in {MadeReady(p), BackOnline(p), GoneOffline(p)} :
            players' = [players EXCEPT ![work[w].seat] = player]
      BY <1>7, <2>3 DEF MarkReady, MarkOnline, GoOffline, Mark
    <3>3. player \in Player
      BY <3>1, <3>2, PlayerChanges
    <3>4. QED BY <2>1, <3>1, <3>2, <3>3, ChangedPlayersOK
  <2>4. QED BY <2>2, <2>3
<1>8. ASSUME NEW w \in Workers, Remove(w)
      PROVE  WorkOK' /\ PlayersOK'
  <2>1. WorkOK'
    BY <1>8, GotoOK, DoneOK DEF Remove, Is, Steps
  <2>2. PlayersOK'
    BY <1>8 DEF Remove, PlayersOK, Taken, Restrict
  <2>3. QED BY <2>1, <2>2
<1>9. ASSUME NEW w \in Workers, Rehost(w)
      PROVE  WorkOK' /\ HostOK'
  <2>1. NewHostSeat \in Seats \cup {NoSeat}
    BY MinOfSeats DEF NewHostSeat, PlayersOK
  <2>2. HostOK'
    BY <1>9, <2>1 DEF Rehost, HostOK, PlayersOK, Player
  <2>3. QED BY <1>9, <2>2, GotoOK DEF Rehost, Is, Steps
<1>10. ASSUME NEW w \in Workers, Commit(w)
       PROVE  WorkOK' /\ PlayersOK' /\ status' \in MatchStatuses
  <2>1. WorkOK'
    BY <1>10, GotoOK DEF Commit, Is, Steps
  <2>2. \A s \in Taken : SetOff(players[s]) \in Player
    BY PlayerChanges DEF PlayersOK
  <2>3. PlayersOK'
    BY <1>10, <2>2 DEF Commit, PlayersOK, Taken
  <2>4. QED BY <1>10, <2>1, <2>3 DEF Commit, MatchStatuses
<1>11. CASE EngineEnds
  BY <1>11 DEF EngineEnds, MatchStatuses, WorkOK, PlayersOK, HostOK, Taken
<1>12. ASSUME NEW id \in Ids, Expire(id) PROVE expired' \subseteq Ids
  BY <1>12 DEF Expire
<1>13. CASE UNCHANGED vars
  BY <1>13 DEF vars, WorkOK, PlayersOK, HostOK, Taken
<1>14. CASE \E w \in Workers : Handle(w)
  <2>1. PICK w \in Workers : Handle(w)
    BY <1>14
  <2>2. CASE Join(w)
    BY <1>2, <2>2 DEF Join, PlayersOK, HostOK, Taken
  <2>3. CASE TakeSeat(w)
    BY <1>3, <2>3 DEF TakeSeat, HostOK
  <2>4. CASE FirstIsHost(w)
    BY <1>4, <2>4 DEF FirstIsHost, PlayersOK, Taken
  <2>5. CASE Save(w) \/ DropOrSave(w)
    BY <1>5, <2>5 DEF Save, DropOrSave, PlayersOK, HostOK, Taken
  <2>6. CASE \E s \in Taken : Ready(w, s) \/ Reconnect(w, s) \/ Leave(w, s) \/ Start(w, s)
    BY <1>6, <2>6 DEF Ready, Reconnect, Leave, Start, Begin, PlayersOK, HostOK, Taken
  <2>7. CASE MarkReady(w) \/ MarkOnline(w) \/ GoOffline(w)
    BY <1>7, <2>7 DEF MarkReady, MarkOnline, GoOffline, Mark, HostOK
  <2>8. CASE Remove(w)
    BY <1>8, <2>8 DEF Remove, HostOK
  <2>9. CASE Rehost(w)
    BY <1>9, <2>9 DEF Rehost, PlayersOK, Taken
  <2>10. CASE Commit(w)
    BY <1>10, <2>10 DEF Commit, HostOK
  <2>11. QED
    BY <2>1, <2>2, <2>3, <2>4, <2>5, <2>6, <2>7, <2>8, <2>9, <2>10 DEF Handle
<1>15. QED
  <2>1. CASE \E id \in Ids : Expire(id)
    BY <1>12, <2>1 DEF Expire, WorkOK, PlayersOK, HostOK, Taken
  <2>2. QED BY <1>11, <1>13, <1>14, <2>1 DEF Next

-----------------------------------------------------------------------------
\* One request at a time.
OneAtATime == \E w \in Workers : Workers = {w}

\* The parts of the inductive invariant.  The room itself:
HostMatches ==
  IF Taken = {} THEN hostSeat = NoSeat /\ hostId = NoId
  ELSE hostSeat \in Taken /\ hostId = players[hostSeat].id

Started == status # "waiting" => Taken = Seats /\ \A s \in Seats : players[s].ready

Present ==
  \A s \in Taken :
    /\ players[s].online <=> players[s].lifecycle # "offline"
    /\ ~players[s].online => status # "waiting"

\* What the checks of a request have established is still so at its later steps.
Checked(w) ==
  /\ ~Is(w, "free") => stored
  /\ work[w].step \in {"seat", "host", "remove", "rehost", "commit"} => status = "waiting"
  /\ Is(w, "offline") => status # "waiting"
  /\ Is(w, "seat") => work[w].seat \notin Taken
  /\ work[w].step \in {"host", "mark ready", "mark online", "remove", "offline", "commit"} => StillSeated(w)
  /\ Is(w, "mark ready") => CanPlayerGo(players[work[w].seat].lifecycle, "ready")
  /\ Is(w, "offline") => CanPlayerGo(players[work[w].seat].lifecycle, "offline")
  /\ Is(w, "commit") => Taken = Seats /\ \A s \in Seats : players[s].ready

\* The host is settled, but for the step before it is set.
HostSettled(w) ==
  /\ work[w].step \notin {"host", "rehost"} => HostMatches
  /\ Is(w, "host") /\ hostSeat # NoSeat => hostSeat \in Taken /\ hostId = players[hostSeat].id
  /\ Is(w, "host") /\ hostSeat = NoSeat => Taken = {work[w].seat}

\* A request that is about to save has left somebody in the room.
Inhabited(w) == work[w].step \in {"save", "join save"} => Taken # {}

Turn(w) == Started /\ Present /\ Checked(w) /\ HostSettled(w) /\ Inhabited(w)

TurnInv == TypeOK /\ \A w \in Workers : Turn(w)

-----------------------------------------------------------------------------
(* The bookkeeping of the worker *)

LEMMA TypeParts == TypeOK => WorkOK /\ PlayersOK /\ HostOK
BY DEF TypeOK, WorkOK, PlayersOK, HostOK

LEMMA WentTo ==
  ASSUME WorkOK, NEW w \in Workers, ~Is(w, "free"), NEW step \in Steps, Goto(w, step)
  PROVE  work'[w].step = step /\ work'[w].id = work[w].id /\ work'[w].seat = work[w].seat
BY BusyWorker DEF WorkOK, Goto

LEMMA WasDone ==
  ASSUME WorkOK, NEW w \in Workers, Done(w)
  PROVE  work'[w].step = "free" /\ work'[w].id = NoId /\ work'[w].seat = NoSeat
BY DEF WorkOK, Done, Free

LEMMA Began ==
  ASSUME WorkOK, NEW w \in Workers, NEW s, NEW step, Begin(w, s, step)
  PROVE  /\ work'[w].step = step /\ work'[w].id = players[s].id /\ work'[w].seat = s
         /\ s \in Taken /\ stored /\ Is(w, "free")
         /\ UNCHANGED <<stored, status, players, hostSeat, hostId, issued, Taken>>
BY DEF WorkOK, Begin, Authenticated, Taken

-----------------------------------------------------------------------------
(* Every step of a request keeps the invariant *)

LEMMA JoinTurn ==
  ASSUME TypeOK, NEW w \in Workers, Turn(w), Join(w)
  PROVE  Turn(w)'
<1>1. WorkOK
  BY TypeParts
<1>2. work'[w].step = "seat" /\ work'[w].seat = FirstFree
  BY <1>1 DEF Join, WorkOK
<1>3. /\ UNCHANGED <<stored, status, players, hostSeat, hostId, Taken>>
      /\ stored /\ status = "waiting" /\ FirstFree \notin Taken /\ work[w].step = "free"
  BY DEF Join, Taken, Is
<1>4. Started' /\ Present'
  BY <1>3 DEF Turn, Started, Present
<1>5. Checked(w)'
  BY <1>2, <1>3 DEF Checked, Is
<1>6. HostSettled(w)' /\ Inhabited(w)'
  BY <1>2, <1>3 DEF Turn, HostSettled, HostMatches, Inhabited, Is
<1>7. QED BY <1>4, <1>5, <1>6 DEF Turn

LEMMA TakeSeatTurn ==
  ASSUME TypeOK, NEW w \in Workers, Turn(w), TakeSeat(w)
  PROVE  Turn(w)'
<1>1. WorkOK /\ PlayersOK /\ HostOK
  BY TypeParts
<1> DEFINE k == work[w]
<1>2. /\ k.step = "seat" /\ ~Is(w, "free") /\ k \in [step : Steps, id : Ids, seat : Seats]
      /\ stored /\ status = "waiting" /\ k.seat \notin Taken
      /\ UNCHANGED <<stored, status, hostSeat, hostId>>
  BY <1>1, BusyWorker DEF TakeSeat, Is, Turn, Checked
<1>3. work'[w].step = "host" /\ work'[w].id = k.id /\ work'[w].seat = k.seat
  BY <1>1, <1>2, WentTo DEF TakeSeat, Steps
<1>4. /\ Taken' = Taken \cup {k.seat}
      /\ players'[k.seat] = Joined(k.id)
      /\ \A s \in Taken : players'[s] = players[s]
  BY <1>2 DEF TakeSeat, Taken
<1>5. Started'
  BY <1>2 DEF Started
<1>6. Present'
  BY <1>2, <1>4 DEF Turn, Present, Joined
<1>7. Checked(w)'
  BY <1>2, <1>3, <1>4 DEF Checked, Is, StillSeated, Joined
<1>8. HostMatches
  BY <1>2 DEF Turn, HostSettled
<1>9. HostSettled(w)'
  <2>1. hostSeat = NoSeat => Taken' = {k.seat}
    <3>1. NoSeat \notin Taken
      BY <1>1 DEF PlayersOK, Seats, NoSeat
    <3>2. QED BY <1>4, <1>8, <3>1 DEF HostMatches
  <2>2. QED BY <1>2, <1>3, <1>4, <1>8, <2>1 DEF HostSettled, HostMatches, Is
<1>10. Inhabited(w)'
  BY <1>3 DEF Inhabited, Is
<1>11. QED BY <1>5, <1>6, <1>7, <1>9, <1>10 DEF Turn

LEMMA FirstIsHostTurn ==
  ASSUME TypeOK, NEW w \in Workers, Turn(w), FirstIsHost(w)
  PROVE  Turn(w)'
<1>1. WorkOK
  BY TypeParts
<1>2. /\ work[w].step = "host" /\ ~Is(w, "free") /\ stored /\ status = "waiting"
      /\ work[w].seat \in Taken /\ players[work[w].seat].id = work[w].id
      /\ hostSeat # NoSeat => hostSeat \in Taken /\ hostId = players[hostSeat].id
      /\ UNCHANGED <<stored, status, players, Taken>>
  BY DEF FirstIsHost, Is, Turn, Checked, StillSeated, HostSettled, Taken
<1>3. work'[w].step = "join save"
  BY <1>1, <1>2, WentTo DEF FirstIsHost, Steps
<1>4. Started' /\ Present'
  BY <1>2 DEF Turn, Started, Present
<1>5. Checked(w)'
  BY <1>2, <1>3 DEF Checked, Is
<1>6. HostMatches'
  BY <1>2 DEF FirstIsHost, HostMatches
<1>7. HostSettled(w)' /\ Inhabited(w)'
  BY <1>2, <1>3, <1>6 DEF HostSettled, Inhabited, Is
<1>8. QED BY <1>4, <1>5, <1>7 DEF Turn

LEMMA SaveTurn ==
  ASSUME TypeOK, NEW w \in Workers, Turn(w), Save(w)
  PROVE  Turn(w)'
<1>1. WorkOK
  BY TypeParts
<1>2. /\ work[w].step \in {"save", "join save"}
      /\ UNCHANGED <<status, players, hostSeat, hostId, Taken>>
  BY DEF Save, Is, Taken
<1>3. work'[w].step = "free"
  BY <1>1, WasDone DEF Save
<1>4. Started' /\ Present'
  BY <1>2 DEF Turn, Started, Present
<1>5. Checked(w)'
  BY <1>3 DEF Checked, Is
<1>6. HostSettled(w)' /\ Inhabited(w)'
  BY <1>2, <1>3 DEF Turn, HostSettled, HostMatches, Inhabited, Is
<1>7. QED BY <1>4, <1>5, <1>6 DEF Turn

LEMMA BeginTurn ==
  ASSUME TypeOK, NEW w \in Workers, Turn(w), NEW s \in Taken,
         Ready(w, s) \/ Reconnect(w, s) \/ Leave(w, s) \/ Start(w, s)
  PROVE  Turn(w)'
<1>1. WorkOK
  BY TypeParts
<1>2. \/ Begin(w, s, "mark ready") /\ CanPlayerGo(players[s].lifecycle, "ready")
      \/ Begin(w, s, "mark online")
      \/ Begin(w, s, "remove") /\ status = "waiting"
      \/ Begin(w, s, "offline") /\ status # "waiting" /\ CanPlayerGo(players[s].lifecycle, "offline")
      \/ Begin(w, s, "commit") /\ status = "waiting" /\ Taken = Seats /\ \A q \in Taken : players[q].ready
  BY DEF Ready, Reconnect, Leave, Start, MayStart
<1>3. PICK step \in {"mark ready", "mark online", "remove", "offline", "commit"} :
        /\ Begin(w, s, step)
        /\ step = "mark ready" => CanPlayerGo(players[s].lifecycle, "ready")
        /\ step \in {"remove", "commit"} => status = "waiting"
        /\ step = "offline" => status # "waiting" /\ CanPlayerGo(players[s].lifecycle, "offline")
        /\ step = "commit" => Taken = Seats /\ \A q \in Taken : players[q].ready
  BY <1>2
<1>4. /\ work'[w].step = step /\ work'[w].id = players[s].id /\ work'[w].seat = s
      /\ s \in Taken /\ stored /\ work[w].step = "free"
      /\ UNCHANGED <<stored, status, players, hostSeat, hostId, issued, Taken>>
  BY <1>1, <1>3, Began DEF Is
<1>5. Started' /\ Present'
  BY <1>4 DEF Turn, Started, Present
<1>6. Checked(w)'
  BY <1>3, <1>4 DEF Checked, Is, StillSeated
<1>7. HostSettled(w)' /\ Inhabited(w)'
  BY <1>3, <1>4 DEF Turn, HostSettled, HostMatches, Inhabited, Is
<1>8. QED BY <1>5, <1>6, <1>7 DEF Turn

LEMMA MarkTurn ==
  ASSUME TypeOK, NEW w \in Workers, Turn(w), MarkReady(w) \/ MarkOnline(w) \/ GoOffline(w)
  PROVE  Turn(w)'
<1>1. WorkOK /\ PlayersOK
  BY TypeParts
<1> DEFINE seat == work[w].seat
           p == players[seat]
<1>2. /\ ~Is(w, "free") /\ work[w].step \notin {"host", "rehost"} /\ stored /\ seat \in Taken
      /\ MarkReady(w) => CanPlayerGo(p.lifecycle, "ready")
      /\ GoOffline(w) => status # "waiting"
      /\ StillSeated(w) /\ UNCHANGED <<stored, status, hostSeat, hostId, issued>>
  BY DEF MarkReady, MarkOnline, GoOffline, Mark, Is, Turn, Checked, StillSeated
<1>3. p \in Player
  BY <1>1, <1>2 DEF PlayersOK
<1>4. PICK q \in {MadeReady(p), BackOnline(p), GoneOffline(p)} :
        /\ players' = [players EXCEPT ![seat] = q]
        /\ \/ q = MadeReady(p) /\ MarkReady(w)
           \/ q = BackOnline(p)
           \/ q = GoneOffline(p) /\ GoOffline(w)
  <2>1. MarkReady(w) => players' = [players EXCEPT ![seat] = MadeReady(p)]
    BY <1>2 DEF MarkReady, Mark
  <2>2. MarkOnline(w) => players' = [players EXCEPT ![seat] = BackOnline(p)]
    BY <1>2 DEF MarkOnline, Mark
  <2>3. GoOffline(w) => players' = [players EXCEPT ![seat] = GoneOffline(p)]
    BY <1>2 DEF GoOffline, Mark
  <2>4. QED BY <2>1, <2>2, <2>3
<1>5. p.online <=> p.lifecycle # "offline"
  BY <1>2 DEF Turn, Present
<1>6. /\ q.id = p.id /\ (p.ready => q.ready)
      /\ q.online <=> q.lifecycle # "offline"
      /\ ~q.online => status # "waiting"
  <2>1. CASE q = MadeReady(p) /\ MarkReady(w)
    <3>1. p.lifecycle # "offline"
      BY <1>2, <1>3, <2>1 DEF CanPlayerGo, AllowedPlayerTransitions
    <3>2. QED BY <1>3, <1>5, <2>1, <3>1, PlayerChanges
  <2>2. CASE q = BackOnline(p)
    BY <1>3, <2>2, PlayerChanges
  <2>3. CASE q = GoneOffline(p) /\ GoOffline(w)
    BY <1>2, <1>3, <2>3, PlayerChanges
  <2>4. QED BY <1>4, <2>1, <2>2, <2>3
<1>7. Taken' = Taken /\ players'[seat] = q /\ \A s \in Taken : s # seat => players'[s] = players[s]
  BY <1>2, <1>4 DEF Taken
<1>8. work'[w].step \in {"save", "leave save"}
  BY <1>1, <1>2, WentTo DEF MarkReady, MarkOnline, GoOffline, Steps
<1>9. Started'
  BY <1>2, <1>6, <1>7 DEF Turn, Started
<1>10. Present'
  <2> SUFFICES ASSUME NEW s \in Taken'
               PROVE  /\ players'[s].online <=> players'[s].lifecycle # "offline"
                      /\ ~players'[s].online => status' # "waiting"
    BY DEF Present
  <2>1. CASE s = seat
    BY <1>2, <1>6, <1>7, <2>1
  <2>2. CASE s # seat
    BY <1>2, <1>7, <2>2 DEF Turn, Present
  <2>3. QED BY <2>1, <2>2
<1>11. Checked(w)'
  BY <1>2, <1>8 DEF Checked, Is
<1>12. HostMatches
  BY <1>2 DEF Turn, HostSettled
<1>13. HostMatches'
  <2>1. \A s \in Taken : players'[s].id = players[s].id
    <3>1. \A s \in Taken : s = seat => players'[s].id = players[s].id
      BY <1>6, <1>7
    <3>2. \A s \in Taken : s # seat => players'[s].id = players[s].id
      BY <1>7
    <3>3. QED BY <3>1, <3>2
  <2>2. QED BY <1>2, <1>7, <1>12, <2>1 DEF HostMatches
<1>14. HostSettled(w)' /\ Inhabited(w)'
  BY <1>2, <1>7, <1>8, <1>13 DEF HostSettled, Inhabited, Is
<1>15. QED BY <1>9, <1>10, <1>11, <1>14 DEF Turn

LEMMA RemoveTurn ==
  ASSUME TypeOK, NEW w \in Workers, Turn(w), Remove(w)
  PROVE  Turn(w)'
<1>1. WorkOK
  BY TypeParts
<1>2. /\ work[w].step = "remove" /\ ~Is(w, "free") /\ stored /\ status = "waiting"
      /\ work[w].seat \in Taken
      /\ players' = Restrict(players, Taken \ {work[w].seat}) /\ Goto(w, "rehost")
      /\ UNCHANGED <<stored, status>>
  BY DEF Remove, Is, Turn, Checked, StillSeated
<1>3. work'[w].step = "rehost"
  BY <1>1, <1>2, WentTo DEF Steps
<1>4. Taken' \subseteq Taken /\ \A s \in Taken' : players'[s] = players[s]
  BY <1>2 DEF Taken, Restrict
<1>5. Started' /\ Present'
  BY <1>2, <1>4 DEF Turn, Started, Present
<1>6. Checked(w)' /\ HostSettled(w)' /\ Inhabited(w)'
  BY <1>2, <1>3 DEF Checked, HostSettled, Inhabited, Is
<1>7. QED BY <1>5, <1>6 DEF Turn

LEMMA RehostTurn ==
  ASSUME TypeOK, NEW w \in Workers, Turn(w), Rehost(w)
  PROVE  Turn(w)'
<1>1. WorkOK /\ PlayersOK
  BY TypeParts
<1>2. /\ ~Is(w, "free") /\ stored /\ UNCHANGED <<stored, status, players, Taken>>
  BY DEF Rehost, Is, Turn, Checked, Taken
<1>3. work'[w].step = "leave save"
  BY <1>1, <1>2, WentTo DEF Rehost, Steps
<1>4. HostMatches'
  <2>1. IF Taken = {} THEN NewHostSeat = NoSeat ELSE NewHostSeat \in Taken
    BY <1>1, MinOfSeats DEF NewHostSeat, PlayersOK
  <2>2. Taken = {} => hostId' = NoId
    BY DEF Rehost
  <2>3. QED BY <1>2, <2>1, <2>2 DEF Rehost, HostMatches
<1>5. Started' /\ Present'
  BY <1>2 DEF Turn, Started, Present
<1>6. Checked(w)' /\ HostSettled(w)' /\ Inhabited(w)'
  BY <1>2, <1>3, <1>4 DEF Checked, HostSettled, Inhabited, Is
<1>7. QED BY <1>5, <1>6 DEF Turn

LEMMA DropOrSaveTurn ==
  ASSUME TypeOK, NEW w \in Workers, Turn(w), DropOrSave(w)
  PROVE  Turn(w)'
<1>1. WorkOK
  BY TypeParts
<1>2. /\ work[w].step = "leave save" /\ stored' = (Taken # {})
      /\ UNCHANGED <<status, players, hostSeat, hostId, Taken>>
  BY DEF DropOrSave, Is, Taken
<1>3. work'[w].step = "free"
  BY <1>1, WasDone DEF DropOrSave
<1>4. Started' /\ Present'
  BY <1>2 DEF Turn, Started, Present
<1>5. Checked(w)'
  BY <1>3 DEF Checked, Is
<1>6. HostSettled(w)' /\ Inhabited(w)'
  BY <1>2, <1>3 DEF Turn, HostSettled, HostMatches, Inhabited, Is
<1>7. QED BY <1>4, <1>5, <1>6 DEF Turn

LEMMA CommitTurn ==
  ASSUME TypeOK, NEW w \in Workers, Turn(w), Commit(w)
  PROVE  Turn(w)'
<1>1. WorkOK /\ PlayersOK
  BY TypeParts
<1>2. /\ work[w].step = "commit" /\ ~Is(w, "free") /\ stored
      /\ Taken = Seats /\ \A s \in Seats : players[s].ready
      /\ status' = "running" /\ Taken' = Taken /\ UNCHANGED <<stored, hostSeat, hostId>>
      /\ \A s \in Taken : players'[s] = SetOff(players[s])
  BY DEF Commit, Is, Turn, Checked, Taken
<1>3. work'[w].step = "save"
  BY <1>1, <1>2, WentTo DEF Commit, Steps
<1>4. ASSUME NEW s \in Taken
      PROVE  /\ players'[s].ready = players[s].ready /\ players'[s].id = players[s].id
             /\ players'[s].online = players[s].online
             /\ players'[s].lifecycle = "offline" <=> players[s].lifecycle = "offline"
  <2>1. players[s] \in Player
    BY <1>1 DEF PlayersOK
  <2>2. QED BY <1>2, <2>1, PlayerChanges
<1>5. Started'
  BY <1>2, <1>4 DEF Started
<1>6. Present'
  BY <1>2, <1>4 DEF Turn, Present
<1>7. HostMatches'
  BY <1>2, <1>4 DEF Turn, HostSettled, HostMatches
<1>8. Taken # {}
  BY <1>2 DEF Seats
<1>9. Checked(w)' /\ HostSettled(w)' /\ Inhabited(w)'
  BY <1>2, <1>3, <1>7, <1>8 DEF Checked, HostSettled, Inhabited, Is
<1>10. QED BY <1>5, <1>6, <1>9 DEF Turn

\* The steps that are no request's: nothing they change is looked at, but for the
\* status, which leaves "running" only.
LEMMA OtherTurn ==
  ASSUME NEW w \in Workers, Turn(w),
         EngineEnds \/ (\E id \in Ids : Expire(id)) \/ UNCHANGED vars
  PROVE  Turn(w)'
<1>1. /\ UNCHANGED <<stored, players, hostSeat, hostId, issued, work, Taken>>
      /\ status' = status \/ (status = "running" /\ status' = "ended")
  BY DEF EngineEnds, Expire, vars, Taken
<1>2. Started' /\ Present'
  BY <1>1 DEF Turn, Started, Present
<1>3. Checked(w)'
  BY <1>1 DEF Turn, Checked, Is, StillSeated
<1>4. HostSettled(w)' /\ Inhabited(w)'
  BY <1>1 DEF Turn, HostSettled, HostMatches, Inhabited, Is
<1>5. QED BY <1>2, <1>3, <1>4 DEF Turn

-----------------------------------------------------------------------------

LEMMA TurnInit == Init => TurnInv
<1> SUFFICES ASSUME Init PROVE TurnInv
  OBVIOUS
<1>1. Taken = {} /\ status = "waiting" /\ hostSeat = NoSeat /\ hostId = NoId /\ issued = 0
  BY DEF Init, Taken
<1>2. ASSUME NEW w \in Workers PROVE Turn(w)
  <2>1. work[w].step = "free"
    BY DEF Init, Free
  <2>2. QED BY <1>1, <2>1 DEF Turn, Started, Present, Checked, HostSettled, HostMatches, Inhabited, Is
<1>3. QED BY <1>2, RoomTypeInit DEF TurnInv

LEMMA TurnStep == OneAtATime /\ TurnInv /\ [Next]_vars => TurnInv'
<1> SUFFICES ASSUME OneAtATime, TurnInv, [Next]_vars PROVE TurnInv'
  OBVIOUS
<1>1. TypeOK /\ TypeOK'
  BY RoomTypeStep DEF TurnInv
<1>2. PICK w \in Workers : Workers = {w}
  BY DEF OneAtATime
<1>3. Turn(w)
  BY DEF TurnInv
<1>4. Turn(w)'
  <2>1. CASE Handle(w)
    BY <1>1, <1>3, <2>1, JoinTurn, TakeSeatTurn, FirstIsHostTurn, SaveTurn, BeginTurn, MarkTurn,
       RemoveTurn, RehostTurn, DropOrSaveTurn, CommitTurn DEF Handle
  <2>2. CASE EngineEnds \/ (\E id \in Ids : Expire(id)) \/ UNCHANGED vars
    BY <1>3, <2>2, OtherTurn
  <2>3. QED BY <1>2, <2>1, <2>2 DEF Next
<1>5. QED BY <1>1, <1>2, <1>4 DEF TurnInv

-----------------------------------------------------------------------------
(* The server that crashes and starts again: every step is one of the room, *)
(* or leaves the room alone, or is a crash                                  *)

LEMMA StepKinds == RestartNext => Crash \/ [Next]_vars
<1> SUFFICES ASSUME RestartNext, ~Crash PROVE [Next]_vars
  OBVIOUS
<1>1. ASSUME NEW w \in Workers, Request(w) PROVE Next
  BY <1>1 DEF Request, Next
<1>2. CASE TickSaves \/ CommandSaves
  BY <1>2 DEF TickSaves, CommandSaves, Next
<1>3. CASE TokenExpires
  BY <1>3 DEF TokenExpires, Next
<1>4. ASSUME NEW x, Dump(x) \/ DumpFails(x) \/ Close(x) PROVE UNCHANGED vars
  BY <1>4 DEF Dump, DumpFails, Close
<1>5. QED BY <1>1, <1>2, <1>3, <1>4 DEF RestartNext

LEMMA Opened ==
  ASSUME NEW x, Opens(x)
  PROVE  /\ Writing' = Writing \cup {x} /\ handles'[x] = Nothing /\ disk' = Torn
         /\ \A y \in Writing \ {x} : handles'[y] = handles[y]
         /\ overlap' = (Writing # {})
BY DEF Opens, Writing

LEMMA Dumped ==
  ASSUME NEW x, Dump(x)
  PROVE  /\ x \in Writing /\ Writing' = Writing /\ handles'[x] = Image /\ disk' = disk
         /\ \A y \in Writing \ {x} : handles'[y] = handles[y]
         /\ UNCHANGED <<vars, overlap, loop, crashes>>
BY DEF Dump, Writing

LEMMA LetGo ==
  ASSUME NEW x, DumpFails(x) \/ Close(x)
  PROVE  /\ x \in Writing /\ Writing' = Writing \ {x}
         /\ \A y \in Writing' : handles'[y] = handles[y]
         /\ DumpFails(x) => disk' = disk
         /\ Close(x) => disk' = handles[x] \/ disk' = Torn
         /\ UNCHANGED <<vars, overlap, crashes>>
<1>1. handles' = Restrict(handles, Writing \ {x})
  BY DEF DumpFails, Close
<1>2. Writing' = Writing \ {x} /\ \A y \in Writing' : handles'[y] = handles[y]
  BY <1>1 DEF Restrict, Writing
<1>3. QED BY <1>2 DEF DumpFails, Close

\* What the file and its writers hold after a step was there before, or is the room
\* as it stands.
LEMMA FilesCome ==
  ASSUME RestartNext \/ UNCHANGED restartVars
  PROVE  /\ disk' = disk \/ disk' = Torn \/ \E x \in Writing : disk' = handles[x]
         /\ \A x \in Writing' :
              \/ handles'[x] = Nothing
              \/ x \in Writing /\ handles'[x] = Image /\ ~Crash
              \/ x \in Writing /\ handles'[x] = handles[x]
<1>1. CASE \E x : Opens(x)
  BY <1>1, Opened
<1>2. CASE UNCHANGED <<disk, handles>>
  BY <1>2 DEF Writing
<1>3. CASE Crash
  BY <1>3 DEF Crash, Writing
<1>4. CASE ~Crash /\ \E x : Dump(x)
  BY <1>4, Dumped
<1>5. CASE \E x : DumpFails(x) \/ Close(x)
  BY <1>5, LetGo
<1>6. QED
  BY <1>1, <1>2, <1>3, <1>4, <1>5
  DEF RestartNext, Request, TickSaves, CommandSaves, TokenExpires, restartVars

-----------------------------------------------------------------------------
(* Types *)

IsRoom(file) == file.file = "room"

\* A file that holds a room holds a well typed one.
TypedFile(file) ==
  IsRoom(file) =>
    /\ file = [file |-> "room", status |-> file.status, players |-> file.players,
               hostSeat |-> file.hostSeat, hostId |-> file.hostId]
    /\ file.status \in MatchStatuses
    /\ DOMAIN file.players \subseteq Seats
    /\ \A s \in DOMAIN file.players : file.players[s] \in Player
    /\ file.hostSeat \in Seats \cup {NoSeat} /\ file.hostId \in Ids \cup {NoId}

RestartTypes == TypeOK /\ TypedFile(disk) /\ \A x \in Writing : TypedFile(handles[x])

LEMMA NoRoomInIt == ~IsRoom(Torn) /\ ~IsRoom(NoRoom) /\ ~IsRoom(Nothing)
BY DEF IsRoom, Torn, NoRoom, Nothing

LEMMA ImageOfRoom ==
  /\ IsRoom(Image) <=> stored
  /\ stored => /\ Image.status = status /\ Image.players = players
               /\ Image.hostSeat = hostSeat /\ Image.hostId = hostId
BY DEF Image, IsRoom, NoRoom

LEMMA ImageTyped == TypeOK => TypedFile(Image)
BY DEF TypeOK, TypedFile, Image, IsRoom, NoRoom, Taken

LEMMA CrashTypes ==
  ASSUME RestartTypes, Crash
  PROVE  TypeOK'
<1>1. /\ work' \in [Workers -> {Free}] /\ stored' \in BOOLEAN
      /\ issued' \in 0 .. MaxIds /\ expired' \subseteq Ids
  BY DEF Crash, RestartTypes, TypeOK
<1>2. CASE IsRoom(disk)
  BY <1>1, <1>2 DEF Crash, RestartTypes, TypedFile, IsRoom, TypeOK, Taken
<1>3. CASE ~IsRoom(disk)
  BY <1>1, <1>3 DEF Crash, IsRoom, TypeOK, Taken, MatchStatuses, NoSeat, NoId
<1>4. QED BY <1>2, <1>3

LEMMA RestartTypesInit == RestartInit => RestartTypes
<1> SUFFICES ASSUME RestartInit PROVE RestartTypes
  OBVIOUS
<1>1. TypeOK
  BY RoomTypeInit DEF RestartInit
<1>2. TypedFile(disk) /\ Writing = {}
  BY <1>1, ImageTyped DEF RestartInit, Writing
<1>3. QED BY <1>1, <1>2 DEF RestartTypes

LEMMA RestartTypesStep == RestartTypes /\ [RestartNext]_restartVars => RestartTypes'
<1> SUFFICES ASSUME RestartTypes, [RestartNext]_restartVars PROVE RestartTypes'
  OBVIOUS
<1>1. TypeOK /\ TypedFile(disk) /\ \A x \in Writing : TypedFile(handles[x])
  BY DEF RestartTypes
<1>2. TypeOK'
  <2>1. CASE Crash
    BY <2>1, CrashTypes
  <2>2. CASE [Next]_vars
    BY <1>1, <2>2, RoomTypeStep
  <2>3. CASE UNCHANGED restartVars
    BY <1>1, <2>3, RoomTypeStep DEF restartVars
  <2>4. QED BY <2>1, <2>2, <2>3, StepKinds
<1>3. TypedFile(Torn) /\ TypedFile(Nothing) /\ TypedFile(Image)
  BY <1>1, ImageTyped, NoRoomInIt DEF TypedFile
<1>4. TypedFile(disk')
  BY <1>1, <1>3, FilesCome
<1>5. \A x \in Writing' : TypedFile(handles'[x])
  BY <1>1, <1>3, FilesCome
<1>6. QED BY <1>2, <1>4, <1>5 DEF RestartTypes, TypedFile, IsRoom

\* A room stays well typed under any interleaving of requests, and whatever file the
\* server finds when it starts again: the two seats, the ids and the states of
\* players are never mixed up in kind.
THEOREM RoomTypeCorrect == RestartSpec => []TypeOK
<1>1. RestartInit => RestartTypes
  BY RestartTypesInit
<1>2. RestartTypes /\ [RestartNext]_restartVars => RestartTypes'
  BY RestartTypesStep
<1>3. RestartTypes => TypeOK
  BY DEF RestartTypes
<1>4. QED BY <1>1, <1>2, <1>3, PTL DEF RestartSpec

-----------------------------------------------------------------------------
(* What was saved survives, for any number of workers *)

\* A worker that has changed the room, or may have, and has not saved it yet.
Unsaved(w) == work[w].step \in {"host", "join save", "rehost", "leave save", "save"}

\* The file holds the room as it stands.
OnFile == (IsRoom(disk) <=> stored) /\ (stored => disk = Image)

\* While no two writers have the file open: it is written by one at most, and what
\* is written is the room as it stands, unless a request is yet to save it.
SavedInv ==
  ~overlap =>
    /\ \A x, y \in Writing : x = y
    /\ (\A w \in Workers : ~Unsaved(w)) =>
         /\ Writing = {} => OnFile
         /\ \A x \in Writing : handles[x] = Nothing \/ handles[x] = Image

\* A step of a request that does not write the file either leaves the room alone or
\* leaves a save to do.
LEMMA RequestMarks ==
  ASSUME TypeOK, NEW w \in Workers, Handle(w), ~Flushes(w)
  PROVE  /\ Unsaved(w)' \/ (~Unsaved(w) /\ UNCHANGED <<stored, status, players, hostSeat, hostId>>)
         /\ \A v \in Workers \ {w} : work'[v] = work[v]
<1>1. WorkOK
  BY TypeParts
<1>2. ~Save(w) /\ ~DropOrSave(w)
  BY DEF Save, DropOrSave, Flushes
<1>3. CASE Join(w)
  BY <1>1, <1>3 DEF Join, Is, Unsaved, WorkOK
<1>4. CASE TakeSeat(w)
  <2>1. work'[w].step = "host"
    BY <1>1, <1>4, WentTo DEF TakeSeat, Is, Steps
  <2>2. QED BY <1>1, <1>4, <2>1 DEF TakeSeat, Unsaved, Goto, WorkOK
<1>5. CASE FirstIsHost(w)
  <2>1. work'[w].step = "join save"
    BY <1>1, <1>5, WentTo DEF FirstIsHost, Is, Steps
  <2>2. QED BY <1>1, <1>5, <2>1 DEF FirstIsHost, Unsaved, Goto, WorkOK
<1>6. CASE \E s \in Taken : Ready(w, s) \/ Reconnect(w, s) \/ Leave(w, s) \/ Start(w, s)
  BY <1>1, <1>6 DEF Ready, Reconnect, Leave, Start, Begin, Is, Unsaved, WorkOK
<1>7. CASE MarkReady(w) \/ MarkOnline(w)
  <2>1. work'[w].step = "save"
    BY <1>1, <1>7, WentTo DEF MarkReady, MarkOnline, Is, Steps
  <2>2. QED BY <1>1, <1>7, <2>1 DEF MarkReady, MarkOnline, Unsaved, Goto, WorkOK
<1>8. CASE GoOffline(w)
  <2>1. work'[w].step = "leave save"
    BY <1>1, <1>8, WentTo DEF GoOffline, Is, Steps
  <2>2. QED BY <1>1, <1>8, <2>1 DEF GoOffline, Unsaved, Goto, WorkOK
<1>9. CASE Remove(w)
  <2>1. CASE work[w].seat \in Taken
    <3>1. work'[w].step = "rehost"
      BY <1>1, <1>9, <2>1, WentTo DEF Remove, Is, Steps
    <3>2. QED BY <1>1, <1>9, <2>1, <3>1 DEF Remove, Unsaved, Goto, WorkOK
  <2>2. CASE work[w].seat \notin Taken
    BY <1>1, <1>9, <2>2 DEF Remove, Is, Unsaved, Done, WorkOK
  <2>3. QED BY <2>1, <2>2
<1>10. CASE Rehost(w)
  <2>1. work'[w].step = "leave save"
    BY <1>1, <1>10, WentTo DEF Rehost, Is, Steps
  <2>2. QED BY <1>1, <1>10, <2>1 DEF Rehost, Unsaved, Goto, WorkOK
<1>11. CASE Commit(w)
  <2>1. work'[w].step = "save"
    BY <1>1, <1>11, WentTo DEF Commit, Is, Steps
  <2>2. QED BY <1>1, <1>11, <2>1 DEF Commit, Unsaved, Goto, WorkOK
<1>12. QED
  BY <1>2, <1>3, <1>4, <1>5, <1>6, <1>7, <1>8, <1>9, <1>10, <1>11 DEF Handle

\* Whoever opens the file alone starts from an empty one, to be filled from the room.
LEMMA OpensSaved ==
  ASSUME SavedInv, NEW x, Opens(x)
  PROVE  SavedInv'
<1>1. ~overlap' => Writing' = {x} /\ handles'[x] = Nothing
  BY Opened
<1>2. QED BY <1>1 DEF SavedInv

\* Nothing the invariant looks at has changed.
LEMMA StillSaved ==
  ASSUME SavedInv, UNCHANGED <<disk, handles, overlap, stored, status, players, hostSeat, hostId>>,
         \A w \in Workers : Unsaved(w) => Unsaved(w)'
  PROVE  SavedInv'
<1>1. Image' = Image /\ Writing' = Writing
  BY DEF Image, Writing
<1>2. OnFile' <=> OnFile
  BY <1>1 DEF OnFile, IsRoom
<1>3. QED BY <1>1, <1>2 DEF SavedInv

LEMMA RequestSaved ==
  ASSUME TypeOK, SavedInv, NEW w \in Workers, Request(w)
  PROVE  SavedInv'
<1>1. CASE Flushes(w)
  BY <1>1, OpensSaved DEF Request
<1>2. CASE ~Flushes(w)
  <2>1. Handle(w) /\ UNCHANGED <<disk, handles, overlap>>
    BY <1>2 DEF Request
  <2>2. /\ Unsaved(w)' \/ (~Unsaved(w) /\ UNCHANGED <<stored, status, players, hostSeat, hostId>>)
        /\ \A v \in Workers \ {w} : work'[v] = work[v]
    BY <1>2, <2>1, RequestMarks
  <2>3. CASE Unsaved(w)'
    BY <2>1, <2>3 DEF SavedInv, Writing
  <2>4. CASE ~Unsaved(w) /\ UNCHANGED <<stored, status, players, hostSeat, hostId>>
    BY <2>1, <2>2, <2>4, StillSaved DEF Unsaved
  <2>5. QED BY <2>2, <2>3, <2>4
<1>3. QED BY <1>1, <1>2

LEMMA DumpSaved ==
  ASSUME SavedInv, NEW x, Dump(x)
  PROVE  SavedInv'
<1>1. /\ x \in Writing /\ Writing' = Writing /\ handles'[x] = Image /\ overlap' = overlap
      /\ \A y \in Writing \ {x} : handles'[y] = handles[y]
  BY Dumped
<1>2. Image' = Image /\ \A w \in Workers : Unsaved(w)' <=> Unsaved(w)
  BY DEF Dump, vars, Image, Unsaved
<1>3. QED BY <1>1, <1>2 DEF SavedInv

LEMMA LetGoSaved ==
  ASSUME SavedInv, NEW x, DumpFails(x) \/ Close(x)
  PROVE  SavedInv'
<1>1. /\ x \in Writing /\ Writing' = Writing \ {x} /\ overlap' = overlap
      /\ stored' = stored /\ Image' = Image
      /\ \A w \in Workers : Unsaved(w)' <=> Unsaved(w)
  <2>1. UNCHANGED vars
    BY LetGo
  <2>2. stored' = stored /\ Image' = Image /\ \A w \in Workers : Unsaved(w)' <=> Unsaved(w)
    BY <2>1 DEF vars, Image, Unsaved
  <2>3. QED BY <2>2, LetGo
<1>2. SUFFICES ASSUME ~overlap PROVE SavedInv'
  BY <1>1 DEF SavedInv
<1>3. disk' = handles[x] /\ handles[x] # Nothing
  BY <1>2 DEF DumpFails, Close
<1>4. Writing' = {}
  BY <1>1, <1>2 DEF SavedInv
<1>5. (\A w \in Workers : ~Unsaved(w)) => OnFile'
  BY <1>1, <1>2, <1>3, ImageOfRoom DEF SavedInv, OnFile, IsRoom
<1>6. QED BY <1>1, <1>4, <1>5 DEF SavedInv

LEMMA CrashSaved ==
  ASSUME RestartTypes, Crash
  PROVE  SavedInv'
<1>1. Writing' = {} /\ disk' = disk
  BY DEF Crash, Writing
<1>2. OnFile'
  <2>1. CASE IsRoom(disk)
    BY <1>1, <2>1 DEF Crash, OnFile, IsRoom, Image, RestartTypes, TypedFile
  <2>2. CASE ~IsRoom(disk)
    BY <1>1, <2>2 DEF Crash, OnFile, IsRoom
  <2>3. QED BY <2>1, <2>2
<1>3. QED BY <1>1, <1>2 DEF SavedInv

LEMMA SavedStep ==
  ASSUME RestartTypes, SavedInv, [RestartNext]_restartVars
  PROVE  SavedInv'
<1>1. TypeOK
  BY DEF RestartTypes
<1>2. CASE TickSaves \/ CommandSaves
  BY <1>2, OpensSaved DEF TickSaves, CommandSaves
<1>3. CASE TokenExpires \/ UNCHANGED restartVars
  BY <1>3, StillSaved DEF TokenExpires, Expire, restartVars, vars, Unsaved
<1>4. QED
  BY <1>1, <1>2, <1>3, RequestSaved, DumpSaved, LetGoSaved, CrashSaved DEF RestartNext

\* A crash while nothing is under way loses nothing: the file then holds the room as
\* the latest request, tick or command left it, provided that the latest saves did not
\* overlap (pickle_repo.py, _flush and _load).  This is so however many requests run
\* at once.
THEOREM SavedSurvives == RestartSpec => Survives
<1>1. RestartInit => RestartTypes /\ SavedInv
  <2> SUFFICES ASSUME RestartInit PROVE RestartTypes /\ SavedInv
    OBVIOUS
  <2>1. OnFile /\ Writing = {}
    BY ImageOfRoom DEF RestartInit, OnFile, Writing, IsRoom
  <2>2. QED BY <2>1, RestartTypesInit DEF SavedInv
<1>2. RestartTypes /\ SavedInv /\ [RestartNext]_restartVars => RestartTypes' /\ SavedInv'
  BY RestartTypesStep, SavedStep
<1>3. RestartTypes /\ SavedInv /\ [RestartNext]_restartVars =>
        [crashes' # crashes /\ Quiet /\ Writing = {} /\ ~overlap
           => /\ stored' = stored
              /\ stored => UNCHANGED <<status, players, hostSeat, hostId>>]_restartVars
  <2> SUFFICES ASSUME RestartTypes, SavedInv, RestartNext, crashes' # crashes, Quiet, Writing = {}, ~overlap
               PROVE  /\ stored' = stored
                      /\ stored => UNCHANGED <<status, players, hostSeat, hostId>>
    OBVIOUS
  <2>1. Crash
    <3>1. ASSUME NEW x, Dump(x) \/ DumpFails(x) \/ Close(x) PROVE crashes' = crashes
      BY <3>1, Dumped, LetGo
    <3>2. QED BY <3>1 DEF RestartNext, Request, TickSaves, CommandSaves, TokenExpires
  <2>2. OnFile
    BY DEF SavedInv, Quiet, Is, Unsaved
  <2>3. stored \in BOOLEAN
    BY DEF RestartTypes, TypeOK
  <2>4. stored' = (disk.file = "room") /\ stored' = stored
    BY <2>1, <2>2, <2>3 DEF Crash, OnFile, IsRoom
  <2>5. stored => UNCHANGED <<status, players, hostSeat, hostId>>
    BY <2>1, <2>2, ImageOfRoom DEF Crash, OnFile, IsRoom
  <2>6. QED BY <2>4, <2>5
<1>4. QED BY <1>1, <1>2, <1>3, PTL DEF RestartSpec, Survives

-----------------------------------------------------------------------------
(* One request at a time, and crashes *)

\* A file that holds a room holds one whose records agree.
SoundFile(file) ==
  IsRoom(file) =>
    /\ IF DOMAIN file.players = {} THEN file.hostSeat = NoSeat /\ file.hostId = NoId
       ELSE file.hostSeat \in DOMAIN file.players /\ file.hostId = file.players[file.hostSeat].id
    /\ file.status # "waiting" =>
         DOMAIN file.players = Seats /\ \A s \in Seats : file.players[s].ready
    /\ \A s \in DOMAIN file.players :
         /\ file.players[s].online <=> file.players[s].lifecycle # "offline"
         /\ ~file.players[s].online => file.status # "waiting"

SoundFiles == SoundFile(disk) /\ \A x \in Writing : SoundFile(handles[x])

Waits(file) == IsRoom(file) /\ file.status = "waiting"

\* Who writes when: a request between its save and the next request only, the tick
\* and a command once the match has started.
Orderly(w) ==
  /\ status = "waiting" => loop = "none" /\ Writing \subseteq {w}
  /\ w \in Writing => Is(w, "free")
  /\ loop = "due" => (Is(w, "save") \/ w \in Writing) /\ Ticker \notin Writing

\* Once the match has started no writer holds a room that waits, nor does the file
\* when start_match has opened it.
StartKept(w) ==
  status # "waiting" =>
    /\ \A x \in Writing : ~Waits(handles[x])
    /\ loop # "due" \/ w \in Writing => ~Waits(disk)

RestartInv ==
  /\ RestartTypes /\ TurnInv /\ SoundFiles
  /\ \A w \in Workers : Orderly(w) /\ StartKept(w)

\* Whoever writes finds the records of the room in agreement.
LEMMA ImageSound ==
  ASSUME NEW w \in Workers, Turn(w), Orderly(w), Writing # {}, Workers = {w}
  PROVE  SoundFile(Image)
<1>1. work[w].step \notin {"host", "rehost"}
  BY DEF Turn, Checked, Orderly, Is
<1>2. HostMatches /\ Started /\ Present
  BY <1>1 DEF Turn, HostSettled
<1>3. CASE stored
  BY <1>2, <1>3 DEF SoundFile, Image, HostMatches, Started, Present, Taken
<1>4. CASE ~stored
  BY <1>4 DEF SoundFile, Image, NoRoom, IsRoom
<1>5. QED BY <1>3, <1>4

LEMMA SoundStep ==
  ASSUME OneAtATime, RestartInv, [RestartNext]_restartVars
  PROVE  SoundFiles'
<1>1. PICK w \in Workers : Workers = {w}
  BY DEF OneAtATime
<1>2. SoundFile(disk) /\ \A x \in Writing : SoundFile(handles[x])
  BY DEF RestartInv, SoundFiles
<1>3. SoundFile(Torn) /\ SoundFile(Nothing)
  BY NoRoomInIt DEF SoundFile
<1>4. Writing # {} => SoundFile(Image)
  BY <1>1, ImageSound DEF RestartInv, TurnInv
<1>5. SoundFile(disk')
  BY <1>2, <1>3, FilesCome
<1>6. \A x \in Writing' : SoundFile(handles'[x])
  BY <1>2, <1>3, <1>4, FilesCome
<1>7. QED BY <1>5, <1>6 DEF SoundFiles, SoundFile, IsRoom

LEMMA CrashTurn ==
  ASSUME RestartInv, Crash, NEW w \in Workers
  PROVE  Turn(w)'
<1>1. work'[w].step = "free"
  BY DEF Crash, Free
<1>2. SoundFile(disk)
  BY DEF RestartInv, SoundFiles
<1>3. Started' /\ Present' /\ HostMatches'
  <2>1. CASE IsRoom(disk)
    BY <1>2, <2>1 DEF SoundFile, IsRoom, Crash, Started, Present, HostMatches, Taken
  <2>2. CASE ~IsRoom(disk)
    BY <2>2 DEF IsRoom, Crash, Started, Present, HostMatches, Taken
  <2>3. QED BY <2>1, <2>2
<1>4. Checked(w)' /\ HostSettled(w)' /\ Inhabited(w)'
  BY <1>1, <1>3 DEF Checked, HostSettled, Inhabited, Is
<1>5. QED BY <1>3, <1>4 DEF Turn

LEMMA OrderInit == RestartInit => RestartInv
<1> SUFFICES ASSUME RestartInit PROVE RestartInv
  OBVIOUS
<1>1. RestartTypes /\ TurnInv
  BY RestartTypesInit, TurnInit DEF RestartInit
<1>2. Writing = {} /\ loop = "none" /\ status = "waiting"
  BY DEF RestartInit, Init, Writing
<1>3. SoundFile(disk)
  <2>1. Taken = {} /\ hostSeat = NoSeat /\ hostId = NoId /\ status = "waiting" /\ stored
    BY DEF RestartInit, Init, Taken
  <2>2. QED BY <2>1 DEF RestartInit, SoundFile, Image, Taken
<1>4. QED BY <1>1, <1>2, <1>3 DEF RestartInv, SoundFiles, Orderly, StartKept

\* A step of a request, and the status.
LEMMA RequestStatus ==
  ASSUME TypeOK, NEW w \in Workers, Turn(w), Handle(w)
  PROVE  /\ status' = status \/ (Is(w, "commit") /\ status' = "running")
         /\ Is(w, "commit") => /\ status = "waiting" /\ status' = "running"
                               /\ Is(w, "save")' /\ ~Flushes(w)
         /\ Flushes(w) => Is(w, "free")'
         /\ Is(w, "save") => Flushes(w)
<1>1. WorkOK
  BY TypeParts
<1>2. CASE Is(w, "commit")
  <2>1. Commit(w)
    BY <1>2 DEF Handle, Is, Join, TakeSeat, FirstIsHost, Save, Ready, Reconnect, Leave, Start,
                Begin, MarkReady, MarkOnline, Remove, Rehost, GoOffline, DropOrSave
  <2>2. work'[w].step = "save"
    BY <1>1, <2>1, WentTo DEF Commit, Is, Steps
  <2>3. QED BY <1>2, <2>1, <2>2 DEF Commit, Turn, Checked, Is, Flushes
<1>3. CASE Flushes(w)
  <2>1. Save(w) \/ DropOrSave(w)
    BY <1>3 DEF Flushes, Handle, Is, Join, TakeSeat, FirstIsHost, Ready, Reconnect, Leave, Start,
                Begin, MarkReady, MarkOnline, Remove, Rehost, GoOffline, Commit
  <2>2. work'[w].step = "free"
    BY <1>1, <2>1, WasDone DEF Save, DropOrSave
  <2>3. QED BY <1>3, <2>1, <2>2 DEF Save, DropOrSave, Flushes, Is
<1>4. CASE ~Is(w, "commit") /\ ~Flushes(w)
  BY <1>4 DEF Flushes, Handle, Join, TakeSeat, FirstIsHost, Save, Ready, Reconnect, Leave, Start,
              Begin, MarkReady, MarkOnline, Mark, Remove, Rehost, GoOffline, DropOrSave, Commit
<1>5. QED BY <1>2, <1>3, <1>4

LEMMA RequestOrder ==
  ASSUME TypeOK, NEW w \in Workers, Turn(w), Orderly(w), StartKept(w), Request(w)
  PROVE  Orderly(w)' /\ StartKept(w)'
<1>1. /\ w \notin Writing /\ Handle(w) /\ Ticker # w
      /\ loop' = IF Is(w, "commit") THEN "due" ELSE loop
  BY RestartAssumption DEF Request
<1>2. /\ status' = status \/ (Is(w, "commit") /\ status' = "running")
      /\ Is(w, "commit") => /\ status = "waiting" /\ status' = "running"
                            /\ Is(w, "save")' /\ ~Flushes(w)
      /\ Flushes(w) => Is(w, "free")'
      /\ Is(w, "save") => Flushes(w)
  BY <1>1, RequestStatus
<1>3. CASE Is(w, "commit")
  <2>1. Writing = {} /\ Writing' = {} /\ loop' = "due" /\ Is(w, "save")' /\ status' = "running"
    BY <1>1, <1>2, <1>3 DEF Request, Orderly, Writing
  <2>2. QED BY <2>1 DEF Orderly, StartKept
<1>4. CASE Flushes(w) /\ ~Is(w, "commit")
  <2>1. /\ Writing' = Writing \cup {w} /\ handles'[w] = Nothing /\ disk' = Torn
        /\ \A y \in Writing \ {w} : handles'[y] = handles[y]
    BY <1>4, Opened DEF Request
  <2>2. status' = status /\ loop' = loop /\ Is(w, "free")'
    BY <1>1, <1>2, <1>4
  <2>3. Orderly(w)'
    BY <1>1, <2>1, <2>2 DEF Orderly
  <2>4. StartKept(w)'
    BY <1>1, <2>1, <2>2, NoRoomInIt DEF StartKept, Waits, IsRoom
  <2>5. QED BY <2>3, <2>4
<1>5. CASE ~Flushes(w) /\ ~Is(w, "commit")
  <2>1. UNCHANGED <<disk, handles>> /\ Writing' = Writing /\ status' = status /\ loop' = loop
    BY <1>1, <1>2, <1>5 DEF Request, Writing
  <2>2. ~Is(w, "save")
    BY <1>2, <1>5
  <2>3. Orderly(w)' /\ StartKept(w)'
    BY <1>1, <2>1, <2>2 DEF Orderly, StartKept, Waits, IsRoom
  <2>4. QED BY <2>3
<1>6. QED BY <1>3, <1>4, <1>5

LEMMA EngineOrder ==
  ASSUME NEW w \in Workers, Orderly(w), StartKept(w), TickSaves \/ CommandSaves
  PROVE  Orderly(w)' /\ StartKept(w)'
<1>1. PICK x \in {Ticker, Command} : Opens(x) /\ (x = Ticker => loop = "on")
  BY DEF TickSaves, CommandSaves, Ticker, Command
<1>2. /\ status # "waiting" /\ status' # "waiting" /\ UNCHANGED <<loop, work>>
      /\ w # x
  BY <1>1, RestartAssumption DEF TickSaves, CommandSaves, EngineEnds, vars, Orderly
<1>3. /\ Writing' = Writing \cup {x} /\ handles'[x] = Nothing /\ disk' = Torn
      /\ \A y \in Writing \ {x} : handles'[y] = handles[y]
  BY <1>1, Opened
<1>4. Orderly(w)'
  BY <1>1, <1>2, <1>3 DEF Orderly, Is, Ticker, Command
<1>5. StartKept(w)'
  BY <1>2, <1>3, NoRoomInIt DEF StartKept, Waits, IsRoom
<1>6. QED BY <1>4, <1>5

LEMMA DumpOrder ==
  ASSUME NEW w \in Workers, Orderly(w), StartKept(w), NEW x, Dump(x)
  PROVE  Orderly(w)' /\ StartKept(w)'
<1>1. /\ x \in Writing /\ Writing' = Writing /\ handles'[x] = Image /\ disk' = disk
      /\ \A y \in Writing \ {x} : handles'[y] = handles[y]
  BY Dumped
<1>2. UNCHANGED <<status, loop, work>>
  BY DEF Dump, vars
<1>3. status # "waiting" => ~Waits(Image)
  BY NoRoomInIt DEF Waits, Image
<1>4. Orderly(w)'
  BY <1>1, <1>2 DEF Orderly, Is
<1>5. StartKept(w)'
  BY <1>1, <1>2, <1>3 DEF StartKept, Waits, IsRoom
<1>6. QED BY <1>4, <1>5

LEMMA LetGoOrder ==
  ASSUME NEW w \in Workers, Workers = {w}, Orderly(w), StartKept(w),
         NEW x, DumpFails(x) \/ Close(x)
  PROVE  Orderly(w)' /\ StartKept(w)'
<1>1. /\ x \in Writing /\ Writing' = Writing \ {x}
      /\ \A y \in Writing' : handles'[y] = handles[y]
      /\ disk' = disk \/ disk' = handles[x] \/ disk' = Torn
      /\ UNCHANGED vars
  BY LetGo
<1>2. UNCHANGED <<status, work>>
  BY <1>1 DEF vars
<1>3. /\ loop' = "due" => loop = "due" /\ x # w
      /\ loop' # loop => loop' = "none" \/ (loop = "due" /\ x = w)
      /\ DumpFails(x) => disk' = disk
      /\ Close(x) => disk' = handles[x] \/ disk' = Torn
  BY LetGo DEF DumpFails, Close
<1>4. status = "waiting" => loop' = "none"
  BY <1>2 DEF Orderly, DumpFails, Close
<1>5. Orderly(w)'
  BY <1>1, <1>2, <1>3, <1>4 DEF Orderly, Is
<1>6. ASSUME status # "waiting" PROVE StartKept(w)'
  <2>1. \A y \in Writing' : ~Waits(handles'[y])
    BY <1>1, <1>6 DEF StartKept
  <2>2. CASE DumpFails(x)
    <3>1. loop = "due" => x = w \/ loop' = "due"
      BY <1>1, <2>2 DEF Orderly, DumpFails
    <3>2. ~(loop' # "due" \/ w \in Writing') \/ ~Waits(disk)
      BY <1>1, <1>6, <3>1 DEF StartKept
    <3>3. disk' = disk
      BY <1>3, <2>2
    <3>4. ~Waits(disk') \/ ~(loop' # "due" \/ w \in Writing')
      BY <3>2, <3>3
    <3>5. QED BY <2>1, <3>4 DEF StartKept, Waits, IsRoom
  <2>3. CASE Close(x)
    <3>1. ~Waits(handles[x]) /\ ~Waits(Torn)
      BY <1>1, <1>6, NoRoomInIt DEF StartKept, Waits
    <3>2. ~Waits(disk')
      BY <1>3, <2>3, <3>1
    <3>3. QED BY <2>1, <3>2 DEF StartKept, Waits, IsRoom
  <2>4. QED BY <2>2, <2>3
<1>7. QED BY <1>2, <1>5, <1>6 DEF StartKept

LEMMA CrashOrder ==
  ASSUME NEW w \in Workers, Crash
  PROVE  Orderly(w)' /\ StartKept(w)'
<1>1. Writing' = {} /\ loop' = "none" /\ disk' = disk /\ (IsRoom(disk) => status' = disk.status)
  BY DEF Crash, Writing, IsRoom
<1>2. QED BY <1>1 DEF Orderly, StartKept, Waits, IsRoom

LEMMA RestartStep ==
  ASSUME OneAtATime, RestartInv, [RestartNext]_restartVars
  PROVE  RestartInv'
<1>1. PICK w \in Workers : Workers = {w}
  BY DEF OneAtATime
<1>2. RestartTypes /\ TypeOK /\ TurnInv /\ Turn(w) /\ Orderly(w) /\ StartKept(w)
  BY DEF RestartInv, TurnInv
<1>3. RestartTypes'
  BY <1>2, RestartTypesStep
<1>4. TurnInv'
  <2>1. CASE Crash
    BY <1>3, <2>1, CrashTurn DEF TurnInv, RestartTypes
  <2>2. CASE [Next]_vars
    BY <1>2, <2>2, TurnStep
  <2>3. CASE UNCHANGED restartVars
    BY <1>2, <2>3, TurnStep DEF restartVars
  <2>4. QED BY <2>1, <2>2, <2>3, StepKinds
<1>5. Orderly(w)' /\ StartKept(w)'
  <2>1. CASE Request(w)
    BY <1>2, <2>1, RequestOrder
  <2>2. CASE TickSaves \/ CommandSaves
    BY <1>2, <2>2, EngineOrder
  <2>3. CASE \E x : Dump(x)
    BY <1>2, <2>3, DumpOrder
  <2>4. CASE \E x : DumpFails(x) \/ Close(x)
    BY <1>1, <1>2, <2>4, LetGoOrder
  <2>5. CASE Crash
    BY <2>5, CrashOrder
  <2>6. CASE TokenExpires \/ UNCHANGED restartVars
    <3>1. UNCHANGED <<status, work, disk, handles, loop>> /\ Writing' = Writing
      BY <2>6 DEF TokenExpires, Expire, restartVars, vars, Writing
    <3>2. QED BY <1>2, <3>1 DEF Orderly, StartKept, Is, Waits, IsRoom
  <2>7. QED BY <1>1, <2>1, <2>2, <2>3, <2>4, <2>5, <2>6 DEF RestartNext
<1>6. SoundFiles'
  BY SoundStep
<1>7. QED BY <1>1, <1>3, <1>4, <1>5, <1>6 DEF RestartInv

LEMMA Restarts == OneAtATime => (RestartSpec => []RestartInv)
<1>1. SUFFICES ASSUME OneAtATime PROVE RestartSpec => []RestartInv
  OBVIOUS
<1>2. RestartInit => RestartInv
  BY OrderInit
<1>3. RestartInv /\ [RestartNext]_restartVars => RestartInv'
  BY <1>1, RestartStep
<1>4. QED BY <1>2, <1>3, PTL DEF RestartSpec

-----------------------------------------------------------------------------
(* The properties of Room and Restart, crashes included *)

LEMMA TurnAtRest ==
  ASSUME OneAtATime, TurnInv, Quiet
  PROVE  Started /\ Present /\ HostMatches
<1>1. PICK w \in Workers : Workers = {w}
  BY DEF OneAtATime
<1>2. Turn(w) /\ work[w].step = "free"
  BY DEF TurnInv, Quiet, Is
<1>3. QED BY <1>2 DEF Turn, HostSettled

\* Between requests the host is a seated player and host_player_id names him, however
\* many players joined and left (room_service.py, join_match, leave_match).
THEOREM HostIsSeated == OneAtATime => (RestartSpec => []HostSeated)
<1>1. SUFFICES ASSUME OneAtATime PROVE RestartSpec => []HostSeated
  OBVIOUS
<1>2. RestartInv => HostSeated
  BY <1>1, TurnAtRest DEF RestartInv, HostSeated, HostMatches
<1>3. RestartSpec => []RestartInv
  BY <1>1, Restarts
<1>4. QED BY <1>2, <1>3, PTL

\* A match that has started keeps its two players (start_match, leave_match).
THEOREM StartedIsFull == OneAtATime => (RestartSpec => []RunningFull)
<1>1. SUFFICES ASSUME OneAtATime PROVE RestartSpec => []RunningFull
  OBVIOUS
<1>2. RestartInv => RunningFull
  BY <1>1, TurnAtRest DEF RestartInv, RunningFull, Started
<1>3. RestartSpec => []RestartInv
  BY <1>1, Restarts
<1>4. QED BY <1>2, <1>3, PTL

\* The online flag and the lifecycle never part (leave_match, reconnect_match,
\* start_match).
THEOREM PresenceIsOne == OneAtATime => (RestartSpec => []PresenceAgrees)
<1>1. SUFFICES ASSUME OneAtATime PROVE RestartSpec => []PresenceAgrees
  OBVIOUS
<1>2. RestartInv => PresenceAgrees
  BY <1>1, TurnAtRest DEF RestartInv, PresenceAgrees, Present
<1>3. RestartSpec => []RestartInv
  BY <1>1, Restarts
<1>4. QED BY <1>2, <1>3, PTL

LEMMA LastStep ==
  ASSUME OneAtATime, TurnInv, Next, ~Quiet, Quiet', stored'
  PROVE  Taken' # {}
<1>1. PICK w \in Workers : Workers = {w}
  BY DEF OneAtATime
<1>2. TypeOK /\ WorkOK /\ Turn(w) /\ ~Is(w, "free") /\ Is(w, "free")'
  BY <1>1, TypeParts DEF TurnInv, Quiet
<1>3. Handle(w)
  BY <1>1, <1>2 DEF Next, EngineEnds, Expire, Is
<1>4. Save(w) \/ DropOrSave(w)
  <2>1. ~Join(w) /\ ~(\E s \in Taken : Ready(w, s) \/ Reconnect(w, s) \/ Leave(w, s) \/ Start(w, s))
    BY <1>2 DEF Join, Ready, Reconnect, Leave, Start, Begin
  <2>2. \A step \in Steps : ~Goto(w, step)
    <3>1. "free" \notin Steps
      BY DEF Steps
    <3>2. QED BY <1>2, <3>1, WentTo DEF Is
  <2>3. ~Remove(w)
    BY <1>2, <2>2 DEF Remove, Turn, Checked, Is, StillSeated, Steps
  <2>4. QED
    BY <1>3, <2>1, <2>2, <2>3
    DEF Handle, TakeSeat, FirstIsHost, MarkReady, MarkOnline, Rehost, GoOffline, Commit, Steps
<1>5. Taken' = Taken
  BY <1>4 DEF Save, DropOrSave, Taken
<1>6. QED BY <1>2, <1>4, <1>5 DEF Save, DropOrSave, Turn, Inhabited, Is

\* The repository keeps no room that its players have left (leave_match).
THEOREM EmptyRoomsAreDropped == OneAtATime => (RestartSpec => NoEmptyRoom)
<1>1. SUFFICES ASSUME OneAtATime PROVE RestartSpec => NoEmptyRoom
  OBVIOUS
<1>2. RestartInv /\ [RestartNext]_restartVars =>
        [~Quiet /\ Quiet' /\ stored' /\ Next => Taken' # {}]_vars
  BY <1>1, LastStep DEF RestartInv
<1>3. RestartSpec => []RestartInv
  BY <1>1, Restarts
<1>4. QED BY <1>2, <1>3, PTL DEF RestartSpec, NoEmptyRoom

LEMMA DroppedStep ==
  ASSUME OneAtATime, TurnInv, Next, ~stored
  PROVE  ~stored'
<1>1. PICK w \in Workers : Workers = {w}
  BY DEF OneAtATime
<1>2. Is(w, "free")
  BY DEF TurnInv, Turn, Checked
<1>3. ~Save(w) /\ ~DropOrSave(w)
  BY <1>2 DEF Save, DropOrSave, Is
<1>4. CASE Handle(w)
  <2>1. CASE \E s \in Taken : Ready(w, s) \/ Reconnect(w, s) \/ Leave(w, s) \/ Start(w, s)
    BY <2>1 DEF Ready, Reconnect, Leave, Start, Begin
  <2>2. CASE Join(w) \/ TakeSeat(w) \/ FirstIsHost(w) \/ Remove(w) \/ Rehost(w) \/ Commit(w)
    BY <2>2 DEF Join, TakeSeat, FirstIsHost, Remove, Rehost, Commit
  <2>3. CASE MarkReady(w) \/ MarkOnline(w) \/ GoOffline(w)
    BY <2>3 DEF MarkReady, MarkOnline, GoOffline, Mark
  <2>4. QED BY <1>3, <1>4, <2>1, <2>2, <2>3 DEF Handle
<1>5. CASE EngineEnds \/ \E id \in Ids : Expire(id)
  BY <1>5 DEF EngineEnds, Expire
<1>6. QED BY <1>1, <1>4, <1>5 DEF Next

\* Nothing brings back a room that leave_match has deleted.
THEOREM DroppedStaysGone == OneAtATime => (RestartSpec => DroppedIsGone)
<1>1. SUFFICES ASSUME OneAtATime PROVE RestartSpec => DroppedIsGone
  OBVIOUS
<1>2. RestartInv /\ [RestartNext]_restartVars => [~stored /\ stored' => ~Next]_vars
  BY <1>1, DroppedStep DEF RestartInv
<1>3. RestartSpec => []RestartInv
  BY <1>1, Restarts
<1>4. QED BY <1>2, <1>3, PTL DEF RestartSpec, DroppedIsGone

\* What a step may do to the status and to the lifecycle of a player.
StatusStep == status' # status => CanRoomGo(status, status')
PlayerStep ==
  \A s \in Taken \cap Taken' :
    players[s].id = players'[s].id /\ players[s].lifecycle # players'[s].lifecycle
      => CanPlayerGo(players[s].lifecycle, players'[s].lifecycle)

LEMMA MarkTable ==
  ASSUME TypeOK, NEW w \in Workers, Turn(w), MarkReady(w) \/ MarkOnline(w) \/ GoOffline(w)
  PROVE  PlayerStep
<1>1. PlayersOK
  BY TypeParts
<1> DEFINE seat == work[w].seat
           p == players[seat]
<1>2. /\ MarkReady(w) => CanPlayerGo(p.lifecycle, "ready")
      /\ GoOffline(w) => CanPlayerGo(p.lifecycle, "offline")
      /\ seat \in Taken /\ StillSeated(w)
  BY DEF MarkReady, MarkOnline, GoOffline, Is, Turn, Checked, StillSeated
<1>3. p \in Player
  BY <1>1, <1>2 DEF PlayersOK
<1>4. ASSUME NEW s \in Taken, s # seat PROVE players'[s] = players[s]
  <2>1. CASE MarkReady(w)
    BY <1>2, <1>4, <2>1 DEF MarkReady, Mark, Taken
  <2>2. CASE MarkOnline(w)
    BY <1>2, <1>4, <2>2 DEF MarkOnline, Mark, Taken
  <2>3. CASE GoOffline(w)
    BY <1>2, <1>4, <2>3 DEF GoOffline, Mark, Taken
  <2>4. QED BY <2>1, <2>2, <2>3
<1>5. MarkReady(w) => players'[seat].lifecycle = "ready"
  <2>1. MarkReady(w) => players'[seat] = MadeReady(p)
    BY <1>2 DEF MarkReady, Mark, Taken
  <2>2. QED BY <1>3, <2>1, PlayerChanges
<1>6. GoOffline(w) => players'[seat].lifecycle = "offline"
  <2>1. GoOffline(w) => players'[seat] = GoneOffline(p)
    BY <1>2 DEF GoOffline, Mark, Taken
  <2>2. QED BY <1>3, <2>1, PlayerChanges
<1>7. MarkOnline(w) => \/ players'[seat].lifecycle = p.lifecycle
                       \/ p.lifecycle = "offline" /\ players'[seat].lifecycle = "reconnected"
  <2>1. MarkOnline(w) => players'[seat] = BackOnline(p)
    BY <1>2 DEF MarkOnline, Mark, Taken
  <2>2. \/ BackOnline(p).lifecycle = p.lifecycle
        \/ p.lifecycle = "offline" /\ BackOnline(p).lifecycle = "reconnected"
    BY <1>3 DEF BackOnline, Player
  <2>3. QED BY <2>1, <2>2
<1>8. CanPlayerGo("offline", "reconnected")
  BY DEF CanPlayerGo, AllowedPlayerTransitions
<1>9. players[seat].lifecycle # players'[seat].lifecycle
        => CanPlayerGo(players[seat].lifecycle, players'[seat].lifecycle)
  BY <1>2, <1>5, <1>6, <1>7, <1>8
<1>10. QED BY <1>4, <1>9 DEF PlayerStep

LEMMA TableStep ==
  ASSUME OneAtATime, TurnInv, Next
  PROVE  StatusStep /\ PlayerStep
<1>1. PICK w \in Workers : Workers = {w}
  BY DEF OneAtATime
<1>2. TypeOK /\ Turn(w) /\ PlayersOK
  BY TypeParts DEF TurnInv
<1>3. CASE Handle(w)
  <2>1. CASE Join(w) \/ FirstIsHost(w) \/ Save(w) \/ Rehost(w) \/ DropOrSave(w)
    BY <2>1 DEF Join, FirstIsHost, Save, Rehost, DropOrSave, StatusStep, PlayerStep
  <2>2. CASE \E s \in Taken : Ready(w, s) \/ Reconnect(w, s) \/ Leave(w, s) \/ Start(w, s)
    BY <2>2 DEF Ready, Reconnect, Leave, Start, Begin, StatusStep, PlayerStep
  <2>3. CASE TakeSeat(w)
    <3>1. work[w].seat \notin Taken
      BY <1>2, <2>3 DEF TakeSeat, Turn, Checked
    <3>2. QED BY <2>3, <3>1 DEF TakeSeat, Taken, StatusStep, PlayerStep
  <2>4. CASE MarkReady(w) \/ MarkOnline(w) \/ GoOffline(w)
    <3>1. PlayerStep
      BY <1>2, <2>4, MarkTable
    <3>2. QED BY <2>4, <3>1 DEF MarkReady, MarkOnline, GoOffline, Mark, StatusStep
  <2>5. CASE Remove(w)
    BY <2>5 DEF Remove, Restrict, Taken, StatusStep, PlayerStep
  <2>6. CASE Commit(w)
    <3>1. status = "waiting" /\ status' = "running"
      BY <1>2, <2>6 DEF Commit, Is, Turn, Checked
    <3>2. StatusStep
      BY <3>1 DEF StatusStep, CanRoomGo, AllowedRoomTransitions
    <3>3. ASSUME NEW s \in Taken
          PROVE  \/ players'[s].lifecycle = players[s].lifecycle
                 \/ CanPlayerGo(players[s].lifecycle, players'[s].lifecycle)
      <4>1. players'[s] = SetOff(players[s]) /\ players[s] \in Player
        BY <1>2, <2>6 DEF Commit, Taken, PlayersOK
      <4>2. QED BY <4>1 DEF SetOff, Player
    <3>4. QED BY <3>2, <3>3 DEF PlayerStep
  <2>7. QED BY <1>3, <2>1, <2>2, <2>3, <2>4, <2>5, <2>6 DEF Handle
<1>4. CASE EngineEnds \/ \E id \in Ids : Expire(id)
  BY <1>4 DEF EngineEnds, Expire, StatusStep, PlayerStep, CanRoomGo, AllowedRoomTransitions
<1>5. QED BY <1>1, <1>3, <1>4 DEF Next

\* Requests that write a lifecycle without require_transition (reconnect_match,
\* start_match) stay within the tables all the same.
THEOREM TablesAreRespected == OneAtATime => (RestartSpec => TablesRespected)
<1>1. SUFFICES ASSUME OneAtATime PROVE RestartSpec => TablesRespected
  OBVIOUS
<1>2. RestartInv /\ [RestartNext]_restartVars =>
        [/\ status' # status /\ Next => CanRoomGo(status, status')
         /\ \A s \in Taken \cap Taken' :
              players[s].id = players'[s].id /\ players[s].lifecycle # players'[s].lifecycle /\ Next
                => CanPlayerGo(players[s].lifecycle, players'[s].lifecycle)]_vars
  BY <1>1, TableStep DEF RestartInv, StatusStep, PlayerStep
<1>3. RestartSpec => []RestartInv
  BY <1>1, Restarts
<1>4. QED BY <1>2, <1>3, PTL DEF RestartSpec, TablesRespected

\* A crash brings back no room that waits once start_match has saved the match: its
\* players find it running, or gone.
THEOREM StartSurvives == OneAtATime => (RestartSpec => NeverBackToWaiting)
<1>1. SUFFICES ASSUME OneAtATime PROVE RestartSpec => NeverBackToWaiting
  OBVIOUS
<1>2. RestartInv /\ [RestartNext]_restartVars =>
        [status # "waiting" /\ status' = "waiting" => loop = "due" \/ ~stored']_restartVars
  <2> SUFFICES ASSUME RestartInv, RestartNext, status # "waiting", status' = "waiting",
                      loop # "due", stored'
               PROVE  FALSE
    OBVIOUS
  <2>1. CASE Crash
    <3>1. IsRoom(disk) /\ disk.status = "waiting"
      BY <2>1 DEF Crash, IsRoom
    <3>2. PICK w \in Workers : StartKept(w)
      BY <1>1 DEF OneAtATime, RestartInv
    <3>3. QED BY <3>1, <3>2 DEF StartKept, Waits
  <2>2. CASE Next
    <3>1. CanRoomGo(status, "waiting") /\ status \in {"running", "ended"}
      BY <1>1, <2>2, TableStep DEF RestartInv, StatusStep, TurnInv, TypeOK, MatchStatuses
    <3>2. QED BY <3>1 DEF CanRoomGo, AllowedRoomTransitions
  <2>3. CASE UNCHANGED vars
    BY <2>3 DEF vars
  <2>4. QED BY <2>1, <2>2, <2>3, StepKinds
<1>3. RestartSpec => []RestartInv
  BY <1>1, Restarts
<1>4. QED BY <1>2, <1>3, PTL DEF RestartSpec, NeverBackToWaiting

-----------------------------------------------------------------------------
(* Restart implements RoomPromise *)

\* The abstract variables.
SeenPlayer(player) == [id |-> player.id, ready |-> player.ready, away |-> ~player.online]
SeenRoom(st, table, host) == [status |-> st, players |-> Seen(table), host |-> host]
GoneRoom == [status |-> "gone", players |-> [s \in {} |-> NoSeat], host |-> NoSeat]
RoomNow == IF Dropped THEN GoneRoom ELSE SeenRoom(status, players, NewHostSeat)
UsedBy(doing, n) == (1 .. n) \ {doing[w].id : w \in {v \in Workers : doing[v].step = "seat"}}
SavedNow ==
  {SeenIn(file) : file \in {f \in {disk} \cup Range(handles) : f.file = "room"}}

LEMMA SeenTable ==
  ASSUME NEW table
  PROVE  /\ DOMAIN Seen(table) = DOMAIN table
         /\ \A s \in DOMAIN table : Seen(table)[s] = SeenPlayer(table[s])
BY DEF Seen, SeenPlayer

LEMMA SeenSame ==
  ASSUME NEW t, NEW u, DOMAIN u = DOMAIN t,
         \A s \in DOMAIN t : SeenPlayer(u[s]) = SeenPlayer(t[s])
  PROVE  Seen(u) = Seen(t)
BY DEF Seen, SeenPlayer

LEMMA SeenChange ==
  ASSUME NEW table, NEW s \in DOMAIN table, NEW player
  PROVE  Seen([table EXCEPT ![s] = player]) = [Seen(table) EXCEPT ![s] = SeenPlayer(player)]
<1> DEFINE other == [table EXCEPT ![s] = player]
           changed == [Seen(table) EXCEPT ![s] = SeenPlayer(player)]
<1>1. DOMAIN other = DOMAIN table /\ DOMAIN changed = DOMAIN table
  BY DEF Seen
<1>2. ASSUME NEW q \in DOMAIN table PROVE SeenPlayer(other[q]) = changed[q]
  BY SeenTable
<1>3. Seen(other) = [q \in DOMAIN table |-> SeenPlayer(other[q])]
  BY <1>1 DEF Seen, SeenPlayer
<1>4. changed = [q \in DOMAIN table |-> changed[q]]
  BY <1>1
<1>5. QED BY <1>2, <1>3, <1>4

\* Ids that were given to players: all that were handed out, but for that of the
\* request which is about to take its seat.
LEMMA UsedByOne ==
  ASSUME NEW w \in Workers, Workers = {w}, NEW doing, NEW n
  PROVE  UsedBy(doing, n) = IF doing[w].step = "seat" THEN (1 .. n) \ {doing[w].id} ELSE 1 .. n
<1>1. CASE doing[w].step = "seat"
  BY <1>1 DEF UsedBy
<1>2. CASE doing[w].step # "seat"
  BY <1>2 DEF UsedBy
<1>3. QED BY <1>1, <1>2

\* The id a request brings to its seat was handed out.
IdIssued == \A w \in Workers : Is(w, "seat") => work[w].id \in 1 .. issued


\* The steps that neither bring a request to its seat nor take it from there.
LEMMA OtherRequests ==
  ASSUME TypeOK, NEW w \in Workers, Handle(w), ~Join(w), ~TakeSeat(w)
  PROVE  ~Is(w, "seat") /\ work'[w].step # "seat" /\ issued' = issued
<1>1. WorkOK
  BY TypeParts
<1>2. CASE FirstIsHost(w) \/ MarkReady(w) \/ MarkOnline(w) \/ GoOffline(w) \/ Rehost(w) \/ Commit(w)
  <2>1. PICK step \in {"join save", "save", "leave save"} : Goto(w, step) /\ issued' = issued /\ ~Is(w, "free") /\ ~Is(w, "seat")
    BY <1>2 DEF FirstIsHost, MarkReady, MarkOnline, GoOffline, Mark, Rehost, Commit, Is
  <2>2. step \in Steps /\ step # "seat"
    BY DEF Steps
  <2>3. QED BY <1>1, <2>1, <2>2, WentTo
<1>3. CASE Save(w) \/ DropOrSave(w)
  BY <1>1, <1>3, WasDone DEF Save, DropOrSave, Is
<1>4. CASE Remove(w)
  <2>1. Goto(w, "rehost") \/ Done(w)
    BY <1>4 DEF Remove
  <2>2. ~Is(w, "free") /\ ~Is(w, "seat") /\ issued' = issued
    BY <1>4 DEF Remove, Is
  <2>3. QED BY <1>1, <2>1, <2>2, WentTo, WasDone DEF Steps
<1>5. CASE \E s \in Taken : Ready(w, s) \/ Reconnect(w, s) \/ Leave(w, s) \/ Start(w, s)
  <2>1. PICK s \in Taken : \E step : step # "seat" /\ Begin(w, s, step)
    BY <1>5 DEF Ready, Reconnect, Leave, Start
  <2>2. QED BY <1>1, <2>1, Began DEF Is
<1>6. QED BY <1>2, <1>3, <1>4, <1>5 DEF Handle

LEMMA IdStep ==
  ASSUME OneAtATime, TypeOK, IdIssued, [RestartNext]_restartVars
  PROVE  IdIssued'
<1>1. PICK w \in Workers : Workers = {w}
  BY DEF OneAtATime
<1>2. WorkOK /\ issued \in Nat
  BY TypeParts, RoomAssumption DEF TypeOK
<1>3. CASE Handle(w)
  <2>1. CASE Join(w)
    BY <1>1, <1>2, <2>1 DEF Join, WorkOK, IdIssued
  <2>2. CASE TakeSeat(w)
    <3>1. work'[w].step = "host"
      BY <1>2, <2>2, WentTo DEF TakeSeat, Is, Steps
    <3>2. QED BY <1>1, <3>1 DEF IdIssued, Is
  <2>3. CASE ~Join(w) /\ ~TakeSeat(w)
    BY <1>1, <1>3, <2>3, OtherRequests DEF IdIssued, Is
  <2>4. QED BY <2>1, <2>2, <2>3
<1>4. CASE Crash
  BY <1>4 DEF Crash, IdIssued, Is, Free
<1>5. CASE UNCHANGED <<work, issued>>
  BY <1>5 DEF IdIssued, Is
<1>6. [Next]_vars \/ Crash
  BY StepKinds DEF restartVars
<1>7. QED BY <1>1, <1>3, <1>4, <1>5, <1>6 DEF Next, EngineEnds, Expire, vars

\* What a writer dumps is the room as it stands.
LEMMA ImageSeen ==
  ASSUME NEW w \in Workers, Turn(w), Orderly(w), Writing # {}, Workers = {w}, stored
  PROVE  SeenIn(Image) = RoomNow
<1>1. ~Is(w, "host") /\ ~Is(w, "rehost")
  BY DEF Turn, Checked, Orderly, Is
<1>2. HostMatches
  BY <1>1 DEF Turn, HostSettled, Is
<1>3. NewHostSeat = hostSeat
  BY <1>2 DEF HostMatches, NewHostSeat
<1>4. ~Dropped
  <2>1. CASE Is(w, "leave save")
    <3>1. status # "waiting"
      BY <2>1 DEF Orderly, Is
    <3>2. Taken # {}
      BY <3>1 DEF Turn, Started, Seats
    <3>3. QED BY <3>2 DEF Dropped
  <2>2. CASE ~Is(w, "leave save")
    BY <1>1, <2>2 DEF Dropped
  <2>3. QED BY <2>1, <2>2
<1>5. SeenIn(Image) = SeenRoom(status, players, hostSeat)
  BY DEF Image, SeenIn, SeenRoom
<1>6. QED BY <1>3, <1>4, <1>5 DEF RoomNow

LEMMA SavedElements ==
  /\ \A room \in SavedNow :
       \/ IsRoom(disk) /\ room = SeenIn(disk)
       \/ \E x \in Writing : IsRoom(handles[x]) /\ room = SeenIn(handles[x])
  /\ IsRoom(disk) => SeenIn(disk) \in SavedNow
  /\ \A x \in Writing : IsRoom(handles[x]) => SeenIn(handles[x]) \in SavedNow
BY DEF SavedNow, IsRoom, Range, Writing

\* Only the room as it stands is saved, and a crash saves nothing.
LEMMA SavedComes ==
  ASSUME OneAtATime, RestartInv, RestartNext \/ UNCHANGED restartVars
  PROVE  /\ SavedNow' \subseteq SavedNow \cup {RoomNow}
         /\ Crash => SavedNow' \subseteq SavedNow
<1>1. PICK w \in Workers : Workers = {w}
  BY DEF OneAtATime
<1>2. Turn(w) /\ Orderly(w)
  BY DEF RestartInv, TurnInv
<1>3. ASSUME NEW file, IsRoom(file),
             file = disk \/ \E x \in Writing : file = handles[x]
      PROVE  SeenIn(file) \in SavedNow
  BY <1>3, SavedElements
<1>4. ASSUME NEW file, IsRoom(file), file = Image, Writing # {}
      PROVE  SeenIn(file) = RoomNow
  BY <1>1, <1>2, <1>4, ImageSeen, ImageOfRoom
<1>5. ASSUME NEW file, IsRoom(file), file = disk' \/ \E x \in Writing' : file = handles'[x]
      PROVE  SeenIn(file) \in SavedNow \/ (SeenIn(file) = RoomNow /\ ~Crash)
  <2>1. /\ file # Torn /\ file # Nothing
    BY <1>5, NoRoomInIt
  <2>2. \/ file = disk \/ \E x \in Writing : file = handles[x]
        \/ file = Image /\ Writing # {} /\ ~Crash
    BY <1>5, <2>1, FilesCome
  <2>3. QED BY <1>3, <1>4, <1>5, <2>2
<1>6. ASSUME NEW room \in SavedNow' PROVE room \in SavedNow \/ (room = RoomNow /\ ~Crash)
  <2>1. PICK file \in {disk'} \cup Range(handles)' : IsRoom(file) /\ room = SeenIn(file)
    BY <1>6 DEF SavedNow, IsRoom, SeenIn
  <2>2. file = disk' \/ \E x \in Writing' : file = handles'[x]
    BY <2>1 DEF Range, Writing
  <2>3. QED BY <1>5, <2>1, <2>2
<1>7. QED BY <1>6

\* The room seen while the host is settled, before a step and after it.
LEMMA Settled ==
  ASSUME NEW w \in Workers, Workers = {w}, HostMatches, stored,
         Taken # {} \/ (~Is(w, "rehost") /\ ~Is(w, "leave save"))
  PROVE  RoomNow = SeenRoom(status, players, hostSeat)
<1>1. NewHostSeat = hostSeat
  BY DEF HostMatches, NewHostSeat
<1>2. ~Dropped
  BY DEF Dropped
<1>3. QED BY <1>1, <1>2 DEF RoomNow

LEMMA SettledAfter ==
  ASSUME NEW w \in Workers, Workers = {w}, HostMatches', stored',
         Taken' # {} \/ (~Is(w, "rehost")' /\ ~Is(w, "leave save")')
  PROVE  RoomNow' = SeenRoom(status', players', hostSeat')
<1>1. NewHostSeat' = hostSeat'
  BY DEF HostMatches, NewHostSeat
<1>2. ~Dropped'
  BY DEF Dropped
<1>3. QED BY <1>1, <1>2 DEF RoomNow

\* The parts of a room that is seen.
LEMMA SeenParts ==
  ASSUME NEW st, NEW table, NEW host
  PROVE  /\ SeenRoom(st, table, host).status = st
         /\ SeenRoom(st, table, host).players = Seen(table)
         /\ SeenRoom(st, table, host).host = host
         /\ DOMAIN SeenRoom(st, table, host).players = DOMAIN table
BY SeenTable DEF SeenRoom

\* The abstract room and ids in the steps of RoomPromise.
LEMMA PromiseTerms ==
  /\ \A st : Promise!Is(st) <=> RoomNow.status = st
  /\ Promise!Taken = DOMAIN RoomNow.players
  /\ \A st, table, host :
       Promise!Becomes(st, table, host) <=> RoomNow' = [status |-> st, players |-> table, host |-> host]
  /\ Promise!Rest <=> RoomNow' = RoomNow /\ UsedBy(work', issued') = UsedBy(work, issued)
BY DEF Promise!Is, Promise!Taken, Promise!Becomes, Promise!Rest, RoomNow, GoneRoom, SeenRoom, UsedBy, Is

LEMMA TakeSeatKept ==
  ASSUME NEW w \in Workers, Workers = {w}, TypeOK, Turn(w), IdIssued, TakeSeat(w),
         NEW seat \in Seats, seat = work[w].seat
  PROVE  Promise!Join(seat)
<1> DEFINE id == work[w].id
<1>1. WorkOK /\ PlayersOK
  BY TypeParts
<1>2. /\ work[w].step = "seat" /\ ~Is(w, "free") /\ seat \in Seats /\ seat # NoSeat
      /\ stored /\ status = "waiting" /\ seat \notin Taken /\ id \in 1 .. issued
      /\ UNCHANGED <<stored, status, hostSeat, hostId, issued>>
  BY <1>1, BusyWorker DEF TakeSeat, Is, Turn, Checked, IdIssued, Seats, NoSeat
<1>3. work'[w].step = "host"
  BY <1>1, <1>2, WentTo DEF TakeSeat, Steps
<1>4. HostMatches
  BY <1>2 DEF Turn, HostSettled
<1>5. RoomNow = SeenRoom("waiting", players, hostSeat)
  BY <1>2, <1>4, Settled DEF Is
<1>6. /\ Taken' = Taken \cup {seat}
      /\ players' = [q \in Taken \cup {seat} |-> IF q = seat THEN Joined(id) ELSE players[q]]
  BY DEF TakeSeat, Taken
<1>7. NewHostSeat' = IF Taken = {} THEN seat ELSE hostSeat
  <2>1. CASE Taken = {}
    <3>1. hostSeat' = NoSeat /\ Taken' = {seat}
      BY <1>2, <1>4, <1>6, <2>1 DEF HostMatches
    <3>2. Min({seat}) = seat
      BY <1>2, MinOfSeats
    <3>3. QED BY <1>2, <2>1, <3>1, <3>2 DEF NewHostSeat
  <2>2. CASE Taken # {}
    BY <1>2, <1>4, <1>6, <2>2 DEF NewHostSeat, HostMatches
  <2>3. QED BY <2>1, <2>2
<1>8. ~Dropped'
  BY <1>2, <1>6 DEF Dropped
<1>9. RoomNow' = SeenRoom("waiting", players', NewHostSeat')
  BY <1>2, <1>8 DEF RoomNow
<1>10. Seen(players') = [q \in Taken \cup {seat} |->
                           IF q = seat THEN [id |-> id, ready |-> FALSE, away |-> FALSE]
                           ELSE Seen(players)[q]]
  <2>1. DOMAIN players' = Taken \cup {seat}
    BY <1>6
  <2>2. Seen(players') = [q \in Taken \cup {seat} |-> SeenPlayer(players'[q])]
    BY <2>1 DEF Seen, SeenPlayer
  <2>3. SeenPlayer(Joined(id)) = [id |-> id, ready |-> FALSE, away |-> FALSE]
    BY DEF SeenPlayer, Joined
  <2>4. ASSUME NEW q \in Taken \cup {seat}
        PROVE  SeenPlayer(players'[q]) = IF q = seat THEN [id |-> id, ready |-> FALSE, away |-> FALSE]
                                         ELSE Seen(players)[q]
    BY <1>6, <2>3, SeenTable DEF Taken
  <2>5. QED BY <2>2, <2>4
<1>11. /\ UsedBy(work, issued) = (1 .. issued) \ {id}
       /\ UsedBy(work', issued') = 1 .. issued
  BY <1>2, <1>3, UsedByOne
<1>12. /\ RoomNow.status = "waiting" /\ RoomNow.players = Seen(players) /\ RoomNow.host = hostSeat
       /\ DOMAIN RoomNow.players = Taken
  BY <1>5, SeenParts DEF Taken
<1>13. RoomNow' = [status |-> "waiting",
                  players |-> [q \in Taken \cup {seat} |->
                                 IF q = seat THEN [id |-> id, ready |-> FALSE, away |-> FALSE]
                                 ELSE Seen(players)[q]],
                  host |-> IF Taken = {} THEN seat ELSE hostSeat]
  BY <1>7, <1>9, <1>10 DEF SeenRoom
<1>14. /\ id \in UsedBy(work', issued') \ UsedBy(work, issued)
       /\ UsedBy(work', issued') = UsedBy(work, issued) \cup {id}
  BY <1>2, <1>11
<1>15. RoomNow' = [status |-> "waiting",
                  players |-> [q \in DOMAIN RoomNow.players \cup {seat} |->
                                 IF q = seat THEN [id |-> id, ready |-> FALSE, away |-> FALSE]
                                 ELSE RoomNow.players[q]],
                  host |-> IF DOMAIN RoomNow.players = {} THEN seat ELSE RoomNow.host]
  BY <1>12, <1>13
<1>16. RoomNow.status = "waiting" /\ seat \notin DOMAIN RoomNow.players
  BY <1>2, <1>12
<1>17. Promise!Is("waiting") /\ Promise!Taken = DOMAIN RoomNow.players
  BY <1>16, PromiseTerms
<1>18. QED
  BY <1>14, <1>15, <1>16, <1>17
  DEF Promise!Join, Promise!Newcomer, Promise!Becomes, RoomNow, GoneRoom, SeenRoom, UsedBy, Is

\* A step that changes one player in the room.
LEMMA ChangeKept ==
  ASSUME NEW s \in DOMAIN RoomNow.players, NEW player,
         UsedBy(work', issued') = UsedBy(work, issued),
         RoomNow' = [status |-> RoomNow.status, host |-> RoomNow.host,
                     players |-> [RoomNow.players EXCEPT ![s] = player]]
  PROVE  Promise!Changed(s, player)
BY PromiseTerms
DEF Promise!Changed, Promise!Becomes, RoomNow, GoneRoom, SeenRoom, UsedBy, Is

LEMMA SeenChanges ==
  ASSUME NEW p \in Player
  PROVE  /\ SeenPlayer(MadeReady(p)) = [SeenPlayer(p) EXCEPT !.ready = TRUE]
         /\ SeenPlayer(BackOnline(p)) = [SeenPlayer(p) EXCEPT !.away = FALSE]
         /\ SeenPlayer(GoneOffline(p)) = [SeenPlayer(p) EXCEPT !.away = TRUE]
<1>1. /\ MadeReady(p).id = p.id /\ MadeReady(p).ready = TRUE /\ MadeReady(p).online = p.online
      /\ BackOnline(p).id = p.id /\ BackOnline(p).ready = p.ready /\ BackOnline(p).online = TRUE
      /\ GoneOffline(p).id = p.id /\ GoneOffline(p).ready = p.ready
      /\ GoneOffline(p).online = FALSE
  BY DEF MadeReady, BackOnline, GoneOffline, Player
<1> DEFINE id == p.id
           ready == p.ready
           away == ~p.online
<1>2. /\ SeenPlayer(p) = [id |-> id, ready |-> ready, away |-> away]
      /\ SeenPlayer(MadeReady(p)) = [id |-> id, ready |-> TRUE, away |-> away]
      /\ SeenPlayer(BackOnline(p)) = [id |-> id, ready |-> ready, away |-> FALSE]
      /\ SeenPlayer(GoneOffline(p)) = [id |-> id, ready |-> ready, away |-> TRUE]
  BY <1>1 DEF SeenPlayer
<1>3. ASSUME NEW i, NEW r, NEW a, NEW b
      PROVE  [[id |-> i, ready |-> r, away |-> a] EXCEPT !.ready = b] = [id |-> i, ready |-> b, away |-> a]
  OBVIOUS
<1>4. ASSUME NEW i, NEW r, NEW a, NEW b
      PROVE  [[id |-> i, ready |-> r, away |-> a] EXCEPT !.away = b] = [id |-> i, ready |-> r, away |-> b]
  OBVIOUS
<1> DEFINE yes == TRUE
           no == FALSE
<1> HIDE DEF id, ready, away, yes, no
<1>5. /\ [SeenPlayer(p) EXCEPT !.ready = yes] = [id |-> id, ready |-> yes, away |-> away]
      /\ [SeenPlayer(p) EXCEPT !.away = no] = [id |-> id, ready |-> ready, away |-> no]
      /\ [SeenPlayer(p) EXCEPT !.away = yes] = [id |-> id, ready |-> ready, away |-> yes]
  BY <1>2, <1>3, <1>4
<1>6. QED BY <1>2, <1>5 DEF yes, no

LEMMA MarkKept ==
  ASSUME NEW w \in Workers, Workers = {w}, TypeOK, Turn(w), Turn(w)',
         MarkReady(w) \/ MarkOnline(w) \/ GoOffline(w)
  PROVE  \/ RoomNow' = RoomNow
         \/ \E s \in Promise!Taken : Promise!GetReady(s) \/ Promise!GoAway(s) \/ Promise!Return(s)
<1>1. WorkOK /\ PlayersOK
  BY TypeParts
<1> DEFINE seat == work[w].seat
           p == players[seat]
<1>2. /\ ~Is(w, "free") /\ work[w].step \notin {"host", "rehost"} /\ stored /\ seat \in Taken
      /\ GoOffline(w) => status # "waiting"
      /\ StillSeated(w) /\ UNCHANGED <<stored, status, hostSeat, hostId, issued>>
  BY DEF MarkReady, MarkOnline, GoOffline, Mark, Is, Turn, Checked, StillSeated
<1>3. p \in Player /\ seat \in Seats
  BY <1>1, <1>2 DEF PlayersOK
<1>4. PICK q \in {MadeReady(p), BackOnline(p), GoneOffline(p)} :
        /\ players' = [players EXCEPT ![seat] = q]
        /\ \/ q = MadeReady(p)
           \/ q = BackOnline(p)
           \/ q = GoneOffline(p) /\ GoOffline(w)
  <2>1. MarkReady(w) => players' = [players EXCEPT ![seat] = MadeReady(p)]
    BY <1>2 DEF MarkReady, Mark
  <2>2. MarkOnline(w) => players' = [players EXCEPT ![seat] = BackOnline(p)]
    BY <1>2 DEF MarkOnline, Mark
  <2>3. GoOffline(w) => players' = [players EXCEPT ![seat] = GoneOffline(p)]
    BY <1>2 DEF GoOffline, Mark
  <2>4. QED BY <2>1, <2>2, <2>3
<1>5. work'[w].step \notin {"host", "rehost", "seat"}
  BY <1>1, <1>2, WentTo DEF MarkReady, MarkOnline, GoOffline, Steps
<1>6. HostMatches /\ HostMatches'
  BY <1>2, <1>5 DEF Turn, HostSettled
<1>7. Taken' = Taken
  BY <1>4 DEF Taken
<1>8. RoomNow = SeenRoom(status, players, hostSeat) /\ RoomNow' = SeenRoom(status, players', hostSeat)
  BY <1>2, <1>6, <1>7, Settled, SettledAfter
<1>9. Seen(players') = [Seen(players) EXCEPT ![seat] = SeenPlayer(q)]
  BY <1>2, <1>4, SeenChange DEF Taken
<1>10. /\ RoomNow.status = status /\ RoomNow.players = Seen(players) /\ RoomNow.host = hostSeat
       /\ DOMAIN RoomNow.players = Taken /\ RoomNow.players[seat] = SeenPlayer(p)
  BY <1>2, <1>8, SeenParts, SeenTable DEF Taken
<1>11. RoomNow' = [status |-> RoomNow.status, host |-> RoomNow.host,
                   players |-> [RoomNow.players EXCEPT ![seat] = SeenPlayer(q)]]
  BY <1>8, <1>9, <1>10 DEF SeenRoom
<1>12. UsedBy(work', issued') = UsedBy(work, issued)
  BY <1>2, <1>5, UsedByOne DEF MarkReady, MarkOnline, GoOffline, Is
<1>13. Promise!Changed(seat, SeenPlayer(q))
  BY <1>2, <1>10, <1>11, <1>12, ChangeKept
<1>14. CASE SeenPlayer(q) = SeenPlayer(p)
  <2>1. ASSUME NEW s \in Taken PROVE SeenPlayer(players'[s]) = SeenPlayer(players[s])
    <3>1. CASE s = seat
      BY <1>2, <1>4, <1>14, <3>1 DEF Taken
    <3>2. CASE s # seat
      BY <1>2, <1>4, <3>2 DEF Taken
    <3>3. QED BY <3>1, <3>2
  <2>2. Seen(players') = Seen(players)
    BY <1>7, <2>1, SeenSame DEF Taken
  <2>3. QED BY <1>8, <2>2 DEF SeenRoom
<1>15. CASE q = MadeReady(p) /\ ~p.ready
  <2>1. SeenPlayer(q) = [SeenPlayer(p) EXCEPT !.ready = TRUE] /\ ~SeenPlayer(p).ready
    BY <1>3, <1>15, SeenChanges DEF SeenPlayer
  <2>2. status = "waiting"
    BY <1>3, <1>15 DEF Turn, Started
  <2>3. Promise!GetReady(seat)
    BY <1>10, <1>13, <2>1, <2>2, PromiseTerms DEF Promise!GetReady, RoomNow, GoneRoom, SeenRoom
  <2>4. QED BY <1>2, <1>10, <2>3, PromiseTerms
<1>16. CASE q = BackOnline(p) /\ ~p.online
  <2>1. SeenPlayer(q) = [SeenPlayer(p) EXCEPT !.away = FALSE] /\ SeenPlayer(p).away
    BY <1>3, <1>16, SeenChanges DEF SeenPlayer
  <2>2. Promise!Return(seat)
    BY <1>10, <1>13, <2>1 DEF Promise!Return, RoomNow, GoneRoom, SeenRoom
  <2>3. QED BY <1>2, <1>10, <2>2, PromiseTerms
<1>17. CASE q = GoneOffline(p) /\ p.online /\ GoOffline(w)
  <2>1. SeenPlayer(q) = [SeenPlayer(p) EXCEPT !.away = TRUE] /\ ~SeenPlayer(p).away
    BY <1>3, <1>17, SeenChanges DEF SeenPlayer
  <2>2. status # "waiting"
    BY <1>2, <1>17
  <2>3. Promise!GoAway(seat)
    BY <1>10, <1>13, <2>1, <2>2, PromiseTerms DEF Promise!GoAway, RoomNow, GoneRoom, SeenRoom
  <2>4. QED BY <1>2, <1>10, <2>3, PromiseTerms
<1>18. \/ SeenPlayer(q) = SeenPlayer(p)
       \/ q = MadeReady(p) /\ ~p.ready
       \/ q = BackOnline(p) /\ ~p.online
       \/ q = GoneOffline(p) /\ p.online /\ GoOffline(w)
  <2>1. CASE q = MadeReady(p) /\ p.ready
    BY <1>3, <2>1, PlayerChanges DEF SeenPlayer
  <2>2. CASE q = BackOnline(p) /\ p.online
    BY <1>3, <2>2, PlayerChanges DEF SeenPlayer, Player
  <2>3. CASE q = GoneOffline(p) /\ ~p.online
    BY <1>3, <2>3, PlayerChanges DEF SeenPlayer, Player
  <2>4. QED BY <1>4, <2>1, <2>2, <2>3
<1>19. QED BY <1>14, <1>15, <1>16, <1>17, <1>18
LEMMA RemoveKept ==
  ASSUME NEW w \in Workers, Workers = {w}, TypeOK, Turn(w), Remove(w)
  PROVE  Promise!Close \/ \E s \in Promise!Taken : Promise!Leave(s)
<1> DEFINE seat == work[w].seat
<1>1. WorkOK /\ PlayersOK
  BY TypeParts
<1>2. /\ work[w].step = "remove" /\ ~Is(w, "free") /\ stored /\ status = "waiting"
      /\ seat \in Taken /\ HostMatches
      /\ players' = Restrict(players, Taken \ {seat}) /\ Goto(w, "rehost")
      /\ UNCHANGED <<stored, status, hostSeat, issued>>
  BY DEF Remove, Is, Turn, Checked, StillSeated, HostSettled
<1>3. work'[w].step = "rehost"
  BY <1>1, <1>2, WentTo DEF Steps
<1>4. /\ RoomNow = SeenRoom("waiting", players, hostSeat)
      /\ RoomNow.status = "waiting" /\ RoomNow.players = Seen(players) /\ RoomNow.host = hostSeat
      /\ DOMAIN RoomNow.players = Taken
  <2>1. RoomNow = SeenRoom("waiting", players, hostSeat)
    BY <1>2, Settled
  <2>2. QED BY <2>1, SeenParts DEF Taken
<1>5. Taken' = Taken \ {seat} /\ players' = [q \in Taken \ {seat} |-> players[q]]
  BY <1>2 DEF Taken, Restrict
<1>6. UsedBy(work', issued') = UsedBy(work, issued)
  BY <1>2, <1>3, UsedByOne
<1>7. Promise!Is("waiting") /\ Promise!Taken = Taken
  BY <1>4, PromiseTerms
<1>8. CASE Taken' = {}
  <2>1. Dropped'
    BY <1>3, <1>8 DEF Dropped, Is
  <2>2. RoomNow' = GoneRoom
    BY <2>1 DEF RoomNow
  <2>3. \E s \in Taken : Taken = {s}
    BY <1>2, <1>5, <1>8
  <2>4. Promise!Close
    BY <1>6, <1>7, <2>2, <2>3
    DEF Promise!Close, Promise!Gone, Promise!Nobody, RoomNow, GoneRoom, SeenRoom, UsedBy, Is
  <2>5. QED BY <2>4
<1>9. CASE Taken' # {}
  <2> DEFINE host == NewHostSeat'
  <2>1. ~Dropped'
    BY <1>2, <1>9 DEF Dropped
  <2>2. RoomNow' = SeenRoom("waiting", players', host)
    BY <1>2, <2>1 DEF RoomNow
  <2>3. host \in Taken \ {seat} /\ (hostSeat # seat => host = hostSeat)
    <3>1. Taken' \subseteq Seats /\ hostSeat \in Taken
      BY <1>1, <1>2, <1>5 DEF PlayersOK, HostMatches
    <3>2. Min(Taken') \in Taken'
      BY <1>9, <3>1, MinOfSeats
    <3>3. QED BY <1>2, <1>5, <1>9, <3>1, <3>2 DEF NewHostSeat
  <2>4. Seen(players') = [q \in Taken \ {seat} |-> Seen(players)[q]]
    <3>1. DOMAIN players' = Taken \ {seat}
      BY <1>5
    <3>2. Seen(players') = [q \in Taken \ {seat} |-> SeenPlayer(players'[q])]
      BY <3>1 DEF Seen, SeenPlayer
    <3>3. ASSUME NEW q \in Taken \ {seat} PROVE SeenPlayer(players'[q]) = Seen(players)[q]
      BY <1>5, SeenTable DEF Taken
    <3>4. QED BY <3>2, <3>3
  <2>5. RoomNow' = [status |-> "waiting", host |-> host,
                    players |-> [q \in Taken \ {seat} |-> RoomNow.players[q]]]
    BY <1>4, <2>2, <2>4 DEF SeenRoom
  <2>6. Promise!Leave(seat)
    <3> HIDE DEF host
    <3>1. Promise!Becomes("waiting", [q \in Taken \ {seat} |-> RoomNow.players[q]], host)
      BY <2>5, PromiseTerms
    <3>2. RoomNow.host # seat => host = RoomNow.host
      BY <1>4, <2>3
    <3>3. QED
      BY <1>6, <1>7, <2>3, <3>1, <3>2
      DEF Promise!Leave, RoomNow, GoneRoom, SeenRoom, UsedBy, Is
  <2>7. QED BY <1>2, <1>7, <2>6
<1>10. QED BY <1>8, <1>9

LEMMA CommitKept ==
  ASSUME NEW w \in Workers, Workers = {w}, TypeOK, Turn(w), Turn(w)', Commit(w)
  PROVE  Promise!Start
<1>1. WorkOK /\ PlayersOK
  BY TypeParts
<1>2. /\ work[w].step = "commit" /\ ~Is(w, "free") /\ stored /\ status = "waiting"
      /\ Taken = Seats /\ \A s \in Seats : players[s].ready /\ players[s].online
      /\ status' = "running" /\ Taken' = Taken /\ UNCHANGED <<stored, hostSeat, issued>>
      /\ \A s \in Taken : players'[s] = SetOff(players[s])
  BY DEF Commit, Is, Turn, Checked, Taken, Present
<1>3. work'[w].step = "save" /\ Taken # {}
  BY <1>1, <1>2, WentTo DEF Commit, Steps, Seats
<1>4. HostMatches /\ HostMatches'
  BY <1>2, <1>3 DEF Turn, HostSettled
<1>5. RoomNow = SeenRoom("waiting", players, hostSeat) /\ RoomNow' = SeenRoom("running", players', hostSeat)
  BY <1>2, <1>3, <1>4, Settled, SettledAfter
<1>6. ASSUME NEW s \in Taken PROVE SeenPlayer(players'[s]) = SeenPlayer(players[s])
  BY <1>1, <1>2, PlayerChanges DEF PlayersOK, SeenPlayer
<1>7. Seen(players') = Seen(players)
  BY <1>2, <1>6, SeenSame DEF Taken
<1>8. /\ RoomNow.status = "waiting" /\ RoomNow.players = Seen(players) /\ RoomNow.host = hostSeat
      /\ DOMAIN RoomNow.players = Seats
  BY <1>2, <1>5, SeenParts DEF Taken
<1>9. ASSUME NEW s \in Seats PROVE RoomNow.players[s].ready /\ ~RoomNow.players[s].away
  <2>1. RoomNow.players[s] = SeenPlayer(players[s])
    BY <1>2, <1>8, SeenTable DEF Taken
  <2>2. SeenPlayer(players[s]).ready = players[s].ready /\ SeenPlayer(players[s]).away = ~players[s].online
    BY DEF SeenPlayer
  <2>3. QED BY <1>2, <2>1, <2>2
<1>10. RoomNow' = [status |-> "running", players |-> RoomNow.players, host |-> RoomNow.host]
  BY <1>5, <1>7, <1>8 DEF SeenRoom
<1>11. UsedBy(work', issued') = UsedBy(work, issued)
  BY <1>2, <1>3, UsedByOne
<1>12. /\ Promise!Is("waiting") /\ Promise!Taken = Seats
       /\ Promise!Becomes("running", RoomNow.players, RoomNow.host)
  BY <1>8, <1>10, PromiseTerms
<1>13. QED
  BY <1>9, <1>11, <1>12 DEF Promise!Start, RoomNow, GoneRoom, SeenRoom, UsedBy, Is

LEMMA EndKept ==
  ASSUME NEW w \in Workers, Workers = {w}, TypeOK, Turn(w), EngineEnds
  PROVE  Promise!End \/ Promise!Rest
<1>1. /\ status = "running" /\ status' = "ended"
      /\ UNCHANGED <<stored, players, hostSeat, hostId, issued, work, Taken>>
  BY DEF EngineEnds, Taken
<1>2. UsedBy(work', issued') = UsedBy(work, issued)
  BY <1>1
<1>3. Taken # {}
  BY <1>1 DEF Turn, Started, Seats
<1>4. CASE ~stored
  <2>1. Dropped /\ Dropped'
    BY <1>1, <1>4 DEF Dropped
  <2>2. QED BY <1>2, <2>1, PromiseTerms DEF RoomNow
<1>5. CASE stored
  <2>1. HostMatches /\ HostMatches'
    BY <1>1 DEF Turn, Checked, HostSettled, HostMatches
  <2>2. RoomNow = SeenRoom("running", players, hostSeat) /\ RoomNow' = SeenRoom("ended", players, hostSeat)
    BY <1>1, <1>3, <1>5, <2>1, Settled, SettledAfter
  <2>3. /\ RoomNow.status = "running" /\ RoomNow.players = Seen(players) /\ RoomNow.host = hostSeat
        /\ RoomNow' = [status |-> "ended", players |-> RoomNow.players, host |-> RoomNow.host]
    BY <2>2, SeenParts DEF SeenRoom
  <2>4. Promise!Is("running") /\ Promise!Becomes("ended", RoomNow.players, RoomNow.host)
    BY <2>3, PromiseTerms
  <2>5. Promise!End
    BY <1>2, <2>4 DEF Promise!End, RoomNow, GoneRoom, SeenRoom, UsedBy, Is
  <2>6. QED BY <2>5
<1>6. QED BY <1>4, <1>5
\* The steps that no player sees.
LEMMA BeginKept ==
  ASSUME NEW w \in Workers, Workers = {w}, TypeOK, Turn(w), NEW s \in Taken,
         Ready(w, s) \/ Reconnect(w, s) \/ Leave(w, s) \/ Start(w, s)
  PROVE  RoomNow' = RoomNow
<1>1. WorkOK
  BY TypeParts
<1>2. PICK step : Begin(w, s, step) /\ step # "rehost" /\ step # "leave save"
  BY DEF Ready, Reconnect, Leave, Start
<1>3. /\ work'[w].step = step /\ Is(w, "free") /\ stored
      /\ UNCHANGED <<stored, status, players, hostSeat, hostId, Taken>>
  BY <1>1, <1>2, Began
<1>4. HostMatches /\ HostMatches'
  BY <1>3 DEF Turn, HostSettled, HostMatches, Is
<1>5. ~Is(w, "rehost") /\ ~Is(w, "leave save") /\ ~Is(w, "rehost")' /\ ~Is(w, "leave save")'
  BY <1>2, <1>3 DEF Is
<1>6. RoomNow = SeenRoom(status, players, hostSeat) /\ RoomNow' = SeenRoom(status, players, hostSeat)
  BY <1>3, <1>4, <1>5, Settled, SettledAfter
<1>7. QED BY <1>6

LEMMA RestKept ==
  ASSUME NEW w \in Workers, Workers = {w}, TypeOK, Turn(w),
         \/ Join(w) \/ FirstIsHost(w) \/ Save(w) \/ Rehost(w) \/ DropOrSave(w)
         \/ \E s \in Taken : Ready(w, s) \/ Reconnect(w, s) \/ Leave(w, s) \/ Start(w, s)
  PROVE  Promise!Rest
<1>1. WorkOK /\ PlayersOK
  BY TypeParts
<1>2. RoomNow' = RoomNow
  <2>1. CASE Join(w)
    <3>1. /\ Is(w, "free") /\ stored /\ work'[w].step = "seat"
          /\ UNCHANGED <<stored, status, players, hostSeat, hostId>>
      BY <1>1, <2>1 DEF Join, WorkOK
    <3>2. ~Dropped /\ ~Dropped'
      BY <3>1 DEF Dropped, Is
    <3>3. NewHostSeat' = NewHostSeat
      BY <3>1 DEF NewHostSeat, Taken
    <3>4. QED BY <3>1, <3>2, <3>3 DEF RoomNow
  <2>2. CASE FirstIsHost(w)
    <3>1. /\ work[w].step = "host" /\ ~Is(w, "free") /\ stored /\ work[w].seat \in Taken
          /\ hostSeat # NoSeat => hostSeat \in Taken
          /\ hostSeat = NoSeat => Taken = {work[w].seat}
          /\ UNCHANGED <<stored, status, players, Taken>>
      BY <2>2 DEF FirstIsHost, Is, Turn, Checked, StillSeated, HostSettled, Taken
    <3>2. ~Dropped /\ ~Dropped'
      BY <3>1 DEF Dropped
    <3>3. hostSeat' = IF hostSeat = NoSeat THEN work[w].seat ELSE hostSeat
      BY <2>2 DEF FirstIsHost
    <3>4. Taken \subseteq Seats /\ NoSeat \notin Taken
      BY <1>1 DEF PlayersOK, Seats, NoSeat
    <3>5. NewHostSeat' = NewHostSeat
      <4>1. Min(Taken) \in Taken
        BY <3>1, <3>4, MinOfSeats
      <4>2. CASE hostSeat = NoSeat
        BY <3>1, <3>3, <3>4, <4>1, <4>2 DEF NewHostSeat
      <4>3. CASE hostSeat # NoSeat
        BY <3>1, <3>3, <4>3 DEF NewHostSeat
      <4>4. QED BY <4>2, <4>3
    <3>6. QED BY <3>1, <3>2, <3>5 DEF RoomNow
  <2>3. CASE Save(w)
    <3>1. /\ stored /\ stored' /\ Taken # {} /\ work'[w].step = "free" /\ HostMatches
          /\ UNCHANGED <<status, players, hostSeat, hostId, Taken>>
      BY <1>1, <2>3, WasDone DEF Save, Is, Turn, Checked, Inhabited, HostSettled, Taken
    <3>2. ~Dropped /\ ~Dropped' /\ NewHostSeat' = NewHostSeat
      BY <3>1 DEF Dropped, NewHostSeat
    <3>3. QED BY <3>1, <3>2 DEF RoomNow
  <2>4. CASE Rehost(w)
    <3>1. /\ work[w].step = "rehost" /\ stored /\ stored' = stored /\ ~Is(w, "free")
          /\ hostSeat' = NewHostSeat /\ UNCHANGED <<status, players, Taken>>
      BY <2>4 DEF Rehost, Is, Turn, Checked, Taken
    <3>2. work'[w].step = "leave save"
      BY <1>1, <2>4, <3>1, WentTo DEF Rehost, Steps
    <3>3. CASE Taken = {}
      BY <3>1, <3>2, <3>3 DEF RoomNow, Dropped, Is
    <3>4. CASE Taken # {}
      <4>1. NewHostSeat \in Taken
        BY <1>1, <3>4, MinOfSeats DEF NewHostSeat, PlayersOK
      <4>2. NewHostSeat' = NewHostSeat
        BY <3>1, <3>4, <4>1 DEF NewHostSeat
      <4>3. ~Dropped /\ ~Dropped'
        BY <3>1, <3>4 DEF Dropped
      <4>4. QED BY <3>1, <4>2, <4>3 DEF RoomNow
    <3>5. QED BY <3>3, <3>4
  <2>5. CASE DropOrSave(w)
    <3>1. /\ work[w].step = "leave save" /\ stored /\ stored' = (Taken # {})
          /\ work'[w].step = "free" /\ UNCHANGED <<status, players, hostSeat, Taken>>
      BY <1>1, <2>5, WasDone DEF DropOrSave, Is, Turn, Checked, Taken
    <3>2. (Dropped <=> Taken = {}) /\ (Dropped' <=> Taken = {})
      BY <3>1 DEF Dropped, Is
    <3>3. NewHostSeat' = NewHostSeat
      BY <3>1 DEF NewHostSeat
    <3>4. QED BY <3>1, <3>2, <3>3 DEF RoomNow
  <2>6. CASE \E s \in Taken : Ready(w, s) \/ Reconnect(w, s) \/ Leave(w, s) \/ Start(w, s)
    BY <2>6, BeginKept
  <2>7. QED BY <2>1, <2>2, <2>3, <2>4, <2>5, <2>6
<1>3. UsedBy(work', issued') = UsedBy(work, issued)
  <2>1. CASE Join(w)
    <3>1. /\ work[w].step = "free" /\ issued' = issued + 1 /\ issued \in Nat
          /\ work'[w] = [step |-> "seat", id |-> issued + 1, seat |-> FirstFree]
      BY <1>1, <2>1, RoomAssumption DEF Join, Is, WorkOK, TypeOK
    <3>2. /\ UsedBy(work, issued) = 1 .. issued
          /\ UsedBy(work', issued') = (1 .. (issued + 1)) \ {issued + 1}
      BY <3>1, UsedByOne
    <3>3. ASSUME NEW n \in Nat PROVE (1 .. (n + 1)) \ {n + 1} = 1 .. n
      OBVIOUS
    <3>4. QED BY <3>1, <3>2, <3>3
  <2>2. CASE ~Join(w)
    <3>1. Handle(w) /\ ~TakeSeat(w)
      BY <2>2 DEF Handle, TakeSeat, FirstIsHost, Save, Rehost, DropOrSave, Ready, Reconnect, Leave,
                  Start, Begin, Is
    <3>2. ~Is(w, "seat") /\ work'[w].step # "seat" /\ issued' = issued
      BY <2>2, <3>1, OtherRequests
    <3>3. QED BY <3>2, UsedByOne DEF Is
  <2>3. QED BY <2>1, <2>2
<1>4. QED BY <1>2, <1>3, PromiseTerms
LEMMA CrashKept ==
  ASSUME OneAtATime, RestartInv, RestartInv', Crash
  PROVE  Promise!Crash
<1>1. PICK w \in Workers : Workers = {w}
  BY DEF OneAtATime
<1>2. SavedNow' \subseteq SavedNow
  BY SavedComes DEF RestartNext
<1>3. RoomNow' \in SavedNow \cup {GoneRoom}
  <2>1. CASE IsRoom(disk)
    <3>1. /\ stored' = TRUE /\ status' = disk.status /\ players' = disk.players
          /\ hostSeat' = disk.hostSeat /\ work'[w].step = "free"
      BY <2>1 DEF Crash, IsRoom, Free
    <3>2. Turn(w)'
      BY DEF RestartInv, TurnInv
    <3>3. HostMatches'
      BY <3>1, <3>2 DEF Turn, HostSettled
    <3>4. ~Is(w, "rehost")' /\ ~Is(w, "leave save")'
      BY <3>1 DEF Is
    <3>5. RoomNow' = SeenRoom(status', players', hostSeat')
      BY <1>1, <3>1, <3>3, <3>4, SettledAfter
    <3>6. SeenIn(disk) = SeenRoom(disk.status, disk.players, disk.hostSeat)
      BY DEF SeenIn, SeenRoom
    <3>7. QED BY <2>1, <3>1, <3>5, <3>6, SavedElements
  <2>2. CASE ~IsRoom(disk)
    <3>1. ~stored'
      BY <2>2 DEF Crash, IsRoom
    <3>2. Dropped'
      BY <3>1 DEF Dropped
    <3>3. QED BY <3>2 DEF RoomNow
  <2>3. QED BY <2>1, <2>2
<1>4. UsedBy(work, issued) \subseteq UsedBy(work', issued')
  <2>1. work'[w].step = "free" /\ issued' = issued
    BY DEF Crash, Free
  <2>2. UsedBy(work', issued') = 1 .. issued
    BY <1>1, <2>1, UsedByOne
  <2>3. QED BY <2>2 DEF UsedBy
<1>5. crashes' = crashes + 1
  BY DEF Crash
<1>6. QED
  BY <1>2, <1>3, <1>4, <1>5
  DEF Promise!Crash, Promise!Gone, Promise!Nobody, RoomNow, GoneRoom, SeenRoom, SavedNow, UsedBy, Is

\* What a step of Room is to the players.
LEMMA RoomStepKept ==
  ASSUME OneAtATime, RestartInv, RestartInv', IdIssued, [Next]_vars
  PROVE  Promise!Request
<1>1. PICK w \in Workers : Workers = {w}
  BY DEF OneAtATime
<1>2. TypeOK /\ Turn(w) /\ Turn(w)' /\ WorkOK
  BY TypeParts DEF RestartInv, TurnInv
<1>3. CASE TakeSeat(w)
  <2>1. PICK s \in Seats : s = work[w].seat
    BY <1>2, <1>3, BusyWorker DEF TakeSeat, Is
  <2>2. Promise!Join(s)
    BY <1>1, <1>2, <1>3, <2>1, TakeSeatKept
  <2>3. QED BY <2>2 DEF Promise!Request
<1>4. CASE MarkReady(w) \/ MarkOnline(w) \/ GoOffline(w)
  <2>1. CASE RoomNow' = RoomNow
    <3>1. ~Is(w, "seat") /\ work'[w].step # "seat" /\ issued' = issued
      <4>1. ~Join(w) /\ ~TakeSeat(w) /\ Handle(w)
        BY <1>4 DEF Handle, Join, TakeSeat, MarkReady, MarkOnline, GoOffline, Is
      <4>2. QED BY <1>2, <4>1, OtherRequests
    <3>2. UsedBy(work', issued') = UsedBy(work, issued)
      BY <1>1, <3>1, UsedByOne DEF Is
    <3>3. Promise!Rest
      BY <2>1, <3>2, PromiseTerms
    <3>4. QED BY <3>3 DEF Promise!Request
  <2>2. CASE \E s \in Promise!Taken : Promise!GetReady(s) \/ Promise!GoAway(s) \/ Promise!Return(s)
    BY <2>2 DEF Promise!Request
  <2>3. QED BY <1>1, <1>2, <1>4, <2>1, <2>2, MarkKept
<1>5. CASE Remove(w)
  <2>1. Promise!Close \/ \E s \in Promise!Taken : Promise!Leave(s)
    BY <1>1, <1>2, <1>5, RemoveKept
  <2>2. QED BY <2>1 DEF Promise!Request
<1>6. CASE Commit(w)
  <2>1. Promise!Start
    BY <1>1, <1>2, <1>6, CommitKept
  <2>2. QED BY <2>1 DEF Promise!Request
<1>7. CASE \/ Join(w) \/ FirstIsHost(w) \/ Save(w) \/ Rehost(w) \/ DropOrSave(w)
           \/ \E s \in Taken : Ready(w, s) \/ Reconnect(w, s) \/ Leave(w, s) \/ Start(w, s)
  <2>1. Promise!Rest
    BY <1>1, <1>2, <1>7, RestKept
  <2>2. QED BY <2>1 DEF Promise!Request
<1>8. CASE EngineEnds
  <2>1. Promise!End \/ Promise!Rest
    BY <1>1, <1>2, <1>8, EndKept
  <2>2. QED BY <2>1 DEF Promise!Request
<1>9. CASE (\E id \in Ids : Expire(id)) \/ UNCHANGED vars
  <2>1. UNCHANGED <<stored, status, players, hostSeat, issued, work>>
    BY <1>9 DEF Expire, vars
  <2>2. RoomNow' = RoomNow /\ UsedBy(work', issued') = UsedBy(work, issued)
    BY <2>1 DEF RoomNow, Dropped, NewHostSeat, Taken, Is
  <2>3. Promise!Rest
    BY <2>2, PromiseTerms
  <2>4. QED BY <2>3 DEF Promise!Request
<1>10. QED
  BY <1>1, <1>3, <1>4, <1>5, <1>6, <1>7, <1>8, <1>9 DEF Next, Handle

LEMMA PromiseStep ==
  ASSUME OneAtATime, RestartInv, IdIssued, [RestartNext]_restartVars
  PROVE  Promise!Next
<1>1. RestartInv'
  BY RestartStep
<1>2. CASE Crash
  BY <1>1, <1>2, CrashKept DEF Promise!Next
<1>3. CASE ~Crash
  <2>1. [Next]_vars
    BY <1>3, StepKinds DEF restartVars
  <2>2. crashes' = crashes
    <3>1. ASSUME NEW x, Dump(x) \/ DumpFails(x) \/ Close(x) PROVE crashes' = crashes
      BY <3>1, Dumped, LetGo
    <3>2. QED
      BY <1>3, <3>1 DEF RestartNext, Request, TickSaves, CommandSaves, TokenExpires, restartVars
  <2>3. SavedNow' \subseteq SavedNow \cup {RoomNow}
    BY SavedComes
  <2>4. Promise!Request
    BY <1>1, <2>1, RoomStepKept
  <2>5. Promise!Step
    BY <2>2, <2>3, <2>4 DEF Promise!Step, SavedNow, RoomNow, GoneRoom, SeenRoom
  <2>6. QED BY <2>5 DEF Promise!Next
<1>4. QED BY <1>2, <1>3

LEMMA PromiseInit ==
  ASSUME OneAtATime, RestartInit
  PROVE  Promise!Init /\ IdIssued
<1>1. PICK w \in Workers : Workers = {w}
  BY DEF OneAtATime
<1>2. /\ stored /\ status = "waiting" /\ players = [s \in {} |-> Free] /\ hostSeat = NoSeat
      /\ issued = 0 /\ crashes = 0 /\ work[w].step = "free" /\ Taken = {}
  BY DEF RestartInit, Init, Free, Taken
<1>3. Seen(players) = [s \in {} |-> NoSeat]
  BY <1>2 DEF Seen, Taken
<1>4. ~Dropped /\ NewHostSeat = NoSeat
  BY <1>1, <1>2 DEF Dropped, Is, NewHostSeat
<1>5. RoomNow = [status |-> "waiting", players |-> [s \in {} |-> NoSeat], host |-> NoSeat]
  BY <1>2, <1>3, <1>4 DEF RoomNow, SeenRoom
<1>6. UsedBy(work, issued) = {}
  BY <1>1, <1>2, UsedByOne
<1>7. SavedNow = {RoomNow}
  <2>1. Writing = {} /\ disk = Image /\ IsRoom(disk)
    BY <1>2, ImageOfRoom DEF RestartInit, Writing
  <2>2. SeenIn(disk) = RoomNow
    <3>1. SeenIn(Image) = SeenRoom(status, players, hostSeat)
      BY <1>2 DEF Image, SeenIn, SeenRoom
    <3>2. QED BY <1>2, <1>4, <2>1, <3>1 DEF RoomNow
  <2>3. QED BY <2>1, <2>2, SavedElements
<1>8. Promise!Init
  BY <1>2, <1>5, <1>6, <1>7
  DEF Promise!Init, Promise!EmptyRoom, Promise!Nobody, RoomNow, GoneRoom, SeenRoom, SavedNow, UsedBy, Is
<1>9. IdIssued
  BY <1>1, <1>2 DEF IdIssued, Is
<1>10. QED BY <1>8, <1>9

\* Requests one after the other, with all their steps, the tick and a command between
\* them, saves and crashes, are a room whose requests are single steps, for any number
\* of players that come and go and any number of crashes: this is what RoomPromise
\* promises (room_service.py, pickle_repo.py).
THEOREM RoomPromiseKept == OneAtATime => (RestartSpec => RoomKept)
<1>1. SUFFICES ASSUME OneAtATime PROVE RestartSpec => RoomKept
  OBVIOUS
<1>2. RestartInit => Promise!Init /\ IdIssued
  BY <1>1, PromiseInit
<1>3. RestartInv /\ IdIssued /\ [RestartNext]_restartVars => IdIssued'
  BY <1>1, IdStep DEF RestartInv, RestartTypes
<1>4. RestartInv /\ IdIssued /\ [RestartNext]_restartVars => [Promise!Next]_(Promise!vars)
  BY <1>1, PromiseStep
<1>5. RestartSpec => []RestartInv
  BY <1>1, Restarts
<1>6. QED BY <1>2, <1>3, <1>4, <1>5, PTL DEF RestartSpec, RoomKept, Promise!Spec
=============================================================================
