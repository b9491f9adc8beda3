-------------------------------- MODULE Room --------------------------------
(***************************************************************************)
(* The life of a room: app/services/room_service.py over the repository    *)
(* (app/repository/memory_repo.py), as the routes of api/match_routes.py   *)
(* call it.  The routes are plain functions, which FastAPI runs on a pool  *)
(* of threads: a request is a worker that goes through the steps of its    *)
(* handler, and workers interleave between steps.  start_match alone runs  *)
(* on the event loop, as the tick does.  A request that a check refuses    *)
(* changes nothing and is not shown.                                       *)
(*                                                                         *)
(* All workers hold references to one MatchState object, which lives on in *)
(* a worker when the repository has dropped it.                            *)
(***************************************************************************)
EXTENDS Lifecycle, Integers, FiniteSets, FiniteSetsExt, Functions

CONSTANTS
  Workers,   \* requests that may be in progress at once
  MaxIds     \* bound: how many players may ever join

ASSUME RoomAssumption == MaxIds \in Nat

VARIABLES
  stored,      \* whether the repository has the match
  status,      \* of the match
  players,     \* state.players: from the seats taken to players
  hostSeat, hostId,
  issued,      \* how many player ids were handed out, from 1 on
  expired,     \* ids whose token is past player_token_expires_at
  work         \* what each worker is doing

vars == <<stored, status, players, hostSeat, hostId, issued, expired, work>>

Seats == {1, 2}
NoSeat == 0        \* host_seat None
NoId == 0          \* host_player_id None
Ids == 1 .. MaxIds

Player == [id : Ids, ready : BOOLEAN, online : BOOLEAN, lifecycle : PlayerLifecycles]

\* A worker between requests; a worker within one: the next step of its handler
\* and the handler's locals.
Free == [step |-> "free", id |-> NoId, seat |-> NoSeat]
Steps == {"seat", "host", "join save", "remove", "rehost", "offline", "mark ready", "mark online",
          "commit", "save", "leave save"}

Taken == DOMAIN players
Is(w, step) == work[w].step = step
Goto(w, step) == work' = [work EXCEPT ![w].step = step]
Done(w) == work' = [work EXCEPT ![w] = Free]

\* The match as create_match saves it.
Init ==
  /\ stored = TRUE /\ status = "waiting"
  /\ players = [s \in {} |-> Free] /\ hostSeat = NoSeat /\ hostId = NoId
  /\ issued = 0 /\ expired = {}
  /\ work = [w \in Workers |-> Free]

-----------------------------------------------------------------------------
(* join_match *)

\* Mutant: a third player finds a seat.
FirstFree_NoLimit == IF 1 \notin Taken THEN 1 ELSE IF 2 \notin Taken THEN 2 ELSE 3

FirstFree == IF 1 \notin Taken THEN 1 ELSE 2

Join(w) ==
  /\ Is(w, "free") /\ stored /\ status = "waiting"
  /\ FirstFree \notin Taken
  /\ issued < MaxIds
  /\ issued' = issued + 1
  /\ work' = [work EXCEPT ![w] = [step |-> "seat", id |-> issued + 1, seat |-> FirstFree]]
  /\ UNCHANGED <<stored, status, players, hostSeat, hostId, expired>>

Joined(id) == [id |-> id, ready |-> FALSE, online |-> TRUE, lifecycle |-> "joined"]

\* The seat is given, whoever may hold it by now.
TakeSeat(w) ==
  /\ Is(w, "seat")
  /\ players' = [s \in Taken \cup {work[w].seat} |->
                   IF s = work[w].seat THEN Joined(work[w].id) ELSE players[s]]
  /\ Goto(w, "host")
  /\ UNCHANGED <<stored, status, hostSeat, hostId, issued, expired>>

FirstIsHost(w) ==
  /\ Is(w, "host")
  /\ hostSeat' = IF hostSeat = NoSeat THEN work[w].seat ELSE hostSeat
  /\ hostId' = IF hostSeat = NoSeat THEN work[w].id ELSE hostId
  /\ Goto(w, "join save")
  /\ UNCHANGED <<stored, status, players, issued, expired>>

\* save_match puts the object back, also when it was dropped meanwhile.
Save(w) ==
  /\ Is(w, "save") \/ Is(w, "join save")
  /\ stored' = TRUE
  /\ Done(w)
  /\ UNCHANGED <<status, players, hostSeat, hostId, issued, expired>>

-----------------------------------------------------------------------------
(* Requests of a player who is seated, checked by api/auth.py first *)

\* A player learns its id and token from the answer to its join.
Answered(id) == \A v \in Workers : work[v].id = id => work[v].step \notin {"host", "join save"}

Authenticated(s) ==
  /\ s \in Taken /\ players[s].id \notin expired
  /\ Answered(players[s].id)

Begin(w, s, step) ==
  /\ Is(w, "free") /\ stored /\ Authenticated(s)
  /\ work' = [work EXCEPT ![w] = [step |-> step, id |-> players[s].id, seat |-> s]]
  /\ UNCHANGED <<stored, status, players, hostSeat, hostId, issued, expired>>

\* Whether the player of the request still sits where the handler found it.
StillSeated(w) == work[w].seat \in Taken /\ players[work[w].seat].id = work[w].id

\* The handler writes to the player's dict; when the player has lost the seat, no
\* one sees it.
Mark(w, Changed(_)) ==
  /\ players' = IF StillSeated(w)
                THEN [players EXCEPT ![work[w].seat] = Changed(players[work[w].seat])]
                ELSE players
  /\ UNCHANGED <<stored, status, hostSeat, hostId, issued, expired>>

\* ready_match
Ready(w, s) ==
  /\ Begin(w, s, "mark ready")
  /\ ~players[s].ready /\ CanPlayerGo(players[s].lifecycle, "ready")

MadeReady(player) == [player EXCEPT !.ready = TRUE, !.lifecycle = "ready"]

MarkReady(w) ==
  /\ Is(w, "mark ready")
  /\ Mark(w, MadeReady)
  /\ Goto(w, "save")

\* reconnect_match
Reconnect(w, s) == Begin(w, s, "mark online")

\* Mutant: the player is online again, and the lifecycle still says offline.
BackOnline_LifecycleForgotten(player) == [player EXCEPT !.online = TRUE]

BackOnline(player) ==
  IF player.lifecycle = "offline"
  THEN [player EXCEPT !.online = TRUE, !.lifecycle = "reconnected"]
  ELSE [player EXCEPT !.online = TRUE]

MarkOnline(w) ==
  /\ Is(w, "mark online")
  /\ Mark(w, BackOnline)
  /\ Goto(w, "save")

-----------------------------------------------------------------------------
(* leave_match *)

\* Mutant: a player may go offline from any state.
Leave_Unchecked(w, s) ==
  \/ status = "waiting" /\ Begin(w, s, "remove")
  \/ status # "waiting" /\ Begin(w, s, "offline")

Leave(w, s) ==
  \/ status = "waiting" /\ Begin(w, s, "remove")
  \/ /\ status # "waiting" /\ CanPlayerGo(players[s].lifecycle, "offline")
     /\ Begin(w, s, "offline")

\* The seat is given up; the request fails when it is empty by then.
Remove(w) ==
  /\ Is(w, "remove")
  /\ IF work[w].seat \in Taken
     THEN players' = Restrict(players, Taken \ {work[w].seat}) /\ Goto(w, "rehost")
     ELSE players' = players /\ Done(w)
  /\ UNCHANGED <<stored, status, hostSeat, hostId, issued, expired>>

\* Mutant: the seat of a host who left stays the host's.
NewHostSeat_Kept == IF Taken = {} THEN NoSeat ELSE hostSeat

\* _reassign_host_if_needed
NewHostSeat ==
  IF Taken = {} THEN NoSeat ELSE IF hostSeat \in Taken THEN hostSeat ELSE Min(Taken)

Rehost(w) ==
  /\ Is(w, "rehost")
  /\ hostSeat' = NewHostSeat
  /\ hostId' = IF NewHostSeat \in Taken THEN players[NewHostSeat].id ELSE NoId
  /\ Goto(w, "leave save")
  /\ UNCHANGED <<stored, status, players, issued, expired>>

GoneOffline(player) == [player EXCEPT !.online = FALSE, !.lifecycle = "offline"]

GoOffline(w) ==
  /\ Is(w, "offline")
  /\ Mark(w, GoneOffline)
  /\ Goto(w, "leave save")

\* Mutant: a room is kept when the last player leaves.
DropOrSave_KeepEmpty(w) ==
  /\ Is(w, "leave save")
  /\ stored' = TRUE
  /\ Done(w)
  /\ UNCHANGED <<status, players, hostSeat, hostId, issued, expired>>

\* delete_match when nobody is left, else save_match
DropOrSave(w) ==
  /\ Is(w, "leave save")
  /\ stored' = (Taken # {})
  /\ Done(w)
  /\ UNCHANGED <<status, players, hostSeat, hostId, issued, expired>>

-----------------------------------------------------------------------------
(* start_match, on the event loop, and the engine that ends the match *)

OnEventLoop == \E w \in Workers : Is(w, "commit")

\* Mutant: one player who is ready is enough.
MayStart_Alone(s) ==
  /\ players[s].online /\ hostSeat = s
  /\ \A q \in Taken : players[q].ready

MayStart(s) ==
  /\ players[s].online /\ hostSeat = s
  /\ Taken = Seats
  /\ \A q \in Taken : players[q].ready

Start(w, s) ==
  /\ ~OnEventLoop
  /\ Begin(w, s, "commit")
  /\ MayStart(s) /\ status = "waiting" /\ CanRoomGo(status, "running")

\* What a player becomes when the match starts.
SetOff(player) ==
  IF CanPlayerGo(player.lifecycle, "running") THEN [player EXCEPT !.lifecycle = "running"]
  ELSE player

Commit(w) ==
  /\ Is(w, "commit")
  /\ status' = "running"
  /\ players' = [s \in Taken |-> SetOff(players[s])]
  /\ Goto(w, "save")
  /\ UNCHANGED <<stored, hostSeat, hostId, issued, expired>>

\* The tick, or a resignation, ends the match.
EngineEnds ==
  /\ status = "running" /\ ~OnEventLoop
  /\ status' = "ended"
  /\ UNCHANGED <<stored, players, hostSeat, hostId, issued, expired, work>>

\* A token comes to its end.
Expire(id) ==
  /\ id \in 1 .. issued /\ id \notin expired
  /\ expired' = expired \cup {id}
  /\ UNCHANGED <<stored, status, players, hostSeat, hostId, issued, work>>

-----------------------------------------------------------------------------

Handle(w) ==
  \/ Join(w) \/ TakeSeat(w) \/ FirstIsHost(w) \/ Save(w)
  \/ \E s \in Taken : Ready(w, s) \/ Reconnect(w, s) \/ Leave(w, s) \/ Start(w, s)
  \/ MarkReady(w) \/ MarkOnline(w)
  \/ Remove(w) \/ Rehost(w) \/ GoOffline(w) \/ DropOrSave(w)
  \/ Commit(w)

Next ==
  \/ \E w \in Workers : Handle(w)
  \/ EngineEnds
  \/ \E id \in Ids : Expire(id)

Spec == Init /\ [][Next]_vars

-----------------------------------------------------------------------------
(* Properties *)

\* Types of the room and of the locals of its requests: a seat taken is one of the
\* two, and ids are those that were handed out.
TypeOK ==
  /\ stored \in BOOLEAN /\ status \in MatchStatuses
  /\ Taken \subseteq Seats /\ \A s \in Taken : players[s] \in Player
  /\ hostSeat \in Seats \cup {NoSeat} /\ hostId \in Ids \cup {NoId}
  /\ issued \in 0 .. MaxIds /\ expired \subseteq Ids
  /\ work \in [Workers -> {Free} \cup [step : Steps, id : Ids, seat : Seats]]

\* No request is in progress.
Quiet == \A w \in Workers : Is(w, "free")

\* The host is a seated player and host_player_id is the id at host_seat; there is
\* none only while nobody is seated ("the single source of host is host_seat +
\* host_player_id", README.md).
HostSeated ==
  Quiet =>
    IF Taken = {} THEN hostSeat = NoSeat /\ hostId = NoId
    ELSE hostSeat \in Taken /\ hostId = players[hostSeat].id

\* A match that has started has two players, and keeps them: they go offline, and
\* their seats stay taken ("only matches of 2 players are supported", README.md).
RunningFull ==
  Quiet /\ status # "waiting" => Taken = Seats /\ \A s \in Seats : players[s].ready

\* The two records of presence agree: a player is offline by lifecycle exactly when
\* the online flag, which start_match and the commands look at, is down; nobody goes
\* offline before the match starts.
PresenceAgrees ==
  Quiet => \A s \in Taken :
    /\ players[s].online <=> players[s].lifecycle # "offline"
    /\ ~players[s].online => status # "waiting"

\* A room is dropped with its last player: no request leaves an empty room behind in
\* the list of matches.
NoEmptyRoom == [][~Quiet /\ Quiet' /\ stored' /\ Next => Taken' # {}]_vars

\* A room that was dropped does not come back by any request, tick or command.
DroppedIsGone == [][~stored /\ stored' => ~Next]_vars

\* Players and matches change their state along the tables of the two state
\* machines only, also on the paths that do not call require_transition.
TablesRespected ==
  [][/\ status' # status /\ Next => CanRoomGo(status, status')
     /\ \A s \in Taken \cap Taken' :
          players[s].id = players'[s].id /\ players[s].lifecycle # players'[s].lifecycle /\ Next
            => CanPlayerGo(players[s].lifecycle, players'[s].lifecycle)]_vars
=============================================================================
