# Verification of Real-time Chess Battle

TLA+ models of the server and of the browser's pages and connection, checked by TLC on
small instances, with theorems about them checked by TLAPS. Paths are relative
to `src/`; where a file is named without its directory it is under `app/`.

The program is a real-time variant of Chinese chess (xiangqi) for two players.
There are no turns: pieces of both sides travel over the board at the same
time, rest after each move, and capture what they touch on their way. Kinds of
pieces are locked at first and are unlocked in waves. A FastAPI server holds
the matches in memory, a task per match ticks ten times a second, and browsers
follow over WebSockets.

## 1. Inventory

### Components

| Component | Code | State | Operations |
|---|---|---|---|
| Rules and board | `core/`, `domain/enums.py`, `engine/board_setup.py` | none | constants, the opening |
| Phases | `engine/phase.py` | none | phase, open wave, options of a wave, at a time |
| Unlocks | `engine/unlock_service.py` | kinds of each player, choice of each wave, waves settled | choose, settle expired waves, unlock all |
| Timeline, occupancy | `engine/timeline.py`, `engine/occupancy.py` | position, move and cooldown of a piece | start, finish; the cells held at a time |
| Move rules | `engine/move_rules.py`, `engine/path_planner.py` | none | validate, plan a path |
| Contacts | `engine/contact_resolver.py` | none | captures and duels of one tick |
| End of the game | `engine/endgame.py` | status, winner, reason | general dead, draws, resignation |
| Match tick | `services/match_service.py` | the match | one tick: all of the above in a fixed order |
| Commands | `services/command_service.py`, `api/command_routes.py` | the match | move, unlock, resign |
| Room | `services/room_service.py`, `domain/*_state_machine.py` | seats, host, lifecycles, status | create, join, ready, start, leave, reconnect |
| Sessions | `services/player_session_service.py`, `api/auth.py` | tokens and their expiry | issue, validate |
| Repository | `repository/` | the stored matches | get, save, delete; pickle file |
| Runtime | `runtime/tick_loop.py`, `runtime/broadcaster.py` | a task and a set of sockets per match | loop, broadcast, connect, disconnect |
| WebSocket route | `api/ws_routes.py` | one task per connection | authenticate, first snapshot, commands |
| Views | `engine/snapshot.py`, `api/query_routes.py` | none | snapshot, legal moves |
| Browser client | `frontend/src/ws`, `frontend/src/hooks/useMatchRealtime.ts` | socket, heartbeat, reconnect timer | connect, disconnect, callbacks |
| Browser pages and session | `frontend/src/App.tsx`, `frontend/src/pages`, `frontend/src/hooks`, `frontend/src/store/sessionStore.ts` | the page shown, the session, calls in progress | join, leave, load a room or a game, go on to the game |
| Browser match store | `frontend/src/store/matchStore.ts` | the last snapshot, recent events | set, merge |

### How they interact

- The tick loop calls `tick_once_with_events`, which drives the engine on the
  one `MatchState` object of the match, and hands the resulting snapshot and
  events to the broadcaster, which awaits a send for each socket.
- Commands come in two ways: over the WebSocket, whose handler runs on the
  event loop and therefore *between* ticks, and over HTTP, whose handlers are
  plain functions that FastAPI runs on a pool of threads, at any moment.
- All room operations but `start_match` are such plain functions. They share
  the `MatchState` object without a lock; `start_match` runs on the event loop
  and starts the loop task.
- A player exists in the room (seat, lifecycle, online flag), in the session
  service (token) and in the sockets of the broadcaster; nothing ties the three
  together but the handlers.
- Every save and every delete of the pickle repository rewrites one file, on whatever
  thread it is called; the file is read once, when the server starts.
- The browser opens a WebSocket when a match page is mounted, sends a heartbeat,
  and reconnects two seconds after a close it did not ask for. A page also loads its
  match over HTTP: it restores the session, then fetches the state. Frames and answers end up in
  the same stores, and answers come back when the user may be elsewhere.

### What is hard, and what must hold

`PROJECT.json` lists the hazards with their lines. In short:

- *Within a tick* lists are drawn up once (arrivals, duels, expired waves) and
  worked off while the state under them changes. No two enemies may be left
  touching; nobody may be taken by a piece that fell before.
- *Sampling.* Ticks see a continuous motion at instants. No two enemies may
  pass through each other between two ticks, no move may hang because its exact
  end was missed, no wave may be lost because the tick came late.
- *Result.* Draw timers, captures and resignations come due together; the
  result must be the one on the board, once and for all.
- *Rooms.* Requests come in any order and, on threads, at the same time. Host,
  seats, presence flags and the stored match must agree.
- *Delivery.* Sockets come and go while frames are sent; the log is bounded.
  What happened must reach whoever is connected.
- *Threads.* A command checks, then writes, while a tick does its steps; the end of a match is three
  assignments. What is recorded must be held, and an ended match must come to rest.
- *Crashes.* The file is empty while it is being rewritten. What was saved must come
  back, and what comes back must be a room the program could be in.
- *Client.* `onclose` of an old socket runs after a new one was made. Late answers act
  on whatever page is shown by then. The page must come to show its own match.

## 2. Modules

```
Ruleset ─ Phase ─ Timeline ─ MoveRules ┐         ┌ Snapshot (Xiangqi) ─ MCMatch (Standard)
                             Lifecycle ┴ Match ──┴ MatchThreads ─ MCThreads (Standard)
                  Timeline ─ Xiangqi
                             Lifecycle ─ Room ─── Restart ─ MCRestart;  Room ─ MCRoom
                             Live ─ MCLive        WsClient ─ MCWsClient
                             Connection ─ Page ─ MCPage
abstract, implemented by:    UnlockPromise by Match,  RoomPromise by Restart,  Connection by WsClient
proofs:  TimelineProofs (Xiangqi) ─ MatchProofs ─ OutcomeProofs (Snapshot) ─ ThreadProofs     Restart ─ RoomProofs
         WsClient ─ WsClientProofs     Live ─ LiveProofs     Page ─ PageProofs
```

**Ruleset** has the durations, the wave table and the cooldowns as constants,
with what `create_match` and `constants.py` guarantee about them as assumptions.
All instants count from `started_at`. **Standard** gives the values and the board
the code ships with. **Phase**, **Timeline** and **MoveRules** are the pure
parts of the engine: the schedule as a function of time, a piece in motion and
the cells it holds, and the legality of a move on a board where pieces travel.
A piece's position within a segment is exact (integers, no fractions of a cell),
because occupancy asks only whether it is on a grid point or between two.

**Xiangqi** is a reference, written from the game and not from the code: how the pieces of Chinese chess step, slide and jump
in directions on a board where nobody travels, that a general takes one it faces (which this program allows), and that no
move may leave the generals facing each other. Pieces of one side may share a cell, since in this program they can.

**Match** is the running match. Its variables are the fields of `MatchState`
(`unlocked` is `unlocked_by_player`, `choice` is `pending_unlock_choice`,
`processed` is `auto_unlock_processed_waves`), the clock, and three locals of the
tick. A tick is the forced sequence of `advance_match`:

| step (`pc`) | code |
|---|---|
| `TickBegin` | `tick_once_with_events`, phase update, full unlock |
| `AutoUnlock(w)`, ascending | one round of the loop of `apply_auto_unlocks` |
| `Contacts` | `advance_all_pieces`, captures of resting pieces, the list of duels |
| `Duel(a, b)`, in spawn order | one round of the loop of `resolve_contacts` |
| `FinishTick` | `finish_move` of arrivals, ready events, general dead, draws |

Commands (`Move`, `ChooseUnlock`, `Resign`, `Leave`, `Reconnect`) happen between
ticks, at the time of the clock, which is ahead of the time of the last tick.
`Elapse` lets time pass, at most `MaxLag` beyond the last tick.

**UnlockPromise** is what all of this comes to for a player: kinds held, waves spent, a kind per wave at most,
and everything in the end, without clocks, windows and ticks. `PromiseKept` of Match says that Match implements it
(`held` is `unlocked`, `spent` the waves with a choice on record).

**MatchThreads** runs Match with commands over HTTP, which is how the browser sends all of them. A request is a
worker with the handler's locals (`now_ms`, the path, the result), and its steps interleave with those of the tick
and of other requests: the checks, then `start_move`; the checks of `choose_unlock`, the kind, the record; the checks of
a resignation, then status, winner, reason. `finish_match` takes the same three steps in the tick (`Judge`,
`Finish`). One step each are the checks of a handler (they read, at one instant, what the code
reads at several), the assignments of `start_move`, and `apply_auto_unlock_for_wave`. Nobody
leaves here: presence is read once, by the check.

**Snapshot** adds the views a player acts upon: `disabled_reason`, the answer of
`legal_moves`, the countdown and next wave of the phase view, and the options of
the unlock view. They are computed from the state of Match at the clock; the code
writes their checks a second time instead of calling the handlers' own. That an offer is kept means that the guards of the
command (`MayCommand` and `MayMove` or `MayChoose`) hold for it. `MovesAreXiangqi` compares `legal_moves` with Xiangqi.
A piece with no `disabled_reason` may still be blocked: `legal_moves` then answers `no_actionable_targets`
(`LegalMovesReason`), which `MoveOfferKept` keeps apart from `piece_not_commandable_now`, the answer for a disabled piece.

**Lifecycle** holds the two transition tables. **Room** runs each request as a
worker that goes through the steps of its handler, one step per write to the
shared state, with the handler's locals (`seat`, `id`) kept in the worker; so two
workers interleave as two pool threads do. `start_match` is one worker on the
event loop: `OnEventLoop` keeps the tick out while it is under way.

**Restart** is Room on the pickle repository, on a server that crashes. The steps of Room that save or delete open the
file (which empties it), then dump, then close, and so do the tick and a command; the three may hold the file open
at once. `disk` is what `_load` would find: the room, a pickle without it, or no pickle at all. `Crash` loads it, as
`build_container` does, drops every request, and leaves no loop. A request is answered when its file
is closed. There is one room; the removal of a match from the dict and the opening of the file count as one step, and a
handler's step is not split by a tick's flush. A mixture of the bytes of two writers counts as no pickle.

**RoomPromise** is what Room and Restart come to for the players: a room in which every request is a single step. A newcomer gets a
free seat and an id nobody had, whoever stays is the host, a started match keeps its players, a room that all have left is
gone, and a crash brings back the room of some earlier time or none. `RoomKept` says that Restart implements it. The
mapping: a request has its effect with the write that seats, removes or changes its player; the host is the one that
`_reassign_host_if_needed` or the first join is about to write; an id is used once its player is seated; a room about to be
deleted is gone; `saved` are the rooms in the file and in what is being written.

**Live** is the way of an event from the log to the browsers: the rounds of the
loop task, the set of sockets that `_broadcast` iterates over while handlers
change it, the handler of each connection, and requests over HTTP that log events
at any time. Events are numbers. A change of the set's size during the iteration
raises in Python, and nothing catches it: that is the step `LoopDies`.

**WsClient** is the class `MatchWsClient` with all its fields, the sockets it has
made (each with its own later `onclose`), the heartbeat intervals and reconnect
timers that exist, whether or not the client still knows their handles, and the
page that mounts and unmounts it. **Connection** is what a page may expect of it: one connection or none, for what the page
connects to, which may be replaced at any time and comes back. `ConnectionKept` says that WsClient implements it.

**Page** is the browser over a Connection: the page shown, the session, the one snapshot of the match store, the calls in
progress, and a server that knows how far each match is and who is seated. Going to a page (`Goto`) includes what its
effects do: the redirect without a session and from the lobby (`Landing`), the HTTP calls (`Loads`), the socket
(`Realtime`). A call goes through `reconnect` and `state`, is refused or answered when it likes, and then acts on the
session, the snapshot and the address, whatever page is shown (`LetIn`, `Refused`, `LoadedGame`, `LoadedRoom`).

## 3. What TLC checks

Expected to pass:

| Run | Instance | Properties and what they show |
|---|---|---|
| `unlock_schedule` | (`MCMatch`) the standard schedule in units of 10 s, ticks up to 3 units late, any choices; 154,022 states | `UnlocksAccounted`, `WavesSettled`, `EveryWavePays`: every expired wave is settled once and gives a kind not yet held, also when one tick settles two waves. `UnlockOfferKept`, `OfferStands`: an invited player has something to choose, gets it, and the offer is taken back only when a late tick picks that kind for an earlier wave. `ForecastHolds`: countdowns and announced waves come true. `PromiseKept`: Match implements UnlockPromise. |
| `battle` | (`MCMatch`) six pieces that cross each other's ways and four that stand, every kind among them, ticks at thirds of a segment; 88,438 states | `ContactFree`, `ListsStayTrue`, `NoPassThrough`, `CapturesEarned` and the types: contacts are settled completely and fairly. `MovesAreXiangqi`: the legal moves on a board at rest are those of Chinese chess. |
| `endgame` | (`MCMatch`) both generals attacked, an advisor that its own general may block, resignation, leaving, draws due; 200,901 states | `OutcomeJustified`, `EndedIsFinal`: the result fits the board and stays. `MoveOfferKept`: of the targets asked for those shown are those accepted; a piece is shown as disabled exactly when `legal_moves` calls it not commandable; an enabled piece that is blocked has no accepted move. |
| `threads` | (`MCThreads`) a chariot before an unlocked general, one wave, draws; two requests on threads and every step of the ticks, under fairness; 67,647 states | `ChoiceIsHeld`: no write of a choice is lost with its kind. `RunningIsOpen`: a running match has its generals and no result. `EndSettles`: only requests let in before the end touch it, and when they are done it stands. `MovesEnd`, `MatchEnds`: moves end, and with draws allowed and a living loop so does the match, its reason recorded. |
| `room` | (`MCRestart`) three ids, one request at a time, tokens that expire, ticks and commands that save, one crash; 1,275,678 states | host, seats and presence agree after any sequence of requests and after the crash (two at once are the races below); transitions are in the tables. `RoomKept`: the handlers' steps come to RoomPromise; deleted rooms stay deleted, and no empty room stays. `Survives`: what was saved alone is there after a crash. `NeverBackToWaiting`: a match whose start was saved goes on or is lost. |
| `ws_client` | (`MCWsClient`) two targets, three visits, two losses; 31,175 states | one connection at most, for the page shown; heartbeat never against a socket that is not open. `ConnectionKept`: the client implements Connection with its fairness, so the connection comes back. |
| `page` | (`MCPage`) two matches, two calls at once, any number of visits and losses; 560,038 states | `FramesOfPage`: the socket brings only the match of the page, to the player seated in it. `CatchesUp`: a player on a page of a running match comes to see its game, whatever late answers put into the stores, while the loop lives. |
| `live` | (`MCLive`) two connections, three events, a log of two; 247,737 states | `NothingMissed`, `TicksAreTold`, `EndIsAnnounced`, `DeadSocketsGo`: events and the end reach those connected; sockets left behind are dropped. |

Expected to be violated, each a finding in `PROJECT.json`:

| Run | What happens |
|---|---|
| `ally_stack` | Two pieces of one side set off for the same empty cell and both come to rest there, which "cannot capture ally" is meant to exclude: the target is looked at only when the command is given. |
| `room_join_race` | Two joins take the same seat; `host_player_id` keeps the id of the player who lost it. |
| `room_start_race` | A player leaves between the checks of `start_match` and its writes: the match runs short of a player. |
| `ws_churn` | Going from one match to another, the late `onclose` of the old socket is taken for a loss of the new connection; the reconnect closes the healthy one, whose `onclose` does it again, every two seconds for ever. |

### Bounds and why they are enough

- *Schedules.* A property of the match depends on the order of instants, not on
  milliseconds. `unlock_schedule` has the code's own order of all of them; its
  `MaxLag` of 3 units is longer than a wave, so two waves may expire in one tick.
  The other runs of Match shorten the schedule to what their question needs. The
  theorems hold for every schedule.
- *Boards* are small so that all interleavings of moves and ticks fit. `battle`
  has head-on, crossing and resting encounters, three enemies in one place, and
  a capture that removes a party of a later duel. `ally_stack` uses the opening.
- *Lag.* In `battle` a segment is three units and ticks are at most two apart. That is essential: with ticks a whole
  segment apart pieces do pass through each other, and with less `NobodyPassesThrough` proves that they never do.
  `tick_ms` may be up to 1000 (`api/schemas.py:13`), a segment, and the loop's own delay adds to it.
- *Clock.* `MaxTime` ends `Elapse`; the system stops there, which is why deadlock
  is not checked in the runs of Match. A finished match, a room nobody asks for
  anything and a browser without pages really stop, so it is not checked elsewhere either.
- *Threads.* Two requests, each of any kind, and ticks one unit apart in a match of six units: a resignation meets a capture, a
  choice meets the automatic pick of the same wave, a move meets the fall of its piece.
- *Room.* Three ids for two seats, so that a seat changes hands and a host is followed by another (four ids without crashes
  gave nothing new). Two workers suffice for the two races. One crash at any instant; all
  properties of the run also hold with two (2,019,819 states), so that the second may hit the file written by what the first
  one had left, and the theorems have any number.
- *Page.* Two matches, since every confusion is between the page's match and another. A third call in progress
  counts as one that never gets an answer.
- *WsClient.* Four slots and four timers never all fill up with three visits and
  two losses, so the bounds cut nothing off (checked by stating it as an invariant).
  `ws_churn` needs no loss at all.
- *Live.* `LogCap` 2 and `SnapWindow` 1 stand for 200 and 20; a tick logs at most 2
  events, so the window and the log overflow. Two connections show a set that
  grows, shrinks and changes its members while its size stays.

### Fairness

- `threads`: weak fairness of the steps of the tick and of `Elapse`: `run_loop` is an endless loop with a sleep, and time
  passes. Weak fairness of each request that has begun: a thread of the pool goes on. Nobody has to make a request.
- `ws_client`, `ws_churn`: weak fairness of the callbacks a browser owes (a socket that
  closes is closed, a timer fires); strong fairness of `Opened`, an attempt that is
  made for ever succeeds some day. Losses are bounded.
- `page`: what `ws_client` shows of Connection (strong fairness of `Up`, weak fairness of coming back, both for the
  page's part of the step as well); frames arrive (strong fairness of `Receive`, since a loss may take a frame); effects run; a
  running match ticks. HTTP calls may hang for ever, and nobody has to press anything.
- `live`: weak fairness of tasks that can run: the loop, each send, the first snapshot
  and the disconnect of a handler. Nobody has to connect, send or hang up. No fairness for starting a match.

## 4. What is proved

TLAPS checks these for every board, schedule, set of pieces asked for, number of workers, sockets, connections
and timers. Assumptions are the named ASSUMEs of `Ruleset`, `Timeline`, `Match`, `MatchThreads`, `Room`,
`Restart`, `Live`, `Connection`, `Page` and `WsClient`; TLC evaluates each in a run. Some theorems need more, which
the runs satisfy: `OneAtATime` for rooms, `MaxLag < Segment` for `NobodyPassesThrough`, for the views windows that
close by the full unlock or are adjacent, as the default ones are, and `EnoughToOffer` for the waves: each wave offers more
kinds than there are other waves that open before it is settled at the latest. The default table satisfies it as long as
ticks are at most 40 s late (`unlock_schedule` has up to 30 s).

- **TimelineProofs.** A phase is well formed and its deadline is not in the past; every wave
  that closes by the full unlock is the current one at some instant, however custom
  windows overlap. The cells a piece holds are on the board, so the list indexing of
  `get_piece_segment_state` never fails; the path of a legal move stays on the board and
  ends at its target, and the move lasts a segment per cell. A piece holds a point of its path from
  leaving the point before until it reaches the one after (`HoldsPoint`). `RulesAtRest`: on a board where nobody travels
  `validate_move` accepts what Xiangqi calls legal. The cells counted between two cells are the screens of a ray (`Rays`,
  `CountAtRest`); the position with the mover at its target and everyone else there captured is what
  `would_generals_face_after_move` looks at by ignoring pieces and excluding a target between the generals (`FacingPair`).
- **MatchProofs.** `TypeOK`, `ListsStayTrue` and `ContactFree`. ContactFree is about
  the time between ticks and not inductive. The invariant is
  `IInv == TypeOK /\ ListsStayTrue /\ ContactFree`: before contacts are looked for, resting
  enemies do not share a cell (`RestingApart`); while duels are settled, every pair of enemies that
  still touch is on the list and everyone alive on a list is there rightly. A tick does not
  change the cells of a piece except by its fall (`FinishTickKeepsCells`, `FallKeepsCells`), and
  neither does a move at its start (`MoveKeepsCells`): so what the list leaves behind holds between ticks.
  `NoPassThrough` holds if `MaxLag < Segment`. Its invariant is `NoneMissed`: of two enemies alive whose paths meet head-on,
  the meeting had not begun at the last tick. The first tick after it has begun comes before
  it is over, finds both on the cell that the second leaves (`PointTimes`), and `ContactFree` says that one of them falls.
- **OutcomeProofs.** `CapturesEarned`, `OutcomeJustified` (with the facts that hold inside
  a tick as the strengthening) and `EndedIsFinal`. `UnlocksAccounted` and `WavesSettled`; the latter from `WaveInv`, which
  says at which step of a tick which waves are still open. `PromiseKept`: every step of Match is a step of
  UnlockPromise or stutters. A choice and an automatic pick map to `Grant`, the first tick after the full unlock to `UnlockAll`;
  that the wave was not spent is the check of the code, that the pick is on offer or the fallback is `AutoPick`'s.
  Of the views: `OfferStands`, when every window closes by the full unlock (`DueBeforeOpen`: a wave that a late tick
  settles comes before the open one), and `ForecastHolds`, when the windows follow on each other without gap or overlap
  (`Adjacent`): then exactly one wave is open at any instant between the soldier-only phase and the full unlock.
  `MoveOffersKept`: what `legal_moves`, `disabled_reason` and the command say of a piece agree, whichever moves are asked for;
  `LegalMovesExact`: so for every cell. `MovesOfXiangqi`: with nobody travelling the list is
  Xiangqi (`RulesAtRest`, with `ContactFree` and `OutcomeJustified` for what it assumes of a board). Under `EnoughToOffer`,
  `EveryWaveHasPaid` and `UnlockOffersKept`: a wave is settled by the first tick that finds it expired (`SettledInTime`), so
  only waves that opened before that can have taken its kinds, and one is left.
  Then the safety core of what fairness is needed for. `MovesEndInTime`: no move is overdue by more than the lag, and a tick
  leaves none that is due. `ReadinessIsAnnounced`: nor a cooldown that is over and unannounced. `TicksGoOn` and `TicksEnd`:
  the loops of a tick always have a next item, and each step leaves less work (`TickWork`). `MatchesAreBounded`: with draws allowed
  a running match is no older than the first draw check and one draw period with lag for every piece but one. With
  32 pieces and 90 s without a capture that is 31 such periods.
- **ThreadProofs.** For any number of requests on threads: types, `ChoiceIsHeld`, `RunningIsOpen`, `EndSettles`. The
  invariant carries, for each request and the tick, what its locals guarantee at its step: a path that was legal when it was
  planned, a kind that is held once it is added, a result whose status has been written. `ContactFree` and `OutcomeJustified` are not among
  them, because they are false here (section 5).
- **RoomProofs.** About `RestartSpec`. For any number of requests at once: types, and `Survives`, from `SavedInv`: with no writer
  left and no overlap the file is the image of the room. Under `OneAtATime` (at most one worker besides ticks and
  a command): `HostSeated`, `RunningFull`, `PresenceAgrees`, `NoEmptyRoom`, `DroppedIsGone`, `TablesRespected`, and
  `NeverBackToWaiting`. `RestartInv` describes the room after every step of every handler (`TurnInv`: the
  one request under way determines in which way the room may be inconsistent), and says that every image on the disk
  or about to be written is of a room that could stand by itself (`SoundFiles`), and that once the start is saved no file
  holds the waiting room any more (`StartKept`). The assumption is needed; see below.
  `RoomPromiseKept`: every step of Restart is a step of RoomPromise or stutters, one lemma per handler step (`TakeSeatKept`,
  `MarkKept`, `RemoveKept`, `CommitKept`, `EndKept`, `RestKept`, `CrashKept`). What is needed of the invariant is that the host's
  seat is settled wherever the mapping does not foresee it, and that every image is of a room that stood (`SavedComes`).
- **WsClientProofs.** `OneSocket`, `ReconnectsToPage` and `HeartbeatHasSocket` from
  `ClientInv`: a live socket is `ws` and was made for `lastArgs`, which is the page's target while one is
  mounted, and the one interval that runs is the one `heartbeat` names. `ConnectionIsSafe`: every step maps to a
  step of Connection or a stutter (its fairness is left to TLC).
- **LiveProofs.** For any number of connections, any capacity of the log and any window: types, `NothingMissed` and
  `TicksAreTold`. The invariant is that what a connection has not been written yet the round under way
  still holds, and the iteration still has the connection before it.
- **PageProofs.** `FramesOfPage`, for any matches and any number of calls in progress, from `Followed`: the
  target of the connection is the page's match and the session's player, whatever answers come late.

Only model-checked: all liveness properties (`MovesEnd`, `MatchEnds`, `CatchesUp`, the fairness of `ConnectionKept`, `EndIsAnnounced`,
`DeadSocketsGo`), which are out of the prover's reach. Of the first two the safety core is proved, as said. `NoEmptyRoom` and
`DroppedIsGone` of Room are proved and no longer asked of TLC, since `RoomKept` covers them in the same run.

## 5. What the properties do not promise

- *Rooms with two requests at once.* All properties of `room` but the types and `Survives` fail with two workers: two of
  them are shown as runs, the others are the same races in other places.
- *Commands on threads.* These hold where commands run between ticks and fail in MatchThreads, as TLC shows at once when they
  are asked for in `threads`: `OutcomeJustified` (a resignation and a capture mix winner and reason, and the last snapshot may come
  between status and winner), `PromiseKept` (a choice and the automatic pick of the same wave give two kinds), `ContactFree` (a
  move starts late, from where its piece no longer is or after it has fallen, along the path planned before). `NoPassThrough` and
  `CapturesEarned` hold in that instance, which is too small for them, and are not claimed. Two requests may also set one
  piece off twice; the later one counts.
- *Crashes.* A crash between opening and closing the file loses every match, and overlapping saves may leave an older or a torn
  file: `Survives` excludes both. The loop of a running match is not started again, and `start_match` refuses it, so the
  match stands still while commands to it are accepted. `README.md:82` recommends the pickle repository for development only,
  `docker-compose.prod.yml` uses it.
- *Late answers.* An HTTP answer for an earlier page replaces the snapshot, the session and the address. Any failure of
  `reconnect`, also of the network, clears the session. A late snapshot of a match that has ended stays. `CatchesUp` says only that a
  player whose session is the page's comes to see a *running* match.
- *The loop.* `MatchEnds` and `CatchesUp` take a loop that lives: a match that no longer ticks neither ends by itself nor sends.
  `LoopDies` is possible whenever a connection comes or goes while a frame is being sent.
  The match then never ticks again. The properties of `Live` end there.
- *A full log.* `tick_once_with_events` takes the new events by the length of the log,
  which no longer grows once 200 are in it. `TicksAreTold` is stated up to that point; afterwards
  events reach browsers with the 20 latest of each snapshot only (`NothingMissed`).
- *Reconnect after leaving.* The client keeps one timer handle, two late `onclose` calls set two
  timers, and the one that is forgotten may connect after the page was left. `ReconnectsToPage`
  speaks of the time a page is mounted.
- *Custom windows.* With windows that leave gaps the deadline of `midgame` is the full unlock,
  although a wave comes before it, and a wave that would close after the full unlock is never settled; what it offered
  lapses with the full unlock.
  `ForecastHolds` is checked for the default windows and proved for adjacent ones.
- *Names of next phases.* The phase view announces `midgame` after every wave, where adjacent
  windows lead to the next wave or the full unlock; the unlock view announces wave 0 again whenever no
  wave is open. The model has the instants and the wave of the phase view, not these names.
- *Offers to players who are offline.* Views are shown to whoever has the token;
  commands are refused. The offer properties are about players who are online.

## 6. Not modelled, and why

- Storage scaffolds (MySQL, Redis, archive) are constructed but called by no request.
- Of the browser: drawing, the room and notification stores, the helpers of `session/` that no page calls, the buttons that only
  send a request (ready and the commands), the copy of the session in localStorage, and the merge of events (the limit of 120
  and the key of an event are about what a list shows).
- Wiring but for the choice of the repository, logging, metrics, request schemas and response building have no state of the
  match. `creator_player_id` and the payload of a join are written and never read back by a decision.
- `piece_ready` events: they would need the log inside Match, and nothing depends on them. What a tick owes is proved
  (`ReadinessIsAnnounced`); a piece that sets off again before the tick is never announced.

## 7. Plan

What is left, in the order of importance:

1. `unlock_schedule` with overlapping and with gapped custom windows.
2. What holds of rooms with any number of requests at once besides the types and `Survives`, stated and proved.
3. What of Xiangqi is left while pieces travel: which squares block a move, and whose.

## 8. Running

In this directory: `tlc -workers 2 -config battle.cfg MCMatch.tla` (the module of each run is in the table; the
races of the room use `MCRoom`) and `tlapm MatchProofs.tla`. Each definition ending in `_Something` after a definition's name and marked
*Mutant* is that definition with a plausible bug; `PROJECT.json` says which property finds it.
