-------------------------------- MODULE Live --------------------------------
(***************************************************************************)
(* How the events of a match reach the browsers: the loop task of          *)
(* runtime/tick_loop.py, the sockets of runtime/broadcaster.py, and the    *)
(* handler of api/ws_routes.py, one task per connection.  Tasks of the one *)
(* event loop switch where they await a send; commands over HTTP run on    *)
(* pool threads and may log events at any time.                            *)
(*                                                                         *)
(* Events are numbered in the order they are logged; what they say is the  *)
(* business of Match.  A connection is one WebSocket object, used once.    *)
(***************************************************************************)
EXTENDS Integers, FiniteSets, Sequences, SequencesExt

CONSTANTS
  Conns,       \* connections that are made, one after the other or at once
  LogCap,      \* events the log keeps (models.py:68, 200)
  SnapWindow,  \* events a snapshot carries (snapshot.py:179, 20)
  MaxBatch,    \* bound: events one tick or one command logs
  MaxTotal     \* bound: events of the match

ASSUME LiveAssumption ==
  /\ LogCap \in Nat /\ SnapWindow \in Nat /\ SnapWindow <= LogCap
  /\ MaxBatch \in Nat /\ MaxTotal \in Nat

VARIABLES
  status, total,       \* of the match: its status, and the events logged so far
  sockets,             \* Broadcaster._sockets[match_id]
  conn,                \* what the handler of each connection is doing
  up,                  \* whether the connection is still open
  first, since,        \* the first snapshot of a connection, and the event it was made after
  loop,                \* the loop task
  frames,              \* what it has still to broadcast in this round
  start, visited, failed,   \* of the frame being broadcast: sockets when it began, those done, `dead`
  orphan,              \* whether the set being iterated is no longer the registered one
  before, told,        \* the events logged when the last tick began, and when it ended
  quiet,               \* whether never more than SnapWindow events were logged from tick to tick
  seen                 \* events written to each connection that is still served

socketVars == <<sockets, conn, up, first, since>>
loopVars == <<loop, frames, start, visited, failed, orphan, before, told, quiet>>
vars == <<status, total, socketVars, loopVars, seen>>

END == 0               \* the news that the match has ended
Casting == loop \in {"cast", "last"}   \* "last": in the round whose snapshot says ended
Looping == Casting \/ loop = "sleep"

\* Types, and the order of the counters of a round.
TypeOK ==
  /\ status \in {"waiting", "running", "ended", "deleted"} /\ total \in 0 .. MaxTotal
  /\ sockets \subseteq Conns /\ up \in [Conns -> BOOLEAN]
  /\ conn \in [Conns -> {"new", "joining", "reading", "over"}]
  /\ first \in [Conns -> SUBSET (0 .. MaxTotal)] /\ since \in [Conns -> 0 .. MaxTotal]
  /\ loop \in {"off", "sleep", "cast", "last", "dead"} /\ \A f \in ToSet(frames) : f \subseteq 0 .. MaxTotal
  /\ orphan \in BOOLEAN /\ start \subseteq Conns /\ visited \subseteq Conns /\ failed \subseteq visited
  /\ before <= told /\ told <= total /\ quiet \in BOOLEAN
  /\ seen \in [Conns -> SUBSET (0 .. MaxTotal)]

Init ==
  /\ status = "waiting" /\ total = 0
  /\ sockets = {} /\ conn = [c \in Conns |-> "new"] /\ up = [c \in Conns |-> FALSE]
  /\ first = [c \in Conns |-> {}] /\ since = [c \in Conns |-> 0]
  /\ loop = "off" /\ frames = <<>> /\ start = {} /\ visited = {} /\ failed = {} /\ orphan = FALSE
  /\ before = 0 /\ told = 0 /\ quiet = TRUE
  /\ seen = [c \in Conns |-> {}]

-----------------------------------------------------------------------------
(* The log *)

Lower(a, b) == IF a < b THEN a ELSE b
Higher(a, b) == IF a > b THEN a ELSE b
LogLen(n) == Lower(n, LogCap)

\* The news when a match has ended: in the status of a snapshot, or match_ended.
News(st) == IF st = "ended" THEN {END} ELSE {}

\* Mutant: the newest event is cut off.
Recent_OffByOne(n, st) == (Higher(0, n - SnapWindow) + 1 .. n - 1) \cup News(st)

\* What the snapshot of a log of n events tells.
Recent(n, st) == (Higher(0, n - SnapWindow) + 1 .. n) \cup News(st)

\* Mutant: the first new event is skipped.
Delta_OffByOne(n, m) == m - (LogLen(m) - LogLen(n)) + 2 .. m

\* event_log[before_events:] when m events are logged and there were n: the log is
\* trimmed, so its length says nothing once it is full.
Delta(n, m) == m - (LogLen(m) - LogLen(n)) + 1 .. m

\* Between 0 and MaxBatch events are logged, and a running match may end.
Log == \E k \in 0 .. MaxBatch : total + k <= MaxTotal /\ total' = total + k
MayEnd == status' = status \/ (status = "running" /\ status' = "ended")

-----------------------------------------------------------------------------
(* The match: requests, start and deletion *)

\* A request over HTTP that logs events.
Request == status # "deleted" /\ Log /\ MayEnd /\ UNCHANGED <<socketVars, loopVars, seen>>

\* start_match makes the task and ticks once itself; the events of that tick go nowhere.
Start ==
  /\ status = "waiting" /\ status' = "running"
  /\ loop' = "sleep"
  /\ Log
  /\ UNCHANGED <<socketVars, frames, start, visited, failed, orphan, before, told, quiet, seen>>

\* The last player leaves a waiting room: cleanup_match forgets the sockets.
Delete ==
  /\ status = "waiting" /\ status' = "deleted"
  /\ sockets' = {}
  /\ UNCHANGED <<total, conn, up, first, since, loopVars, seen>>

-----------------------------------------------------------------------------
(* One connection: ws_match *)

\* Registered before anything else; the first snapshot is made now and written
\* after the subscribed frame.
Accept(c) ==
  /\ conn[c] = "new" /\ status # "deleted"
  /\ sockets' = sockets \cup {c}
  /\ conn' = [conn EXCEPT ![c] = "joining"] /\ up' = [up EXCEPT ![c] = TRUE]
  /\ first' = [first EXCEPT ![c] = Recent(total, status)] /\ since' = [since EXCEPT ![c] = total]
  /\ UNCHANGED <<status, total, loopVars, seen>>

\* Without a valid token: closed again, and left registered.
Reject(c) ==
  /\ conn[c] = "new" /\ status # "deleted"
  /\ sockets' = sockets \cup {c}
  /\ conn' = [conn EXCEPT ![c] = "over"]
  /\ UNCHANGED <<status, total, up, first, since, loopVars, seen>>

\* The first snapshot is written; to a connection that is gone this raises, outside the try.
FirstSnapshot(c) ==
  /\ conn[c] = "joining"
  /\ conn' = [conn EXCEPT ![c] = IF up[c] THEN "reading" ELSE "over"]
  /\ seen' = IF up[c] THEN [seen EXCEPT ![c] = @ \cup first[c]] ELSE seen
  /\ first' = [first EXCEPT ![c] = {}]
  /\ UNCHANGED <<status, total, sockets, up, since, loopVars>>

\* A command of this connection: its answer carries the events the log has grown by.
Command(c) ==
  /\ conn[c] = "reading" /\ up[c] /\ status # "deleted"
  /\ IF status = "running" THEN Log /\ MayEnd ELSE UNCHANGED <<status, total>>
  /\ seen' = [seen EXCEPT ![c] = @ \cup Delta(total, total') \cup News(status')]
  /\ UNCHANGED <<socketVars, loopVars>>

\* A connection closes; what was written to it matters no more.
Close(c) ==
  /\ up' = [up EXCEPT ![c] = FALSE]
  /\ first' = [first EXCEPT ![c] = {}] /\ since' = [since EXCEPT ![c] = 0] /\ seen' = [seen EXCEPT ![c] = {}]

\* A frame that cannot be read ends the handler, and the server closes the connection.
BadFrame(c) ==
  /\ conn[c] = "reading" /\ up[c]
  /\ conn' = [conn EXCEPT ![c] = "over"]
  /\ Close(c)
  /\ UNCHANGED <<status, total, sockets, loopVars>>

\* The browser closes, or the network fails.
HangUp(c) ==
  /\ conn[c] \in {"joining", "reading"} /\ up[c]
  /\ Close(c)
  /\ UNCHANGED <<status, total, sockets, conn, loopVars>>

\* WebSocketDisconnect: the only end of a handler that unregisters.  The set of a match
\* that has become empty is dropped.
Disconnect(c) ==
  /\ conn[c] = "reading" /\ ~up[c]
  /\ conn' = [conn EXCEPT ![c] = "over"] /\ sockets' = sockets \ {c}
  /\ orphan' = (orphan \/ (Casting /\ sockets = {c}))
  /\ UNCHANGED <<status, total, up, first, since, loop, frames, start, visited, failed, before, told, quiet, seen>>

-----------------------------------------------------------------------------
(* The loop task *)

\* The frames of the new events, one each.
EventFrames(n, m) == [i \in 1 .. Cardinality(Delta(n, m)) |-> {m - Cardinality(Delta(n, m)) + i}]

\* Mutant: the loop returns at the end before it broadcasts.
Round_EndFirst(n, m, st) == IF st = "ended" THEN <<>> ELSE <<Recent(m, st)>> \o EventFrames(n, m)

\* The frames of a round: the snapshot, each new event, match_ended.
Round(n, m, st) ==
  <<Recent(m, st)>> \o EventFrames(n, m) \o (IF st = "ended" THEN <<{END}>> ELSE <<>>)

\* Mutant: the list of dead sockets is not begun anew.
GoOn_KeepsDead(fs, ss, ended) ==
  /\ visited' = {} /\ orphan' = FALSE /\ UNCHANGED failed
  /\ IF fs = <<>> \/ ss = {}
     THEN frames' = <<>> /\ start' = {} /\ loop' = (IF ended THEN "off" ELSE "sleep")
     ELSE frames' = fs /\ start' = ss /\ loop' = (IF ended THEN "last" ELSE "cast")

\* The frames in fs are next, for the sockets in ss.  Without sockets nothing is
\* awaited and the round is over, and the match too if its snapshot said so.
GoOn(fs, ss, ended) ==
  /\ visited' = {} /\ failed' = {} /\ orphan' = FALSE
  /\ IF fs = <<>> \/ ss = {}
     THEN frames' = <<>> /\ start' = {} /\ loop' = (IF ended THEN "off" ELSE "sleep")
     ELSE frames' = fs /\ start' = ss /\ loop' = (IF ended THEN "last" ELSE "cast")

Tick ==
  /\ loop = "sleep"
  /\ IF status = "running" THEN Log /\ MayEnd ELSE UNCHANGED <<status, total>>
  /\ before' = total /\ told' = total' /\ quiet' = (quiet /\ total' - told <= SnapWindow)
  /\ GoOn(Round(total, total', status'), sockets, status' = "ended")
  /\ UNCHANGED <<socketVars, seen>>

\* The set of sockets is not the size it had when its iteration began.
SizeChanged == orphan \/ Cardinality(sockets) # Cardinality(start)

\* RuntimeError, which nothing catches: the task ends, and with it the ticks.
LoopDies ==
  /\ Casting /\ SizeChanged
  /\ loop' = "dead" /\ frames' = <<>> /\ start' = {} /\ visited' = {} /\ failed' = {} /\ orphan' = FALSE
  /\ before' = 0 /\ told' = 0
  /\ UNCHANGED <<status, total, socketVars, quiet, seen>>

Send(c) ==
  /\ Casting /\ ~SizeChanged
  /\ c \in sockets \ visited
  /\ visited' = visited \cup {c}
  /\ IF up[c]
     THEN seen' = [seen EXCEPT ![c] = @ \cup Head(frames)] /\ UNCHANGED failed
     ELSE failed' = failed \cup {c} /\ UNCHANGED seen
  /\ UNCHANGED <<status, total, socketVars, loop, frames, start, orphan, before, told, quiet>>

\* Mutant: a socket that failed stays.
Alive_All == sockets

Alive == sockets \ failed

\* A newcomer that took the place of one that left may be passed over.
EndFrame ==
  /\ Casting /\ ~SizeChanged
  /\ start \cap sockets \subseteq visited
  /\ sockets' = Alive
  /\ GoOn(Tail(frames), Alive, loop = "last")
  /\ UNCHANGED <<status, total, conn, up, first, since, before, told, quiet, seen>>

Next ==
  \/ Request \/ Start \/ Delete
  \/ \E c \in Conns :
       \/ Accept(c) \/ Reject(c) \/ FirstSnapshot(c) \/ Command(c)
       \/ BadFrame(c) \/ HangUp(c) \/ Disconnect(c) \/ Send(c)
  \/ Tick \/ LoopDies \/ EndFrame

\* A task that can run runs.
Fairness ==
  /\ WF_vars(Tick) /\ WF_vars(LoopDies) /\ WF_vars(EndFrame)
  /\ \A c \in Conns : WF_vars(Send(c)) /\ WF_vars(FirstSnapshot(c)) /\ WF_vars(Disconnect(c))

Spec == Init /\ [][Next]_vars /\ Fairness

-----------------------------------------------------------------------------
(* Properties *)

\* Whoever is connected misses nothing: as long as no more than SnapWindow events are
\* logged from one tick to the next, every event since the connection was accepted,
\* logged in a tick or between two, has been written to it when the round is over,
\* even to one that joined in the middle of a round (tick_loop.py:30-38).
NothingMissed ==
  quiet /\ loop \in {"sleep", "off"} =>
    \A c \in sockets : up[c] => since[c] + 1 .. told \subseteq seen[c]

\* The events a tick itself logs reach every connection however many they are, until
\* the log is full (match_service.py:46, models.py:68).
TicksAreTold ==
  told <= LogCap /\ loop \in {"sleep", "off"} =>
    \A c \in sockets : up[c] => Higher(since[c], before) + 1 .. told \subseteq seen[c]

\* Every connection learns of the end while the loop lives, whichever task ends the
\* match and whatever round is under way (tick_loop.py:41-47, ws_routes.py:103-104).
EndIsAnnounced ==
  \A c \in Conns :
    (status = "ended" /\ Looping /\ c \in sockets /\ up[c])
      ~> (END \in seen[c] \/ ~up[c] \/ loop = "dead")

\* A socket whose handler ended without unregistering goes at the next broadcast
\* (broadcaster.py:29-36), as long as there is one.
DeadSocketsGo ==
  \A c \in Conns : (c \in sockets /\ ~up[c] /\ Looping) ~> (c \notin sockets \/ ~Looping)
=============================================================================
