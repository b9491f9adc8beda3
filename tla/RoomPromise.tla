---------------------------- MODULE RoomPromise ----------------------------
(***************************************************************************)
(* What a room promises its players, without handlers, locks and files:    *)
(* every request is a single step, a seat is one player's who is given an  *)
(* id nobody had, whoever stays is the host, a match that has started      *)
(* keeps its players, and a room that was left by all is gone.  A server   *)
(* that crashes comes back with the room as it was at some time before, or *)
(* without it.                                                             *)
(***************************************************************************)
EXTENDS Naturals

CONSTANTS Seats, NoSeat

VARIABLES
  room,      \* its status, its players by seat, and the host's seat
  used,      \* the ids that were given to players
  saved,     \* the rooms that may come back
  crashes

vars == <<room, used, saved, crashes>>

Nobody == [s \in {} |-> NoSeat]
EmptyRoom == [status |-> "waiting", players |-> Nobody, host |-> NoSeat]
Gone == [status |-> "gone", players |-> Nobody, host |-> NoSeat]

Init == room = EmptyRoom /\ used = {} /\ saved = {EmptyRoom} /\ crashes = 0

Is(status) == room.status = status
Taken == DOMAIN room.players

Becomes(status, players, host) ==
  room' = [status |-> status, players |-> players, host |-> host]

Newcomer(id) == [id |-> id, ready |-> FALSE, away |-> FALSE]

-----------------------------------------------------------------------------

\* A newcomer is given a free seat and an id that nobody had; the first one is the host.
Join(s) ==
  /\ Is("waiting") /\ s \notin Taken
  /\ \E id \in used' \ used :
       /\ used' = used \cup {id}
       /\ Becomes("waiting",
                  [q \in Taken \cup {s} |-> IF q = s THEN Newcomer(id) ELSE room.players[q]],
                  IF Taken = {} THEN s ELSE room.host)

\* A player gives up the seat.  The host stays the host, or another one becomes it.
Leave(s) ==
  /\ Is("waiting")
  /\ \E host \in Taken \ {s} :
       /\ room.host # s => host = room.host
       /\ Becomes("waiting", [q \in Taken \ {s} |-> room.players[q]], host)
  /\ UNCHANGED used

\* The last player leaves.
Close ==
  /\ Is("waiting") /\ \E s \in Taken : Taken = {s}
  /\ room' = Gone
  /\ UNCHANGED used

Changed(s, player) ==
  /\ Becomes(room.status, [room.players EXCEPT ![s] = player], room.host)
  /\ UNCHANGED used

GetReady(s) ==
  /\ Is("waiting") /\ ~room.players[s].ready
  /\ Changed(s, [room.players[s] EXCEPT !.ready = TRUE])

GoAway(s) ==
  /\ ~Is("waiting") /\ ~room.players[s].away
  /\ Changed(s, [room.players[s] EXCEPT !.away = TRUE])

Return(s) ==
  /\ room.players[s].away
  /\ Changed(s, [room.players[s] EXCEPT !.away = FALSE])

Start ==
  /\ Is("waiting") /\ Taken = Seats
  /\ \A s \in Seats : room.players[s].ready /\ ~room.players[s].away
  /\ Becomes("running", room.players, room.host)
  /\ UNCHANGED used

End ==
  /\ Is("running") /\ Becomes("ended", room.players, room.host)
  /\ UNCHANGED used

\* A request is refused, or under way; a file is written.
Rest == UNCHANGED <<room, used>>

Request ==
  \/ Rest \/ Start \/ End \/ Close
  \/ \E s \in Taken : Leave(s) \/ GetReady(s) \/ GoAway(s) \/ Return(s)
  \/ \E s \in Seats : Join(s)

\* Only a room that stood at the time can be saved.
Step ==
  /\ UNCHANGED crashes
  /\ saved' \subseteq saved \cup {room}
  /\ Request

Crash ==
  /\ crashes' = crashes + 1
  /\ room' \in saved \cup {Gone} /\ saved' \subseteq saved
  /\ used \subseteq used'

Next == Step \/ Crash

Spec == Init /\ [][Next]_vars
=============================================================================
