------------------------------ MODULE Restart ------------------------------
(***************************************************************************)
(* A room kept by the pickle repository (app/repository/pickle_repo.py), on *)
(* a server that may crash at any moment and is started again              *)
(* (docker-compose.prod.yml).  Every save and every delete rewrites the    *)
(* file: opening it empties it, dump collects the bytes, and closing it    *)
(* brings them to the disk.  The tick, a command over HTTP and a request   *)
(* do so on different threads and without a lock.  After a crash           *)
(* build_container reads the file; nothing starts the loops of the matches *)
(* found in it.                                                            *)
(*                                                                         *)
(* One room, and one request at a time besides the tick and one command.   *)
(***************************************************************************)
EXTENDS Room

CONSTANT MaxCrashes   \* bound: how often the server crashes

Ticker == "tick"
Command == "command"

ASSUME RestartAssumption ==
  MaxCrashes \in Nat /\ Ticker \notin Workers /\ Command \notin Workers

VARIABLES
  disk,       \* what _load would find in the file
  handles,    \* from the writers that hold the file open to what they have dumped
  overlap,    \* whether the latest writers of the file held it open at the same time
  loop,       \* the task of the match: none, due after start_match, or ticking
  crashes

restartVars == <<vars, disk, handles, overlap, loop, crashes>>

Torn == [file |-> "torn"]          \* not a pickle
NoRoom == [file |-> "no room"]     \* a pickle without the room
Nothing == [file |-> "nothing"]    \* dump has not run

Writing == DOMAIN handles

\* Mutant: the pickle does not keep who the host is.
Image_HostForgotten ==
  IF ~stored THEN NoRoom
  ELSE [file |-> "room", status |-> status, players |-> players,
        hostSeat |-> NoSeat, hostId |-> NoId]

\* Mutant: the pickle does not keep how far the match is.
Image_StatusForgotten ==
  IF ~stored THEN NoRoom
  ELSE [file |-> "room", status |-> "waiting", players |-> players,
        hostSeat |-> hostSeat, hostId |-> hostId]

\* What pickle makes of _matches.
Image ==
  IF ~stored THEN NoRoom
  ELSE [file |-> "room", status |-> status, players |-> players,
        hostSeat |-> hostSeat, hostId |-> hostId]

RestartInit ==
  /\ Init
  /\ disk = Image /\ handles = [x \in {} |-> Nothing] /\ overlap = FALSE
  /\ loop = "none" /\ crashes = 0

-----------------------------------------------------------------------------
(* _flush *)

\* open('wb') empties the file.
Opens(x) ==
  /\ disk' = Torn
  /\ handles' = [y \in Writing \cup {x} |-> IF y = x THEN Nothing ELSE handles[y]]
  /\ overlap' = (Writing # {})

Dump(x) ==
  /\ x \in Writing /\ handles[x] = Nothing
  /\ handles' = [handles EXCEPT ![x] = Image]
  /\ UNCHANGED <<vars, disk, overlap, loop, crashes>>

\* dump raises when a set or a dict of the match changes its size under it, which
\* takes another writer.  The tick loop does not survive it, and the request that
\* has started the match does not get to start it.
DumpFails(x) ==
  /\ x \in Writing /\ handles[x] = Nothing /\ overlap
  /\ handles' = Restrict(handles, Writing \ {x})
  /\ loop' = IF x = Ticker \/ (x \in Workers /\ loop = "due") THEN "none" ELSE loop
  /\ UNCHANGED <<vars, disk, overlap, crashes>>

\* Writers at the same time leave the bytes of the last one, or a mixture.  The
\* request that has started the match goes on to start its loop, and the tick that
\* finds the match ended is the last one.
Close(x) ==
  /\ x \in Writing /\ handles[x] # Nothing
  /\ \/ disk' = handles[x]
     \/ overlap /\ disk' = Torn
  /\ handles' = Restrict(handles, Writing \ {x})
  /\ loop' = CASE x \in Workers /\ loop = "due" -> "on"
               [] x = Ticker /\ status = "ended" -> "none"
               [] OTHER -> loop
  /\ UNCHANGED <<vars, overlap, crashes>>

-----------------------------------------------------------------------------
(* Who writes the file *)

\* Mutant: delete_match does not write the file.
Flushes_NotOnDelete(w) ==
  Is(w, "save") \/ Is(w, "join save") \/ (Is(w, "leave save") /\ Taken # {})

\* The steps of a request that call save_match or delete_match.
Flushes(w) == Is(w, "save") \/ Is(w, "join save") \/ Is(w, "leave save")

Request(w) ==
  /\ w \notin Writing /\ Handle(w)
  /\ IF Flushes(w) THEN Opens(w) ELSE UNCHANGED <<disk, handles, overlap>>
  /\ loop' = IF Is(w, "commit") THEN "due" ELSE loop
  /\ UNCHANGED crashes

\* tick_once_with_events saves the match, whether or not the tick has ended it.
TickSaves ==
  /\ loop = "on" /\ stored /\ Ticker \notin Writing /\ ~OnEventLoop
  /\ EngineEnds \/ UNCHANGED vars
  /\ Opens(Ticker)
  /\ UNCHANGED <<loop, crashes>>

\* A command of a player who is online; a resignation ends the match.
CommandSaves ==
  /\ stored /\ status = "running" /\ Command \notin Writing /\ ~OnEventLoop
  /\ \E s \in Taken : Authenticated(s) /\ players[s].online
  /\ EngineEnds \/ UNCHANGED vars
  /\ Opens(Command)
  /\ UNCHANGED <<loop, crashes>>

TokenExpires ==
  /\ \E id \in Ids : Expire(id)
  /\ UNCHANGED <<disk, handles, overlap, loop, crashes>>

-----------------------------------------------------------------------------

\* The process dies, and build_container loads what the file holds: an empty
\* repository when that is no pickle.
Crash ==
  /\ crashes < MaxCrashes
  /\ crashes' = crashes + 1
  /\ stored' = (disk.file = "room")
  /\ IF disk.file = "room"
     THEN /\ status' = disk.status /\ players' = disk.players
          /\ hostSeat' = disk.hostSeat /\ hostId' = disk.hostId
     ELSE /\ status' = "waiting" /\ players' = [s \in {} |-> Free]
          /\ hostSeat' = NoSeat /\ hostId' = NoId
  /\ work' = [w \in Workers |-> Free]
  /\ handles' = [x \in {} |-> Nothing] /\ overlap' = FALSE
  /\ loop' = "none"
  /\ UNCHANGED <<issued, expired, disk>>

RestartNext ==
  \/ \E w \in Workers : Request(w)
  \/ TickSaves \/ CommandSaves \/ TokenExpires
  \/ \E x \in Workers \cup {Ticker, Command} : Dump(x) \/ DumpFails(x) \/ Close(x)
  \/ Crash

RestartSpec == RestartInit /\ [][RestartNext]_restartVars

-----------------------------------------------------------------------------
(* What the players see of it *)

Seen(table) ==
  [s \in DOMAIN table |->
     [id |-> table[s].id, ready |-> table[s].ready, away |-> ~table[s].online]]

\* What a file with the room tells of it.
SeenIn(file) == [status |-> file.status, players |-> Seen(file.players), host |-> file.hostSeat]

\* The room is deleted, or its last player has left and it is about to be.
Dropped ==
  \/ ~stored
  \/ Taken = {} /\ \E w \in Workers : Is(w, "rehost") \/ Is(w, "leave save")

\* RoomPromise: a request has its effect with the write that seats, removes or changes
\* its player; the host follows from who is seated.
Promise ==
  INSTANCE RoomPromise WITH
    room  <- IF Dropped
             THEN [status |-> "gone", players |-> [s \in {} |-> NoSeat], host |-> NoSeat]
             ELSE [status |-> status, players |-> Seen(players), host |-> NewHostSeat],
    used  <- (1 .. issued) \ {work[w].id : w \in {v \in Workers : Is(v, "seat")}},
    saved <- {SeenIn(file) : file \in {f \in {disk} \cup Range(handles) : f.file = "room"}}

-----------------------------------------------------------------------------
(* Properties *)

\* What the latest request, tick or command left in memory is there after a crash,
\* once its save is through and unless another save ran at the same time: one room,
\* or none when it was deleted.
Survives ==
  [][crashes' # crashes /\ Quiet /\ Writing = {} /\ ~overlap
       => /\ stored' = stored
          /\ stored => UNCHANGED <<status, players, hostSeat, hostId>>]_restartVars

\* A match whose start was saved goes on or is lost; it does not fall back into the
\* waiting room, where its players could leave and others be seated.
NeverBackToWaiting ==
  [][status # "waiting" /\ status' = "waiting" => loop = "due" \/ ~stored']_restartVars

\* Requests with all their steps, ticks, commands, saves and crashes are a room whose
\* requests are single steps: nobody is seated twice or on another's seat, the host
\* stays, a room that all have left does not come back but from a file that an earlier
\* time left behind (room_service.py, pickle_repo.py).
RoomKept == Promise!Spec
=============================================================================
