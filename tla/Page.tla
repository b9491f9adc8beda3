-------------------------------- MODULE Page --------------------------------
(***************************************************************************)
(* What a player's browser shows: the pages (frontend/src/pages) with      *)
(* their controllers (hooks/), the session and the match store (store/),   *)
(* over a Connection.  A page loads its match over HTTP and follows it on   *)
(* the socket, and both put what they get into the one snapshot of the     *)
(* store.  An answer over HTTP arrives when the user may be on another     *)
(* page: it acts on the stores and on the address of the browser all the   *)
(* same.                                                                   *)
(*                                                                         *)
(* The server is kept to what the browser can tell: how far each match is, *)
(* and whether this player is seated in it.  A frame is read as it is sent *)
(* and in order; an HTTP answer tells what the server knew when it served  *)
(* the call.  One call beyond the bound is one that never gets an answer.  *)
(***************************************************************************)
EXTENDS Connection, Naturals, FiniteSets

CONSTANTS
  Rooms,      \* matches this browser may join
  MaxCalls    \* bound: HTTP calls in progress at once

\* The id and token of one match can be used at another, where they fail.
ASSUME PageAssumption == Targets = [match : Rooms, as : Rooms] /\ MaxCalls \in Nat

VARIABLES
  status, seated,   \* on the server: status of each match; matches this player is seated in
  view,             \* the page in the browser
  session,          \* sessionStore: the match its id and token are for
  snapshot,         \* matchStore: match and status of the last snapshot
  stale,            \* whether RoomPage has yet to look at the snapshot
  calls,            \* calls of loadInitial and loadRoom in progress
  owed              \* whether a frame with a snapshot is on its way

serverVars == <<status, seated>>
pageVars == <<linkVars, serverVars, view, session, snapshot, stale, calls, owed>>

Lobby == [page |-> "lobby", match |-> None]
RoomPage(r) == [page |-> "room", match |-> r]
GamePage(r) == [page |-> "game", match |-> r]

\* The server lets a player in who is seated in the match.
Accepts(target) == target.as = target.match /\ target.match \in seated

\* The match whose frames come over the link.
Following == IF link # None /\ link.up /\ Accepts(link.target) THEN {link.target.match} ELSE {}

PageInit ==
  /\ LinkInit
  /\ status = [r \in Rooms |-> "waiting"] /\ seated = {}
  /\ view = Lobby /\ session = None /\ snapshot = None /\ stale = FALSE
  /\ calls = {} /\ owed = FALSE

-----------------------------------------------------------------------------
(* Going to a page, and what its effects do *)

\* Nobody stays on a match's page without a session, or is sent to the lobby with one.
Landing(at, as) ==
  CASE at # Lobby /\ as = None -> Lobby
    [] at = Lobby /\ view # Lobby /\ as # None -> RoomPage(as)
    [] OTHER -> at

\* loadRoom runs when a room page is mounted, loadInitial of a game page also when
\* the session has changed.
Loads(at, as) ==
  IF at # Lobby /\ (at # view \/ (at.page = "game" /\ as # session))
  THEN {[page |-> at.page, match |-> at.match, as |-> as, stage |-> "reconnect"]}
  ELSE {}

\* Mutant: the effect runs only when the user comes from the lobby.
Realtime_FirstPage(at, as) ==
  CASE at = Lobby /\ page # None -> Unmount
    [] at # Lobby /\ view = Lobby -> Mount([match |-> at.match, as |-> as])
    [] OTHER -> UNCHANGED linkVars

\* useMatchRealtime: a page that is mounted, and a change of what it connects to,
\* makes a new connection.
Realtime(at, as) ==
  CASE at = Lobby /\ page = None -> UNCHANGED linkVars
    [] at = Lobby /\ page # None -> Unmount
    [] at = view /\ as = session -> UNCHANGED linkVars
    [] OTHER -> Mount([match |-> at.match, as |-> as])

\* The browser goes to page `to`, and the session becomes `as`; `others` are the
\* calls that are in progress besides.
Goto(to, as, others) ==
  LET at == Landing(to, as)
      all == others \cup Loads(at, as) IN
  /\ view' = at /\ session' = as
  /\ Realtime(at, as)
  /\ calls' = IF Cardinality(all) <= MaxCalls THEN all ELSE others
  /\ stale' = (at.page = "room" /\ (at # view \/ stale))
  /\ owed' = (owed /\ link' = link)
  /\ UNCHANGED snapshot

-----------------------------------------------------------------------------
(* The user *)

\* The lobby's join, and the session it is answered with.
JoinRoom(r) ==
  /\ view = Lobby /\ r \notin seated /\ status[r] = "waiting"
  /\ seated' = seated \cup {r} /\ UNCHANGED status
  /\ Goto(RoomPage(r), r, calls)

\* The button of RoomPage; the server gives the seat away while the match waits.
LeaveRoom ==
  /\ view.page = "room" /\ session = view.match /\ session \in seated
  /\ seated' = IF status[session] = "waiting" THEN seated \ {session} ELSE seated
  /\ UNCHANGED status
  /\ Goto(Lobby, None, calls)

\* The button Start of RoomPage, which the server refuses unless the match waits.
\* Whether it starts the match is Progress; its answer takes the user to the game if
\* the match runs, as that of loadRoom does.
PressStart ==
  /\ view.page = "room" /\ session = view.match /\ session \in seated
  /\ status[session] = "waiting" /\ Cardinality(calls) < MaxCalls
  /\ calls' = calls \cup {[page |-> "room", match |-> view.match, as |-> session, stage |-> "state"]}
  /\ UNCHANGED <<linkVars, serverVars, view, session, snapshot, stale, owed>>

\* The buttons of ResultPanel: to the lobby, which sends the user on to the room of
\* the session, or to the room of the page.
BackToRoom ==
  /\ view.page = "game" /\ snapshot # None /\ snapshot.status = "ended"
  /\ \E at \in {Lobby, RoomPage(view.match)} : Goto(at, session, calls)
  /\ UNCHANGED serverVars

-----------------------------------------------------------------------------
(* HTTP: reconnect, then the state of the match *)

\* The server serves a call; the answer is on its way.
Serve(c) ==
  /\ \/ c.stage = "reconnect" /\ Accepts([match |-> c.match, as |-> c.as])
     \/ c.stage = "state"
  /\ LET answer == IF c.stage = "state" THEN status[c.match] ELSE "let in" IN
     calls' = (calls \ {c}) \cup {[c EXCEPT !.stage = answer]}
  /\ UNCHANGED <<linkVars, serverVars, view, session, snapshot, stale, owed>>

\* The session becomes that of the match the call was for.
LetIn(c) ==
  /\ c.stage = "let in"
  /\ Goto(view, c.as, (calls \ {c}) \cup {[c EXCEPT !.stage = "state"]})
  /\ UNCHANGED serverVars

\* The server refuses, or the network fails: the session is cleared and the user sent
\* to the lobby, whatever the failure.
Refused(c) ==
  /\ c.stage = "reconnect"
  /\ Goto(Lobby, None, calls \ {c})
  /\ UNCHANGED serverVars

Loaded(c) == c.stage \in {"waiting", "running", "ended"}

\* loadInitial puts the snapshot into the store.
LoadedGame(c) ==
  /\ c.page = "game" /\ Loaded(c)
  /\ snapshot' = [match |-> c.match, status |-> c.stage]
  /\ stale' \in {stale, view.page = "room"}
  /\ calls' = calls \ {c}
  /\ UNCHANGED <<linkVars, serverVars, view, session, owed>>

\* loadRoom goes to the game when the match is running.
LoadedRoom(c) ==
  /\ c.page = "room" /\ Loaded(c)
  /\ Goto(IF c.stage = "running" THEN GamePage(c.match) ELSE view, session, calls \ {c})
  /\ UNCHANGED serverVars

-----------------------------------------------------------------------------
(* The socket *)

\* A player who is let in gets a first snapshot.
Opens ==
  /\ Up
  /\ owed' = Accepts(link.target)
  /\ UNCHANGED <<serverVars, view, session, snapshot, stale, calls>>

\* The connection is lost, or the server closes it on a player it does not let in.
Closes ==
  /\ link # None /\ Down
  /\ owed' = FALSE
  /\ UNCHANGED <<serverVars, view, session, snapshot, stale, calls>>

Reconnects ==
  /\ Again
  /\ owed' = FALSE
  /\ UNCHANGED <<serverVars, view, session, snapshot, stale, calls>>

\* Mutant: RoomPage does not look at snapshots that come after the first.
Receive_FirstLook(news) ==
  /\ owed
  /\ \E r \in Following :
       /\ snapshot = None \/ (snapshot.match = r /\ snapshot.status # status[r]) => news
       /\ snapshot' = [match |-> r, status |-> status[r]]
  /\ stale' = (view.page = "room" /\ (stale \/ snapshot = None))
  /\ owed' = FALSE
  /\ UNCHANGED <<linkVars, serverVars, view, session, calls>>

\* onmessage with a snapshot.  `news`: its version is not that of the snapshot in the
\* store, which RoomPage looks at; two matches may have the same version.
Receive(news) ==
  /\ owed
  /\ \E r \in Following :
       /\ snapshot = None \/ (snapshot.match = r /\ snapshot.status # status[r]) => news
       /\ snapshot' = [match |-> r, status |-> status[r]]
  /\ stale' = (view.page = "room" /\ (stale \/ news))
  /\ owed' = FALSE
  /\ UNCHANGED <<linkVars, serverVars, view, session, calls>>

\* syncFromSnapshot of RoomPage
LookAtSnapshot ==
  /\ view.page = "room" /\ stale
  /\ IF snapshot # None /\ snapshot.status = "running"
     THEN Goto(GamePage(view.match), session, calls)
     ELSE stale' = FALSE /\ UNCHANGED <<linkVars, view, session, snapshot, calls, owed>>
  /\ UNCHANGED serverVars

-----------------------------------------------------------------------------
(* The server *)

\* A match starts, and ends; either way its loop tells everyone.
Progress(r) ==
  /\ status[r] # "ended"
  /\ status' = [status EXCEPT ![r] = IF @ = "waiting" THEN "running" ELSE "ended"]
  /\ owed' = (owed \/ r \in Following)
  /\ UNCHANGED <<linkVars, seated, view, session, snapshot, stale, calls>>

\* A tick of a running match.
TellAll(r) ==
  /\ status[r] = "running" /\ r \in Following
  /\ owed' = TRUE
  /\ UNCHANGED <<linkVars, serverVars, view, session, snapshot, stale, calls>>

-----------------------------------------------------------------------------

PageNext ==
  \/ \E r \in Rooms : JoinRoom(r) \/ Progress(r) \/ TellAll(r)
  \/ LeaveRoom \/ PressStart \/ BackToRoom
  \/ \E c \in calls : Serve(c) \/ LetIn(c) \/ Refused(c) \/ LoadedGame(c) \/ LoadedRoom(c)
  \/ Opens \/ Closes \/ Reconnects
  \/ \E news \in BOOLEAN : Receive(news)
  \/ LookAtSnapshot

\* What Connection promises; frames arrive and effects run; a running match ticks,
\* and goes on to log events, which changes its version.  HTTP calls may hang.
PageFairness ==
  /\ SF_pageVars(Opens) /\ WF_pageVars(ComeBack /\ Reconnects)
  /\ SF_pageVars(Receive(TRUE)) /\ WF_pageVars(LookAtSnapshot)
  /\ \A r \in Rooms : WF_pageVars(TellAll(r))

PageSpec == PageInit /\ [][PageNext]_pageVars /\ PageFairness

-----------------------------------------------------------------------------
(* Properties *)

\* A player on a page of match r, with the session for it.
On(r) == view.match = r /\ session = r

\* The socket brings nothing but the match of the page, to the player who is seated
\* in it, whichever pages and sessions came before.
FramesOfPage ==
  [][snapshot' # snapshot /\ calls' = calls => view = Lobby \/ On(snapshot'.match)]_pageVars

\* Whether a player is on the page of match r, which is running, and sees something
\* else: another match, or the room.
Behind(r) ==
  /\ On(r) /\ r \in seated /\ status[r] = "running"
  /\ view.page = "room" \/ snapshot = None \/ snapshot.match # r

\* A player on a page of a running match comes to see its game: one who waits in the
\* room is brought there, whatever snapshot of whatever match is in the store, and a
\* late answer for another match does not stay.  This holds while the loop lives: it
\* takes a match that goes on ticking and sending as long as it runs.
CatchesUp == \A r \in Rooms : Behind(r) ~> ~Behind(r)
=============================================================================
