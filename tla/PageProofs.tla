----------------------------- MODULE PageProofs -----------------------------
(***************************************************************************)
(* What a player's browser is shown by the socket, for any number of       *)
(* matches and of calls in progress: the frames of Page are those of its   *)
(* page.                                                                   *)
(***************************************************************************)
EXTENDS Page, TLAPS

Views == [page : {"room", "game"}, match : Rooms]
Calls ==
  [page : {"room", "game"}, match : Rooms, as : Rooms,
   stage : {"reconnect", "let in", "state", "waiting", "running", "ended"}]
Links == [target : Targets, up : BOOLEAN]

Types ==
  /\ status \in [Rooms -> {"waiting", "running", "ended"}] /\ seated \subseteq Rooms
  /\ view \in Views \cup {Lobby} /\ session \in Rooms \cup {None}
  /\ calls \subseteq Calls
  /\ link \in Links \cup {None}

\* What the page of a match connects to: that match, as the player of the session.
Target == IF view = Lobby THEN None ELSE [match |-> view.match, as |-> session]

\* The connection follows the page and the session, and nobody is on a page of a match
\* without a session.
Followed ==
  /\ view # Lobby => session # None
  /\ page = Target
  /\ page # None /\ link # None => link.target = page

PageInv == Types /\ Followed

-----------------------------------------------------------------------------

LEMMA ViewFacts ==
  /\ Lobby \notin Views
  /\ \A r \in Rooms : RoomPage(r) \in Views /\ GamePage(r) \in Views
  /\ \A v \in Views : v = [page |-> v.page, match |-> v.match]
  /\ \A v \in Views \cup {Lobby} : v.page \in {"room", "game"} => v \in Views
BY DEF Lobby, Views, RoomPage, GamePage

LEMMA TargetFacts ==
  /\ None \notin Links
  /\ \A r, s \in Rooms : [match |-> r, as |-> s] \in Targets \ {None}
  /\ \A t \in Targets : Link(t) \in Links /\ Link(t).target = t
BY LinkAssumption, PageAssumption DEF Links, Link

\* Where the user lands is a page of a match only with a session.
LEMMA LandingFacts ==
  ASSUME Types, NEW to \in Views \cup {Lobby}, NEW as \in Rooms \cup {None}
  PROVE  /\ Landing(to, as) \in Views \cup {Lobby}
         /\ Landing(to, as) # Lobby => as \in Rooms /\ as # None
BY ViewFacts DEF Landing, Types

\* Going to a page keeps the connection with it, from wherever and as whomever.
LEMMA GotoKeeps ==
  ASSUME PageInv, NEW to \in Views \cup {Lobby}, NEW as \in Rooms \cup {None},
         NEW others \in SUBSET Calls, Goto(to, as, others),
         status' \in [Rooms -> {"waiting", "running", "ended"}], seated' \subseteq Rooms
  PROVE  PageInv'
<1> DEFINE at == Landing(to, as)
<1>1. at \in Views \cup {Lobby} /\ (at # Lobby => as \in Rooms /\ as # None)
  BY LandingFacts DEF PageInv
<1>2. view' = at /\ session' = as /\ Realtime(at, as)
      /\ calls' \in {others, others \cup Loads(at, as)}
  BY DEF Goto
<1> HIDE DEF at
<1>3. calls' \subseteq Calls
  <2>1. Loads(at, as) \subseteq Calls
    <3>1. CASE at # Lobby
      <4>1. [page |-> at.page, match |-> at.match, as |-> as, stage |-> "reconnect"] \in Calls
        BY <1>1, <3>1 DEF Views, Calls
      <4> QED BY <4>1 DEF Loads
    <3>2. CASE at = Lobby
      BY <3>2 DEF Loads
    <3> QED BY <3>1, <3>2
  <2> QED BY <1>2, <2>1
<1>4. at # Lobby => [match |-> at.match, as |-> as] \in Targets \ {None}
  BY <1>1, TargetFacts DEF Views
<1>5. link' \in Links \cup {None} /\ page' = Target'
      /\ (page' # None /\ link' # None => link'.target = page')
  <2>1. CASE at = Lobby
    BY <1>2, <2>1 DEF Realtime, Unmount, linkVars, PageInv, Types, Followed, Target
  <2>2. CASE at # Lobby /\ at = view /\ as = session
    BY <1>2, <2>2 DEF Realtime, linkVars, PageInv, Types, Followed, Target
  <2>3. CASE at # Lobby /\ ~(at = view /\ as = session)
    <3>1. Mount([match |-> at.match, as |-> as])
      BY <1>2, <2>3 DEF Realtime
    <3> QED BY <1>2, <1>4, <2>3, <3>1, TargetFacts DEF Mount, Target
  <2> QED BY <2>1, <2>2, <2>3
<1> QED BY <1>1, <1>2, <1>3, <1>5 DEF PageInv, Types, Followed

\* What happens to a connection keeps it with the page.
LEMMA LinkKeeps ==
  ASSUME PageInv, Up \/ Down \/ Again, UNCHANGED <<serverVars, view, session, calls>>
  PROVE  PageInv'
<1>1. page' = page /\ Target' = Target
  BY DEF Up, Down, Again, Target
<1>2. CASE Up
  BY <1>1, <1>2, TargetFacts DEF Up, PageInv, Types, Followed, Links, serverVars
<1>3. CASE Down
  BY <1>1, <1>3, TargetFacts DEF Down, PageInv, Types, Followed, serverVars
<1>4. CASE Again
  BY <1>1, <1>4, TargetFacts DEF Again, PageInv, Types, Followed, serverVars
<1> QED BY <1>2, <1>3, <1>4

\* Where neither the page nor its connection changes.
LEMMA PageStays ==
  ASSUME PageInv, UNCHANGED <<linkVars, view, session>>,
         calls' \subseteq Calls,
         status' \in [Rooms -> {"waiting", "running", "ended"}], seated' \subseteq Rooms
  PROVE  PageInv'
BY DEF linkVars, PageInv, Types, Followed, Target

LEMMA PageInvInit == PageInit => PageInv
<1> SUFFICES ASSUME PageInit PROVE PageInv
  OBVIOUS
<1>1. Types
  BY DEF PageInit, LinkInit, Types
<1>2. Followed
  BY DEF PageInit, LinkInit, Followed, Target
<1> QED BY <1>1, <1>2 DEF PageInv

-----------------------------------------------------------------------------
(* Every step *)

LEMMA UserKeeps ==
  ASSUME PageInv, (\E r \in Rooms : JoinRoom(r)) \/ LeaveRoom \/ PressStart \/ BackToRoom
  PROVE  PageInv'
<1> USE DEF PageInv, Types
<1>1. ASSUME NEW r \in Rooms, JoinRoom(r) PROVE PageInv'
  BY <1>1, GotoKeeps, ViewFacts DEF JoinRoom
<1>2. CASE LeaveRoom
  BY <1>2, GotoKeeps DEF LeaveRoom
<1>3. CASE PressStart
  <2>1. view \in Views /\ view.match \in Rooms /\ session \in Rooms
    BY <1>3, ViewFacts DEF PressStart, Views
  <2>2. calls' \subseteq Calls
    <3>1. [page |-> "room", match |-> view.match, as |-> session, stage |-> "state"] \in Calls
      BY <2>1 DEF Calls
    <3> QED BY <1>3, <3>1 DEF PressStart
  <2> QED BY <1>3, <2>2, PageStays DEF PressStart, serverVars
<1>4. CASE BackToRoom
  <2>1. view \in Views /\ view.match \in Rooms
    BY <1>4, ViewFacts DEF BackToRoom, Views
  <2> QED BY <1>4, <2>1, GotoKeeps, ViewFacts DEF BackToRoom, serverVars
<1> QED BY <1>1, <1>2, <1>3, <1>4

LEMMA CallKeeps ==
  ASSUME PageInv, NEW c \in calls,
         Serve(c) \/ LetIn(c) \/ Refused(c) \/ LoadedGame(c) \/ LoadedRoom(c)
  PROVE  PageInv'
<1> USE DEF PageInv, Types
<1>1. /\ c \in Calls /\ c.match \in Rooms /\ c.as \in Rooms
      /\ calls \ {c} \in SUBSET Calls
      /\ \A st \in {"let in", "state", "waiting", "running", "ended"} : [c EXCEPT !.stage = st] \in Calls
  BY DEF Calls
<1>2. CASE Serve(c)
  BY <1>1, <1>2, PageStays DEF Serve, serverVars
<1>3. CASE LetIn(c)
  <2>1. (calls \ {c}) \cup {[c EXCEPT !.stage = "state"]} \in SUBSET Calls
    BY <1>1
  <2> QED BY <1>1, <1>3, <2>1, GotoKeeps DEF LetIn, serverVars
<1>4. CASE Refused(c)
  BY <1>1, <1>4, GotoKeeps DEF Refused, serverVars
<1>5. CASE LoadedGame(c)
  BY <1>1, <1>5, PageStays DEF LoadedGame, serverVars
<1>6. CASE LoadedRoom(c)
  BY <1>1, <1>6, GotoKeeps, ViewFacts DEF LoadedRoom, serverVars
<1> QED BY <1>2, <1>3, <1>4, <1>5, <1>6

LEMMA SocketKeeps ==
  ASSUME PageInv, Opens \/ Closes \/ Reconnects \/ (\E news \in BOOLEAN : Receive(news)) \/ LookAtSnapshot
  PROVE  PageInv'
<1>1. CASE Opens \/ Closes \/ Reconnects
  BY <1>1, LinkKeeps DEF Opens, Closes, Reconnects
<1>2. CASE \E news \in BOOLEAN : Receive(news)
  BY <1>2, PageStays DEF Receive, PageInv, Types, serverVars
<1>3. CASE LookAtSnapshot
  <2>1. view \in Views /\ view.match \in Rooms
    BY <1>3, ViewFacts DEF LookAtSnapshot, PageInv, Types, Views
  <2> QED BY <1>3, <2>1, GotoKeeps, PageStays, ViewFacts
          DEF LookAtSnapshot, PageInv, Types, serverVars, linkVars
<1> QED BY <1>1, <1>2, <1>3

LEMMA ServerKeeps == ASSUME PageInv, NEW r \in Rooms, Progress(r) \/ TellAll(r) PROVE PageInv'
<1>1. status' \in [Rooms -> {"waiting", "running", "ended"}]
  BY DEF PageInv, Types, Progress, TellAll, serverVars
<1> QED BY <1>1, PageStays DEF Progress, TellAll, PageInv, Types, serverVars

LEMMA PageInvStep == PageInv /\ [PageNext]_pageVars => PageInv'
<1> SUFFICES ASSUME PageInv, [PageNext]_pageVars PROVE PageInv'
  OBVIOUS
<1>1. CASE UNCHANGED pageVars
  BY <1>1, PageStays DEF pageVars, PageInv, Types, serverVars
<1> QED BY <1>1, UserKeeps, CallKeeps, SocketKeeps, ServerKeeps, Zenon DEF PageNext

LEMMA PageInvariance == PageSpec => []PageInv
BY PageInvInit, PageInvStep, PTL DEF PageSpec

-----------------------------------------------------------------------------

\* The socket shows the user of a page nothing but the match of that page, and only to
\* the player of the session, whatever pages, sessions and late answers came before.
THEOREM FramesAreOfPage == PageSpec => FramesOfPage
<1>1. ASSUME PageInv, PageNext, snapshot' # snapshot, calls' = calls
      PROVE  view = Lobby \/ On(snapshot'.match)
  <2>1. \E news \in BOOLEAN : Receive(news)
    <3>1. \A c \in calls : ~LoadedGame(c)
      BY <1>1 DEF LoadedGame
    <3>2. ~(LookAtSnapshot \/ (\E c \in calls : Serve(c) \/ LetIn(c) \/ Refused(c) \/ LoadedRoom(c)))
      BY <1>1 DEF LookAtSnapshot, Serve, LetIn, Refused, LoadedRoom, Goto
    <3>3. ~((\E r \in Rooms : JoinRoom(r) \/ Progress(r) \/ TellAll(r)) \/ LeaveRoom \/ PressStart \/ BackToRoom)
      BY <1>1 DEF JoinRoom, Progress, TellAll, LeaveRoom, PressStart, BackToRoom, Goto
    <3>4. ~(Opens \/ Closes \/ Reconnects)
      BY <1>1 DEF Opens, Closes, Reconnects
    <3> QED BY <1>1, <3>1, <3>2, <3>3, <3>4, Zenon DEF PageNext
  <2>2. link # None /\ Accepts(link.target) /\ snapshot'.match = link.target.match
    BY <2>1 DEF Receive, Following
  <2>3. view # Lobby => link.target = [match |-> view.match, as |-> session]
    BY <1>1, <2>2, TargetFacts DEF PageInv, Types, Followed, Target, Views
  <2> QED BY <2>2, <2>3 DEF Accepts, On
<1>2. PageInv /\ [PageNext]_pageVars
        => [snapshot' # snapshot /\ calls' = calls => view = Lobby \/ On(snapshot'.match)]_pageVars
  BY <1>1 DEF pageVars
<1> QED BY <1>2, PageInvariance, PTL DEF PageSpec, FramesOfPage
=============================================================================
