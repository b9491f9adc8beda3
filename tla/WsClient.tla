------------------------------ MODULE WsClient ------------------------------
(***************************************************************************)
(* The browser's connection to a match: class MatchWsClient of             *)
(* frontend/src/ws/matchWsClient.ts, driven by the effect of               *)
(* hooks/useMatchRealtime.ts.  One thread of callbacks: connect and        *)
(* disconnect run to their end, and close() only begins to close: onclose  *)
(* of the old socket comes later, when the client has moved on to another  *)
(* socket, and acts on whatever the client's fields then hold.             *)
(*                                                                         *)
(* A socket is a slot that is used again once its onclose has run, a timer *)
(* likewise a number, so that reconnecting for ever is a finite loop.      *)
(***************************************************************************)
EXTENDS Integers, FiniteSets

CONSTANTS
  Targets,     \* what a page connects to: a match, with the id and token of a player
  Slots,       \* bound: sockets that are not closed yet, at once
  MaxTimers,   \* bound: reconnect timers pending at once
  MaxVisits,   \* bound: how often the user opens a page
  MaxLosses,   \* bound: how often the network or the server fails a connection
  None         \* undefined

ASSUME ClientAssumption ==
  /\ None \notin Targets \cup Slots \cup [target : Targets, up : BOOLEAN]
  /\ MaxTimers \in Nat /\ MaxVisits \in Nat /\ MaxLosses \in Nat

VARIABLES
  page,           \* the target of the page that is mounted
  sock,           \* what each socket is doing, and for which target
  ws, lastArgs, manualClose, heartbeat, reconnectTimer,   \* fields of the client
  intervals,      \* heartbeat intervals that run, named by the socket that set them
  timers,         \* reconnect timers that are pending
  visits, losses

vars == <<page, sock, ws, lastArgs, manualClose, heartbeat, reconnectTimer, intervals, timers, visits, losses>>

TimerIds == 1 .. MaxTimers
NoTimer == 0
Closed == [state |-> "closed", target |-> None]
Live(s) == sock[s].state \in {"connecting", "open"}
Connected == ws # None /\ sock[ws].state = "open"

Init ==
  /\ page = None /\ sock = [s \in Slots |-> Closed]
  /\ ws = None /\ lastArgs = None /\ manualClose = FALSE /\ heartbeat = None /\ reconnectTimer = NoTimer
  /\ intervals = {} /\ timers = {} /\ visits = 0 /\ losses = 0

-----------------------------------------------------------------------------
(* disconnect and connect *)

\* Mutant: the socket is forgotten and left open.
CloseOld_Not == sock

\* ws?.close(): the socket begins to close.
CloseOld == IF ws = None \/ ~Live(ws) THEN sock ELSE [sock EXCEPT ![ws].state = "closing"]

\* Mutant: the heartbeat goes on.
StopHeartbeat_Not == intervals

StopHeartbeat == intervals \ {heartbeat}

Disconnect ==
  /\ manualClose' = TRUE
  /\ timers' = timers \ {reconnectTimer}
  /\ intervals' = StopHeartbeat
  /\ sock' = CloseOld
  /\ ws' = None
  /\ UNCHANGED <<lastArgs, heartbeat, reconnectTimer>>

\* Mutant: the arguments of the first connect are kept.
Args_First(m) == IF lastArgs = None THEN m ELSE lastArgs

Args(m) == m

\* connect, called by the page or by timer `fired`.
Connect(m, fired) ==
  \E s \in {x \in Slots : sock[x] = Closed} :
    /\ manualClose' = FALSE
    /\ lastArgs' = Args(m)
    /\ timers' = timers \ {reconnectTimer, fired}
    /\ intervals' = StopHeartbeat
    /\ sock' = [CloseOld EXCEPT ![s] = [state |-> "connecting", target |-> m]]
    /\ ws' = s
    /\ UNCHANGED <<heartbeat, reconnectTimer>>

\* The effect runs for a new page, or its cleanup when the page is left.
Show(m) ==
  /\ visits < MaxVisits
  /\ Connect(m, NoTimer)
  /\ page' = m /\ visits' = visits + 1 /\ UNCHANGED losses

Leave ==
  /\ page # None
  /\ Disconnect
  /\ page' = None /\ UNCHANGED <<visits, losses>>

-----------------------------------------------------------------------------
(* Callbacks *)

\* onopen
Opened(s) ==
  /\ sock[s].state = "connecting"
  /\ sock' = [sock EXCEPT ![s].state = "open"]
  /\ heartbeat' = s /\ intervals' = intervals \cup {s}
  /\ UNCHANGED <<page, ws, lastArgs, manualClose, reconnectTimer, timers, visits, losses>>

\* Mutant: a connection that fails is not tried again.
Retries_Never == FALSE

Retries == ~manualClose /\ lastArgs # None

\* onclose of socket s: the old socket of a connect that follows finds manualClose
\* FALSE again, and heartbeat that of the new socket.
OnClose(s) ==
  /\ sock' = [sock EXCEPT ![s] = Closed]
  /\ intervals' = StopHeartbeat
  /\ IF Retries
     THEN \E t \in TimerIds \ timers :
            /\ \A u \in TimerIds \ timers : t <= u
            /\ reconnectTimer' = t /\ timers' = timers \cup {t}
     ELSE UNCHANGED <<reconnectTimer, timers>>
  /\ UNCHANGED <<page, ws, lastArgs, manualClose, heartbeat, visits>>

\* The close that disconnect began is done.
CloseDone(s) == sock[s].state = "closing" /\ OnClose(s) /\ UNCHANGED losses

\* The server refuses, or the connection is lost.
Lost(s) == Live(s) /\ losses < MaxLosses /\ OnClose(s) /\ losses' = losses + 1

\* A reconnect timer fires after its 2 s.
Fire(t) == t \in timers /\ Connect(lastArgs, t) /\ UNCHANGED <<page, visits, losses>>

Next ==
  \/ \E m \in Targets : Show(m)
  \/ Leave
  \/ \E s \in Slots : Opened(s) \/ CloseDone(s) \/ Lost(s)
  \/ \E t \in TimerIds : Fire(t)

\* The browser closes what it began to close and fires its timers; an attempt to
\* connect that is made again and again succeeds some day.
Fairness ==
  /\ \A s \in Slots : WF_vars(CloseDone(s)) /\ SF_vars(Opened(s))
  /\ \A t \in TimerIds : WF_vars(Fire(t))

Spec == Init /\ [][Next]_vars /\ Fairness

-----------------------------------------------------------------------------
(* Properties *)

\* However pages, losses, late onclose calls and timers interleave, the client never
\* has two connections, and the one it has is the one it sends on
\* (matchWsClient.ts:7, "frontend keeps one active ws connection").
OneSocket == \A s \in Slots : Live(s) => s = ws

\* A heartbeat never runs against a socket that is not open yet, where send() would
\* throw (connect replaces the socket that the interval reaches through this.ws).
HeartbeatHasSocket ==
  /\ Cardinality(intervals) <= 1
  /\ intervals # {} => ws # None /\ sock[ws].state # "connecting"

\* A reconnect, whichever timer it comes from, goes to the match that is on the page,
\* also when the page has changed since the timer was set.
ReconnectsToPage == \A s \in Slots : Live(s) /\ page # None => sock[s].target = page

\* The connection as the page sees it.
Link == IF ws # None /\ Live(ws)
        THEN [target |-> sock[ws].target, up |-> sock[ws].state = "open"] ELSE None

Promised == INSTANCE Connection WITH link <- Link

\* Sockets that close late, timers and callbacks of sockets that were replaced come to
\* what Connection promises, also that a connection comes back.
ConnectionKept == Promised!LinkSpec

\* matchWsClient.ts:7: "frontend keeps one active ws connection".  Once the user stays
\* on a page and nothing fails any more, the client keeps a connection.
KeepsConnection == <>[](page # None => Connected)
=============================================================================
