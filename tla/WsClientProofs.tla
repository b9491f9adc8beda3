--------------------------- MODULE WsClientProofs ---------------------------
(***************************************************************************)
(* What the browser's connection guarantees for any matches, sockets and   *)
(* timers.  ClientInv says what the fields of the client have to do with   *)
(* the sockets: a live socket is the one in ws and for the match in        *)
(* lastArgs, which is that of the page; an interval that runs is the one   *)
(* in heartbeat, and ws has passed its onopen.                             *)
(***************************************************************************)
EXTENDS WsClient, FiniteSetTheorems, TLAPS

SockOK ==
  /\ sock \in [Slots -> {Closed} \cup [state : {"connecting", "open", "closing"}, target : Targets]]
  /\ ws \in Slots \cup {None}
LiveIsCurrent == \A s \in Slots : Live(s) => s = ws /\ sock[s].target = lastArgs
ArgsArePage == page # None => lastArgs = page
BeatIsCurrent ==
  /\ intervals \subseteq {heartbeat}
  /\ intervals # {} => ws # None /\ sock[ws].state # "connecting"

ClientInv == SockOK /\ LiveIsCurrent /\ ArgsArePage /\ BeatIsCurrent

LEMMA InitClient == Init => ClientInv
  BY ClientAssumption
     DEF Init, ClientInv, SockOK, LiveIsCurrent, ArgsArePage, BeatIsCurrent, Live, Closed

\* Closing the old socket leaves none live and changes no match.
LEMMA OldIsClosed ==
  ASSUME SockOK, LiveIsCurrent
  PROVE  /\ CloseOld \in [Slots -> {Closed} \cup [state : {"connecting", "open", "closing"}, target : Targets]]
         /\ \A s \in Slots : CloseOld[s].state \notin {"connecting", "open"}
<1>1. CASE ws = None \/ ~Live(ws)
  <2>1. CloseOld = sock
    BY <1>1 DEF CloseOld
  <2>2. \A s \in Slots : ~Live(s)
    BY <1>1, ClientAssumption DEF LiveIsCurrent
  <2> QED
    BY <2>1, <2>2 DEF SockOK, Live
<1>2. CASE ws # None /\ Live(ws)
  <2>1. ws \in Slots
    BY <1>2 DEF SockOK
  <2>2. sock[ws] \in [state : {"connecting", "open", "closing"}, target : Targets]
    BY <1>2, <2>1 DEF SockOK, Live, Closed
  <2>3. CloseOld = [sock EXCEPT ![ws].state = "closing"]
    BY <1>2 DEF CloseOld
  <2>4. CloseOld[ws].state = "closing"
    BY <2>1, <2>3 DEF SockOK
  <2>5. \A s \in Slots : s # ws => CloseOld[s] = sock[s]
    BY <2>1, <2>3 DEF SockOK
  <2>6. [sock[ws] EXCEPT !.state = "closing"] \in [state : {"connecting", "open", "closing"}, target : Targets]
    BY <2>2
  <2>7. CloseOld = [sock EXCEPT ![ws] = [sock[ws] EXCEPT !.state = "closing"]]
    BY <2>3
  <2>8. CloseOld \in [Slots -> {Closed} \cup [state : {"connecting", "open", "closing"}, target : Targets]]
    BY <2>1, <2>6, <2>7 DEF SockOK
  <2>9. \A s \in Slots : CloseOld[s].state \notin {"connecting", "open"}
    BY <2>4, <2>5 DEF LiveIsCurrent, Live
  <2> QED
    BY <2>8, <2>9
<1> QED
  BY <1>1, <1>2

\* connect, from the page or from a timer, leaves one live socket, for the match asked for.
LEMMA ConnectKeeps ==
  ASSUME ClientInv, NEW m \in Targets, NEW fired, Connect(m, fired)
  PROVE  SockOK' /\ LiveIsCurrent' /\ BeatIsCurrent' /\ lastArgs' = m
<1>1. PICK s \in Slots :
        /\ sock' = [CloseOld EXCEPT ![s] = [state |-> "connecting", target |-> m]]
        /\ ws' = s /\ lastArgs' = m /\ intervals' = intervals \ {heartbeat} /\ heartbeat' = heartbeat
  BY DEF Connect, Args, StopHeartbeat
<1>2. /\ CloseOld \in [Slots -> {Closed} \cup [state : {"connecting", "open", "closing"}, target : Targets]]
      /\ \A x \in Slots : CloseOld[x].state \notin {"connecting", "open"}
  BY OldIsClosed DEF ClientInv
<1>3. SockOK'
  BY <1>1, <1>2 DEF SockOK, Closed
<1>4. sock'[s] = [state |-> "connecting", target |-> m] /\ \A x \in Slots : x # s => sock'[x] = CloseOld[x]
  BY <1>1, <1>2
<1>5. LiveIsCurrent'
  BY <1>1, <1>2, <1>4 DEF LiveIsCurrent, Live
<1>6. intervals' = {}
  BY <1>1 DEF ClientInv, BeatIsCurrent
<1>7. BeatIsCurrent'
  BY <1>6 DEF BeatIsCurrent
<1> QED
  BY <1>1, <1>3, <1>5, <1>7

\* The end of a socket makes no other live and stops the heartbeat.
LEMMA OnCloseKeeps ==
  ASSUME ClientInv, NEW s \in Slots, OnClose(s)
  PROVE  ClientInv'
<1>1. /\ sock' = [sock EXCEPT ![s] = Closed] /\ intervals' = intervals \ {heartbeat}
      /\ UNCHANGED <<page, ws, lastArgs, heartbeat>>
  BY DEF OnClose, StopHeartbeat
<1>2. SockOK'
  BY <1>1 DEF ClientInv, SockOK, Closed
<1>3. LiveIsCurrent'
  BY <1>1 DEF ClientInv, SockOK, LiveIsCurrent, Live, Closed
<1>4. ArgsArePage'
  BY <1>1 DEF ClientInv, ArgsArePage
<1>5. intervals' = {}
  BY <1>1 DEF ClientInv, BeatIsCurrent
<1>6. BeatIsCurrent'
  BY <1>5 DEF BeatIsCurrent
<1> QED
  BY <1>2, <1>3, <1>4, <1>6 DEF ClientInv

LEMMA StepClient ==
  ASSUME ClientInv, [Next]_vars, lastArgs \in Targets \cup {None}, timers # {} => lastArgs # None
  PROVE  ClientInv'
<1>1. CASE \E m \in Targets : Show(m)
  <2>1. PICK m \in Targets : Show(m)
    BY <1>1
  <2>2. SockOK' /\ LiveIsCurrent' /\ BeatIsCurrent' /\ lastArgs' = m
    BY <2>1, ConnectKeeps DEF Show
  <2>3. ArgsArePage'
    BY <2>1, <2>2 DEF Show, ArgsArePage
  <2> QED
    BY <2>2, <2>3 DEF ClientInv
<1>2. CASE Leave
  <2>1. /\ sock' = CloseOld /\ ws' = None /\ intervals' = intervals \ {heartbeat} /\ page' = None
    BY <1>2 DEF Leave, Disconnect, StopHeartbeat
  <2>2. /\ CloseOld \in [Slots -> {Closed} \cup [state : {"connecting", "open", "closing"}, target : Targets]]
        /\ \A x \in Slots : CloseOld[x].state \notin {"connecting", "open"}
    BY OldIsClosed DEF ClientInv
  <2>3. SockOK'
    BY <2>1, <2>2 DEF SockOK, Closed
  <2>4. LiveIsCurrent'
    BY <2>1, <2>2 DEF LiveIsCurrent, Live
  <2>5. ArgsArePage'
    BY <2>1 DEF ArgsArePage
  <2>6. intervals' = {}
    BY <2>1 DEF ClientInv, BeatIsCurrent
  <2>7. BeatIsCurrent'
    BY <2>6 DEF BeatIsCurrent
  <2> QED
    BY <2>3, <2>4, <2>5, <2>7 DEF ClientInv
<1>3. ASSUME NEW s \in Slots, Opened(s)
      PROVE  ClientInv'
  <2>1. /\ sock[s].state = "connecting" /\ sock' = [sock EXCEPT ![s].state = "open"]
        /\ heartbeat' = s /\ intervals' = intervals \cup {s}
        /\ UNCHANGED <<page, ws, lastArgs>>
    BY <1>3 DEF Opened
  <2>2. s = ws /\ sock[s].target = lastArgs
    BY <2>1 DEF ClientInv, LiveIsCurrent, Live
  <2>3. intervals = {}
    BY <2>1, <2>2 DEF ClientInv, BeatIsCurrent
  <2>4. sock[s] \in [state : {"connecting", "open", "closing"}, target : Targets]
    BY <2>1 DEF ClientInv, SockOK, Closed
  <2>5. [sock[s] EXCEPT !.state = "open"] \in [state : {"connecting", "open", "closing"}, target : Targets]
    BY <2>4
  <2>6. sock' = [sock EXCEPT ![s] = [sock[s] EXCEPT !.state = "open"]]
    BY <2>1
  <2>7. SockOK'
    BY <2>1, <2>5, <2>6 DEF ClientInv, SockOK, Closed
  <2>8. /\ sock'[s] = [sock[s] EXCEPT !.state = "open"]
        /\ \A x \in Slots : x # s => sock'[x] = sock[x]
    BY <2>6 DEF ClientInv, SockOK
  <2>9. sock'[s].state = "open" /\ sock'[s].target = sock[s].target
    BY <2>4, <2>8
  <2>10. LiveIsCurrent'
    BY <2>1, <2>2, <2>8, <2>9 DEF ClientInv, LiveIsCurrent, Live
  <2>11. ArgsArePage'
    BY <2>1 DEF ClientInv, ArgsArePage
  <2>12. BeatIsCurrent'
    BY <2>1, <2>2, <2>3, <2>9, ClientAssumption DEF BeatIsCurrent
  <2> QED
    BY <2>7, <2>10, <2>11, <2>12 DEF ClientInv
<1>4. ASSUME NEW s \in Slots, CloseDone(s) \/ Lost(s)
      PROVE  ClientInv'
  BY <1>4, OnCloseKeeps DEF CloseDone, Lost
<1>5. ASSUME NEW t \in TimerIds, Fire(t)
      PROVE  ClientInv'
  <2>1. t \in timers /\ Connect(lastArgs, t) /\ page' = page
    BY <1>5 DEF Fire
  <2>2. lastArgs \in Targets
    BY <2>1
  <2>3. SockOK' /\ LiveIsCurrent' /\ BeatIsCurrent' /\ lastArgs' = lastArgs
    BY <2>1, <2>2, ConnectKeeps
  <2>4. ArgsArePage'
    BY <2>1, <2>3 DEF ClientInv, ArgsArePage
  <2> QED
    BY <2>3, <2>4 DEF ClientInv
<1>6. CASE UNCHANGED vars
  BY <1>6 DEF vars, ClientInv, SockOK, LiveIsCurrent, ArgsArePage, BeatIsCurrent, Live
<1> QED
  BY <1>1, <1>2, <1>3, <1>4, <1>5, <1>6 DEF Next

-----------------------------------------------------------------------------
\* A timer is only set once connect has recorded its arguments.
ArgsKnown == lastArgs \in Targets \cup {None} /\ (timers # {} => lastArgs # None)

LEMMA StepArgs ==
  ASSUME ArgsKnown, [Next]_vars
  PROVE  ArgsKnown'
<1>1. CASE \E m \in Targets : Show(m)
  BY <1>1, ClientAssumption DEF Show, Connect, Args, ArgsKnown
<1>2. CASE Leave
  BY <1>2 DEF Leave, Disconnect, ArgsKnown
<1>3. ASSUME NEW s \in Slots, Opened(s)
      PROVE  ArgsKnown'
  BY <1>3 DEF Opened, ArgsKnown
<1>4. ASSUME NEW s \in Slots, CloseDone(s) \/ Lost(s)
      PROVE  ArgsKnown'
  <2>1. OnClose(s)
    BY <1>4 DEF CloseDone, Lost
  <2>2. CASE Retries
    BY <2>1, <2>2 DEF OnClose, Retries, ArgsKnown
  <2>3. CASE ~Retries
    BY <2>1, <2>3 DEF OnClose, ArgsKnown
  <2> QED
    BY <2>2, <2>3
<1>5. ASSUME NEW t \in TimerIds, Fire(t)
      PROVE  ArgsKnown'
  BY <1>5 DEF Fire, Connect, Args, ArgsKnown
<1>6. CASE UNCHANGED vars
  BY <1>6 DEF vars, ArgsKnown
<1> QED
  BY <1>1, <1>2, <1>3, <1>4, <1>5, <1>6 DEF Next

LEMMA ClientHolds == Spec => [](ClientInv /\ ArgsKnown)
<1>1. Init => ClientInv /\ ArgsKnown
  BY InitClient DEF Init, ArgsKnown
<1>2. ClientInv /\ ArgsKnown /\ [Next]_vars => (ClientInv /\ ArgsKnown)'
  BY StepClient, StepArgs DEF ArgsKnown
<1> QED
  BY <1>1, <1>2, PTL DEF Spec

-----------------------------------------------------------------------------
\* Whatever pages are shown and whatever fails, the client has at most one connection,
\* the one it sends on (connect closes the old socket before it makes the new one).
THEOREM ClientHasOneSocket == Spec => []OneSocket
<1>1. ClientInv => OneSocket
  BY DEF ClientInv, LiveIsCurrent, OneSocket
<1> QED
  BY <1>1, ClientHolds, PTL

\* A live connection is for the match of the page, whichever timer made it.
THEOREM ConnectionIsForPage == Spec => []ReconnectsToPage
<1>1. ClientInv => ReconnectsToPage
  BY DEF ClientInv, LiveIsCurrent, ArgsArePage, ReconnectsToPage
<1> QED
  BY <1>1, ClientHolds, PTL

\* At most one heartbeat runs, and never while the socket it would send on is connecting.
THEOREM HeartbeatIsSafe == Spec => []HeartbeatHasSocket
<1>1. ClientInv => HeartbeatHasSocket
  <2> SUFFICES ASSUME ClientInv PROVE HeartbeatHasSocket
    OBVIOUS
  <2>1. intervals \subseteq {heartbeat} /\ (intervals # {} => ws # None /\ sock[ws].state # "connecting")
    BY DEF ClientInv, BeatIsCurrent
  <2>2. IsFiniteSet({heartbeat}) /\ Cardinality({heartbeat}) = 1
    BY FS_Singleton
  <2>3. Cardinality(intervals) <= 1
    BY <2>1, <2>2, FS_Subset
  <2> QED
    BY <2>1, <2>3 DEF HeartbeatHasSocket
<1> QED
  BY <1>1, ClientHolds, PTL

-----------------------------------------------------------------------------
(* The client implements Connection *)

\* connect shows the page a new connection for the target asked for.
LEMMA ConnectIsLink ==
  ASSUME ClientInv, NEW m \in Targets, NEW fired, Connect(m, fired)
  PROVE  Link' = [target |-> m, up |-> FALSE]
<1>1. PICK s \in Slots :
        /\ sock' = [CloseOld EXCEPT ![s] = [state |-> "connecting", target |-> m]]
        /\ ws' = s
  BY DEF Connect, Args
<1>2. CloseOld \in [Slots -> {Closed} \cup [state : {"connecting", "open", "closing"}, target : Targets]]
  BY OldIsClosed DEF ClientInv
<1>3. sock'[ws'] = [state |-> "connecting", target |-> m]
  BY <1>1, <1>2
<1>4. sock'[ws'].state = "connecting" /\ sock'[ws'].target = m
  BY <1>3
<1>5. ws' # None
  BY <1>1, ClientAssumption
<1> QED
  BY <1>4, <1>5 DEF Link, Live

\* The end of a socket takes the connection away, or leaves it as it is.
LEMMA OnCloseIsDown ==
  ASSUME ClientInv, NEW s \in Slots, OnClose(s)
  PROVE  Link' = None \/ Link' = Link
<1>1. sock' = [sock EXCEPT ![s] = Closed] /\ ws' = ws
  BY DEF OnClose
<1>2. CASE ws = s
  <2>1. sock'[ws'].state = "closed"
    BY <1>1, <1>2 DEF ClientInv, SockOK, Closed
  <2> QED
    BY <2>1 DEF Link, Live
<1>3. CASE ws # s /\ ws # None
  <2>1. ws \in Slots /\ sock'[ws'] = sock[ws]
    BY <1>1, <1>3 DEF ClientInv, SockOK
  <2> QED
    BY <1>1, <2>1 DEF Link, Live
<1>4. CASE ws = None
  BY <1>1, <1>4 DEF Link
<1> QED
  BY <1>2, <1>3, <1>4

LEMMA StepLink ==
  ASSUME ClientInv, ArgsKnown, [Next]_vars
  PROVE  [Promised!LinkNext]_<<page, Link>>
<1>1. ASSUME NEW m \in Targets, Show(m)
      PROVE  Promised!Mount(m)
  BY <1>1, ConnectIsLink DEF Show, Promised!Mount, Promised!Link
<1>2. ASSUME Leave
      PROVE  Promised!Unmount
  <2>1. page' = None /\ ws' = None
    BY <1>2 DEF Leave, Disconnect
  <2> QED
    BY <2>1 DEF Link, Live, Promised!Unmount
<1>3. ASSUME NEW s \in Slots, Opened(s)
      PROVE  Promised!Up
  <2>1. sock[s].state = "connecting" /\ sock' = [sock EXCEPT ![s].state = "open"] /\ UNCHANGED <<page, ws>>
    BY <1>3 DEF Opened
  <2>2. s = ws
    BY <2>1 DEF ClientInv, LiveIsCurrent, Live
  <2>3. Link = [target |-> sock[s].target, up |-> FALSE]
    BY <2>1, <2>2, ClientAssumption DEF Link, Live
  <2>4. sock[s] \in [state : {"connecting", "open", "closing"}, target : Targets]
    BY <2>1 DEF ClientInv, SockOK, Closed
  <2>5. sock'[s] = [sock[s] EXCEPT !.state = "open"]
    BY <2>1 DEF ClientInv, SockOK
  <2>6. sock'[s].state = "open" /\ sock'[s].target = sock[s].target
    BY <2>4, <2>5
  <2>7. Link' = [target |-> sock[s].target, up |-> TRUE]
    BY <2>1, <2>2, <2>6, ClientAssumption DEF Link, Live
  <2>8. Link \in [target : Targets, up : BOOLEAN]
    BY <2>3, <2>4
  <2>9. Link # None
    BY <2>8, ClientAssumption
  <2>10. ~Link.up
    BY <2>3
  <2>11. Link.target = sock[s].target
    BY <2>3
  <2> QED
    BY <2>1, <2>7, <2>9, <2>10, <2>11 DEF Promised!Up
<1>4. ASSUME NEW s \in Slots, CloseDone(s) \/ Lost(s)
      PROVE  Promised!Down \/ UNCHANGED <<page, Link>>
  <2>1. OnClose(s) /\ page' = page
    BY <1>4 DEF CloseDone, Lost, OnClose
  <2> QED
    BY <2>1, OnCloseIsDown DEF Promised!Down
<1>5. ASSUME NEW t \in TimerIds, Fire(t)
      PROVE  Promised!Again
  <2>1. Connect(lastArgs, t) /\ page' = page /\ lastArgs \in Targets
    BY <1>5 DEF Fire, ArgsKnown
  <2>2. Link' = [target |-> lastArgs, up |-> FALSE]
    BY <2>1, ConnectIsLink
  <2>3. page # None => lastArgs = page
    BY DEF ClientInv, ArgsArePage
  <2> QED
    BY <2>1, <2>2, <2>3 DEF Promised!Again, Promised!Link
<1>6. CASE UNCHANGED vars
  BY <1>6 DEF vars, Link, Live
<1> QED
  BY <1>1, <1>2, <1>3, <1>4, <1>5, <1>6 DEF Next, Promised!LinkNext, Promised!linkVars

\* The sockets, timers and callbacks of the client are, for its page, one connection as
\* Connection describes it: every step is one of its steps or none.  (That it comes
\* back is what the runs show.)
THEOREM ConnectionIsSafe == Spec => Promised!LinkSafe
<1>1. Init => Promised!LinkInit
  BY DEF Init, Promised!LinkInit, Link
<1>2. ClientInv /\ ArgsKnown /\ [Next]_vars => [Promised!LinkNext]_<<page, Link>>
  BY StepLink
<1> QED
  BY <1>1, <1>2, ClientHolds, PTL DEF Spec, Promised!LinkSafe, Promised!linkVars
=============================================================================
