----------------------------- MODULE LiveProofs -----------------------------
(***************************************************************************)
(* What reaches the connections of a match, for any number of them, any    *)
(* size of the log and of the snapshots, and whenever they come and go:    *)
(* the safety properties of Live.                                          *)
(***************************************************************************)
EXTENDS Live, FiniteSetTheorems, SequenceTheorems, TLAPS

-----------------------------------------------------------------------------
(* Frames *)

Events == 0 .. MaxTotal

\* What a list of frames tells.
Mentioned(fs) == UNION ToSet(fs)

LEMMA NothingLeft == Mentioned(<< >>) = {}
BY DEF Mentioned, ToSet

\* A list of frames tells what its first frame does, and the rest.
LEMMA NextFrame ==
  ASSUME NEW fs \in Seq(SUBSET Events), fs # << >>
  PROVE  /\ Tail(fs) \in Seq(SUBSET Events)
         /\ Head(fs) \subseteq Events
         /\ Mentioned(fs) = Head(fs) \cup Mentioned(Tail(fs))
<1>1. Tail(fs) \in Seq(SUBSET Events) /\ Head(fs) \in SUBSET Events
  OBVIOUS
<1>2. /\ Len(fs) \in Nat \ {0} /\ DOMAIN fs = 1 .. Len(fs) /\ Head(fs) = fs[1]
      /\ Len(Tail(fs)) = Len(fs) - 1 /\ DOMAIN Tail(fs) = 1 .. Len(fs) - 1
      /\ \A i \in 1 .. Len(fs) - 1 : Tail(fs)[i] = fs[i + 1]
  OBVIOUS
<1>3. ASSUME NEW e PROVE e \in Mentioned(fs) <=> e \in Head(fs) \cup Mentioned(Tail(fs))
  <2>1. e \in Mentioned(fs) <=> \E i \in 1 .. Len(fs) : e \in fs[i]
    BY <1>2, Zenon DEF Mentioned, ToSet
  <2>2. e \in Mentioned(Tail(fs)) <=> \E i \in 1 .. Len(fs) - 1 : e \in Tail(fs)[i]
    BY <1>2, Zenon DEF Mentioned, ToSet
  <2>3. (\E i \in 1 .. Len(fs) : e \in fs[i])
          <=> e \in fs[1] \/ \E i \in 1 .. Len(fs) - 1 : e \in fs[i + 1]
    <3>1. ASSUME NEW i \in 1 .. Len(fs), e \in fs[i], e \notin fs[1]
          PROVE  \E j \in 1 .. Len(fs) - 1 : e \in fs[j + 1]
      <4>1. i - 1 \in 1 .. Len(fs) - 1 /\ (i - 1) + 1 = i
        BY <1>2, <3>1
      <4> QED BY <3>1, <4>1
    <3>2. \A j \in 1 .. Len(fs) - 1 : j + 1 \in 1 .. Len(fs)
      BY <1>2
    <3> QED BY <1>2, <3>1, <3>2
  <2> QED BY <1>2, <2>1, <2>2, <2>3
<1> QED BY <1>1, <1>3

\* The delta of a tick: as many events as the log has grown by, the latest.
LEMMA DeltaFacts ==
  ASSUME NEW n \in Nat, NEW m \in Nat, n <= m
  PROVE  \E d \in 0 .. m - n :
           /\ Delta(n, m) = m - d + 1 .. m /\ Cardinality(Delta(n, m)) = d
           /\ m <= LogCap => d = m - n
<1> DEFINE d == LogLen(m) - LogLen(n)
<1>1. d \in 0 .. m - n /\ (m <= LogCap => d = m - n)
  BY LiveAssumption DEF LogLen, Lower
<1>2. Delta(n, m) = m - d + 1 .. m
  BY Zenon DEF Delta
<1> HIDE DEF d
<1>3. Cardinality(m - d + 1 .. m) = d
  <2>1. m - d + 1 \in Int /\ m \in Int /\ d \in Nat
    BY <1>1
  <2>2. Cardinality(m - d + 1 .. m) = IF m - d + 1 > m THEN 0 ELSE m - (m - d + 1) + 1
    BY <2>1, FS_Interval, Zenon
  <2> QED BY <2>1, <2>2
<1> QED BY <1>1, <1>2, <1>3

\* A round tells what its snapshot does and, while the log is not full, every event
\* of its tick.
LEMMA RoundTells ==
  ASSUME NEW n \in Events, NEW m \in Events, n <= m, NEW st
  PROVE  /\ Round(n, m, st) \in Seq(SUBSET Events) /\ Round(n, m, st) # << >>
         /\ Recent(m, st) \subseteq Mentioned(Round(n, m, st))
         /\ m <= LogCap => n + 1 .. m \subseteq Mentioned(Round(n, m, st))
<1> DEFINE last == IF st = "ended" THEN <<{END}>> ELSE << >>
           news == EventFrames(n, m)
           r == Round(n, m, st)
<1>0. n \in Nat /\ m \in Nat
  BY LiveAssumption DEF Events
<1>1. PICK d \in 0 .. m - n :
        /\ Delta(n, m) = m - d + 1 .. m /\ Cardinality(Delta(n, m)) = d
        /\ m <= LogCap => d = m - n
  BY <1>0, DeltaFacts, Zenon
<1>2. news = [i \in 1 .. d |-> {m - d + i}]
  BY <1>1, Zenon DEF EventFrames
<1>3. news \in Seq(SUBSET Events) /\ Len(news) = d
  <2>1. \A i \in 1 .. d : {m - d + i} \in SUBSET Events
    BY LiveAssumption DEF Events
  <2> QED BY <1>2, <2>1
<1>4. Recent(m, st) \in SUBSET Events
  BY LiveAssumption DEF Recent, News, Higher, END, Events
<1>5. last \in Seq(SUBSET Events)
  <2>1. {END} \in SUBSET Events
    BY LiveAssumption DEF END, Events
  <2>2. <<{END}>> \in Seq(SUBSET Events) /\ << >> \in Seq(SUBSET Events)
    BY <2>1
  <2> QED BY <2>2, Zenon
<1>6. r = <<Recent(m, st)>> \o news \o last
  BY Zenon DEF Round
<1> DEFINE early == <<Recent(m, st)>> \o news
<1> HIDE DEF last, news
<1>7. /\ early \in Seq(SUBSET Events) /\ Len(early) = 1 + d /\ early[1] = Recent(m, st)
      /\ \A i \in 1 .. d : early[1 + i] = news[i]
  BY <1>3, <1>4
<1>7a. r = early \o last
  BY <1>6, Zenon
<1> HIDE DEF r, early
<1>8. /\ r \in Seq(SUBSET Events) /\ Len(r) = 1 + d + Len(last) /\ r[1] = Recent(m, st)
      /\ \A i \in 1 .. d : r[1 + i] = news[i]
  <2>1. r \in Seq(SUBSET Events) /\ Len(r) = Len(early) + Len(last)
    BY <1>5, <1>7, <1>7a, ConcatProperties, Zenon
  <2>2. \A i \in 1 .. Len(early) : r[i] = early[i]
    BY <1>5, <1>7, <1>7a
  <2>3. 1 \in 1 .. Len(early) /\ \A i \in 1 .. d : 1 + i \in 1 .. Len(early)
    BY <1>7
  <2> QED BY <1>7, <2>1, <2>2, <2>3
<1>9. DOMAIN r = 1 .. Len(r) /\ Len(last) \in Nat /\ Len(r) \in Nat
  BY <1>5, <1>8
<1>10. \A i \in 1 .. Len(r) : r[i] \subseteq Mentioned(r)
  BY <1>9, Zenon DEF Mentioned, ToSet
<1>11. Recent(m, st) \subseteq Mentioned(r) /\ r # << >>
  <2>1. 1 \in 1 .. Len(r)
    BY <1>8, <1>9
  <2> QED BY <1>8, <1>10, <2>1
<1>12. ASSUME m <= LogCap, NEW e \in n + 1 .. m PROVE e \in Mentioned(r)
  <2>1. e - n \in 1 .. d /\ 1 + (e - n) \in 1 .. Len(r)
    BY <1>1, <1>8, <1>9, <1>12 DEF Events
  <2>2. news[e - n] = {e}
    BY <1>1, <1>2, <1>12, <2>1 DEF Events
  <2> QED BY <1>8, <1>10, <2>1, <2>2
<1> QED BY <1>8, <1>11, <1>12 DEF r

\* What a snapshot tells are events, and all of the latest SnapWindow.
LEMMA RecentTells ==
  ASSUME NEW n \in Events, NEW st
  PROVE  /\ Recent(n, st) \subseteq Events
         /\ \A m \in Nat : n - m <= SnapWindow => m + 1 .. n \subseteq Recent(n, st)
BY LiveAssumption DEF Recent, News, Higher, END, Events

\* What the answer to a command tells are events.
LEMMA DeltaTells ==
  ASSUME NEW n \in Events, NEW m \in Events, n <= m, NEW st
  PROVE  Delta(n, m) \cup News(st) \subseteq Events
<1>1. n \in Nat /\ m \in Nat /\ {END} \subseteq Events
  BY LiveAssumption DEF Events, END
<1>2. PICK d \in 0 .. m - n : Delta(n, m) = m - d + 1 .. m
  BY <1>1, DeltaFacts, Zenon
<1>3. m - d + 1 .. m \subseteq Events
  BY <1>1, LiveAssumption DEF Events
<1>4. News(st) \subseteq Events
  BY <1>1 DEF News
<1> QED BY <1>2, <1>3, <1>4

-----------------------------------------------------------------------------
(* The inductive invariant *)

Types ==
  /\ status \in {"waiting", "running", "ended", "deleted"} /\ total \in Events
  /\ sockets \subseteq Conns /\ up \in [Conns -> BOOLEAN]
  /\ conn \in [Conns -> {"new", "joining", "reading", "over"}]
  /\ first \in [Conns -> SUBSET Events] /\ since \in [Conns -> Events]
  /\ loop \in {"off", "sleep", "cast", "last", "dead"} /\ frames \in Seq(SUBSET Events)
  /\ orphan \in BOOLEAN /\ start \subseteq Conns /\ visited \subseteq Conns /\ failed \subseteq visited
  /\ before \in Nat /\ told \in Nat /\ before <= told /\ told <= total /\ quiet \in BOOLEAN
  /\ seen \in [Conns -> SUBSET Events]

\* A connection nobody has accepted is not registered, and not open.
Unmade == \A c \in Conns : conn[c] = "new" => c \notin sockets \cup visited /\ ~up[c]

\* A connection was not made after an event that is still to come.
SinceLogged == \A c \in Conns : since[c] <= total

\* A round has frames, and nothing else has; a match that waits has no loop.
Framed == (Casting <=> frames # << >>) /\ (status = "waiting" => loop = "off")

\* Who is done in the iteration has the frame, or is down; who failed is down.
Reached == \A c \in visited : up[c] => Head(frames) \subseteq seen[c]
FailedGone == \A c \in failed : ~up[c]

\* What a connection has not been written yet of what it is to be told, the round
\* that is under way still holds, and the iteration knows the connection.
Owed(c) ==
  up[c] /\ since[c] < told =>
    /\ since[c] <= before
    /\ Casting => c \in start
    /\ told <= LogCap => before + 1 .. told \subseteq seen[c] \cup Mentioned(frames)
    /\ quiet => since[c] + 1 .. told \subseteq seen[c] \cup Mentioned(frames)

Told == \A c \in sockets : Owed(c)

LiveInv ==
  /\ Types /\ Unmade /\ SinceLogged /\ Framed
  /\ (Casting => Reached) /\ FailedGone /\ Told

LEMMA LiveInvInit == Init => LiveInv
<1> SUFFICES ASSUME Init PROVE LiveInv
  OBVIOUS
<1>1. 0 \in Events /\ << >> \in Seq(SUBSET Events)
  BY LiveAssumption DEF Events
<1>2. Types
  <2>1. /\ conn \in [Conns -> {"new", "joining", "reading", "over"}] /\ up \in [Conns -> BOOLEAN]
        /\ first \in [Conns -> SUBSET Events] /\ since \in [Conns -> Events]
        /\ seen \in [Conns -> SUBSET Events] /\ frames \in Seq(SUBSET Events)
    BY <1>1, Zenon DEF Init
  <2>2. /\ status \in {"waiting", "running", "ended", "deleted"}
        /\ loop \in {"off", "sleep", "cast", "last", "dead"}
        /\ orphan \in BOOLEAN /\ quiet \in BOOLEAN
    BY Zenon DEF Init
  <2>3. /\ sockets \subseteq Conns /\ start \subseteq Conns /\ visited \subseteq Conns
        /\ failed \subseteq visited
    BY Zenon DEF Init
  <2>4. /\ total \in Events /\ before \in Nat /\ told \in Nat
        /\ before <= told /\ told <= total
    BY <1>1 DEF Init
  <2> QED BY <2>1, <2>2, <2>3, <2>4, Zenon DEF Types
<1>3. Unmade /\ SinceLogged /\ Framed /\ FailedGone /\ Told /\ ~Casting
  BY DEF Init, Unmade, SinceLogged, Framed, FailedGone, Told, Casting
<1> QED BY <1>2, <1>3 DEF LiveInv

-----------------------------------------------------------------------------
(* Steps of the connections, and requests: the loop stands *)

\* What has been written is there, for a connection that was open and registered
\* before; one that is made now is owed nothing.
Kept(c) ==
  up'[c] =>
    \/ up[c] /\ since'[c] = since[c] /\ seen[c] \subseteq seen'[c] /\ (c \in sockets' => c \in sockets)
    \/ c \notin visited /\ since'[c] >= told

LEMMA LoopStands ==
  ASSUME LiveInv, UNCHANGED <<loop, frames, start, visited, failed, before, told, quiet>>,
         sockets' \subseteq Conns, since' \in [Conns -> Events],
         \A c \in Conns : Kept(c)
  PROVE  (Casting' => Reached') /\ FailedGone' /\ Told'
<1>1. Casting' <=> Casting
  BY DEF Casting
<1>2. Casting => Reached'
  BY DEF LiveInv, Types, Reached, Kept
<1>3. FailedGone'
  BY DEF LiveInv, Types, FailedGone, Kept
<1>4. ASSUME NEW c \in sockets', up'[c], since'[c] < told' PROVE Owed(c)'
  <2>1. c \in sockets /\ up[c] /\ since'[c] = since[c] /\ seen[c] \subseteq seen'[c]
    BY <1>4, LiveAssumption DEF Kept, LiveInv, Types, Events
  <2>2. /\ since[c] <= before
        /\ Casting => c \in start
        /\ told <= LogCap => before + 1 .. told \subseteq seen[c] \cup Mentioned(frames)
        /\ quiet => since[c] + 1 .. told \subseteq seen[c] \cup Mentioned(frames)
    BY <1>4, <2>1 DEF LiveInv, Told, Owed
  <2>3. Mentioned(frames)' = Mentioned(frames)
    BY DEF Mentioned
  <2> HIDE DEF Mentioned
  <2> QED BY <1>1, <2>1, <2>2, <2>3 DEF Owed
<1> QED BY <1>1, <1>2, <1>3, <1>4 DEF Told, Owed
LEMMA RequestKeeps == LiveInv /\ Request => LiveInv'
<1> SUFFICES ASSUME LiveInv, Request PROVE LiveInv'
  OBVIOUS
<1> USE DEF Request, Log, MayEnd, socketVars, loopVars, LiveInv
<1>1. total <= total' /\ total' \in Events
  BY LiveAssumption DEF Types, Events
<1>2. Types'
  BY <1>1 DEF Types, Events
<1>3. Unmade' /\ SinceLogged' /\ Framed'
  BY <1>1 DEF Unmade, SinceLogged, Framed, Casting, Types, Events
<1>4. \A c \in Conns : Kept(c)
  BY DEF Kept
<1> QED BY <1>2, <1>3, <1>4, LoopStands DEF Types

LEMMA StartKeeps == LiveInv /\ Start => LiveInv'
<1> SUFFICES ASSUME LiveInv, Start PROVE LiveInv'
  OBVIOUS
<1> USE DEF Start, Log, socketVars, LiveInv
<1>1. total <= total' /\ total' \in Events
  BY LiveAssumption DEF Types, Events
<1>2. Types'
  BY <1>1 DEF Types, Events
<1>3. ~Casting /\ ~Casting' /\ Unmade' /\ SinceLogged' /\ Framed' /\ FailedGone'
  BY <1>1 DEF Unmade, SinceLogged, Framed, Casting, FailedGone, Types, Events
<1>4. Told'
  BY <1>3 DEF Told, Owed, Mentioned
<1> QED BY <1>2, <1>3, <1>4

LEMMA DeleteKeeps == LiveInv /\ Delete => LiveInv'
<1> SUFFICES ASSUME LiveInv, Delete PROVE LiveInv'
  OBVIOUS
<1> USE DEF Delete, loopVars, LiveInv
<1>1. Types'
  BY DEF Types
<1>2. ~Casting' /\ Unmade' /\ SinceLogged' /\ Framed' /\ FailedGone' /\ Told'
  BY DEF Unmade, SinceLogged, Framed, Casting, FailedGone, Told
<1> QED BY <1>1, <1>2

LEMMA AcceptKeeps == ASSUME NEW c \in Conns PROVE LiveInv /\ Accept(c) => LiveInv'
<1> SUFFICES ASSUME LiveInv, Accept(c) PROVE LiveInv'
  OBVIOUS
<1> USE DEF Accept, loopVars, LiveInv
<1>1. Recent(total, status) \subseteq Events
  BY RecentTells DEF Types
<1>2. Types'
  BY <1>1 DEF Types
<1>3. Unmade' /\ SinceLogged' /\ Framed'
  BY LiveAssumption DEF Unmade, SinceLogged, Framed, Casting, Types, Events
<1>4. \A d \in Conns : Kept(d)
  BY DEF Kept, Types, Unmade
<1> QED BY <1>2, <1>3, <1>4, LoopStands DEF Types

LEMMA RejectKeeps == ASSUME NEW c \in Conns PROVE LiveInv /\ Reject(c) => LiveInv'
<1> SUFFICES ASSUME LiveInv, Reject(c) PROVE LiveInv'
  OBVIOUS
<1> USE DEF Reject, loopVars, LiveInv
<1>1. Types'
  BY DEF Types
<1>2. Unmade' /\ SinceLogged' /\ Framed'
  BY DEF Unmade, SinceLogged, Framed, Casting, Types
<1>3. \A d \in Conns : Kept(d)
  BY DEF Kept, Types, Unmade
<1> QED BY <1>1, <1>2, <1>3, LoopStands DEF Types

LEMMA FirstSnapshotKeeps == ASSUME NEW c \in Conns PROVE LiveInv /\ FirstSnapshot(c) => LiveInv'
<1> SUFFICES ASSUME LiveInv, FirstSnapshot(c) PROVE LiveInv'
  OBVIOUS
<1> USE DEF FirstSnapshot, loopVars, LiveInv
<1>1. seen' \in [Conns -> SUBSET Events] /\ \A d \in Conns : seen[d] \subseteq seen'[d]
  BY DEF Types
<1>2. Types'
  BY <1>1 DEF Types
<1>3. Unmade' /\ SinceLogged' /\ Framed'
  BY DEF Unmade, SinceLogged, Framed, Casting, Types
<1>4. \A d \in Conns : Kept(d)
  BY <1>1 DEF Kept
<1> QED BY <1>2, <1>3, <1>4, LoopStands DEF Types

LEMMA CommandKeeps == ASSUME NEW c \in Conns PROVE LiveInv /\ Command(c) => LiveInv'
<1> SUFFICES ASSUME LiveInv, Command(c) PROVE LiveInv'
  OBVIOUS
<1> USE DEF Command, Log, MayEnd, socketVars, loopVars, LiveInv
<1>1. total <= total' /\ total' \in Events
  BY LiveAssumption DEF Types, Events
<1>2. Delta(total, total') \cup News(status') \subseteq Events
  BY <1>1, DeltaTells DEF Types
<1>3. seen' \in [Conns -> SUBSET Events] /\ \A d \in Conns : seen[d] \subseteq seen'[d]
  BY <1>2 DEF Types
<1>4. Types'
  BY <1>1, <1>3 DEF Types, Events
<1>5. Unmade' /\ SinceLogged' /\ Framed'
  BY <1>1 DEF Unmade, SinceLogged, Framed, Casting, Types, Events
<1>6. \A d \in Conns : Kept(d)
  BY <1>3 DEF Kept
<1> QED BY <1>4, <1>5, <1>6, LoopStands DEF Types

LEMMA CloseKeeps ==
  ASSUME NEW c \in Conns, LiveInv, conn[c] # "new", Close(c),
         conn' \in [Conns -> {"new", "joining", "reading", "over"}],
         \A d \in Conns : conn'[d] = "new" => conn[d] = "new",
         UNCHANGED <<status, total, sockets, loopVars>>
  PROVE  LiveInv'
<1> USE DEF Close, loopVars, LiveInv
<1>1. 0 \in Events
  BY LiveAssumption DEF Events
<1>2. first' \in [Conns -> SUBSET Events] /\ since' \in [Conns -> Events]
      /\ seen' \in [Conns -> SUBSET Events] /\ up' \in [Conns -> BOOLEAN]
      /\ ~up'[c] /\ since'[c] = 0
      /\ \A d \in Conns \ {c} : up'[d] = up[d] /\ since'[d] = since[d] /\ seen'[d] = seen[d]
  BY <1>1 DEF Types
<1>3. Types'
  BY <1>2 DEF Types
<1>4. Unmade' /\ SinceLogged' /\ Framed'
  BY <1>2 DEF Unmade, SinceLogged, Framed, Casting, Types, Events
<1>5. \A d \in Conns : Kept(d)
  BY <1>2 DEF Kept
<1> QED BY <1>3, <1>4, <1>5, LoopStands DEF Types

LEMMA BadFrameKeeps == ASSUME NEW c \in Conns PROVE LiveInv /\ BadFrame(c) => LiveInv'
BY CloseKeeps DEF BadFrame, LiveInv, Types

LEMMA HangUpKeeps == ASSUME NEW c \in Conns PROVE LiveInv /\ HangUp(c) => LiveInv'
BY CloseKeeps DEF HangUp, LiveInv, Types

LEMMA DisconnectKeeps == ASSUME NEW c \in Conns PROVE LiveInv /\ Disconnect(c) => LiveInv'
<1> SUFFICES ASSUME LiveInv, Disconnect(c) PROVE LiveInv'
  OBVIOUS
<1> USE DEF Disconnect, LiveInv
<1>1. orphan' \in BOOLEAN
  BY Zenon DEF Types, Casting
<1>2. Types'
  BY <1>1 DEF Types
<1>3. Unmade' /\ SinceLogged' /\ Framed'
  BY DEF Unmade, SinceLogged, Framed, Casting, Types
<1>4. \A d \in Conns : Kept(d)
  BY DEF Kept
<1> QED BY <1>2, <1>3, <1>4, LoopStands DEF Types
-----------------------------------------------------------------------------
(* Steps of the loop *)

\* The frames fs are next, for the sockets ss, and those are owed nothing that fs does
\* not hold: what a tick and the end of a frame have in common.
LEMMA RoundGoesOn ==
  ASSUME NEW fs \in Seq(SUBSET Events), NEW ss \in SUBSET Conns, NEW ended,
         GoOn(fs, ss, ended)
  PROVE  /\ frames' \in Seq(SUBSET Events) /\ loop' \in {"off", "sleep", "cast", "last"}
         /\ start' \subseteq Conns /\ visited' = {} /\ failed' = {} /\ orphan' \in BOOLEAN
         /\ Casting' <=> frames' # << >>
         /\ Casting' => start' = ss
         /\ ss # {} => frames' = fs
<1>1. << >> \in Seq(SUBSET Events) /\ orphan' \in BOOLEAN
  <2>1. orphan' \in BOOLEAN
    BY Zenon DEF GoOn
  <2> QED BY <2>1
<1>2. CASE fs = << >> \/ ss = {}
  <2>1. frames' = << >> /\ start' = {} /\ loop' \in {"off", "sleep"}
    BY <1>2 DEF GoOn
  <2> QED BY <1>1, <1>2, <2>1 DEF GoOn, Casting
<1>3. CASE fs # << >> /\ ss # {}
  <2>1. frames' = fs /\ start' = ss /\ loop' \in {"last", "cast"}
    BY <1>3 DEF GoOn
  <2> QED BY <1>3, <2>1 DEF GoOn, Casting
<1> QED BY <1>2, <1>3

LEMMA TickKeeps == LiveInv /\ Tick => LiveInv'
<1> SUFFICES ASSUME LiveInv, Tick PROVE LiveInv'
  OBVIOUS
<1> USE DEF Tick, Log, MayEnd, socketVars, LiveInv
<1>1. total <= total' /\ total' \in Events /\ before' = total /\ told' = total'
  BY LiveAssumption DEF Types, Events
<1> DEFINE round == Round(total, total', status')
<1>2. /\ round \in Seq(SUBSET Events) /\ round # << >>
      /\ Recent(total', status') \subseteq Mentioned(round)
      /\ total' <= LogCap => total + 1 .. total' \subseteq Mentioned(round)
  BY <1>1, RoundTells DEF Types
<1>3. /\ frames' \in Seq(SUBSET Events) /\ loop' \in {"off", "sleep", "cast", "last"}
      /\ start' \subseteq Conns /\ visited' = {} /\ failed' = {} /\ orphan' \in BOOLEAN
      /\ Casting' <=> frames' # << >>
      /\ Casting' => start' = sockets
      /\ sockets # {} => frames' = round
  BY <1>2, RoundGoesOn DEF Types
<1> HIDE DEF round
<1>4. quiet' \in BOOLEAN /\ (quiet' => quiet /\ total' - told <= SnapWindow)
  BY Zenon DEF Types
<1>5. Types'
  BY <1>1, <1>3, <1>4 DEF Types, Events
<1>6. Unmade' /\ SinceLogged' /\ Framed' /\ Reached' /\ FailedGone'
  BY <1>1, <1>3 DEF Unmade, SinceLogged, Framed, Reached, FailedGone, Types, Events
<1>7. ASSUME NEW c \in sockets, up[c], since[c] < told' PROVE Owed(c)'
  <2>1. since[c] <= before' /\ (Casting' => c \in start') /\ frames' = round
    BY <1>1, <1>3, <1>7 DEF SinceLogged, Types
  <2>2. told' <= LogCap => before' + 1 .. told' \subseteq Mentioned(round)
    BY <1>1, <1>2
  <2>3. ASSUME quiet' PROVE since[c] + 1 .. told' \subseteq seen[c] \cup Mentioned(round)
    <3>1. told + 1 .. total' \subseteq Mentioned(round)
      BY <1>1, <1>2, <1>4, <2>3, RecentTells DEF Types
    <3>2. since[c] + 1 .. told \subseteq seen[c]
      <4>1. CASE since[c] < told
        BY <1>4, <1>7, <2>3, <4>1, NothingLeft DEF Told, Owed, Framed, Casting
      <4>2. CASE ~(since[c] < told)
        BY <4>2 DEF Types, Events
      <4> QED BY <4>1, <4>2
    <3> QED BY <1>1, <3>1, <3>2 DEF Types, Events
  <2> QED BY <2>1, <2>2, <2>3 DEF Owed, Mentioned
<1>8. Told'
  BY <1>1, <1>7 DEF Told, Owed
<1> QED BY <1>5, <1>6, <1>8

LEMMA LoopDiesKeeps == LiveInv /\ LoopDies => LiveInv'
<1> SUFFICES ASSUME LiveInv, LoopDies PROVE LiveInv'
  OBVIOUS
<1> USE DEF LoopDies, socketVars, LiveInv
<1>1. Types'
  <2>1. orphan' \in BOOLEAN
    BY Zenon
  <2> QED BY <2>1, LiveAssumption DEF Types, Events
<1>2. ~Casting' /\ Unmade' /\ SinceLogged' /\ FailedGone'
  BY DEF Unmade, SinceLogged, Casting, FailedGone
<1>3. Framed'
  BY <1>2 DEF Framed, Casting
<1>4. Told'
  BY LiveAssumption DEF Told, Owed, Types, Events
<1> QED BY <1>1, <1>2, <1>3, <1>4

LEMMA SendKeeps == ASSUME NEW c \in Conns PROVE LiveInv /\ Send(c) => LiveInv'
<1> SUFFICES ASSUME LiveInv, Send(c) PROVE LiveInv'
  OBVIOUS
<1>1. /\ Types /\ Unmade /\ SinceLogged /\ Framed /\ FailedGone /\ Told
      /\ Casting /\ Reached /\ c \in sockets
      /\ visited' = visited \cup {c} /\ failed' \in {failed, failed \cup {c}}
      /\ up[c] => failed' = failed /\ seen' = [seen EXCEPT ![c] = @ \cup Head(frames)]
      /\ ~up[c] => seen' = seen
      /\ UNCHANGED <<status, total, socketVars, loop, frames, start, orphan, before, told, quiet>>
  BY DEF Send, LiveInv
<1>2. Head(frames) \subseteq Events
  BY <1>1, NextFrame DEF Types, Framed
<1>3. /\ seen' \in [Conns -> SUBSET Events] /\ \A d \in Conns : seen[d] \subseteq seen'[d]
      /\ up[c] => Head(frames) \subseteq seen'[c]
  BY <1>1, <1>2 DEF Types
<1>4. Types'
  BY <1>1, <1>3 DEF Types, socketVars
<1>5. Casting' /\ Unmade' /\ SinceLogged' /\ Framed' /\ FailedGone'
  BY <1>1 DEF Unmade, SinceLogged, Framed, FailedGone, Casting, Types, socketVars
<1>6. Reached'
  BY <1>1, <1>3 DEF Reached, Types, socketVars
<1>7. ASSUME NEW d \in sockets' PROVE Owed(d)'
  <2>1. d \in Conns /\ Owed(d) /\ seen[d] \subseteq seen'[d]
    BY <1>1, <1>3 DEF Told, Types, socketVars
  <2>2. Mentioned(frames)' = Mentioned(frames)
    BY <1>1 DEF Mentioned
  <2> QED BY <1>1, <1>5, <2>1, <2>2 DEF Owed, socketVars
<1> QED BY <1>4, <1>5, <1>6, <1>7 DEF Told, LiveInv

LEMMA EndFrameKeeps == LiveInv /\ EndFrame => LiveInv'
<1> SUFFICES ASSUME LiveInv, EndFrame PROVE LiveInv'
  OBVIOUS
<1> USE DEF EndFrame, LiveInv
<1>1. /\ Tail(frames) \in Seq(SUBSET Events) /\ Alive \in SUBSET Conns
      /\ Mentioned(frames) = Head(frames) \cup Mentioned(Tail(frames))
  BY NextFrame DEF Types, Framed, Alive
<1>2. /\ frames' \in Seq(SUBSET Events) /\ loop' \in {"off", "sleep", "cast", "last"}
      /\ start' \subseteq Conns /\ visited' = {} /\ failed' = {} /\ orphan' \in BOOLEAN
      /\ Casting' <=> frames' # << >>
      /\ Casting' => start' = Alive
      /\ Alive # {} => frames' = Tail(frames)
  <2> DEFINE ended == loop = "last"
  <2>1. GoOn(Tail(frames), Alive, ended)
    OBVIOUS
  <2> HIDE DEF ended, EndFrame, LiveInv
  <2> QED BY <1>1, <2>1, RoundGoesOn
<1>3. Types'
  BY <1>1, <1>2 DEF Types
<1>4. Unmade' /\ SinceLogged' /\ Framed' /\ Reached' /\ FailedGone'
  BY <1>2 DEF Unmade, SinceLogged, Framed, Casting, Reached, FailedGone, Alive
<1>5. ASSUME NEW c \in Alive, up[c], since[c] < told PROVE Owed(c)'
  <2>1. c \in sockets /\ c \in Conns /\ Owed(c)
    BY DEF Told, Alive, Types
  <2>2. Head(frames) \subseteq seen[c]
    BY <1>5, <2>1 DEF Owed, Reached
  <2>3. seen[c] \cup Mentioned(frames) = seen[c] \cup Mentioned(Tail(frames))
    BY <1>1, <2>2
  <2>4. frames' = Tail(frames) /\ (Casting' => c \in start')
    BY <1>2
  <2>5. Mentioned(frames)' = Mentioned(Tail(frames))
    BY <2>4 DEF Mentioned
  <2> QED BY <1>5, <2>1, <2>3, <2>4, <2>5 DEF Owed
<1>6. Told'
  BY <1>5 DEF Told, Owed, Alive
<1> QED BY <1>3, <1>4, <1>6

-----------------------------------------------------------------------------
(* The theorems *)

LEMMA LiveInvNext == LiveInv /\ [Next]_vars => LiveInv'
<1> SUFFICES ASSUME LiveInv, [Next]_vars PROVE LiveInv'
  OBVIOUS
<1>1. CASE Request
  BY <1>1, RequestKeeps
<1>2. CASE Start
  BY <1>2, StartKeeps
<1>3. CASE Delete
  BY <1>3, DeleteKeeps
<1>4. ASSUME NEW c \in Conns,
             \/ Accept(c) \/ Reject(c) \/ FirstSnapshot(c) \/ Command(c)
             \/ BadFrame(c) \/ HangUp(c) \/ Disconnect(c) \/ Send(c)
      PROVE  LiveInv'
  BY <1>4, AcceptKeeps, RejectKeeps, FirstSnapshotKeeps, CommandKeeps, BadFrameKeeps,
     HangUpKeeps, DisconnectKeeps, SendKeeps, Zenon
<1>5. CASE Tick
  BY <1>5, TickKeeps
<1>6. CASE LoopDies
  BY <1>6, LoopDiesKeeps
<1>7. CASE EndFrame
  BY <1>7, EndFrameKeeps
<1>8. CASE UNCHANGED vars
  <2>1. \A c \in Conns : Kept(c)
    BY <1>8 DEF vars, socketVars, loopVars, Kept
  <2>2. Types' /\ Unmade' /\ SinceLogged' /\ Framed'
    BY <1>8 DEF vars, socketVars, loopVars, LiveInv, Types, Unmade, SinceLogged, Framed, Casting
  <2> QED BY <1>8, <2>1, <2>2, LoopStands DEF vars, socketVars, loopVars, LiveInv, Types
<1> QED BY <1>1, <1>2, <1>3, <1>4, <1>5, <1>6, <1>7, <1>8, Zenon DEF Next

LEMMA LiveInvHolds == Spec => []LiveInv
BY LiveInvInit, LiveInvNext, PTL DEF Spec

\* The state of the broadcaster, of the loop and of every connection is well formed, and
\* the counters of a round are in order, whoever comes, goes or fails meanwhile.
THEOREM LiveTypes == Spec => []TypeOK
<1>1. LiveInv => TypeOK
  BY DEF LiveInv, Types, TypeOK, ToSet, Events
<1> QED BY <1>1, LiveInvHolds, PTL

\* As long as no more than SnapWindow events are logged from tick to tick, a connection
\* has been written every event since it was accepted when a round is over, for any
\* number of connections that join and leave in the middle of rounds.
THEOREM ConnectedMissNothing == Spec => []NothingMissed
<1>1. ASSUME LiveInv, quiet, loop \in {"sleep", "off"}, NEW c \in sockets, up[c]
      PROVE  since[c] + 1 .. told \subseteq seen[c]
  <2>1. frames = << >>
    BY <1>1 DEF LiveInv, Framed, Casting
  <2>2. CASE since[c] < told
    BY <1>1, <2>1, <2>2, NothingLeft DEF LiveInv, Told, Owed
  <2>3. CASE ~(since[c] < told)
    BY <1>1, <2>3 DEF LiveInv, Types, Events
  <2> QED BY <2>2, <2>3
<1>2. LiveInv => NothingMissed
  BY <1>1 DEF NothingMissed
<1> QED BY <1>2, LiveInvHolds, PTL

\* What a tick logs reaches every connection, however much it is, until the log is full:
\* whatever the snapshot leaves out, the frames of the round hold.
THEOREM TicksReachAll == Spec => []TicksAreTold
<1>1. ASSUME LiveInv, told <= LogCap, loop \in {"sleep", "off"}, NEW c \in sockets, up[c]
      PROVE  Higher(since[c], before) + 1 .. told \subseteq seen[c]
  <2>1. frames = << >>
    BY <1>1 DEF LiveInv, Framed, Casting
  <2>2. CASE since[c] < told
    BY <1>1, <2>1, <2>2, NothingLeft DEF LiveInv, Types, Events, Told, Owed, Higher
  <2>3. CASE ~(since[c] < told)
    BY <1>1, <2>3 DEF LiveInv, Types, Events, Higher
  <2> QED BY <2>2, <2>3
<1>2. LiveInv => TicksAreTold
  BY <1>1 DEF TicksAreTold
<1> QED BY <1>2, LiveInvHolds, PTL
=============================================================================
