--------------------------- MODULE UnlockPromise ---------------------------
(***************************************************************************)
(* What the unlock waves promise the players, without clocks, windows and  *)
(* ticks: kinds are never taken back, a wave gives a player one kind at    *)
(* most, of those it offers or the soldier, and once everything is         *)
(* unlocked it stays so.                                                   *)
(***************************************************************************)
CONSTANTS Players, Kinds, Waves,
          Offers   \* [Waves -> SUBSET Kinds]

VARIABLES
  held,    \* the kinds of each player
  spent    \* the waves that have given each player a kind

Init ==
  /\ held = [o \in Players |-> {"soldier"}]
  /\ spent = [o \in Players |-> {}]

Gains(o, w) ==
  /\ w \notin spent[o] /\ spent'[o] = spent[o] \cup {w}
  /\ \E kind \in Offers[w] \cup {"soldier"} : held'[o] = held[o] \cup {kind}

Keeps(o) == held'[o] = held[o] /\ spent'[o] = spent[o]

\* Wave w gives one player or both a kind.
Grant(w) ==
  /\ held' \in [Players -> SUBSET Kinds] /\ spent' \in [Players -> SUBSET Waves]
  /\ \A o \in Players : Gains(o, w) \/ Keeps(o)

UnlockAll ==
  /\ held' = [o \in Players |-> Kinds]
  /\ UNCHANGED spent

Next == (\E w \in Waves : Grant(w)) \/ UnlockAll

Spec == Init /\ [][Next]_<<held, spent>>
=============================================================================
